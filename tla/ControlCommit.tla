---------------------------- MODULE ControlCommit ----------------------------
(***************************************************************************)
(* How as-control commits a mutation and tells the long polls about it:    *)
(* the queue for the single mutation permit, the state lock held across    *)
(* the SQLite transaction, the in-memory state that follows it, the two    *)
(* Notify objects, and the watches that wait for a newer revision.         *)
(*                                                                         *)
(* Module Control has what the mutations do; here a mutation adds or       *)
(* removes one endpoint id, or changes neither (a quiet renewal, another   *)
(* topology change).  Requests from the network queue for the permit and   *)
(* then run in a task of their own, which a caller that hangs up does not  *)
(* cancel; the local commands and the cleanup go straight for the lock.    *)
(***************************************************************************)
EXTENDS Naturals, FiniteSets

CONSTANTS
    Nodes, RelayNodes,       \* endpoint ids, and those of Relays among them
    Mutations, Watches,      \* requests, each served once
    MutationWaiting,         \* MUTATION_WAITING
    WatchesPerEndpoint       \* WATCHES_PER_ENDPOINT

ASSUME LimitAssumption ==
    /\ RelayNodes \subseteq Nodes
    /\ MutationWaiting \in Nat /\ WatchesPerEndpoint \in Nat
ASSUME RequestAssumption ==
    /\ IsFiniteSet(Nodes) /\ IsFiniteSet(Mutations) /\ IsFiniteSet(Watches)
    /\ "free" \notin Mutations

VARIABLES
    up,
    db,          \* the database: [members, node, relay] with the two revisions
    mem,         \* ControlState, guarded by the state lock
    lock,        \* the mutation that holds the state lock, or "free"
    waiting,     \* permits of mutation_waiting in use
    active,      \* permits of mutation_active in use
    mutation,    \* mutation[m]
    counts,      \* WatchRegistry
    watch,       \* watch[w]
    told         \* history: the newest revision of each kind given to a watch

vars == <<up, db, mem, lock, waiting, active, mutation, counts, watch, told>>

Feeds == {"node", "relay"}
State == [members : SUBSET Nodes, node : Nat, relay : Nat]

\* What a mutation does to the state, and the feeds it is published to.  Enrolment
\* is news for the nodes, a removal for the Relays as well, a renewal for nobody.
Changes ==
    {[add |-> {n}, del |-> {}, publish |-> {"node"}] : n \in Nodes}
    \cup {[add |-> {}, del |-> {n}, publish |-> Feeds] : n \in Nodes}
    \cup {[add |-> {}, del |-> {}, publish |-> p] : p \in {{}, {"node"}}}

Bump(rev, feed, ch) == IF feed \in ch.publish THEN rev + 1 ELSE rev
After(s, ch) ==
    [members |-> (s.members \cup ch.add) \ ch.del,
     node |-> Bump(s.node, "node", ch), relay |-> Bump(s.relay, "relay", ch)]

-----------------------------------------------------------------------------
\* admitted(): a place in the queue, or an answer to retry later.
Queue(m) ==
    /\ up /\ mutation[m].at = "new" /\ waiting < MutationWaiting
    /\ waiting' = waiting + 1
    /\ mutation' = [mutation EXCEPT ![m].at = "queued"]
    /\ UNCHANGED <<up, db, mem, lock, active, counts, watch, told>>

\* The wait times out, or the caller hangs up while queued.
GiveUp(m) ==
    /\ mutation[m].at = "queued"
    /\ waiting' = waiting - 1
    /\ mutation' = [mutation EXCEPT ![m].at = "done"]
    /\ UNCHANGED <<up, db, mem, lock, active, counts, watch, told>>

Admit(m) ==
    /\ mutation[m].at = "queued" /\ active = 0
    /\ waiting' = waiting - 1
    /\ active' = 1
    /\ mutation' = [mutation EXCEPT ![m].at = "ready", ![m].public = TRUE]
    /\ UNCHANGED <<up, db, mem, lock, counts, watch, told>>

\* A local command or the cleanup loop: no queue, no permit.
Local(m) ==
    /\ up /\ mutation[m].at = "new"
    /\ mutation' = [mutation EXCEPT ![m].at = "ready"]
    /\ UNCHANGED <<up, db, mem, lock, waiting, active, counts, watch, told>>

\* The checks of the handler, under the state lock: only what is absent is added
\* and only what is there is removed.
Decide(m, ch) ==
    /\ mutation[m].at = "ready" /\ lock = "free"
    /\ ch.add \cap mem.members = {} /\ ch.del \subseteq mem.members
    /\ lock' = m
    /\ mutation' = [mutation EXCEPT ![m].at = "decided", ![m].change = ch]
    /\ UNCHANGED <<up, db, mem, waiting, active, counts, watch, told>>

Finished(m) ==
    /\ lock' = "free"
    /\ active' = IF mutation[m].public THEN 0 ELSE active
    /\ mutation' = [mutation EXCEPT ![m].at = "done"]

\* The handler refuses the request, or finds nothing to do.
Refuse(m) ==
    /\ mutation[m].at = "ready" /\ lock = "free"
    /\ Finished(m)
    /\ UNCHANGED <<up, db, mem, waiting, counts, watch, told>>

\* apply_delta: one transaction, whose UPDATE insists on the revisions in memory.
Store(m) ==
    /\ mutation[m].at = "decided"
    /\ db.node = mem.node /\ db.relay = mem.relay
    /\ db' = After(db, mutation[m].change)
    /\ mutation' = [mutation EXCEPT ![m].at = "stored"]
    /\ UNCHANGED <<up, mem, lock, waiting, active, counts, watch, told>>

\* The transaction fails: nothing has changed, memory included.
StoreFails(m) ==
    /\ mutation[m].at = "decided"
    /\ Finished(m)
    /\ UNCHANGED <<up, db, mem, waiting, counts, watch, told>>

Notified(publish) ==
    [w \in Watches |-> IF watch[w].armed /\ watch[w].feed \in publish
                       THEN [watch[w] EXCEPT !.armed = FALSE, !.woken = TRUE] ELSE watch[w]]

\* Faulty forms: a caller that hangs up cancels the rest of commit_delta; removals
\* are not announced to the feed of the Relays.
Apply_Cancelled(m) ==
    /\ mutation[m].at = "stored"
    /\ \/ mem' = After(mem, mutation[m].change) /\ watch' = Notified(mutation[m].change.publish)
       \/ UNCHANGED <<mem, watch>>
    /\ Finished(m)
    /\ UNCHANGED <<up, db, waiting, counts, told>>
Apply_NodesOnly(m) ==
    /\ mutation[m].at = "stored"
    /\ mem' = After(mem, mutation[m].change)
    /\ watch' = Notified(mutation[m].change.publish \ {"relay"})
    /\ Finished(m)
    /\ UNCHANGED <<up, db, waiting, counts, told>>

\* delta.apply, the new revisions, and notify_waiters.
Apply(m) ==
    /\ mutation[m].at = "stored"
    /\ mem' = After(mem, mutation[m].change)
    /\ watch' = Notified(mutation[m].change.publish)
    /\ Finished(m)
    /\ UNCHANGED <<up, db, waiting, counts, told>>

-----------------------------------------------------------------------------
\* A watch names the revision it knows, at most the current one.
WatchStart(w, n, known) ==
    /\ up /\ watch[w].at = "new" /\ counts[n] < WatchesPerEndpoint
    /\ counts' = [counts EXCEPT ![n] = @ + 1]
    /\ watch' = [watch EXCEPT ![w] =
         [at |-> "arming", node |-> n, feed |-> IF n \in RelayNodes THEN "relay" ELSE "node",
          known |-> known, armed |-> FALSE, woken |-> FALSE]]
    /\ UNCHANGED <<up, db, mem, lock, waiting, active, mutation, told>>

\* Faulty form: the wait is prepared after the check, so that what is published in
\* between is missed.
WatchArm_AfterCheck(w) ==
    /\ \/ /\ watch[w].at = "arming"
          /\ watch' = [watch EXCEPT ![w].at = "checking", ![w].woken = FALSE]
       \/ /\ watch[w].at = "asleep" /\ ~watch[w].armed /\ ~watch[w].woken
          /\ watch' = [watch EXCEPT ![w].armed = TRUE]
    /\ UNCHANGED <<up, db, mem, lock, waiting, active, mutation, counts, told>>

\* changed.notified() comes before the check.
WatchArm(w) ==
    /\ watch[w].at = "arming"
    /\ watch' = [watch EXCEPT ![w].at = "checking", ![w].armed = TRUE, ![w].woken = FALSE]
    /\ UNCHANGED <<up, db, mem, lock, waiting, active, mutation, counts, told>>

WatchEnd(w) ==
    /\ counts' = [counts EXCEPT ![watch[w].node] = @ - 1]
    /\ watch' = [watch EXCEPT ![w].at = "done", ![w].armed = FALSE]

\* Under the lock: a stranger is refused, a newer revision is news, or it sleeps.
WatchCheck(w) ==
    /\ watch[w].at = "checking" /\ lock = "free"
    /\ \/ /\ watch[w].node \notin mem.members
          /\ WatchEnd(w)
       \/ /\ watch[w].node \in mem.members
          /\ mem[watch[w].feed] > watch[w].known
          /\ watch' = [watch EXCEPT ![w].at = "news", ![w].armed = FALSE]
          /\ UNCHANGED counts
       \/ /\ watch[w].node \in mem.members
          /\ mem[watch[w].feed] <= watch[w].known
          /\ watch' = [watch EXCEPT ![w].at = "asleep"]
          /\ UNCHANGED counts
    /\ UNCHANGED <<up, db, mem, lock, waiting, active, mutation, told>>

WatchWake(w) ==
    /\ watch[w].at = "asleep" /\ watch[w].woken
    /\ watch' = [watch EXCEPT ![w].at = "arming"]
    /\ UNCHANGED <<up, db, mem, lock, waiting, active, mutation, counts, told>>

\* Faulty form: a watch that times out is counted for ever.
WatchTimeout_KeepsCount(w) ==
    /\ watch[w].at \notin {"new", "done"}
    /\ watch' = [watch EXCEPT ![w].at = "done", ![w].armed = FALSE]
    /\ UNCHANGED <<up, db, mem, lock, waiting, active, mutation, counts, told>>

\* After 30 seconds of sleep the answer is 204; a caller may hang up at any point.
WatchTimeout(w) ==
    /\ watch[w].at \notin {"new", "done"}
    /\ WatchEnd(w)
    /\ UNCHANGED <<up, db, mem, lock, waiting, active, mutation, told>>

\* The lock is taken again for the answer; a node removed in between gets an error.
WatchAnswer(w) ==
    /\ watch[w].at = "news" /\ lock = "free"
    /\ told' = IF watch[w].node \in mem.members /\ mem[watch[w].feed] > told[watch[w].feed]
               THEN [told EXCEPT ![watch[w].feed] = mem[watch[w].feed]] ELSE told
    /\ WatchEnd(w)
    /\ UNCHANGED <<up, db, mem, lock, waiting, active, mutation>>

-----------------------------------------------------------------------------
NewWatch == [at |-> "new", node |-> "none", feed |-> "node", known |-> 0, armed |-> FALSE, woken |-> FALSE]
NewMutation == [at |-> "new", public |-> FALSE, change |-> [add |-> {}, del |-> {}, publish |-> {}]]

\* Control dies at any point and comes back with what the database has.
Crash ==
    /\ up
    /\ up' = FALSE
    /\ lock' = "free" /\ waiting' = 0 /\ active' = 0
    /\ mutation' = [m \in Mutations |->
         IF mutation[m].at = "new" THEN NewMutation ELSE [mutation[m] EXCEPT !.at = "done"]]
    /\ counts' = [n \in Nodes |-> 0]
    /\ watch' = [w \in Watches |->
         IF watch[w].at = "new" THEN NewWatch ELSE [watch[w] EXCEPT !.at = "done", !.armed = FALSE]]
    /\ UNCHANGED <<db, mem, told>>

Restart ==
    /\ ~up
    /\ up' = TRUE
    /\ mem' = db
    /\ UNCHANGED <<db, lock, waiting, active, mutation, counts, watch, told>>

Init ==
    /\ up = TRUE
    /\ db = [members |-> Nodes, node |-> 2 * Cardinality(Nodes), relay |-> 1]
    /\ mem = db
    /\ lock = "free" /\ waiting = 0 /\ active = 0
    /\ mutation = [m \in Mutations |-> NewMutation]
    /\ counts = [n \in Nodes |-> 0]
    /\ watch = [w \in Watches |-> NewWatch]
    /\ told = [f \in Feeds |-> 0]

MutationNext == \E m \in Mutations :
    \/ Queue(m) \/ GiveUp(m) \/ Admit(m) \/ Local(m) \/ Refuse(m)
    \/ \E ch \in Changes : Decide(m, ch)
    \/ Store(m) \/ StoreFails(m) \/ Apply(m)

WatchNext == \E w \in Watches :
    \/ \E n \in Nodes : \E known \in {mem[f] : f \in IF n \in RelayNodes THEN {"relay"} ELSE {"node"}} :
         WatchStart(w, n, known)
    \/ WatchArm(w) \/ WatchCheck(w) \/ WatchWake(w) \/ WatchTimeout(w) \/ WatchAnswer(w)

Next == MutationNext \/ WatchNext \/ Crash \/ Restart
Spec == Init /\ [][Next]_vars

\* The runtime runs every task that can go on; tokio's mutex and semaphore are
\* fair.  Nothing is assumed about timeouts: a sleeper must be woken.
Fairness ==
    /\ \A m \in Mutations : WF_vars(Store(m) \/ StoreFails(m)) /\ WF_vars(Apply(m))
    /\ \A w \in Watches : /\ WF_vars(WatchArm(w)) /\ SF_vars(WatchCheck(w))
                          /\ WF_vars(WatchWake(w)) /\ SF_vars(WatchAnswer(w))
FairSpec == Spec /\ Fairness

-----------------------------------------------------------------------------
TypeOK ==
    /\ up \in BOOLEAN
    /\ db \in State /\ mem \in State
    /\ lock \in Mutations \cup {"free"}
    /\ waiting \in 0..MutationWaiting /\ active \in 0..1
    /\ counts \in [Nodes -> 0..WatchesPerEndpoint]
    /\ told \in [Feeds -> Nat]

\* Whoever finds the state lock free finds memory and database equal, whatever
\* transactions failed and callers hung up before: the revisions that the next
\* transaction insists on are the stored ones.
MemoryIsDurable == up /\ lock = "free" => mem = db

\* Nobody was told a revision that a crash can take back.
ToldIsDurable == \A f \in Feeds : told[f] <= db[f]

\* Together, with the limits of queue and watches respected: what Control serves from memory and has
\* answered is in the database, through failures, hang-ups and crashes.
AnswersAreDurable == TypeOK /\ MemoryIsDurable /\ ToldIsDurable

\* No wakeup is lost: a watch that sleeps unnotified has seen everything, and its
\* node is still registered (wait_for_revision arms before it checks, and every
\* removal is published to the feed of the node it removes).
SleepersHaveNoNews ==
    \A w \in Watches : watch[w].at = "asleep" /\ ~watch[w].woken =>
        /\ mem[watch[w].feed] <= watch[w].known
        /\ watch[w].node \in mem.members

\* Places in the queue, the mutation permit and the watch counts are those of
\* requests under way, so that no sequence of timeouts, failures and refusals
\* leaves Control answering "retry later" for ever.
SlotsAreReturned ==
    /\ waiting = Cardinality({m \in Mutations : mutation[m].at = "queued"})
    /\ active = Cardinality({m \in Mutations :
                    mutation[m].public /\ mutation[m].at \in {"ready", "decided", "stored"}})
    /\ \A n \in Nodes : counts[n] =
         Cardinality({w \in Watches : watch[w].at \notin {"new", "done"} /\ watch[w].node = n})

\* A node that waits for news gets an answer once there is any, without relying on
\* the timeout.
NewsIsDelivered ==
    \A w \in Watches :
        watch[w].at = "asleep" /\ mem[watch[w].feed] > watch[w].known ~> watch[w].at = "done"
==============================================================================
