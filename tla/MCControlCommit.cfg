SPECIFICATION FairSpec
CONSTANTS
    Nodes = {n1, r1}
    RelayNodes = {r1}
    Mutations = {m1, m2}
    Watches = {w1, w2}
    MutationWaiting = 1
    WatchesPerEndpoint = 1
INVARIANTS AnswersAreDurable SleepersHaveNoNews SlotsAreReturned
PROPERTY NewsIsDelivered
CHECK_DEADLOCK FALSE
