---------------------------- MODULE ComputeBroker ----------------------------
(***************************************************************************)
(* The compute broker (broker/compute-broker.ts): compute nodes, an order  *)
(* book of bids, a queue of the cluster's own tasks, and the allocation    *)
(* cycle that turns idle capacity into assignments.                        *)
(*                                                                         *)
(* Every call runs to completion (the class is synchronous), so an action  *)
(* is a call, with the cycles it nests: a cycle that expires a node fails  *)
(* the node's assignments, and each failure runs a cycle of its own.       *)
(* A loop of the code is a sequence of steps that are taken in turn.       *)
(* Time is counted in heartbeat timeouts.                                  *)
(***************************************************************************)
EXTENDS Integers, SequencesExt, FiniteSetsExt, Functions

CONSTANTS
  ComputeNode, \* public keys of compute nodes
  Bid,         \* bids a buyer may submit
  Task,        \* tasks the cluster may queue
  Capacity,    \* per node, totalTFLOPS less consensusTFLOPS
  Price,       \* per bid, pricePerTFLOPSHour
  Demand,      \* per bid, totalTFLOPSHours; per task, requiredTFLOPS
  AtLeast,     \* per bid, minTFLOPSRequired; per task, requiredTFLOPS
  Expiry,      \* per bid, expiresAt
  Fallback,    \* the bids with isFallback
  RandomBid(_), \* per assignment, the fallback bid that a random number falls on
  Supports,    \* pairs of a node and a bid or task whose type it supports
  MaxClock, MaxAssignments, MaxQueue  \* bounds: the clock, the assignments ever
                                      \* made, the tasks queued at once

VARIABLES
  broker,  \* [nodes, orderBook, assignments, jgTaskQueue] of ComputeBroker
  clock,   \* Date.now()
  honest   \* history: reports counted the work under way, none failed twice

brokerVars == <<broker, clock, honest>>

\* The cluster asks for something with each task; a bid that does not is refused.
BrokerHypothesis ==
  /\ IsFiniteSet(Bid) /\ Bid \cap Task = {} /\ Fallback \subseteq Bid
  /\ Capacity \in [ComputeNode -> Nat] /\ Price \in [Bid -> Int] /\ Expiry \in [Bid -> Int]
  /\ Demand \in [Bid \cup Task -> Int] /\ AtLeast \in [Bid \cup Task -> Int]
  /\ \A task \in Task : Demand[task] > 0 /\ AtLeast[task] = Demand[task]

NodeState ==
  [key : ComputeNode, jgClusterTFLOPS : Nat, brokerTFLOPS : Nat, idle : Nat, lastHeartbeatAt : Nat]
Assignment ==
  [work : Bid \cup Task, node : ComputeNode, amount : Nat, status : {"IN_PROGRESS", "FAILED"}]
Broker ==
  [nodes : Seq(NodeState), orderBook : SUBSET Bid, assignments : Seq(Assignment),
   jgTaskQueue : Seq(Task)]

\* What b becomes when one step after the other is taken.
InTurn(b, steps) ==
  LET after[k \in 0 .. Len(steps)] == IF k = 0 THEN b ELSE steps[k][after[k - 1]]
  IN  after[Len(steps)]

Idle(key, jg, busy) == Max({0, Capacity[key] - jg - busy})
Stale(node) == clock - node.lastHeartbeatAt > 1
Live(b) == {i \in DOMAIN b.assignments : b.assignments[i].status = "IN_PROGRESS"}
On(b, key) == {i \in Live(b) : b.assignments[i].node = key}
Amounts(b) == [i \in DOMAIN b.assignments |-> b.assignments[i].amount]
Given(b, key) == SumFunctionOnSet(Amounts(b), On(b, key))
Registered(b) == {b.nodes[i].key : i \in DOMAIN b.nodes}
At(b, key) == CHOOSE i \in DOMAIN b.nodes : b.nodes[i].key = key

BrokerInit ==
  /\ broker = [nodes |-> <<>>, orderBook |-> {}, assignments |-> <<>>, jgTaskQueue |-> <<>>]
  /\ clock = 0
  /\ honest = TRUE
------------------------------------------------------------------------------
(* The allocation cycle *)

Serves(b, i, work) ==
  /\ ~Stale(b.nodes[i])
  /\ b.nodes[i].idle > 0 /\ b.nodes[i].idle >= AtLeast[work]
  /\ <<b.nodes[i].key, work>> \in Supports

\* findBestNodeForTask: the first of the nodes with most idle capacity.
Best(b, work) ==
  LET fit == {i \in DOMAIN b.nodes : Serves(b, i, work)} IN
  CHOOSE i \in fit : \A j \in fit : \/ b.nodes[i].idle > b.nodes[j].idle
                                    \/ b.nodes[i].idle = b.nodes[j].idle /\ i <= j
HasNode(b, work) == \E i \in DOMAIN b.nodes : Serves(b, i, work)

\* createAssignment and the counters its callers move.
Used(node, amount, counter) ==
  [node EXCEPT !.idle = Max({0, @ - amount}), ![counter] = @ + amount]

Assign(b, i, work, amount, counter) ==
  [b EXCEPT
    !.assignments = Append(@, [work |-> work, node |-> b.nodes[i].key,
                               amount |-> amount, status |-> "IN_PROGRESS"]),
    !.nodes[i] = Used(@, amount, counter)]

\* The queue is served in order, and only while its head fits somewhere.
ServeHead(b) ==
  IF b.jgTaskQueue = <<>> \/ ~HasNode(b, Head(b.jgTaskQueue)) THEN b
  ELSE LET task == Head(b.jgTaskQueue) IN
       [Assign(b, Best(b, task), task, Demand[task], "jgClusterTFLOPS") EXCEPT !.jgTaskQueue = Tail(@)]

AllocateJGClusterTasks(b) ==
  InTurn(b, [k \in DOMAIN b.jgTaskQueue |-> [x \in Broker |-> ServeHead(x)]])

\* A bid is filled node by node, from its whole amount in every cycle.  A node is
\* used up or the last, so that there are no more turns than nodes.
FillOnce(rest, bid) ==
  LET b == rest[1] IN
  IF rest[2] = 0 \/ ~HasNode(b, bid) THEN rest
  ELSE LET i == Best(b, bid)
           amount == Min({b.nodes[i].idle, rest[2]})
       IN <<Assign(b, i, bid, amount, "brokerTFLOPS"), rest[2] - amount>>

Fill(b, bid) ==
  IF Demand[bid] <= 0 THEN b
  ELSE InTurn(<<b, Demand[bid]>>,
              [k \in DOMAIN b.nodes |-> [rest \in Broker \X Nat |-> FillOnce(rest, bid)]])[1]

\* The highest price comes first.
ByPrice(bids) ==
  CHOOSE s \in [1 .. Cardinality(bids) -> bids] :
    IsInjective(s) /\ \A i, j \in DOMAIN s : i < j => Price[s[i]] >= Price[s[j]]

AllocateCommercialBids(b) ==
  LET bids == ByPrice(b.orderBook \ Fallback) IN
  InTurn(b, [k \in DOMAIN bids |-> [x \in Broker |-> Fill(x, bids[k])]])

\* The assignments are counted, so that every order of random choices is some RandomBid.
FallbackFor(b, bids) ==
  LET bid == RandomBid(Len(b.assignments))
  IN  IF bid \in bids THEN bid ELSE CHOOSE any \in bids : TRUE

\* Each idle node, seen within the timeout, goes whole to a random fallback bid.
GiveIdle(b, i, bids) ==
  IF i \in DOMAIN b.nodes /\ b.nodes[i].idle >= 1 /\ clock - b.nodes[i].lastHeartbeatAt < 1
    THEN Assign(b, i, FallbackFor(b, bids), b.nodes[i].idle, "brokerTFLOPS")
    ELSE b

AllocateScientificFallback(b) ==
  LET bids == b.orderBook \cap Fallback IN
  IF bids = {} THEN b
  ELSE InTurn(b, [i \in DOMAIN b.nodes |-> [x \in Broker |-> GiveIdle(x, i, bids)]])

\* Mutant: bids are served before the cluster's own tasks.
AllocateBidsFirst(b) ==
  AllocateScientificFallback(AllocateJGClusterTasks(AllocateCommercialBids(b)))

Allocate(b) ==
  AllocateScientificFallback(AllocateCommercialBids(AllocateJGClusterTasks(b)))

\* failAssignment, before its cycle.
Returned(node, amount) ==
  [node EXCEPT !.idle = @ + amount, !.brokerTFLOPS = Max({0, @ - amount})]

Free(b, i) ==
  LET failed == [b EXCEPT !.assignments[i].status = "FAILED"]
      key == b.assignments[i].node
      amount == b.assignments[i].amount
  IN IF key \notin Registered(b) THEN failed
     ELSE [failed EXCEPT !.nodes[At(b, key)] = Returned(@, amount)]

Without(b, key) == [b EXCEPT !.nodes = RemoveAt(@, At(b, key))]

\* Mutant: an expired node is dropped without failing its assignments.
DropOnly(b, key, cycle) == Without(b, key)

\* deregisterNode and reassignTasksFromNode: every failure runs a cycle.
Expire(b, key, cycle) ==
  InTurn(Without(b, key),
         [i \in DOMAIN b.assignments |->
            [x \in Broker |-> IF i \in On(x, key) THEN cycle[Free(x, i)] ELSE x]])

\* runAllocationCycle, where the cycles nested in it are given.
CycleOf(b, cycle) ==
  LET swept == InTurn(b, [i \in DOMAIN b.nodes |->
                 [x \in Broker |->
                    IF b.nodes[i].key \in Registered(x) /\ Stale(b.nodes[i])
                      THEN Expire(x, b.nodes[i].key, cycle) ELSE x]])
  IN Allocate([swept EXCEPT !.orderBook = {bid \in @ : Expiry[bid] > clock}])

\* Each nested cycle has one node less, so that none is deeper than there are nodes.
Cycles[depth \in Nat] ==
  LET nested == IF depth = 0 THEN [x \in Broker |-> x] ELSE Cycles[depth - 1]
  IN  [b \in Broker |-> CycleOf(b, nested)]

Cycle(b) == Cycles[Len(b.nodes)][b]
------------------------------------------------------------------------------
(* The calls *)

\* A node reports the work the broker gave it, or none (it was restarted).
RegisterNode(key) ==
  \E known \in {Registered(broker) \cap {key}, {}} :
    LET here == key \in Registered(broker)
        jg == IF known = {} THEN 0 ELSE broker.nodes[At(broker, key)].jgClusterTFLOPS
        busy == IF known = {} THEN 0 ELSE broker.nodes[At(broker, key)].brokerTFLOPS
        node == [key |-> key, jgClusterTFLOPS |-> jg, brokerTFLOPS |-> busy,
                 idle |-> Idle(key, jg, busy), lastHeartbeatAt |-> clock]
    IN /\ broker' = IF here THEN [broker EXCEPT !.nodes[At(broker, key)] = node]
                            ELSE [broker EXCEPT !.nodes = Append(@, node)]
       /\ honest' = (honest /\ jg + busy >= Given(broker, key))
       /\ UNCHANGED clock

DeregisterNode(key) ==
  /\ key \in Registered(broker)
  /\ broker' = Expire(broker, key, Cycles[Len(broker.nodes)])
  /\ UNCHANGED <<clock, honest>>

SubmitBid(bid) ==
  /\ Price[bid] > 0 /\ Demand[bid] > 0 /\ AtLeast[bid] > 0 /\ Expiry[bid] > clock
  /\ broker' = Cycle([broker EXCEPT !.orderBook = @ \cup {bid}])
  /\ UNCHANGED <<clock, honest>>

QueueJGClusterTask(task) ==
  /\ broker' = Cycle([broker EXCEPT !.jgTaskQueue = Append(@, task)])
  /\ UNCHANGED <<clock, honest>>

\* No status is checked: an assignment can be failed again.
FailAssignment(i) ==
  /\ broker' = Cycle(Free(broker, i))
  /\ honest' = (honest /\ i \in Live(broker))
  /\ UNCHANGED clock

Tick ==
  /\ clock < MaxClock
  /\ clock' = clock + 1
  /\ UNCHANGED <<broker, honest>>

\* Of the failures that are not honest, one is enough.
BrokerBounded ==
  /\ Len(broker.assignments') <= MaxAssignments
  /\ Len(broker.jgTaskQueue') <= MaxQueue

BrokerNext ==
  \/ \E key \in ComputeNode : RegisterNode(key)
  \/ \E key \in ComputeNode : DeregisterNode(key) /\ BrokerBounded
  \/ \E bid \in Bid : SubmitBid(bid) /\ BrokerBounded
  \/ \E task \in Task : QueueJGClusterTask(task) /\ BrokerBounded
  \/ \E i \in DOMAIN broker.assignments :
       FailAssignment(i) /\ BrokerBounded /\ (honest \/ i \in Live(broker))
  \/ Tick
BrokerSpec == BrokerInit /\ [][BrokerNext]_brokerVars
------------------------------------------------------------------------------
(* Properties *)

\* Work under way is always on a registered node, however nodes expired inside
\* nested cycles; and while reports count it and callers fail an assignment
\* only once, a node's idle capacity and the work it holds, of the cluster and
\* of bids together, never exceed what it has, although a failure returns the
\* capacity of either kind through the counter of one (failAssignment).
BrokerInv ==
  /\ \A i \in Live(broker) : broker.assignments[i].node \in Registered(broker)
  /\ IsInjective([i \in DOMAIN broker.nodes |-> broker.nodes[i].key])
  /\ honest => \A i \in DOMAIN broker.nodes :
       broker.nodes[i].idle + Given(broker, broker.nodes[i].key)
         <= Capacity[broker.nodes[i].key]

\* What bids were given since there were so many assignments.
ToBids(b, before, key) ==
  SumFunctionOnSet(Amounts(b), {i \in On(b, key) : i > before /\ b.assignments[i].work \in Bid})

TaskServed(b, before) ==
  b.jgTaskQueue # <<>> =>
    LET task == Head(b.jgTaskQueue) IN
    \A i \in DOMAIN b.nodes :
      <<b.nodes[i].key, task>> \in Supports /\ ~Stale(b.nodes[i])
        => b.nodes[i].idle + ToBids(b, before, b.nodes[i].key) < Demand[task]

\* The cluster's own tasks come first (queueJGClusterTask): no call that runs
\* cycles gives bids capacity that the first waiting task could have used.
JGServed ==
  LET calls == <<broker.assignments, broker.orderBook, broker.jgTaskQueue>> IN
  calls' # calls => TaskServed(broker', Len(broker.assignments))

JGFirst == [][JGServed]_brokerVars
==============================================================================
