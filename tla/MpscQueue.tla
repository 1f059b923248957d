----------------------------- MODULE MpscQueue -----------------------------
(***************************************************************************)
(* net/eventloop/MpscQueue.h: the lock-free queue through which threads    *)
(* hand callbacks to an event loop.  The queue is a linked list of heap    *)
(* nodes.  tail_ is the node whose value was taken last (at first a dummy) *)
(* and head_ the node pushed last; a value is in the node AFTER tail_.     *)
(*                                                                         *)
(* enqueue is two atomic steps: it exchanges head_ for its node, then it   *)
(* stores the node in next_ of the node it displaced.  Between the two the *)
(* list is broken in the middle, and what later threads have pushed is out *)
(* of the consumer's reach.  dequeue is two steps as well: the load of     *)
(* tail_->next_, then everything it does with the node it found.           *)
(*                                                                         *)
(* Addresses are reused: a deleted node's address may come back from the   *)
(* next operator new.                                                      *)
(***************************************************************************)
EXTENDS Naturals, Sequences, FiniteSets

CONSTANTS
  Producers,   \* the threads that call enqueue
  Node,        \* the addresses operator new can return
  Null,        \* nullptr
  MaxPush      \* bound: calls of enqueue per producer

ASSUME NullAssumption == Null \notin Node /\ Null \notin Producers \X Nat
ASSUME MaxPushAssumption == MaxPush \in Nat

VARIABLES
  head,    \* head_
  tail,    \* tail_
  next,    \* next[n]: n->next_
  data,    \* data[n]: *n->dataPtr_, Null where the pointer is dangling
  live,    \* the addresses that hold a BufferNode
  pc,      \* "idle" outside enqueue, "link" between its two atomic steps,
           \* "linked" after them, before the caller goes on
  node,    \* node[p]: the local variable node of p's enqueue
  prev,    \* prev[p]: the local variable prevhead of p's enqueue
  count,   \* count[p]: the number of p's pushes
  cnext,   \* the local variable next of dequeue, Null outside it
  log,     \* history: the values pushed, in the order of the exchanges
  out,     \* history: the values dequeue returned
  chain    \* history: the nodes from tail_ to head_, in the order of the exchanges

memory   == <<head, tail, next, data, live>>
producer == <<pc, node, prev, count>>
history  == <<log, out, chain>>
mpscVars == <<memory, producer, cnext, history>>

Task == Producers \X Nat
-----------------------------------------------------------------------------
\* The constructor allocates the dummy.
MpscInit ==
  /\ \E dummy \in Node :
       /\ head = dummy
       /\ tail = dummy
       /\ live = {dummy}
       /\ chain = <<dummy>>
  /\ next = [n \in Node |-> Null]
  /\ data = [n \in Node |-> Null]
  /\ pc = [p \in Producers |-> "idle"]
  /\ node = [p \in Producers |-> Null]
  /\ prev = [p \in Producers |-> Null]
  /\ count = [p \in Producers |-> 0]
  /\ cnext = Null
  /\ log = << >>
  /\ out = << >>

\* Mutant of Exchange: a BufferNode whose next_ has no initializer.
ExchangeKeepsNext(p) ==
  /\ pc[p] = "idle"
  /\ count[p] < MaxPush
  /\ \E n \in Node \ live :
       /\ live' = live \union {n}
       /\ data' = [data EXCEPT ![n] = <<p, count[p] + 1>>]
       /\ head' = n
       /\ node' = [node EXCEPT ![p] = n]
       /\ chain' = Append(chain, n)
  /\ prev' = [prev EXCEPT ![p] = head]
  /\ pc' = [pc EXCEPT ![p] = "link"]
  /\ count' = [count EXCEPT ![p] = @ + 1]
  /\ log' = Append(log, <<p, count[p] + 1>>)
  /\ UNCHANGED <<tail, next, cnext, out>>

\* enqueue: new BufferNode(input), then head_.exchange(node).  The allocation
\* is private to p until the exchange, so the two are one step.
Exchange(p) ==
  /\ pc[p] = "idle"
  /\ count[p] < MaxPush
  /\ \E n \in Node \ live :
       /\ live' = live \union {n}
       /\ next' = [next EXCEPT ![n] = Null]
       /\ data' = [data EXCEPT ![n] = <<p, count[p] + 1>>]
       /\ head' = n
       /\ node' = [node EXCEPT ![p] = n]
       /\ chain' = Append(chain, n)
  /\ prev' = [prev EXCEPT ![p] = head]
  /\ pc' = [pc EXCEPT ![p] = "link"]
  /\ count' = [count EXCEPT ![p] = @ + 1]
  /\ log' = Append(log, <<p, count[p] + 1>>)
  /\ UNCHANGED <<tail, cnext, out>>

\* Mutant of Link: the store goes to the head of the moment.
LinkToHead(p) ==
  /\ pc[p] = "link"
  /\ next' = [next EXCEPT ![head] = node[p]]
  /\ pc' = [pc EXCEPT ![p] = "linked"]
  /\ UNCHANGED <<head, tail, data, live, node, prev, count, cnext, history>>

\* enqueue: prevhead->next_.store(node).
Link(p) ==
  /\ pc[p] = "link"
  /\ next' = [next EXCEPT ![prev[p]] = node[p]]
  /\ pc' = [pc EXCEPT ![p] = "linked"]
  /\ UNCHANGED <<head, tail, data, live, node, prev, count, cnext, history>>

\* enqueue has returned and p may call it again.
Return(p) ==
  /\ pc[p] = "linked"
  /\ pc' = [pc EXCEPT ![p] = "idle"]
  /\ node' = [node EXCEPT ![p] = Null]
  /\ prev' = [prev EXCEPT ![p] = Null]
  /\ UNCHANGED <<memory, count, cnext, history>>

\* dequeue: the loads of tail_ and tail->next_, when there is a next node.
DequeueLoad ==
  /\ cnext = Null
  /\ next[tail] # Null
  /\ cnext' = next[tail]
  /\ UNCHANGED <<memory, producer, history>>

\* dequeue: move a value out of the next node, delete its data, set the tail,
\* delete a node.
Take(value, newtail, deleted) ==
  /\ cnext # Null
  /\ out' = Append(out, value)
  /\ data' = [data EXCEPT ![cnext] = Null]
  /\ tail' = newtail
  /\ live' = live \ deleted
  /\ cnext' = Null
  /\ chain' = Tail(chain)
  /\ UNCHANGED <<head, next, producer, log>>

\* Mutants of DequeueTake: the value comes from the old tail, the new tail is
\* one node too far, the new tail is deleted, no node is.
TakeFromTail == Take(data[tail], cnext, {tail})
TakeSkipsNode == Take(data[cnext], next[cnext], {tail})
TakeDeletesNext == Take(data[cnext], cnext, {cnext})
TakeDeletesNothing == Take(data[cnext], cnext, {})

\* The value is the next node's, that node becomes the tail, and the old tail
\* is deleted.
DequeueTake == Take(data[cnext], cnext, {tail})

\* dequeue returns false: there is no next node.
DequeueFalse ==
  /\ cnext = Null
  /\ next[tail] = Null
  /\ UNCHANGED mpscVars

MpscNext ==
  \/ DequeueLoad
  \/ DequeueTake
  \/ DequeueFalse
  \/ \E p \in Producers : Exchange(p) \/ Link(p) \/ Return(p)

MpscSpec == MpscInit /\ [][MpscNext]_mpscVars
-----------------------------------------------------------------------------
MpscTypeOK ==
  /\ head \in Node
  /\ tail \in Node
  /\ next \in [Node -> Node \union {Null}]
  /\ data \in [Node -> Task \union {Null}]
  /\ live \in SUBSET Node
  /\ pc \in [Producers -> {"idle", "link", "linked"}]
  /\ node \in [Producers -> Node \union {Null}]
  /\ prev \in [Producers -> Node \union {Null}]
  /\ count \in [Producers -> Nat]
  /\ cnext \in Node \union {Null}
  /\ log \in Seq(Task)
  /\ out \in Seq(Task \union {Null})
  /\ chain \in Seq(Node)

\* The chain is what the memory holds: its nodes are distinct, allocated, and
\* the only ones that are (no leak), it runs from tail_ to head_, and it is as
\* long as the values not taken yet ask for.
ChainIsMemory ==
  /\ Len(chain) >= 1
  /\ \A i, j \in 1 .. Len(chain) : chain[i] = chain[j] => i = j
  /\ live = {chain[i] : i \in 1 .. Len(chain)}
  /\ chain[1] = tail
  /\ chain[Len(chain)] = head
  /\ Len(log) + 1 = Len(out) + Len(chain)

\* A node of the chain points to its successor, or to nothing: then exactly
\* the thread that pushed the successor is about to store the pointer.
Broken(i) == next[chain[i]] = Null

LinksFollowChain ==
  /\ next[head] = Null
  /\ \A i \in 1 .. Len(chain) - 1 :
       \/ next[chain[i]] = chain[i + 1]
       \/ Broken(i) /\ \E p \in Producers :
            pc[p] = "link" /\ prev[p] = chain[i] /\ node[p] = chain[i + 1]
  /\ \A p \in Producers : pc[p] = "link" =>
       \E i \in 1 .. Len(chain) - 1 :
         prev[p] = chain[i] /\ node[p] = chain[i + 1] /\ Broken(i)
  /\ \A p, q \in Producers :
       pc[p] = "link" /\ pc[q] = "link" /\ prev[p] = prev[q] => p = q

\* What dequeue returned is a prefix of what was pushed, the nodes after the
\* tail hold the rest, and a thread inside enqueue has its own value in its node.
ValuesFollowLog ==
  /\ \A i \in 1 .. Len(out) : out[i] = log[i]
  /\ \A i \in 1 .. Len(chain) - 1 : data[chain[i + 1]] = log[Len(out) + i]
  /\ \A p \in Producers : pc[p] = "link" => data[node[p]] = <<p, count[p]>>

\* The node dequeue looks at is still the successor of the tail.
ConsumerFollowsChain ==
  cnext # Null => Len(chain) >= 2 /\ cnext = chain[2] /\ next[tail] = cnext

ChainInv ==
  /\ ChainIsMemory
  /\ LinksFollowChain
  /\ ValuesFollowLog
  /\ ConsumerFollowsChain
-----------------------------------------------------------------------------
\* No step touches a node that was deleted: not the store of a producer that
\* was delayed between exchange and store, although the consumer deletes nodes
\* without asking the producers (MpscQueue.h:53), nor the consumer's loads.
NoUseAfterDelete ==
  /\ head \in live
  /\ tail \in live
  /\ \A p \in Producers : pc[p] = "link" => prev[p] \in live /\ node[p] \in live
  /\ cnext # Null => cnext \in live /\ data[cnext] # Null

\* The memory held is the dummy and one node for each value not yet taken:
\* dequeue leaks no node whatever the interleaving (MpscQueue.h:50-53).
NoLeak == Cardinality(live) + Len(out) = Len(log) + 1

\* dequeue may answer "empty" although values are in the queue, but only while
\* the thread whose value comes next is still inside enqueue.
EmptyAnswerIsJustified ==
  next[tail] = Null /\ Len(out) < Len(log) =>
    \E p \in Producers :
      /\ pc[p] = "link"
      /\ prev[p] = tail
      /\ log[Len(out) + 1] = <<p, count[p]>>

\* The queue implements the abstract log: an enqueue takes effect at its
\* exchange, a dequeue when it takes the value.
Fifo == INSTANCE TaskFifo
FifoSpec == Fifo!Spec
=============================================================================
