-------------------------- MODULE MpscQueueProofs --------------------------
(***************************************************************************)
(* Proofs about MpscQueue, for any producers, any set of addresses and any *)
(* number of pushes.                                                       *)
(***************************************************************************)
EXTENDS MpscQueue, FiniteSetTheorems, TLAPS

USE DEF Task

\* The inductive invariant: the types, the chain, and the count of the nodes.
MpscInv ==
  /\ MpscTypeOK
  /\ ChainInv
  /\ IsFiniteSet(live)
  /\ NoLeak

-----------------------------------------------------------------------------
(* Sequences.                                                              *)

LEMMA AppendFacts ==
  ASSUME NEW S, NEW s \in Seq(S), NEW e \in S
  PROVE  /\ Append(s, e) \in Seq(S)
         /\ Len(Append(s, e)) = Len(s) + 1
         /\ \A i \in 1 .. Len(s) : Append(s, e)[i] = s[i]
         /\ Append(s, e)[Len(s) + 1] = e
OBVIOUS

LEMMA TailFacts ==
  ASSUME NEW S, NEW s \in Seq(S), Len(s) >= 1
  PROVE  /\ Tail(s) \in Seq(S)
         /\ Len(Tail(s)) = Len(s) - 1
         /\ \A i \in 1 .. Len(s) - 1 : Tail(s)[i] = s[i + 1]
OBVIOUS

LEMMA ElementFacts ==
  ASSUME NEW S, NEW s \in Seq(S)
  PROVE  /\ Len(s) \in Nat
         /\ \A i \in 1 .. Len(s) : s[i] \in S
OBVIOUS

-----------------------------------------------------------------------------
(* The initial states and the steps.                                       *)

LEMMA InitMpscInv == MpscInit => MpscInv
<1> SUFFICES ASSUME MpscInit PROVE MpscInv
  OBVIOUS
<1> USE NullAssumption DEF MpscInit
<1>1. MpscTypeOK
  BY DEF MpscTypeOK
<1>2. ChainInv
  BY DEF ChainInv, ChainIsMemory, LinksFollowChain, Broken, ValuesFollowLog,
         ConsumerFollowsChain
<1>3. IsFiniteSet(live) /\ Cardinality(live) = 1
  BY FS_Singleton
<1> QED
  BY <1>1, <1>2, <1>3 DEF MpscInv, NoLeak

\* The exchange appends a node to the chain and leaves the chain broken before it.
LEMMA ExchangeKeepsInv ==
  ASSUME MpscInv, NEW p \in Producers, Exchange(p)
  PROVE  MpscInv'
<1> DEFINE v == <<p, count[p] + 1>>
<1>1. PICK n \in Node \ live :
        /\ live' = live \union {n}
        /\ next' = [next EXCEPT ![n] = Null]
        /\ data' = [data EXCEPT ![n] = v]
        /\ head' = n
        /\ node' = [node EXCEPT ![p] = n]
        /\ chain' = Append(chain, n)
  BY DEF Exchange
<1>2. /\ pc[p] = "idle"
      /\ prev' = [prev EXCEPT ![p] = head]
      /\ pc' = [pc EXCEPT ![p] = "link"]
      /\ count' = [count EXCEPT ![p] = count[p] + 1]
      /\ log' = Append(log, v)
      /\ tail' = tail /\ cnext' = cnext /\ out' = out
  BY DEF Exchange
<1>3. MpscTypeOK /\ ChainInv
  BY DEF MpscInv
<1>4. v \in Task
  BY <1>3 DEF MpscTypeOK
<1>5. MpscTypeOK'
  BY <1>1, <1>2, <1>3, <1>4, AppendFacts DEF MpscTypeOK
<1>6. /\ Len(chain) \in Nat /\ Len(chain) >= 1
      /\ Len(chain') = Len(chain) + 1
      /\ \A i \in 1 .. Len(chain) : chain'[i] = chain[i] /\ chain[i] \in live
      /\ \A i \in 1 .. Len(chain) : chain[i] # n
      /\ chain'[Len(chain) + 1] = n
      /\ chain[Len(chain)] = head
  BY <1>1, <1>3, AppendFacts, ElementFacts
     DEF MpscTypeOK, ChainInv, ChainIsMemory
<1>7. /\ Len(log) \in Nat /\ Len(out) \in Nat
      /\ Len(log') = Len(log) + 1
      /\ \A i \in 1 .. Len(log) : log'[i] = log[i]
      /\ log'[Len(log) + 1] = v
      /\ Len(log) + 1 = Len(out) + Len(chain)
  BY <1>2, <1>3, <1>4, AppendFacts, ElementFacts
     DEF MpscTypeOK, ChainInv, ChainIsMemory
<1>8. ChainIsMemory'
  <2>1. \A i, j \in 1 .. Len(chain') : chain'[i] = chain'[j] => i = j
    BY <1>3, <1>6 DEF ChainInv, ChainIsMemory
  <2>2. live' = {chain'[i] : i \in 1 .. Len(chain')}
    BY <1>1, <1>3, <1>6 DEF ChainInv, ChainIsMemory
  <2>3. chain'[1] = tail' /\ chain'[Len(chain')] = head'
    BY <1>1, <1>2, <1>3, <1>6 DEF ChainInv, ChainIsMemory
  <2> QED
    BY <1>2, <1>6, <1>7, <2>1, <2>2, <2>3 DEF ChainIsMemory
<1>9. LinksFollowChain'
  <2>1. \A i \in 1 .. Len(chain) : next'[chain'[i]] = next[chain[i]]
    BY <1>1, <1>3, <1>6, ElementFacts DEF MpscTypeOK
  <2>2. \A q \in Producers \ {p} :
          pc'[q] = pc[q] /\ prev'[q] = prev[q] /\ node'[q] = node[q]
    BY <1>1, <1>2, <1>3 DEF MpscTypeOK
  <2>3. pc'[p] = "link" /\ prev'[p] = head /\ node'[p] = n
    BY <1>1, <1>2, <1>3 DEF MpscTypeOK
  <2>4. next'[head'] = Null
    BY <1>1, <1>3 DEF MpscTypeOK
  <2>5. next'[chain'[Len(chain)]] = Null
    BY <1>3, <1>6, <2>1 DEF ChainInv, LinksFollowChain, Broken
  <2>6. \A i \in 1 .. Len(chain) - 1 : Broken(i)' <=> Broken(i)
    BY <1>6, <2>1 DEF Broken
  <2>7. ASSUME NEW i \in 1 .. Len(chain') - 1
        PROVE  \/ next'[chain'[i]] = chain'[i + 1]
               \/ Broken(i)' /\ \E q \in Producers :
                    pc'[q] = "link" /\ prev'[q] = chain'[i] /\ node'[q] = chain'[i + 1]
    <3>1. CASE i = Len(chain)
      BY <1>6, <2>3, <2>5, <3>1 DEF Broken
    <3>2. CASE i < Len(chain)
      <4>1. i \in 1 .. Len(chain) - 1 /\ i + 1 \in 1 .. Len(chain)
        BY <1>6, <3>2
      <4>2. CASE next[chain[i]] = chain[i + 1]
        BY <1>6, <2>1, <4>1, <4>2
      <4>3. CASE Broken(i) /\ \E q \in Producers :
                   pc[q] = "link" /\ prev[q] = chain[i] /\ node[q] = chain[i + 1]
        BY <1>2, <1>6, <2>2, <2>6, <4>1, <4>3, SMTT(30)
      <4> QED
        BY <1>3, <4>1, <4>2, <4>3 DEF ChainInv, LinksFollowChain
    <3> QED
      BY <1>6, <3>1, <3>2
  <2>8. ASSUME NEW q \in Producers, pc'[q] = "link"
        PROVE  \E i \in 1 .. Len(chain') - 1 :
                 prev'[q] = chain'[i] /\ node'[q] = chain'[i + 1] /\ Broken(i)'
    <3>1. CASE q = p
      BY <1>6, <2>3, <2>5, <3>1 DEF Broken
    <3>2. CASE q # p
      <4>1. PICK i \in 1 .. Len(chain) - 1 :
              prev[q] = chain[i] /\ node[q] = chain[i + 1] /\ Broken(i)
        BY <1>3, <2>2, <2>8, <3>2 DEF ChainInv, LinksFollowChain
      <4> QED
        BY <1>6, <2>2, <2>6, <3>2, <4>1
    <3> QED
      BY <3>1, <3>2
  <2>9. ASSUME NEW q \in Producers, NEW r \in Producers,
               pc'[q] = "link", pc'[r] = "link", prev'[q] = prev'[r]
        PROVE  q = r
    <3>1. ASSUME NEW t \in Producers \ {p}, pc[t] = "link" PROVE prev[t] # head
      BY <1>3, <1>6, <3>1 DEF ChainInv, ChainIsMemory, LinksFollowChain
    <3>2. CASE q # p /\ r # p
      BY <1>3, <2>2, <2>9, <3>2 DEF ChainInv, LinksFollowChain
    <3> QED
      BY <2>2, <2>3, <2>9, <3>1, <3>2
  <2> QED
    BY <2>4, <2>7, <2>8, <2>9 DEF LinksFollowChain
<1>10. ValuesFollowLog'
  <2>1. \A i \in 1 .. Len(out') : out'[i] = log'[i]
    BY <1>2, <1>3, <1>6, <1>7 DEF ChainInv, ValuesFollowLog
  <2>2. \A i \in 1 .. Len(chain) - 1 : data'[chain'[i + 1]] = data[chain[i + 1]]
    BY <1>1, <1>3, <1>6, ElementFacts DEF MpscTypeOK
  <2>3. data'[n] = v
    BY <1>1, <1>3 DEF MpscTypeOK
  <2>4. ASSUME NEW i \in 1 .. Len(chain') - 1
        PROVE  data'[chain'[i + 1]] = log'[Len(out') + i]
    <3>1. CASE i = Len(chain)
      BY <1>2, <1>6, <1>7, <2>3, <3>1
    <3>2. CASE i < Len(chain)
      <4>1. i \in 1 .. Len(chain) - 1 /\ Len(out) + i \in 1 .. Len(log)
        BY <1>6, <1>7, <3>2
      <4>2. data[chain[i + 1]] = log[Len(out) + i]
        BY <1>3, <4>1 DEF ChainInv, ValuesFollowLog
      <4> QED
        BY <1>2, <1>7, <2>2, <4>1, <4>2
    <3> QED
      BY <1>6, <3>1, <3>2
  <2>5. ASSUME NEW q \in Producers, pc'[q] = "link"
        PROVE  data'[node'[q]] = <<q, count'[q]>>
    <3>1. CASE q = p
      BY <1>1, <1>2, <1>3, <2>3, <3>1 DEF MpscTypeOK
    <3>2. CASE q # p
      <4>1. pc[q] = "link" /\ node'[q] = node[q] /\ count'[q] = count[q]
        BY <1>1, <1>2, <1>3, <2>5, <3>2 DEF MpscTypeOK
      <4>2. node[q] \in Node /\ node[q] # n
        <5>1. PICK i \in 1 .. Len(chain) - 1 : node[q] = chain[i + 1]
          BY <1>3, <4>1 DEF ChainInv, LinksFollowChain
        <5>2. i + 1 \in 1 .. Len(chain)
          BY <1>6
        <5> QED
          BY <1>3, <1>6, <5>1, <5>2 DEF MpscTypeOK
      <4> QED
        BY <1>1, <1>3, <4>1, <4>2 DEF MpscTypeOK, ChainInv, ValuesFollowLog
    <3> QED
      BY <3>1, <3>2
  <2> QED
    BY <2>1, <2>4, <2>5 DEF ValuesFollowLog
<1>11. ConsumerFollowsChain'
  BY <1>1, <1>2, <1>3, <1>6 DEF MpscTypeOK, ChainInv, ChainIsMemory, ConsumerFollowsChain
<1>12. IsFiniteSet(live)' /\ NoLeak'
  <2>1. IsFiniteSet(live) /\ Cardinality(live) + Len(out) = Len(log) + 1
    BY DEF MpscInv, NoLeak
  <2>2. IsFiniteSet(live') /\ Cardinality(live') = Cardinality(live) + 1
    BY <1>1, <2>1, FS_AddElement
  <2> QED
    BY <1>2, <1>7, <2>1, <2>2, FS_CardinalityType DEF NoLeak
<1> QED
  BY <1>5, <1>8, <1>9, <1>10, <1>11, <1>12 DEF MpscInv, ChainInv

\* The late store closes the gap before the node of its thread, and no other.
LEMMA LinkKeepsInv ==
  ASSUME MpscInv, NEW p \in Producers, Link(p)
  PROVE  MpscInv'
<1>1. /\ pc[p] = "link"
      /\ next' = [next EXCEPT ![prev[p]] = node[p]]
      /\ pc' = [pc EXCEPT ![p] = "linked"]
      /\ UNCHANGED <<head, tail, data, live, node, prev, count, cnext, log, out, chain>>
  BY DEF Link, history
<1>2. MpscTypeOK /\ ChainInv
  BY DEF MpscInv
<1>3. MpscTypeOK'
  <2>1. next' \in [Node -> Node \union {Null}]
    BY <1>1, <1>2 DEF MpscTypeOK
  <2>2. pc' \in [Producers -> {"idle", "link", "linked"}]
    BY <1>1, <1>2 DEF MpscTypeOK
  <2> QED
    BY <1>1, <1>2, <2>1, <2>2 DEF MpscTypeOK
<1>4. PICK k \in 1 .. Len(chain) - 1 :
        prev[p] = chain[k] /\ node[p] = chain[k + 1] /\ Broken(k)
  BY <1>1, <1>2 DEF ChainInv, LinksFollowChain
<1>5. /\ Len(chain) \in Nat
      /\ \A i \in 1 .. Len(chain) : chain[i] \in Node
      /\ \A i \in 1 .. Len(chain) : i # k => chain[i] # chain[k]
  <2>1. Len(chain) \in Nat /\ \A i \in 1 .. Len(chain) : chain[i] \in Node
    BY <1>2, ElementFacts DEF MpscTypeOK
  <2>2. k \in 1 .. Len(chain)
    BY <2>1
  <2> QED
    BY <1>2, <2>1, <2>2 DEF ChainInv, ChainIsMemory
<1>6. /\ next'[chain[k]] = chain[k + 1]
      /\ \A i \in 1 .. Len(chain) : i # k => next'[chain[i]] = next[chain[i]]
  BY <1>1, <1>2, <1>4, <1>5 DEF MpscTypeOK
<1>7. /\ pc'[p] = "linked"
      /\ \A q \in Producers \ {p} : pc'[q] = pc[q]
  BY <1>1, <1>2 DEF MpscTypeOK
<1>8. ChainIsMemory'
  BY <1>1, <1>2 DEF ChainInv, ChainIsMemory
<1>9. LinksFollowChain'
  <2>1. next'[head'] = Null
    BY <1>1, <1>2, <1>5, <1>6 DEF ChainInv, ChainIsMemory, LinksFollowChain
  <2>2. ASSUME NEW i \in 1 .. Len(chain) - 1
        PROVE  \/ next'[chain[i]] = chain[i + 1]
               \/ next'[chain[i]] = Null /\ \E q \in Producers :
                    pc'[q] = "link" /\ prev[q] = chain[i] /\ node[q] = chain[i + 1]
    <3>1. CASE i = k
      BY <1>6, <3>1
    <3>2. CASE i # k
      <4>1. i \in 1 .. Len(chain) /\ next'[chain[i]] = next[chain[i]]
        BY <1>5, <1>6, <3>2
      <4>2. \A q \in Producers : prev[q] = chain[i] => q # p
        BY <1>4, <1>5, <3>2, <4>1
      <4>3. CASE next[chain[i]] = chain[i + 1]
        BY <4>1, <4>3
      <4>4. CASE Broken(i) /\ \E q \in Producers :
                   pc[q] = "link" /\ prev[q] = chain[i] /\ node[q] = chain[i + 1]
        BY <1>7, <4>1, <4>2, <4>4 DEF Broken
      <4> QED
        BY <1>2, <4>3, <4>4 DEF ChainInv, LinksFollowChain
    <3> QED
      BY <3>1, <3>2
  <2>3. ASSUME NEW q \in Producers, pc'[q] = "link"
        PROVE  \E i \in 1 .. Len(chain) - 1 :
                 prev[q] = chain[i] /\ node[q] = chain[i + 1] /\ next'[chain[i]] = Null
    <3>1. q # p /\ pc[q] = "link"
      BY <1>7, <2>3
    <3>2. PICK i \in 1 .. Len(chain) - 1 :
            prev[q] = chain[i] /\ node[q] = chain[i + 1] /\ Broken(i)
      BY <1>2, <3>1 DEF ChainInv, LinksFollowChain
    <3>3. i # k
      BY <1>1, <1>2, <1>4, <3>1, <3>2 DEF ChainInv, LinksFollowChain
    <3>4. i \in 1 .. Len(chain) /\ next[chain[i]] = Null
      BY <1>5, <3>2 DEF Broken
    <3>5. next'[chain[i]] = Null
      BY <1>6, <3>3, <3>4
    <3> QED
      BY <3>2, <3>5
  <2>4. \A q, r \in Producers :
          pc'[q] = "link" /\ pc'[r] = "link" /\ prev[q] = prev[r] => q = r
    BY <1>2, <1>7 DEF ChainInv, LinksFollowChain
  <2> QED
    BY <1>1, <2>1, <2>2, <2>3, <2>4 DEF LinksFollowChain, Broken
<1>10. ValuesFollowLog'
  <2>1. \A q \in Producers : pc'[q] = "link" => pc[q] = "link"
    BY <1>7
  <2> QED
    BY <1>1, <1>2, <2>1 DEF ChainInv, ValuesFollowLog
<1>11. ConsumerFollowsChain'
  <2>1. ASSUME cnext # Null PROVE next'[tail] = cnext
    BY <1>2, <1>4, <1>5, <1>6, <2>1, SMTT(30)
       DEF ChainInv, ChainIsMemory, ConsumerFollowsChain, Broken
  <2> QED
    BY <1>1, <1>2, <2>1 DEF ChainInv, ConsumerFollowsChain
<1>12. IsFiniteSet(live)' /\ NoLeak'
  BY <1>1 DEF MpscInv, NoLeak
<1> QED
  BY <1>3, <1>8, <1>9, <1>10, <1>11, <1>12 DEF MpscInv, ChainInv

\* A thread that leaves enqueue forgets its node, which is no longer its own.
LEMMA ReturnKeepsInv ==
  ASSUME MpscInv, NEW p \in Producers, Return(p)
  PROVE  MpscInv'
<1>1. /\ pc[p] = "linked"
      /\ pc' = [pc EXCEPT ![p] = "idle"]
      /\ node' = [node EXCEPT ![p] = Null]
      /\ prev' = [prev EXCEPT ![p] = Null]
      /\ UNCHANGED <<head, tail, next, data, live, count, cnext, log, out, chain>>
  BY DEF Return, memory, history
<1>2. MpscTypeOK /\ ChainInv
  BY DEF MpscInv
<1>3. MpscTypeOK'
  BY <1>1, <1>2 DEF MpscTypeOK
<1>4. /\ pc'[p] = "idle"
      /\ \A q \in Producers \ {p} :
           pc'[q] = pc[q] /\ node'[q] = node[q] /\ prev'[q] = prev[q]
  BY <1>1, <1>2 DEF MpscTypeOK
<1>5. ChainIsMemory' /\ ConsumerFollowsChain'
  BY <1>1, <1>2 DEF ChainInv, ChainIsMemory, ConsumerFollowsChain
<1>6. LinksFollowChain'
  BY <1>1, <1>2, <1>4 DEF ChainInv, LinksFollowChain, Broken
<1>7. ValuesFollowLog'
  BY <1>1, <1>2, <1>4 DEF ChainInv, ValuesFollowLog
<1>8. IsFiniteSet(live)' /\ NoLeak'
  BY <1>1 DEF MpscInv, NoLeak
<1> QED
  BY <1>3, <1>5, <1>6, <1>7, <1>8 DEF MpscInv, ChainInv

\* The consumer holds on to the second node of the chain.
LEMMA LoadKeepsInv ==
  ASSUME MpscInv, DequeueLoad
  PROVE  MpscInv'
<1>1. /\ cnext' = next[tail] /\ next[tail] # Null
      /\ UNCHANGED <<head, tail, next, data, live, pc, node, prev, count, log, out, chain>>
  BY DEF DequeueLoad, memory, producer, history
<1>2. MpscTypeOK /\ ChainInv
  BY DEF MpscInv
<1>3. MpscTypeOK'
  BY <1>1, <1>2 DEF MpscTypeOK
<1>4. Len(chain) >= 2 /\ next[tail] = chain[2]
  <2>1. Len(chain) \in Nat /\ Len(chain) >= 1 /\ chain[1] = tail /\ tail # head
    BY <1>1, <1>2, ElementFacts DEF MpscTypeOK, ChainInv, ChainIsMemory, LinksFollowChain
  <2>2. Len(chain) >= 2
    BY <1>2, <2>1 DEF ChainInv, ChainIsMemory
  <2> QED
    BY <1>1, <1>2, <2>1, <2>2 DEF ChainInv, LinksFollowChain, Broken
<1>5. ChainInv'
  BY <1>1, <1>2, <1>4
     DEF ChainInv, ChainIsMemory, LinksFollowChain, Broken, ValuesFollowLog,
         ConsumerFollowsChain
<1>6. IsFiniteSet(live)' /\ NoLeak'
  BY <1>1 DEF MpscInv, NoLeak
<1> QED
  BY <1>3, <1>5, <1>6 DEF MpscInv

\* Taking a value moves the tail one node along the chain.  The store of a
\* delayed producer never goes to the node deleted here: that node is linked.
LEMMA TakeKeepsInv ==
  ASSUME MpscInv, DequeueTake
  PROVE  MpscInv'
<1>1. /\ cnext # Null
      /\ out' = Append(out, data[cnext])
      /\ data' = [data EXCEPT ![cnext] = Null]
      /\ tail' = cnext
      /\ live' = live \ {tail}
      /\ cnext' = Null
      /\ chain' = Tail(chain)
      /\ UNCHANGED <<head, next, pc, node, prev, count, log>>
  BY DEF DequeueTake, Take, producer
<1>2. MpscTypeOK /\ ChainInv
  BY DEF MpscInv
<1>3. /\ Len(chain) \in Nat /\ Len(chain) >= 2
      /\ tail = chain[1] /\ cnext = chain[2] /\ next[chain[1]] = cnext
      /\ chain[Len(chain)] = head
      /\ \A i, j \in 1 .. Len(chain) : chain[i] = chain[j] => i = j
      /\ \A i \in 1 .. Len(chain) : chain[i] \in Node
  BY <1>1, <1>2, ElementFacts
     DEF MpscTypeOK, ChainInv, ChainIsMemory, ConsumerFollowsChain
<1>4. /\ Len(chain') = Len(chain) - 1
      /\ \A i \in 1 .. Len(chain) - 1 : chain'[i] = chain[i + 1]
      /\ chain' \in Seq(Node)
  BY <1>1, <1>2, <1>3, TailFacts DEF MpscTypeOK
<1>5. data[cnext] \in Task \union {Null}
  BY <1>1, <1>2 DEF MpscTypeOK
<1>6. /\ Len(out) \in Nat /\ Len(log) \in Nat
      /\ Len(out') = Len(out) + 1
      /\ \A i \in 1 .. Len(out) : out'[i] = out[i]
      /\ out'[Len(out) + 1] = data[cnext]
      /\ out' \in Seq(Task \union {Null})
  BY <1>1, <1>2, <1>5, AppendFacts, ElementFacts DEF MpscTypeOK
<1>7. MpscTypeOK'
  BY <1>1, <1>2, <1>4, <1>6 DEF MpscTypeOK
<1>8. ChainIsMemory'
  <2>1. \A i, j \in 1 .. Len(chain') : chain'[i] = chain'[j] => i = j
    BY <1>3, <1>4
  <2>2. live' = {chain'[i] : i \in 1 .. Len(chain')}
    <3>1. live = {chain[i] : i \in 1 .. Len(chain)}
      BY <1>2 DEF ChainInv, ChainIsMemory
    <3>2. live' = {chain[i] : i \in 2 .. Len(chain)}
      <4>1. \A i \in 1 .. Len(chain) : chain[i] # tail <=> i \in 2 .. Len(chain)
        BY <1>3
      <4>2. live' = {chain[i] : i \in 1 .. Len(chain)} \ {tail}
        BY <1>1, <3>1
      <4>3. 2 .. Len(chain) \subseteq 1 .. Len(chain)
        BY <1>3
      <4> QED
        BY <4>1, <4>2, <4>3
    <3>3. \A i \in 2 .. Len(chain) :
            i - 1 \in 1 .. Len(chain') /\ chain[i] = chain'[i - 1]
      BY <1>3, <1>4
    <3>4. \A i \in 1 .. Len(chain') :
            i + 1 \in 2 .. Len(chain) /\ chain'[i] = chain[i + 1]
      BY <1>3, <1>4
    <3> QED
      BY <3>2, <3>3, <3>4
  <2>3. chain'[1] = tail' /\ chain'[Len(chain')] = head' /\ Len(chain') >= 1
    BY <1>1, <1>3, <1>4
  <2>4. Len(log') + 1 = Len(out') + Len(chain')
    BY <1>1, <1>2, <1>3, <1>4, <1>6 DEF ChainInv, ChainIsMemory
  <2> QED
    BY <2>1, <2>2, <2>3, <2>4 DEF ChainIsMemory
\* Nobody is about to store into the node at the tail.
<1>9. ASSUME NEW q \in Producers, pc[q] = "link"
      PROVE  \E i \in 1 .. Len(chain) - 2 :
               /\ prev[q] = chain[i + 1] /\ node[q] = chain[i + 2]
               /\ next[chain[i + 1]] = Null
  <2>1. PICK i \in 1 .. Len(chain) - 1 :
          prev[q] = chain[i] /\ node[q] = chain[i + 1] /\ next[chain[i]] = Null
    BY <1>2, <1>9 DEF ChainInv, LinksFollowChain, Broken
  <2>2. i # 1
    BY <1>1, <1>3, <2>1
  <2>3. i - 1 \in 1 .. Len(chain) - 2 /\ (i - 1) + 1 = i /\ (i - 1) + 2 = i + 1
    BY <1>3, <2>2
  <2> QED
    BY <2>1, <2>3
<1>10. LinksFollowChain'
  <2>1. ASSUME NEW i \in 1 .. Len(chain') - 1
        PROVE  \/ next[chain'[i]] = chain'[i + 1]
               \/ next[chain'[i]] = Null /\ \E q \in Producers :
                    pc[q] = "link" /\ prev[q] = chain'[i] /\ node[q] = chain'[i + 1]
    <3>1. /\ i + 1 \in 1 .. Len(chain) - 1
          /\ chain'[i] = chain[i + 1] /\ chain'[i + 1] = chain[(i + 1) + 1]
      BY <1>3, <1>4
    <3> QED
      BY <1>2, <3>1 DEF ChainInv, LinksFollowChain, Broken
  <2>2. ASSUME NEW q \in Producers, pc[q] = "link"
        PROVE  \E i \in 1 .. Len(chain') - 1 :
                 prev[q] = chain'[i] /\ node[q] = chain'[i + 1] /\ next[chain'[i]] = Null
    <3>1. PICK i \in 1 .. Len(chain) - 2 :
            /\ prev[q] = chain[i + 1] /\ node[q] = chain[i + 2]
            /\ next[chain[i + 1]] = Null
      BY <1>9, <2>2
    <3>2. /\ i \in 1 .. Len(chain') - 1
          /\ chain'[i] = chain[i + 1] /\ chain'[i + 1] = chain[i + 2]
      BY <1>3, <1>4, SMTT(30)
    <3> QED
      BY <3>1, <3>2
  <2> QED
    BY <1>1, <1>2, <2>1, <2>2 DEF ChainInv, LinksFollowChain, Broken
<1>11. ValuesFollowLog'
  <2>1. data[cnext] = log[Len(out) + 1]
    BY <1>2, <1>3 DEF ChainInv, ValuesFollowLog
  <2>2. \A i \in 1 .. Len(out') : out'[i] = log[i]
    BY <1>2, <1>6, <2>1 DEF ChainInv, ValuesFollowLog
  <2>3. \A i \in 3 .. Len(chain) : data'[chain[i]] = data[chain[i]]
    BY <1>1, <1>2, <1>3 DEF MpscTypeOK
  <2>4. ASSUME NEW i \in 1 .. Len(chain') - 1
        PROVE  data'[chain'[i + 1]] = log[Len(out') + i]
    <3>1. /\ i + 1 \in 1 .. Len(chain) - 1 /\ i + 2 \in 3 .. Len(chain)
          /\ chain'[i + 1] = chain[i + 2] /\ (i + 1) + 1 = i + 2
          /\ Len(out') + i = Len(out) + (i + 1)
      BY <1>3, <1>4, <1>6
    <3>2. data[chain[i + 2]] = log[Len(out) + (i + 1)]
      BY <1>2, <3>1 DEF ChainInv, ValuesFollowLog
    <3> QED
      BY <2>3, <3>1, <3>2
  <2>5. ASSUME NEW q \in Producers, pc[q] = "link"
        PROVE  data'[node[q]] = <<q, count[q]>>
    <3>1. PICK i \in 1 .. Len(chain) - 2 : node[q] = chain[i + 2]
      BY <1>9, <2>5
    <3>2. i + 2 \in 3 .. Len(chain)
      BY <1>3
    <3> QED
      BY <1>2, <2>3, <2>5, <3>1, <3>2 DEF ChainInv, ValuesFollowLog
  <2> QED
    BY <1>1, <2>2, <2>4, <2>5 DEF ValuesFollowLog
<1>12. ConsumerFollowsChain'
  BY <1>1 DEF ConsumerFollowsChain
<1>13. IsFiniteSet(live)' /\ NoLeak'
  <2>1. IsFiniteSet(live) /\ Cardinality(live) + Len(out) = Len(log) + 1
    BY DEF MpscInv, NoLeak
  <2>2. tail \in live
    BY <1>2, <1>3 DEF ChainInv, ChainIsMemory
  <2>3. IsFiniteSet(live') /\ Cardinality(live') = Cardinality(live) - 1
    BY <1>1, <2>1, <2>2, FS_RemoveElement
  <2> QED
    BY <1>1, <1>6, <2>1, <2>3, FS_CardinalityType DEF NoLeak
<1> QED
  BY <1>7, <1>8, <1>10, <1>11, <1>12, <1>13 DEF MpscInv, ChainInv

LEMMA NextKeepsMpscInv ==
  MpscInv /\ [MpscNext]_mpscVars => MpscInv'
<1> SUFFICES ASSUME MpscInv, [MpscNext]_mpscVars PROVE MpscInv'
  OBVIOUS
<1>1. CASE \E p \in Producers : Exchange(p)
  BY <1>1, ExchangeKeepsInv
<1>2. CASE \E p \in Producers : Link(p)
  BY <1>2, LinkKeepsInv
<1>3. CASE \E p \in Producers : Return(p)
  BY <1>3, ReturnKeepsInv
<1>4. CASE DequeueLoad
  BY <1>4, LoadKeepsInv
<1>5. CASE DequeueTake
  BY <1>5, TakeKeepsInv
<1>6. CASE DequeueFalse \/ UNCHANGED mpscVars
  <2>1. UNCHANGED <<head, tail, next, data, live, pc, node, prev, count, cnext, log, out, chain>>
    BY <1>6 DEF DequeueFalse, mpscVars, memory, producer, history
  <2>2. MpscTypeOK'
    BY <2>1 DEF MpscInv, MpscTypeOK
  <2>3. ChainIsMemory' /\ ConsumerFollowsChain'
    BY <2>1 DEF MpscInv, ChainInv, ChainIsMemory, ConsumerFollowsChain
  <2>4. LinksFollowChain'
    BY <2>1 DEF MpscInv, ChainInv, LinksFollowChain, Broken
  <2>5. ValuesFollowLog'
    BY <2>1 DEF MpscInv, ChainInv, ValuesFollowLog
  <2> QED
    BY <2>1, <2>2, <2>3, <2>4, <2>5 DEF MpscInv, ChainInv, NoLeak
<1> QED
  BY <1>1, <1>2, <1>3, <1>4, <1>5, <1>6 DEF MpscNext

\* The invariant holds in every state of the queue.
THEOREM MpscInvariance == MpscSpec => []MpscInv
  BY InitMpscInv, NextKeepsMpscInv, PTL DEF MpscSpec

-----------------------------------------------------------------------------
\* The variables keep their types (MpscQueue.h:44-68).
THEOREM MpscTypeCorrect == MpscSpec => []MpscTypeOK
<1>1. MpscInv => MpscTypeOK
  BY DEF MpscInv
<1> QED
  BY <1>1, MpscInvariance, PTL

\* The list in memory is the chain of the exchanges, broken only where a thread
\* is between its exchange and its store (MpscQueue.h:40-41).
THEOREM ChainCorrect == MpscSpec => []ChainInv
<1>1. MpscInv => ChainInv
  BY DEF MpscInv
<1> QED
  BY <1>1, MpscInvariance, PTL

\* The consumer never deletes a node that a producer is going to store into, or
\* one that is still in use (MpscQueue.h:54).
THEOREM NodesUsedAreLive == MpscSpec => []NoUseAfterDelete
<1>1. ASSUME MpscInv PROVE NoUseAfterDelete
  <2>1. MpscTypeOK /\ ChainInv
    BY <1>1 DEF MpscInv
  <2>2. Len(chain) \in Nat /\ Len(log) \in Nat /\ Len(out) \in Nat
    BY <2>1, ElementFacts DEF MpscTypeOK
  <2>3. head \in live /\ tail \in live
    BY <2>1, <2>2 DEF ChainInv, ChainIsMemory
  <2>4. ASSUME NEW p \in Producers, pc[p] = "link"
        PROVE  prev[p] \in live /\ node[p] \in live
    <3>1. PICK i \in 1 .. Len(chain) - 1 :
            prev[p] = chain[i] /\ node[p] = chain[i + 1]
      BY <2>1, <2>4 DEF ChainInv, LinksFollowChain
    <3>2. i \in 1 .. Len(chain) /\ i + 1 \in 1 .. Len(chain)
      BY <2>2
    <3> QED
      BY <2>1, <3>1, <3>2 DEF ChainInv, ChainIsMemory
  <2>5. ASSUME cnext # Null PROVE cnext \in live /\ data[cnext] # Null
    <3>1. Len(chain) >= 2 /\ cnext = chain[2]
      BY <2>1, <2>5 DEF ChainInv, ConsumerFollowsChain
    <3>2. cnext \in live
      BY <2>1, <2>2, <3>1 DEF ChainInv, ChainIsMemory
    <3>3. data[cnext] = log[Len(out) + 1] /\ Len(out) + 1 \in 1 .. Len(log)
      BY <2>1, <2>2, <3>1 DEF ChainInv, ChainIsMemory, ValuesFollowLog
    <3> QED
      BY <2>1, <3>2, <3>3, ElementFacts, NullAssumption DEF MpscTypeOK
  <2> QED
    BY <2>3, <2>4, <2>5 DEF NoUseAfterDelete
<1> QED
  BY <1>1, MpscInvariance, PTL

\* Memory is proportional to the backlog in every state (MpscQueue.h:52-54).
THEOREM NodesAreReleased == MpscSpec => []NoLeak
<1>1. MpscInv => NoLeak
  BY DEF MpscInv
<1> QED
  BY <1>1, MpscInvariance, PTL

\* dequeue finds nothing although values are queued only while the thread of the
\* first of them is between its exchange and its store (MpscQueue.h:48-50).
THEOREM EmptyAnswersAreJustified == MpscSpec => []EmptyAnswerIsJustified
<1>1. ASSUME MpscInv, next[tail] = Null, Len(out) < Len(log)
      PROVE  \E p \in Producers :
               pc[p] = "link" /\ prev[p] = tail /\ log[Len(out) + 1] = <<p, count[p]>>
  <2>1. MpscTypeOK /\ ChainInv
    BY <1>1 DEF MpscInv
  <2>2. /\ Len(chain) \in Nat /\ Len(log) \in Nat /\ Len(out) \in Nat
        /\ \A i \in 1 .. Len(chain) : chain[i] \in Node
    BY <2>1, ElementFacts DEF MpscTypeOK
  <2>3. 1 \in 1 .. Len(chain) - 1 /\ chain[1] = tail /\ chain[2] \in Node
    BY <1>1, <2>1, <2>2 DEF ChainInv, ChainIsMemory
  <2>4. next[chain[1]] # chain[2]
    BY <1>1, <2>3, NullAssumption
  <2>5. PICK p \in Producers :
          pc[p] = "link" /\ prev[p] = chain[1] /\ node[p] = chain[1 + 1]
    BY <2>1, <2>3, <2>4 DEF ChainInv, LinksFollowChain
  <2>6. data[chain[1 + 1]] = log[Len(out) + 1] /\ data[node[p]] = <<p, count[p]>>
    BY <2>1, <2>3, <2>5 DEF ChainInv, ValuesFollowLog
  <2> QED
    BY <2>3, <2>5, <2>6
<1>2. MpscInv => EmptyAnswerIsJustified
  BY <1>1 DEF EmptyAnswerIsJustified
<1> QED
  BY <1>2, MpscInvariance, PTL

-----------------------------------------------------------------------------
\* The queue implements the abstract log: an exchange appends, a take removes
\* the first value not yet taken, every other step changes nothing a caller can
\* see (MpscQueue.h:38-56).
THEOREM QueueIsFifo == MpscSpec => FifoSpec
<1>1. MpscInit => Fifo!Init
  BY DEF MpscInit, Fifo!Init
<1>2. ASSUME MpscInv, [MpscNext]_mpscVars PROVE [Fifo!Next]_Fifo!vars
  <2>1. ASSUME NEW p \in Producers, Exchange(p) PROVE Fifo!Push(p)
    BY <2>1 DEF Exchange, Fifo!Push
  <2>2. CASE DequeueTake
    <3>1. cnext # Null /\ out' = Append(out, data[cnext]) /\ UNCHANGED <<count, log>>
      BY <2>2 DEF DequeueTake, Take, producer
    <3>2. /\ Len(chain) \in Nat /\ Len(log) \in Nat /\ Len(out) \in Nat
          /\ Len(chain) >= 2 /\ cnext = chain[1 + 1]
      BY <1>2, <3>1, ElementFacts
         DEF MpscInv, MpscTypeOK, ChainInv, ConsumerFollowsChain
    <3>3. Len(out) < Len(log) /\ data[cnext] = log[Len(out) + 1]
      BY <1>2, <3>2 DEF MpscInv, ChainInv, ChainIsMemory, ValuesFollowLog
    <3> QED
      BY <3>1, <3>3 DEF Fifo!Pop, Fifo!Next
  <2>3. CASE \/ DequeueLoad \/ DequeueFalse \/ UNCHANGED mpscVars
             \/ \E p \in Producers : Link(p) \/ Return(p)
    BY <2>3
       DEF DequeueLoad, DequeueFalse, Link, Return, mpscVars, memory, producer,
           history, Fifo!vars
  <2> QED
    BY <1>2, <2>1, <2>2, <2>3 DEF MpscNext, Fifo!Next
<1> QED
  BY <1>1, <1>2, MpscInvariance, PTL DEF MpscSpec, FifoSpec, Fifo!Spec
=============================================================================
