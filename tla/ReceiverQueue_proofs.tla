------------------------- MODULE ReceiverQueue_proofs -------------------------
(***************************************************************************)
(* Theorems about ReceiverQueue, for every set of addresses, every limit   *)
(* and any number of arrivals.                                             *)
(***************************************************************************)
EXTENDS ReceiverQueue, SequenceTheorems, WellFoundedInduction, TLAPS

-----------------------------------------------------------------------------
(***************************************************************************)
(* Every non-empty set of natural numbers below a bound has a greatest     *)
(* element.                                                                *)
(***************************************************************************)
LEMMA NatLeast ==
  ASSUME NEW T \in SUBSET Nat, T # {}
  PROVE  \E x \in T : \A y \in T : x <= y
<1> DEFINE R == {p \in Nat \X Nat : p[1] < p[2]}
<1>1. IsWellFoundedOn(R, Nat)
  BY NatLessThanWellFounded DEF OpToRel
<1> HIDE DEF R
<1>2. PICK x \in T : \A y \in T : ~(<<y, x>> \in R)
  BY <1>1, WFMin
<1>3. \A y \in T : ~(y < x)
  BY <1>2 DEF R
<1> QED  BY <1>3

(* The greatest element, by reflection of the least one. *)
LEMMA NatGreatest ==
  ASSUME NEW n \in Nat, NEW T \in SUBSET (1..n), T # {}
  PROVE  \E x \in T : \A y \in T : y <= x
<1> DEFINE U == {i \in Nat : \E x \in T : i = n - x}
<1>1. U \in SUBSET Nat /\ U # {}
  <2>1. PICK x \in T : TRUE
    OBVIOUS
  <2>2. n - x \in U
    BY <2>1
  <2> QED  BY <2>2
<1>2. PICK i \in U : \A j \in U : i <= j
  BY <1>1, NatLeast
<1>3. PICK x \in T : i = n - x
  OBVIOUS
<1>4. ASSUME NEW y \in T  PROVE y <= x
  <2>1. n - y \in U
    OBVIOUS
  <2>2. n - x <= n - y
    BY <1>2, <1>3, <2>1
  <2> QED  BY <2>2
<1> QED  BY <1>4

-----------------------------------------------------------------------------
(***************************************************************************)
(* What purge_duplicates keeps: LastOf(q, a) is the last message of        *)
(* address a in q, and a purged queue consists of such messages.           *)
(***************************************************************************)
LEMMA LastOfProperty ==
  ASSUME NEW q \in Seq(Message), NEW a, a \in {m.addr : m \in Elements(q)}
  PROVE  \E i \in 1..Len(q) :
           /\ q[i] = LastOf(q, a)
           /\ q[i].addr = a
           /\ \A j \in 1..Len(q) : q[j].addr = a => j <= i
<1> DEFINE At == {i \in 1..Len(q) : q[i].addr = a}
<1>1. Len(q) \in Nat
  OBVIOUS
<1>2. At \in SUBSET (1..Len(q)) /\ At # {}
  BY DEF Elements
<1>3. PICK i \in At : \A j \in At : j <= i
  BY <1>1, <1>2, NatGreatest
<1>4. /\ q[i] \in Elements(q)
      /\ q[i].addr = a
      /\ \A j \in (i + 1)..Len(q) : q[j].addr # a
  BY <1>1, <1>3 DEF Elements
<1> DEFINE IsLast(m) == \E k \in 1..Len(q) :
                          /\ q[k] = m
                          /\ m.addr = a
                          /\ \A j \in (k + 1)..Len(q) : q[j].addr # a
<1>5. \E m \in Elements(q) : IsLast(m)
  BY <1>3, <1>4
<1>6. LastOf(q, a) \in Elements(q) /\ IsLast(LastOf(q, a))
  BY <1>5 DEF LastOf
<1>7. PICK k \in 1..Len(q) : /\ q[k] = LastOf(q, a)
                             /\ q[k].addr = a
                             /\ \A j \in (k + 1)..Len(q) : q[j].addr # a
  BY <1>6
<1>8. \A j \in 1..Len(q) : q[j].addr = a => j <= k
  BY <1>1, <1>7
<1> QED  BY <1>7, <1>8

(* A purged queue is a queue of messages, and not a longer one. *)
LEMMA PurgedType ==
  ASSUME NEW q \in Seq(Message), NEW s \in Purged(q)
  PROVE  s \in Seq(Message) /\ Len(s) <= Len(q)
<1> DEFINE keys == {m.addr : m \in Elements(q)}
           map  == [a \in keys |-> LastOf(q, a)]
           last == {map[a] : a \in keys}
<1>1. \A a \in keys : map[a] \in Message
  <2> SUFFICES ASSUME NEW a \in keys  PROVE LastOf(q, a) \in Message
    OBVIOUS
  <2>1. PICK i \in 1..Len(q) : q[i] = LastOf(q, a)
    BY LastOfProperty
  <2> QED  BY <2>1
<1>2. PICK n \in 0..Len(q) : s \in [1..n -> last]
  BY DEF Purged
<1>3. last \subseteq Message
  BY <1>1
<1>4. Len(q) \in Nat
  OBVIOUS
<1> HIDE DEF last
<1> QED  BY <1>2, <1>3, <1>4

-----------------------------------------------------------------------------
(***************************************************************************)
(* The inductive invariant.  A thread holds the mutex exactly inside its   *)
(* critical sections; the two pointers differ but for the moment between   *)
(* the two assignments of a swap; the deque that is about to be handed to  *)
(* the listener is empty; and the cursor's length is that of the deque.    *)
(***************************************************************************)
LockHeld == \A t \in Threads : pc[t] \in Critical <=> mutex = t

Pointers ==
  IF pc["main"] = "swap_read"
    THEN queue_write = queue_read /\ tmp # queue_read
    ELSE queue_write # queue_read /\ (pc["main"] = "index" => tmp = queue_read)

Cleared == pc["main"] \in {"swap_lock", "swap_write", "swap_read"} => deque[queue_read] = <<>>

CursorFits ==
  IF pc["main"] \in Swapping
    THEN EndOfBatch /\ swap_needed
    ELSE /\ qread_index <= qread_len
         /\ qread_len = Len(deque[queue_read])
         /\ swap_needed => EndOfBatch

PendingInBatch == pending => pc["main"] \notin Swapping /\ ~EndOfBatch

IInv == /\ TypeOK
        /\ LockHeld
        /\ Pointers
        /\ Cleared
        /\ CursorFits
        /\ PendingInBatch
        /\ QueueBound

(* The constructor establishes the invariant. *)
LEMMA InitIInv == Init => IInv
<1> SUFFICES ASSUME Init  PROVE IInv
  OBVIOUS
<1>1. TypeOK
  <2>1. pc \in [Threads -> MainLabels \cup ListenerLabels]
    BY DEF Init, MainLabels, ListenerLabels
  <2>2. deque \in [Deques -> Seq(Message)]
    BY DEF Init
  <2> QED
    BY <2>1, <2>2, DefaultMaxAssumption
       DEF Init, TypeOK, Threads, Deques, MainLabels, ListenerLabels
<1>2. /\ pc["main"] = "idle"
      /\ pc["listener"] = "receive"
      /\ deque["a"] = <<>>
      /\ deque["b"] = <<>>
  BY DEF Init, Threads, Deques
<1>3. LockHeld /\ Pointers /\ Cleared /\ CursorFits /\ PendingInBatch
  BY <1>2 DEF Init, LockHeld, Pointers, Cleared, CursorFits, PendingInBatch, EndOfBatch,
              Threads, Critical, Swapping
<1>4. QueueBound
  BY <1>2, DefaultMaxAssumption DEF Init, QueueBound, Checking
<1> QED  BY <1>1, <1>3, <1>4 DEF IInv

(***************************************************************************)
(* Each action preserves it.                                               *)
(***************************************************************************)
LEMMA NextIInv == IInv /\ [Next]_vars => IInv'
<1> SUFFICES ASSUME IInv, [Next]_vars
             PROVE  IInv'
  OBVIOUS
<1> USE DEF IInv, TypeOK, LockHeld, Pointers, Cleared, CursorFits, PendingInBatch, QueueBound,
            EndOfBatch, Threads, Deques, Critical, MainLabels, ListenerLabels, Swapping, Checking,
            shared, queues, cursor, options, history, Goto, Lock, Unlock
<1>1. CASE ProcessMessageLock
  BY <1>1 DEF ProcessMessageLock
<1>2. CASE ProcessMessagePush
  <2>1. PICK a \in Addresses :
          deque' = [deque EXCEPT ![queue_write] = Append(@, [id |-> arrived + 1, addr |-> a])]
    BY <1>2 DEF ProcessMessagePush
  <2> DEFINE m == [id |-> arrived + 1, addr |-> a]
  <2>2. m \in Message
    BY DEF Message
  <2> HIDE DEF m
  <2>3. deque' = [deque EXCEPT ![queue_write] = Append(@, m)]
    BY <2>1 DEF m
  <2>4. Len(Append(deque[queue_write], m)) = Len(deque[queue_write]) + 1
    BY <2>2
  <2> QED  BY <1>2, <2>2, <2>3, <2>4 DEF ProcessMessagePush
<1>3. ASSUME NEW t \in Threads, CheckQueueLock(t)
      PROVE  IInv'
  BY <1>3 DEF CheckQueueLock
<1>4. ASSUME NEW t \in Threads, CheckQueueResize(t)
      PROVE  IInv'
  <2>1. CASE Len(deque[queue_write]) > max_queue
    <3> DEFINE kept == Resize(deque[queue_write], max_queue)
    <3>1. kept \in Seq(Message) /\ Len(kept) = max_queue
      BY <2>1 DEF Resize
    <3> HIDE DEF kept
    <3>2. deque' = [deque EXCEPT ![queue_write] = kept]
      BY <1>4, <2>1 DEF CheckQueueResize, kept
    <3> QED  BY <1>4, <3>1, <3>2 DEF CheckQueueResize, AfterCheck
  <2>2. CASE ~(Len(deque[queue_write]) > max_queue)
    BY <1>4, <2>2 DEF CheckQueueResize, AfterCheck
  <2> QED  BY <2>1, <2>2
<1>5. CASE MaxQueueLock
  BY <1>5 DEF MaxQueueLock
<1>6. CASE MaxQueueSet
  BY <1>6, LimitsAssumption DEF MaxQueueSet
<1>7. CASE AvoidDuplicateLock
  BY <1>7 DEF AvoidDuplicateLock
<1>8. CASE AvoidDuplicateSet
  BY <1>8 DEF AvoidDuplicateSet
<1>9. CASE HasMessage
  BY <1>9 DEF HasMessage
<1>10. CASE HasMessageSwap
  BY <1>10 DEF HasMessageSwap
<1>11. CASE SwapClear
  BY <1>11 DEF SwapClear
<1>12. CASE SwapLock
  BY <1>12 DEF SwapLock
<1>13. CASE SwapWrite
  BY <1>13 DEF SwapWrite
<1>14. CASE SwapRead
  BY <1>14 DEF SwapRead
<1>15. CASE SwapIndex
  BY <1>15, PurgedType DEF SwapIndex
<1>16. CASE GetNext
  <2>1. qread_index + 1 \in 1..Len(deque[queue_read])
    BY <1>16 DEF GetNext
  <2>2. deque[queue_read][qread_index + 1] \in Message
    BY <2>1, ElementOfSeq
  <2>3. delivered' \in Seq(Message)
    BY <1>16, <2>2 DEF GetNext
  <2>4. /\ UNCHANGED <<mutex, pc, max_queue, avoid_duplicate, deque, queue_write, queue_read, tmp,
                       qread_len, swap_needed, arrived>>
      /\ qread_index' = qread_index + 1
      /\ pending' = FALSE
    BY <1>16 DEF GetNext
  <2>5. TypeOK'
    <3>1. /\ mutex' \in Threads \cup {"free"}
          /\ pc' \in [Threads -> MainLabels \cup ListenerLabels]
          /\ pc'["main"] \in MainLabels
          /\ pc'["listener"] \in ListenerLabels
          /\ max_queue' \in Nat \ {0}
          /\ avoid_duplicate' \in BOOLEAN
      BY <2>4
    <3>2. /\ deque' \in [Deques -> Seq(Message)]
          /\ queue_write' \in Deques
          /\ queue_read' \in Deques
          /\ tmp' \in Deques
      BY <2>4
    <3>3. /\ qread_index' \in Nat
          /\ qread_len' \in Nat
          /\ swap_needed' \in BOOLEAN
          /\ arrived' \in Nat
      BY <2>4
    <3>4. pending' \in BOOLEAN
      BY <2>4
    <3> QED  BY <2>3, <3>1, <3>2, <3>3, <3>4
  <2>6. LockHeld' /\ Pointers' /\ Cleared' /\ QueueBound'
    BY <2>4
  <2>7. CursorFits' /\ PendingInBatch'
    BY <1>16, <2>1, <2>4 DEF GetNext
  <2> QED  BY <2>5, <2>6, <2>7
<1>17. CASE UNCHANGED vars
  BY <1>17 DEF vars
<1> HIDE DEF IInv, Threads
<1> QED
  BY <1>1, <1>2, <1>3, <1>4, <1>5, <1>6, <1>7, <1>8, <1>9, <1>10, <1>11, <1>12, <1>13, <1>14,
     <1>15, <1>16, <1>17 DEF Next, Listener, Options, Poll, Threads

(* The inductive invariant holds of every reachable state. *)
THEOREM Invariance == Spec => []IInv
BY InitIInv, NextIInv, PTL DEF Spec

-----------------------------------------------------------------------------
(***************************************************************************)
(* Every variable has a value of its type: the queues hold whole messages, *)
(* the limit stays positive and the threads are at labels of their own.    *)
(***************************************************************************)
THEOREM TypeCorrect == Spec => []TypeOK
<1>1. IInv => TypeOK
  BY DEF IInv
<1> QED  BY <1>1, Invariance, PTL

(***************************************************************************)
(* No step of the script and step of the listener touch the same memory    *)
(* when one of them writes it: what one thread touches outside the mutex   *)
(* is private to it because the two pointers differ.                       *)
(***************************************************************************)
THEOREM RaceFree == Spec => []NoDataRace
<1>1. IInv => NoDataRace
  <2> SUFFICES ASSUME IInv  PROVE NoDataRace
    OBVIOUS
  <2>1. /\ Writes("main") \cap (Writes("listener") \cup Reads("listener")) = {}
        /\ Writes("listener") \cap Reads("main") = {}
    BY DEF IInv, TypeOK, LockHeld, Pointers, Writes, Reads, Critical, Threads, Deques,
           MainLabels, ListenerLabels
  <2> QED  BY <2>1 DEF NoDataRace, Threads
<1> QED  BY <1>1, Invariance, PTL

(***************************************************************************)
(* get_next() never indexes past the end of the deque, has_message() never *)
(* clears an unread message, and a message it announced is there for the   *)
(* next get_next().                                                        *)
(***************************************************************************)
THEOREM CursorCorrect == Spec => []CursorInBatch
<1>1. IInv => CursorInBatch
  BY DEF IInv, TypeOK, CursorFits, CursorInBatch, PendingInBatch, EndOfBatch,
         Swapping, Deques
<1> QED  BY <1>1, Invariance, PTL

(***************************************************************************)
(* The deque the listener fills exceeds _max_queue by one message at most, *)
(* and only between a push and its check.                                  *)
(***************************************************************************)
THEOREM QueueBounded == Spec => []QueueBound
<1>1. IInv => QueueBound
  BY DEF IInv
<1> QED  BY <1>1, Invariance, PTL

-----------------------------------------------------------------------------
(***************************************************************************)
(* The receiver implements the mailbox.  First, three facts about          *)
(* concatenations and one about purged queues.                             *)
(***************************************************************************)
LEMMA ConcatAppend ==
  ASSUME NEW S, NEW u \in Seq(S), NEW v \in Seq(S), NEW e \in S
  PROVE  u \o Append(v, e) = Append(u \o v, e)
OBVIOUS

(* A prefix that reaches into the second of two sequences ends with a prefix of it. *)
LEMMA ConcatPrefix ==
  ASSUME NEW S, NEW u \in Seq(S), NEW v \in Seq(S), NEW k \in 0..Len(v)
  PROVE  SubSeq(u \o v, 1, Len(u) + k) = u \o SubSeq(v, 1, k)
<1> DEFINE l == SubSeq(u \o v, 1, Len(u) + k)
           r == u \o SubSeq(v, 1, k)
<1>1. u \o v \in Seq(S) /\ Len(u \o v) = Len(u) + Len(v)
  OBVIOUS
<1>2. /\ l \in Seq(S)
      /\ Len(l) = Len(u) + k
      /\ \A i \in 1..Len(u) + k : l[i] = (u \o v)[i]
  <2>1. \A i \in 1..(Len(u) + k) : (u \o v)[i] \in S
    BY <1>1, ElementOfSeq
  <2> QED  BY <1>1, <2>1, SubSeqProperties
<1>3. SubSeq(v, 1, k) \in Seq(S) /\ Len(SubSeq(v, 1, k)) = k
  OBVIOUS
<1>4. r \in Seq(S) /\ Len(r) = Len(u) + k
  BY <1>3
<1>5. \A i \in 1..Len(l) : l[i] = r[i]
  BY <1>1, <1>2, <1>3
<1> HIDE DEF l, r
<1>6. l = r
  BY <1>2, <1>4, <1>5, SeqEqual
<1> QED  BY <1>6 DEF l, r

(* What follows the first of two sequences is the second one. *)
LEMMA ConcatSuffix ==
  ASSUME NEW S, NEW u \in Seq(S), NEW v \in Seq(S)
  PROVE  SubSeq(u \o v, Len(u) + 1, Len(u \o v)) = v
<1> DEFINE w == SubSeq(u \o v, Len(u) + 1, Len(u \o v))
<1>1. u \o v \in Seq(S) /\ Len(u \o v) = Len(u) + Len(v)
  OBVIOUS
<1>2. /\ w \in Seq(S)
      /\ Len(w) = Len(v)
      /\ \A i \in 1..Len(v) : w[i] = (u \o v)[Len(u) + i]
  <2>1. \A i \in (Len(u) + 1)..Len(u \o v) : (u \o v)[i] \in S
    BY <1>1, ElementOfSeq
  <2>2. /\ Len(u) \in Nat /\ Len(v) \in Nat
        /\ Len(u) + 1 \in Int /\ Len(u \o v) \in Int
    BY <1>1
  <2>3. /\ w \in Seq(S)
        /\ Len(w) = IF Len(u) + 1 <= Len(u \o v) THEN Len(u \o v) - (Len(u) + 1) + 1 ELSE 0
        /\ \A i \in 1..(Len(u \o v) - (Len(u) + 1) + 1) : w[i] = (u \o v)[Len(u) + 1 + i - 1]
    BY <2>1, <2>2, SubSeqProperties
  <2>4. /\ Len(u \o v) - (Len(u) + 1) + 1 = Len(v)
        /\ (Len(u) + 1 <= Len(u \o v)) = (1 <= Len(v))
        /\ Len(v) < 1 => Len(v) = 0
    BY <1>1, <2>2
  <2>5. \A i \in 1..Len(v) : Len(u) + 1 + i - 1 = Len(u) + i
    BY <2>2
  <2> HIDE DEF w
  <2>6. Len(w) = Len(v)
    BY <2>2, <2>3, <2>4
  <2>7. \A i \in 1..Len(v) : w[i] = (u \o v)[Len(u) + i]
    BY <2>3, <2>4, <2>5
  <2> QED  BY <2>3, <2>6, <2>7
<1>3. \A i \in 1..Len(w) : w[i] = v[i]
  BY <1>1, <1>2
<1> HIDE DEF w
<1>4. w = v
  BY <1>2, <1>3, SeqEqual
<1> QED  BY <1>4 DEF w

(* What purge_duplicates returns is the collapse of the mailbox. *)
LEMMA PurgedIsCollapse ==
  ASSUME NEW q \in Seq(Message), NEW s \in Purged(q)
  PROVE  s \in Box!Collapse(q)
<1> DEFINE keys   == {m.addr : m \in Elements(q)}
           map    == [a \in keys |-> LastOf(q, a)]
           last   == {map[a] : a \in keys}
           latest == {q[i] : i \in {j \in 1..Len(q) : Box!IsLatest(q, j)}}
<1>1. last = latest
  <2>1. ASSUME NEW a \in keys  PROVE LastOf(q, a) \in latest
    <3>1. PICK i \in 1..Len(q) : /\ q[i] = LastOf(q, a)
                                 /\ q[i].addr = a
                                 /\ \A j \in 1..Len(q) : q[j].addr = a => j <= i
      BY LastOfProperty
    <3>2. Box!IsLatest(q, i)
      BY <3>1 DEF Box!IsLatest
    <3> QED  BY <3>1, <3>2
  <2>2. ASSUME NEW i \in 1..Len(q), Box!IsLatest(q, i)  PROVE q[i] \in last
    <3>1. q[i].addr \in keys
      BY DEF Elements
    <3>2. PICK k \in 1..Len(q) : /\ q[k] = LastOf(q, q[i].addr)
                                 /\ q[k].addr = q[i].addr
                                 /\ \A j \in 1..Len(q) : q[j].addr = q[i].addr => j <= k
      BY <3>1, LastOfProperty
    <3>3. i = k
      BY <2>2, <3>2 DEF Box!IsLatest
    <3> QED  BY <3>1, <3>2, <3>3
  <2> QED  BY <2>1, <2>2
<1>2. PICK n \in 0..Len(q) : s \in [1..n -> last]
  BY DEF Purged
<1>3. /\ \A a \in keys : \E i \in 1..Len(s) : s[i] = map[a]
      /\ \A i, j \in 1..Len(s) : i < j => s[i].addr < s[j].addr
  BY DEF Purged
<1>4. Len(s) = n /\ \A i \in 1..Len(s) : s[i] \in last
  <2> HIDE DEF last
  <2> QED  BY <1>2
<1>5. Box!Elements(s) = last
  BY <1>3, <1>4 DEF Box!Elements
<1>6. s \in Box!SeqsUpTo(last, Len(q))
  BY <1>2 DEF Box!SeqsUpTo
<1> HIDE DEF last
<1> QED  BY <1>1, <1>3, <1>5, <1>6 DEF Box!Collapse

(***************************************************************************)
(* The two parts of the receiver's inbox, under the invariant.             *)
(***************************************************************************)
Batch == IF pc["main"] \in {"swap_read", "index"} THEN deque[tmp] ELSE <<>>

(* The inbox is the deque of the listener but for a swap under way. *)
LEMMA InboxShape ==
  ASSUME IInv
  PROVE  /\ Inbox = Batch \o deque[queue_write]
         /\ Batch \in Seq(Message)
         /\ deque[queue_write] \in Seq(Message)
         /\ deque[queue_read] \in Seq(Message)
         /\ Inbox \in Seq(Message)
         /\ Len(Inbox) = Len(Batch) + Len(deque[queue_write])
BY DEF Inbox, Batch, IInv, TypeOK

(* At the end of a batch nothing is left of it. *)
LEMMA OutboxEmpty ==
  ASSUME IInv, EndOfBatch
  PROVE  Outbox = <<>>
BY SubSeqEmpty DEF Outbox, EndOfBatch, IInv, TypeOK

(***************************************************************************)
(* A push is an arrival: it lands at the end of the inbox and outside the  *)
(* published batch.                                                        *)
(***************************************************************************)
LEMMA PushStep ==
  ASSUME IInv, ProcessMessagePush
  PROVE  Box!Arrive
<1>1. PICK a \in Addresses :
        deque' = [deque EXCEPT ![queue_write] = Append(@, [id |-> arrived + 1, addr |-> a])]
  BY DEF ProcessMessagePush
<1> DEFINE m == [id |-> arrived + 1, addr |-> a]
<1>2. m \in Message
  BY DEF Message, IInv, TypeOK
<1>3. /\ pc["main"] # "swap_read"
      /\ pc'["main"] = pc["main"]
      /\ queue_write # queue_read
      /\ pc["main"] = "index" => tmp # queue_write
      /\ UNCHANGED <<queue_write, queue_read, tmp, qread_index, qread_len, delivered>>
      /\ arrived' = arrived + 1
  BY DEF ProcessMessagePush, Unlock, Goto, cursor, IInv, TypeOK, LockHeld, Pointers, Threads,
         Critical, MainLabels
<1>4. /\ deque'[queue_write] = Append(deque[queue_write], m)
      /\ \A d \in Deques : d # queue_write => deque'[d] = deque[d]
  BY <1>1 DEF IInv, TypeOK
<1> HIDE DEF m
<1>5. Batch' = Batch
  BY <1>3, <1>4 DEF Batch, IInv, TypeOK
<1>6. Inbox' = Batch \o Append(deque[queue_write], m)
  BY <1>3, <1>4, <1>5 DEF Inbox, Batch
<1>7. Inbox' = Append(Inbox, m)
  <2>1. Batch \in Seq(Message) /\ deque[queue_write] \in Seq(Message)
    BY InboxShape
  <2>2. Batch \o Append(deque[queue_write], m) = Append(Batch \o deque[queue_write], m)
    BY <1>2, <2>1, ConcatAppend
  <2>3. Inbox = Batch \o deque[queue_write]
    BY InboxShape
  <2> QED  BY <1>6, <2>2, <2>3
<1>8. Outbox' = Outbox
  BY <1>3, <1>4 DEF Outbox, IInv, TypeOK
<1> QED  BY <1>3, <1>7, <1>8 DEF Box!Arrive, m

(***************************************************************************)
(* The check of the limit drops the newest messages of the inbox, or none. *)
(***************************************************************************)
LEMMA ResizeStep ==
  ASSUME IInv, NEW t \in Threads, CheckQueueResize(t)
  PROVE  Box!DropNewest
<1> DEFINE w == deque[queue_write]
           k == IF Len(w) > max_queue THEN max_queue ELSE Len(w)
<1>1. /\ pc["main"] # "swap_read"
      /\ pc["main"] = "index" => pc'["main"] = "index" /\ tmp # queue_write
      /\ pc["main"] # "index" => pc'["main"] \notin {"swap_read", "index"}
      /\ queue_write # queue_read
      /\ UNCHANGED <<queue_write, queue_read, tmp, qread_index, qread_len, arrived, delivered>>
  BY DEF CheckQueueResize, AfterCheck, Unlock, Goto, cursor, history, IInv, TypeOK, LockHeld,
         Pointers, Threads, Critical, MainLabels
<1>2. w \in Seq(Message) /\ Len(w) \in Nat /\ max_queue \in Nat
  BY DEF IInv, TypeOK
<1>3. k \in 0..Len(w)
  BY <1>2
<1>4. /\ deque'[queue_write] = SubSeq(w, 1, k)
      /\ \A d \in Deques : d # queue_write => deque'[d] = deque[d]
  <2>1. CASE Len(w) > max_queue
    BY <2>1 DEF CheckQueueResize, Resize, IInv, TypeOK
  <2>2. CASE ~(Len(w) > max_queue)
    <3>1. SubSeq(w, 1, Len(w)) = w
      BY <1>2, SubSeqFull
    <3> QED  BY <2>2, <3>1 DEF CheckQueueResize
  <2> QED  BY <2>1, <2>2
<1> HIDE DEF k
<1>5. Batch' = Batch
  BY <1>1, <1>4 DEF Batch, IInv, TypeOK
<1>6. Inbox' = Batch \o SubSeq(w, 1, k)
  BY <1>1, <1>4, <1>5 DEF Inbox, Batch
<1>7. Inbox' = SubSeq(Inbox, 1, Len(Batch) + k)
  BY <1>2, <1>3, <1>6, InboxShape, ConcatPrefix
<1>8. Len(Batch) + k \in 0..Len(Inbox)
  BY <1>2, <1>3, InboxShape
<1>9. Outbox' = Outbox
  BY <1>1, <1>4 DEF Outbox, IInv, TypeOK
<1> QED  BY <1>1, <1>7, <1>8, <1>9 DEF Box!DropNewest

(***************************************************************************)
(* Clearing the deque that was read to its end and swapping the pointers   *)
(* change neither the inbox nor the outbox.                                *)
(***************************************************************************)
LEMMA SwapStep ==
  ASSUME IInv, SwapClear \/ SwapWrite \/ SwapRead
  PROVE  UNCHANGED Box!mailboxVars
<1>1. UNCHANGED <<arrived, delivered, qread_index, qread_len>>
  BY DEF SwapClear, SwapWrite, SwapRead, Unlock, Goto, cursor, history
<1>2. EndOfBatch /\ EndOfBatch'
  BY <1>1 DEF SwapClear, SwapWrite, SwapRead, Unlock, IInv, CursorFits, Swapping, EndOfBatch
<1>3. Outbox' = Outbox
  <2>1. qread_len' \in Nat /\ qread_index' = qread_len' /\ qread_len = qread_index
    BY <1>1, <1>2 DEF EndOfBatch, IInv, TypeOK
  <2>2. Outbox = <<>> /\ Outbox' = <<>>
    BY <1>1, <2>1, SubSeqEmpty DEF Outbox
  <2> QED  BY <2>2
<1>4. Inbox' = Inbox
  <2>1. CASE SwapClear
    <3>1. pc["main"] = "clear" /\ pc'["main"] = "swap_lock"
      BY <2>1 DEF SwapClear, Goto, IInv, TypeOK, Threads
    <3>2. queue_write' = queue_write /\ deque'[queue_write] = deque[queue_write]
      BY <2>1, <3>1 DEF SwapClear, IInv, TypeOK, Pointers
    <3> QED  BY <3>1, <3>2 DEF Inbox
  <2>2. CASE SwapWrite
    <3>1. pc["main"] = "swap_write" /\ pc'["main"] = "swap_read"
      BY <2>2 DEF SwapWrite, Goto, IInv, TypeOK, Threads
    <3>2. /\ deque'[tmp'] = deque[queue_write]
          /\ deque'[queue_write'] = <<>>
          /\ deque[queue_write] \in Seq(Message)
      BY <2>2, <3>1 DEF SwapWrite, IInv, TypeOK, Cleared
    <3>3. Inbox = deque[queue_write] /\ Inbox' = deque[queue_write]
      BY <3>1, <3>2, ConcatEmptySeq DEF Inbox
    <3> QED  BY <3>3
  <2>3. CASE SwapRead
    <3>1. pc["main"] = "swap_read" /\ pc'["main"] = "index"
      BY <2>3 DEF SwapRead, Unlock, Goto, IInv, TypeOK, Threads
    <3> QED  BY <2>3, <3>1 DEF SwapRead, Inbox
  <2> QED  BY <2>1, <2>2, <2>3
<1> QED  BY <1>1, <1>3, <1>4 DEF Box!mailboxVars

(***************************************************************************)
(* The swap takes effect where the cursor is reset: that step publishes    *)
(* the whole batch or its collapse.                                        *)
(***************************************************************************)
LEMMA IndexStep ==
  ASSUME IInv, SwapIndex
  PROVE  Box!Publish
<1> DEFINE q == deque[queue_read]
           w == deque[queue_write]
<1>1. /\ pc["main"] = "index"
      /\ pc'["main"] = "idle"
      /\ queue_write # queue_read
      /\ tmp = queue_read
      /\ EndOfBatch
      /\ q \in Seq(Message)
      /\ w \in Seq(Message)
      /\ queue_read \in Deques /\ queue_write \in Deques
      /\ deque \in [Deques -> Seq(Message)]
  BY DEF SwapIndex, Goto, IInv, TypeOK, Threads, Pointers, CursorFits, Swapping
<1>2. PICK batch \in IF avoid_duplicate /\ Len(q) >= 2 THEN Purged(q) ELSE {q} :
        /\ deque' = [deque EXCEPT ![queue_read] = batch]
        /\ qread_index' = 0
        /\ qread_len' = Len(batch)
        /\ UNCHANGED <<queue_write, queue_read, tmp, arrived, delivered>>
  BY DEF SwapIndex
<1>3. batch \in {q} \cup Box!Collapse(q) /\ batch \in Seq(Message)
  <2>1. CASE batch = q
    BY <1>1, <2>1
  <2>2. CASE batch \in Purged(q)
    BY <1>1, <2>2, PurgedIsCollapse, PurgedType
  <2> QED  BY <1>2, <2>1, <2>2
<1>4. /\ deque'[queue_read] = batch
      /\ deque'[queue_write] = w
  BY <1>1, <1>2
<1>5. Outbox = <<>>
  BY <1>1, OutboxEmpty
<1>6. Outbox' = batch
  <2>1. Outbox' = SubSeq(batch, 1, Len(batch))
    BY <1>2, <1>4 DEF Outbox
  <2> QED  BY <1>3, <2>1, SubSeqFull
<1>7. Inbox = q \o w
  BY <1>1 DEF Inbox
<1>8. Inbox' = w
  BY <1>1, <1>2, <1>4, ConcatEmptySeq DEF Inbox
<1>9. SubSeq(Inbox, 1, Len(q)) = q
  <2>1. SubSeq(q \o w, 1, Len(q) + 0) = q \o SubSeq(w, 1, 0)
    BY <1>1, ConcatPrefix
  <2>2. SubSeq(w, 1, 0) = <<>>
    BY SubSeqEmpty
  <2>3. q \o <<>> = q
    BY <1>1, ConcatEmptySeq
  <2>4. Len(q) + 0 = Len(q)
    BY <1>1
  <2> HIDE DEF q, w
  <2> QED  BY <1>7, <2>1, <2>2, <2>3, <2>4
<1>10. SubSeq(Inbox, Len(q) + 1, Len(Inbox)) = w
  BY <1>1, <1>7, ConcatSuffix
<1>11. Len(q) \in 0..Len(Inbox)
  BY <1>1, <1>7
<1> HIDE DEF q, w
<1> QED  BY <1>2, <1>3, <1>5, <1>6, <1>8, <1>9, <1>10, <1>11 DEF Box!Publish

(***************************************************************************)
(* get_next() takes the head of the outbox.                                *)
(***************************************************************************)
LEMMA GetNextStep ==
  ASSUME IInv, GetNext
  PROVE  Box!Take
<1> DEFINE q == deque[queue_read]
<1>1. /\ q \in Seq(Message)
      /\ qread_index + 1 \in 1..qread_len
      /\ qread_len = Len(q)
      /\ qread_index \in Nat
      /\ qread_index' = qread_index + 1
      /\ delivered' = Append(delivered, q[qread_index + 1])
      /\ UNCHANGED <<pc, deque, queue_write, queue_read, tmp, qread_len, arrived>>
  BY DEF GetNext, shared, queues, IInv, TypeOK, CursorFits, EndOfBatch, Swapping
<1> HIDE DEF q
<1>2. /\ Head(SubSeq(q, qread_index + 1, qread_len)) = q[qread_index + 1]
      /\ Tail(SubSeq(q, qread_index + 1, qread_len)) = SubSeq(q, qread_index + 2, qread_len)
  <2>1. /\ qread_index + 1 \in 1..Len(q)
        /\ qread_len \in (qread_index + 1)..Len(q)
        /\ (qread_index + 1) + 1 = qread_index + 2
    BY <1>1
  <2> QED  BY <1>1, <2>1, HeadTailOfSubSeq
<1>3. SubSeq(q, qread_index + 1, qread_len) # <<>>
  <2>1. \A i \in (qread_index + 1)..qread_len : q[i] \in Message
    BY <1>1, ElementOfSeq
  <2>2. Len(SubSeq(q, qread_index + 1, qread_len)) = qread_len - qread_index
    BY <1>1, <2>1, SubSeqProperties
  <2> QED  BY <1>1, <2>2, EmptySeq
<1>4. Outbox = SubSeq(q, qread_index + 1, qread_len)
  BY DEF Outbox, q
<1>5. Outbox' = SubSeq(q, qread_index + 2, qread_len)
  BY <1>1 DEF Outbox, q
<1>6. Inbox' = Inbox
  BY <1>1 DEF Inbox
<1> QED  BY <1>1, <1>2, <1>3, <1>4, <1>5, <1>6 DEF Box!Take

(***************************************************************************)
(* Every other step is internal to the receiver.                           *)
(***************************************************************************)
LEMMA InternalStep ==
  ASSUME IInv,
         \/ ProcessMessageLock \/ MaxQueueLock \/ MaxQueueSet
         \/ AvoidDuplicateLock \/ AvoidDuplicateSet
         \/ HasMessage \/ HasMessageSwap \/ SwapLock
         \/ \E t \in Threads : CheckQueueLock(t)
         \/ UNCHANGED vars
  PROVE  UNCHANGED Box!mailboxVars
<1>1. /\ UNCHANGED <<deque, queue_write, queue_read, tmp, qread_index, qread_len, arrived,
                     delivered>>
      /\ pc["main"] \in {"swap_read", "index"} <=> pc'["main"] \in {"swap_read", "index"}
  BY DEF ProcessMessageLock, MaxQueueLock, MaxQueueSet, AvoidDuplicateLock, AvoidDuplicateSet,
         HasMessage, HasMessageSwap, SwapLock, CheckQueueLock, vars, Lock, Unlock, Goto,
         shared, queues, cursor, options, history, Threads, IInv, TypeOK
<1>2. Inbox' = Inbox /\ Outbox' = Outbox
  BY <1>1 DEF Inbox, Outbox
<1> QED  BY <1>1, <1>2 DEF Box!mailboxVars

(***************************************************************************)
(* The receiver, with its two threads, its mutex and its double buffer,    *)
(* implements the mailbox: no message is invented, duplicated or           *)
(* reordered, and only the newest are dropped.                             *)
(***************************************************************************)
THEOREM Implementation == Spec => ImplementsMailbox
<1>1. Init => Box!Init
  <2> SUFFICES ASSUME Init  PROVE Box!Init
    OBVIOUS
  <2>1. Inbox = <<>>
    BY ConcatEmptySeq DEF Init, Inbox, Threads, Deques
  <2>2. Outbox = <<>>
    BY SubSeqEmpty DEF Init, Outbox
  <2> QED  BY <2>1, <2>2 DEF Init, Box!Init
<1>2. IInv /\ [Next]_vars => [Box!Next]_(Box!mailboxVars)
  <2> SUFFICES ASSUME IInv, [Next]_vars  PROVE [Box!Next]_(Box!mailboxVars)
    OBVIOUS
  <2>1. CASE ProcessMessagePush
    BY <2>1, PushStep DEF Box!Next
  <2>2. ASSUME NEW t \in Threads, CheckQueueResize(t)
        PROVE  [Box!Next]_(Box!mailboxVars)
    BY <2>2, ResizeStep DEF Box!Next
  <2>3. CASE SwapClear \/ SwapWrite \/ SwapRead
    BY <2>3, SwapStep
  <2>4. CASE SwapIndex
    BY <2>4, IndexStep DEF Box!Next
  <2>5. CASE GetNext
    BY <2>5, GetNextStep DEF Box!Next
  <2>6. CASE \/ ProcessMessageLock \/ MaxQueueLock \/ MaxQueueSet
             \/ AvoidDuplicateLock \/ AvoidDuplicateSet
             \/ HasMessage \/ HasMessageSwap \/ SwapLock
             \/ \E t \in Threads : CheckQueueLock(t)
             \/ UNCHANGED vars
    BY <2>6, InternalStep
  <2> QED
    BY <2>1, <2>2, <2>3, <2>4, <2>5, <2>6 DEF Next, Listener, Options, Poll, Threads
<1> QED  BY <1>1, <1>2, Invariance, PTL DEF Spec, ImplementsMailbox, Box!Spec

-----------------------------------------------------------------------------
(***************************************************************************)
(* The order of messages in the mailbox that the receiver implements.  The *)
(* inductive invariant: the inbox is in the order of arrival, messages of  *)
(* one address are in that order in the outbox and among those taken,      *)
(* taken messages precede the outbox address by address, and both precede  *)
(* the inbox altogether.                                                   *)
(***************************************************************************)
Ordered(q) == \A i, j \in 1..Len(q) : i < j => q[i].id < q[j].id

OrderedByAddr(q) ==
  \A i, j \in 1..Len(q) : (i < j /\ q[i].addr = q[j].addr) => q[i].id < q[j].id

Before(q, r) == \A i \in 1..Len(q), j \in 1..Len(r) : q[i].id < r[j].id

BeforeByAddr(q, r) ==
  \A i \in 1..Len(q), j \in 1..Len(r) : q[i].addr = r[j].addr => q[i].id < r[j].id

MailboxTypeOK ==
  /\ arrived \in Nat
  /\ Inbox \in Seq(Message)
  /\ Outbox \in Seq(Message)
  /\ delivered \in Seq(Message)

OrderInv ==
  /\ MailboxTypeOK
  /\ \A i \in 1..Len(Inbox) : Inbox[i].id <= arrived
  /\ \A i \in 1..Len(Outbox) : Outbox[i].id <= arrived
  /\ \A i \in 1..Len(delivered) : delivered[i].id <= arrived
  /\ Ordered(Inbox)
  /\ OrderedByAddr(Outbox)
  /\ OrderedByAddr(delivered)
  /\ BeforeByAddr(delivered, Outbox)
  /\ Before(delivered, Inbox)
  /\ Before(Outbox, Inbox)

(***************************************************************************)
(* A batch taken from an ordered inbox is ordered by address.              *)
(***************************************************************************)
LEMMA CollapseProperty ==
  ASSUME NEW q \in Seq(Message), NEW s \in Box!Collapse(q)
  PROVE  /\ s \in Seq(Message)
         /\ \A k \in 1..Len(s) : \E i \in 1..Len(q) : s[k] = q[i]
         /\ \A i, j \in 1..Len(s) : i < j => s[i].addr < s[j].addr
<1> DEFINE latest == {q[i] : i \in {j \in 1..Len(q) : Box!IsLatest(q, j)}}
<1>1. \A m \in latest : \E i \in 1..Len(q) : m = q[i]
  OBVIOUS
<1>2. latest \subseteq Message
  BY <1>1
<1> HIDE DEF latest
<1>3. PICK n \in 0..Len(q) : s \in [1..n -> latest]
  BY DEF Box!Collapse, Box!SeqsUpTo, latest
<1>4. s \in Seq(latest) /\ Len(s) = n
  BY <1>3
<1>5. s \in Seq(Message)
  BY <1>2, <1>3
<1>6. \A k \in 1..Len(s) : s[k] \in latest
  BY <1>3, <1>4
<1>7. \A i, j \in 1..Len(s) : i < j => s[i].addr < s[j].addr
  BY DEF Box!Collapse
<1> QED  BY <1>1, <1>5, <1>6, <1>7

(* A prefix of a sequence, position by position. *)
LEMMA PrefixProperty ==
  ASSUME NEW q \in Seq(Message), NEW n \in 0..Len(q)
  PROVE  /\ SubSeq(q, 1, n) \in Seq(Message)
         /\ Len(SubSeq(q, 1, n)) = n
         /\ \A i \in 1..n : SubSeq(q, 1, n)[i] = q[i]
<1>1. \A i \in 1..n : q[i] \in Message
  BY ElementOfSeq
<1> QED  BY <1>1, SubSeqProperties

(* The rest of a sequence, position by position. *)
LEMMA SuffixProperty ==
  ASSUME NEW q \in Seq(Message), NEW n \in 0..Len(q)
  PROVE  /\ SubSeq(q, n + 1, Len(q)) \in Seq(Message)
         /\ Len(SubSeq(q, n + 1, Len(q))) = Len(q) - n
         /\ \A i \in 1..(Len(q) - n) : SubSeq(q, n + 1, Len(q))[i] = q[n + i]
<1>1. \A i \in (n + 1)..Len(q) : q[i] \in Message
  BY ElementOfSeq
<1> QED  BY <1>1, SubSeqProperties

(***************************************************************************)
(* A slice p of q inherits the order of q and its place before and after   *)
(* other sequences.                                                        *)
(***************************************************************************)
LEMMA SliceOrder ==
  ASSUME NEW p \in Seq(Message), NEW q \in Seq(Message), NEW off \in Nat,
         Len(p) + off <= Len(q),
         \A i \in 1..Len(p) : p[i] = q[off + i]
  PROVE  /\ Ordered(q) => Ordered(p)
         /\ OrderedByAddr(q) => OrderedByAddr(p)
         /\ \A r \in Seq(Message) : Before(r, q) => Before(r, p)
         /\ \A r \in Seq(Message) : Before(q, r) => Before(p, r)
         /\ \A r \in Seq(Message) : BeforeByAddr(r, q) => BeforeByAddr(r, p)
         /\ \A r \in Seq(Message) : BeforeByAddr(q, r) => BeforeByAddr(p, r)
         /\ \A b : (\A i \in 1..Len(q) : q[i].id <= b) => (\A i \in 1..Len(p) : p[i].id <= b)
<1>1. /\ Len(p) \in Nat /\ Len(q) \in Nat
      /\ \A i \in 1..Len(p) : off + i \in 1..Len(q)
      /\ \A i, j \in 1..Len(p) : i < j => off + i < off + j
  OBVIOUS
<1>2. Ordered(q) => Ordered(p)
  BY <1>1 DEF Ordered
<1>3. OrderedByAddr(q) => OrderedByAddr(p)
  BY <1>1 DEF OrderedByAddr
<1>4. \A r \in Seq(Message) : Before(r, q) => Before(r, p)
  BY <1>1 DEF Before
<1>5. \A r \in Seq(Message) : Before(q, r) => Before(p, r)
  BY <1>1 DEF Before
<1>6. \A r \in Seq(Message) : BeforeByAddr(r, q) => BeforeByAddr(r, p)
  BY <1>1 DEF BeforeByAddr
<1>7. \A r \in Seq(Message) : BeforeByAddr(q, r) => BeforeByAddr(p, r)
  BY <1>1 DEF BeforeByAddr
<1>8. \A b : (\A i \in 1..Len(q) : q[i].id <= b) => (\A i \in 1..Len(p) : p[i].id <= b)
  BY <1>1
<1> QED  BY <1>2, <1>3, <1>4, <1>5, <1>6, <1>7, <1>8

(***************************************************************************)
(* What is published of an ordered inbox, the prefix or its collapse,      *)
(* consists of messages of the prefix and is ordered by address.           *)
(***************************************************************************)
LEMMA BatchProperty ==
  ASSUME NEW q \in Seq(Message), Ordered(q), NEW n \in 0..Len(q),
         NEW s \in {SubSeq(q, 1, n)} \cup Box!Collapse(SubSeq(q, 1, n))
  PROVE  /\ s \in Seq(Message)
         /\ \A k \in 1..Len(s) : \E i \in 1..n : s[k] = q[i]
         /\ OrderedByAddr(s)
<1> DEFINE p == SubSeq(q, 1, n)
<1>1. /\ p \in Seq(Message)
      /\ Len(p) = n
      /\ \A i \in 1..n : p[i] = q[i]
  BY PrefixProperty
<1> HIDE DEF p
<1>2. CASE s = p
  <2>1. OrderedByAddr(p)
    BY <1>1 DEF Ordered, OrderedByAddr
  <2>2. \A k \in 1..Len(p) : \E i \in 1..n : p[k] = q[i]
    BY <1>1
  <2>3. /\ s \in Seq(Message)
        /\ \A k \in 1..Len(s) : \E i \in 1..n : s[k] = q[i]
        /\ OrderedByAddr(s)
    <3>1. \A k \in 1..Len(s) : \E i \in 1..n : s[k] = q[i]
      BY <1>2, <2>2, Zenon
    <3>2. OrderedByAddr(s) /\ s \in Seq(Message)
      BY <1>1, <1>2, <2>1, Zenon
    <3> QED  BY <3>1, <3>2
  <2> QED  BY <2>3
<1>3. CASE s \in Box!Collapse(p)
  <2>1. /\ s \in Seq(Message)
        /\ \A k \in 1..Len(s) : \E i \in 1..Len(p) : s[k] = p[i]
        /\ \A i, j \in 1..Len(s) : i < j => s[i].addr < s[j].addr
    BY <1>1, <1>3, CollapseProperty
  <2>2. \A i \in 1..Len(s) : s[i].addr \in Nat
    <3>1. \A i \in 1..Len(s) : s[i] \in Message
      BY <2>1, ElementOfSeq
    <3> QED  BY <3>1, AddressesAssumption DEF Message
  <2>3. OrderedByAddr(s)
    BY <2>1, <2>2 DEF OrderedByAddr
  <2> QED  BY <1>1, <2>1, <2>3
<1> QED  BY <1>2, <1>3 DEF p

-----------------------------------------------------------------------------
(* The empty mailbox is ordered. *)
LEMMA InitOrder == Box!Init => OrderInv
BY EmptySeq DEF Box!Init, OrderInv, MailboxTypeOK, Ordered, OrderedByAddr, Before, BeforeByAddr

(* A new message has the greatest number so far. *)
LEMMA ArriveOrder == OrderInv /\ Box!Arrive => OrderInv'
<1> SUFFICES ASSUME OrderInv, Box!Arrive  PROVE OrderInv'
  OBVIOUS
<1>1. PICK a \in Addresses : Inbox' = Append(Inbox, [id |-> arrived + 1, addr |-> a])
  BY DEF Box!Arrive
<1> DEFINE m == [id |-> arrived + 1, addr |-> a]
<1>2. m \in Message /\ m.id = arrived + 1
  BY DEF OrderInv, MailboxTypeOK, Message
<1> HIDE DEF m
<1>3. /\ Inbox' = Append(Inbox, m)
      /\ arrived' = arrived + 1
      /\ Outbox' = Outbox
      /\ delivered' = delivered
  BY <1>1 DEF Box!Arrive, m
<1>4. /\ Inbox' \in Seq(Message)
      /\ Len(Inbox') = Len(Inbox) + 1
      /\ \A i \in 1..Len(Inbox) : Inbox'[i] = Inbox[i]
      /\ Inbox'[Len(Inbox) + 1] = m
  BY <1>2, <1>3, AppendProperties DEF OrderInv, MailboxTypeOK
<1>5. MailboxTypeOK'
  BY <1>3, <1>4 DEF OrderInv, MailboxTypeOK
<1>6. \A q \in {Inbox, Outbox, delivered} : \A i \in 1..Len(q) : q[i].id \in Nat
  <2>1. \A q \in Seq(Message) : \A i \in 1..Len(q) : q[i] \in Message
    BY ElementOfSeq
  <2> QED  BY <2>1 DEF OrderInv, MailboxTypeOK, Message
<1>7. /\ \A i \in 1..Len(Inbox') : Inbox'[i].id <= arrived'
      /\ \A i \in 1..Len(Outbox') : Outbox'[i].id <= arrived'
      /\ \A i \in 1..Len(delivered') : delivered'[i].id <= arrived'
  BY <1>2, <1>3, <1>4, <1>6 DEF OrderInv, MailboxTypeOK
<1>8. Ordered(Inbox)' /\ Before(delivered, Inbox)' /\ Before(Outbox, Inbox)'
  <2>1. Len(Inbox) \in Nat
    BY DEF OrderInv, MailboxTypeOK
  <2>2. \A j \in 1..Len(Inbox') : j \in 1..Len(Inbox) \/ j = Len(Inbox) + 1
    BY <1>4, <2>1
  <2>3. \A q \in {Inbox, Outbox, delivered} : \A i \in 1..Len(q) : q[i].id < m.id
    BY <1>2, <1>6 DEF OrderInv, MailboxTypeOK
  <2>4. ASSUME NEW i \in 1..Len(Inbox'), NEW j \in 1..Len(Inbox'), i < j
        PROVE  Inbox'[i].id < Inbox'[j].id
    <3>1. i \in 1..Len(Inbox)
      BY <1>4, <2>1, <2>4
    <3>2. CASE j \in 1..Len(Inbox)
      BY <1>4, <2>4, <3>1, <3>2 DEF OrderInv, Ordered
    <3>3. CASE j = Len(Inbox) + 1
      BY <1>4, <2>3, <3>1, <3>3
    <3> QED  BY <2>2, <3>2, <3>3
  <2>5. ASSUME NEW q \in {Outbox, delivered}, Before(q, Inbox),
               NEW i \in 1..Len(q), NEW j \in 1..Len(Inbox')
        PROVE  q[i].id < Inbox'[j].id
    <3>1. CASE j \in 1..Len(Inbox)
      BY <1>4, <2>5, <3>1 DEF Before
    <3>2. CASE j = Len(Inbox) + 1
      BY <1>4, <2>3, <3>2
    <3> QED  BY <2>2, <3>1, <3>2
  <2>6. Ordered(Inbox') /\ Before(delivered, Inbox') /\ Before(Outbox, Inbox')
    BY <2>4, <2>5 DEF OrderInv, Ordered, Before
  <2> QED  BY <1>3, <2>6
<1>9. OrderedByAddr(Outbox)' /\ OrderedByAddr(delivered)' /\ BeforeByAddr(delivered, Outbox)'
  BY <1>3 DEF OrderInv, OrderedByAddr, BeforeByAddr
<1> QED  BY <1>5, <1>7, <1>8, <1>9 DEF OrderInv

(* What is left of the inbox keeps its order. *)
LEMMA DropNewestOrder == OrderInv /\ Box!DropNewest => OrderInv'
<1> SUFFICES ASSUME OrderInv, Box!DropNewest  PROVE OrderInv'
  OBVIOUS
<1>1. PICK n \in 0..Len(Inbox) : Inbox' = SubSeq(Inbox, 1, n)
  BY DEF Box!DropNewest
<1>2. UNCHANGED <<arrived, Outbox, delivered>>
  BY DEF Box!DropNewest
<1>3. /\ Inbox \in Seq(Message) /\ Outbox \in Seq(Message) /\ delivered \in Seq(Message)
      /\ Inbox' \in Seq(Message)
      /\ Len(Inbox') + 0 <= Len(Inbox)
      /\ \A i \in 1..Len(Inbox') : Inbox'[i] = Inbox[0 + i]
  BY <1>1, PrefixProperty DEF OrderInv, MailboxTypeOK
<1>4. MailboxTypeOK'
  BY <1>2, <1>3 DEF OrderInv, MailboxTypeOK
<1>5. /\ Ordered(Inbox) => Ordered(Inbox')
      /\ Before(delivered, Inbox) => Before(delivered, Inbox')
      /\ Before(Outbox, Inbox) => Before(Outbox, Inbox')
      /\ (\A i \in 1..Len(Inbox) : Inbox[i].id <= arrived)
           => (\A i \in 1..Len(Inbox') : Inbox'[i].id <= arrived)
  BY <1>3, SliceOrder
<1> QED
  BY <1>2, <1>4, <1>5 DEF OrderInv

(* A published batch precedes the rest of the inbox it is taken from. *)
LEMMA PublishOrder == OrderInv /\ Box!Publish => OrderInv'
<1> SUFFICES ASSUME OrderInv, Box!Publish  PROVE OrderInv'
  OBVIOUS
<1>1. PICK n \in 0..Len(Inbox) :
        /\ Outbox' \in {SubSeq(Inbox, 1, n)} \cup Box!Collapse(SubSeq(Inbox, 1, n))
        /\ Inbox' = SubSeq(Inbox, n + 1, Len(Inbox))
  BY DEF Box!Publish
<1>2. UNCHANGED <<arrived, delivered>>
  BY DEF Box!Publish
<1>3. /\ Outbox' \in Seq(Message)
      /\ \A k \in 1..Len(Outbox') : \E i \in 1..n : Outbox'[k] = Inbox[i]
      /\ OrderedByAddr(Outbox')
  BY <1>1, BatchProperty DEF OrderInv, MailboxTypeOK
<1>4. /\ Inbox \in Seq(Message) /\ delivered \in Seq(Message)
      /\ Inbox' \in Seq(Message)
      /\ n \in Nat /\ n <= Len(Inbox) /\ Len(Inbox) \in Nat
      /\ Len(Inbox') + n = Len(Inbox)
      /\ \A i \in 1..Len(Inbox') : Inbox'[i] = Inbox[n + i]
  BY <1>1, SuffixProperty DEF OrderInv, MailboxTypeOK
<1>5. MailboxTypeOK'
  BY <1>2, <1>3, <1>4 DEF OrderInv, MailboxTypeOK
<1>6. /\ Ordered(Inbox) => Ordered(Inbox')
      /\ Before(delivered, Inbox) => Before(delivered, Inbox')
      /\ (\A i \in 1..Len(Inbox) : Inbox[i].id <= arrived)
           => (\A i \in 1..Len(Inbox') : Inbox'[i].id <= arrived)
  <2>1. Len(Inbox') + n <= Len(Inbox)
    BY <1>4
  <2> QED  BY <1>4, <2>1, SliceOrder
<1>7. \A i \in 1..Len(Outbox') : Outbox'[i].id <= arrived
  BY <1>3, <1>4 DEF OrderInv
<1>8. Before(Outbox', Inbox')
  <2> SUFFICES ASSUME NEW k \in 1..Len(Outbox'), NEW j \in 1..Len(Inbox')
               PROVE  Outbox'[k].id < Inbox'[j].id
    BY DEF Before
  <2>1. PICK i \in 1..n : Outbox'[k] = Inbox[i]
    BY <1>3
  <2>2. Len(Inbox') \in Nat
    BY <1>4
  <2>3. n + j \in 1..Len(Inbox) /\ i \in 1..Len(Inbox) /\ i < n + j
    BY <1>4, <2>2
  <2>4. Inbox[i].id < Inbox[n + j].id
    BY <2>3 DEF OrderInv, Ordered
  <2> QED  BY <1>4, <2>1, <2>4
<1>9. BeforeByAddr(delivered, Outbox')
  <2> SUFFICES ASSUME NEW d \in 1..Len(delivered), NEW k \in 1..Len(Outbox')
               PROVE  delivered[d].id < Outbox'[k].id
    BY DEF BeforeByAddr
  <2>1. PICK i \in 1..n : Outbox'[k] = Inbox[i]
    BY <1>3
  <2>2. i \in 1..Len(Inbox)
    BY <1>4
  <2>3. delivered[d].id < Inbox[i].id
    BY <2>2 DEF OrderInv, Before
  <2> QED  BY <2>1, <2>3
<1> QED
  BY <1>2, <1>3, <1>5, <1>6, <1>7, <1>8, <1>9 DEF OrderInv

(* The first message of the outbox becomes the last one delivered. *)
LEMMA TakeOrder == OrderInv /\ Box!Take => OrderInv'
<1> SUFFICES ASSUME OrderInv, Box!Take  PROVE OrderInv'
  OBVIOUS
<1> DEFINE m == Head(Outbox)
<1>1. /\ Outbox # <<>>
      /\ delivered' = Append(delivered, m)
      /\ Outbox' = Tail(Outbox)
      /\ UNCHANGED <<arrived, Inbox>>
  BY DEF Box!Take
<1>2. /\ m \in Message
      /\ m = Outbox[1]
      /\ Len(Outbox) \in Nat \ {0}
      /\ Outbox' \in Seq(Message)
      /\ Len(Outbox') = Len(Outbox) - 1
      /\ \A i \in 1..Len(Outbox') : Outbox'[i] = Outbox[i + 1]
  BY <1>1, HeadTailProperties DEF OrderInv, MailboxTypeOK
<1> HIDE DEF m
<1>3. /\ delivered' \in Seq(Message)
      /\ Len(delivered') = Len(delivered) + 1
      /\ Len(delivered) \in Nat
      /\ \A i \in 1..Len(delivered) : delivered'[i] = delivered[i]
      /\ delivered'[Len(delivered) + 1] = m
  BY <1>1, <1>2, AppendProperties DEF OrderInv, MailboxTypeOK
<1>4. MailboxTypeOK'
  BY <1>1, <1>2, <1>3 DEF OrderInv, MailboxTypeOK
<1>5. /\ Inbox \in Seq(Message) /\ delivered \in Seq(Message) /\ Outbox \in Seq(Message)
      /\ Len(Outbox') + 1 <= Len(Outbox)
      /\ \A i \in 1..Len(Outbox') : Outbox'[i] = Outbox[1 + i]
      /\ 1 \in 1..Len(Outbox)
  BY <1>2 DEF OrderInv, MailboxTypeOK
<1>6. /\ OrderedByAddr(Outbox) => OrderedByAddr(Outbox')
      /\ Before(Outbox, Inbox) => Before(Outbox', Inbox)
      /\ BeforeByAddr(delivered, Outbox) => BeforeByAddr(delivered, Outbox')
      /\ (\A i \in 1..Len(Outbox) : Outbox[i].id <= arrived)
           => (\A i \in 1..Len(Outbox') : Outbox'[i].id <= arrived)
  BY <1>2, <1>5, SliceOrder
<1>7. \A i \in 1..Len(delivered') : i \in 1..Len(delivered) \/ delivered'[i] = m
  BY <1>3
<1>8. \A i \in 1..Len(delivered') : delivered'[i].id <= arrived
  BY <1>2, <1>3, <1>5, <1>7 DEF OrderInv
<1>9. Before(delivered', Inbox)
  <2> SUFFICES ASSUME NEW i \in 1..Len(delivered'), NEW j \in 1..Len(Inbox)
               PROVE  delivered'[i].id < Inbox[j].id
    BY DEF Before
  <2>1. CASE i \in 1..Len(delivered)
    BY <1>3, <2>1 DEF OrderInv, Before
  <2>2. CASE delivered'[i] = Outbox[1]
    BY <1>5, <2>2 DEF OrderInv, Before
  <2> QED  BY <1>2, <1>7, <2>1, <2>2
<1>10. OrderedByAddr(delivered')
  <2> SUFFICES ASSUME NEW i \in 1..Len(delivered'), NEW j \in 1..Len(delivered'), i < j,
                      delivered'[i].addr = delivered'[j].addr
               PROVE  delivered'[i].id < delivered'[j].id
    BY DEF OrderedByAddr
  <2>1. i \in 1..Len(delivered) /\ delivered'[i] = delivered[i]
    BY <1>3
  <2>2. CASE j \in 1..Len(delivered)
    BY <1>3, <2>1, <2>2 DEF OrderInv, OrderedByAddr
  <2>3. CASE delivered'[j] = m
    BY <1>2, <1>5, <2>1, <2>3 DEF OrderInv, BeforeByAddr
  <2> QED  BY <1>7, <2>2, <2>3
<1>11. BeforeByAddr(delivered', Outbox')
  <2> SUFFICES ASSUME NEW i \in 1..Len(delivered'), NEW j \in 1..Len(Outbox'),
                      delivered'[i].addr = Outbox'[j].addr
               PROVE  delivered'[i].id < Outbox'[j].id
    BY DEF BeforeByAddr
  <2>1. CASE i \in 1..Len(delivered)
    BY <1>3, <1>6, <2>1 DEF OrderInv, BeforeByAddr
  <2>2. CASE delivered'[i] = m
    <3>1. 1 + j \in 1..Len(Outbox) /\ 1 < 1 + j /\ Outbox'[j] = Outbox[1 + j]
      BY <1>2, <1>5
    <3> QED  BY <1>2, <1>5, <2>2, <3>1 DEF OrderInv, OrderedByAddr
  <2> QED  BY <1>7, <2>1, <2>2
<1> QED  BY <1>1, <1>4, <1>6, <1>8, <1>9, <1>10, <1>11 DEF OrderInv

(* Every step of the mailbox preserves the order. *)
LEMMA NextOrder == OrderInv /\ [Box!Next]_(Box!mailboxVars) => OrderInv'
<1>1. OrderInv /\ UNCHANGED Box!mailboxVars => OrderInv'
  BY DEF Box!mailboxVars, OrderInv, MailboxTypeOK, Ordered, OrderedByAddr, Before, BeforeByAddr
<1> QED  BY <1>1, ArriveOrder, DropNewestOrder, PublishOrder, TakeOrder DEF Box!Next

(* The inductive invariant holds of every reachable mailbox. *)
LEMMA OrderInvariance == Box!Spec => []OrderInv
BY InitOrder, NextOrder, PTL DEF Box!Spec

-----------------------------------------------------------------------------
(***************************************************************************)
(* The concatenation of two sequences that are ordered by address, the     *)
(* first before the second, is ordered by address.                         *)
(***************************************************************************)
LEMMA ConcatOrder ==
  ASSUME NEW u \in Seq(Message), NEW v \in Seq(Message),
         OrderedByAddr(u), OrderedByAddr(v), BeforeByAddr(u, v)
  PROVE  /\ u \o v \in Seq(Message)
         /\ OrderedByAddr(u \o v)
         /\ \A w \in Seq(Message) :
              BeforeByAddr(u, w) /\ BeforeByAddr(v, w) => BeforeByAddr(u \o v, w)
<1> DEFINE c == u \o v
<1>1. /\ c \in Seq(Message)
      /\ Len(u) \in Nat /\ Len(v) \in Nat
      /\ \A i \in 1..Len(c) : \/ i \in 1..Len(u) /\ c[i] = u[i]
                              \/ i - Len(u) \in 1..Len(v) /\ c[i] = v[i - Len(u)] /\ i > Len(u)
  BY ConcatProperties
<1> HIDE DEF c
<1>2. ASSUME NEW i \in 1..Len(c), NEW j \in 1..Len(c), i < j, c[i].addr = c[j].addr
      PROVE  c[i].id < c[j].id
  <2>1. CASE j \in 1..Len(u)
    <3>1. i \in 1..Len(u) /\ c[i] = u[i] /\ c[j] = u[j]
      BY <1>1, <1>2, <2>1
    <3> QED  BY <1>2, <2>1, <3>1 DEF OrderedByAddr
  <2>2. CASE j - Len(u) \in 1..Len(v) /\ c[j] = v[j - Len(u)]
    <3>1. CASE i \in 1..Len(u) /\ c[i] = u[i]
      BY <1>2, <2>2, <3>1 DEF BeforeByAddr
    <3>2. CASE i - Len(u) \in 1..Len(v) /\ c[i] = v[i - Len(u)]
      <4>1. i - Len(u) < j - Len(u)
        BY <1>1, <1>2
      <4> QED  BY <1>2, <2>2, <3>2, <4>1 DEF OrderedByAddr
    <3> QED  BY <1>1, <3>1, <3>2
  <2> QED  BY <1>1, <2>1, <2>2
<1>3. ASSUME NEW w \in Seq(Message), BeforeByAddr(u, w), BeforeByAddr(v, w)
      PROVE  BeforeByAddr(c, w)
  BY <1>1, <1>3 DEF BeforeByAddr
<1>4. OrderedByAddr(c)
  BY <1>2 DEF OrderedByAddr
<1> QED  BY <1>1, <1>3, <1>4 DEF c

(***************************************************************************)
(* The messages of one address are taken in the order of their arrival and *)
(* none of them twice.                                                     *)
(***************************************************************************)
THEOREM AddressOrder == Box!Spec => []Box!PerAddressOrder
<1>1. OrderInv => Box!PerAddressOrder
  <2> SUFFICES ASSUME OrderInv  PROVE OrderedByAddr(delivered \o Outbox \o Inbox)
    BY DEF Box!PerAddressOrder, Box!Timeline, OrderedByAddr
  <2>1. /\ delivered \in Seq(Message) /\ Outbox \in Seq(Message) /\ Inbox \in Seq(Message)
        /\ OrderedByAddr(delivered) /\ OrderedByAddr(Outbox) /\ OrderedByAddr(Inbox)
        /\ BeforeByAddr(delivered, Outbox)
        /\ BeforeByAddr(delivered, Inbox) /\ BeforeByAddr(Outbox, Inbox)
    BY DEF OrderInv, MailboxTypeOK, Ordered, OrderedByAddr, Before, BeforeByAddr
  <2>2. /\ delivered \o Outbox \in Seq(Message)
        /\ OrderedByAddr(delivered \o Outbox)
        /\ BeforeByAddr(delivered \o Outbox, Inbox)
    BY <2>1, ConcatOrder
  <2> QED  BY <2>1, <2>2, ConcatOrder
<1> QED  BY <1>1, OrderInvariance, PTL

(***************************************************************************)
(* What has been published or taken arrived before everything that is      *)
(* still unpublished.                                                      *)
(***************************************************************************)
THEOREM BatchOrder == Box!Spec => []Box!BatchesInOrder
<1>1. OrderInv => Box!BatchesInOrder
  BY DEF OrderInv, MailboxTypeOK, Before, Box!BatchesInOrder, Box!Elements
<1> QED  BY <1>1, OrderInvariance, PTL

(***************************************************************************)
(* The order of messages, which the receiver inherits from the mailbox it  *)
(* implements: get_next() returns those of one address as they arrived,    *)
(* batch after batch.                                                      *)
(***************************************************************************)
THEOREM MessageOrder == Spec => []InOrder
BY AddressOrder, BatchOrder, Implementation, PTL DEF ImplementsMailbox, InOrder

-----------------------------------------------------------------------------
(***************************************************************************)
(* No silent loss.  It needs the order of the inbox, which the refinement  *)
(* gives: what a resize drops is newer than what it leaves, and what a     *)
(* collapse leaves out is older than what stands for it.                   *)
(***************************************************************************)
InboxOrdered == \A i, j \in 1..Len(Inbox) : i < j => Inbox[i].id < Inbox[j].id

LEMMA InboxInOrder == Spec => []InboxOrdered
<1>1. OrderInv => InboxOrdered
  BY DEF OrderInv, Ordered, InboxOrdered
<1> QED  BY <1>1, OrderInvariance, Implementation, PTL DEF ImplementsMailbox

NothingIsLost == \A m \in Held \ Held' : Returned(m) \/ Superseded(m) \/ Dropped(m)

(* A push, and a step that leaves inbox and outbox alone, lose nothing. *)
LEMMA PushLoses == ASSUME IInv, ProcessMessagePush PROVE NothingIsLost
<1>1. PICK a \in Addresses :
        /\ Inbox' = Append(Inbox, [id |-> arrived + 1, addr |-> a])
        /\ Outbox' = Outbox
  BY PushStep DEF Box!Arrive
<1>2. Inbox \in Seq(Message)
  BY InboxShape
<1>3. Elements(Inbox) \subseteq Elements(Inbox')
  BY <1>1, <1>2 DEF Elements
<1> QED  BY <1>1, <1>3 DEF NothingIsLost, Held, Elements

(* What a resize loses is newer than what it leaves. *)
LEMMA ResizeLoses ==
  ASSUME IInv, InboxOrdered, NEW t \in Threads, CheckQueueResize(t) PROVE NothingIsLost
<1> DEFINE w == deque[queue_write]
<1>1. w \in Seq(Message) /\ Len(w) \in Nat /\ max_queue \in Nat /\ queue_write \in Deques
      /\ deque \in [Deques -> Seq(Message)]
  BY DEF IInv, TypeOK
<1>2. PICK n \in 0..Len(Inbox) : Inbox' = SubSeq(Inbox, 1, n) /\ Outbox' = Outbox
  BY ResizeStep DEF Box!DropNewest
<1>3. Inbox \in Seq(Message)
  BY InboxShape
<1>4. Len(Inbox') = n /\ \A i \in 1..n : Inbox'[i] = Inbox[i]
  BY <1>2, <1>3
<1> SUFFICES ASSUME NEW m \in Held, m \notin Held'  PROVE Dropped(m)
  BY DEF NothingIsLost
<1>5. PICK i \in 1..Len(Inbox) : Inbox[i] = m
  BY <1>2 DEF Held, Elements
<1>6. ~(i <= n)
  BY <1>4, <1>5 DEF Held, Elements
<1>7. \A e \in Elements(Inbox') : e.id < m.id
  BY <1>3, <1>4, <1>5, <1>6 DEF Elements, InboxOrdered
<1>8. Len(w) > max_queue
  <2> SUFFICES ASSUME ~(Len(w) > max_queue)  PROVE FALSE
    OBVIOUS
  <2>1. deque' = deque /\ UNCHANGED <<queue_write, queue_read, tmp>>
    BY DEF CheckQueueResize
  <2>2. pc["main"] \in {"swap_read", "index"} <=> pc'["main"] \in {"swap_read", "index"}
    BY DEF CheckQueueResize, AfterCheck, Unlock, Goto, IInv, TypeOK, LockHeld,
           Threads, Critical, MainLabels
  <2>3. Inbox' = Inbox
    BY <2>1, <2>2 DEF Inbox
  <2> QED  BY <1>5, <2>3 DEF Held, Elements
<1>9. deque'[queue_write] = SubSeq(w, 1, max_queue)
  BY <1>1, <1>8 DEF CheckQueueResize, Resize
<1>10. Len(deque'[queue_write]) = max_queue
  BY <1>1, <1>8, <1>9
<1> QED  BY <1>7, <1>8, <1>10 DEF Dropped

(* What a swap loses is older than the message of its address that it publishes. *)
LEMMA IndexLoses == ASSUME IInv, InboxOrdered, SwapIndex PROVE NothingIsLost
<1> DEFINE q == deque[queue_read]
           w == deque[queue_write]
<1>1. /\ pc["main"] = "index"
      /\ pc'["main"] = "idle"
      /\ queue_write # queue_read
      /\ tmp = queue_read
      /\ EndOfBatch
      /\ q \in Seq(Message)
      /\ w \in Seq(Message)
      /\ queue_read \in Deques /\ queue_write \in Deques
      /\ deque \in [Deques -> Seq(Message)]
  BY DEF SwapIndex, Goto, IInv, TypeOK, Threads, Pointers, CursorFits, Swapping
<1>2. PICK batch \in IF avoid_duplicate /\ Len(q) >= 2 THEN Purged(q) ELSE {q} :
        /\ deque' = [deque EXCEPT ![queue_read] = batch]
        /\ qread_index' = 0
        /\ qread_len' = Len(batch)
        /\ UNCHANGED <<queue_write, queue_read, tmp>>
  BY DEF SwapIndex
<1>3. batch \in Seq(Message) /\ (batch = q \/ (avoid_duplicate /\ batch \in Purged(q)))
  <2>1. CASE batch = q
    BY <1>1, <2>1
  <2>2. CASE avoid_duplicate /\ batch \in Purged(q)
    BY <1>1, <2>2, PurgedType
  <2> QED  BY <1>2, <2>1, <2>2
<1>4. Outbox = <<>> /\ Outbox' = batch
  <2>1. Outbox' = SubSeq(batch, 1, Len(batch))
    BY <1>1, <1>2 DEF Outbox
  <2> QED  BY <1>1, <1>3, <2>1, SubSeqFull, OutboxEmpty
<1>5. Inbox = q \o w
  BY <1>1 DEF Inbox
<1>6. Inbox' = w
  BY <1>1, <1>2, ConcatEmptySeq DEF Inbox
<1> SUFFICES ASSUME NEW m \in Held, m \notin Held'  PROVE Superseded(m)
  BY DEF NothingIsLost
<1> HIDE DEF q, w
<1>7. PICK i \in 1..Len(q) : q[i] = m
  <2>1. PICK j \in 1..Len(q \o w) : (q \o w)[j] = m
    BY <1>4, <1>5 DEF Held, Elements
  <2>2. j > Len(q) => m \in Elements(w)
    BY <1>1, <2>1 DEF Elements
  <2>3. j <= Len(q)
    BY <1>1, <1>6, <2>1, <2>2 DEF Held
  <2> QED  BY <1>1, <2>1, <2>3
<1>8. m \notin Elements(batch)
  BY <1>4 DEF Held
<1>9. avoid_duplicate /\ batch \in Purged(q)
  BY <1>3, <1>7, <1>8 DEF Elements
<1>10. m.addr \in {e.addr : e \in Elements(q)}
  BY <1>7 DEF Elements
<1>11. PICK k \in 1..Len(q) : /\ q[k] = LastOf(q, m.addr)
                              /\ q[k].addr = m.addr
                              /\ \A j \in 1..Len(q) : q[j].addr = m.addr => j <= k
  BY <1>1, <1>10, LastOfProperty
<1>12. q[k] \in Elements(batch)
  <2>1. \E j \in 1..Len(batch) : batch[j] = LastOf(q, m.addr)
    BY <1>9, <1>10 DEF Purged
  <2> QED  BY <1>11, <2>1 DEF Elements
<1>13. i < k
  BY <1>7, <1>8, <1>11, <1>12
<1>14. q[i].id < q[k].id
  <2>1. (q \o w)[i] = q[i] /\ (q \o w)[k] = q[k] /\ i \in 1..Len(q \o w) /\ k \in 1..Len(q \o w)
    BY <1>1
  <2> QED  BY <1>5, <1>13, <2>1 DEF InboxOrdered
<1> QED  BY <1>4, <1>7, <1>9, <1>11, <1>12, <1>14 DEF Superseded

(* What get_next() takes out of the batch, it returns. *)
LEMMA GetNextLoses == ASSUME IInv, GetNext PROVE NothingIsLost
<1>1. /\ Outbox # <<>> /\ Outbox' = Tail(Outbox) /\ Inbox' = Inbox
      /\ delivered' = Append(delivered, Head(Outbox))
  BY GetNextStep DEF Box!Take
<1>2. Outbox \in Seq(Message)
  BY DEF Outbox, IInv, TypeOK, CursorFits, GetNext, Swapping
<1> SUFFICES ASSUME NEW m \in Held, m \notin Held'  PROVE Returned(m)
  BY DEF NothingIsLost
<1>3. PICK i \in 1..Len(Outbox) : Outbox[i] = m
  BY <1>1 DEF Held, Elements
<1>4. i = 1
  <2> SUFFICES ASSUME i # 1  PROVE FALSE
    OBVIOUS
  <2>1. Len(Tail(Outbox)) = Len(Outbox) - 1 /\ Tail(Outbox)[i - 1] = Outbox[i]
    BY <1>1, <1>2, <1>3
  <2>2. i - 1 \in 1..Len(Tail(Outbox))
    BY <1>2, <2>1
  <2> QED  BY <1>1, <1>3, <2>1, <2>2 DEF Held, Elements
<1> QED  BY <1>1, <1>3, <1>4 DEF Returned

(***************************************************************************)
(* A message the receiver holds is returned, superseded by a later one of  *)
(* its address, or dropped as the newest of a queue over its limit: in no  *)
(* other way does it ever disappear.                                       *)
(***************************************************************************)
THEOREM NoMessageLost == Spec => NoSilentLoss
<1>1. IInv /\ InboxOrdered /\ [Next]_vars => [NothingIsLost]_vars
  <2> SUFFICES ASSUME IInv, InboxOrdered, [Next]_vars  PROVE NothingIsLost
    OBVIOUS
  <2>1. ASSUME NEW t \in Threads, CheckQueueResize(t)  PROVE NothingIsLost
    BY <2>1, ResizeLoses
  <2>2. ASSUME UNCHANGED Box!mailboxVars  PROVE NothingIsLost
    BY <2>2 DEF Box!mailboxVars, NothingIsLost, Held, Elements
  <2>3. CASE SwapClear \/ SwapWrite \/ SwapRead
    BY <2>2, <2>3, SwapStep
  <2>4. CASE \/ ProcessMessageLock \/ MaxQueueLock \/ MaxQueueSet
             \/ AvoidDuplicateLock \/ AvoidDuplicateSet
             \/ HasMessage \/ HasMessageSwap \/ SwapLock
             \/ \E t \in Threads : CheckQueueLock(t)
             \/ UNCHANGED vars
    BY <2>2, <2>4, InternalStep
  <2> QED
    BY <2>1, <2>3, <2>4, PushLoses, IndexLoses, GetNextLoses
       DEF Next, Listener, Options, Poll, Threads
<1> QED
  BY <1>1, Invariance, InboxInOrder, PTL DEF Spec, NoSilentLoss, NothingIsLost

=============================================================================
