---------------------------- MODULE ReceiverQueue ----------------------------
(***************************************************************************)
(* The message path of one started OSCReceiver (src/osc_receiver.cpp):     *)
(* the listener thread calls ProcessMessage for every datagram, the main   *)
(* thread runs the script that polls has_message() and get_next() and may  *)
(* call max_queue() and avoid_duplicate() at any time.  The two threads    *)
(* share two deques, the pointers _queue_write and _queue_read, the limit  *)
(* _max_queue and the mutex _lmutex.                                       *)
(*                                                                         *)
(* A thread's label names the code it executes next.  Acquiring the mutex  *)
(* is one step and the critical section with its release is another, but   *)
(* for the swap of the two pointers, which is two.  Fields that only the   *)
(* main thread uses are read and written in the step that needs them.      *)
(* start() and stop() are the subject of ReceiverLifecycle: here both      *)
(* deques exist throughout.                                                *)
(***************************************************************************)
EXTENDS Naturals, Sequences

CONSTANTS Addresses,     \* the OSC address patterns, as numbers in the order of their strings
          DefaultMax,    \* the initial _max_queue (100 in the code)
          Limits,        \* the arguments the script gives to max_queue()
          MaxArrivals    \* bound: how many valid messages the network delivers

ASSUME AddressesAssumption == Addresses \subseteq Nat
ASSUME DefaultMaxAssumption == DefaultMax \in Nat \ {0}
ASSUME LimitsAssumption == Limits \subseteq Nat
ASSUME MaxArrivalsAssumption == MaxArrivals \in Nat

VARIABLES
  mutex,            \* _lmutex: the thread that holds it, or "free"
  pc,               \* the label of each thread
  max_queue,        \* _max_queue
  avoid_duplicate,  \* _avoid_duplicate
  deque,            \* the contents of the two deques
  queue_write,      \* _queue_write: the deque the listener appends to
  queue_read,       \* _queue_read: the deque the script reads
  tmp,              \* the local pointer of swap_buffers
  qread_index,      \* _qread_index
  qread_len,        \* _qread_len
  swap_needed,      \* _swap_needed
  arrived,          \* history: how many messages have been pushed
  delivered,        \* history: what get_next() has returned
  pending           \* history: has_message() was true and get_next() is still to come

shared  == <<mutex, pc>>
queues  == <<deque, queue_write, queue_read, tmp>>
cursor  == <<qread_index, qread_len, swap_needed>>
options == <<max_queue, avoid_duplicate>>
history == <<arrived, delivered, pending>>
vars    == <<mutex, pc, max_queue, avoid_duplicate, deque, queue_write, queue_read,
             tmp, qread_index, qread_len, swap_needed, arrived, delivered, pending>>

Threads == {"main", "listener"}
Deques  == {"a", "b"}
Message == [id : Nat \ {0}, addr : Addresses]

MainLabels ==
  {"idle", "set_max", "check_lock", "check_resize", "set_avoid",
   "clear", "swap_lock", "swap_write", "swap_read", "index"}
ListenerLabels == {"receive", "push", "check_lock", "check_resize"}

\* The labels at which a thread is inside a critical section of _lmutex.
Critical == {"set_max", "check_resize", "set_avoid", "swap_write", "swap_read", "push"}

Elements(q) == {q[i] : i \in 1..Len(q)}

-----------------------------------------------------------------------------
(***************************************************************************)
(* purge_duplicates: the std::map keeps for each address the message that  *)
(* was assigned last, and is then copied back in the order of its keys.    *)
(* The result is the only element of Purged(q).                            *)
(***************************************************************************)
MutantFirstOf(q, a) ==   \* insert(), which keeps the first, for operator[]
  CHOOSE m \in Elements(q) :
    \E i \in 1..Len(q) :
      /\ q[i] = m
      /\ m.addr = a
      /\ \A j \in 1..(i - 1) : q[j].addr # a

LastOf(q, a) ==
  CHOOSE m \in Elements(q) :
    \E i \in 1..Len(q) :
      /\ q[i] = m
      /\ m.addr = a
      /\ \A j \in (i + 1)..Len(q) : q[j].addr # a

Purged(q) ==
  LET keys == {m.addr : m \in Elements(q)}
      map  == [a \in keys |-> LastOf(q, a)]
  IN  {s \in UNION {[1..n -> {map[a] : a \in keys}] : n \in 0..Len(q)} :
         /\ \A a \in keys : \E i \in 1..Len(s) : s[i] = map[a]
         /\ \A i, j \in 1..Len(s) : i < j => s[i].addr < s[j].addr}

MutantResizeOldest(q, n) == SubSeq(q, Len(q) - n + 1, Len(q))

\* std::deque::resize to a smaller size: the elements at the end are erased.
Resize(q, n) == SubSeq(q, 1, n)

-----------------------------------------------------------------------------
Goto(t, label) == pc' = [pc EXCEPT ![t] = label]

Lock(t, from, to) ==
  /\ pc[t] = from
  /\ mutex = "free"
  /\ mutex' = t
  /\ Goto(t, to)

Unlock(t, from, to) ==
  /\ pc[t] = from
  /\ mutex' = "free"
  /\ Goto(t, to)

(***************************************************************************)
(* check_queue(), called by both threads.                                  *)
(***************************************************************************)
AfterCheck(t) == IF t = "main" THEN "idle" ELSE "receive"

CheckQueueLock(t) ==
  /\ Lock(t, "check_lock", "check_resize")
  /\ UNCHANGED <<queues, cursor, options, history>>

CheckQueueResize(t) ==
  /\ Unlock(t, "check_resize", AfterCheck(t))
  /\ deque' = IF Len(deque[queue_write]) > max_queue
                THEN [deque EXCEPT ![queue_write] = Resize(deque[queue_write], max_queue)]
                ELSE deque
  /\ UNCHANGED <<queue_write, queue_read, tmp, cursor, options, history>>

(***************************************************************************)
(* The listener thread: ProcessMessage of a valid message.                 *)
(***************************************************************************)
ProcessMessageLock ==
  /\ arrived < MaxArrivals
  /\ Lock("listener", "receive", "push")
  /\ UNCHANGED <<queues, cursor, options, history>>

MutantPushUnchecked ==
  \E a \in Addresses :
    /\ Unlock("listener", "push", "receive")
    /\ arrived' = arrived + 1
    /\ deque' = [deque EXCEPT ![queue_write] = Append(@, [id |-> arrived + 1, addr |-> a])]
    /\ UNCHANGED <<queue_write, queue_read, tmp, cursor, options, delivered, pending>>

ProcessMessagePush ==
  \E a \in Addresses :
    /\ Unlock("listener", "push", "check_lock")
    /\ arrived' = arrived + 1
    /\ deque' = [deque EXCEPT ![queue_write] = Append(@, [id |-> arrived + 1, addr |-> a])]
    /\ UNCHANGED <<queue_write, queue_read, tmp, cursor, options, delivered, pending>>

(***************************************************************************)
(* The main thread: max_queue(limit), which ignores a limit below 1, and   *)
(* avoid_duplicate(enabled).                                               *)
(***************************************************************************)
MaxQueueLock ==
  /\ \E limit \in Limits : limit >= 1
  /\ Lock("main", "idle", "set_max")
  /\ UNCHANGED <<queues, cursor, options, history>>

MutantMaxQueueSetZero ==
  \E limit \in Limits :
    /\ Unlock("main", "set_max", "check_lock")
    /\ max_queue' = limit
    /\ UNCHANGED <<queues, cursor, avoid_duplicate, history>>

MaxQueueSet ==
  \E limit \in Limits :
    /\ limit >= 1
    /\ Unlock("main", "set_max", "check_lock")
    /\ max_queue' = limit
    /\ UNCHANGED <<queues, cursor, avoid_duplicate, history>>

AvoidDuplicateLock ==
  /\ Lock("main", "idle", "set_avoid")
  /\ UNCHANGED <<queues, cursor, options, history>>

AvoidDuplicateSet ==
  \E enabled \in BOOLEAN :
    /\ Unlock("main", "set_avoid", "idle")
    /\ avoid_duplicate' = enabled
    /\ UNCHANGED <<queues, cursor, max_queue, history>>

(***************************************************************************)
(* The main thread: has_message(), with swap_buffers() inlined.            *)
(***************************************************************************)
EndOfBatch == qread_index = qread_len

MutantHasMessageNoSwap ==   \* forgets to ask for a swap at the end of the batch
  /\ pc["main"] = "idle"
  /\ ~swap_needed
  /\ pending' = ~EndOfBatch
  /\ UNCHANGED <<shared, queues, cursor, options, arrived, delivered>>

\* No swap needed: the answer is read off the cursor.
HasMessage ==
  /\ pc["main"] = "idle"
  /\ ~swap_needed
  /\ swap_needed' = EndOfBatch
  /\ pending' = ~EndOfBatch
  /\ UNCHANGED <<shared, queues, qread_index, qread_len, options, arrived, delivered>>

HasMessageSwap ==
  /\ pc["main"] = "idle"
  /\ swap_needed
  /\ Goto("main", "clear")
  /\ UNCHANGED <<mutex, queues, cursor, options, history>>

MutantSwapWithoutClear ==
  /\ pc["main"] = "clear"
  /\ Goto("main", "swap_lock")
  /\ UNCHANGED <<mutex, queues, cursor, options, history>>

\* _queue_read->clear(), outside the mutex.
SwapClear ==
  /\ pc["main"] = "clear"
  /\ deque' = [deque EXCEPT ![queue_read] = <<>>]
  /\ Goto("main", "swap_lock")
  /\ UNCHANGED <<mutex, queue_write, queue_read, tmp, cursor, options, history>>

MutantSwapWithoutLock ==
  /\ pc["main"] = "swap_lock"
  /\ Goto("main", "swap_write")
  /\ UNCHANGED <<mutex, queues, cursor, options, history>>

SwapLock ==
  /\ Lock("main", "swap_lock", "swap_write")
  /\ UNCHANGED <<queues, cursor, options, history>>

SwapWrite ==
  /\ pc["main"] = "swap_write"
  /\ tmp' = queue_write
  /\ queue_write' = queue_read
  /\ Goto("main", "swap_read")
  /\ UNCHANGED <<mutex, deque, queue_read, cursor, options, history>>

SwapRead ==
  /\ Unlock("main", "swap_read", "index")
  /\ queue_read' = tmp
  /\ UNCHANGED <<deque, queue_write, tmp, cursor, options, history>>

MutantIndexStaleLen ==   \* purge_duplicates without its "updating the indices"
  \E batch \in IF avoid_duplicate /\ Len(deque[queue_read]) >= 2
                 THEN Purged(deque[queue_read])
                 ELSE {deque[queue_read]} :
    /\ pc["main"] = "index"
    /\ deque' = [deque EXCEPT ![queue_read] = batch]
    /\ qread_index' = 0
    /\ qread_len' = Len(deque[queue_read])
    /\ swap_needed' = (Len(batch) = 0)
    /\ pending' = (Len(batch) # 0)
    /\ Goto("main", "idle")
    /\ UNCHANGED <<mutex, queue_write, queue_read, tmp, options, arrived, delivered>>

(***************************************************************************)
(* The rest of swap_buffers(), purge_duplicates() when it applies, and the *)
(* rest of has_message().                                                  *)
(***************************************************************************)
SwapIndex ==
  \E batch \in IF avoid_duplicate /\ Len(deque[queue_read]) >= 2
                 THEN Purged(deque[queue_read])
                 ELSE {deque[queue_read]} :
    /\ pc["main"] = "index"
    /\ deque' = [deque EXCEPT ![queue_read] = batch]
    /\ qread_index' = 0
    /\ qread_len' = Len(batch)
    /\ swap_needed' = (Len(batch) = 0)
    /\ pending' = (Len(batch) # 0)
    /\ Goto("main", "idle")
    /\ UNCHANGED <<mutex, queue_write, queue_read, tmp, options, arrived, delivered>>

(***************************************************************************)
(* The main thread: get_next().  At the end of the batch it returns an     *)
(* empty dictionary and changes nothing.                                   *)
(***************************************************************************)
GetNext ==
  /\ pc["main"] = "idle"
  /\ ~EndOfBatch
  /\ delivered' = Append(delivered, deque[queue_read][qread_index + 1])
  /\ qread_index' = qread_index + 1
  /\ pending' = FALSE
  /\ UNCHANGED <<shared, queues, qread_len, swap_needed, options, arrived>>

-----------------------------------------------------------------------------
Init ==
  /\ mutex = "free"
  /\ pc = [t \in Threads |-> IF t = "main" THEN "idle" ELSE "receive"]
  /\ max_queue = DefaultMax
  /\ avoid_duplicate = FALSE
  /\ deque = [d \in Deques |-> <<>>]
  /\ queue_write = "a"
  /\ queue_read = "b"
  /\ tmp = "a"
  /\ qread_index = 0
  /\ qread_len = 0
  /\ swap_needed = TRUE
  /\ arrived = 0
  /\ delivered = <<>>
  /\ pending = FALSE

Listener == \/ ProcessMessageLock
            \/ ProcessMessagePush
            \/ CheckQueueLock("listener")
            \/ CheckQueueResize("listener")

Options == \/ MaxQueueLock
           \/ MaxQueueSet
           \/ CheckQueueLock("main")
           \/ CheckQueueResize("main")
           \/ AvoidDuplicateLock
           \/ AvoidDuplicateSet

Poll == \/ HasMessage
        \/ HasMessageSwap
        \/ SwapClear
        \/ SwapLock
        \/ SwapWrite
        \/ SwapRead
        \/ SwapIndex
        \/ GetNext

Next == Listener \/ Options \/ Poll

Spec == Init /\ [][Next]_vars

\* The main thread's steps inside a call that wait for nothing, one per label.
MainContinues ==
  \/ CheckQueueResize("main") \/ MaxQueueSet \/ AvoidDuplicateSet
  \/ SwapClear \/ SwapWrite \/ SwapRead \/ SwapIndex

(***************************************************************************)
(* A thread that runs is scheduled, and a thread that waits for the mutex  *)
(* gets it eventually although the other keeps taking it.  The script of   *)
(* the demo polls in every frame, whatever else it does: it calls          *)
(* has_message() again and again, and get_next() whenever it was true.     *)
(***************************************************************************)
Fairness ==
  /\ SF_vars(CheckQueueLock("listener"))
  /\ WF_vars(ProcessMessagePush \/ CheckQueueResize("listener"))
  /\ SF_vars(CheckQueueLock("main") \/ SwapLock)
  /\ WF_vars(MainContinues)
  /\ SF_vars(HasMessage \/ HasMessageSwap)
  /\ SF_vars(pending /\ GetNext)

FairSpec == Spec /\ Fairness

-----------------------------------------------------------------------------
(***************************************************************************)
(* Every variable has a value of its type.                                 *)
(***************************************************************************)
TypeOK ==
  /\ mutex \in Threads \cup {"free"}
  /\ pc \in [Threads -> MainLabels \cup ListenerLabels]
  /\ pc["main"] \in MainLabels
  /\ pc["listener"] \in ListenerLabels
  /\ max_queue \in Nat \ {0}
  /\ avoid_duplicate \in BOOLEAN
  /\ deque \in [Deques -> Seq(Message)]
  /\ queue_write \in Deques
  /\ queue_read \in Deques
  /\ tmp \in Deques
  /\ qread_index \in Nat
  /\ qread_len \in Nat
  /\ swap_needed \in BOOLEAN
  /\ arrived \in Nat
  /\ delivered \in Seq(Message)
  /\ pending \in BOOLEAN

(***************************************************************************)
(* What the next step of a thread reads and writes of the memory that      *)
(* both threads can reach: the fields by their names, a deque by the name  *)
(* it has here.  An idle main thread may call get_next().                  *)
(***************************************************************************)
Writes(t) ==
  CASE pc[t] = "set_max"      -> {"max_queue"}
    [] pc[t] = "set_avoid"    -> {"avoid_duplicate"}
    [] pc[t] = "check_resize" -> {queue_write}
    [] pc[t] = "push"         -> {queue_write}
    [] pc[t] = "clear"        -> {queue_read}
    [] pc[t] = "swap_write"   -> {"queue_write"}
    [] pc[t] = "swap_read"    -> {"queue_read"}
    [] pc[t] = "index"        -> {queue_read}
    [] OTHER                  -> {}

Reads(t) ==
  CASE pc[t] = "check_resize" -> {"queue_write", "max_queue", queue_write}
    [] pc[t] = "push"         -> {"queue_write", queue_write}
    [] pc[t] = "idle"         -> {"queue_read", queue_read}
    [] pc[t] = "clear"        -> {"queue_read", queue_read}
    [] pc[t] = "swap_write"   -> {"queue_write", "queue_read"}
    [] pc[t] = "index"        -> {"queue_read", "avoid_duplicate", queue_read}
    [] OTHER                  -> {}

(***************************************************************************)
(* No data race: the script clears, purges and reads _queue_read without   *)
(* the mutex while the listener appends to and resizes _queue_write, and   *)
(* nothing one thread is about to write is read or written by the other.   *)
(***************************************************************************)
NoDataRace ==
  \A t, u \in Threads : t # u => Writes(t) \cap (Writes(u) \cup Reads(u)) = {}

(***************************************************************************)
(* The limit of _max_queue holds for the deque the listener fills, up to   *)
(* the one message it has pushed and not yet checked, and is restored      *)
(* after the script lowers the limit.                                      *)
(***************************************************************************)
Checking == {"check_lock", "check_resize"}

QueueBound ==
  \/ pc["main"] \in Checking
  \/ Len(deque[queue_write]) <=
       max_queue + IF pc["listener"] \in Checking THEN 1 ELSE 0

(***************************************************************************)
(* The cursor stays inside the deque it indexes, so that at() in get_next  *)
(* never throws, has_message() never clears a message that get_next has    *)
(* not returned, and when it has returned true the next get_next() returns *)
(* a message, whatever options the script sets and whatever arrives        *)
(* between the two.                                                        *)
(***************************************************************************)
Swapping == {"clear", "swap_lock", "swap_write", "swap_read", "index"}

CursorInBatch ==
  /\ IF pc["main"] \in Swapping
       THEN EndOfBatch
       ELSE /\ qread_index <= qread_len
            /\ qread_len <= Len(deque[queue_read])
            /\ swap_needed => EndOfBatch
  /\ pending => ~EndOfBatch /\ qread_index < Len(deque[queue_read])

(***************************************************************************)
(* The unpublished messages, oldest first: those of a swap under way, then *)
(* those of the deque the listener fills; and the part of the published    *)
(* batch that the script has not read.                                     *)
(***************************************************************************)
Inbox == (IF pc["main"] \in {"swap_read", "index"} THEN deque[tmp] ELSE <<>>)
           \o deque[queue_write]

Outbox == SubSeq(deque[queue_read], qread_index + 1, qread_len)

(***************************************************************************)
(* The receiver implements the mailbox.                                    *)
(***************************************************************************)
Box == INSTANCE Mailbox WITH inbox <- Inbox, outbox <- Outbox

ImplementsMailbox == Box!Spec

(***************************************************************************)
(* The script gets the messages of one address in the order of their       *)
(* arrival and none of them twice, across every swap of the buffers; and   *)
(* what has been published or delivered arrived before everything that is  *)
(* still unpublished: no swap brings back or overtakes a batch.            *)
(***************************************************************************)
InOrder == Box!PerAddressOrder /\ Box!BatchesInOrder

(***************************************************************************)
(* A message the receiver holds leaves it in one of three ways: get_next() *)
(* returns it; avoid_duplicate is on and a later message of its address is *)
(* published; or the queue was over its limit, is now at its limit, and    *)
(* the message is newer than all that stay.                                *)
(***************************************************************************)
Held == Elements(Inbox) \cup Elements(Outbox)

Returned(m) == delivered' = Append(delivered, m)

Superseded(m) ==
  avoid_duplicate /\ \E n \in Elements(Outbox') : n.addr = m.addr /\ n.id > m.id

Dropped(m) ==
  /\ Len(deque[queue_write]) > max_queue
  /\ Len(deque'[queue_write]) = max_queue
  /\ \A n \in Elements(Inbox') : n.id < m.id

NoSilentLoss ==
  [][\A m \in Held \ Held' : Returned(m) \/ Superseded(m) \/ Dropped(m)]_vars

(***************************************************************************)
(* A message within the lowest limit the script ever sets is delivered to  *)
(* a script that polls, or a later message of its address is.              *)
(***************************************************************************)
IsDelivered(id, a) == \E m \in Elements(delivered) : m.addr = a /\ m.id >= id

WithinLimit(id, a) ==
  \E i \in 1..Len(deque[queue_write]) :
    /\ \A limit \in {DefaultMax} \cup Limits : limit >= 1 => i <= limit
    /\ deque[queue_write][i] = [id |-> id, addr |-> a]

KeptIsDelivered ==
  \A id \in 1..MaxArrivals, a \in Addresses : WithinLimit(id, a) ~> IsDelivered(id, a)

(***************************************************************************)
(* What the demo scripts say of the receiver, and it does not do.          *)
(***************************************************************************)

\* "maximum number of messages in the buffer": a batch holds at most
\* _max_queue messages, when the limit does not change.
BatchWithinMax == qread_len <= max_queue

\* "receiver will only keeps the latest message for each address": with
\* avoid_duplicate on, a message is given up only for a later one of its address.
LatestKept ==
  [][avoid_duplicate =>
       \A m \in Held \ Held' :
         \/ Returned(m)
         \/ \E n \in Held' : n.addr = m.addr /\ n.id > m.id]_vars

=============================================================================
