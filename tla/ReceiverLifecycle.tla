-------------------------- MODULE ReceiverLifecycle --------------------------
(***************************************************************************)
(* setup(), start(), stop() and the destructor of an OSCReceiver against   *)
(* the threads that start() detaches (src/osc_receiver.cpp), with the loop *)
(* SocketReceiveMultiplexer::Run() that each of them executes.             *)
(*                                                                         *)
(* Every successful start() makes one listening socket, with its           *)
(* multiplexer, and one thread: both are numbered by that start.  A thread *)
(* reads _lsocket again and again, so it may come to run the socket of a   *)
(* later start.  has_message() and get_next() are one step each, as        *)
(* ReceiverQueue shows they may be, and messages are counted only.         *)
(*                                                                         *)
(* What the code leaves undefined ends the behaviour: "fault" says where.  *)
(***************************************************************************)
EXTENDS Naturals, FiniteSets

CONSTANTS Ports,          \* the arguments the script gives to setup()
          MaxStarts,      \* bound: how many sockets start() opens
          MaxDatagrams,   \* bound: how many datagrams wake a select()
          MaxMessages     \* _max_queue

ASSUME PortsAssumption == Ports \subseteq Nat \ {0}
ASSUME BoundsAssumption == MaxStarts \in Nat /\ MaxDatagrams \in Nat /\ MaxMessages \in Nat

Starts == 1..MaxStarts
None   == 0              \* a null pointer

VARIABLES
  main,          \* the label of the main thread
  after,         \* what the main thread does when stop() is over
  port,          \* _port
  new_port,      \* the argument of a setup() that restarts
  is_ready,      \* _is_ready
  running,       \* _running
  lsocket,       \* _lsocket
  starts,        \* how many sockets have been opened
  stops,         \* history: how many sockets stop() has deleted
  alive,         \* the sockets not deleted
  bound,         \* the port a socket is bound to
  broken,        \* break_ of each socket's multiplexer
  thread,        \* the label of each listener thread
  runs,          \* the socket whose Run() a thread is in
  datagrams,     \* how many datagrams have woken a select()
  queues,        \* whether the two deques exist
  written,       \* messages in _queue_write
  readable,      \* messages in _queue_read
  index, len,    \* _qread_index, _qread_len
  swap_needed,   \* _swap_needed
  fault          \* the undefined behaviour that ended the run, or "none"

control == <<main, after>>
config  == <<port, new_port, is_ready>>
sockets == <<lsocket, starts, stops, alive, bound, broken>>
threads == <<thread, runs, datagrams>>
buffers == <<queues, written, readable>>
cursor  == <<index, len, swap_needed>>
vars == <<main, after, port, new_port, is_ready, running, lsocket, starts, stops, alive,
          bound, broken, thread, runs, datagrams, queues, written, readable, index, len,
          swap_needed, fault>>

MainLabels == {"idle", "break", "delete", "null", "purge", "bind", "buffers", "thread", "gone"}
ThreadLabels ==
  {"none", "test", "call", "enter", "loop", "select", "woken", "dispatch", "pushing",
   "check", "checking", "endless", "quit"}
Faults == {"none", "null_socket", "freed_socket", "freed_receiver", "null_queue",
           "freed_queue", "poll_null", "poll_range"}

\* _lmutex: the thread that pushes, or checks the queue, holds it.
Unlocked == \A t \in Starts : thread[t] \notin {"pushing", "checking"}

-----------------------------------------------------------------------------
(***************************************************************************)
(* stop(): Break(), delete, _lsocket = 0, then purge_buffers() when        *)
(* running.  "whatNext" is the caller: the script, start(), setup() or the *)
(* destructor.                                                             *)
(***************************************************************************)
CallStop(whatNext) ==
  /\ after' = whatNext
  /\ main' = IF lsocket # None THEN "break" ELSE "purge"

StopBreak ==
  /\ main = "break"
  /\ broken' = [broken EXCEPT ![lsocket] = TRUE]
  /\ main' = "delete"
  /\ UNCHANGED <<after, config, running, lsocket, starts, stops, alive, bound, threads,
                 buffers, cursor, fault>>

\* The descriptor is closed and break_ is gone with its multiplexer.
StopDelete ==
  /\ main = "delete"
  /\ alive' = alive \ {lsocket}
  /\ bound' = [bound EXCEPT ![lsocket] = 0]
  /\ broken' = [broken EXCEPT ![lsocket] = FALSE]
  /\ stops' = stops + 1
  /\ main' = "null"
  /\ UNCHANGED <<after, config, running, lsocket, starts, threads, buffers, cursor, fault>>

StopNull ==
  /\ main = "null"
  /\ lsocket' = None
  /\ main' = "purge"
  /\ UNCHANGED <<after, config, running, starts, stops, alive, bound, broken, threads,
                 buffers, cursor, fault>>

\* purge_buffers() does not take the lock.
StopPurge ==
  /\ main = "purge"
  /\ running => Unlocked
  /\ queues' = (queues /\ ~running)
  /\ written' = IF running THEN 0 ELSE written
  /\ readable' = IF running THEN 0 ELSE readable
  /\ running' = FALSE
  /\ port' = IF after = "setup" THEN new_port ELSE port
  /\ main' = CASE after = "script"  -> "idle"
               [] after = "destroy" -> "gone"
               [] OTHER             -> "bind"
  /\ after' = "script" /\ new_port' = 0        \* locals of the call that is over
  /\ UNCHANGED <<is_ready, sockets, threads, cursor, fault>>

StopPurgeRaces ==
  /\ main = "purge"
  /\ running
  /\ ~Unlocked
  /\ fault' = "freed_queue"
  /\ UNCHANGED <<control, config, running, sockets, threads, buffers, cursor>>

Stop ==
  /\ main = "idle"
  /\ CallStop("script")
  /\ UNCHANGED <<config, running, sockets, threads, buffers, cursor, fault>>

Destroy ==
  /\ main = "idle"
  /\ CallStop("destroy")
  /\ UNCHANGED <<config, running, sockets, threads, buffers, cursor, fault>>

(***************************************************************************)
(* setup(port), which restarts a running receiver on the new port.         *)
(***************************************************************************)
MutantSetupKeepsSocket ==
  \E p \in Ports :
    /\ main = "idle"
    /\ is_ready' = TRUE
    /\ port' = p
    /\ UNCHANGED <<control, new_port, running, sockets, threads, buffers, cursor, fault>>

Setup ==
  \E p \in Ports :
    /\ main = "idle"
    /\ is_ready' = TRUE
    /\ IF running THEN CallStop("setup") /\ new_port' = p /\ UNCHANGED port
                  ELSE port' = p /\ UNCHANGED <<control, new_port>>
    /\ UNCHANGED <<running, sockets, threads, buffers, cursor, fault>>

(***************************************************************************)
(* start(): stop(), then the new socket, which may fail to bind; then the  *)
(* buffers and the thread.                                                 *)
(***************************************************************************)
Start ==
  /\ main = "idle"
  /\ is_ready
  /\ CallStop("start")
  /\ UNCHANGED <<config, running, sockets, threads, buffers, cursor, fault>>

StartFails ==
  /\ main = "bind"
  /\ main' = "idle"
  /\ UNCHANGED <<after, config, running, sockets, threads, buffers, cursor, fault>>

MutantStartBindsAndListens ==
  /\ main = "bind"
  /\ starts < MaxStarts
  /\ starts' = starts + 1
  /\ lsocket' = starts + 1
  /\ alive' = alive \cup {starts + 1}
  /\ bound' = [bound EXCEPT ![starts + 1] = port]
  /\ thread' = [thread EXCEPT ![starts + 1] = "test"]
  /\ main' = "buffers"
  /\ UNCHANGED <<after, config, running, stops, broken, runs, datagrams, buffers, cursor,
                 fault>>

StartBinds ==
  /\ main = "bind"
  /\ starts < MaxStarts
  /\ starts' = starts + 1
  /\ lsocket' = starts + 1
  /\ alive' = alive \cup {starts + 1}
  /\ bound' = [bound EXCEPT ![starts + 1] = port]
  /\ main' = "buffers"
  /\ UNCHANGED <<after, config, running, stops, broken, threads, buffers, cursor, fault>>

StartBuffers ==
  /\ main = "buffers"
  /\ queues' = TRUE
  /\ main' = "thread"
  /\ UNCHANGED <<after, config, running, sockets, threads, written, readable, cursor, fault>>

StartThread ==
  /\ main = "thread"
  /\ thread' = [thread EXCEPT ![starts] = "test"]
  /\ running' = TRUE
  /\ main' = "idle"
  /\ UNCHANGED <<after, config, sockets, runs, datagrams, buffers, cursor, fault>>

(***************************************************************************)
(* has_message() and get_next(), which do not ask whether the receiver     *)
(* runs.                                                                   *)
(***************************************************************************)
MutantHasMessageSwapsAgain ==
  /\ main = "idle"
  /\ queues
  /\ readable' = written
  /\ written' = 0
  /\ index' = 0
  /\ len' = written
  /\ UNCHANGED <<control, config, running, sockets, threads, queues, swap_needed, fault>>

HasMessage ==
  /\ main = "idle"
  /\ IF ~swap_needed
       THEN /\ swap_needed' = (index = len)
            /\ UNCHANGED <<buffers, index, len, fault>>
       ELSE IF ~queues
              THEN fault' = "poll_null" /\ UNCHANGED <<buffers, cursor>>
              ELSE /\ Unlocked
                   /\ readable' = written
                   /\ written' = 0
                   /\ index' = 0
                   /\ len' = written
                   /\ swap_needed' = (written = 0)
                   /\ UNCHANGED <<queues, fault>>
  /\ UNCHANGED <<control, config, running, sockets, threads>>

GetNext ==
  /\ main = "idle"
  /\ index # len
  /\ fault' = CASE ~queues           -> "poll_null"
                [] index >= readable -> "poll_range"
                [] OTHER             -> fault
  /\ index' = IF fault' = "none" THEN index + 1 ELSE index
  /\ UNCHANGED <<control, config, running, sockets, threads, buffers, len, swap_needed>>

-----------------------------------------------------------------------------
(***************************************************************************)
(* A listener thread.  Its loop reads the receiver's _lsocket twice, once  *)
(* for the test and once for the call; inside Run() it uses the socket it  *)
(* was called on.                                                          *)
(***************************************************************************)
Go(t, label) == thread' = [thread EXCEPT ![t] = label]

Step(t, from, to) ==
  /\ thread[t] = from
  /\ Go(t, to)
  /\ UNCHANGED <<control, config, running, sockets, cursor>>

\* Run() returns, or is left by an exception: the thread is back in its own loop.
LeaveRun(t, from) ==
  /\ Step(t, from, "test")
  /\ runs' = [runs EXCEPT ![t] = None]

\* The memory a thread uses next has been freed.
Undefined(t, kind) ==
  /\ fault' = kind
  /\ UNCHANGED <<control, config, running, sockets, threads, buffers, cursor>>

ThreadTest(t) ==
  /\ main # "gone"
  /\ IF lsocket = None THEN Step(t, "test", "quit") ELSE Step(t, "test", "call")
  /\ UNCHANGED <<runs, datagrams, buffers, fault>>

ThreadCall(t) ==
  /\ main # "gone"
  /\ lsocket # None
  /\ Step(t, "call", "enter")
  /\ runs' = [runs EXCEPT ![t] = lsocket]
  /\ UNCHANGED <<datagrams, buffers, fault>>

ThreadCallNull(t) ==
  /\ main # "gone"
  /\ thread[t] = "call"
  /\ lsocket = None
  /\ Undefined(t, "null_socket")

\* Run() forgets a Break() that came before it.
RunEnter(t) ==
  /\ runs[t] \in alive
  /\ thread[t] = "enter"
  /\ Go(t, "loop")
  /\ broken' = [broken EXCEPT ![runs[t]] = FALSE]
  /\ UNCHANGED <<control, config, running, lsocket, starts, stops, alive, bound, runs,
                 datagrams, buffers, cursor, fault>>

RunLoop(t) ==
  /\ runs[t] \in alive
  /\ IF broken[runs[t]] THEN LeaveRun(t, "loop")
                        ELSE Step(t, "loop", "select") /\ UNCHANGED runs
  /\ UNCHANGED <<datagrams, buffers, fault>>

\* select() has no timeout here: only a datagram wakes it.  It may do so even
\* after the main thread has closed the descriptor, or fail on it at once.
RunSelect(t) ==
  /\ Step(t, "select", "woken")
  /\ \/ datagrams < MaxDatagrams /\ datagrams' = datagrams + 1
     \/ runs[t] \notin alive /\ UNCHANGED datagrams
  /\ UNCHANGED <<runs, buffers, fault>>

RunReceive(t) ==
  /\ runs[t] \in alive
  /\ IF broken[runs[t]] THEN LeaveRun(t, "woken")
                        ELSE Step(t, "woken", "dispatch") /\ UNCHANGED runs
  /\ UNCHANGED <<datagrams, buffers, fault>>

MutantPacketEndsThread(t) ==
  /\ main # "gone"
  /\ Step(t, "dispatch", "loop") \/ Step(t, "dispatch", "quit")
  /\ UNCHANGED <<runs, datagrams, buffers, fault>>

\* ProcessPacket comes to the end of the packet, or to a malformed element, whose
\* exception leaves Run() and is caught inside the loop of the thread ...
PacketEnds(t) ==
  /\ main # "gone"
  /\ \/ Step(t, "dispatch", "loop") /\ UNCHANGED runs
     \/ LeaveRun(t, "dispatch")
  /\ UNCHANGED <<datagrams, buffers, fault>>

\* ReceivedBundle::Init() turns for ever on a slot size of 2^32 - 4, which moves
\* it by nothing.  It uses the packet's buffer only, which is the thread's own.
PacketNeverEnds(t) ==
  /\ main # "gone"
  /\ Step(t, "dispatch", "endless")
  /\ UNCHANGED <<runs, datagrams, buffers, fault>>

\* ... or to a message.  If it is a valid one it takes the lock, finds the queue ...
ProcessMessageLock(t) ==
  /\ main # "gone"
  /\ queues
  /\ Unlocked
  /\ Step(t, "dispatch", "pushing")
  /\ UNCHANGED <<runs, datagrams, buffers, fault>>

\* ... pushes and gives the lock up: the queue may be one over its limit ...
ProcessMessage(t) ==
  /\ Step(t, "pushing", "check")
  /\ written' = written + 1
  /\ UNCHANGED <<runs, datagrams, queues, readable, fault>>

\* ... until check_queue() has taken the lock again.  stop() may come before.
CheckQueueLock(t) ==
  /\ main # "gone"
  /\ Unlocked
  /\ Step(t, "check", "checking")
  /\ UNCHANGED <<runs, datagrams, buffers, fault>>

MutantCheckQueueKeeps(t) ==
  /\ main # "gone"
  /\ Step(t, "checking", "dispatch")
  /\ UNCHANGED <<runs, datagrams, buffers, fault>>

CheckQueue(t) ==
  /\ main # "gone"
  /\ Step(t, "checking", "dispatch")
  /\ written' = IF queues /\ written > MaxMessages THEN MaxMessages ELSE written
  /\ UNCHANGED <<runs, datagrams, queues, readable, fault>>

ProcessMessageNull(t) ==
  /\ main # "gone"
  /\ thread[t] = "dispatch"
  /\ ~queues
  /\ Unlocked
  /\ Undefined(t, "null_queue")

UseFreedSocket(t) ==
  /\ thread[t] \in {"enter", "loop", "woken"}
  /\ runs[t] \notin alive
  /\ Undefined(t, "freed_socket")

UseFreedReceiver(t) ==
  /\ thread[t] \in {"test", "call", "dispatch", "check", "checking"}
  /\ main = "gone"
  /\ Undefined(t, "freed_receiver")

-----------------------------------------------------------------------------
Init ==
  /\ main = "idle"
  /\ after = "script"
  /\ port = 0
  /\ new_port = 0
  /\ is_ready = FALSE
  /\ running = FALSE
  /\ lsocket = None
  /\ starts = 0
  /\ stops = 0
  /\ alive = {}
  /\ bound = [s \in Starts |-> 0]
  /\ broken = [s \in Starts |-> FALSE]
  /\ thread = [t \in Starts |-> "none"]
  /\ runs = [t \in Starts |-> None]
  /\ datagrams = 0
  /\ queues = FALSE
  /\ written = 0
  /\ readable = 0
  /\ index = 0
  /\ len = 0
  /\ swap_needed = TRUE
  /\ fault = "none"

StopSteps  == StopBreak \/ StopDelete \/ StopNull \/ StopPurge \/ StopPurgeRaces
StartSteps == StartFails \/ StartBinds \/ StartBuffers \/ StartThread
Main == Setup \/ Start \/ Stop \/ Destroy \/ StopSteps \/ StartSteps \/ HasMessage \/ GetNext

\* What a thread does when nothing but the scheduler holds it up.
Runnable(t) ==
  \/ ThreadTest(t) \/ ThreadCall(t) \/ ThreadCallNull(t)
  \/ RunEnter(t) \/ RunLoop(t) \/ RunReceive(t)
  \/ PacketEnds(t) \/ PacketNeverEnds(t)
  \/ ProcessMessageLock(t) \/ ProcessMessage(t) \/ ProcessMessageNull(t)
  \/ CheckQueueLock(t) \/ CheckQueue(t)
  \/ UseFreedSocket(t) \/ UseFreedReceiver(t)

Listener(t) == Runnable(t) \/ RunSelect(t)

Next == fault = "none" /\ (Main \/ \E t \in Starts : Listener(t))

Spec == Init /\ [][Next]_vars

(***************************************************************************)
(* Both kinds of thread are scheduled, and a packet has finitely many      *)
(* messages: after them it ends, or never does (PacketNeverEnds).  Nothing *)
(* obliges the script to call a method or the network to deliver a         *)
(* datagram.                                                               *)
(***************************************************************************)
Fairness ==
  /\ WF_vars(fault = "none" /\ (StopSteps \/ StartSteps))
  /\ \A t \in Starts : WF_vars(fault = "none" /\ Runnable(t))
  /\ \A t \in Starts : SF_vars(fault = "none" /\ (PacketEnds(t) \/ PacketNeverEnds(t)))

FairSpec == Spec /\ Fairness

-----------------------------------------------------------------------------
\* The threads that have pushed a message and not looked at the limit since.
Unchecked == {t \in Starts : thread[t] \in {"check", "checking"}}

(***************************************************************************)
(* Every variable stays in the set of values its declaration allows.  The  *)
(* limit of a queue is not one of its bounds: it is exceeded by a message  *)
(* for each thread between its push and its check, and a swap that comes   *)
(* in between hands the message over to the script.                        *)
(***************************************************************************)
TypeOK ==
  /\ main \in MainLabels
  /\ after \in {"script", "start", "setup", "destroy"}
  /\ port \in Ports \cup {0} /\ new_port \in Ports \cup {0}
  /\ is_ready \in BOOLEAN /\ running \in BOOLEAN /\ queues \in BOOLEAN
  /\ swap_needed \in BOOLEAN
  /\ lsocket \in Starts \cup {None}
  /\ starts \in 0..MaxStarts /\ stops \in 0..MaxStarts
  /\ alive \subseteq Starts
  /\ bound \in [Starts -> Ports \cup {0}]
  /\ broken \in [Starts -> BOOLEAN]
  /\ thread \in [Starts -> ThreadLabels]
  /\ runs \in [Starts -> Starts \cup {None}]
  /\ datagrams \in 0..MaxDatagrams
  /\ written \in 0..(MaxMessages + Cardinality(Unchecked))
  /\ readable \in 0..(MaxMessages + MaxStarts)
  /\ index \in 0..(MaxMessages + MaxStarts) /\ len \in 0..(MaxMessages + MaxStarts)
  /\ fault \in Faults

(***************************************************************************)
(* Between two calls of the script, whatever start() and setup() did and   *)
(* whichever of them failed: the receiver runs exactly when it has a       *)
(* socket and its queues, no other socket is left open, and that socket is *)
(* bound to the port of the last setup().                                  *)
(***************************************************************************)
RunsOnItsPort ==
  main \in {"idle", "gone"} =>
    /\ running = (lsocket # None)
    /\ queues = running
    /\ alive = {lsocket} \ {None}
    /\ running => is_ready /\ bound[lsocket] = port

(***************************************************************************)
(* As long as stop() has not deleted a socket, no interleaving of the two  *)
(* threads meets undefined behaviour, but for a has_message() of a         *)
(* receiver that does not run yet; and its one thread runs its one socket. *)
(***************************************************************************)
SafeUntilStopped ==
  stops = 0 =>
    /\ fault \in {"none", "poll_null"}
    /\ fault = "poll_null" => ~running
    /\ \A t \in Starts : thread[t] # "none" => t = lsocket /\ runs[t] \in {None, t}

(***************************************************************************)
(* The queues are swapped only when the batch has been read to its end, so *)
(* a script that drained it before stop() restarts with a clean cursor:    *)
(* reading past the end needs messages left unread by an earlier run.      *)
(***************************************************************************)
DrainedBeforeSwap ==
  /\ swap_needed => index = len
  /\ fault = "poll_range" => ~swap_needed /\ stops > 0
  /\ stops = 0 /\ queues => len = readable

(***************************************************************************)
(* A receiver that is never stopped goes on listening: after any packet,   *)
(* a malformed one whose exception left Run() included, its thread is back *)
(* in select(), unless the packet is one that is never parsed to its end.  *)
(***************************************************************************)
KeepsListening ==
  \A t \in Starts :
    thread[t] # "none" ~> \/ thread[t] \in {"select", "endless"}
                          \/ stops > 0 \/ fault # "none"

(***************************************************************************)
(* stop() "stops listening to port" and Run() exits on a Break(): after    *)
(* it, the thread ends.  The code does not: Break() wakes no select().     *)
(***************************************************************************)
StoppedThreadQuits ==
  \A t \in Starts :
    (main = "idle" /\ thread[t] # "none" /\ lsocket = None)
      ~> (thread[t] \in {"quit", "endless"} \/ main # "idle" \/ fault # "none")

(***************************************************************************)
(* has_message() tells "if there are pending messages": when it does, a    *)
(* get_next() finds one.  The code does not, after a restart: the cursor   *)
(* of the earlier run outlives its queue.                                  *)
(***************************************************************************)
PendingIsReadable == fault # "poll_range"
====
