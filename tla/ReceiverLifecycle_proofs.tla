----------------------- MODULE ReceiverLifecycle_proofs -----------------------
(***************************************************************************)
(* Theorems about ReceiverLifecycle, for any ports, any number of starts   *)
(* and of datagrams, and every limit of the queue.                         *)
(***************************************************************************)
EXTENDS ReceiverLifecycle, FiniteSetTheorems, TLAPS

-----------------------------------------------------------------------------
(***************************************************************************)
(* The inductive invariant has four parts beside the types.  Control ties  *)
(* the label of the main thread to the socket, the queues and the flags,   *)
(* and counts the sockets that were deleted.  Pushes says that a thread    *)
(* holding the lock for a push has the queues, and which threads exist at  *)
(* all.  Cursor is what the polls keep.  Quiet says what the threads do    *)
(* before the first socket is deleted.                                     *)
(***************************************************************************)
InStop  == {"break", "delete", "null", "purge"}
InStart == {"buffers", "thread"}
InRun   == {"enter", "loop", "select", "woken", "dispatch", "pushing", "check", "checking",
            "endless"}

Control ==
  /\ alive = IF main = "null" THEN {} ELSE {lsocket} \ {None}
  /\ lsocket <= starts
  /\ stops = IF alive = {} THEN starts ELSE starts - 1
  /\ running => starts > 0
  /\ main \in {"idle", "gone"} =>
       /\ running = (lsocket # None)
       /\ queues = running
       /\ running => is_ready /\ bound[lsocket] = port
  /\ main = "gone" => ~running
  /\ main \in {"break", "delete", "null"} => running /\ queues /\ lsocket # None
  /\ main = "purge" => lsocket = None /\ queues = running
  /\ main \in InStop /\ after \in {"start", "setup"} => is_ready
  /\ main = "bind" => lsocket = None /\ ~running /\ ~queues /\ is_ready
  /\ main \in InStart =>
       /\ lsocket = starts /\ lsocket # None
       /\ ~running /\ queues = (main = "thread")
       /\ is_ready /\ bound[lsocket] = port

Pushes ==
  /\ ~queues => written = 0
  /\ \A t \in Starts :
       /\ thread[t] = "pushing" => queues
       /\ thread[t] # "none" => t <= starts /\ (main \in InStart => t < starts)

Cursor ==
  /\ index <= len
  /\ swap_needed => index = len
  /\ stops = 0 => len = readable
  /\ fault = "poll_range" => ~swap_needed /\ stops > 0

Quiet ==
  stops = 0 =>
    /\ fault \in {"none", "poll_null"}
    /\ fault = "poll_null" => ~running
    /\ \A t \in Starts : thread[t] = "none" => runs[t] = None
    /\ \A t \in Starts :
         thread[t] # "none" =>
           /\ running
           /\ t = lsocket
           /\ runs[t] \in {None, t}
           /\ thread[t] \in InRun => runs[t] = t

IInv == TypeOK /\ Control /\ Pushes /\ Cursor /\ Quiet

-----------------------------------------------------------------------------
(***************************************************************************)
(* How many threads have pushed without a check, and how a thread enters   *)
(* and leaves their number.                                                *)
(***************************************************************************)
LEMMA Counted ==
  /\ IsFiniteSet(Unchecked)
  /\ Cardinality(Unchecked) \in Nat
  /\ Cardinality(Unchecked) <= MaxStarts
<1>1. IsFiniteSet(Starts) /\ Cardinality(Starts) = MaxStarts
  BY FS_Interval, BoundsAssumption DEF Starts
<1>2. Unchecked \in SUBSET Starts
  BY DEF Unchecked
<1>3. IsFiniteSet(Unchecked) /\ Cardinality(Unchecked) <= Cardinality(Starts)
  BY <1>1, <1>2, FS_Subset
<1> QED  BY <1>1, <1>3, FS_CardinalityType

LEMMA CountKept ==
  ASSUME thread \in [Starts -> ThreadLabels], NEW t \in Starts, NEW label,
         thread' = [thread EXCEPT ![t] = label],
         (thread[t] \in {"check", "checking"}) = (label \in {"check", "checking"})
  PROVE  Unchecked' = Unchecked
BY DEF Unchecked

LEMMA CountPush ==
  ASSUME thread \in [Starts -> ThreadLabels], NEW t \in Starts,
         thread[t] = "pushing", thread' = [thread EXCEPT ![t] = "check"]
  PROVE  Cardinality(Unchecked') = Cardinality(Unchecked) + 1
<1>1. Unchecked' = Unchecked \cup {t} /\ t \notin Unchecked
  BY DEF Unchecked
<1> QED  BY <1>1, Counted, FS_AddElement

LEMMA CountCheck ==
  ASSUME thread \in [Starts -> ThreadLabels], NEW t \in Starts,
         thread[t] = "checking", thread' = [thread EXCEPT ![t] = "dispatch"]
  PROVE  /\ Cardinality(Unchecked') = Cardinality(Unchecked) - 1
         /\ Cardinality(Unchecked') \in Nat
<1>1. Unchecked' = Unchecked \ {t} /\ t \in Unchecked
  BY DEF Unchecked
<1>2. /\ IsFiniteSet(Unchecked') /\ Cardinality(Unchecked') = Cardinality(Unchecked) - 1
  BY <1>1, Counted, FS_RemoveElement
<1> QED  BY <1>2, FS_CardinalityType

-----------------------------------------------------------------------------
LEMMA InitInv == Init => IInv
<1> SUFFICES ASSUME Init  PROVE IInv
  OBVIOUS
<1>1. TypeOK
  <2>1. 0 \in 0..MaxStarts /\ 0 \in 0..MaxDatagrams /\ 0 \in 0..(MaxMessages + MaxStarts)
    BY BoundsAssumption
  <2>2. /\ bound \in [Starts -> Ports \cup {0}] /\ broken \in [Starts -> BOOLEAN]
        /\ thread \in [Starts -> ThreadLabels] /\ runs \in [Starts -> Starts \cup {None}]
    BY DEF Init, ThreadLabels
  <2>3. written \in 0..(MaxMessages + Cardinality(Unchecked))
    BY Counted, BoundsAssumption DEF Init
  <2> QED  BY <2>1, <2>2, <2>3 DEF Init, TypeOK, MainLabels, Faults
<1>2. Control
  <2>1. alive = {lsocket} \ {None} /\ running = (lsocket # None) /\ queues = running
    BY DEF Init
  <2> QED  BY <2>1 DEF Init, Control, InStop, InStart, None
<1>3. Pushes /\ Cursor /\ Quiet
  BY DEF Init, Pushes, Cursor, Quiet
<1> QED  BY <1>1, <1>2, <1>3 DEF IInv

(***************************************************************************)
(* The types.                                                              *)
(***************************************************************************)
LEMMA StopType ==
  ASSUME IInv, Stop \/ Destroy \/ Setup \/ Start \/ StopSteps
  PROVE  TypeOK'
<1> USE DEF IInv, TypeOK, MainLabels, Faults, control, config, sockets, threads, buffers, cursor
<1>0. Unchecked' = Unchecked
  <2>1. thread' = thread
    BY DEF Stop, Destroy, Setup, Start, StopSteps, StopBreak, StopDelete, StopNull, StopPurge,
           StopPurgeRaces
  <2> QED  BY <2>1 DEF Unchecked
<1> USE <1>0
<1>1. CASE Stop \/ Destroy \/ Start
  BY <1>1 DEF Stop, Destroy, Start, CallStop
<1>2. CASE Setup
  BY <1>2 DEF Setup, CallStop
<1>3. CASE StopBreak
  <2>1. broken' \in [Starts -> BOOLEAN] /\ main' \in MainLabels
    BY <1>3 DEF StopBreak
  <2> QED  BY <1>3, <2>1 DEF StopBreak
<1>4. CASE StopDelete
  <2>1. stops + 1 \in 0..MaxStarts
    BY <1>4, BoundsAssumption DEF StopDelete, Control, None, Starts
  <2>2. bound' \in [Starts -> Ports \cup {0}] /\ broken' \in [Starts -> BOOLEAN]
    BY <1>4 DEF StopDelete
  <2> QED  BY <1>4, <2>1, <2>2 DEF StopDelete
<1>5. CASE StopNull
  BY <1>5 DEF StopNull
<1>6. CASE StopPurge
  <2>1. /\ queues' \in BOOLEAN /\ running' \in BOOLEAN
        /\ port' \in Ports \cup {0} /\ new_port' \in Ports \cup {0}
        /\ main' \in MainLabels
    BY <1>6 DEF StopPurge
  <2>2. /\ written' \in 0..(MaxMessages + Cardinality(Unchecked))
        /\ readable' \in 0..(MaxMessages + MaxStarts)
    BY <1>6, Counted, BoundsAssumption DEF StopPurge
  <2> QED  BY <1>6, <2>1, <2>2 DEF StopPurge
<1>7. CASE StopPurgeRaces
  BY <1>7 DEF StopPurgeRaces
<1> QED  BY <1>1, <1>2, <1>3, <1>4, <1>5, <1>6, <1>7 DEF StopSteps

LEMMA StartType ==
  ASSUME IInv, StartSteps
  PROVE  TypeOK'
<1> USE DEF IInv, TypeOK, MainLabels, ThreadLabels, config, sockets, threads, buffers, cursor
<1>0. Unchecked' = Unchecked
  <2>1. CASE thread' = thread
    BY <2>1 DEF Unchecked
  <2>2. CASE StartThread
    <3>1. starts \in Starts /\ thread[starts] = "none"
      BY <2>2, BoundsAssumption DEF StartThread, Pushes, Control, InStart, Starts, None
    <3>2. \A t \in Starts : thread'[t] = IF t = starts THEN "test" ELSE thread[t]
      BY <2>2 DEF StartThread
    <3> QED  BY <3>1, <3>2 DEF Unchecked
  <2> QED  BY <2>1, <2>2 DEF StartSteps, StartFails, StartBinds, StartBuffers
<1> USE <1>0
<1>1. CASE StartFails
  BY <1>1 DEF StartFails
<1>2. CASE StartBinds
  <2>1. starts + 1 \in Starts /\ starts + 1 \in 0..MaxStarts
    BY <1>2, BoundsAssumption DEF StartBinds, Starts
  <2> QED  BY <1>2, <2>1 DEF StartBinds
<1>3. CASE StartBuffers
  BY <1>3 DEF StartBuffers
<1>4. CASE StartThread
  <2>1. thread' \in [Starts -> ThreadLabels] /\ main' \in MainLabels
    BY <1>4 DEF StartThread
  <2> QED  BY <1>4, <2>1 DEF StartThread
<1> QED  BY <1>1, <1>2, <1>3, <1>4 DEF StartSteps

LEMMA PollType ==
  ASSUME IInv, HasMessage \/ GetNext
  PROVE  TypeOK'
<1> USE DEF IInv, TypeOK, MainLabels, ThreadLabels, Faults, control, config, sockets, threads,
            buffers, cursor
<1>0. Unchecked' = Unchecked
  BY DEF HasMessage, GetNext, Unchecked
<1> USE <1>0
<1>1. CASE HasMessage
  <2>1. swap_needed' \in BOOLEAN /\ queues' = queues /\ fault' \in Faults
    BY <1>1 DEF HasMessage
  <2>2. /\ written' \in 0..(MaxMessages + Cardinality(Unchecked))
        /\ readable' \in 0..(MaxMessages + MaxStarts)
        /\ index' \in 0..(MaxMessages + MaxStarts) /\ len' \in 0..(MaxMessages + MaxStarts)
    BY <1>1, Counted, BoundsAssumption DEF HasMessage
  <2> QED  BY <1>1, <2>1, <2>2 DEF HasMessage
<1>2. CASE GetNext
  <2>1. index' \in 0..(MaxMessages + MaxStarts)
    BY <1>2, BoundsAssumption DEF GetNext, Cursor
  <2>2. fault' \in Faults
    BY <1>2 DEF GetNext
  <2> QED  BY <1>2, <2>1, <2>2 DEF GetNext
<1> QED  BY <1>1, <1>2

LEMMA ListenerType ==
  ASSUME IInv, NEW t \in Starts, Listener(t)
  PROVE  TypeOK'
<1> USE DEF IInv, TypeOK, ThreadLabels, Faults, control, config, sockets, threads, buffers,
            cursor, Step, Go, LeaveRun, Undefined
<1>0. ASSUME Unchecked' = Unchecked
      PROVE  /\ ThreadTest(t) \/ ThreadCall(t) => TypeOK'
             /\ RunEnter(t) \/ RunLoop(t) \/ RunSelect(t) \/ RunReceive(t) => TypeOK'
             /\ PacketEnds(t) \/ PacketNeverEnds(t) => TypeOK'
             /\ ProcessMessageLock(t) \/ CheckQueueLock(t) => TypeOK'
             /\ ThreadCallNull(t) \/ ProcessMessageNull(t) => TypeOK'
             /\ UseFreedSocket(t) \/ UseFreedReceiver(t) => TypeOK'
  <2> USE <1>0
  <2>1. ASSUME ThreadTest(t) \/ ThreadCall(t)  PROVE TypeOK'
    BY <2>1 DEF ThreadTest, ThreadCall
  <2>2. ASSUME RunEnter(t)  PROVE TypeOK'
    BY <2>2 DEF RunEnter
  <2>7. ASSUME RunLoop(t) \/ RunReceive(t)  PROVE TypeOK'
    <3>1. /\ thread' \in [Starts -> ThreadLabels]
          /\ runs' \in [Starts -> Starts \cup {None}]
      BY <2>7 DEF RunLoop, RunReceive
    <3> QED  BY <2>7, <3>1 DEF RunLoop, RunReceive
  <2>3. ASSUME RunSelect(t)  PROVE TypeOK'
    BY <2>3, BoundsAssumption DEF RunSelect
  <2>4. ASSUME PacketEnds(t) \/ PacketNeverEnds(t)  PROVE TypeOK'
    BY <2>4 DEF PacketEnds, PacketNeverEnds
  <2>5. ASSUME ProcessMessageLock(t) \/ CheckQueueLock(t)  PROVE TypeOK'
    BY <2>5 DEF ProcessMessageLock, CheckQueueLock
  <2>6. ASSUME \/ ThreadCallNull(t) \/ ProcessMessageNull(t)
               \/ UseFreedSocket(t) \/ UseFreedReceiver(t)
        PROVE  TypeOK'
    BY <2>6 DEF ThreadCallNull, ProcessMessageNull, UseFreedSocket, UseFreedReceiver
  <2> QED  BY <2>1, <2>2, <2>3, <2>4, <2>5, <2>6, <2>7
<1>1. CASE ProcessMessage(t)
  <2>1. Cardinality(Unchecked') = Cardinality(Unchecked) + 1 /\ written' = written + 1
    BY <1>1, CountPush DEF ProcessMessage
  <2>2. written' \in 0..(MaxMessages + Cardinality(Unchecked'))
    BY <2>1, Counted, BoundsAssumption
  <2> QED  BY <1>1, <2>2 DEF ProcessMessage
<1>2. CASE CheckQueue(t)
  <2>1. written' \in 0..MaxMessages
    BY <1>2, Counted, BoundsAssumption DEF CheckQueue, Pushes
  <2>2. Cardinality(Unchecked') \in Nat
    BY <1>2, CountCheck DEF CheckQueue
  <2>3. written' \in 0..(MaxMessages + Cardinality(Unchecked'))
    BY <2>1, <2>2, BoundsAssumption
  <2> QED  BY <1>2, <2>3 DEF CheckQueue
<1>3. CASE ~ProcessMessage(t) /\ ~CheckQueue(t)
  <2>1. \/ thread' = thread
        \/ \E label \in ThreadLabels :
             /\ thread' = [thread EXCEPT ![t] = label]
             /\ (thread[t] \in {"check", "checking"}) = (label \in {"check", "checking"})
    BY <1>3 DEF Listener, Runnable, ThreadTest, ThreadCall, ThreadCallNull, RunEnter, RunLoop,
      RunSelect, RunReceive, PacketEnds, PacketNeverEnds, ProcessMessageLock, CheckQueueLock,
      ProcessMessageNull, UseFreedSocket, UseFreedReceiver
  <2>2. Unchecked' = Unchecked
    <3>1. CASE thread' = thread
      BY <3>1 DEF Unchecked
    <3> QED  BY <2>1, <3>1, CountKept
  <2> QED  BY <1>0, <1>3, <2>2 DEF Listener, Runnable
<1> QED  BY <1>1, <1>2, <1>3

-----------------------------------------------------------------------------
(***************************************************************************)
(* The main thread keeps Control.                                          *)
(***************************************************************************)
LEMMA StopControl ==
  ASSUME IInv, Stop \/ Destroy \/ Setup \/ Start \/ StopSteps
  PROVE  Control'
<1> USE BoundsAssumption DEF IInv, TypeOK, MainLabels, Control, InStop, InStart, None, Starts,
        control, config, sockets, threads, buffers, cursor
<1>1. CASE Stop \/ Destroy
  <2>1. /\ main = "idle" /\ main' = (IF lsocket # None THEN "break" ELSE "purge")
        /\ after' \in {"script", "destroy"}
        /\ UNCHANGED <<port, is_ready, running, lsocket, starts, stops, alive, bound, queues>>
    BY <1>1 DEF Stop, Destroy, CallStop
  <2> QED  BY <2>1
<1>2. CASE Start
  BY <1>2 DEF Start, CallStop
<1>3. CASE Setup
  BY <1>3 DEF Setup, CallStop
<1>4. CASE StopBreak
  BY <1>4 DEF StopBreak
<1>5. CASE StopDelete
  BY <1>5 DEF StopDelete
<1>6. CASE StopNull
  BY <1>6 DEF StopNull
<1>7. CASE StopPurge
  BY <1>7 DEF StopPurge
<1>8. CASE StopPurgeRaces
  BY <1>8 DEF StopPurgeRaces
<1> QED  BY <1>1, <1>2, <1>3, <1>4, <1>5, <1>6, <1>7, <1>8 DEF StopSteps

LEMMA StartControl ==
  ASSUME IInv, StartSteps
  PROVE  Control'
<1> USE BoundsAssumption DEF IInv, TypeOK, MainLabels, Control, InStop, InStart, None, Starts,
        control, config, sockets, threads, buffers, cursor
<1>1. CASE StartFails
  BY <1>1 DEF StartFails
<1>2. CASE StartBinds
  BY <1>2 DEF StartBinds
<1>3. CASE StartBuffers
  BY <1>3 DEF StartBuffers
<1>4. CASE StartThread
  <2>1. /\ main = "thread" /\ main' = "idle" /\ running' /\ queues
        /\ UNCHANGED <<after, port, is_ready, lsocket, starts, stops, alive, bound, queues>>
    BY <1>4 DEF StartThread
  <2>2. /\ lsocket # None /\ is_ready /\ bound[lsocket] = port /\ starts > 0
        /\ lsocket <= starts /\ alive = {lsocket} \ {None} /\ stops = starts - 1
    BY <2>1
  <2> QED  BY <2>1, <2>2
<1> QED  BY <1>1, <1>2, <1>3, <1>4 DEF StartSteps

(* Nothing else touches what Control speaks of. *)
ControlVars == <<main, after, port, is_ready, running, lsocket, starts, stops, alive, bound, queues>>

LEMMA ControlKept ==
  ASSUME Control, UNCHANGED ControlVars
  PROVE  Control'
BY DEF Control, ControlVars

LEMMA PollKeeps ==
  ASSUME HasMessage \/ GetNext
  PROVE  UNCHANGED <<ControlVars, thread, runs>>
<1> USE DEF control, config, sockets, threads, buffers, cursor, ControlVars
<1>1. CASE HasMessage
  BY <1>1 DEF HasMessage
<1>2. CASE GetNext
  BY <1>2 DEF GetNext
<1> QED  BY <1>1, <1>2

LEMMA ListenerKeeps ==
  ASSUME NEW t \in Starts, Listener(t)
  PROVE  UNCHANGED <<ControlVars, readable, cursor>>
BY DEF Listener, Runnable, ThreadTest, ThreadCall, ThreadCallNull, RunEnter, RunLoop, RunSelect,
       RunReceive, PacketEnds, PacketNeverEnds, ProcessMessageLock, ProcessMessage,
         ProcessMessageNull, CheckQueueLock, CheckQueue,
       UseFreedSocket, UseFreedReceiver, Step, LeaveRun, Undefined, control, config, sockets, threads,
       buffers, cursor, ControlVars

-----------------------------------------------------------------------------
(***************************************************************************)
(* The queues go only when no thread holds the lock, and a push finds      *)
(* them.                                                                   *)
(***************************************************************************)
LEMMA PushesMain ==
  ASSUME IInv, Main
  PROVE  Pushes'
<1> USE DEF IInv, Pushes, Unlocked, InStart, control, config, sockets, threads, buffers, cursor
<1>1. CASE Stop \/ Destroy \/ Setup \/ Start
  BY <1>1 DEF Stop, Destroy, Setup, Start, CallStop
<1>2. CASE StopBreak \/ StopDelete \/ StopNull \/ StopPurgeRaces
  BY <1>2 DEF StopBreak, StopDelete, StopNull, StopPurgeRaces
<1>3. CASE StopPurge
  BY <1>3 DEF StopPurge
<1>4. CASE StartFails \/ StartBuffers
  BY <1>4 DEF StartFails, StartBuffers, Control
<1>5. CASE StartBinds
  BY <1>5, BoundsAssumption DEF StartBinds, TypeOK, Starts
<1>6. CASE StartThread
  <2> SUFFICES ASSUME NEW t \in Starts
               PROVE  /\ thread'[t] = "pushing" => queues
                      /\ thread'[t] # "none" => t <= starts
    BY <1>6 DEF StartThread
  <2>1. thread'[t] = IF t = starts THEN "test" ELSE thread[t]
    BY <1>6 DEF StartThread, TypeOK
  <2> QED  BY <2>1, BoundsAssumption DEF Starts
<1>7. CASE HasMessage \/ GetNext
  BY <1>7 DEF HasMessage, GetNext
<1> QED  BY <1>1, <1>2, <1>3, <1>4, <1>5, <1>6, <1>7 DEF Main, StopSteps, StartSteps

LEMMA PushesListener ==
  ASSUME IInv, NEW t \in Starts, Listener(t)
  PROVE  Pushes'
<1>1. UNCHANGED <<main, starts, queues>>
  BY ListenerKeeps DEF ControlVars
<1>2. /\ written' # written => queues
      /\ \/ thread' = thread
         \/ /\ thread[t] # "none"
            /\ \E label \in ThreadLabels :
                 /\ thread' = [thread EXCEPT ![t] = label]
                 /\ label = "pushing" => queues
  BY DEF IInv, Pushes, Listener, Runnable, ThreadTest, ThreadCall, ThreadCallNull, RunEnter,
    RunLoop, RunSelect, RunReceive, PacketEnds, PacketNeverEnds, ProcessMessageLock,
    ProcessMessage, ProcessMessageNull, CheckQueueLock, CheckQueue, UseFreedSocket,
    UseFreedReceiver, Step, LeaveRun, Go, Undefined, buffers, threads, ThreadLabels
<1>3. thread \in [Starts -> ThreadLabels]
  BY DEF IInv, TypeOK
<1> QED  BY <1>1, <1>2, <1>3 DEF IInv, Pushes

-----------------------------------------------------------------------------
(***************************************************************************)
(* The cursor.  Only the purge of a stop() that deleted a socket takes     *)
(* readable messages away from under it.                                   *)
(***************************************************************************)
LEMMA CursorStep ==
  ASSUME IInv, fault = "none", Main
  PROVE  Cursor'
<1> USE BoundsAssumption DEF IInv, TypeOK, Cursor, control, config, sockets, threads, buffers,
        cursor
<1>1. CASE Stop \/ Destroy \/ Setup \/ Start
  BY <1>1 DEF Stop, Destroy, Setup, Start
<1>2. CASE StopBreak \/ StopNull \/ StopPurgeRaces
  BY <1>2 DEF StopBreak, StopNull, StopPurgeRaces
<1>3. CASE StopDelete
  BY <1>3 DEF StopDelete
<1>4. CASE StopPurge
  <2>1. running => stops > 0
    BY <1>4 DEF StopPurge, Control, None
  <2> QED  BY <1>4, <2>1 DEF StopPurge
<1>5. CASE StartSteps
  BY <1>5 DEF StartSteps, StartFails, StartBinds, StartBuffers, StartThread
<1>6. CASE HasMessage
  <2>1. CASE ~swap_needed
    BY <1>6, <2>1 DEF HasMessage
  <2>2. CASE swap_needed /\ ~queues
    BY <1>6, <2>2 DEF HasMessage
  <2>3. CASE swap_needed /\ queues
    <3>1. /\ readable' = written /\ index' = 0 /\ len' = written
          /\ (swap_needed' => written = 0) /\ UNCHANGED <<stops, fault>>
      BY <1>6, <2>3 DEF HasMessage
    <3> QED  BY <3>1
  <2> QED  BY <2>1, <2>2, <2>3
<1>7. CASE GetNext
  BY <1>7 DEF GetNext
<1> QED
  BY <1>1, <1>2, <1>3, <1>4, <1>5, <1>6, <1>7 DEF Main, StopSteps

LEMMA CursorKept ==
  ASSUME IInv, NEW t \in Starts, Listener(t)
  PROVE  Cursor'
<1>1. UNCHANGED <<stops, readable, index, len, swap_needed>>
  BY ListenerKeeps DEF ControlVars, cursor
<1>2. fault' # "poll_range" \/ fault' = fault
  BY DEF Listener, Runnable, ThreadTest, ThreadCall, ThreadCallNull, RunEnter, RunLoop, RunSelect,
         RunReceive, PacketEnds, PacketNeverEnds, ProcessMessageLock, ProcessMessage,
         ProcessMessageNull, CheckQueueLock, CheckQueue,
         UseFreedSocket, UseFreedReceiver, LeaveRun, Undefined
<1> QED  BY <1>1, <1>2 DEF IInv, Cursor

-----------------------------------------------------------------------------
(***************************************************************************)
(* Until a socket has been deleted, a thread exists only while the         *)
(* receiver runs, and it is the one of the one socket.                     *)
(***************************************************************************)
LEMMA QuietMain ==
  ASSUME IInv, fault = "none", Main
  PROVE  Quiet'
<1> USE DEF Quiet, control, config, sockets, threads, buffers, cursor
<1>1. CASE Stop \/ Destroy \/ Setup \/ Start
  BY <1>1 DEF Stop, Destroy, Setup, Start, IInv
<1>2. CASE StopBreak
  BY <1>2 DEF StopBreak, IInv
<1>3. CASE StopDelete
  <2>1. stops' # 0
    BY <1>3 DEF StopDelete, IInv, TypeOK
  <2> QED  BY <2>1
<1>4. CASE StopNull
  <2>1. stops' # 0
    BY <1>4 DEF StopNull, IInv, TypeOK, Control
  <2> QED  BY <2>1
<1>5. CASE StopPurge \/ StopPurgeRaces
  <2>1. stops' = stops /\ (running => stops > 0)
    BY <1>5 DEF StopPurge, StopPurgeRaces, IInv, TypeOK, Control, None
  <2>2. CASE stops = 0
    <3>1. ~running /\ StopPurge
      BY <1>5, <2>1, <2>2 DEF StopPurgeRaces
    <3>2. ~running' /\ UNCHANGED <<lsocket, stops, thread, runs, fault>>
      BY <3>1 DEF StopPurge
    <3>3. \A t \in Starts : thread[t] = "none"
      BY <2>2, <3>1 DEF IInv
    <3> QED  BY <3>2, <3>3, <2>2 DEF IInv
  <2>3. CASE stops # 0
    BY <2>1, <2>3
  <2> QED  BY <2>2, <2>3
<1>6. CASE StartFails \/ StartBuffers
  BY <1>6 DEF StartFails, StartBuffers, IInv
<1>7. CASE StartBinds
  <2>1. ~running
    BY <1>7 DEF StartBinds, IInv, Control
  <2> QED  BY <1>7, <2>1 DEF StartBinds, IInv
<1>8. CASE StartThread
  <2>1. ~running /\ lsocket = starts
    BY <1>8 DEF StartThread, IInv, Control, InStart
  <2>2. thread \in [Starts -> ThreadLabels]
    BY DEF IInv, TypeOK
  <2> SUFFICES ASSUME stops = 0
               PROVE  \A t \in Starts :
                        IF thread'[t] = "none" THEN runs[t] = None
                          ELSE t = lsocket /\ runs[t] = None /\ thread'[t] \notin InRun
    BY <1>8 DEF StartThread, IInv
  <2> TAKE t \in Starts
  <2>3. \A s \in Starts : thread[s] = "none" /\ runs[s] = None
    BY <2>1 DEF IInv
  <2>4. thread'[t] = IF t = starts THEN "test" ELSE "none"
    BY <1>8, <2>2, <2>3 DEF StartThread
  <2> QED  BY <2>1, <2>3, <2>4 DEF InRun
<1>9. CASE HasMessage
  <2>1. main = "idle" => queues = running
    BY DEF IInv, Control
  <2> QED  BY <1>9, <2>1 DEF HasMessage, IInv
<1>10. CASE GetNext
  <2>1. main = "idle" => queues = running
    BY DEF IInv, Control
  <2>2. stops = 0 => fault' # "poll_range"
    BY <1>10 DEF GetNext, IInv, Cursor, TypeOK
  <2> QED  BY <1>10, <2>1, <2>2 DEF GetNext, IInv
<1> QED
  BY <1>1, <1>2, <1>3, <1>4, <1>5, <1>6, <1>7, <1>8, <1>9, <1>10 DEF Main, StopSteps, StartSteps

LEMMA QuietListener ==
  ASSUME IInv, fault = "none", NEW t \in Starts, Listener(t)
  PROVE  Quiet'
<1>1. UNCHANGED <<running, lsocket, stops, main, alive, queues>>
  BY ListenerKeeps DEF ControlVars
<1> SUFFICES ASSUME stops = 0  PROVE Quiet'
  BY <1>1 DEF Quiet
<1>2. thread \in [Starts -> ThreadLabels] /\ runs \in [Starts -> Starts \cup {None}]
  BY DEF IInv, TypeOK
<1>3. thread[t] # "none"
  BY DEF Listener, Runnable, ThreadTest, ThreadCall, ThreadCallNull, RunEnter, RunLoop, RunSelect,
         RunReceive, PacketEnds, PacketNeverEnds, ProcessMessageLock, ProcessMessage,
         ProcessMessageNull, CheckQueueLock, CheckQueue,
         UseFreedSocket, UseFreedReceiver, Step, LeaveRun
<1>4. /\ running /\ t = lsocket /\ t # None
      /\ runs[t] \in {None, t}
      /\ thread[t] \in InRun => runs[t] = t
  BY <1>3 DEF IInv, Quiet, Starts, None
<1>5. main \notin {"gone", "null", "purge"} /\ alive = {t} /\ queues
  <2>1. main # "null"
    BY <1>4 DEF IInv, Control, TypeOK
  <2>2. alive = {t}
    BY <1>4, <2>1 DEF IInv, Control
  <2>3. main \notin {"gone", "purge", "bind", "buffers", "thread"}
    BY <1>4 DEF IInv, Control, InStart
  <2>4. main \in {"idle", "break", "delete"}
    BY <2>1, <2>3 DEF IInv, TypeOK, MainLabels
  <2> QED  BY <1>4, <2>2, <2>3, <2>4 DEF IInv, Control
<1>6. \A s \in Starts : s # t => thread[s] = "none"
  BY <1>4 DEF IInv, Quiet
<1> USE DEF Step, Go, LeaveRun, Undefined, control, config, sockets, threads, buffers, cursor,
            InRun
<1>7. /\ fault' = fault
      /\ \E label \in ThreadLabels \ {"none"} : thread' = [thread EXCEPT ![t] = label]
      /\ runs' \in {runs, [runs EXCEPT ![t] = t], [runs EXCEPT ![t] = None]}
      /\ thread'[t] \in InRun => runs'[t] = t
  <2>1. CASE ThreadTest(t)
    BY <1>2, <1>4, <2>1 DEF ThreadTest, ThreadLabels
  <2>2. CASE ThreadCall(t)
    BY <1>2, <1>4, <2>2 DEF ThreadCall, ThreadLabels
  <2>3. CASE RunEnter(t) \/ RunLoop(t) \/ RunSelect(t) \/ RunReceive(t)
    BY <1>2, <1>4, <2>3 DEF RunEnter, RunLoop, RunSelect, RunReceive, ThreadLabels
  <2>4. CASE PacketEnds(t) \/ PacketNeverEnds(t)
    BY <1>2, <1>4, <2>4 DEF PacketEnds, PacketNeverEnds, ThreadLabels
  <2>6. CASE ProcessMessageLock(t) \/ ProcessMessage(t) \/ CheckQueueLock(t) \/ CheckQueue(t)
    BY <1>2, <1>4, <2>6
    DEF ProcessMessageLock, ProcessMessage, CheckQueueLock, CheckQueue, ThreadLabels
  <2>5. CASE \/ ThreadCallNull(t) \/ ProcessMessageNull(t)
             \/ UseFreedSocket(t) \/ UseFreedReceiver(t)
    BY <1>4, <1>5, <2>5 DEF ThreadCallNull, ProcessMessageNull, UseFreedSocket, UseFreedReceiver
  <2> QED  BY <2>1, <2>2, <2>3, <2>4, <2>5, <2>6 DEF Listener, Runnable
<1>8. /\ \A s \in Starts : s # t => thread'[s] = "none" /\ runs'[s] = runs[s]
      /\ thread'[t] # "none" /\ runs'[t] \in {None, t}
  BY <1>2, <1>4, <1>6, <1>7
<1>9. \A s \in Starts : s # t => runs[s] = None
  BY <1>6 DEF IInv, Quiet
<1> QED  BY <1>1, <1>4, <1>7, <1>8, <1>9 DEF IInv, Quiet

-----------------------------------------------------------------------------
(* Every step of either kind of thread keeps the invariant. *)
LEMMA NextInv == IInv /\ [Next]_vars => IInv'
<1> SUFFICES ASSUME IInv, [Next]_vars  PROVE IInv'
  OBVIOUS
<1>1. CASE fault = "none" /\ Main
  <2>1. TypeOK'
    BY <1>1, StopType, StartType, PollType DEF Main
  <2>2. Control'
    <3>1. CASE HasMessage \/ GetNext
      BY <3>1, PollKeeps, ControlKept DEF IInv
    <3> QED  BY <1>1, <3>1, StopControl, StartControl DEF Main
  <2> QED  BY <1>1, <2>1, <2>2, PushesMain, CursorStep, QuietMain DEF IInv
<1>2. ASSUME fault = "none", NEW t \in Starts, Listener(t)  PROVE IInv'
  <2>1. Control'
    BY <1>2, ListenerKeeps, ControlKept DEF IInv
  <2> QED  BY <1>2, <2>1, ListenerType, PushesListener, CursorKept, QuietListener DEF IInv
<1>3. CASE UNCHANGED vars
  <2>1. Unchecked' = Unchecked
    BY <1>3 DEF vars, Unchecked
  <2> QED  BY <1>3, <2>1 DEF vars, IInv, TypeOK, Control, Pushes, Cursor, Quiet
<1> QED  BY <1>1, <1>2, <1>3 DEF Next

LEMMA Invariance == Spec => []IInv
BY InitInv, NextInv, PTL DEF Spec

(***************************************************************************)
(* The variables of the receiver keep their types, and the queue that is   *)
(* written exceeds its limit by one message for each thread between its    *)
(* push and its check, never by more.                                      *)
(***************************************************************************)
THEOREM LifecycleTypeCorrect == Spec => []TypeOK
<1>1. IInv => TypeOK
  BY DEF IInv
<1> QED  BY <1>1, Invariance, PTL

(***************************************************************************)
(* Between two calls, socket, queues, flags and port agree, whichever      *)
(* start() or setup() failed before.                                       *)
(***************************************************************************)
THEOREM PortCorrect == Spec => []RunsOnItsPort
<1>1. IInv => RunsOnItsPort
  BY DEF IInv, Control, RunsOnItsPort
<1> QED  BY <1>1, Invariance, PTL

(***************************************************************************)
(* Nothing undefined happens before stop() deletes a socket.               *)
(***************************************************************************)
THEOREM StartedSafely == Spec => []SafeUntilStopped
<1>1. IInv => SafeUntilStopped
  BY DEF IInv, Quiet, SafeUntilStopped
<1> QED  BY <1>1, Invariance, PTL

(***************************************************************************)
(* Only a batch that was read to its end is given up for the next one, and *)
(* get_next() reads past a batch only after a stop().                      *)
(***************************************************************************)
THEOREM Drained == Spec => []DrainedBeforeSwap
<1>1. IInv => DrainedBeforeSwap
  BY DEF IInv, Cursor, DrainedBeforeSwap
<1> QED  BY <1>1, Invariance, PTL

===============================================================================
