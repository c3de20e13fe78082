-------------------------- MODULE Multiplexer_proofs --------------------------
(***************************************************************************)
(* Safety of the receive loop, for any sockets, timers and bounds.  Each   *)
(* invariant of the run has an inductive strengthening of its own, which   *)
(* says at which labels of Run() the relation it states can be open.       *)
(***************************************************************************)
EXTENDS Multiplexer, TLAPS

NoDuplicates(s) == \A j, k \in Positions(s) : j # k => s[j] # s[k]

(* Readable sockets stay readable until the loop comes to them. *)
Blocking ==
  /\ NoDuplicates(sockets)
  /\ build = "posix" =>
       /\ pc = "pipe" /\ piped => wake > 0
       /\ pc \in {"pipe", "test"} => \A s \in flagged : pending[s] > 0
       /\ pc = "receive" => \A k \in i..Len(sockets) :
                              sockets[k] \in flagged => pending[sockets[k]] > 0

Sorted(q) == \A j, k \in Positions(q) : j < k => q[j].due <= q[k].due

(* The earliest timer is first unless the loop has just put one off. *)
InOrder ==
  /\ Sorted(queue) \/ (pc \in {"expire", "sort"} /\ i > 1) \/ pc = "throw"
  /\ pc = "wait" /\ break_ => wake > 0 \/ waking

(* A datagram has set the event of its socket, or the loop is about to     *)
(* read that socket.                                                       *)
AboutToRead(s) == pc = "receive" /\ i <= Len(sockets) /\ s = sockets[i]

EventsSet ==
  build = "win32" /\ pc \in Running =>
    \A s \in Members(sockets) :
      /\ event[s] # "none"
      /\ event[s] = "reset" => AboutToRead(s)
      /\ pending[s] > 0 => event[s] = "set" \/ AboutToRead(s)

(* Who can have asked, and how many listeners can have been called since,  *)
(* at each label.                                                          *)
Prompt ==
  /\ asker = "nobody" => late = 0
  /\ asker = "timer" => late = 0
  /\ asker = "packet" => late <= 1
  /\ asker = "thread" => late <= 2
  /\ asker # "nobody" => break_
  /\ pc \in Running /\ break_ => asker # "nobody"
  /\ pc = "leave" => asker # "nobody"
  /\ pc \in {"out", "enter", "wait", "pipe", "test", "receive"} =>
       late = 0 /\ asker \in {"nobody", "thread"}
  /\ pc \in {"clock", "expire"} => asker # "timer" /\ late <= 1 /\ (asker = "packet" => late = 0)

-----------------------------------------------------------------------------
(* A call of a listener, as seen by the code after it. *)
LEMMA CallCases ==
  ASSUME NEW kind, NEW again, NEW ended, break_ \in BOOLEAN, Call(kind, again, ended)
  PROVE  /\ break_' \in BOOLEAN
         /\ \/ break_ /\ break_' /\ late' = late + 1 /\ asker' = asker /\ pc' \in {"throw", ended}
            \/ ~break_ /\ break_' /\ late' = late /\ asker' = kind /\ pc' = ended
            \/ ~break_ /\ ~break_' /\ late' = late /\ asker' = asker /\ pc' \in {"throw", again}
<1>1. PICK outcome \in {"returns", "breaks", "throws"} :
        /\ break_' = (break_ \/ outcome = "breaks")
        /\ late' = IF break_ THEN late + 1 ELSE late
        /\ asker' = IF ~break_ /\ outcome = "breaks" THEN kind ELSE asker
        /\ pc' = IF outcome = "throws" THEN "throw" ELSE IF break_' THEN ended ELSE again
  BY DEF Call, Goto
<1>2. CASE break_
  BY <1>1, <1>2
<1>3. CASE ~break_ /\ outcome = "breaks"
  BY <1>1, <1>3
<1>4. CASE ~break_ /\ outcome # "breaks"
  BY <1>1, <1>4
<1> QED
  BY <1>2, <1>3, <1>4

LEMMA PromptInit == ASSUME Init PROVE Prompt
  BY DEF Init, Prompt, Running

(* Every label that follows a call of a listener tests break_ first. *)
LEMMA PromptStep ==
  ASSUME TypeOK, Prompt, [Next]_vars
  PROVE  Prompt'
<1> USE DEF Prompt, TypeOK, Running, Labels, Askers, attached, loop, posix, history
<1>1. CASE AttachSocketListener
  BY <1>1 DEF AttachSocketListener
<1>2. CASE DetachSocketListener
  BY <1>2 DEF DetachSocketListener
<1>3. CASE AttachPeriodicTimerListener
  BY <1>3 DEF AttachPeriodicTimerListener
<1>4. CASE DetachPeriodicTimerListener
  BY <1>4 DEF DetachPeriodicTimerListener
<1>5. CASE CallRun
  BY <1>5 DEF CallRun, Goto
<1>6. CASE EnterRun
  BY <1>6 DEF EnterRun, Goto
<1>7. CASE EnterRunWin32
  BY <1>7 DEF EnterRunWin32, Goto
<1>8. CASE LoopTest
  BY <1>8 DEF LoopTest, Goto
<1>9. CASE Select
  BY <1>9 DEF Select, Goto
<1>10. CASE ReadPipe
  BY <1>10 DEF ReadPipe, Goto
<1>11. CASE BreakTest
  BY <1>11 DEF BreakTest, Goto
<1>12. CASE Wait
  BY <1>12 DEF Wait, Goto
<1>13. CASE Receive
  <2>1. CASE Call("packet", "receive", "clock")
    BY <1>13, <2>1, CallCases DEF Receive, Skip, ReceiveFrom
  <2>2. CASE ~Call("packet", "receive", "clock")
    BY <1>13, <2>2 DEF Receive, Skip, ReceiveFrom, Goto
  <2> QED
    BY <2>1, <2>2
<1>14. CASE ReceiveWin32
  <2>1. CASE Call("packet", "receive", "clock")
    BY <1>14, <2>1, CallCases DEF ReceiveWin32, ReceiveFromWin32
  <2>2. CASE ~Call("packet", "receive", "clock")
    BY <1>14, <2>2 DEF ReceiveWin32, ReceiveFromWin32, Goto
  <2> QED
    BY <2>1, <2>2
<1>15. CASE LookAtClock
  BY <1>15 DEF LookAtClock, ReceivesEnd, Goto
<1>16. CASE TimerExpired
  BY <1>16, CallCases DEF TimerExpired
<1>17. CASE Resort
  BY <1>17 DEF Resort, TimersEnd, EndOfIteration, Goto
<1>18. CASE LeaveRun
  BY <1>18 DEF LeaveRun, EndOfRun, EndOfIteration, Goto
<1>19. CASE LeaveRunWin32
  BY <1>19 DEF LeaveRunWin32, EndOfRun, EndOfIteration, Goto
<1>20. CASE Throw
  BY <1>20 DEF Throw, EndOfRun, EndOfIteration, Goto
<1>21. CASE AsynchronousBreak
  BY <1>21 DEF AsynchronousBreak
<1>22. CASE Wake
  BY <1>22 DEF Wake
<1>23. CASE Arrive
  BY <1>23 DEF Arrive
<1>24. CASE Tick
  BY <1>24 DEF Tick
<1>25. CASE SelectInterrupted
  BY <1>25 DEF SelectInterrupted, Goto
<1>26. CASE SelectFails
  BY <1>26 DEF SelectFails, Goto
<1>27. CASE WaitFails
  BY <1>27 DEF WaitFails, Goto
<1>28. CASE UNCHANGED vars
  BY <1>28 DEF vars
<1> QED
  BY <1>1, <1>2, <1>3, <1>4, <1>5, <1>6, <1>7, <1>8, <1>9, <1>10, <1>11, <1>12, <1>13, <1>14,
     <1>15, <1>16, <1>17, <1>18, <1>19, <1>20, <1>21, <1>22, <1>23, <1>24, <1>25, <1>26, <1>27,
     <1>28 DEF Next, Attach, Run, Environment, Undefined

LEMMA EraseType ==
  ASSUME NEW S, NEW s \in Seq(S), NEW k \in Positions(s)
  PROVE  /\ Erase(s, k) \in Seq(S)
         /\ Positions(Erase(s, k)) = 1..(Len(s) - 1)
  BY DEF Erase, Positions

LEMMA SortsType ==
  ASSUME NEW S, NEW q \in Seq(S), NEW p \in Sorts(q)
  PROVE  /\ p \in Seq(S)
         /\ Len(p) = Len(q)
         /\ \A j, k \in Positions(p) : j < k => p[j].due <= p[k].due
<1>1. Members(q) \subseteq S
  BY DEF Members, Positions
<1>2. p \in [1..Len(q) -> S]
  BY <1>1 DEF Sorts, Positions
<1> QED
  BY <1>2 DEF Sorts, Positions

LEMMA TimerQueueType ==
  ASSUME TypeOK
  PROVE  TimerQueue \in Seq(Entry)
<1>1. \A k \in 1..Len(timers) : [timer |-> timers[k], due |-> Delay[timers[k]]] \in Entry
  BY DelayAssumption DEF Entry, TypeOK
<1>2. timers \in Seq(Timers)
  BY DEF TypeOK
<1>3. TimerQueue = [k \in 1..Len(timers) |-> [timer |-> timers[k], due |-> Delay[timers[k]]]]
  BY <1>2 DEF TimerQueue, Positions
<1> QED
  BY <1>1, <1>2, <1>3

LEMMA TickType ==
  ASSUME NEW e \in Entry
  PROVE  Later(e) \in Entry
  BY DEF Entry, Later

LEMMA PutOffType ==
  ASSUME NEW e \in Entry
  PROVE  PutOff(e) \in Entry
<1>1. e.due + Period[e.timer] \in Int
  BY PeriodAssumption DEF Entry
<1> QED
  BY <1>1 DEF Entry, PutOff

(* A byte is written only where there is room for it. *)
WakeRoom == waking => wake < MaxWakes

LEMMA TypeInit == ASSUME Init PROVE TypeOK /\ WakeRoom
<1>1. queue \in Seq(Entry) /\ sockets \in Seq(Sockets) /\ timers \in Seq(Timers)
  BY DEF Init
<1>2. pending \in [Sockets -> 0..MaxPending]
  BY BoundsAssumption DEF Init
<1>3. event \in [Sockets -> Events] /\ flagged \subseteq Sockets /\ wake \in 0..MaxWakes
  BY BoundsAssumption DEF Init, Events
<1>4. i \in Nat \ {0} /\ expired \in Nat /\ late \in Nat
  BY DEF Init
<1>5. build \in Builds /\ pc \in Labels /\ asker \in Askers
  BY DEF Init, Builds, Labels, Askers
<1>6. ~waking /\ waking \in BOOLEAN /\ break_ \in BOOLEAN /\ piped \in BOOLEAN
  BY DEF Init
<1> QED
  BY <1>1, <1>2, <1>3, <1>4, <1>5, <1>6 DEF TypeOK, WakeRoom

LEMMA EndOfIterationType ==
  ASSUME EndOfIteration
  PROVE  i' \in Nat \ {0} /\ expired' \in Nat /\ flagged' \subseteq Sockets /\ piped' \in BOOLEAN
<1>1. i' \in Nat \ {0} /\ expired' \in Nat
  BY DEF EndOfIteration
<1>2. flagged' \subseteq Sockets
  BY DEF EndOfIteration
<1>3. piped' \in BOOLEAN
  BY DEF EndOfIteration
<1> QED
  BY <1>1, <1>2, <1>3

LEMMA WaitType ==
  ASSUME sockets \in Seq(Sockets), event \in [Sockets -> Events], Wait
  PROVE  event' \in [Sockets -> Events] /\ i' \in Nat \ {0}
<1>1. ASSUME NEW k \in 1..Len(sockets), i' = k, event' = [event EXCEPT ![sockets[k]] = "reset"]
      PROVE  event' \in [Sockets -> Events] /\ i' \in Nat \ {0}
  BY <1>1 DEF Events
<1>2. CASE i' = Len(sockets) + 1 /\ event' = event
  BY <1>2
<1>3. ASSUME NEW k \in Signalled  PROVE k \in 1..Len(sockets)
  BY DEF Signalled, Positions
<1> QED
  BY <1>1, <1>2, <1>3 DEF Wait

LEMMA TakenType ==
  ASSUME pending \in [Sockets -> 0..MaxPending], NEW s \in Sockets, pending[s] > 0
  PROVE  [pending EXCEPT ![s] = @ - 1] \in [Sockets -> 0..MaxPending]
<1>1. pending[s] - 1 \in 0..MaxPending
  BY BoundsAssumption
<1> QED
  BY <1>1

(* Every action keeps its variables in their sets. *)
LEMMA TypeStep ==
  ASSUME TypeOK, WakeRoom, [Next]_vars
  PROVE  (TypeOK /\ WakeRoom)'
<1> USE DEF TypeOK, WakeRoom, Builds, Events, Labels, Running, Askers, Members, Positions,
      attached, loop, posix, history
<1>1. CASE AttachSocketListener
  BY <1>1 DEF AttachSocketListener
<1>2. CASE DetachSocketListener
  BY <1>2, EraseType DEF DetachSocketListener
<1>3. CASE AttachPeriodicTimerListener
  BY <1>3 DEF AttachPeriodicTimerListener
<1>4. CASE DetachPeriodicTimerListener
  BY <1>4, EraseType DEF DetachPeriodicTimerListener
<1>5. CASE CallRun
  BY <1>5 DEF CallRun, Goto
<1>6. CASE EnterRun
  BY <1>6, TimerQueueType, SortsType DEF EnterRun, Goto
<1>7. CASE EnterRunWin32
  BY <1>7, TimerQueueType, SortsType DEF EnterRunWin32, Goto
<1>8. CASE LoopTest
  BY <1>8 DEF LoopTest, Goto
<1>9. CASE Select
  BY <1>9 DEF Select, Readable, Goto
<1>10. CASE ReadPipe
  BY <1>10, BoundsAssumption DEF ReadPipe, Goto
<1>11. CASE BreakTest
  BY <1>11 DEF BreakTest, Goto
<1>12. CASE Wait
  <2>1. event' \in [Sockets -> Events] /\ i' \in Nat \ {0}
    BY <1>12, WaitType
  <2>2. wake' \in 0..MaxWakes /\ (waking => wake' < MaxWakes)
    BY <1>12, BoundsAssumption DEF Wait
  <2> QED
    BY <1>12, <2>1, <2>2 DEF Wait, Goto
<1>13. CASE Receive
  <2>0. \/ pending' = pending
        \/ \E s \in Sockets : pending[s] > 0 /\ pending' = [pending EXCEPT ![s] = @ - 1]
    BY <1>13 DEF Receive, Skip, ReceiveFrom
  <2>1. pending' \in [Sockets -> 0..MaxPending]
    BY <2>0, TakenType
  <2>2. CASE Call("packet", "receive", "clock")
    <3>1. /\ pc' \in Labels /\ break_' \in BOOLEAN
          /\ asker' \in Askers /\ late' \in Nat
      BY <2>2, CallCases
    <3> QED
      BY <1>13, <2>1, <3>1 DEF Receive
  <2>3. CASE ~Call("packet", "receive", "clock")
    BY <1>13, <2>1, <2>3 DEF Receive, Skip, ReceiveFrom, Goto
  <2> QED
    BY <2>2, <2>3
<1>14. CASE ReceiveWin32
  <2>1. pending' \in [Sockets -> 0..MaxPending]
    BY <1>14, BoundsAssumption DEF ReceiveWin32, ReceiveFromWin32
  <2>2. event' \in [Sockets -> Events]
    BY <1>14 DEF ReceiveWin32, ReceiveFromWin32
  <2>3. CASE Call("packet", "receive", "clock")
    <3>1. /\ pc' \in Labels /\ break_' \in BOOLEAN
          /\ asker' \in Askers /\ late' \in Nat
      BY <2>3, CallCases
    <3> QED
      BY <1>14, <2>1, <2>2, <3>1 DEF ReceiveWin32
  <2>4. CASE ~Call("packet", "receive", "clock")
    BY <1>14, <2>1, <2>2, <2>4 DEF ReceiveWin32, ReceiveFromWin32, Goto
  <2> QED
    BY <2>3, <2>4
<1>15. CASE LookAtClock
  BY <1>15 DEF LookAtClock, ReceivesEnd, Goto
<1>16. CASE TimerExpired
  <2>0. i' \in Nat \ {0}
    BY <1>16 DEF TimerExpired
  <2>1. queue' \in Seq(Entry)
    <3>1. CASE pc' # "expire"
      BY <1>16, <3>1 DEF TimerExpired
    <3>2. CASE pc' = "expire"
      <4> DEFINE put == PutOff(queue[i])
      <4>1. i \in 1..Len(queue) => put \in Entry
        BY PutOffType
      <4>2. queue' = [queue EXCEPT ![i] = put] /\ i' = i + 1
        BY <1>16, <3>2 DEF TimerExpired
      <4>3. queue \in Seq(Entry) /\ i \in Nat \ {0}
        OBVIOUS
      <4> HIDE DEF put
      <4>4. CASE i \in 1..Len(queue)
        BY <4>1, <4>2, <4>3, <4>4
      <4>5. CASE i \notin 1..Len(queue)
        <5>1. queue' = queue
          BY <4>2, <4>3, <4>5
        <5> QED
          BY <4>2, <4>3, <5>1
      <4> QED
        BY <4>4, <4>5
    <3> QED
      BY <3>1, <3>2
  <2>2. /\ pc' \in Labels /\ break_' \in BOOLEAN
        /\ asker' \in Askers /\ late' \in Nat
    BY <1>16, CallCases DEF TimerExpired
  <2> QED
    BY <1>16, <2>0, <2>1, <2>2 DEF TimerExpired
<1>17. CASE Resort
  <2>1. queue' \in Seq(Entry)
    BY <1>17, SortsType DEF Resort
  <2> QED
    BY <1>17, <2>1, EndOfIterationType DEF Resort, Goto
<1>18. CASE LeaveRun
  <2>1. queue' \in Seq(Entry)
    BY <1>18 DEF LeaveRun, EndOfRun
  <2> QED
    BY <1>18, <2>1, EndOfIterationType DEF LeaveRun, EndOfRun, Goto
<1>19. CASE LeaveRunWin32
  <2>1. queue' \in Seq(Entry) /\ event' \in [Sockets -> Events]
    BY <1>19 DEF LeaveRunWin32, EndOfRun
  <2> QED
    BY <1>19, <2>1, EndOfIterationType DEF LeaveRunWin32, EndOfRun, Goto
<1>20. CASE Throw
  <2>1. queue' \in Seq(Entry)
    BY <1>20 DEF Throw, EndOfRun
  <2> QED
    BY <1>20, <2>1, EndOfIterationType DEF Throw, EndOfRun, Goto
<1>21. CASE AsynchronousBreak
  BY <1>21 DEF AsynchronousBreak
<1>22. CASE Wake
  <2>1. wake' \in 0..MaxWakes
    BY <1>22, BoundsAssumption DEF Wake
  <2> QED
    BY <1>22, <2>1 DEF Wake
<1>23. CASE Arrive
  <2>1. pending' \in [Sockets -> 0..MaxPending]
    BY <1>23, BoundsAssumption DEF Arrive
  <2> QED
    BY <1>23, <2>1 DEF Arrive
<1>24. CASE Tick
  <2>1. queue' \in Seq(Entry)
    <3>1. \A k \in 1..Len(queue) : Later(queue[k]) \in Entry
      BY TickType
    <3>2. queue' = [k \in 1..Len(queue) |-> Later(queue[k])]
      BY <1>24 DEF Tick
    <3> QED
      BY <3>1, <3>2
  <2> QED
    BY <1>24, <2>1 DEF Tick
<1>25. CASE SelectInterrupted
  BY <1>25 DEF SelectInterrupted, Goto
<1>26. CASE SelectFails
  BY <1>26 DEF SelectFails, Goto
<1>27. CASE WaitFails
  BY <1>27 DEF WaitFails, Goto
<1>28. CASE UNCHANGED vars
  BY <1>28 DEF vars
<1> QED
  BY <1>1, <1>2, <1>3, <1>4, <1>5, <1>6, <1>7, <1>8, <1>9, <1>10, <1>11, <1>12, <1>13, <1>14,
     <1>15, <1>16, <1>17, <1>18, <1>19, <1>20, <1>21, <1>22, <1>23, <1>24, <1>25, <1>26, <1>27,
     <1>28 DEF Next, Attach, Run, Environment, Undefined

LEMMA AttachKeepsDistinct ==
  ASSUME NEW S, NEW s \in Seq(S), NEW x, x \notin Members(s), NoDuplicates(s)
  PROVE  NoDuplicates(Append(s, x))
  BY DEF NoDuplicates, Members, Positions

LEMMA EraseKeepsDistinct ==
  ASSUME NEW S, NEW s \in Seq(S), NEW k \in Positions(s), NoDuplicates(s)
  PROVE  NoDuplicates(Erase(s, k))
<1>1. \A j \in 1..(Len(s) - 1) : Erase(s, k)[j] = IF j < k THEN s[j] ELSE s[j + 1]
  BY DEF Erase
<1>2. Positions(Erase(s, k)) = 1..(Len(s) - 1) /\ Positions(s) = 1..Len(s)
  BY EraseType DEF Positions
<1>3. ASSUME NEW j \in 1..(Len(s) - 1), NEW m \in 1..(Len(s) - 1), j # m
      PROVE  Erase(s, k)[j] # Erase(s, k)[m]
  <2> DEFINE old(n) == IF n < k THEN n ELSE n + 1
  <2>1. old(j) \in 1..Len(s) /\ old(m) \in 1..Len(s) /\ old(j) # old(m)
    BY <1>2, <1>3
  <2>2. s[old(j)] # s[old(m)]
    BY <1>2, <2>1 DEF NoDuplicates
  <2> QED
    BY <1>1, <2>2
<1> QED
  BY <1>2, <1>3 DEF NoDuplicates

LEMMA BlockingInit == ASSUME Init PROVE Blocking
  BY DEF Init, Blocking, NoDuplicates, Positions

(* Only the loop itself takes a byte or a datagram. *)
LEMMA BlockingStep ==
  ASSUME TypeOK, Blocking, [Next]_vars
  PROVE  Blocking'
<1> USE DEF Blocking, TypeOK, attached, loop, posix, history
<1>1. CASE AttachSocketListener
  <2>1. NoDuplicates(sockets')
    BY <1>1, AttachKeepsDistinct DEF AttachSocketListener
  <2> QED
    BY <1>1, <2>1 DEF AttachSocketListener
<1>2. CASE DetachSocketListener
  <2>1. NoDuplicates(sockets')
    BY <1>2, EraseKeepsDistinct DEF DetachSocketListener
  <2> QED
    BY <1>2, <2>1 DEF DetachSocketListener
<1>3. CASE AttachPeriodicTimerListener
  BY <1>3 DEF AttachPeriodicTimerListener
<1>4. CASE DetachPeriodicTimerListener
  BY <1>4 DEF DetachPeriodicTimerListener
<1>5. CASE CallRun
  BY <1>5 DEF CallRun, Goto
<1>6. CASE EnterRun
  BY <1>6 DEF EnterRun, Goto
<1>7. CASE EnterRunWin32
  BY <1>7 DEF EnterRunWin32, Goto
<1>8. CASE LoopTest
  BY <1>8 DEF LoopTest, Goto
<1>9. CASE Select
  BY <1>9 DEF Select, Readable, Goto
<1>10. CASE ReadPipe
  BY <1>10 DEF ReadPipe, Goto
<1>11. CASE BreakTest
  <2>1. CASE pc' = "receive"
    <3>1. \A k \in 1..Len(sockets) : sockets[k] \in Sockets
      OBVIOUS
    <3> QED
      BY <1>11, <2>1, <3>1 DEF BreakTest
  <2>2. CASE pc' = "leave"
    BY <1>11, <2>2 DEF BreakTest
  <2> QED
    BY <1>11, <2>1, <2>2 DEF BreakTest, Goto
<1>12. CASE Wait
  BY <1>12 DEF Wait, Goto
<1>13. CASE Receive
  <2>1. \A k \in (i + 1)..Len(sockets) : pending'[sockets[k]] = pending[sockets[k]]
    <3>1. \A k \in (i + 1)..Len(sockets) : sockets[k] # sockets[i] /\ sockets[k] \in Sockets
      BY <1>13 DEF Receive, NoDuplicates, Positions
    <3> QED
      BY <1>13, <3>1 DEF Receive, Skip, ReceiveFrom
  <2>2. pc' # "pipe" /\ pc' # "test"
    <3>1. CASE Call("packet", "receive", "clock")
      BY <3>1, CallCases
    <3>2. CASE ~Call("packet", "receive", "clock")
      BY <1>13, <3>2 DEF Receive, Skip, ReceiveFrom, Goto
    <3> QED
      BY <3>1, <3>2
  <2>3. /\ build = "posix" /\ pc = "receive" /\ i' = i + 1
        /\ sockets' = sockets /\ flagged' = flagged
    BY <1>13 DEF Receive
  <2>4. \A k \in (i + 1)..Len(sockets) : sockets[k] \in flagged => pending[sockets[k]] > 0
    BY <2>3
  <2>5. \A k \in i'..Len(sockets') : sockets'[k] \in flagged' => pending'[sockets'[k]] > 0
    BY <2>1, <2>3, <2>4
  <2> QED
    BY <2>2, <2>3, <2>5
<1>14. CASE ReceiveWin32
  BY <1>14 DEF ReceiveWin32, Builds
<1>15. CASE LookAtClock
  BY <1>15 DEF LookAtClock, ReceivesEnd, Goto
<1>16. CASE TimerExpired
  <2>1. pc' \notin {"pipe", "test", "receive"}
    <3>1. pc' \in {"throw", "sort", "expire"}
      BY <1>16, CallCases DEF TimerExpired
    <3> QED
      BY <3>1
  <2> QED
    BY <1>16, <2>1 DEF TimerExpired
<1>17. CASE Resort
  BY <1>17 DEF Resort, TimersEnd, EndOfIteration, Goto
<1>18. CASE LeaveRun
  BY <1>18 DEF LeaveRun, EndOfRun, EndOfIteration, Goto
<1>19. CASE LeaveRunWin32
  BY <1>19 DEF LeaveRunWin32, EndOfRun, EndOfIteration, Goto
<1>20. CASE Throw
  BY <1>20 DEF Throw, EndOfRun, EndOfIteration, Goto
<1>21. CASE AsynchronousBreak
  BY <1>21 DEF AsynchronousBreak
<1>22. CASE Wake
  BY <1>22 DEF Wake
<1>23. CASE Arrive
  <2>1. \A s \in Sockets : pending'[s] >= pending[s]
    BY <1>23 DEF Arrive
  <2>2. \A s \in Sockets : pending[s] \in Nat /\ pending'[s] \in Nat
    BY <1>23 DEF Arrive
  <2>3. \A s \in Sockets : pending[s] > 0 => pending'[s] > 0
    BY <2>1, <2>2
  <2> QED
    BY <1>23, <2>3 DEF Arrive
<1>24. CASE Tick
  BY <1>24 DEF Tick
<1>25. CASE SelectInterrupted
  BY <1>25 DEF SelectInterrupted, Goto
<1>26. CASE SelectFails
  BY <1>26 DEF SelectFails, Goto
<1>27. CASE WaitFails
  BY <1>27 DEF WaitFails, Goto
<1>28. CASE UNCHANGED vars
  BY <1>28 DEF vars
<1> QED
  BY <1>1, <1>2, <1>3, <1>4, <1>5, <1>6, <1>7, <1>8, <1>9, <1>10, <1>11, <1>12, <1>13, <1>14,
     <1>15, <1>16, <1>17, <1>18, <1>19, <1>20, <1>21, <1>22, <1>23, <1>24, <1>25, <1>26, <1>27,
     <1>28 DEF Next, Attach, Run, Environment, Undefined

LEMMA InOrderInit == ASSUME Init PROVE InOrder
  BY DEF Init, InOrder, Sorted, Positions

(* The queue is sorted again before the loop looks at its front. *)
LEMMA InOrderStep ==
  ASSUME TypeOK, InOrder, [Next]_vars
  PROVE  InOrder'
<1> USE DEF InOrder, TypeOK, attached, loop, posix, history
<1>1. CASE AttachSocketListener
  BY <1>1 DEF AttachSocketListener
<1>2. CASE DetachSocketListener
  BY <1>2 DEF DetachSocketListener
<1>3. CASE AttachPeriodicTimerListener
  BY <1>3 DEF AttachPeriodicTimerListener
<1>4. CASE DetachPeriodicTimerListener
  BY <1>4 DEF DetachPeriodicTimerListener
<1>5. CASE CallRun
  BY <1>5 DEF CallRun, Goto
<1>6. CASE EnterRun
  <2>1. Sorted(queue')
    BY <1>6, TimerQueueType, SortsType DEF EnterRun, Sorted
  <2> QED
    BY <1>6, <2>1 DEF EnterRun, Goto
<1>7. CASE EnterRunWin32
  <2>1. Sorted(queue')
    BY <1>7, TimerQueueType, SortsType DEF EnterRunWin32, Sorted
  <2> QED
    BY <1>7, <2>1 DEF EnterRunWin32, Goto
<1>8. CASE LoopTest
  BY <1>8 DEF LoopTest, Goto
<1>9. CASE Select
  BY <1>9 DEF Select, Goto
<1>10. CASE ReadPipe
  BY <1>10 DEF ReadPipe, Goto
<1>11. CASE BreakTest
  BY <1>11 DEF BreakTest, Goto
<1>12. CASE Wait
  <2>1. queue' = queue /\ pc' # "wait"
    BY <1>12 DEF Wait, Sorted, Goto
  <2> QED
    BY <1>12, <2>1 DEF Wait
<1>13. CASE Receive
  <2>1. queue' = queue /\ pc = "receive"
    BY <1>13 DEF Receive, Sorted
  <2>2. pc' # "wait"
    <3>1. CASE Call("packet", "receive", "clock")
      BY <3>1, CallCases
    <3>2. CASE ~Call("packet", "receive", "clock")
      BY <1>13, <3>2 DEF Receive, Skip, ReceiveFrom, Goto
    <3> QED
      BY <3>1, <3>2
  <2> QED
    BY <2>1, <2>2
<1>14. CASE ReceiveWin32
  <2>1. queue' = queue /\ pc = "receive"
    BY <1>14 DEF ReceiveWin32, Sorted
  <2>2. pc' # "wait"
    <3>1. CASE Call("packet", "receive", "clock")
      BY <3>1, CallCases
    <3>2. CASE ~Call("packet", "receive", "clock")
      BY <1>14, <3>2 DEF ReceiveWin32, ReceiveFromWin32, Goto
    <3> QED
      BY <3>1, <3>2
  <2> QED
    BY <2>1, <2>2
<1>15. CASE LookAtClock
  <2>1. queue' = queue /\ pc \in {"clock", "receive"} /\ pc' = "expire"
    BY <1>15 DEF LookAtClock, ReceivesEnd, Goto, Sorted
  <2> QED
    BY <2>1
<1>16. CASE TimerExpired
  <2>1. pc' # "wait"
    <3>1. pc' \in {"throw", "sort", "expire"}
      BY <1>16, CallCases DEF TimerExpired
    <3> QED
      BY <3>1
  <2>2. CASE pc' = "expire"
    BY <1>16, <2>2 DEF TimerExpired
  <2>3. CASE pc' # "expire"
    <3>1. queue' = queue /\ i' = i /\ pc = "expire"
      BY <1>16, <2>3 DEF TimerExpired
    <3>2. CASE pc' = "sort"
      BY <2>1, <3>1, <3>2
    <3>3. CASE pc' = "throw"
      BY <2>1, <3>1, <3>3
    <3> QED
      BY <1>16, <2>3, <3>2, <3>3, CallCases DEF TimerExpired
  <2> QED
    BY <2>2, <2>3
<1>17. CASE Resort
  <2>1. Sorted(queue')
    <3>1. CASE i > 1
      BY <1>17, <3>1, SortsType DEF Resort, Sorted
    <3>2. CASE ~(i > 1)
      BY <1>17, <3>2 DEF Resort, TimersEnd
    <3> QED
      BY <3>1, <3>2
  <2> QED
    BY <1>17, <2>1 DEF Resort, Goto
<1>18. CASE LeaveRun
  <2>1. Sorted(queue')
    BY <1>18 DEF LeaveRun, EndOfRun, Sorted, Positions
  <2> QED
    BY <1>18, <2>1 DEF LeaveRun, Goto
<1>19. CASE LeaveRunWin32
  <2>1. Sorted(queue')
    BY <1>19 DEF LeaveRunWin32, EndOfRun, Sorted, Positions
  <2> QED
    BY <1>19, <2>1 DEF LeaveRunWin32, Goto
<1>20. CASE Throw
  <2>1. Sorted(queue')
    BY <1>20 DEF Throw, EndOfRun, Sorted, Positions
  <2> QED
    BY <1>20, <2>1 DEF Throw, Goto
<1>21. CASE AsynchronousBreak
  BY <1>21 DEF AsynchronousBreak
<1>22. CASE Wake
  BY <1>22 DEF Wake
<1>23. CASE Arrive
  BY <1>23 DEF Arrive
<1>24. CASE Tick
  <2>1. Positions(queue') = Positions(queue)
    BY <1>24 DEF Tick, Positions
  <2>2. \A k \in Positions(queue) : queue'[k].due = queue[k].due - 1 /\ queue[k].due \in Int
    <3>1. \A k \in 1..Len(queue) : queue[k] \in Entry
      OBVIOUS
    <3>2. \A e \in Entry : e.due \in Int /\ Later(e).due = e.due - 1
      BY DEF Entry, Later
    <3>3. \A k \in 1..Len(queue) : queue'[k] = Later(queue[k])
      BY <1>24 DEF Tick, Positions
    <3>4. Positions(queue) = 1..Len(queue)
      BY DEF Positions
    <3> HIDE DEF TypeOK, InOrder
    <3> QED
      BY <3>1, <3>2, <3>3, <3>4
  <2>3. ASSUME Sorted(queue) PROVE Sorted(queue')
    <3>1. SUFFICES ASSUME NEW j \in Positions(queue), NEW k \in Positions(queue), j < k
                   PROVE  queue'[j].due <= queue'[k].due
      BY <2>1 DEF Sorted
    <3>2. queue[j].due <= queue[k].due
      BY <2>3, <3>1 DEF Sorted
    <3> QED
      BY <2>2, <3>2
  <2> QED
    BY <1>24, <2>3 DEF Tick
<1>25. CASE SelectInterrupted
  BY <1>25 DEF SelectInterrupted, Goto
<1>26. CASE SelectFails
  BY <1>26 DEF SelectFails, Goto
<1>27. CASE WaitFails
  BY <1>27 DEF WaitFails, Goto
<1>28. CASE UNCHANGED vars
  BY <1>28 DEF vars
<1> QED
  BY <1>1, <1>2, <1>3, <1>4, <1>5, <1>6, <1>7, <1>8, <1>9, <1>10, <1>11, <1>12, <1>13, <1>14,
     <1>15, <1>16, <1>17, <1>18, <1>19, <1>20, <1>21, <1>22, <1>23, <1>24, <1>25, <1>26, <1>27,
     <1>28 DEF Next, Attach, Run, Environment, Undefined

LEMMA EventsInit == ASSUME Init PROVE EventsSet
  BY DEF Init, EventsSet, Running

(* A wait resets one event, and its socket is read next. *)
LEMMA EventsStep ==
  ASSUME TypeOK, EventsSet, [Next]_vars
  PROVE  EventsSet'
<1> USE DEF EventsSet, TypeOK, Running, Events, Builds, Members, Positions, attached, loop,
      posix, history
<1>1. CASE AttachSocketListener
  BY <1>1 DEF AttachSocketListener
<1>2. CASE DetachSocketListener
  BY <1>2 DEF DetachSocketListener
<1>3. CASE AttachPeriodicTimerListener
  BY <1>3 DEF AttachPeriodicTimerListener
<1>4. CASE DetachPeriodicTimerListener
  BY <1>4 DEF DetachPeriodicTimerListener
<1>5. CASE CallRun
  BY <1>5 DEF CallRun, Goto
<1>6. CASE EnterRun
  BY <1>6 DEF EnterRun, Goto
<1>7. CASE EnterRunWin32
  BY <1>7 DEF EnterRunWin32, Goto
<1>8. CASE LoopTest
  BY <1>8 DEF LoopTest, AboutToRead, Goto
<1>9. CASE Select
  BY <1>9 DEF Select, Goto
<1>10. CASE ReadPipe
  BY <1>10 DEF ReadPipe, Goto
<1>11. CASE BreakTest
  BY <1>11 DEF BreakTest, Goto
<1>12. CASE Wait
  <2>1. build = "win32" /\ pc = "wait" /\ sockets' = sockets /\ pending' = pending
    BY <1>12 DEF Wait
  <2>2. CASE pc' = "leave"
    BY <2>2
  <2>3. CASE pc' = "receive" /\ i' = Len(sockets) + 1 /\ event' = event
    BY <2>1, <2>3 DEF AboutToRead
  <2>4. ASSUME pc' = "receive", NEW k \in Positions(sockets), i' = k,
               event' = [event EXCEPT ![sockets[k]] = "reset"]
        PROVE  EventsSet'
    BY <2>1, <2>4 DEF AboutToRead
  <2> QED
    BY <1>12, <2>2, <2>3, <2>4 DEF Wait, Signalled, Goto
<1>13. CASE Receive
  BY <1>13 DEF Receive, Builds
<1>14. CASE ReceiveWin32
  <2> DEFINE s == sockets[i]
  <2>1. /\ build = "win32" /\ pc = "receive" /\ s \in Members(sockets) /\ s \in Sockets
        /\ i' = i + 1 /\ sockets' = sockets /\ i <= Len(sockets)
    BY <1>14 DEF ReceiveWin32
  <2>2. /\ event'[s] # "none" /\ event'[s] # "reset"
        /\ pending'[s] > 0 => event'[s] = "set"
    BY <1>14, <2>1 DEF ReceiveWin32, ReceiveFromWin32
  <2>3. \A x \in Sockets : x # s => event'[x] = event[x] /\ pending'[x] = pending[x]
    BY <1>14 DEF ReceiveWin32, ReceiveFromWin32
  <2>4. \A x \in Members(sockets) : x # s =>
          event[x] # "none" /\ event[x] # "reset" /\ (pending[x] > 0 => event[x] = "set")
    BY <2>1 DEF AboutToRead
  <2>5. \A x \in Members(sockets) :
          event'[x] # "none" /\ event'[x] # "reset" /\ (pending'[x] > 0 => event'[x] = "set")
    <3>1. Members(sockets) \subseteq Sockets
      OBVIOUS
    <3> QED
      BY <2>2, <2>3, <2>4, <3>1
  <2> QED
    BY <2>1, <2>5
<1>15. CASE LookAtClock
  BY <1>15 DEF LookAtClock, ReceivesEnd, AboutToRead, Goto
<1>16. CASE TimerExpired
  <2>1. pc = "expire" /\ pc' \in {"throw", "sort", "expire"}
    BY <1>16, CallCases DEF TimerExpired
  <2> QED
    BY <1>16, <2>1 DEF TimerExpired, AboutToRead
<1>17. CASE Resort
  BY <1>17 DEF Resort, TimersEnd, AboutToRead, Goto
<1>18. CASE LeaveRun
  BY <1>18 DEF LeaveRun, EndOfRun, EndOfIteration, Goto
<1>19. CASE LeaveRunWin32
  BY <1>19 DEF LeaveRunWin32, EndOfRun, EndOfIteration, Goto
<1>20. CASE Throw
  BY <1>20 DEF Throw, EndOfRun, EndOfIteration, Goto
<1>21. CASE AsynchronousBreak
  BY <1>21 DEF AsynchronousBreak, AboutToRead
<1>22. CASE Wake
  BY <1>22 DEF Wake, AboutToRead
<1>23. CASE Arrive
  <2>1. PICK s \in Members(sockets) :
          /\ pending' = [pending EXCEPT ![s] = @ + 1]
          /\ event' = [event EXCEPT ![s] = IF @ = "armed" THEN "set" ELSE @]
    BY <1>23 DEF Arrive
  <2>2. AboutToRead(s)' = AboutToRead(s)
    BY <1>23 DEF Arrive, AboutToRead
  <2> QED
    BY <1>23, <2>1, <2>2 DEF Arrive, AboutToRead
<1>24. CASE Tick
  BY <1>24 DEF Tick, AboutToRead
<1>25. CASE SelectInterrupted
  BY <1>25 DEF SelectInterrupted, Goto
<1>26. CASE SelectFails
  BY <1>26 DEF SelectFails, Goto
<1>27. CASE WaitFails
  BY <1>27 DEF WaitFails, Goto
<1>28. CASE UNCHANGED vars
  BY <1>28 DEF vars, AboutToRead
<1> QED
  BY <1>1, <1>2, <1>3, <1>4, <1>5, <1>6, <1>7, <1>8, <1>9, <1>10, <1>11, <1>12, <1>13, <1>14,
     <1>15, <1>16, <1>17, <1>18, <1>19, <1>20, <1>21, <1>22, <1>23, <1>24, <1>25, <1>26, <1>27,
     <1>28 DEF Next, Attach, Run, Environment, Undefined

-----------------------------------------------------------------------------
Inv == TypeOK /\ WakeRoom /\ Blocking /\ InOrder /\ EventsSet /\ Prompt

LEMMA Invariance == Spec => []Inv
<1>1. Init => Inv
  BY TypeInit, BlockingInit, InOrderInit, EventsInit, PromptInit DEF Inv
<1>2. Inv /\ [Next]_vars => Inv'
  BY TypeStep, BlockingStep, InOrderStep, EventsStep, PromptStep DEF Inv
<1> QED
  BY <1>1, <1>2, PTL DEF Spec

(* The variables of the receive loop keep their types. *)
THEOREM TypeCorrect == Spec => []TypeOK
<1>1. Inv => TypeOK
  BY DEF Inv
<1> QED
  BY <1>1, Invariance, PTL

(* No read() or recvfrom() of the posix loop blocks, whatever select(), an *)
(* interrupting signal and the network do.                                 *)
THEOREM NeverBlocks == Spec => []ReadsNeverBlock
<1>1. Inv => ReadsNeverBlock
  BY DEF Inv, Blocking, ReadsNeverBlock
<1> QED
  BY <1>1, Invariance, PTL

(* A wait can be ended by every datagram, the earliest timer and a break.  *)
THEOREM MissesNothing == Spec => []WaitMissesNothing
<1>1. ASSUME Inv, pc = "wait"
      PROVE  \A k \in Positions(queue) : queue[1].due <= queue[k].due
  <2>1. Sorted(queue)
    BY <1>1 DEF Inv, InOrder
  <2>2. \A k \in Positions(queue) : k \in Nat \ {0} /\ 1 \in Positions(queue)
                                 /\ queue[k].due \in Int
    <3>1. \A k \in 1..Len(queue) : queue[k] \in Entry
      BY <1>1 DEF Inv, TypeOK
    <3>2. \A e \in Entry : e.due \in Int
      BY DEF Entry
    <3> QED
      BY <1>1, <3>1, <3>2 DEF Inv, TypeOK, Positions
  <2> QED
    BY <2>1, <2>2 DEF Sorted
<1>2. Inv => WaitMissesNothing
  BY <1>1 DEF Inv, InOrder, EventsSet, AboutToRead, WaitMissesNothing, Readable, Running
<1> QED
  BY <1>2, Invariance, PTL

(* Few listeners are called after Run() has been asked to end.             *)
THEOREM EndsPromptly == Spec => []BreakIsPrompt
<1>1. Inv => BreakIsPrompt
  BY DEF Inv, TypeOK, Askers, Prompt, BreakIsPrompt
<1> QED
  BY <1>1, Invariance, PTL

(* Run() ends only after a request made since it began.                    *)
THEOREM ReturnsWhenAsked == Spec => []ReturnsOnlyWhenAsked
<1>1. Inv => ReturnsOnlyWhenAsked
  BY DEF Inv, Prompt, ReturnsOnlyWhenAsked
<1> QED
  BY <1>1, Invariance, PTL
=============================================================================
