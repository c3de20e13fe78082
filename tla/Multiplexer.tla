----------------------------- MODULE Multiplexer -----------------------------
(***************************************************************************)
(* SocketReceiveMultiplexer, the receive loop, in its two builds:          *)
(* oscpack/ip/posix/UdpSocket.cpp (select() and a pipe) and                *)
(* oscpack/ip/win32/UdpSocket.cpp (WaitForMultipleObjects and events).     *)
(* The actors are the thread inside Run(), another thread or a signal      *)
(* handler inside AsynchronousBreak(), the network and the clock.  A label *)
(* of pc names the code Run() executes next.                               *)
(*                                                                         *)
(* Times are relative: the due field of a timer is its expiry time minus   *)
(* the current time, in ticks, and Tick lowers them all.  A listener is    *)
(* called in one step, in which it returns, calls Break() and returns, or  *)
(* throws.                                                                 *)
(***************************************************************************)
EXTENDS Integers, Sequences

CONSTANTS Sockets,      \* the sockets that can be attached
          Timers,       \* the timer listeners that can be attached
          Delay,        \* the initial delay of each timer, in ticks
          Period,       \* the period of each timer, in ticks
          MaxPending,   \* bound: datagrams the system keeps per socket
          MaxWakes,     \* bound: unread bytes in the break pipe
          MaxListeners, \* bound: sockets and timers that are attached at a time
          MaxLate       \* bound: ticks a timer may be overdue

ASSUME DelayAssumption == Delay \in [Timers -> Nat]
ASSUME PeriodAssumption == Period \in [Timers -> Nat]
ASSUME BoundsAssumption == MaxPending \in Nat /\ MaxWakes \in Nat \ {0} /\ MaxLate \in Nat /\ MaxListeners \in Nat

VARIABLES
  build,      \* which of the two files is compiled
  sockets,    \* socketListeners_: the attached sockets, in order
  timers,     \* timerListeners_
  pc,         \* the label of the thread that calls Run()
  break_,     \* break_
  queue,      \* timerQueue_, with relative expiry times
  i,          \* the position of a loop over sockets or over timers
  expired,    \* how many timers the last look at the clock found due
  flagged,    \* posix: the sockets select() found readable
  piped,      \* posix: select() found the break pipe readable
  wake,       \* posix: bytes in the break pipe; win32: breakEvent_ (0 or 1)
  event,      \* win32: the event of each socket
  pending,    \* datagrams in the system's queue of each socket
  waking,     \* another thread is inside AsynchronousBreak()
  asker,      \* history: who asked this Run() to end
  late        \* history: listeners called since then

attached == <<build, sockets, timers>>
loop     == <<pc, i, expired>>
posix    == <<flagged, piped>>
history  == <<asker, late>>
vars == <<attached, loop, posix, history, break_, queue, wake, event,
          pending, waking>>

Builds  == {"posix", "win32"}
Running == {"loop", "wait", "pipe", "test", "receive", "clock", "expire", "sort"}
Labels  == Running \cup {"out", "enter", "leave", "throw", "fault"}
Events  == {"none", "armed", "set", "reset"}
Askers  == {"nobody", "packet", "timer", "thread"}

Entry   == [timer : Timers, due : Int]

Positions(s) == DOMAIN s
Members(s)   == {s[k] : k \in Positions(s)}
Erase(s, k)  == [j \in 1..(Len(s) - 1) |-> IF j < k THEN s[j] ELSE s[j + 1]]

(***************************************************************************)
(* std::sort by expiry time: equal times may come out in any order.        *)
(***************************************************************************)
MutantSortsNot(q) == {q}

Sorts(q) ==
  {p \in [Positions(q) -> Members(q)] :
     /\ Members(p) = Members(q)
     /\ \A j, k \in Positions(q) : j < k => p[j].due <= p[k].due}

Goto(label) == pc' = label

-----------------------------------------------------------------------------
(***************************************************************************)
(* "Only call the attach/detach methods before calling Run"; "each socket  *)
(* at most once".                                                          *)
(***************************************************************************)
AttachSocketListener ==
  \E s \in Sockets \ Members(sockets) :
    /\ pc = "out"
    /\ Len(sockets) + Len(timers) < MaxListeners
    /\ sockets' = Append(sockets, s)
    /\ UNCHANGED <<build, timers, loop, posix, history, break_, queue, wake, event,
                   pending, waking>>

DetachSocketListener ==
  \E k \in Positions(sockets) :
    /\ pc = "out"
    /\ sockets' = Erase(sockets, k)
    /\ UNCHANGED <<build, timers, loop, posix, history, break_, queue, wake, event,
                   pending, waking>>

AttachPeriodicTimerListener ==
  \E t \in Timers \ Members(timers) :
    /\ pc = "out"
    /\ Len(sockets) + Len(timers) < MaxListeners
    /\ timers' = Append(timers, t)
    /\ UNCHANGED <<build, sockets, loop, posix, history, break_, queue, wake, event,
                   pending, waking>>

DetachPeriodicTimerListener ==
  \E k \in Positions(timers) :
    /\ pc = "out"
    /\ timers' = Erase(timers, k)
    /\ UNCHANGED <<build, sockets, loop, posix, history, break_, queue, wake, event,
                   pending, waking>>

-----------------------------------------------------------------------------
CallRun ==
  /\ pc = "out"
  /\ Goto("enter")
  /\ UNCHANGED <<attached, i, expired, posix, history, break_, queue, wake,
                 event, pending, waking>>

TimerQueue == [k \in Positions(timers) |-> [timer |-> timers[k], due |-> Delay[timers[k]]]]

\* Up to the loop.  A break asked for before is forgotten.
EnterRun ==
  /\ build = "posix"
  /\ pc = "enter"
  /\ break_' = FALSE
  /\ queue' \in Sorts(TimerQueue)
  /\ asker' = "nobody"
  /\ late' = 0
  /\ Goto("loop")
  /\ UNCHANGED <<attached, i, expired, posix, wake, event, pending, waking>>

\* WSAEventSelect sets the event at once if there is something to read.
EnterRunWin32 ==
  /\ build = "win32"
  /\ pc = "enter"
  /\ break_' = FALSE
  /\ event' = [s \in Sockets |-> IF s \notin Members(sockets) THEN event[s]
                                 ELSE IF pending[s] > 0 THEN "set" ELSE "armed"]
  /\ queue' \in Sorts(TimerQueue)
  /\ asker' = "nobody"
  /\ late' = 0
  /\ Goto("loop")
  /\ UNCHANGED <<attached, i, expired, posix, wake, pending, waking>>

LoopTest ==
  /\ pc = "loop"
  /\ IF break_ THEN Goto("leave") ELSE Goto("wait")
  /\ UNCHANGED <<attached, i, expired, posix, history, break_, queue, wake, event,
                 pending, waking>>

TimeoutIsOver == queue # <<>> /\ queue[1].due <= 0

-----------------------------------------------------------------------------
(***************************************************************************)
(* posix: select() returns with what is readable, or at the timeout with   *)
(* nothing; or it fails, interrupted by a signal or otherwise, and leaves  *)
(* the descriptors as they were passed, all of them set.                   *)
(***************************************************************************)
Readable == {s \in Members(sockets) : pending[s] > 0}

Select ==
  /\ build = "posix"
  /\ pc = "wait"
  /\ Readable # {} \/ wake > 0 \/ TimeoutIsOver
  /\ flagged' = Readable
  /\ piped' = (wake > 0)
  /\ Goto("pipe")
  /\ UNCHANGED <<attached, i, expired, history, break_, queue, wake, event, pending, waking>>

MutantInterruptedGoesOn ==
  /\ build = "posix"
  /\ pc = "wait"
  /\ flagged' = Members(sockets)
  /\ piped' = TRUE
  /\ Goto("pipe")
  /\ UNCHANGED <<attached, i, expired, history, break_, queue, wake, event, pending, waking>>

SelectInterrupted ==
  /\ build = "posix"
  /\ pc = "wait"
  /\ IF break_ THEN Goto("leave") ELSE Goto("loop")
  /\ UNCHANGED <<attached, i, expired, posix, history, break_, queue, wake, event, pending, waking>>

SelectFails ==
  /\ build = "posix"
  /\ pc = "wait"
  /\ IF break_ THEN Goto("leave") ELSE Goto("throw")
  /\ UNCHANGED <<attached, i, expired, posix, history, break_, queue, wake, event, pending, waking>>

\* read() of one byte would block on an empty pipe.
ReadPipe ==
  /\ build = "posix"
  /\ pc = "pipe"
  /\ piped => wake > 0
  /\ wake' = IF piped THEN wake - 1 ELSE wake
  /\ Goto("test")
  /\ UNCHANGED <<attached, i, expired, posix, history, break_, queue, event, pending, waking>>

MutantLeaveOnByte ==   \* takes the byte for the request
  /\ build = "posix"
  /\ pc = "test"
  /\ i' = 1
  /\ IF piped THEN Goto("leave") ELSE Goto("receive")
  /\ UNCHANGED <<attached, expired, posix, history, break_, queue, wake, event, pending, waking>>

BreakTest ==
  /\ build = "posix"
  /\ pc = "test"
  /\ i' = 1
  /\ IF break_ THEN Goto("leave") ELSE Goto("receive")
  /\ UNCHANGED <<attached, expired, posix, history, break_, queue, wake, event, pending, waking>>

(***************************************************************************)
(* win32: the wait returns the first event that is set and resets it.  The *)
(* break event is the last; at the timeout no socket is read.              *)
(***************************************************************************)
Signalled == {k \in Positions(sockets) : event[sockets[k]] = "set"}

Wait ==
  /\ build = "win32"
  /\ pc = "wait"
  /\ \/ \E k \in Signalled :
          /\ \A j \in Signalled : k <= j
          /\ i' = k
          /\ event' = [event EXCEPT ![sockets[k]] = "reset"]
          /\ UNCHANGED wake
     \/ /\ Signalled = {}
        /\ wake > 0 \/ TimeoutIsOver
        /\ i' = Len(sockets) + 1
        /\ wake' = 0
        /\ UNCHANGED event
  /\ IF break_ THEN Goto("leave") ELSE Goto("receive")
  /\ UNCHANGED <<attached, expired, posix, history, break_, queue, pending, waking>>

\* WAIT_FAILED is taken for an event: the loop over the sockets begins at
\* position -1 of socketListeners_, which is undefined.
WaitFails ==
  /\ build = "win32"
  /\ pc = "wait"
  /\ IF break_ THEN Goto("leave") ELSE Goto("fault")
  /\ UNCHANGED <<attached, i, expired, posix, history, break_, queue, wake, event,
                 pending, waking>>

-----------------------------------------------------------------------------
(***************************************************************************)
(* A listener is called, which may call Break() or throw.                  *)
(***************************************************************************)
MutantCallUntested(kind, again, ended) ==   \* does not look at break_ after the call
  \E outcome \in {"returns", "breaks", "throws"} :
    /\ break_' = (break_ \/ outcome = "breaks")
    /\ late' = IF break_ THEN late + 1 ELSE late
    /\ asker' = IF ~break_ /\ outcome = "breaks" THEN kind ELSE asker
    /\ Goto(IF outcome = "throws" THEN "throw" ELSE again)

Call(kind, again, ended) ==
  \E outcome \in {"returns", "breaks", "throws"} :
    /\ break_' = (break_ \/ outcome = "breaks")
    /\ late' = IF break_ THEN late + 1 ELSE late
    /\ asker' = IF ~break_ /\ outcome = "breaks" THEN kind ELSE asker
    /\ Goto(IF outcome = "throws" THEN "throw" ELSE IF break_' THEN ended ELSE again)

ReceivesEnd == pc = "clock" \/ (pc = "receive" /\ i > Len(sockets))

Skip(s) ==
  /\ build = "posix"
  /\ s \notin flagged
  /\ Goto("receive")
  /\ UNCHANGED <<history, break_, pending>>

\* posix: recvfrom() would block without a datagram.  An empty one is ignored.
ReceiveFrom(s) ==
  /\ build = "posix"
  /\ s \in flagged
  /\ pending[s] > 0
  /\ pending' = [pending EXCEPT ![s] = @ - 1]
  /\ \/ Call("packet", "receive", "clock")
     \/ Goto("receive") /\ UNCHANGED <<break_, asker, late>>

Receive ==
  /\ build = "posix"
  /\ pc = "receive"
  /\ i <= Len(sockets)
  /\ Skip(sockets[i]) \/ ReceiveFrom(sockets[i])
  /\ i' = i + 1
  /\ UNCHANGED <<attached, expired, posix, queue, wake, event, waking>>

MutantReceivesError(s) ==   \* takes the error of an empty socket for a datagram
  /\ pending' = [pending EXCEPT ![s] = @ - 1]
  /\ UNCHANGED event
  /\ Call("packet", "receive", "clock")

\* win32: recvfrom() does not block, and sets the event again if it leaves
\* a datagram behind.
ReceiveFromWin32(s) ==
  /\ pending' = [pending EXCEPT ![s] = IF @ > 0 THEN @ - 1 ELSE 0]
  /\ event' = [event EXCEPT ![s] = IF pending'[s] > 0 THEN "set"
                                   ELSE IF @ = "reset" THEN "armed" ELSE @]
  /\ \/ pending[s] > 0 /\ Call("packet", "receive", "clock")
     \/ Goto("receive") /\ UNCHANGED <<break_, asker, late>>

MutantReceiveOnlyTheFirst ==   \* serves the socket the wait returned, and no other
  /\ build = "win32"
  /\ pc = "receive"
  /\ i <= Len(sockets)
  /\ ReceiveFromWin32(sockets[i])
  /\ i' = Len(sockets) + 1
  /\ UNCHANGED <<attached, expired, posix, queue, wake, waking>>

ReceiveWin32 ==
  /\ build = "win32"
  /\ pc = "receive"
  /\ i <= Len(sockets)
  /\ ReceiveFromWin32(sockets[i])
  /\ i' = i + 1
  /\ UNCHANGED <<attached, expired, posix, queue, wake, waking>>

-----------------------------------------------------------------------------
(***************************************************************************)
(* The expired timers, in both builds.  They run even when a packet        *)
(* listener has just called Break().                                       *)
(***************************************************************************)
LookAtClock ==
  /\ ReceivesEnd
  /\ i' = 1
  /\ \E n \in 0..Len(queue) :
       /\ \A k \in 1..n : queue[k].due <= 0
       /\ n < Len(queue) => queue[n + 1].due > 0
       /\ expired' = n
  /\ Goto("expire")
  /\ UNCHANGED <<attached, posix, history, break_, queue, wake, event, pending, waking>>

PutOff(e) == [e EXCEPT !.due = @ + Period[e.timer]]

\* A timer that has called Break() is not put off.
TimerExpired ==
  /\ pc = "expire"
  /\ i <= expired
  /\ Call("timer", "expire", "sort")
  /\ IF pc' = "expire"
       THEN i' = i + 1 /\ queue' = [queue EXCEPT ![i] = PutOff(@)]
       ELSE UNCHANGED <<i, queue>>
  /\ UNCHANGED <<attached, expired, posix, wake, event, pending, waking>>

TimersEnd == pc = "sort" \/ (pc = "expire" /\ i > expired)

\* The variables of one turn of the loop go out of scope.
EndOfIteration == i' = 1 /\ expired' = 0 /\ flagged' = {} /\ piped' = FALSE

\* Only if a timer has been put off.
Resort ==
  /\ TimersEnd
  /\ queue' \in IF i > 1 THEN Sorts(queue) ELSE {queue}
  /\ Goto("loop")
  /\ EndOfIteration
  /\ UNCHANGED <<attached, history, break_, wake, event, pending, waking>>

-----------------------------------------------------------------------------
(***************************************************************************)
(* The end of Run(): on win32 the events are closed and the sockets made   *)
(* blocking again; an exception skips that there, and the deletion of the  *)
(* receive buffer, which is not modelled.                                  *)
(***************************************************************************)
\* The timer queue is a variable of Run(); this Run's history is complete.
EndOfRun ==
  /\ queue' = <<>>
  /\ asker' = "nobody"
  /\ late' = 0
  /\ EndOfIteration

LeaveRun ==
  /\ build = "posix"
  /\ pc = "leave"
  /\ EndOfRun
  /\ Goto("out")
  /\ UNCHANGED <<attached, break_, wake, event, pending, waking>>

LeaveRunWin32 ==
  /\ build = "win32"
  /\ pc = "leave"
  /\ EndOfRun
  /\ event' = [s \in Sockets |-> IF s \in Members(sockets) THEN "none" ELSE event[s]]
  /\ Goto("out")
  /\ UNCHANGED <<attached, break_, wake, pending, waking>>

Throw ==
  /\ pc = "throw"
  /\ EndOfRun
  /\ Goto("out")
  /\ UNCHANGED <<attached, break_, wake, event, pending, waking>>

-----------------------------------------------------------------------------
(***************************************************************************)
(* AsynchronousBreak(), called by another thread or by the signal handler: *)
(* first the flag, then the byte or the event.                             *)
(***************************************************************************)
AsynchronousBreak ==
  /\ ~waking
  /\ wake < MaxWakes
  /\ break_' = TRUE
  /\ asker' = IF break_ THEN asker ELSE "thread"
  /\ waking' = TRUE
  /\ UNCHANGED <<attached, loop, posix, late, queue, wake, event, pending>>

MutantNoWake ==
  /\ waking
  /\ waking' = FALSE
  /\ UNCHANGED <<attached, loop, posix, history, break_, queue, wake, event, pending>>

Wake ==
  /\ waking
  /\ waking' = FALSE
  /\ wake' = IF build = "posix" THEN wake + 1 ELSE 1
  /\ UNCHANGED <<attached, loop, posix, history, break_, queue, event, pending>>

\* The network delivers a datagram to a socket that is or has been attached
\* (the others do not matter); a full queue drops it.
Arrive ==
  \E s \in Members(sockets) :
    /\ pending[s] < MaxPending
    /\ pending' = [pending EXCEPT ![s] = @ + 1]
    /\ event' = [event EXCEPT ![s] = IF @ = "armed" THEN "set" ELSE @]
    /\ UNCHANGED <<attached, loop, posix, history, break_, queue, wake, waking>>

Later(e) == [e EXCEPT !.due = @ - 1]

Tick ==
  /\ queue # <<>>
  /\ \A k \in Positions(queue) : queue[k].due > -MaxLate
  /\ queue' = [k \in Positions(queue) |-> Later(queue[k])]
  /\ UNCHANGED <<attached, loop, posix, history, break_, wake, event, pending,
                 waking>>

-----------------------------------------------------------------------------
Init ==
  /\ build \in Builds
  /\ sockets = <<>> /\ timers = <<>>
  /\ pc = "out"
  /\ break_ \in BOOLEAN   \* the constructor leaves it uninitialized
  /\ queue = <<>>
  /\ i = 1 /\ expired = 0
  /\ flagged = {} /\ piped = FALSE
  /\ wake = 0
  /\ event = [s \in Sockets |-> "none"]
  /\ pending = [s \in Sockets |-> 0]
  /\ waking = FALSE
  /\ asker = "nobody" /\ late = 0

Attach == AttachSocketListener \/ DetachSocketListener
            \/ AttachPeriodicTimerListener \/ DetachPeriodicTimerListener

\* What the thread inside Run() does, when it does not wait for an error.
Run ==
  \/ EnterRun \/ EnterRunWin32 \/ LoopTest
  \/ Select \/ ReadPipe \/ BreakTest \/ Wait
  \/ Receive \/ ReceiveWin32
  \/ LookAtClock \/ TimerExpired \/ Resort
  \/ LeaveRun \/ LeaveRunWin32 \/ Throw

Environment ==
  \/ AsynchronousBreak \/ Wake \/ Arrive \/ Tick
  \/ SelectInterrupted \/ SelectFails \/ WaitFails

\* Nothing more is said of a thread that has met undefined behaviour.
Undefined == pc = "fault" /\ UNCHANGED vars

Next == Attach \/ CallRun \/ Run \/ Environment \/ Undefined

Spec == Init /\ [][Next]_vars

(***************************************************************************)
(* The thread inside Run() is scheduled and its listeners return, and a    *)
(* thread inside AsynchronousBreak() is.  Signals do not interrupt every   *)
(* select(): it returns if it can again and again.  Nothing obliges a      *)
(* datagram to arrive or anyone to ask for the end.                        *)
(***************************************************************************)
Fairness == WF_vars(Run) /\ WF_vars(Wake) /\ SF_vars(Select)

FairSpec == Spec /\ Fairness

-----------------------------------------------------------------------------
(* Every variable stays in the set of values its declaration allows. *)
TypeOK ==
  /\ build \in Builds
  /\ sockets \in Seq(Sockets) /\ timers \in Seq(Timers)
  /\ pc \in Labels
  /\ break_ \in BOOLEAN
  /\ queue \in Seq(Entry)
  /\ i \in Nat \ {0} /\ expired \in Nat
  /\ flagged \subseteq Sockets /\ piped \in BOOLEAN
  /\ wake \in 0..MaxWakes
  /\ event \in [Sockets -> Events]
  /\ pending \in [Sockets -> 0..MaxPending]
  /\ waking \in BOOLEAN
  /\ asker \in Askers /\ late \in Nat

(***************************************************************************)
(* posix: neither the read() of the break pipe nor a recvfrom() ever       *)
(* blocks the loop, as the comment on EINTR fears.                         *)
(***************************************************************************)
ReadsNeverBlock ==
  build = "posix" =>
    /\ pc = "pipe" /\ piped => wake > 0
    /\ pc = "receive" => \A k \in i..Len(sockets) :
                           sockets[k] \in flagged => pending[sockets[k]] > 0

(***************************************************************************)
(* Whenever Run() waits, the wait can return for each thing it is to       *)
(* notice: a datagram on any attached socket, the earliest of the timers,  *)
(* and a break whose byte or event has been given.                         *)
(***************************************************************************)
WaitMissesNothing ==
  pc = "wait" =>
    /\ \A k \in Positions(queue) : queue[1].due <= queue[k].due
    /\ break_ => wake > 0 \/ waking
    /\ build = "win32" => \A s \in Readable : event[s] = "set"

(***************************************************************************)
(* "Call this from a listener to exit once the listener returns": after a  *)
(* Break() in a timer listener no listener is called, after one in a       *)
(* packet listener at most one timer's, and after an AsynchronousBreak()   *)
(* at most the packet and the timer Run() was already on its way to.       *)
(***************************************************************************)
BreakIsPrompt ==
  late <= CASE asker = "packet" -> 1 [] asker = "thread" -> 2 [] OTHER -> 0

(***************************************************************************)
(* Run() returns only when a listener, a thread or the signal has asked it *)
(* to since it began: not on the byte or event left by an earlier request. *)
(***************************************************************************)
ReturnsOnlyWhenAsked == pc = "leave" => asker # "nobody"

(***************************************************************************)
(* Whoever asks while Run() loops, it ends, whatever the network does.     *)
(***************************************************************************)
BreakEndsRun == (break_ /\ pc \in Running) ~> (pc \notin Running)

Due(t) == \E k \in Positions(queue) : queue[k].timer = t /\ queue[k].due <= 0

(***************************************************************************)
(* No socket is starved by the traffic on the others: as long as Run()     *)
(* goes on and a socket has a datagram, one is received from it.  Nor are  *)
(* the timers: one that is due is called, and put off, unless Run() ends.  *)
(***************************************************************************)
NobodyStarves ==
  /\ \A s \in Sockets :
       <>[](pc \in Running /\ s \in Readable)
         => []<><<pending[s] > 0 /\ pending'[s] = pending[s] - 1>>_vars
  /\ \A t \in Timers : (pc \in Running /\ Due(t)) ~> (~Due(t) \/ pc \notin Running)
=============================================================================
