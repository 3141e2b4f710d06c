----------------------------- MODULE EventLoop -----------------------------
(***************************************************************************)
(* EventLoop::Run() (event/Loop.cxx) and the part of it other threads      *)
(* reach: AddInject(), RemoveInject(), InjectBreak() and the wake file     *)
(* descriptor.                                                             *)
(*                                                                         *)
(* Each critical section of EventLoop::mutex is one step.  The callbacks   *)
(* the loop thread runs outside the mutex (timers, "defer" and "idle"      *)
(* events, other sockets) appear through what they may do to this state:   *)
(* schedule or cancel an InjectEvent, add a timer, break the loop.  Wait() *)
(* returns when the wake descriptor is readable; it may also return for a  *)
(* timeout or another socket, which nothing guarantees.                    *)
(***************************************************************************)
EXTENDS Naturals, Sequences, SequencesExt

CONSTANTS
  Events,               \* the InjectEvent objects of this loop
  Threads               \* the other threads that schedule them

VARIABLES
  inject,               \* Seq(Events), protected by the mutex
  quit,                 \* set by Break(), in the loop thread
  quit_injected,        \* set by InjectBreak(), in any thread
  busy,                 \* FALSE while the loop waits, protected by the mutex
  again,                \* re-evaluate the timers before waiting
  wake,                 \* wake_fd is readable
  pc,                   \* where the loop thread is
  tpc                   \* per thread: between the mutex and wake_fd.Write()

vars == <<inject, quit, quit_injected, busy, again, wake, pc, tpc>>

IQ == INSTANCE InjectQueue

\* Every variable has its type, and no event is in the list twice, which would
\* corrupt the intrusive list (InjectEvent is linked into it).
TypeOK ==
  /\ inject \in Seq(Events)
  /\ IQ!NoDuplicates(inject)
  /\ quit \in BOOLEAN /\ quit_injected \in BOOLEAN
  /\ busy \in BOOLEAN /\ again \in BOOLEAN /\ wake \in BOOLEAN
  /\ pc \in {"top", "callbacks", "inject", "call", "wait", "ready", "woken",
             "wokencall", "sockets", "done"}
  /\ tpc \in [Threads -> {"idle", "write"}]

\* The main loop counts as alive from its construction on: busy starts TRUE.
Init ==
  /\ inject = << >>
  /\ quit = FALSE /\ quit_injected = FALSE
  /\ busy = TRUE /\ again = FALSE /\ wake = FALSE
  /\ pc = "top"
  /\ tpc = [t \in Threads |-> "idle"]

----------------------------------------------------------------------------
(***************************************************************************)
(* Other threads.                                                          *)
(***************************************************************************)

\* EventLoop::AddInject(), the critical section.  The event loop is woken
\* only if it waits and no earlier event has already woken it.
AddInject(t, e) ==
  /\ tpc[t] = "idle"
  /\ ~IQ!IsPending(inject, e)
  /\ inject' = IQ!AddInject(inject, e)
  /\ again' = TRUE
  /\ LET must_wake == ~busy /\ inject = << >>
     IN tpc' = [tpc EXCEPT ![t] = IF must_wake THEN "write" ELSE "idle"]
  /\ UNCHANGED <<quit, quit_injected, busy, wake, pc>>

\* Faulty variant: wake the loop only when AddInject() would.
InjectBreakLazily(t) ==
  /\ tpc[t] = "idle"
  /\ quit_injected' = TRUE
  /\ LET must_wake == ~busy /\ inject = << >>
     IN tpc' = [tpc EXCEPT ![t] = IF must_wake THEN "write" ELSE "idle"]
  /\ UNCHANGED <<inject, quit, busy, again, wake, pc>>

\* EventLoop::InjectBreak(), the critical section.
InjectBreak(t) ==
  /\ tpc[t] = "idle"
  /\ quit_injected' = TRUE
  /\ tpc' = [tpc EXCEPT ![t] = "write"]
  /\ UNCHANGED <<inject, quit, busy, again, wake, pc>>

\* wake_fd.Write(), after the mutex was released.
WakeWrite(t) ==
  /\ tpc[t] = "write"
  /\ wake' = TRUE
  /\ tpc' = [tpc EXCEPT ![t] = "idle"]
  /\ UNCHANGED <<inject, quit, quit_injected, busy, again, pc>>

----------------------------------------------------------------------------
(***************************************************************************)
(* The loop thread.                                                        *)
(***************************************************************************)

\* What a callback in the loop thread may do: nothing, schedule an event
\* (busy is set, so there is no wakeup), cancel one, add a timer...
Callback ==
  \/ UNCHANGED <<inject, again>>
  \/ \E e \in Events : inject' = IQ!AddInject(inject, e) /\ again' = TRUE
  \/ \E e \in Events : inject' = IQ!RemoveInject(inject, e) /\ UNCHANGED again
  \/ again' = TRUE /\ UNCHANGED inject

\* ...and, in a timer or a socket callback, Break().  No InjectEvent of the
\* program breaks its loop.
BreakingCallback ==
  \/ Callback /\ UNCHANGED quit
  \/ quit' = TRUE /\ UNCHANGED <<inject, again>>

\* The top of the loop: "again" is reset, without the mutex.
LoopTop ==
  /\ pc = "top"
  /\ ~quit
  /\ again' = FALSE
  /\ pc' = "callbacks"
  /\ UNCHANGED <<inject, quit, quit_injected, busy, wake, tpc>>

\* One callback of HandleTimers() or RunDeferred().
RunCallback ==
  /\ pc = "callbacks"
  /\ ~quit
  /\ BreakingCallback
  /\ UNCHANGED <<quit_injected, busy, wake, pc, tpc>>

\* RunOneIdle() has invoked an "idle" event: start over, with "again" reset.
RunIdle ==
  /\ pc = "callbacks"
  /\ ~quit
  /\ BreakingCallback
  /\ pc' = "top"
  /\ UNCHANGED <<quit_injected, busy, wake, tpc>>

CallbacksDone ==
  /\ pc = "callbacks"
  /\ pc' = IF quit THEN "top" ELSE "inject"
  /\ UNCHANGED <<inject, quit, quit_injected, busy, again, wake, tpc>>

\* Faulty variant: the newest event first.
HandleInjectLast(from, to) ==
  /\ pc = from
  /\ ~quit
  /\ inject # << >>
  /\ inject' = SubSeq(inject, 1, Len(inject) - 1)
  /\ pc' = to
  /\ UNCHANGED <<quit, quit_injected, busy, again, wake, tpc>>

\* HandleInject(): take the oldest event out of the list and drop the mutex
\* to call it.  Run() and OnWake() both come here.
HandleInject(from, to) ==
  /\ pc = from
  /\ ~quit
  /\ inject # << >>
  /\ inject' = Tail(inject)
  /\ pc' = to
  /\ UNCHANGED <<quit, quit_injected, busy, again, wake, tpc>>

\* InjectEvent::Run(): the callback, then back into HandleInject().
RunInject(from, to) ==
  /\ pc = from
  /\ Callback
  /\ pc' = to
  /\ UNCHANGED <<quit, quit_injected, busy, wake, tpc>>

\* Faulty variant: wait without looking at what came in meanwhile.
GoIdleEarly ==
  /\ pc = "inject"
  /\ pc' = "wait"
  /\ busy' = FALSE
  /\ UNCHANGED <<inject, quit, quit_injected, again, wake, tpc>>

\* HandleInject() is done and the mutex still held: go round again if
\* anything asked for it, else announce that we wait.
GoIdle ==
  /\ pc = "inject"
  /\ inject = << >> \/ quit
  /\ IF again THEN pc' = "top" /\ UNCHANGED busy
              ELSE pc' = "wait" /\ busy' = FALSE
  /\ UNCHANGED <<inject, quit, quit_injected, again, wake, tpc>>

\* Wait() returns and the mutex is taken to set "busy"; "ready" is where the
\* wake descriptor is one of the ready sockets.
WaitReturn(to) ==
  /\ pc = "wait"
  /\ busy' = TRUE
  /\ pc' = to
  /\ UNCHANGED <<inject, quit, quit_injected, again, wake, tpc>>

WaitWoken == wake /\ WaitReturn("ready")

\* A timeout, or only other sockets.
WaitOther == ~wake /\ WaitReturn("sockets")

\* Another ready socket is dispatched, before or after the wake descriptor.
DispatchOther ==
  /\ pc \in {"ready", "sockets"}
  /\ ~quit
  /\ BreakingCallback
  /\ UNCHANGED <<quit_injected, busy, wake, pc, tpc>>

\* OnSocketReady() and the head of OnWake(): drain the descriptor; an
\* injected break ends the loop.
OnWake ==
  /\ pc = "ready"
  /\ ~quit
  /\ wake' = FALSE
  /\ quit' = quit_injected
  /\ pc' = IF quit_injected THEN "sockets" ELSE "woken"
  /\ UNCHANGED <<inject, quit_injected, busy, again, tpc>>

OnWakeDone ==
  /\ pc = "woken"
  /\ inject = << >> \/ quit
  /\ pc' = "sockets"
  /\ UNCHANGED <<inject, quit, quit_injected, busy, again, wake, tpc>>

SocketsDone ==
  /\ \/ pc = "sockets"
     \/ pc = "ready" /\ quit
  /\ pc' = "top"
  /\ UNCHANGED <<inject, quit, quit_injected, busy, again, wake, tpc>>

RunReturns ==
  /\ pc = "top"
  /\ quit
  /\ pc' = "done"
  /\ UNCHANGED <<inject, quit, quit_injected, busy, again, wake, tpc>>

----------------------------------------------------------------------------
LoopStep ==
  \/ LoopTop
  \/ CallbacksDone
  \/ HandleInject("inject", "call")
  \/ RunInject("call", "inject")
  \/ GoIdle
  \/ WaitWoken
  \/ OnWake
  \/ HandleInject("woken", "wokencall")
  \/ RunInject("wokencall", "woken")
  \/ OnWakeDone
  \/ SocketsDone
  \/ RunReturns

Next ==
  \/ \E t \in Threads :
       (\E e \in Events : AddInject(t, e)) \/ InjectBreak(t) \/ WakeWrite(t)
  \/ LoopStep
  \/ RunCallback
  \/ RunIdle
  \/ WaitOther
  \/ DispatchOther

(***************************************************************************)
(* Fairness: a thread that runs keeps running (the loop thread while it    *)
(* has something to do, a scheduling thread between the mutex and its      *)
(* write).  WaitOther carries none: no timer or socket has to rescue the   *)
(* loop.  Nothing forces a callback to do anything either, but the "idle"  *)
(* events run out: each is invoked once, and none of the program schedules *)
(* itself again for ever (hence SF: each of them restarts the loop).       *)
(***************************************************************************)
Spec ==
  /\ Init /\ [][Next]_vars
  /\ WF_vars(LoopStep) /\ SF_vars(CallbacksDone)
  /\ \A t \in Threads : WF_vars(WakeWrite(t))

----------------------------------------------------------------------------
(***************************************************************************)
(* Properties.                                                             *)
(***************************************************************************)

(***************************************************************************)
(* No lost wakeup: a loop that sleeps with an event in its list has its    *)
(* wake descriptor readable, or a thread is about to make it so.  This is  *)
(* why AddInject() may skip the write when "busy" is set or the list is    *)
(* not empty.                                                              *)
(***************************************************************************)
NoLostWakeup ==
  pc = "wait" /\ inject # << >> => wake \/ \E t \in Threads : tpc[t] = "write"

\* An injected break is never slept through, however the write of its
\* descriptor interleaves with the events' writes: a loop that goes on
\* reaching Wait() (its callbacks do not keep it busy for ever) is broken.
InjectedBreakStops == []<>(pc = "wait") => (quit_injected ~> quit)

\* The loop, with its flags and its descriptor, is the abstract queue: FIFO,
\* no duplicates, and no event is left behind while the loop is not broken.
ImplementsInjectQueue == IQ!Spec

============================================================================
