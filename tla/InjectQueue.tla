---------------------------- MODULE InjectQueue ----------------------------
(***************************************************************************)
(* What EventLoop promises to the threads that use an InjectEvent          *)
(* (event/InjectEvent.hxx: "Invoke a method call in the EventLoop.  This   *)
(* class is thread-safe."): the pending events form a queue without        *)
(* duplicates, every thread may schedule one, the loop thread may cancel   *)
(* one, and the loop invokes them one at a time, oldest first, until       *)
(* somebody breaks it.                                                     *)
(*                                                                         *)
(* The operators at the top are the list operations of event/Loop.cxx;     *)
(* EventLoop.tla uses them for the real loop, with its flags and its wake  *)
(* descriptor, and implements the specification at the bottom;             *)
(* UpdateService.tla uses them as the interface it relies on.              *)
(***************************************************************************)
EXTENDS Naturals, Sequences, SequencesExt

CONSTANT Events         \* the InjectEvent objects

----------------------------------------------------------------------------
\* InjectEvent::IsPending(): the event is linked into the list.
IsPending(q, e) == \E i \in DOMAIN q : q[i] = e

\* EventLoop::AddInject(): a pending event is not added twice.
AddInject(q, e) == IF IsPending(q, e) THEN q ELSE Append(q, e)

\* EventLoop::RemoveInject(): unlink the event if it is pending.
RemoveInject(q, e) ==
  IF IsPending(q, e) THEN RemoveAt(q, CHOOSE i \in DOMAIN q : q[i] = e) ELSE q

NoDuplicates(q) == \A i, j \in DOMAIN q : q[i] = q[j] => i = j

----------------------------------------------------------------------------
VARIABLES
  inject,               \* Seq(Events): the events waiting to be invoked
  quit                  \* the loop has been broken

vars == <<inject, quit>>

Init == inject = << >> /\ quit = FALSE

Schedule(e) == inject' = AddInject(inject, e) /\ UNCHANGED quit

Cancel(e) == inject' = RemoveInject(inject, e) /\ UNCHANGED quit

\* The loop takes the oldest event out of the list and calls it.
Invoke == /\ ~quit
          /\ inject # << >>
          /\ inject' = Tail(inject)
          /\ UNCHANGED quit

Break == quit' = TRUE /\ UNCHANGED inject

Next == \/ \E e \in Events : Schedule(e) \/ Cancel(e)
        \/ Invoke
        \/ Break

(***************************************************************************)
(* A loop that is not broken never leaves an event in the list: this is    *)
(* the promise a lost wakeup would break.                                  *)
(***************************************************************************)
Spec == Init /\ [][Next]_vars /\ WF_vars(Invoke)
============================================================================
