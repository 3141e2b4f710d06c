--------------------------- MODULE EventLoopProofs --------------------------
(***************************************************************************)
(* TLAPS proofs about EventLoop.tla, for every set of events and threads:  *)
(* no wakeup is lost, and every step of the loop is a step of the abstract *)
(* InjectQueue.                                                            *)
(***************************************************************************)
EXTENDS EventLoop, ListLemmas, TLAPS

----------------------------------------------------------------------------
(***************************************************************************)
(* The inductive invariant.                                                *)
(***************************************************************************)

\* "busy" tells other threads the truth: only a loop in Wait() may be woken.
BusyInv == busy <=> pc # "wait"

\* A loop that looks at its list, or waits, has not been broken: otherwise it
\* could go to sleep with events in the list.
QuitInv == pc \in {"inject", "call", "wait", "woken", "wokencall"} => ~quit

Inv == TypeOK /\ BusyInv /\ QuitInv /\ NoLostWakeup

----------------------------------------------------------------------------
(***************************************************************************)
(* Lemmas about the list operations.                                       *)
(***************************************************************************)

List(q) == q \in Seq(Events) /\ IQ!NoDuplicates(q)

\* AddInject() keeps the list free of duplicates.
LEMMA AddInjectList ==
  ASSUME NEW q, List(q), NEW e \in Events
  PROVE  List(IQ!AddInject(q, e))
<1>1. CASE IQ!IsPending(q, e)
  BY <1>1 DEF IQ!AddInject
<1>2. CASE ~IQ!IsPending(q, e)
  <2>. DEFINE r == Append(q, e)
  <2>1. q \in Seq(Events)
    BY DEF List
  <2>2. /\ r \in Seq(Events) /\ Len(r) = Len(q) + 1 /\ Len(q) \in Nat
        /\ \A i \in 1..Len(q) : r[i] = q[i]
        /\ r[Len(q) + 1] = e
        /\ DOMAIN q = 1..Len(q) /\ DOMAIN r = 1..(Len(q) + 1)
    BY <2>1, AppendFacts, LenProperties
  <2>. HIDE DEF r
  <2>3. \A i \in 1..Len(q) : q[i] # e
    BY <1>2, <2>2 DEF IQ!IsPending
  <2>4. IQ!NoDuplicates(r)
    BY <2>2, <2>3 DEF IQ!NoDuplicates, List
  <2>. QED
    BY <1>2, <2>2, <2>4 DEF IQ!AddInject, List, r
<1>. QED
  BY <1>1, <1>2

\* RemoveInject() keeps the list free of duplicates.
LEMMA RemoveInjectList ==
  ASSUME NEW q, List(q), NEW e \in Events
  PROVE  List(IQ!RemoveInject(q, e))
<1>1. CASE ~IQ!IsPending(q, e)
  BY <1>1 DEF IQ!RemoveInject
<1>2. CASE IQ!IsPending(q, e)
  <2>. DEFINE i == CHOOSE k \in DOMAIN q : q[k] = e
              r == RemoveAt(q, i)
  <2>1. q \in Seq(Events) /\ i \in DOMAIN q
    BY <1>2 DEF List, IQ!IsPending
  <2>. HIDE DEF i
  <2>2. /\ r \in Seq(Events) /\ Len(r) = Len(q) - 1
        /\ \A j \in DOMAIN r : r[j] = IF j < i THEN q[j] ELSE q[j + 1]
    BY <2>1, EraseFacts
  <2>. HIDE DEF r
  <2>3. /\ Len(q) \in Nat /\ DOMAIN q = 1..Len(q) /\ DOMAIN r = 1..(Len(q) - 1)
    BY <2>1, <2>2, LenProperties
  <2>4. ASSUME NEW j \in DOMAIN r, NEW k \in DOMAIN r, r[j] = r[k]
        PROVE  j = k
    <3>. DEFINE from(n) == IF n < i THEN n ELSE n + 1
    <3>1. from(j) \in DOMAIN q /\ from(k) \in DOMAIN q
      BY <2>1, <2>3
    <3>2. q[from(j)] = q[from(k)]
      BY <2>2, <2>4
    <3>3. from(j) = from(k)
      BY <3>1, <3>2 DEF IQ!NoDuplicates, List
    <3>. QED
      BY <2>1, <2>3, <3>3
  <2>5. List(r)
    BY <2>2, <2>4 DEF IQ!NoDuplicates, List
  <2>6. IQ!RemoveInject(q, e) = r
    BY <1>2, Zenon DEF IQ!RemoveInject, IQ!RemoveAt, RemoveAt, r, i
  <2>. QED
    BY <2>5, <2>6
<1>. QED
  BY <1>1, <1>2

\* Taking out the oldest event keeps the list free of duplicates.
LEMMA TailList ==
  ASSUME NEW q, List(q), q # << >>
  PROVE  List(Tail(q))
<1>1. q \in Seq(Events)
  BY DEF List
<1>2. /\ Tail(q) \in Seq(Events) /\ Len(Tail(q)) = Len(q) - 1 /\ Len(q) \in Nat
      /\ DOMAIN Tail(q) = 1..(Len(q) - 1) /\ DOMAIN q = 1..Len(q)
      /\ \A j \in 1..(Len(q) - 1) : Tail(q)[j] = q[j + 1]
  BY <1>1, TailFacts, LenProperties
<1>3. IQ!NoDuplicates(Tail(q))
  BY <1>2 DEF IQ!NoDuplicates, List
<1>. QED
  BY <1>2, <1>3 DEF List

\* What a callback may do to the list.
LEMMA CallbackList ==
  ASSUME List(inject), again \in BOOLEAN, Callback
  PROVE  List(inject') /\ again' \in BOOLEAN
  BY AddInjectList, RemoveInjectList DEF Callback

----------------------------------------------------------------------------
(***************************************************************************)
(* The invariant.                                                          *)
(***************************************************************************)

\* A step that leaves the loop awake cannot lose a wakeup.
LEMMA AwakeInv ==
  ASSUME TypeOK', BusyInv', QuitInv', pc' # "wait"
  PROVE  Inv'
  BY DEF Inv, NoLostWakeup

\* A thread schedules an event: it wakes the loop unless somebody has already.
LEMMA AddInjectInv ==
  ASSUME Inv, NEW t \in Threads, NEW e \in Events, AddInject(t, e)
  PROVE  Inv'
<1>. USE DEF Inv, AddInject
<1>1. List(inject')
  BY AddInjectList DEF TypeOK, List
<1>2. TypeOK'
  BY <1>1 DEF TypeOK, List
<1>3. BusyInv' /\ QuitInv'
  BY DEF BusyInv, QuitInv
<1>4. NoLostWakeup'
  <2>. SUFFICES ASSUME pc = "wait" PROVE wake \/ \E u \in Threads : tpc'[u] = "write"
    BY DEF NoLostWakeup
  <2>1. CASE inject = << >>
    BY <2>1 DEF BusyInv, TypeOK
  <2>2. CASE inject # << >>
    <3>1. CASE wake
      BY <3>1
    <3>2. CASE ~wake
      <4>1. PICK u \in Threads : tpc[u] = "write"
        BY <2>2, <3>2 DEF NoLostWakeup
      <4>2. tpc'[u] = "write"
        BY <4>1 DEF TypeOK
      <4>. QED
        BY <4>2
    <3>. QED
      BY <3>1, <3>2
  <2>. QED
    BY <2>1, <2>2
<1>. QED
  BY <1>2, <1>3, <1>4

\* A thread injects a break.
LEMMA InjectBreakInv ==
  ASSUME Inv, NEW t \in Threads, InjectBreak(t)
  PROVE  Inv'
<1>. USE DEF Inv, InjectBreak
<1>1. TypeOK'
  BY DEF TypeOK
<1>2. BusyInv' /\ QuitInv'
  BY DEF BusyInv, QuitInv
<1>3. NoLostWakeup'
  BY DEF NoLostWakeup, TypeOK
<1>. QED
  BY <1>1, <1>2, <1>3

\* The write that was announced under the mutex.
LEMMA WakeWriteInv ==
  ASSUME Inv, NEW t \in Threads, WakeWrite(t)
  PROVE  Inv'
<1>. USE DEF Inv, WakeWrite
<1>1. TypeOK'
  BY DEF TypeOK
<1>2. BusyInv' /\ QuitInv' /\ NoLostWakeup'
  BY DEF BusyInv, QuitInv, NoLostWakeup
<1>. QED
  BY <1>1, <1>2

\* The steps of the loop thread that run a callback.
LEMMA CallbackInv ==
  ASSUME Inv,
         \/ RunCallback \/ RunIdle \/ DispatchOther
         \/ RunInject("call", "inject") \/ RunInject("wokencall", "woken")
  PROVE  Inv'
<1>. USE DEF Inv
<1>1. List(inject') /\ again' \in BOOLEAN
  BY CallbackList DEF TypeOK, List, RunCallback, RunIdle, DispatchOther, RunInject, BreakingCallback
<1>2. /\ quit' \in BOOLEAN
      /\ pc' \in {"top", "callbacks", "inject", "woken", "ready", "sockets"}
      /\ pc # "wait" /\ UNCHANGED <<quit_injected, busy, wake, tpc>>
      /\ pc' \in {"inject", "woken"} => ~quit'
  <2>1. CASE RunCallback \/ RunIdle \/ DispatchOther
    <3>1. quit' \in BOOLEAN
      BY <2>1 DEF TypeOK, RunCallback, RunIdle, DispatchOther, BreakingCallback
    <3>2. /\ pc' \in {"top", "callbacks", "ready", "sockets"}
          /\ pc # "wait" /\ UNCHANGED <<quit_injected, busy, wake, tpc>>
      BY <2>1 DEF RunCallback, RunIdle, DispatchOther
    <3>. QED
      BY <3>1, <3>2
  <2>2. CASE RunInject("call", "inject") \/ RunInject("wokencall", "woken")
    BY <2>2 DEF TypeOK, QuitInv, RunInject
  <2>. QED
    BY <2>1, <2>2
<1>3. TypeOK'
  BY <1>1, <1>2 DEF TypeOK, List
<1>4. BusyInv' /\ QuitInv' /\ pc' # "wait"
  BY <1>2 DEF BusyInv, QuitInv
<1>. QED
  BY <1>3, <1>4, AwakeInv

\* HandleInject() takes an event out of the list.
LEMMA HandleInjectInv ==
  ASSUME Inv, HandleInject("inject", "call") \/ HandleInject("woken", "wokencall")
  PROVE  Inv'
<1>. USE DEF Inv, HandleInject
<1>1. List(inject')
  BY TailList DEF TypeOK, List
<1>2. TypeOK'
  BY <1>1 DEF TypeOK, List
<1>3. BusyInv' /\ QuitInv' /\ pc' # "wait"
  BY DEF BusyInv, QuitInv
<1>. QED
  BY <1>2, <1>3, AwakeInv

\* The loop goes to sleep: its list is empty, because it is not broken.
LEMMA GoIdleInv ==
  ASSUME Inv, GoIdle
  PROVE  Inv'
<1>. USE DEF Inv, GoIdle
<1>1. TypeOK'
  BY DEF TypeOK
<1>2. BusyInv' /\ QuitInv'
  BY DEF BusyInv, QuitInv
<1>3. NoLostWakeup'
  BY DEF NoLostWakeup, QuitInv
<1>. QED
  BY <1>1, <1>2, <1>3

\* The other steps of the loop thread do not touch the list.
LEMMA LoopInv ==
  ASSUME Inv,
         \/ LoopTop \/ CallbacksDone \/ WaitWoken \/ WaitOther \/ OnWake \/ OnWakeDone
         \/ SocketsDone \/ RunReturns
  PROVE  Inv'
<1>. USE DEF Inv, LoopTop, CallbacksDone, WaitWoken, WaitOther, WaitReturn, OnWake, OnWakeDone,
             SocketsDone, RunReturns
<1>1. TypeOK'
  BY DEF TypeOK
<1>2. BusyInv' /\ QuitInv' /\ pc' # "wait"
  BY DEF BusyInv, QuitInv
<1>. QED
  BY <1>1, <1>2, AwakeInv

----------------------------------------------------------------------------
(***************************************************************************)
(* Theorems.                                                               *)
(***************************************************************************)

\* The inductive invariant holds in every state of the loop and its threads.
THEOREM Invariance == Spec => []Inv
<1>1. Init => Inv
  <2>. SUFFICES ASSUME Init PROVE Inv
    OBVIOUS
  <2>. USE DEF Init
  <2>1. TypeOK
    <3>1. << >> \in Seq(Events) /\ IQ!NoDuplicates(<< >>)
      BY DEF IQ!NoDuplicates
    <3>2. [t \in Threads |-> "idle"] \in [Threads -> {"idle", "write"}]
      OBVIOUS
    <3>. QED
      BY <3>1, <3>2, Zenon DEF TypeOK
  <2>. QED
    BY <2>1 DEF Inv, BusyInv, QuitInv, NoLostWakeup
<1>2. Inv /\ [Next]_vars => Inv'
  <2>. SUFFICES ASSUME Inv, [Next]_vars PROVE Inv'
    OBVIOUS
  <2>1. ASSUME NEW t \in Threads,
               (\E e \in Events : AddInject(t, e)) \/ InjectBreak(t) \/ WakeWrite(t)
        PROVE  Inv'
    BY <2>1, AddInjectInv, InjectBreakInv, WakeWriteInv
  <2>2. CASE LoopStep
    BY <2>2, CallbackInv, HandleInjectInv, GoIdleInv, LoopInv DEF LoopStep
  <2>3. CASE RunCallback \/ RunIdle \/ DispatchOther
    BY <2>3, CallbackInv
  <2>4. CASE WaitOther
    BY <2>4, LoopInv
  <2>5. CASE UNCHANGED vars
    BY <2>5 DEF vars, Inv, TypeOK, BusyInv, QuitInv, NoLostWakeup, IQ!NoDuplicates
  <2>. QED
    BY <2>1, <2>2, <2>3, <2>4, <2>5 DEF Next
<1>. QED
  BY <1>1, <1>2, PTL DEF Spec

\* Every variable keeps its type, and no event is linked into the list twice,
\* whoever schedules and cancels it.
THEOREM TypeCorrect == Spec => []TypeOK
  BY Invariance, PTL DEF Inv

\* However the threads' critical sections and their writes to the descriptor
\* interleave with the loop, it never sleeps on an event nobody wakes it for.
THEOREM WakeupsAreNotLost == Spec => []NoLostWakeup
  BY Invariance, PTL DEF Inv

\* Every step of the loop and of the threads is a step of the abstract queue, or
\* leaves it as it is: the events are invoked in the order in which they were
\* scheduled, each once, and none after the loop was broken.
THEOREM LoopSimulatesQueue == Spec => IQ!Init /\ [][IQ!Next]_<<inject, quit>>
<1>1. Init => IQ!Init
  BY DEF Init, IQ!Init
<1>2. Inv /\ [Next]_vars => [IQ!Next]_<<inject, quit>>
  <2>. SUFFICES ASSUME Inv, Next PROVE IQ!Next \/ UNCHANGED <<inject, quit>>
    BY DEF vars
  <2>. USE DEF IQ!Next, IQ!Schedule, IQ!Cancel, IQ!Invoke, IQ!Break
  <2>1. ASSUME NEW t \in Threads,
               (\E e \in Events : AddInject(t, e)) \/ InjectBreak(t) \/ WakeWrite(t)
        PROVE  IQ!Next \/ UNCHANGED <<inject, quit>>
    BY <2>1 DEF AddInject, InjectBreak, WakeWrite
  <2>2. CASE BreakingCallback
    BY <2>2 DEF BreakingCallback, Callback
  <2>3. CASE RunInject("call", "inject") \/ RunInject("wokencall", "woken")
    BY <2>3 DEF RunInject, Callback
  <2>4. CASE HandleInject("inject", "call") \/ HandleInject("woken", "wokencall")
    BY <2>4 DEF HandleInject
  <2>5. CASE OnWake
    BY <2>5 DEF OnWake, Inv, TypeOK
  <2>6. CASE LoopTop \/ CallbacksDone \/ GoIdle \/ WaitWoken \/ WaitOther \/ OnWakeDone
             \/ SocketsDone \/ RunReturns
    BY <2>6 DEF LoopTop, CallbacksDone, GoIdle, WaitWoken, WaitOther, WaitReturn, OnWakeDone,
                SocketsDone, RunReturns
  <2>. QED
    BY <2>1, <2>2, <2>3, <2>4, <2>5, <2>6
    DEF Next, LoopStep, RunCallback, RunIdle, DispatchOther
<1>. QED
  BY <1>1, <1>2, Invariance, PTL DEF Spec

=============================================================================
