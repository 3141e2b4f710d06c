---------------------------- MODULE UpdateJobs -----------------------------
(***************************************************************************)
(* What UpdateService promises its clients ("This class manages the update *)
(* queue and runs the update thread", db/update/Service.hxx): the accepted *)
(* jobs are worked on one at a time in the order they were accepted.  The  *)
(* job at the head is the one GetId() names; a job that waits can be       *)
(* withdrawn, the head only leaves by being finished (a cancelled update   *)
(* finishes early), and unless the service is destroyed it does.           *)
(***************************************************************************)
EXTENDS Naturals, Sequences, SequencesExt

CONSTANT Job            \* the jobs that can be submitted
VARIABLE pending        \* Seq(Job): the job being worked on, then the others

Init == pending = << >>

Submit(job) == pending' = Append(pending, job)

Finish == pending # << >> /\ pending' = Tail(pending)

\* A job behind the head is withdrawn (CancelMount).
Withdraw == \E i \in 2..Len(pending) : pending' = RemoveAt(pending, i)

\* All jobs behind the head are withdrawn at once (CancelAllAsync).
WithdrawAll == pending # << >> /\ pending' = <<Head(pending)>>

\* The service is destroyed.
Destroy == pending' = << >>

Next == (\E job \in Job : Submit(job)) \/ Finish \/ Withdraw \/ WithdrawAll
        \/ Destroy

Spec == Init /\ [][Next]_pending /\ WF_pending(Finish)
============================================================================
