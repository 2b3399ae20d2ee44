----------------------------- MODULE QueueAhead -----------------------------
(***************************************************************************)
(* What ThreadQueue.ahead promises. ThreadWork asks it right before it     *)
(* enqueues, posts it to the thread as "N runs ahead" and journals it, so  *)
(* it is compared here with what then happens. The history variables do    *)
(* not influence the queue.                                                *)
(***************************************************************************)
EXTENDS ThreadQueue

VARIABLES
  promise,  \* promise[t]: ahead(key) right before t was enqueued
  own,      \* own[t]: how many of those were of t's own thread
  passed    \* passed[t]: earlier tasks that ended before t started

avars == <<qvars, promise, own, passed>>

AheadInit ==
  /\ QueueInit
  /\ promise = [t \in Task |-> 0]
  /\ own = [t \in Task |-> 0]
  /\ passed = [t \in Task |-> 0]

(* The host reads ahead and enqueues in one synchronous stretch            *)
(* (thread-work.ts:93-94).                                                 *)
AskAndEnqueue(t, k) ==
  /\ promise' = [promise EXCEPT ![t] = Ahead(k)]
  /\ own' = [own EXCEPT ![t] = Own(k)]
  /\ Enqueue(t, k)
  /\ UNCHANGED passed

FinishCounted(t) ==
  /\ Finish(t)
  /\ passed' = [u \in Task |->
                  IF u \in waiting /\ t < u THEN passed[u] + 1 ELSE passed[u]]
  /\ UNCHANGED <<promise, own>>

CloseCounted == Close /\ UNCHANGED <<promise, own, passed>>

AheadNext ==
  \/ \E t \in Task, k \in Thread : AskAndEnqueue(t, k)
  \/ \E t \in Task : FinishCounted(t)
  \/ CloseCounted

AheadSpec == AheadInit /\ [][AheadNext]_avars

(* One process that is never killed, in which every run ends. Nothing      *)
(* makes events arrive or the host close the queue.                        *)
FairAheadSpec == AheadSpec /\ \A t \in Task : WF_avars(FinishCounted(t))

-----------------------------------------------------------------------------
(* The count is honest for a thread with nothing of its own under way: at  *)
(* most that many earlier tasks end before it starts, in whatever order    *)
(* they end. For a thread with work of its own the count is at least that  *)
(* work, all of which ends first (queue.ts:33-43).                         *)
AheadHonest ==
  \A t \in started :
    /\ own[t] = 0 => passed[t] <= promise[t]
    /\ own[t] <= promise[t] /\ own[t] <= passed[t]
=============================================================================
