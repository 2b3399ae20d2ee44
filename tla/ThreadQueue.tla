---------------------------- MODULE ThreadQueue ----------------------------
(***************************************************************************)
(* ThreadQueue of packages/host/src/queue.ts: a thread's tasks run one at  *)
(* a time and in arrival order, and at most Limit threads run at once.     *)
(*                                                                         *)
(* A task is named by its arrival number, so the array `waiting` of the    *)
(* code, which only grows at its end, is the set of the numbers in it.     *)
(* `started` holds the tasks whose latch is open and whose fiber has not   *)
(* ended: the code's `fibers` is waiting \cup started.                     *)
(***************************************************************************)
EXTENDS Naturals, FiniteSets

CONSTANTS
  Thread,    \* thread keys
  NoThread,  \* the key of a number no task has taken yet
  Task,      \* arrival numbers
  Limit      \* how many threads may run at once

ASSUME QueueAssumption ==
  /\ Task \subseteq Nat
  /\ IsFiniteSet(Task)
  /\ NoThread \notin Thread
  /\ Limit \in Nat \ {0}

VARIABLES
  key,       \* the thread of every task that arrived
  running,   \* the threads with a task running
  waiting,   \* the tasks that have not started
  started,   \* the tasks that started and have not ended
  accepting  \* FALSE once the queue is closed

qvars == <<key, running, waiting, started, accepting>>

QueueInit ==
  /\ key = [t \in Task |-> NoThread]
  /\ running = {}
  /\ waiting = {}
  /\ started = {}
  /\ accepting = TRUE

Arrived == {t \in Task : key[t] # NoThread}

(* Mutants are operators named Bug...: each stands for a slip the code      *)
(* could have made in the operator below it, and some run refutes it.      *)
BugEligibleBusy(k, busy, line) ==
  {t \in line : \A u \in line : k[u] = k[t] => t <= u}

BugEligibleNewest(k, busy, line) ==
  {t \in line : k[t] \notin busy /\ \A u \in line : k[u] = k[t] => u <= t}

(* The tasks startWaiting may take, given the threads busy and the tasks   *)
(* that wait: each is the first of its thread, and its thread is idle.     *)
Eligible(k, busy, line) ==
  {t \in line : /\ k[t] \notin busy
                /\ \A u \in line : k[u] = k[t] => t <= u}

BugStartsAll(k, busy, line, S) == S = Eligible(k, busy, line)

(* The loop of startWaiting takes the oldest eligible task while a slot is *)
(* free: it ends with all of them started, or with no slot left.           *)
OldestFirst(k, busy, line, S) ==
  LET ready == Eligible(k, busy, line)
  IN  /\ S \subseteq ready
      /\ \A t \in S, u \in ready \ S : t < u
      /\ Cardinality(busy) + Cardinality(S) <= Limit
      /\ S = ready \/ Cardinality(busy) + Cardinality(S) = Limit

StartWaiting(k, busy, line, begun) ==
  \E S \in SUBSET line :
    /\ OldestFirst(k, busy, line, S)
    /\ running' = busy \cup {k[t] : t \in S}
    /\ waiting' = line \ S
    /\ started' = begun \cup S

(* How many earlier tasks stand between a new task of a thread and its     *)
(* start, as enqueue and the queue notice report it.                       *)
Own(k) ==
  (IF k \in running THEN 1 ELSE 0)
    + Cardinality({t \in waiting : key[t] = k})

BugAheadShort(k) ==
  LET others == Cardinality(waiting) + Cardinality(running)
  IN  IF Own(k) = 0 /\ Cardinality(running) < Limit THEN 0
      ELSE IF Own(k) + Limit >= others THEN Own(k) ELSE others - Limit

Ahead(k) ==
  LET others == Cardinality(waiting) + Cardinality(running) + 1
  IN  IF Own(k) = 0 /\ Cardinality(running) < Limit THEN 0
      ELSE IF Own(k) + Limit >= others THEN Own(k) ELSE others - Limit

(* A task arrives: refused once the queue is closed, otherwise it is       *)
(* pushed behind all others and startWaiting runs in the same call.        *)
Enqueue(t, k) ==
  /\ accepting
  /\ key[t] = NoThread
  /\ \A u \in Arrived : u < t
  /\ key' = [key EXCEPT ![t] = k]
  /\ StartWaiting(key', running, waiting \cup {t}, started)
  /\ UNCHANGED accepting

BugFinishOnly(t) ==
  /\ t \in started
  /\ running' = running \ {key[t]}
  /\ started' = started \ {t}
  /\ UNCHANGED <<key, waiting, accepting>>

(* A running task ends, with success or failure: its fiber's finalizer     *)
(* frees the thread and starts what waits.                                 *)
Finish(t) ==
  /\ t \in started
  /\ StartWaiting(key, running \ {key[t]}, waiting, started \ {t})
  /\ UNCHANGED <<key, accepting>>

Close ==
  /\ accepting
  /\ accepting' = FALSE
  /\ UNCHANGED <<key, running, waiting, started>>

(* drainEffect returns, and shutdown closes the journal, only then.        *)
Drained == waiting \cup started = {}

(* The process ends: the queue lives in memory only, and the next process  *)
(* starts with an empty, open one.                                         *)
Lose ==
  /\ key' = [t \in Task |-> NoThread]
  /\ running' = {}
  /\ waiting' = {}
  /\ started' = {}
  /\ accepting' = TRUE

QueueStep ==
  \/ \E t \in Task, k \in Thread : Enqueue(t, k)
  \/ \E t \in Task : Finish(t)
  \/ Close

QueueNext == QueueStep \/ Lose

QueueSpec == QueueInit /\ [][QueueNext]_qvars

-----------------------------------------------------------------------------
(* The shape of the queue's state (queue.ts:15-20).                        *)
QueueTypeOK ==
  /\ key \in [Task -> Thread \cup {NoThread}]
  /\ running \subseteq Thread
  /\ waiting \subseteq Arrived
  /\ started \subseteq Arrived
  /\ accepting \in BOOLEAN

(* A thread's conversation and visible message assume one writer: no two   *)
(* started tasks share a thread, none waits and runs at once, and the      *)
(* threads marked running are exactly those of the started tasks           *)
(* (queue.ts:6-9, 15).                                                     *)
OneRunPerThread ==
  /\ \A t, u \in started : key[t] = key[u] => t = u
  /\ running = {key[t] : t \in started}
  /\ waiting \cap started = {}

(* A task starts as soon as its thread is idle and a slot is free, and no  *)
(* more threads run than the configured number: no call leaves an idle     *)
(* thread's task waiting beside a free slot, nor fills a slot too many     *)
(* (queue.ts:6, 11-12, 88).                                                *)
SlotsWellUsed ==
  /\ Cardinality(running) <= Limit
  /\ Cardinality(running) < Limit => \A t \in waiting : key[t] \in running

(* Within a thread tasks start in arrival order: nothing overtakes a       *)
(* waiting task of its own thread (queue.ts:11, 17, 89).                   *)
ThreadOrder ==
  \A t \in waiting, u \in started : key[t] = key[u] => u < t

(* Every accepted task runs, whatever else is queued (queue.ts:45-72).     *)
EveryTaskStarts == \A t \in Task : t \in waiting ~> t \in started
=============================================================================
