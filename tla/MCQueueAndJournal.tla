------------------------- MODULE MCQueueAndJournal --------------------------
(* The thread queue and the journal, which share nothing: the initial state *)
(* says which one runs.                                                    *)
(*                                                                         *)
(* Five arrivals over three threads and two slots: enough for a thread to  *)
(* wait behind itself while others pass it, with a slot full or free. Jobs *)
(* share no state, so one job shows every case: two actions that may not   *)
(* repeat, one that may, and two results to tell a replay from a rerun.    *)
EXTENDS QueueAhead, JobStore

CONSTANTS a, b, c, post, edit, prompt

VARIABLE part

MCThread == {a, b, c}
MCTask == 1 .. 5
MCJob == {1}
MCKey == {post, edit, prompt}
MCReplaySafe == {prompt}

QueuePart == part = "queue" /\ UNCHANGED <<part, jvars>>
JournalPart == part = "journal" /\ UNCHANGED <<part, avars>>

MCInit == part \in {"queue", "journal"} /\ AheadInit /\ JournalInit
MCNext ==
  \/ QueuePart /\ AheadNext
  \/ JournalPart /\ JournalNext

allVars == <<part, avars, jvars>>

MCSpec ==
  /\ MCInit /\ [][MCNext]_allVars
  /\ \A t \in Task : WF_allVars(FinishCounted(t) /\ QueuePart)

(* A safe action repeats without end; the run stops looking at the third.  *)
MaxRepeats == 2
RepeatBound == \A j \in Job, k \in Key : landed[j][k] <= MaxRepeats
=============================================================================
