------------------------------ MODULE JobStore ------------------------------
(***************************************************************************)
(* JobStore of packages/host/src/jobs.ts: the SQLite journal of accepted   *)
(* jobs and of the actions each takes outside the process.                 *)
(*                                                                         *)
(* status and row are the two tables; every statement is durable once it   *)
(* returns (synchronous = FULL) and no transaction spans two of them, so   *)
(* the process may die between any two. call is the effect an action is    *)
(* running, lost with the process. landed counts how often the outside saw *)
(* an action's effect: no code keeps it, the properties are about it.      *)
(***************************************************************************)
EXTENDS Naturals

CONSTANTS
  Job,         \* job ids
  Key,         \* action keys
  ReplaySafe,  \* the keys run with replaySafe: true
  Value,       \* what an action can return
  NoRow,       \* no row for the action
  Intent       \* a row without a result

ASSUME JournalAssumption ==
  /\ ReplaySafe \subseteq Key
  /\ NoRow \notin Value
  /\ Intent \notin Value
  /\ NoRow # Intent

VARIABLES status, row, call, landed

jvars == <<status, row, call, landed>>

Open == {"queued", "running"}
Unfinished == Open \cup {"cancelling"}
Ended == {"completed", "failed", "cancelled"}

JournalInit ==
  /\ status = [j \in Job |-> "absent"]
  /\ row = [j \in Job |-> [k \in Key |-> NoRow]]
  /\ call = [j \in Job |-> [k \in Key |-> "none"]]
  /\ landed = [j \in Job |-> [k \in Key |-> 0]]

Recorded(j, k) == row[j][k] \in Value

(* Mutants are operators named Bug...: each stands for a slip the code      *)
(* could have made in the operator below it, and some run refutes it.      *)
BugMarkAny(j, s) ==
  /\ status' = [status EXCEPT ![j] = s]
  /\ UNCHANGED <<row, call, landed>>

(* mark updates only a job that is queued or running: any other update     *)
(* finds no row and changes nothing.                                       *)
Mark(j, s) ==
  /\ status' = [status EXCEPT ![j] = IF @ \in Open THEN s ELSE @]
  /\ UNCHANGED <<row, call, landed>>

(* create is idempotent by id. *)
Create(j) ==
  /\ status' = [status EXCEPT ![j] = IF @ = "absent" THEN "queued" ELSE @]
  /\ UNCHANGED <<row, call, landed>>

MarkRunning(j) == Mark(j, "running")
MarkCompleted(j) == Mark(j, "completed")
(* A failure of a cancelling job leaves it cancelling, with its error. *)
MarkFailed(j) == Mark(j, "failed")
RequestCancel(j) == Mark(j, "cancelling")

MarkCancelled(j) ==
  /\ status' = [status EXCEPT ![j] = IF @ \in Unfinished THEN "cancelled" ELSE @]
  /\ UNCHANGED <<row, call, landed>>

(* actionEffect in three outcomes. A recorded result is replayed.          *)
Replays(j, k) == Recorded(j, k)

BugNeverUncertain(j, k) == FALSE

(* An intent without a result means the effect may have happened: only an  *)
(* action known to be safe to repeat runs again.                           *)
Uncertain(j, k) == row[j][k] = Intent /\ k \notin ReplaySafe

(* Otherwise the intent is journaled first, and the effect starts.         *)
BeginAction(j, k) ==
  /\ status[j] # "absent"
  /\ ~ Replays(j, k)
  /\ ~ Uncertain(j, k)
  /\ call[j][k] = "none"
  /\ row' = [row EXCEPT ![j][k] = Intent]
  /\ call' = [call EXCEPT ![j][k] = "sent"]
  /\ UNCHANGED <<status, landed>>

(* The outside performs the effect; the answer is still on its way.        *)
LandAction(j, k) ==
  /\ call[j][k] = "sent"
  /\ call' = [call EXCEPT ![j][k] = "landed"]
  /\ landed' = [landed EXCEPT ![j][k] = @ + 1]
  /\ UNCHANGED <<status, row>>

(* The effect succeeded and its result is recorded. *)
RecordAction(j, k, v) ==
  /\ call[j][k] = "landed"
  /\ row' = [row EXCEPT ![j][k] = v]
  /\ call' = [call EXCEPT ![j][k] = "none"]
  /\ UNCHANGED <<status, landed>>

(* The effect failed, before or after the outside performed it: the row    *)
(* keeps its intent.                                                       *)
FailAction(j, k) ==
  /\ call[j][k] # "none"
  /\ call' = [call EXCEPT ![j][k] = "none"]
  /\ UNCHANGED <<status, row, landed>>

(* The process ends; the tables stay. *)
LoseCalls ==
  /\ call' = [j \in Job |-> [k \in Key |-> "none"]]
  /\ UNCHANGED <<status, row, landed>>

JobStep(j) ==
  \/ Create(j)
  \/ MarkRunning(j)
  \/ MarkCompleted(j)
  \/ MarkFailed(j)
  \/ RequestCancel(j)
  \/ MarkCancelled(j)

ActionStep(j, k) ==
  \/ BeginAction(j, k)
  \/ LandAction(j, k)
  \/ \E v \in Value : RecordAction(j, k, v)
  \/ FailAction(j, k)

JournalNext ==
  \/ \E j \in Job : JobStep(j)
  \/ \E j \in Job, k \in Key : ActionStep(j, k)
  \/ LoseCalls

JournalSpec == JournalInit /\ [][JournalNext]_jvars

-----------------------------------------------------------------------------
(* The tables hold what the code writes into them (jobs.ts:8-14, 51-59).   *)
JournalTypeOK ==
  /\ status \in [Job -> {"absent"} \cup Unfinished \cup Ended]
  /\ row \in [Job -> [Key -> Value \cup {NoRow, Intent}]]
  /\ call \in [Job -> [Key -> {"none", "sent", "landed"}]]
  /\ landed \in [Job -> [Key -> Nat]]

(* An action that is not safe to repeat reaches the outside at most once,  *)
(* however often the host dies, restarts or calls it again                 *)
(* (jobs.ts:146-191).                                                      *)
EffectAtMostOnce ==
  \A j \in Job, k \in Key \ ReplaySafe : landed[j][k] <= 1

(* Nothing is recorded that did not happen, and nothing happens that the   *)
(* journal does not know of: the intent is there first (jobs.ts:171-191).  *)
JournalIsHonest ==
  \A j \in Job, k \in Key :
    /\ Recorded(j, k) => landed[j][k] > 0
    /\ landed[j][k] > 0 => row[j][k] # NoRow

(* A recorded result is final, so a replay always returns what the first   *)
(* run returned (jobs.ts:158-162).                                         *)
ResultIsFinal ==
  [][\A j \in Job, k \in Key : Recorded(j, k) => row'[j][k] = row[j][k]]_jvars

(* A job ends once, and a cancellation can end only as cancelled: a run    *)
(* that finishes or fails meanwhile cannot undo it (jobs.ts:93-116, 205-   *)
(* 212).                                                                   *)
EndIsFinal ==
  [][\A j \in Job :
       /\ status[j] \in Ended => status'[j] = status[j]
       /\ status[j] = "cancelling" => status'[j] \in {"cancelling", "cancelled"}]_jvars
=============================================================================
