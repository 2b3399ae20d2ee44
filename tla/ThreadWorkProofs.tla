-------------------------- MODULE ThreadWorkProofs --------------------------
(***************************************************************************)
(* The safety of admission, publication and recovery for every set of jobs *)
(* and threads, every limit and any number of crashes. Each step of a host *)
(* is one of its journal and one of its queue, so their own invariants     *)
(* (JobStoreProofs, ThreadQueueProofs) come with it; what is added says    *)
(* where a job is between the two and what it has left outside.            *)
(***************************************************************************)
EXTENDS ThreadWork, SequenceTheorems, TLAPS

JP == INSTANCE JobStoreProofs WITH Key <- ActionKey, ReplaySafe <- {}, Value <- Marker
QP == INSTANCE ThreadQueueProofs WITH Task <- Job

Body == {"status", "step", "reply", "gone"}

(* The stages of a run, and of the cleanup of a cancelled one. *)
Stage == {"idle", "join", "working", "showing", "turn", "unfollow",
          "publish", "publishing", "retract", "retracting", "end"}
Starting == {"join", "working", "showing"}
Turning == {"turn", "unfollow"}
Publishing == {"publish", "publishing"}
Cleaning == {"retract", "retracting"}

QueuedJobs == waiting \cup started
Cancels(j) == out[j] \in {"cancel", "uncancelled"}
Confirmed(j) == access[j] \in {"admin", "member"} /\ (admin[j] => access[j] = "admin")

WorkTypeOK ==
  /\ thread \in [Job -> Thread \cup {NoThread}]
  /\ late \in [Job -> BOOLEAN]
  /\ admin \in [Job -> BOOLEAN]
  /\ host \in {"restoring", "open", "down", "stopped"}
  /\ todo \subseteq Job
  /\ ready \subseteq Job
  /\ access \in [Job -> {"none", "admin", "member", "denied"}]
  /\ notice \in [Job -> {"none", "begin", "posting", "done", "failed"}]
  /\ pc \in [Job -> Stage]
  /\ out \in [Job -> {"none", "reply", "empty", "failed", "done", "cancel", "uncancelled"}]
  /\ marker \in [Job -> {0, 1}]
  /\ step \in [Job -> {"off", "idle", "sent"}]
  /\ shown \in [Job -> Seq(Body)]

(* What a run left outside agrees with its journal: one action alone ever  *)
(* posts, and later ones only edit that message.                           *)
MessageOK(j) ==
  /\ Len(shown[j]) = IF late[j] THEN landed[j][Notice] ELSE landed[j][Working]
  /\ J!Recorded(j, Notice) => row[j][Notice] = IF late[j] THEN 1 ELSE 0
  /\ J!Recorded(j, Working) => row[j][Working] = 1
  /\ row[j][Working] # NoRow => J!Recorded(j, Notice)
  /\ row[j][Publish] # NoRow => J!Recorded(j, Working)
  /\ \A m \in 1 .. Len(shown[j]) :
       /\ shown[j][m] = "reply" => landed[j][Publish] > 0
       /\ landed[j][Publish] > 0 => shown[j][m] \in {"reply", "gone"}
       /\ landed[j][Retract] > 0 /\ row[j][Publish] = NoRow
          /\ row[j][Notice] # Intent /\ row[j][Working] # Intent
            => shown[j][m] = "gone"

(* Where the notice's fiber, the run and the step follower are, and what   *)
(* they have in hand.                                                      *)
FiberOK(j) ==
  /\ call[j][Notice] # "none" => notice[j] = "posting"
  /\ call[j][Working] # "none" => pc[j] = "showing"
  /\ call[j][Publish] # "none" => pc[j] = "publishing"
  /\ call[j][Retract] # "none" => pc[j] = "retracting"
  /\ notice[j] = "done" => J!Recorded(j, Notice)
  /\ notice[j] = "failed" => row[j][Notice] = Intent
  /\ notice[j] = "posting" => row[j][Notice] = Intent /\ row[j][Retract] = NoRow
  /\ notice[j] \in {"begin", "posting"} => pc[j] \in {"idle", "join"}
  /\ step[j] # "off" => pc[j] \in Turning /\ row[j][Publish] = NoRow

StageOK(j) ==
  /\ pc[j] \in Starting \cup {"turn"} => out[j] = "none"
  /\ pc[j] = "unfollow" => out[j] \in {"reply", "empty", "failed"}
  /\ pc[j] \in Publishing => out[j] \in {"reply", "empty"}
  /\ pc[j] \in Cleaning => out[j] \in {"done", "failed", "cancel"}
  /\ pc[j] = "end" => out[j] \in {"done", "failed", "cancel", "uncancelled"}
  /\ pc[j] \in {"working", "showing"} => J!Recorded(j, Notice)
  /\ pc[j] = "showing" => row[j][Working] = Intent /\ row[j][Retract] = NoRow
  /\ pc[j] \in Turning \cup Publishing => J!Recorded(j, Working)
  /\ pc[j] = "publishing" => row[j][Publish] = Intent
  /\ pc[j] = "retracting" => row[j][Retract] = Intent
  /\ pc[j] \in Cleaning /\ out[j] # "cancel" => row[j][Working] # NoRow
  /\ out[j] = "cancel" => row[j][Notice] # Intent /\ row[j][Working] # Intent

(* The run's marker is its message, once its fate is known.                *)
MarkerOK(j) ==
  /\ marker[j] <= Len(shown[j])
  /\ pc[j] \in {"working", "showing"} => marker[j] = row[j][Notice]
  /\ pc[j] \in Turning \cup Publishing => marker[j] = 1
  /\ pc[j] \in Cleaning /\ row[j][Publish] = NoRow
       /\ row[j][Notice] # Intent /\ row[j][Working] # Intent
     => marker[j] = Len(shown[j])

(* What the journal holds when a job is cancelled or has ended. *)
EndOK(j) ==
  /\ status[j] = "absent" => \A k \in ActionKey : row[j][k] = NoRow
  /\ row[j][Retract] # NoRow /\ row[j][Working] = NoRow
       => status[j] \in {"cancelling", "cancelled"}
  /\ out[j] = "done" \/ status[j] = "completed" => J!Recorded(j, Publish)
  /\ (pc[j] = "end" /\ out[j] = "failed") \/ status[j] = "failed"
       => \/ row[j][Notice] = Intent \/ row[j][Working] = Intent
          \/ row[j][Publish] # NoRow \/ row[j][Retract] # NoRow
  /\ (pc[j] = "end" /\ out[j] = "cancel") \/ status[j] = "cancelled"
       => J!Recorded(j, Retract) /\ row[j][Notice] # Intent /\ row[j][Working] # Intent
  /\ Cancels(j) => status[j] \in {"cancelling", "cancelled"}
  /\ pc[j] = "idle" /\ out[j] # "none" => status[j] \in J!Ended \cup {"cancelling"}

(* Every job is in one place: the queue, one of restore's two lists, or    *)
(* held back by a cleanup that failed.                                     *)
PlaceOK(j) ==
  /\ status[j] = "absent" <=> thread[j] = NoThread
  /\ j \in QueuedJobs =>
       /\ key[j] = thread[j] /\ status[j] \in J!Open /\ Confirmed(j)
       /\ ~ IsCancelling(thread[j])
  /\ notice[j] \in {"begin", "posting"} => j \in QueuedJobs
  /\ notice[j] # "none" => j \in QueuedJobs \/ status[j] \in J!Ended
  /\ pc[j] # "idle" /\ ~ Cancels(j) => j \in started /\ status[j] = "running"
  /\ pc[j] # "idle" /\ Cancels(j) =>
       /\ status[j] = "cancelling" /\ j \in todo
       /\ pc[j] \in Cleaning \cup {"end"}
  /\ j \in ready => status[j] \in J!Open /\ Confirmed(j) /\ j \notin QueuedJobs
  /\ j \in todo => status[j] \in J!Unfinished /\ j \notin ready
  /\ host \in {"restoring", "open"} /\ status[j] \in J!Open =>
       \/ j \in todo \cup ready \cup QueuedJobs
       \/ todo = {} /\ IsCancelling(thread[j])

(* The queue is filled only once every unfinished job was looked at, and   *)
(* in the order the jobs were accepted.                                    *)
LifeOK ==
  /\ todo # {} => host = "restoring" /\ QueuedJobs = {}
  /\ ready # {} => host = "restoring"
  /\ host \in {"down", "stopped"} => QueuedJobs = {}
  /\ \A i \in ready, j \in QueuedJobs : j < i

JobOK(j) == MessageOK(j) /\ FiberOK(j) /\ StageOK(j) /\ MarkerOK(j) /\ EndOK(j)

OwnInv ==
  /\ WorkTypeOK
  /\ \A j \in Job : JobOK(j)
  /\ \A j \in Job : PlaceOK(j)
  /\ LifeOK

WorkInv == JP!JournalInv /\ QP!QueueInv /\ OwnInv

-----------------------------------------------------------------------------
(* The two components. *)

LEMMA PartsAssumptions ==
  /\ {} \subseteq ActionKey /\ NoRow \notin Marker /\ Intent \notin Marker
  /\ NoRow # Intent
  /\ Job \subseteq Nat /\ QP!IsFiniteSet(Job)
  /\ NoThread \notin Thread /\ Limit \in Nat \ {0}
<1>1. QP!IsFiniteSet(Job) = IsFiniteSet(Job)
  BY DEF QP!IsFiniteSet, IsFiniteSet
<1> QED
  BY <1>1, WorkAssumption DEF Marker

LEMMA SameJournal ==
  [J!JournalNext]_J!jvars => [JP!JournalNext]_JP!jvars
  BY DEF J!JournalNext, JP!JournalNext, J!jvars, JP!jvars, J!JobStep, JP!JobStep,
         J!ActionStep, JP!ActionStep, J!Create, JP!Create, J!Mark, JP!Mark,
         J!MarkRunning, JP!MarkRunning, J!MarkCompleted, JP!MarkCompleted,
         J!MarkFailed, JP!MarkFailed, J!RequestCancel, JP!RequestCancel,
         J!MarkCancelled, JP!MarkCancelled, J!BeginAction, JP!BeginAction,
         J!LandAction, JP!LandAction, J!RecordAction, JP!RecordAction,
         J!FailAction, JP!FailAction, J!LoseCalls, JP!LoseCalls,
         J!Replays, JP!Replays, J!Uncertain, JP!Uncertain, J!Recorded, JP!Recorded,
         J!Open, JP!Open, J!Unfinished, JP!Unfinished

LEMMA SameSize ==
  ASSUME NEW S
  PROVE  Q!Cardinality(S) = Cardinality(S) /\ QP!Cardinality(S) = Cardinality(S)
  BY DEF Q!Cardinality, QP!Cardinality, Cardinality

LEMMA SameQueue ==
  [Q!QueueNext]_Q!qvars => [QP!QueueNext]_QP!qvars
  BY SameSize DEF Q!QueueNext, QP!QueueNext, Q!qvars, QP!qvars, Q!QueueStep,
                  QP!QueueStep,
         Q!Enqueue, QP!Enqueue, Q!Finish, QP!Finish, Q!Close, QP!Close, Q!Lose,
         QP!Lose,
         Q!StartWaiting, QP!StartWaiting, Q!OldestFirst, QP!OldestFirst,
         Q!Eligible, QP!Eligible, Q!Arrived, QP!Arrived

LEMMA PartsInvStep ==
  ASSUME JP!JournalInv, QP!QueueInv,
         [J!JournalNext]_J!jvars, [Q!QueueNext]_Q!qvars
  PROVE  JP!JournalInv' /\ QP!QueueInv'
<1>1. JP!JournalInv'
  BY SameJournal, PartsAssumptions, JP!JournalInvStep
<1>2. [QP!QueueNext]_QP!qvars
  BY SameQueue
<1>3. QP!QueueInv'
  BY <1>2, PartsAssumptions, QP!QueueInvStep
<1> QED
  BY <1>1, <1>3

LEMMA PartsInvInit == Init => JP!JournalInv /\ QP!QueueInv
<1>1. J!JournalInit => JP!JournalInit
  BY DEF J!JournalInit, JP!JournalInit
<1>2. Q!QueueInit => QP!QueueInit
  BY DEF Q!QueueInit, QP!QueueInit
<1>3. JP!JournalInit => JP!JournalInv
  BY PartsAssumptions, JP!JournalInvInit
<1>4. QP!QueueInit => QP!QueueInv
  BY PartsAssumptions, QP!QueueInvInit
<1> QED
  BY <1>1, <1>2, <1>3, <1>4 DEF Init

(* What the two components guarantee, in the form the steps below use it.  *)
Ledger ==
  /\ status \in [Job -> {"absent"} \cup J!Unfinished \cup J!Ended]
  /\ row \in [Job -> [ActionKey -> Marker \cup {NoRow, Intent}]]
  /\ call \in [Job -> [ActionKey -> {"none", "sent", "landed"}]]
  /\ landed \in [Job -> [ActionKey -> {0, 1}]]
  /\ \A j \in Job, k \in ActionKey :
       /\ call[j][k] # "none" => row[j][k] = Intent
       /\ call[j][k] = "sent" => landed[j][k] = 0
       /\ call[j][k] = "landed" => landed[j][k] = 1
       /\ row[j][k] = NoRow => landed[j][k] = 0
       /\ J!Recorded(j, k) => landed[j][k] = 1

Line ==
  /\ key \in [Job -> Thread \cup {NoThread}]
  /\ waiting \subseteq Job /\ started \subseteq Job
  /\ waiting \cap started = {}
  /\ \A i, j \in started : key[i] = key[j] => i = j
  /\ \A i \in waiting, j \in started : key[i] = key[j] => j < i

LEMMA OnceOrNever ==
  ASSUME NEW f \in [Job -> [ActionKey -> Nat]],
         \A j \in Job, k \in ActionKey : f[j][k] <= 1
  PROVE  f \in [Job -> [ActionKey -> {0, 1}]]
<1>1. ASSUME NEW j \in Job PROVE f[j] \in [ActionKey -> {0, 1}]
  <2>1. f[j] \in [ActionKey -> Nat]
    OBVIOUS
  <2>2. ASSUME NEW k \in ActionKey PROVE f[j][k] \in {0, 1}
    <3>1. f[j][k] \in Nat /\ f[j][k] <= 1
      BY <2>1
    <3> QED
      BY <3>1
  <2> QED
    BY <2>1, <2>2
<1> QED
  BY <1>1

LEMMA LedgerHolds ==
  /\ JP!JournalInv => Ledger
  /\ JP!JournalInv' => Ledger'
<1> USE DEF JP!JournalInv, JP!JournalTypeOK, JP!LedgerOK, Ledger, J!Recorded,
            JP!Recorded,
            J!Unfinished, JP!Unfinished, J!Ended, JP!Ended, J!Open, JP!Open
<1>1. ASSUME JP!JournalInv PROVE Ledger
  <2>1. landed \in [Job -> [ActionKey -> {0, 1}]]
    BY <1>1, OnceOrNever
  <2> QED
    BY <1>1, <2>1
<1>2. ASSUME JP!JournalInv' PROVE Ledger'
  <2>1. landed' \in [Job -> [ActionKey -> {0, 1}]]
    BY <1>2, OnceOrNever
  <2> QED
    BY <1>2, <2>1
<1> QED
  BY <1>1, <1>2

LEMMA LineHolds ==
  /\ QP!QueueInv => Line
  /\ QP!QueueInv' => Line'
  BY DEF QP!QueueInv, QP!QueueTypeOK, QP!Arrived, QP!Exclusive, Line

-----------------------------------------------------------------------------
(* Outside. *)

(* Only one of the two actions that post ever lands for a run.             *)
LEMMA AtMostOne ==
  ASSUME Ledger, WorkTypeOK, NEW j \in Job, MessageOK(j)
  PROVE  Len(shown[j]) \in {0, 1}
  BY DEF Ledger, WorkTypeOK, MessageOK, ActionKey, Notice, Working

(* The message of a run after a post, an edit or a removal.                *)
LEMMA Posts ==
  ASSUME WorkTypeOK, NEW j \in Job, NEW b \in Body,
         shown' = [shown EXCEPT ![j] = Append(@, b)]
  PROVE  /\ shown' \in [Job -> Seq(Body)]
         /\ \A i \in Job : i # j => shown'[i] = shown[i]
         /\ Len(shown'[j]) = Len(shown[j]) + 1
         /\ \A m \in 1 .. Len(shown[j]) : shown'[j][m] = shown[j][m]
         /\ shown'[j][Len(shown'[j])] = b
<1>1. shown \in [Job -> Seq(Body)]
  BY DEF WorkTypeOK
<1>2. shown[j] \in Seq(Body) /\ shown'[j] = Append(shown[j], b)
  BY <1>1
<1> QED
  BY <1>1, <1>2, AppendProperties

LEMMA Edits ==
  ASSUME WorkTypeOK, NEW j \in Job, NEW b \in Body, NEW m \in 1 .. Len(shown[j]),
         shown' = [shown EXCEPT ![j][m] = b]
  PROVE  /\ shown' \in [Job -> Seq(Body)]
         /\ \A i \in Job : i # j => shown'[i] = shown[i]
         /\ Len(shown'[j]) = Len(shown[j])
         /\ \A n \in 1 .. Len(shown[j]) : shown'[j][n] = IF n = m THEN b ELSE shown[j][n]
<1>1. shown \in [Job -> Seq(Body)]
  BY DEF WorkTypeOK
<1>2. shown[j] \in Seq(Body) /\ shown'[j] = [shown[j] EXCEPT ![m] = b]
  BY <1>1
<1>3. /\ shown'[j] \in Seq(Body)
      /\ Len(shown'[j]) = Len(shown[j])
      /\ \A n \in 1 .. Len(shown[j]) : shown'[j][n] = IF n = m THEN b ELSE shown[j][n]
  BY <1>2, ExceptSeq
<1> QED
  BY <1>1, <1>3

LEMMA Shows ==
  ASSUME WorkTypeOK, NEW j \in Job, NEW b \in Body, Show(j, b),
         Len(shown[j]) = marker[j]
  PROVE  /\ shown' \in [Job -> Seq(Body)]
         /\ \A i \in Job : i # j => shown'[i] = shown[i]
         /\ Len(shown'[j]) = 1 /\ shown'[j][1] = b
         /\ marker[j] = 1 => shown[j][1] # "gone"
<1>1. CASE marker[j] = 0
  <2>1. shown' = [shown EXCEPT ![j] = Append(@, b)]
    BY <1>1 DEF Show
  <2> QED
    BY <1>1, <2>1, Posts DEF WorkTypeOK
<1>2. CASE marker[j] = 1
  <2>1. shown' = [shown EXCEPT ![j][1] = b] /\ shown[j][1] # "gone"
    BY <1>2 DEF Show, Gone
  <2>2. 1 \in 1 .. Len(shown[j])
    BY <1>2
  <2> QED
    BY <1>2, <2>1, <2>2, Edits DEF WorkTypeOK
<1> QED
  BY <1>1, <1>2 DEF WorkTypeOK

LEMMA Removes ==
  ASSUME WorkTypeOK, NEW j \in Job, Remove(j), marker[j] = 1, Len(shown[j]) = 1
  PROVE  /\ shown' \in [Job -> Seq(Body)]
         /\ \A i \in Job : i # j => shown'[i] = shown[i]
         /\ Len(shown'[j]) = 1 /\ shown'[j][1] = "gone"
<1>1. shown' = [shown EXCEPT ![j][1] = "gone"] /\ "gone" \in Body
  BY DEF Remove, Body
<1>2. 1 \in 1 .. Len(shown[j])
  OBVIOUS
<1> QED
  BY <1>1, <1>2, Edits DEF WorkTypeOK

-----------------------------------------------------------------------------
(* What a step on one job leaves to the others. *)

SameJob(i) ==
  /\ status'[i] = status[i] /\ row'[i] = row[i]
  /\ call'[i] = call[i] /\ landed'[i] = landed[i]
  /\ late'[i] = late[i] /\ notice'[i] = notice[i]
  /\ pc'[i] = pc[i] /\ out'[i] = out[i]
  /\ marker'[i] = marker[i] /\ step'[i] = step[i]
  /\ shown'[i] = shown[i]

LEMMA OtherJob ==
  ASSUME NEW i \in Job, JobOK(i), SameJob(i)
  PROVE  JobOK(i)'
<1>1. MessageOK(i)'
  BY DEF JobOK, MessageOK, SameJob, J!Recorded
<1>2. FiberOK(i)' /\ StageOK(i)' /\ MarkerOK(i)'
  BY DEF JobOK, FiberOK, StageOK, MarkerOK, SameJob, J!Recorded
<1>3. EndOK(i)'
  BY DEF JobOK, EndOK, SameJob, J!Recorded, Cancels
<1> QED
  BY <1>1, <1>2, <1>3 DEF JobOK

SamePlaces == UNCHANGED <<status, payload, queue, process>>

LEMMA OtherPlace ==
  ASSUME NEW i \in Job, PlaceOK(i), SamePlaces,
         notice'[i] = notice[i], pc'[i] = pc[i], out'[i] = out[i]
  PROVE  PlaceOK(i)'
  BY DEF PlaceOK, SamePlaces, payload, queue, process, QueuedJobs, Cancels,
         Confirmed,
         IsCancelling

(* A run, its notice or its cleanup acts on its own, in its place.         *)
ActsAlone(j) ==
  /\ SamePlaces
  /\ WorkTypeOK'
  /\ \A i \in Job : i # j => SameJob(i)
  /\ JobOK(j)' /\ PlaceOK(j)'

LEMMA ActingAlone ==
  ASSUME OwnInv, NEW j \in Job, ActsAlone(j)
  PROVE  OwnInv'
<1>1. \A i \in Job : JobOK(i)'
  BY OtherJob DEF OwnInv, ActsAlone
<1>2. \A i \in Job : PlaceOK(i)'
  BY OtherPlace DEF OwnInv, ActsAlone, SameJob
<1>3. LifeOK'
  BY DEF OwnInv, ActsAlone, SamePlaces, process, queue, LifeOK, QueuedJobs
<1> QED
  BY <1>1, <1>2, <1>3 DEF OwnInv, ActsAlone

(* What each lemma about one job starts from.                              *)
Knows(j) ==
  /\ Ledger /\ Ledger' /\ Line
  /\ WorkTypeOK
  /\ JobOK(j) /\ PlaceOK(j)

-----------------------------------------------------------------------------
(* The steps of one run, of its notice, its follower and its cleanup: what *)
(* each leaves, from what is known of its job alone.                       *)

USE DEF ActionKey, Notice, Working, Publish, Retract, Marker, J!Recorded, J!Replays,
        J!Uncertain, J!Open, Starting, Turning, Publishing, Cleaning

LEMMA NoticeBeginsAlone ==
  ASSUME NEW j \in Job, Knows(j), NoticeBegins(j)
  PROVE  ActsAlone(j)
<1> USE WorkAssumption DEF Knows, JobOK, NoticeBegins, J!BeginAction, journal
<1>1. SamePlaces
  BY DEF SamePlaces
<1>2. WorkTypeOK'
  BY <1>1 DEF WorkTypeOK, Stage, SamePlaces, payload, process, queue
<1>3. \A i \in Job : i # j => SameJob(i)
  BY <1>1 DEF Ledger, WorkTypeOK, SameJob, SamePlaces, payload
<1>4. MessageOK(j)'
  BY <1>1 DEF Ledger, WorkTypeOK, SamePlaces, payload, MessageOK, FiberOK, StageOK,
              MarkerOK, PlaceOK
<1>5. FiberOK(j)'
  BY <1>1 DEF Ledger, WorkTypeOK, SamePlaces, MessageOK, FiberOK, StageOK, EndOK,
              PlaceOK, Cancels
<1>6. StageOK(j)'
  BY <1>1 DEF Ledger, WorkTypeOK, SamePlaces, MessageOK, FiberOK, StageOK, EndOK,
              PlaceOK, Cancels
<1>7. MarkerOK(j)'
  BY <1>1 DEF Ledger, WorkTypeOK, MessageOK, FiberOK, StageOK, MarkerOK
<1>8. EndOK(j)'
  BY <1>1 DEF Ledger, WorkTypeOK, SamePlaces, FiberOK, StageOK, EndOK, PlaceOK,
              Cancels
<1>9. PlaceOK(j)'
  BY <1>1 DEF WorkTypeOK, SamePlaces, payload, process, queue, FiberOK, StageOK,
              PlaceOK, QueuedJobs, Cancels, Confirmed, IsCancelling
<1> QED
  BY <1>1, <1>2, <1>3, <1>4, <1>5, <1>6, <1>7, <1>8, <1>9 DEF ActsAlone, JobOK

LEMMA NoticeLandsAlone ==
  ASSUME NEW j \in Job, Knows(j), NoticeLands(j)
  PROVE  ActsAlone(j)
<1> USE WorkAssumption DEF Knows, JobOK, NoticeLands, J!LandAction, runs, journal
<1>1. SamePlaces
  BY DEF SamePlaces
<1>2. IF late[j]
      THEN /\ shown' \in [Job -> Seq(Body)]
           /\ \A i \in Job : i # j => shown'[i] = shown[i]
           /\ Len(shown'[j]) = Len(shown[j]) + 1
           /\ \A m \in 1 .. Len(shown[j]) : shown'[j][m] = shown[j][m]
           /\ shown'[j][Len(shown'[j])] = "status"
      ELSE shown' = shown
  BY Posts DEF Body
<1>3. WorkTypeOK'
  BY <1>1, <1>2 DEF WorkTypeOK, Stage, SamePlaces, payload, process, queue
<1>4. \A i \in Job : i # j => SameJob(i)
  BY <1>1, <1>2 DEF Ledger, WorkTypeOK, SameJob, SamePlaces, payload
<1>5. MessageOK(j)'
  BY <1>1, <1>2 DEF Ledger, WorkTypeOK, SamePlaces, payload, MessageOK, FiberOK,
                    StageOK, MarkerOK, PlaceOK
<1>6. FiberOK(j)'
  BY <1>1, <1>2 DEF Ledger, WorkTypeOK, SamePlaces, MessageOK, FiberOK, StageOK,
                    EndOK, PlaceOK, Cancels
<1>7. StageOK(j)'
  BY <1>1, <1>2 DEF Ledger, WorkTypeOK, SamePlaces, MessageOK, FiberOK, StageOK,
                    EndOK, PlaceOK, Cancels
<1>8. MarkerOK(j)'
  BY <1>1, <1>2 DEF Ledger, WorkTypeOK, MessageOK, FiberOK, StageOK, MarkerOK
<1>9. EndOK(j)'
  BY <1>1, <1>2 DEF Ledger, WorkTypeOK, SamePlaces, FiberOK, StageOK, EndOK,
                    PlaceOK, Cancels
<1>10. PlaceOK(j)'
  BY <1>1 DEF WorkTypeOK, SamePlaces, payload, process, queue, FiberOK, StageOK,
              PlaceOK, QueuedJobs, Cancels, Confirmed, IsCancelling
<1> QED
  BY <1>1, <1>3, <1>4, <1>5, <1>6, <1>7, <1>8, <1>9, <1>10 DEF ActsAlone, JobOK

LEMMA NoticeEndsAlone ==
  ASSUME NEW j \in Job, Knows(j), NoticeEnds(j)
  PROVE  ActsAlone(j)
<1> USE WorkAssumption DEF Knows, JobOK, NoticeEnds, J!RecordAction, J!FailAction,
                           journal
<1>1. SamePlaces
  BY DEF SamePlaces
<1>2. WorkTypeOK'
  BY <1>1 DEF WorkTypeOK, Stage, SamePlaces, payload, process, queue
<1>3. \A i \in Job : i # j => SameJob(i)
  BY <1>1 DEF Ledger, WorkTypeOK, SameJob, SamePlaces, payload
<1>4. MessageOK(j)'
  BY <1>1 DEF Ledger, WorkTypeOK, SamePlaces, payload, MessageOK, FiberOK, StageOK,
              MarkerOK, PlaceOK
<1>5. FiberOK(j)'
  BY <1>1 DEF Ledger, WorkTypeOK, SamePlaces, MessageOK, FiberOK, StageOK, EndOK,
              PlaceOK, Cancels
<1>6. StageOK(j)'
  BY <1>1 DEF Ledger, WorkTypeOK, SamePlaces, MessageOK, FiberOK, StageOK, EndOK,
              PlaceOK, Cancels
<1>7. MarkerOK(j)'
  BY <1>1 DEF Ledger, WorkTypeOK, MessageOK, FiberOK, StageOK, MarkerOK
<1>8. EndOK(j)'
  BY <1>1 DEF Ledger, WorkTypeOK, SamePlaces, FiberOK, StageOK, EndOK, PlaceOK,
              Cancels
<1>9. PlaceOK(j)'
  BY <1>1 DEF WorkTypeOK, SamePlaces, payload, process, queue, FiberOK, StageOK,
              PlaceOK, QueuedJobs, Cancels, Confirmed, IsCancelling
<1> QED
  BY <1>1, <1>2, <1>3, <1>4, <1>5, <1>6, <1>7, <1>8, <1>9 DEF ActsAlone, JobOK

LEMMA RunJoinsNoticeAlone ==
  ASSUME NEW j \in Job, Knows(j), RunJoinsNotice(j)
  PROVE  ActsAlone(j)
<1> USE WorkAssumption DEF Knows, JobOK, RunJoinsNotice, Goes, ComesTo, journal
<1>1. SamePlaces
  BY DEF SamePlaces
<1>2. row[j][Notice] \in {0, 1} \/ notice[j] # "done"
  BY DEF MessageOK, FiberOK, StageOK, WorkTypeOK
<1>3. WorkTypeOK'
  BY <1>1, <1>2 DEF WorkTypeOK, Stage, SamePlaces, payload, process, queue
<1>4. \A i \in Job : i # j => SameJob(i)
  BY <1>1, <1>2 DEF Ledger, WorkTypeOK, SameJob, SamePlaces, payload
<1>5. MessageOK(j)'
  BY <1>1, <1>2 DEF Ledger, WorkTypeOK, SamePlaces, payload, MessageOK, FiberOK,
                    StageOK, MarkerOK, PlaceOK
<1>6. FiberOK(j)'
  BY <1>1, <1>2 DEF Ledger, WorkTypeOK, SamePlaces, MessageOK, FiberOK, StageOK,
                    EndOK, PlaceOK, Cancels
<1>7. StageOK(j)'
  BY <1>1, <1>2 DEF Ledger, WorkTypeOK, SamePlaces, MessageOK, FiberOK, StageOK,
                    EndOK, PlaceOK, Cancels
<1>8. MarkerOK(j)'
  BY <1>1, <1>2 DEF Ledger, WorkTypeOK, MessageOK, FiberOK, StageOK, MarkerOK
<1>9. EndOK(j)'
  BY <1>1, <1>2 DEF Ledger, WorkTypeOK, SamePlaces, FiberOK, StageOK, EndOK,
                    PlaceOK, Cancels
<1>10. PlaceOK(j)'
  BY <1>1 DEF WorkTypeOK, SamePlaces, payload, process, queue, FiberOK, StageOK,
              PlaceOK, QueuedJobs, Cancels, Confirmed, IsCancelling
<1> QED
  BY <1>1, <1>3, <1>4, <1>5, <1>6, <1>7, <1>8, <1>9, <1>10 DEF ActsAlone, JobOK

LEMMA WorkingBeginsAlone ==
  ASSUME NEW j \in Job, Knows(j), WorkingBegins(j)
  PROVE  ActsAlone(j)
<1> USE WorkAssumption DEF Knows, JobOK, WorkingBegins, J!BeginAction, TurnBegins,
                           RunFails, Goes, ComesTo, journal
<1>1. SamePlaces
  BY DEF SamePlaces
<1>2. row[j][Working] \in {0, 1} \/ ~ J!Replays(j, Working)
  BY DEF MessageOK, FiberOK, StageOK, WorkTypeOK
<1>3. WorkTypeOK'
  <2> USE <1>1 DEF WorkTypeOK, Stage, SamePlaces, payload, process, queue
  <2>1. /\ UNCHANGED <<notice, shown>>
        /\ \/ /\ pc' = [pc EXCEPT ![j] = "showing"]
              /\ UNCHANGED <<out, marker, step>>
           \/ /\ pc' = [pc EXCEPT ![j] = "turn"]
              /\ \E m \in {0, 1} : marker' = [marker EXCEPT ![j] = m]
              /\ UNCHANGED out
              /\ \E x \in {"idle", "off"} : step' = [step EXCEPT ![j] = x]
           \/ /\ pc' = [pc EXCEPT ![j] = "retract"]
              /\ out' = [out EXCEPT ![j] = "failed"]
              /\ UNCHANGED <<marker, step>>
    BY <1>2
  <2>2. CASE /\ pc' = [pc EXCEPT ![j] = "showing"]
            /\ UNCHANGED <<out, marker, step>>
    BY <2>1, <2>2
  <2>3. CASE /\ pc' = [pc EXCEPT ![j] = "turn"]
            /\ \E m \in {0, 1} : marker' = [marker EXCEPT ![j] = m]
            /\ UNCHANGED out
            /\ \E x \in {"idle", "off"} : step' = [step EXCEPT ![j] = x]
    BY <2>1, <2>3
  <2>4. CASE /\ pc' = [pc EXCEPT ![j] = "retract"]
            /\ out' = [out EXCEPT ![j] = "failed"]
            /\ UNCHANGED <<marker, step>>
    BY <2>1, <2>4
  <2> QED
    BY <2>1, <2>2, <2>3, <2>4
<1>4. \A i \in Job : i # j => SameJob(i)
  BY <1>1, <1>2 DEF Ledger, WorkTypeOK, SameJob, SamePlaces, payload
<1>5. MessageOK(j)'
  BY <1>1, <1>2 DEF Ledger, WorkTypeOK, SamePlaces, payload, MessageOK, FiberOK,
                    StageOK, MarkerOK, PlaceOK
<1>6. FiberOK(j)'
  BY <1>1, <1>2 DEF Ledger, WorkTypeOK, SamePlaces, MessageOK, FiberOK, StageOK,
                    EndOK, PlaceOK, Cancels
<1>7. StageOK(j)'
  BY <1>1, <1>2 DEF Ledger, WorkTypeOK, SamePlaces, MessageOK, FiberOK, StageOK,
                    EndOK, PlaceOK, Cancels
<1>8. MarkerOK(j)'
  BY <1>1, <1>2 DEF Ledger, WorkTypeOK, MessageOK, FiberOK, StageOK, MarkerOK
<1>9. EndOK(j)'
  BY <1>1, <1>2 DEF Ledger, WorkTypeOK, SamePlaces, FiberOK, StageOK, EndOK,
                    PlaceOK, Cancels
<1>10. PlaceOK(j)'
  BY <1>1 DEF WorkTypeOK, SamePlaces, payload, process, queue, FiberOK, StageOK,
              PlaceOK, QueuedJobs, Cancels, Confirmed, IsCancelling
<1> QED
  BY <1>1, <1>3, <1>4, <1>5, <1>6, <1>7, <1>8, <1>9, <1>10 DEF ActsAlone, JobOK

LEMMA WorkingLandsAlone ==
  ASSUME NEW j \in Job, Knows(j), WorkingLands(j)
  PROVE  ActsAlone(j)
<1> USE WorkAssumption DEF Knows, JobOK, WorkingLands, J!LandAction, runs, journal
<1>1. SamePlaces
  BY DEF SamePlaces
<1>2. Len(shown[j]) = marker[j]
  BY DEF Ledger, WorkTypeOK, MessageOK, FiberOK, StageOK, MarkerOK
<1>3. /\ shown' \in [Job -> Seq(Body)]
      /\ \A i \in Job : i # j => shown'[i] = shown[i]
      /\ Len(shown'[j]) = 1 /\ shown'[j][1] = "status"
  BY <1>2, Shows DEF Body
<1>4. WorkTypeOK'
  BY <1>1, <1>3 DEF WorkTypeOK, Stage, SamePlaces, payload, process, queue
<1>5. \A i \in Job : i # j => SameJob(i)
  BY <1>1, <1>3 DEF Ledger, WorkTypeOK, SameJob, SamePlaces, payload
<1>6. MessageOK(j)'
  BY <1>1, <1>2, <1>3 DEF Ledger, WorkTypeOK, SamePlaces, payload, MessageOK,
                          FiberOK, StageOK, MarkerOK, PlaceOK
<1>7. FiberOK(j)'
  BY <1>1, <1>3 DEF Ledger, WorkTypeOK, SamePlaces, MessageOK, FiberOK, StageOK,
                    EndOK, PlaceOK, Cancels
<1>8. StageOK(j)'
  BY <1>1, <1>3 DEF Ledger, WorkTypeOK, SamePlaces, MessageOK, FiberOK, StageOK,
                    EndOK, PlaceOK, Cancels
<1>9. MarkerOK(j)'
  BY <1>1, <1>2, <1>3 DEF Ledger, WorkTypeOK, MessageOK, FiberOK, StageOK, MarkerOK
<1>10. EndOK(j)'
  BY <1>1, <1>3 DEF Ledger, WorkTypeOK, SamePlaces, FiberOK, StageOK, EndOK,
                    PlaceOK, Cancels
<1>11. PlaceOK(j)'
  BY <1>1 DEF WorkTypeOK, SamePlaces, payload, process, queue, FiberOK, StageOK,
              PlaceOK, QueuedJobs, Cancels, Confirmed, IsCancelling
<1> QED
  BY <1>1, <1>4, <1>5, <1>6, <1>7, <1>8, <1>9, <1>10, <1>11 DEF ActsAlone, JobOK

LEMMA WorkingEndsAlone ==
  ASSUME NEW j \in Job, Knows(j), WorkingEnds(j)
  PROVE  ActsAlone(j)
<1> USE WorkAssumption DEF Knows, JobOK, WorkingEnds, J!RecordAction, J!FailAction,
                           TurnBegins, RunFails, Goes, ComesTo, journal
<1>1. SamePlaces
  BY DEF SamePlaces
<1>2. ShownMarker(j) = 1 \/ call[j][Working] # "landed"
  BY DEF Ledger, WorkTypeOK, MessageOK, FiberOK, StageOK, MarkerOK, ShownMarker
<1>3. WorkTypeOK'
  <2> USE <1>1 DEF WorkTypeOK, Stage, SamePlaces, payload, process, queue
  <2>1. /\ UNCHANGED <<notice, shown>>
        /\ \/ /\ pc' = [pc EXCEPT ![j] = "turn"]
              /\ marker' = [marker EXCEPT ![j] = 1]
              /\ UNCHANGED out
              /\ \E x \in {"idle", "off"} : step' = [step EXCEPT ![j] = x]
           \/ /\ pc' = [pc EXCEPT ![j] = "retract"]
              /\ out' = [out EXCEPT ![j] = "failed"]
              /\ UNCHANGED <<marker, step>>
    BY <1>2
  <2>2. CASE /\ pc' = [pc EXCEPT ![j] = "turn"]
            /\ marker' = [marker EXCEPT ![j] = 1]
            /\ UNCHANGED out
            /\ \E x \in {"idle", "off"} : step' = [step EXCEPT ![j] = x]
    BY <2>1, <2>2
  <2>3. CASE /\ pc' = [pc EXCEPT ![j] = "retract"]
            /\ out' = [out EXCEPT ![j] = "failed"]
            /\ UNCHANGED <<marker, step>>
    BY <2>1, <2>3
  <2> QED
    BY <2>1, <2>2, <2>3
<1>4. \A i \in Job : i # j => SameJob(i)
  BY <1>1, <1>2 DEF Ledger, WorkTypeOK, SameJob, SamePlaces, payload
<1>5. MessageOK(j)'
  BY <1>1, <1>2 DEF Ledger, WorkTypeOK, SamePlaces, payload, MessageOK, FiberOK,
                    StageOK, MarkerOK, PlaceOK
<1>6. FiberOK(j)'
  BY <1>1, <1>2 DEF Ledger, WorkTypeOK, SamePlaces, MessageOK, FiberOK, StageOK,
                    EndOK, PlaceOK, Cancels
<1>7. StageOK(j)'
  BY <1>1, <1>2 DEF Ledger, WorkTypeOK, SamePlaces, MessageOK, FiberOK, StageOK,
                    EndOK, PlaceOK, Cancels
<1>8. MarkerOK(j)'
  BY <1>1, <1>2 DEF Ledger, WorkTypeOK, MessageOK, FiberOK, StageOK, MarkerOK
<1>9. EndOK(j)'
  BY <1>1, <1>2 DEF Ledger, WorkTypeOK, SamePlaces, FiberOK, StageOK, EndOK,
                    PlaceOK, Cancels
<1>10. PlaceOK(j)'
  BY <1>1 DEF WorkTypeOK, SamePlaces, payload, process, queue, FiberOK, StageOK,
              PlaceOK, QueuedJobs, Cancels, Confirmed, IsCancelling
<1> QED
  BY <1>1, <1>3, <1>4, <1>5, <1>6, <1>7, <1>8, <1>9, <1>10 DEF ActsAlone, JobOK

LEMMA StepSentAlone ==
  ASSUME NEW j \in Job, Knows(j), StepSent(j)
  PROVE  ActsAlone(j)
<1> USE WorkAssumption DEF Knows, JobOK, StepSent, journal
<1>1. SamePlaces
  BY DEF SamePlaces
<1>2. WorkTypeOK'
  BY <1>1 DEF WorkTypeOK, Stage, SamePlaces, payload, process, queue
<1>3. \A i \in Job : i # j => SameJob(i)
  BY <1>1 DEF Ledger, WorkTypeOK, SameJob, SamePlaces, payload
<1>4. MessageOK(j)'
  BY <1>1 DEF Ledger, WorkTypeOK, SamePlaces, payload, MessageOK, FiberOK, StageOK,
              MarkerOK, PlaceOK
<1>5. FiberOK(j)'
  BY <1>1 DEF Ledger, WorkTypeOK, SamePlaces, MessageOK, FiberOK, StageOK, EndOK,
              PlaceOK, Cancels
<1>6. StageOK(j)'
  BY <1>1 DEF Ledger, WorkTypeOK, SamePlaces, MessageOK, FiberOK, StageOK, EndOK,
              PlaceOK, Cancels
<1>7. MarkerOK(j)'
  BY <1>1 DEF Ledger, WorkTypeOK, MessageOK, FiberOK, StageOK, MarkerOK
<1>8. EndOK(j)'
  BY <1>1 DEF Ledger, WorkTypeOK, SamePlaces, FiberOK, StageOK, EndOK, PlaceOK,
              Cancels
<1>9. PlaceOK(j)'
  BY <1>1 DEF WorkTypeOK, SamePlaces, payload, process, queue, FiberOK, StageOK,
              PlaceOK, QueuedJobs, Cancels, Confirmed, IsCancelling
<1> QED
  BY <1>1, <1>2, <1>3, <1>4, <1>5, <1>6, <1>7, <1>8, <1>9 DEF ActsAlone, JobOK

LEMMA StepEndsAlone ==
  ASSUME NEW j \in Job, Knows(j), StepEnds(j)
  PROVE  ActsAlone(j)
<1> USE WorkAssumption DEF Knows, JobOK, StepEnds, journal
<1>1. SamePlaces
  BY DEF SamePlaces
<1>2. marker[j] = 1 /\ Len(shown[j]) = 1
  BY DEF Ledger, WorkTypeOK, MessageOK, FiberOK, StageOK, MarkerOK
<1>3. /\ shown' \in [Job -> Seq(Body)]
      /\ \A i \in Job : i # j => shown'[i] = shown[i]
      /\ Len(shown'[j]) = 1
      /\ \/ shown'[j][1] = shown[j][1]
         \/ shown[j][1] # "gone" /\ shown'[j][1] = "step"
  <2>1. \/ shown' = shown
        \/ shown[j][1] # "gone" /\ shown' = [shown EXCEPT ![j][1] = "step"]
    BY <1>2 DEF Gone
  <2>2. CASE shown' = shown
    BY <1>2, <2>2 DEF WorkTypeOK
  <2>3. CASE shown[j][1] # "gone" /\ shown' = [shown EXCEPT ![j][1] = "step"]
    <3> HIDE DEF Knows, JobOK, StepEnds, journal
    <3>1. /\ shown' \in [Job -> Seq(Body)]
          /\ \A i \in Job : i # j => shown'[i] = shown[i]
          /\ Len(shown'[j]) = Len(shown[j])
          /\ \A n \in 1 .. Len(shown[j]) :
               shown'[j][n] = IF n = 1 THEN "step" ELSE shown[j][n]
      BY <1>2, <2>3, Edits DEF Knows, Body, WorkTypeOK
    <3> QED
      BY <1>2, <2>3, <3>1
  <2> QED
    BY <2>1, <2>2, <2>3
<1>4. WorkTypeOK'
  BY <1>1, <1>3 DEF WorkTypeOK, Stage, SamePlaces, payload, process, queue
<1>5. \A i \in Job : i # j => SameJob(i)
  BY <1>1, <1>3 DEF Ledger, WorkTypeOK, SameJob, SamePlaces, payload
<1>6. MessageOK(j)'
  BY <1>1, <1>2, <1>3 DEF Ledger, WorkTypeOK, SamePlaces, payload, MessageOK,
                          FiberOK, StageOK, MarkerOK, PlaceOK
<1>7. FiberOK(j)'
  BY <1>1, <1>3 DEF Ledger, WorkTypeOK, SamePlaces, MessageOK, FiberOK, StageOK,
                    EndOK, PlaceOK, Cancels
<1>8. StageOK(j)'
  BY <1>1, <1>3 DEF Ledger, WorkTypeOK, SamePlaces, MessageOK, FiberOK, StageOK,
                    EndOK, PlaceOK, Cancels
<1>9. MarkerOK(j)'
  BY <1>1, <1>2, <1>3 DEF Ledger, WorkTypeOK, MessageOK, FiberOK, StageOK, MarkerOK
<1>10. EndOK(j)'
  BY <1>1, <1>3 DEF Ledger, WorkTypeOK, SamePlaces, FiberOK, StageOK, EndOK,
                    PlaceOK, Cancels
<1>11. PlaceOK(j)'
  BY <1>1 DEF WorkTypeOK, SamePlaces, payload, process, queue, FiberOK, StageOK,
              PlaceOK, QueuedJobs, Cancels, Confirmed, IsCancelling
<1> QED
  BY <1>1, <1>4, <1>5, <1>6, <1>7, <1>8, <1>9, <1>10, <1>11 DEF ActsAlone, JobOK

LEMMA TurnEndsAlone ==
  ASSUME NEW j \in Job, Knows(j),
         NEW o \in {"reply", "empty", "failed"}, TurnEnds(j, o)
  PROVE  ActsAlone(j)
<1> USE WorkAssumption DEF Knows, JobOK, TurnEnds, Goes, ComesTo, journal
<1>1. SamePlaces
  BY DEF SamePlaces
<1>2. WorkTypeOK'
  BY <1>1 DEF WorkTypeOK, Stage, SamePlaces, payload, process, queue
<1>3. \A i \in Job : i # j => SameJob(i)
  BY <1>1 DEF Ledger, WorkTypeOK, SameJob, SamePlaces, payload
<1>4. MessageOK(j)'
  BY <1>1 DEF Ledger, WorkTypeOK, SamePlaces, payload, MessageOK, FiberOK, StageOK,
              MarkerOK, PlaceOK
<1>5. FiberOK(j)'
  BY <1>1 DEF Ledger, WorkTypeOK, SamePlaces, MessageOK, FiberOK, StageOK, EndOK,
              PlaceOK, Cancels
<1>6. StageOK(j)'
  BY <1>1 DEF Ledger, WorkTypeOK, SamePlaces, MessageOK, FiberOK, StageOK, EndOK,
              PlaceOK, Cancels
<1>7. MarkerOK(j)'
  BY <1>1 DEF Ledger, WorkTypeOK, MessageOK, FiberOK, StageOK, MarkerOK
<1>8. EndOK(j)'
  BY <1>1 DEF Ledger, WorkTypeOK, SamePlaces, FiberOK, StageOK, EndOK, PlaceOK,
              Cancels
<1>9. PlaceOK(j)'
  BY <1>1 DEF WorkTypeOK, SamePlaces, payload, process, queue, FiberOK, StageOK,
              PlaceOK, QueuedJobs, Cancels, Confirmed, IsCancelling
<1> QED
  BY <1>1, <1>2, <1>3, <1>4, <1>5, <1>6, <1>7, <1>8, <1>9 DEF ActsAlone, JobOK

LEMMA FollowerStopsAlone ==
  ASSUME NEW j \in Job, Knows(j), FollowerStops(j)
  PROVE  ActsAlone(j)
<1> USE WorkAssumption DEF Knows, JobOK, FollowerStops, Goes, ComesTo, journal
<1>1. SamePlaces
  BY DEF SamePlaces
<1>2. Len(shown[j]) \in {0, 1}
  BY AtMostOne
<1>3. marker[j] = 1 /\ Len(shown[j]) = 1
  BY <1>2 DEF StageOK, MarkerOK
<1>4. WorkTypeOK'
  BY <1>1, <1>3 DEF WorkTypeOK, Stage, SamePlaces, payload, process, queue
<1>5. \A i \in Job : i # j => SameJob(i)
  BY <1>1, <1>3 DEF Ledger, WorkTypeOK, SameJob, SamePlaces, payload
<1>6. MessageOK(j)'
  BY <1>1 DEF Ledger, WorkTypeOK, SamePlaces, payload, MessageOK, FiberOK, StageOK,
              MarkerOK, PlaceOK
<1>7. FiberOK(j)'
  BY <1>1, <1>3 DEF Ledger, WorkTypeOK, SamePlaces, MessageOK, FiberOK, StageOK,
                    EndOK, PlaceOK, Cancels
<1>8. StageOK(j)'
  BY <1>1, <1>3 DEF Ledger, WorkTypeOK, SamePlaces, MessageOK, FiberOK, StageOK,
                    EndOK, PlaceOK, Cancels
<1>9. MarkerOK(j)'
  BY <1>1, <1>2, <1>3 DEF Ledger, WorkTypeOK, MessageOK, FiberOK, StageOK, MarkerOK
<1>10. EndOK(j)'
  BY <1>1, <1>3 DEF Ledger, WorkTypeOK, SamePlaces, FiberOK, StageOK, EndOK,
                    PlaceOK, Cancels
<1>11. PlaceOK(j)'
  BY <1>1 DEF WorkTypeOK, SamePlaces, payload, process, queue, FiberOK, StageOK,
              PlaceOK, QueuedJobs, Cancels, Confirmed, IsCancelling
<1> QED
  BY <1>1, <1>4, <1>5, <1>6, <1>7, <1>8, <1>9, <1>10, <1>11 DEF ActsAlone, JobOK

LEMMA PublishBeginsAlone ==
  ASSUME NEW j \in Job, Knows(j), PublishBegins(j)
  PROVE  ActsAlone(j)
<1> USE WorkAssumption DEF Knows, JobOK, PublishBegins, J!BeginAction, RunFails,
                           Goes, ComesTo, journal
<1>1. SamePlaces
  BY DEF SamePlaces
<1>2. WorkTypeOK'
  <2> USE <1>1 DEF WorkTypeOK, Stage, SamePlaces, payload, process, queue
  <2>1. /\ UNCHANGED <<notice, shown>>
        /\ \/ /\ pc' = [pc EXCEPT ![j] = "publishing"]
              /\ UNCHANGED <<out, marker, step>>
           \/ /\ pc' = [pc EXCEPT ![j] = "retract"]
              /\ \E x \in {"done", "failed"} : out' = [out EXCEPT ![j] = x]
              /\ UNCHANGED <<marker, step>>
    OBVIOUS
  <2>2. CASE /\ pc' = [pc EXCEPT ![j] = "publishing"]
            /\ UNCHANGED <<out, marker, step>>
    BY <2>1, <2>2
  <2>3. CASE /\ pc' = [pc EXCEPT ![j] = "retract"]
            /\ \E x \in {"done", "failed"} : out' = [out EXCEPT ![j] = x]
            /\ UNCHANGED <<marker, step>>
    BY <2>1, <2>3
  <2> QED
    BY <2>1, <2>2, <2>3
<1>3. \A i \in Job : i # j => SameJob(i)
  BY <1>1 DEF Ledger, WorkTypeOK, SameJob, SamePlaces, payload
<1>4. MessageOK(j)'
  BY <1>1 DEF Ledger, WorkTypeOK, SamePlaces, payload, MessageOK, FiberOK, StageOK,
              MarkerOK, PlaceOK
<1>5. FiberOK(j)'
  BY <1>1 DEF Ledger, WorkTypeOK, SamePlaces, MessageOK, FiberOK, StageOK, EndOK,
              PlaceOK, Cancels
<1>6. StageOK(j)'
  BY <1>1 DEF Ledger, WorkTypeOK, SamePlaces, MessageOK, FiberOK, StageOK, EndOK,
              PlaceOK, Cancels
<1>7. MarkerOK(j)'
  BY <1>1 DEF Ledger, WorkTypeOK, MessageOK, FiberOK, StageOK, MarkerOK
<1>8. EndOK(j)'
  BY <1>1 DEF Ledger, WorkTypeOK, SamePlaces, FiberOK, StageOK, EndOK, PlaceOK,
              Cancels
<1>9. PlaceOK(j)'
  BY <1>1 DEF WorkTypeOK, SamePlaces, payload, process, queue, FiberOK, StageOK,
              PlaceOK, QueuedJobs, Cancels, Confirmed, IsCancelling
<1> QED
  BY <1>1, <1>2, <1>3, <1>4, <1>5, <1>6, <1>7, <1>8, <1>9 DEF ActsAlone, JobOK

LEMMA PublishLandsAlone ==
  ASSUME NEW j \in Job, Knows(j), PublishLands(j)
  PROVE  ActsAlone(j)
<1> USE WorkAssumption DEF Knows, JobOK, PublishLands, J!LandAction, runs, journal
<1>1. SamePlaces
  BY DEF SamePlaces
<1>2. marker[j] = 1 /\ Len(shown[j]) = 1
  BY DEF Ledger, WorkTypeOK, MessageOK, FiberOK, StageOK, MarkerOK
<1>3. /\ shown' \in [Job -> Seq(Body)]
      /\ \A i \in Job : i # j => shown'[i] = shown[i]
      /\ Len(shown'[j]) = 1 /\ shown'[j][1] = IF out[j] = "reply" THEN "reply" ELSE "gone"
  BY <1>2, Shows, Removes DEF Body
<1>4. WorkTypeOK'
  BY <1>1, <1>3 DEF WorkTypeOK, Stage, SamePlaces, payload, process, queue
<1>5. \A i \in Job : i # j => SameJob(i)
  BY <1>1, <1>3 DEF Ledger, WorkTypeOK, SameJob, SamePlaces, payload
<1>6. MessageOK(j)'
  BY <1>1, <1>2, <1>3 DEF Ledger, WorkTypeOK, SamePlaces, payload, MessageOK,
                          FiberOK, StageOK, MarkerOK, PlaceOK
<1>7. FiberOK(j)'
  BY <1>1, <1>3 DEF Ledger, WorkTypeOK, SamePlaces, MessageOK, FiberOK, StageOK,
                    EndOK, PlaceOK, Cancels
<1>8. StageOK(j)'
  BY <1>1, <1>3 DEF Ledger, WorkTypeOK, SamePlaces, MessageOK, FiberOK, StageOK,
                    EndOK, PlaceOK, Cancels
<1>9. MarkerOK(j)'
  BY <1>1, <1>2, <1>3 DEF Ledger, WorkTypeOK, MessageOK, FiberOK, StageOK, MarkerOK
<1>10. EndOK(j)'
  BY <1>1, <1>3 DEF Ledger, WorkTypeOK, SamePlaces, FiberOK, StageOK, EndOK,
                    PlaceOK, Cancels
<1>11. PlaceOK(j)'
  BY <1>1 DEF WorkTypeOK, SamePlaces, payload, process, queue, FiberOK, StageOK,
              PlaceOK, QueuedJobs, Cancels, Confirmed, IsCancelling
<1> QED
  BY <1>1, <1>4, <1>5, <1>6, <1>7, <1>8, <1>9, <1>10, <1>11 DEF ActsAlone, JobOK

LEMMA PublishEndsAlone ==
  ASSUME NEW j \in Job, Knows(j), PublishEnds(j)
  PROVE  ActsAlone(j)
<1> USE WorkAssumption DEF Knows, JobOK, PublishEnds, J!RecordAction, J!FailAction,
                           RunFails, Goes, ComesTo, journal
<1>1. SamePlaces
  BY DEF SamePlaces
<1>2. WorkTypeOK'
  <2> USE <1>1 DEF WorkTypeOK, Stage, SamePlaces, payload, process, queue
  <2>1. /\ UNCHANGED <<notice, shown>>
        /\ \/ /\ pc' = [pc EXCEPT ![j] = "retract"]
              /\ out' = [out EXCEPT ![j] = "done"]
              /\ UNCHANGED step
              /\ marker' = [marker EXCEPT ![j] = 0]
           \/ /\ pc' = [pc EXCEPT ![j] = "retract"]
              /\ out' = [out EXCEPT ![j] = "failed"]
              /\ UNCHANGED <<step, marker>>
    OBVIOUS
  <2>2. CASE /\ pc' = [pc EXCEPT ![j] = "retract"]
            /\ out' = [out EXCEPT ![j] = "done"]
            /\ UNCHANGED step
            /\ marker' = [marker EXCEPT ![j] = 0]
    BY <2>1, <2>2
  <2>3. CASE /\ pc' = [pc EXCEPT ![j] = "retract"]
            /\ out' = [out EXCEPT ![j] = "failed"]
            /\ UNCHANGED <<step, marker>>
    BY <2>1, <2>3
  <2> QED
    BY <2>1, <2>2, <2>3
<1>3. \A i \in Job : i # j => SameJob(i)
  BY <1>1 DEF Ledger, WorkTypeOK, SameJob, SamePlaces, payload
<1>4. MessageOK(j)'
  BY <1>1 DEF Ledger, WorkTypeOK, SamePlaces, payload, MessageOK, FiberOK, StageOK,
              MarkerOK, PlaceOK
<1>5. FiberOK(j)'
  BY <1>1 DEF Ledger, WorkTypeOK, SamePlaces, MessageOK, FiberOK, StageOK, EndOK,
              PlaceOK, Cancels
<1>6. StageOK(j)'
  BY <1>1 DEF Ledger, WorkTypeOK, SamePlaces, MessageOK, FiberOK, StageOK, EndOK,
              PlaceOK, Cancels
<1>7. MarkerOK(j)'
  BY <1>1 DEF Ledger, WorkTypeOK, MessageOK, FiberOK, StageOK, MarkerOK
<1>8. EndOK(j)'
  BY <1>1 DEF Ledger, WorkTypeOK, SamePlaces, FiberOK, StageOK, EndOK, PlaceOK,
              Cancels
<1>9. PlaceOK(j)'
  BY <1>1 DEF WorkTypeOK, SamePlaces, payload, process, queue, FiberOK, StageOK,
              PlaceOK, QueuedJobs, Cancels, Confirmed, IsCancelling
<1> QED
  BY <1>1, <1>2, <1>3, <1>4, <1>5, <1>6, <1>7, <1>8, <1>9 DEF ActsAlone, JobOK

LEMMA RetractBeginsAlone ==
  ASSUME NEW j \in Job, Knows(j), RetractBegins(j)
  PROVE  ActsAlone(j)
<1> USE WorkAssumption DEF Knows, JobOK, RetractBegins, J!BeginAction, RunFails,
                           Goes, ComesTo, journal
<1>1. SamePlaces
  BY DEF SamePlaces
<1>2. WorkTypeOK'
  <2> USE <1>1 DEF WorkTypeOK, Stage, SamePlaces, payload, process, queue
  <2>1. /\ UNCHANGED <<notice, shown>>
        /\ \/ /\ pc' = [pc EXCEPT ![j] = "retracting"]
              /\ UNCHANGED <<out, marker, step>>
           \/ /\ pc' = [pc EXCEPT ![j] = "end"]
              /\ out' \in {out, [out EXCEPT ![j] = "uncancelled"]}
              /\ UNCHANGED <<marker, step>>
    OBVIOUS
  <2>2. CASE /\ pc' = [pc EXCEPT ![j] = "retracting"]
            /\ UNCHANGED <<out, marker, step>>
    BY <2>1, <2>2
  <2>3. CASE /\ pc' = [pc EXCEPT ![j] = "end"]
            /\ out' \in {out, [out EXCEPT ![j] = "uncancelled"]}
            /\ UNCHANGED <<marker, step>>
    BY <2>1, <2>3
  <2> QED
    BY <2>1, <2>2, <2>3
<1>3. \A i \in Job : i # j => SameJob(i)
  BY <1>1 DEF Ledger, WorkTypeOK, SameJob, SamePlaces, payload
<1>4. MessageOK(j)'
  BY <1>1 DEF Ledger, WorkTypeOK, SamePlaces, payload, MessageOK, FiberOK, StageOK,
              MarkerOK, PlaceOK
<1>5. FiberOK(j)'
  BY <1>1 DEF Ledger, WorkTypeOK, SamePlaces, MessageOK, FiberOK, StageOK, EndOK,
              PlaceOK, Cancels
<1>6. StageOK(j)'
  BY <1>1 DEF Ledger, WorkTypeOK, SamePlaces, MessageOK, FiberOK, StageOK, EndOK,
              PlaceOK, Cancels
<1>7. MarkerOK(j)'
  BY <1>1 DEF Ledger, WorkTypeOK, MessageOK, FiberOK, StageOK, MarkerOK
<1>8. EndOK(j)'
  BY <1>1 DEF Ledger, WorkTypeOK, SamePlaces, FiberOK, StageOK, EndOK, PlaceOK,
              Cancels
<1>9. PlaceOK(j)'
  BY <1>1 DEF WorkTypeOK, SamePlaces, payload, process, queue, FiberOK, StageOK,
              PlaceOK, QueuedJobs, Cancels, Confirmed, IsCancelling
<1> QED
  BY <1>1, <1>2, <1>3, <1>4, <1>5, <1>6, <1>7, <1>8, <1>9 DEF ActsAlone, JobOK

LEMMA RetractLandsAlone ==
  ASSUME NEW j \in Job, Knows(j), RetractLands(j)
  PROVE  ActsAlone(j)
<1> USE WorkAssumption DEF Knows, JobOK, RetractLands, J!LandAction, runs, journal
<1>1. SamePlaces
  BY DEF SamePlaces
<1>2. Len(shown[j]) \in {0, 1} /\ (marker[j] = 1 => Len(shown[j]) = 1)
  BY DEF Ledger, WorkTypeOK, MessageOK, FiberOK, StageOK, MarkerOK
<1>3. /\ shown' \in [Job -> Seq(Body)]
      /\ \A i \in Job : i # j => shown'[i] = shown[i]
      /\ IF row[j][Publish] = NoRow /\ marker[j] = 1
         THEN /\ Len(shown'[j]) = Len(shown[j])
              /\ \A m \in 1 .. Len(shown[j]) : shown'[j][m] = "gone"
         ELSE shown'[j] = shown[j]
  <2>1. CASE row[j][Publish] = NoRow /\ marker[j] = 1
    BY <1>2, <2>1, Removes
  <2>2. CASE ~ (row[j][Publish] = NoRow /\ marker[j] = 1)
    BY <2>2 DEF WorkTypeOK, Remove
  <2> QED
    BY <2>1, <2>2
<1>4. WorkTypeOK'
  BY <1>1, <1>3 DEF WorkTypeOK, Stage, SamePlaces, payload, process, queue
<1>5. \A i \in Job : i # j => SameJob(i)
  BY <1>1, <1>3 DEF Ledger, WorkTypeOK, SameJob, SamePlaces, payload
<1>6. MessageOK(j)'
  <2>1. CASE row[j][Publish] = NoRow /\ marker[j] = 1
    BY <1>1, <1>2, <1>3, <2>1 DEF Ledger, WorkTypeOK, SamePlaces, payload,
                                  MessageOK, FiberOK, StageOK, MarkerOK, PlaceOK
  <2>2. CASE ~ (row[j][Publish] = NoRow /\ marker[j] = 1)
    BY <1>1, <1>2, <1>3, <2>2 DEF Ledger, WorkTypeOK, SamePlaces, payload,
                                  MessageOK, FiberOK, StageOK, MarkerOK, PlaceOK
  <2> QED
    BY <2>1, <2>2
<1>7. FiberOK(j)'
  BY <1>1, <1>3 DEF Ledger, WorkTypeOK, SamePlaces, MessageOK, FiberOK, StageOK,
                    EndOK, PlaceOK, Cancels
<1>8. StageOK(j)'
  BY <1>1, <1>3 DEF Ledger, WorkTypeOK, SamePlaces, MessageOK, FiberOK, StageOK,
                    EndOK, PlaceOK, Cancels
<1>9. MarkerOK(j)'
  <2>1. CASE row[j][Publish] = NoRow /\ marker[j] = 1
    BY <1>1, <1>2, <1>3, <2>1 DEF Ledger, WorkTypeOK, MessageOK, FiberOK, StageOK,
                                  MarkerOK
  <2>2. CASE ~ (row[j][Publish] = NoRow /\ marker[j] = 1)
    BY <1>1, <1>2, <1>3, <2>2 DEF Ledger, WorkTypeOK, MessageOK, FiberOK, StageOK,
                                  MarkerOK
  <2> QED
    BY <2>1, <2>2
<1>10. EndOK(j)'
  BY <1>1, <1>3 DEF Ledger, WorkTypeOK, SamePlaces, FiberOK, StageOK, EndOK,
                    PlaceOK, Cancels
<1>11. PlaceOK(j)'
  BY <1>1 DEF WorkTypeOK, SamePlaces, payload, process, queue, FiberOK, StageOK,
              PlaceOK, QueuedJobs, Cancels, Confirmed, IsCancelling
<1> QED
  BY <1>1, <1>4, <1>5, <1>6, <1>7, <1>8, <1>9, <1>10, <1>11 DEF ActsAlone, JobOK

LEMMA RetractEndsAlone ==
  ASSUME NEW j \in Job, Knows(j), RetractEnds(j)
  PROVE  ActsAlone(j)
<1> USE WorkAssumption DEF Knows, JobOK, RetractEnds, J!RecordAction, J!FailAction,
                           RunFails, Goes, ComesTo, journal
<1>1. SamePlaces
  BY DEF SamePlaces
<1>2. WorkTypeOK'
  <2> USE <1>1 DEF WorkTypeOK, Stage, SamePlaces, payload, process, queue
  <2>1. /\ UNCHANGED <<notice, shown>>
        /\ \/ /\ pc' = [pc EXCEPT ![j] = "end"]
              /\ UNCHANGED <<out, marker, step>>
           \/ /\ pc' = [pc EXCEPT ![j] = "end"]
              /\ out' = [out EXCEPT ![j] = "uncancelled"]
              /\ UNCHANGED <<marker, step>>
    OBVIOUS
  <2>2. CASE /\ pc' = [pc EXCEPT ![j] = "end"]
            /\ UNCHANGED <<out, marker, step>>
    BY <2>1, <2>2
  <2>3. CASE /\ pc' = [pc EXCEPT ![j] = "end"]
            /\ out' = [out EXCEPT ![j] = "uncancelled"]
            /\ UNCHANGED <<marker, step>>
    BY <2>1, <2>3
  <2> QED
    BY <2>1, <2>2, <2>3
<1>3. \A i \in Job : i # j => SameJob(i)
  BY <1>1 DEF Ledger, WorkTypeOK, SameJob, SamePlaces, payload
<1>4. MessageOK(j)'
  BY <1>1 DEF Ledger, WorkTypeOK, SamePlaces, payload, MessageOK, FiberOK, StageOK,
              MarkerOK, PlaceOK
<1>5. FiberOK(j)'
  BY <1>1 DEF Ledger, WorkTypeOK, SamePlaces, MessageOK, FiberOK, StageOK, EndOK,
              PlaceOK, Cancels
<1>6. StageOK(j)'
  BY <1>1 DEF Ledger, WorkTypeOK, SamePlaces, MessageOK, FiberOK, StageOK, EndOK,
              PlaceOK, Cancels
<1>7. MarkerOK(j)'
  BY <1>1 DEF Ledger, WorkTypeOK, MessageOK, FiberOK, StageOK, MarkerOK
<1>8. EndOK(j)'
  BY <1>1 DEF Ledger, WorkTypeOK, SamePlaces, FiberOK, StageOK, EndOK, PlaceOK,
              Cancels
<1>9. PlaceOK(j)'
  BY <1>1 DEF WorkTypeOK, SamePlaces, payload, process, queue, FiberOK, StageOK,
              PlaceOK, QueuedJobs, Cancels, Confirmed, IsCancelling
<1> QED
  BY <1>1, <1>2, <1>3, <1>4, <1>5, <1>6, <1>7, <1>8, <1>9 DEF ActsAlone, JobOK

LEMMA CancelBeginsAlone ==
  ASSUME NEW j \in Job, Knows(j), CancelBegins(j)
  PROVE  ActsAlone(j)
<1> USE WorkAssumption DEF Knows, JobOK, CancelBegins, Goes, ComesTo, journal
<1>1. SamePlaces
  BY DEF SamePlaces
<1>2. Len(shown[j]) \in {0, 1}
  BY AtMostOne
<1>3. Len(shown[j]) = IF J!Recorded(j, Working) THEN row[j][Working]
                      ELSE IF J!Recorded(j, Notice) THEN row[j][Notice] ELSE 0
  <2> USE DEF Ledger, MessageOK
  <2>1. CASE J!Recorded(j, Working)
    BY <2>1
  <2>2. CASE row[j][Working] = NoRow /\ J!Recorded(j, Notice)
    BY <2>2
  <2>3. CASE row[j][Working] = NoRow /\ row[j][Notice] = NoRow
    BY <2>3
  <2> QED
    BY <2>1, <2>2, <2>3
<1>4. marker' = [marker EXCEPT ![j] = Len(shown[j])] /\ Len(shown[j]) \in {0, 1}
  BY <1>2, <1>3
<1>5. WorkTypeOK'
  <2> USE <1>1 DEF WorkTypeOK, Stage, SamePlaces, payload, process, queue
  <2>1. /\ UNCHANGED <<notice, shown>>
        /\ pc' = [pc EXCEPT ![j] = "retract"]
        /\ out' = [out EXCEPT ![j] = "cancel"]
        /\ UNCHANGED step
    BY <1>4
  <2> QED
    BY <1>4, <2>1
<1>6. \A i \in Job : i # j => SameJob(i)
  BY <1>1, <1>4 DEF Ledger, WorkTypeOK, SameJob, SamePlaces, payload
<1>7. MessageOK(j)'
  BY <1>1, <1>2, <1>4 DEF Ledger, WorkTypeOK, SamePlaces, payload, MessageOK,
                          FiberOK, StageOK, MarkerOK, PlaceOK
<1>8. FiberOK(j)'
  BY <1>1, <1>4 DEF Ledger, WorkTypeOK, SamePlaces, MessageOK, FiberOK, StageOK,
                    EndOK, PlaceOK, Cancels
<1>9. StageOK(j)'
  BY <1>1, <1>4 DEF Ledger, WorkTypeOK, SamePlaces, MessageOK, FiberOK, StageOK,
                    EndOK, PlaceOK, Cancels
<1>10. MarkerOK(j)'
  BY <1>1, <1>2, <1>4 DEF Ledger, WorkTypeOK, MessageOK, FiberOK, StageOK, MarkerOK
<1>11. EndOK(j)'
  BY <1>1, <1>4 DEF Ledger, WorkTypeOK, SamePlaces, FiberOK, StageOK, EndOK,
                    PlaceOK, Cancels
<1>12. PlaceOK(j)'
  BY <1>1 DEF WorkTypeOK, SamePlaces, payload, process, queue, FiberOK, StageOK,
              PlaceOK, QueuedJobs, Cancels, Confirmed, IsCancelling
<1> QED
  BY <1>1, <1>5, <1>6, <1>7, <1>8, <1>9, <1>10, <1>11, <1>12 DEF ActsAlone, JobOK

HIDE DEF ActionKey, Notice, Working, Publish, Retract, Marker, J!Recorded,
J!Replays,
         J!Uncertain, J!Open, Starting, Turning, Publishing, Cleaning

-----------------------------------------------------------------------------
(* Steps that move a job from one place to another. *)

Both ==
  /\ Ledger /\ Ledger' /\ Line /\ Line'
  /\ OwnInv

(* The loop of startWaiting moves tasks, and loses none.                   *)
LEMMA StartsFrom ==
  ASSUME NEW k, NEW busy, NEW line, NEW begun, Q!StartWaiting(k, busy, line, begun)
  PROVE  waiting' \cup started' = line \cup begun /\ begun \subseteq started'
  BY DEF Q!StartWaiting

LEMMA RunBeginsKeeps ==
  ASSUME Both, NEW j \in Job, RunBegins(j)
  PROVE  OwnInv'
<1> USE DEF Both, OwnInv
<1>1. /\ j \in started /\ status[j] \in J!Open /\ pc[j] = "idle" /\ out[j] = "none"
      /\ status' = [status EXCEPT ![j] = "running"]
      /\ pc' = [pc EXCEPT ![j] = "join"]
      /\ UNCHANGED <<row, call, landed, payload, queue, process, notice, out, marker,
                     step, shown>>
  BY DEF RunBegins, J!MarkRunning, J!Mark, Goes, PlaceOK, QueuedJobs, JobOK, EndOK,
     J!Open, J!Ended
<1>2. \A k : IsCancelling(k)' <=> IsCancelling(k)
  BY <1>1 DEF IsCancelling, J!Open, Ledger, payload
<1>3. WorkTypeOK'
  BY <1>1 DEF WorkTypeOK, Stage, payload, process
<1>4. \A i \in Job : i # j => SameJob(i)
  BY <1>1 DEF SameJob, Ledger, WorkTypeOK, payload
<1>5. JobOK(j)'
  <2>1. MessageOK(j)' /\ FiberOK(j)' /\ StageOK(j)' /\ MarkerOK(j)'
    BY <1>1 DEF JobOK, MessageOK, FiberOK, StageOK, MarkerOK, J!Recorded,
                WorkTypeOK,
       payload, Starting, Turning, Publishing, Cleaning
  <2>2. EndOK(j)'
    BY <1>1 DEF JobOK, EndOK, J!Recorded, WorkTypeOK, Ledger, Cancels, J!Open
  <2> QED
    BY <2>1, <2>2 DEF JobOK
<1>6. \A i \in Job : JobOK(i)'
  BY <1>4, <1>5, OtherJob
<1>7. \A i \in Job : PlaceOK(i)'
  BY <1>1, <1>2 DEF PlaceOK, WorkTypeOK, Ledger, payload, queue, process,
                    QueuedJobs,
     Cancels, Confirmed, J!Open, J!Unfinished, J!Ended
<1>8. LifeOK'
  BY <1>1 DEF LifeOK, queue, process, QueuedJobs
<1> QED
  BY <1>3, <1>6, <1>7, <1>8

LEMMA RunEndsKeeps ==
  ASSUME Both, NEW j \in Job, RunEnds(j)
  PROVE  OwnInv'
<1> USE DEF Both, OwnInv
<1>1. /\ j \in started /\ j \in QueuedJobs /\ status[j] = "running" /\ pc[j] = "end"
      /\ out[j] \in {"done", "failed"}
      /\ status' = [status EXCEPT ![j] = IF out[j] = "done" THEN "completed" ELSE "failed"]
      /\ pc' = [pc EXCEPT ![j] = "idle"]
      /\ access' = [access EXCEPT ![j] = "none"]
      /\ UNCHANGED <<row, call, landed, payload, key, host, todo, ready, crashes, notice,
                     out, marker, step, shown>>
  BY DEF RunEnds, J!MarkCompleted, J!MarkFailed, J!Mark, Q!Finish, Goes, PlaceOK,
         Cancels,
     J!Open, QueuedJobs
<1>2. \A k : IsCancelling(k)' <=> IsCancelling(k)
  BY <1>1 DEF IsCancelling, Ledger, payload
<1>3. QueuedJobs' = QueuedJobs \ {j} /\ started \ {j} \subseteq started'
  <2>1. Q!StartWaiting(key, running \ {key[j]}, waiting, started \ {j})
    BY DEF RunEnds, Q!Finish
  <2> QED
    BY <1>1, <2>1, StartsFrom DEF QueuedJobs, Line
<1>4. WorkTypeOK'
  BY <1>1 DEF WorkTypeOK, Stage, payload
<1>5. \A i \in Job : i # j => SameJob(i)
  BY <1>1 DEF SameJob, Ledger, WorkTypeOK, payload
<1>6. JobOK(j)'
  <2>1. MessageOK(j)' /\ FiberOK(j)' /\ StageOK(j)' /\ MarkerOK(j)'
    BY <1>1 DEF JobOK, MessageOK, FiberOK, StageOK, MarkerOK, J!Recorded,
                WorkTypeOK,
       payload, Starting, Turning, Publishing, Cleaning
  <2>2. EndOK(j)'
    BY <1>1 DEF JobOK, EndOK, J!Recorded, WorkTypeOK, Ledger, Cancels, J!Ended
  <2> QED
    BY <2>1, <2>2 DEF JobOK
<1>7. \A i \in Job : JobOK(i)'
  BY <1>5, <1>6, OtherJob
<1>8. PlaceOK(j)'
  <2>1. j \notin todo /\ j \notin ready /\ notice[j] \notin {"begin", "posting"}
    BY <1>1 DEF LifeOK, PlaceOK, JobOK, FiberOK
  <2>2. status'[j] \in J!Ended /\ status'[j] \notin J!Open \cup {"absent"} /\ pc'[j] = "idle"
    BY <1>1 DEF Ledger, WorkTypeOK, J!Open, J!Ended
  <2> QED
    BY <1>1, <1>3, <2>1, <2>2 DEF PlaceOK, payload
<1>9. \A i \in Job : i # j => PlaceOK(i)'
  BY <1>1, <1>2, <1>3 DEF PlaceOK, WorkTypeOK, Ledger, payload,
     Cancels, Confirmed
<1>10. LifeOK'
  BY <1>1, <1>3 DEF LifeOK
<1> QED
  BY <1>4, <1>7, <1>8, <1>9, <1>10

(* admit, from an event or from restore: the job goes to the queue's end.  *)
LEMMA AdmitMoves ==
  ASSUME Both, NEW j \in Job, NEW k \in Thread, Admit(j, k)
  PROVE  /\ key' = [key EXCEPT ![j] = k]
         /\ notice' = [notice EXCEPT ![j] = "begin"]
         /\ QueuedJobs' = QueuedJobs \cup {j} /\ started \subseteq started'
<1>1. Q!StartWaiting(key', running, waiting \cup {j}, started)
  BY DEF Admit, Q!Enqueue
<1> QED
  BY <1>1, StartsFrom DEF Admit, Q!Enqueue, QueuedJobs

LEMMA AcceptKeeps ==
  ASSUME Both, NEW j \in Job, NEW k \in Thread, NEW adm \in FromAdmin, Accept(j, k, adm)
  PROVE  OwnInv'
<1> USE DEF Both, OwnInv
<1>1. /\ host = "open" /\ status[j] = "absent" /\ ~ IsCancelling(k)
      /\ status' = [status EXCEPT ![j] = "queued"]
      /\ thread' = [thread EXCEPT ![j] = k]
      /\ admin' = [admin EXCEPT ![j] = adm]
      /\ access' = [access EXCEPT ![j] = IF adm THEN "admin" ELSE "member"]
      /\ UNCHANGED <<row, call, landed, host, todo, ready, crashes, pc, out, marker, step,
                     shown>>
  BY DEF Accept, J!Create
<1>2. late' \in [Job -> BOOLEAN] /\ \A i \in Job : i # j => late'[i] = late[i]
  BY DEF Accept, WorkTypeOK
<1>3. /\ key' = [key EXCEPT ![j] = k]
      /\ notice' = [notice EXCEPT ![j] = "begin"]
      /\ QueuedJobs' = QueuedJobs \cup {j} /\ started \subseteq started'
  BY AdmitMoves DEF Accept
<1>4. adm \in BOOLEAN /\ todo = {} /\ ready = {} /\ k # NoThread
  BY <1>1, WorkAssumption DEF LifeOK
<1>5. \A l : IsCancelling(l)' <=> IsCancelling(l)
  BY <1>1 DEF IsCancelling, Ledger, WorkTypeOK
<1>6. WorkTypeOK'
  BY <1>1, <1>2, <1>3, <1>4 DEF WorkTypeOK
<1>7. \A i \in Job : i # j => SameJob(i)
  BY <1>1, <1>2, <1>3 DEF SameJob, Ledger, WorkTypeOK
<1>8. /\ pc[j] = "idle" /\ out[j] = "none"
      /\ \A m \in ActionKey : row[j][m] = NoRow /\ landed[j][m] = 0 /\ call[j][m] = "none"
  BY <1>1, WorkAssumption
  DEF PlaceOK, JobOK, EndOK, Cancels, Ledger, J!Ended
<1>9. JobOK(j)'
  <2>1. Len(shown[j]) = 0
    BY <1>8 DEF JobOK, MessageOK, ActionKey, Notice, Working
  <2>2. MessageOK(j)'
    BY <1>1, <1>8, <2>1, WorkAssumption
    DEF MessageOK, J!Recorded, ActionKey, Notice, Working, Publish, Retract, Marker
  <2>3. FiberOK(j)' /\ StageOK(j)' /\ MarkerOK(j)'
    BY <1>1, <1>3, <1>8, WorkAssumption
    DEF JobOK, FiberOK, StageOK, MarkerOK, J!Recorded, ActionKey, Notice, Working,
        Publish,
        Retract, Marker, Starting, Turning, Publishing, Cleaning, WorkTypeOK
  <2>4. EndOK(j)'
    BY <1>1, <1>8 DEF EndOK, Ledger, Cancels, ActionKey, Retract
  <2> QED
    BY <2>2, <2>3, <2>4 DEF JobOK
<1>10. \A i \in Job : JobOK(i)'
  BY <1>7, <1>9, OtherJob
<1>11. PlaceOK(j)'
  BY <1>1, <1>3, <1>4, <1>5, <1>8
  DEF PlaceOK, WorkTypeOK, Ledger, Line, Confirmed, Cancels, J!Open
<1>12. \A i \in Job : i # j => PlaceOK(i)'
  BY <1>1, <1>3, <1>4, <1>5 DEF PlaceOK, WorkTypeOK, Ledger, Line, Confirmed,
                                Cancels
<1>13. LifeOK'
  BY <1>1, <1>4 DEF LifeOK
<1> QED
  BY <1>6, <1>10, <1>11, <1>12, <1>13

-----------------------------------------------------------------------------
(* Restore, and the end of a process. *)

LEMMA OldestIsLeast ==
  ASSUME NEW S \in SUBSET Job, NEW j \in S, j = Oldest(S)
  PROVE  \A i \in S : j <= i
<1>1. \E m \in S : \A i \in S : m <= i
  BY PartsAssumptions, QP!LeastNumber
<1> QED
  BY <1>1 DEF Oldest

LEMMA RestoreChecksKeeps ==
  ASSUME Both, NEW j \in Job, NEW a \in {"admin", "member", "denied"},
         RestoreChecks(j, a)
  PROVE  OwnInv'
<1> USE DEF Both, OwnInv
<1>1. /\ host = "restoring" /\ j \in todo /\ status[j] \in J!Open
      /\ access' = [access EXCEPT ![j] = a]
      /\ UNCHANGED <<row, call, landed, payload, queue, host, crashes, runs, shown>>
  BY DEF RestoreChecks, J!RequestCancel, J!Mark, journal
<1>2. QueuedJobs = {} /\ notice[j] = "none" /\ j \notin ready
      /\ pc[j] = "idle" /\ out[j] = "none"
  BY <1>1 DEF LifeOK, PlaceOK, JobOK, EndOK, QueuedJobs, Cancels, J!Open, J!Ended,
     WorkTypeOK
<1>3. WorkTypeOK'
  BY <1>1 DEF RestoreChecks, WorkTypeOK, payload, runs
<1>4. CASE Resumes(j, a)
  <2>1. /\ todo' = todo \ {j} /\ ready' = ready \cup {j} /\ status' = status
    BY <1>4 DEF RestoreChecks, journal
  <2>2. \A i \in Job : JobOK(i)'
    BY <1>1, <2>1, OtherJob DEF SameJob, payload, runs
  <2>3. Confirmed(j)'
    BY <1>1, <1>4 DEF Confirmed, Resumes, WorkTypeOK, payload
  <2>4. \A i \in Job : PlaceOK(i)'
    BY <1>1, <1>2, <2>1, <2>3 DEF PlaceOK, WorkTypeOK, payload, queue, runs,
                                  QueuedJobs,
       Cancels, Confirmed, IsCancelling
  <2>5. LifeOK'
    BY <1>1, <1>2, <2>1 DEF LifeOK, queue, QueuedJobs
  <2> QED
    BY <1>3, <2>2, <2>4, <2>5
<1>5. CASE ~ Resumes(j, a)
  <2>1. /\ todo' = todo /\ ready' = ready
        /\ status' = [status EXCEPT ![j] = "cancelling"]
    BY <1>1, <1>5 DEF RestoreChecks, J!RequestCancel, J!Mark
  <2>2. \A i \in Job : i # j => SameJob(i)
    BY <1>1, <2>1 DEF SameJob, payload, runs, Ledger
  <2>3. JobOK(j)'
    <3>1. MessageOK(j)' /\ FiberOK(j)' /\ StageOK(j)' /\ MarkerOK(j)'
      BY <1>1 DEF JobOK, MessageOK, FiberOK, StageOK, MarkerOK, J!Recorded,
                  payload, runs
    <3>2. EndOK(j)'
      BY <1>1, <1>2, <2>1 DEF JobOK, EndOK, J!Recorded, payload, runs, Cancels,
                              Ledger
    <3> QED
      BY <3>1, <3>2 DEF JobOK
  <2>4. \A i \in Job : JobOK(i)'
    BY <2>2, <2>3, OtherJob
  <2>5. PlaceOK(j)'
    BY <1>1, <1>2, <2>1 DEF PlaceOK, WorkTypeOK, Ledger, payload, queue, runs,
                            QueuedJobs,
       Cancels, J!Open, J!Unfinished
  <2>6. \A i \in Job : i # j => PlaceOK(i)'
    BY <1>1, <1>2, <2>1 DEF PlaceOK, WorkTypeOK, Ledger, payload, queue, runs,
                            QueuedJobs,
       Cancels, Confirmed
  <2>7. LifeOK'
    BY <1>1, <1>2, <2>1 DEF LifeOK, queue, QueuedJobs
  <2> QED
    BY <1>3, <2>4, <2>5, <2>6, <2>7
<1> QED
  BY <1>4, <1>5

LEMMA CancelRefusedKeeps ==
  ASSUME Both, NEW j \in Job, CancelRefused(j)
  PROVE  OwnInv'
<1> USE DEF Both, OwnInv
<1>1. /\ host = "restoring" /\ j \in todo /\ status[j] = "cancelling" /\ pc[j] = "idle"
      /\ status' = status /\ todo' = todo \ {j}
      /\ access' = [access EXCEPT ![j] = "none"]
      /\ UNCHANGED <<row, call, landed, payload, queue, host, ready, crashes, runs, shown>>
  BY DEF CancelRefused, J!MarkFailed, J!Mark, J!Open, Ledger
<1>2. QueuedJobs = {} /\ j \notin ready
  BY <1>1 DEF LifeOK, PlaceOK
<1>3. WorkTypeOK'
  BY <1>1 DEF WorkTypeOK, payload, runs
<1>4. \A i \in Job : JobOK(i)'
  BY <1>1, OtherJob DEF SameJob, payload, runs
<1>5. \A i \in Job : PlaceOK(i)'
  BY <1>1, <1>2 DEF PlaceOK, WorkTypeOK, payload, queue, runs, QueuedJobs, Cancels,
     Confirmed, IsCancelling, J!Open
<1>6. LifeOK'
  BY <1>1, <1>2 DEF LifeOK, queue, QueuedJobs
<1> QED
  BY <1>3, <1>4, <1>5, <1>6

LEMMA CancelEndsKeeps ==
  ASSUME Both, NEW j \in Job, CancelEnds(j)
  PROVE  OwnInv'
<1> USE DEF Both, OwnInv
<1>1. /\ pc[j] = "end" /\ Cancels(j) /\ j \in todo /\ status[j] = "cancelling"
      /\ host = "restoring" /\ QueuedJobs = {} /\ j \notin ready
  BY DEF CancelEnds, Cancels, PlaceOK, LifeOK
<1>2. /\ status' = [status EXCEPT ![j] = IF out[j] = "cancel" THEN "cancelled"
                                         ELSE "cancelling"]
      /\ todo' = todo \ {j}
      /\ pc' = [pc EXCEPT ![j] = "idle"]
      /\ access' = [access EXCEPT ![j] = "none"]
      /\ UNCHANGED <<row, call, landed, payload, queue, host, ready, crashes, notice, out,
                     marker, step, shown>>
  BY <1>1 DEF CancelEnds, J!MarkCancelled, J!MarkFailed, J!Mark, J!Open,
              J!Unfinished,
     Goes, Cancels
<1>3. WorkTypeOK'
  BY <1>2 DEF WorkTypeOK, Stage, payload
<1>4. \A i \in Job : i # j => SameJob(i)
  BY <1>2 DEF SameJob, Ledger, WorkTypeOK, payload
<1>5. JobOK(j)'
  <2>1. MessageOK(j)' /\ FiberOK(j)' /\ StageOK(j)' /\ MarkerOK(j)'
    BY <1>1, <1>2 DEF JobOK, MessageOK, FiberOK, StageOK, MarkerOK, J!Recorded,
                      WorkTypeOK,
       payload, Starting, Turning, Publishing, Cleaning
  <2>2. EndOK(j)'
    BY <1>1, <1>2 DEF JobOK, EndOK, J!Recorded, WorkTypeOK, Ledger, Cancels, J!Ended
  <2> QED
    BY <2>1, <2>2 DEF JobOK
<1>6. \A i \in Job : JobOK(i)'
  BY <1>4, <1>5, OtherJob
<1>7. PlaceOK(j)'
  <2>1. status'[j] \in {"cancelled", "cancelling"} /\ notice[j] = "none"
    BY <1>1, <1>2 DEF Ledger, PlaceOK, J!Ended
  <2> QED
    BY <1>1, <1>2, <2>1 DEF PlaceOK, WorkTypeOK, payload, queue, QueuedJobs, J!Open
<1>8. \A i \in Job : i # j => PlaceOK(i)'
  BY <1>1, <1>2 DEF PlaceOK, WorkTypeOK, Ledger, payload, queue, QueuedJobs,
                    Cancels,
     Confirmed
<1>9. LifeOK'
  BY <1>1, <1>2 DEF LifeOK, queue, QueuedJobs
<1> QED
  BY <1>3, <1>6, <1>7, <1>8, <1>9

LEMMA RestoreAdmitsKeeps ==
  ASSUME Both, NEW j \in Job, RestoreAdmits(j)
  PROVE  OwnInv'
<1> USE DEF Both, OwnInv
<1>1. /\ host = "restoring" /\ todo = {} /\ j \in ready
      /\ ready' = ready \ {j}
      /\ UNCHANGED <<journal, payload, host, todo, access, crashes, pc, out, marker, step,
                     shown>>
  BY DEF RestoreAdmits
<1>2. \A i \in ready : j <= i
  BY OldestIsLeast DEF RestoreAdmits, WorkTypeOK
<1>3. /\ status[j] \in J!Open /\ Confirmed(j) /\ j \notin QueuedJobs
      /\ pc[j] = "idle" /\ out[j] = "none" /\ notice[j] = "none"
  BY <1>1 DEF PlaceOK, JobOK, EndOK, QueuedJobs, Cancels, J!Open, J!Ended,
              WorkTypeOK
<1>4. \A i \in Job : i # j => notice'[i] = notice[i]
  BY DEF RestoreAdmits, Admit, WorkTypeOK
<1>5. \A i \in Job : i # j => JobOK(i)'
  BY <1>1, <1>4, OtherJob DEF SameJob, payload, journal
<1>6. CASE IsCancelling(thread[j])
  <2>1. UNCHANGED <<queue, notice>>
    BY <1>6 DEF RestoreAdmits
  <2>2. WorkTypeOK'
    BY <1>1, <2>1 DEF WorkTypeOK, payload
  <2>3. JobOK(j)'
    BY <1>1, <2>1, OtherJob DEF SameJob, payload, journal
  <2>4. \A i \in Job : PlaceOK(i)'
    BY <1>1, <1>6, <2>1 DEF PlaceOK, payload, journal, queue, QueuedJobs, Cancels,
       Confirmed, IsCancelling
  <2>5. LifeOK'
    BY <1>1, <2>1 DEF LifeOK, queue, QueuedJobs
  <2> QED
    BY <1>5, <2>2, <2>3, <2>4, <2>5
<1>7. CASE ~ IsCancelling(thread[j])
  <2>1. thread[j] \in Thread
    BY <1>3 DEF PlaceOK, WorkTypeOK, J!Open
  <2>2. /\ key' = [key EXCEPT ![j] = thread[j]]
        /\ notice' = [notice EXCEPT ![j] = "begin"]
        /\ QueuedJobs' = QueuedJobs \cup {j} /\ started \subseteq started'
    BY <1>7, <2>1, AdmitMoves DEF RestoreAdmits
  <2>3. WorkTypeOK'
    BY <1>1, <2>2 DEF WorkTypeOK, payload
  <2>4. JobOK(j)'
    <3>1. call[j][Notice] = "none" /\ notice'[j] = "begin"
      BY <1>3, <2>2 DEF JobOK, FiberOK, Ledger, ActionKey, WorkTypeOK
    <3>2. FiberOK(j)'
      BY <1>1, <1>3, <3>1 DEF JobOK, FiberOK, journal
    <3>3. MessageOK(j)' /\ StageOK(j)' /\ MarkerOK(j)' /\ EndOK(j)'
      BY <1>1 DEF JobOK, MessageOK, StageOK, MarkerOK, EndOK, J!Recorded, Cancels,
                  journal,
         payload
    <3> QED
      BY <3>2, <3>3 DEF JobOK
  <2>5. PlaceOK(j)'
    BY <1>1, <1>3, <1>7, <2>2 DEF PlaceOK, WorkTypeOK, Line, payload, journal,
                                  Cancels,
       Confirmed, IsCancelling, J!Open
  <2>6. \A i \in Job : i # j => PlaceOK(i)'
    BY <1>1, <2>2 DEF PlaceOK, WorkTypeOK, Line, payload, journal, Cancels,
                      Confirmed,
       IsCancelling
  <2>7. LifeOK'
    BY <1>1, <1>2, <2>2, WorkAssumption DEF LifeOK, WorkTypeOK
  <2> QED
    BY <1>5, <2>3, <2>4, <2>5, <2>6, <2>7
<1> QED
  BY <1>6, <1>7

LEMMA ProcessEndsKeeps ==
  ASSUME Both, NEW h \in {"down", "stopped"}, ProcessEnds(h)
  PROVE  OwnInv'
<1> USE DEF Both, OwnInv
<1>1. /\ UNCHANGED <<status, row, landed, payload, shown>>
      /\ host' = h /\ todo' = {} /\ ready' = {} /\ QueuedJobs' = {}
      /\ access' = [i \in Job |-> "none"]
      /\ \A i \in Job : /\ call'[i] = [k \in ActionKey |-> "none"]
                        /\ notice'[i] = "none" /\ pc'[i] = "idle" /\ out'[i] = "none"
                        /\ marker'[i] = 0 /\ step'[i] = "off"
  BY DEF ProcessEnds, J!LoseCalls, Q!Lose, QueuedJobs
<1>2. WorkTypeOK'
  BY <1>1 DEF ProcessEnds, WorkTypeOK, Stage, payload
<1>3. ASSUME NEW i \in Job PROVE JobOK(i)'
  <2>1. MessageOK(i)'
    BY <1>1 DEF JobOK, MessageOK, J!Recorded, payload
  <2>2. FiberOK(i)' /\ StageOK(i)'
    BY <1>1 DEF FiberOK, StageOK, ActionKey, Starting, Turning, Publishing, Cleaning
  <2>3. MarkerOK(i)'
    BY <1>1 DEF MarkerOK, WorkTypeOK, Turning, Publishing, Cleaning
  <2>4. EndOK(i)'
    BY <1>1 DEF JobOK, EndOK, J!Recorded, Cancels
  <2> QED
    BY <2>1, <2>2, <2>3, <2>4 DEF JobOK
<1>4. \A i \in Job : PlaceOK(i)'
  BY <1>1 DEF PlaceOK, payload
<1>5. LifeOK'
  BY <1>1 DEF LifeOK
<1> QED
  BY <1>2, <1>3, <1>4, <1>5

(* The steps of the process that touch no run. *)
LEMMA HostStepKeeps ==
  ASSUME Both, Restart \/ Opens \/ Closes \/ UNCHANGED vars
  PROVE  OwnInv'
<1> USE DEF Both, OwnInv, Restart, Opens, Closes, Q!Close, vars, journal, payload,
            process, queue, runs
<1>1. \A i \in Job : JobOK(i)'
  BY OtherJob DEF SameJob
<1>2. WorkTypeOK'
  BY DEF WorkTypeOK, Unfinished
<1>3. \A i \in Job : PlaceOK(i)'
  <2>1. CASE Restart
    BY <2>1 DEF PlaceOK, LifeOK, QueuedJobs, Cancels, Confirmed, IsCancelling,
                Unfinished,
       J!Unfinished, WorkTypeOK
  <2>2. CASE Opens \/ Closes \/ UNCHANGED vars
    BY <2>2 DEF PlaceOK, QueuedJobs, Cancels, Confirmed, IsCancelling
  <2> QED
    BY <2>1, <2>2
<1>4. LifeOK'
  BY DEF LifeOK, QueuedJobs
<1> QED
  BY <1>1, <1>2, <1>3, <1>4

-----------------------------------------------------------------------------
(* Every step is one of the journal and one of the queue. *)

LEMMA Marked ==
  ASSUME WorkInv, NEW j \in Job
  PROVE  /\ (IF late[j] THEN Len(shown[j]) ELSE 0) \in Marker
         /\ ShownMarker(j) \in Marker
<1>1. Len(shown[j]) \in {0, 1}
  BY AtMostOne, LedgerHolds DEF WorkInv, OwnInv, JobOK
<1> QED
  BY <1>1 DEF WorkInv, OwnInv, WorkTypeOK, ShownMarker, Marker

LEMMA JournalActions ==
  ASSUME NEW j \in Job, NEW k \in ActionKey
  PROVE  /\ J!BeginAction(j, k) => J!JournalNext
         /\ J!LandAction(j, k) => J!JournalNext
         /\ \A v \in Marker : J!RecordAction(j, k, v) => J!JournalNext
         /\ J!FailAction(j, k) => J!JournalNext
  BY DEF J!JournalNext, J!ActionStep

LEMMA JournalMarks ==
  ASSUME NEW j \in Job
  PROVE  /\ J!Create(j) => J!JournalNext
         /\ J!MarkRunning(j) => J!JournalNext
         /\ J!MarkCompleted(j) => J!JournalNext
         /\ J!MarkFailed(j) => J!JournalNext
         /\ J!RequestCancel(j) => J!JournalNext
         /\ J!MarkCancelled(j) => J!JournalNext
  BY DEF J!JournalNext, J!JobStep

LEMMA JournalSteps ==
  ASSUME WorkInv, [Next]_vars
  PROVE  [J!JournalNext]_J!jvars
<1> USE DEF J!jvars, journal
<1>1. Notice \in ActionKey /\ Working \in ActionKey /\ Publish \in ActionKey
      /\ Retract \in ActionKey /\ 0 \in Marker
  BY DEF ActionKey, Marker
<1>2. ASSUME NEW j \in Job, NEW k \in Thread, NEW adm \in FromAdmin, Accept(j, k, adm)
      PROVE  J!JournalNext
  BY <1>2, JournalMarks DEF Accept
<1>3. ASSUME NEW j \in Job, NoticeStep(j)
      PROVE  [J!JournalNext]_J!jvars
  BY <1>1, <1>3, Marked, JournalActions DEF NoticeStep, NoticeBegins, NoticeLands,
     NoticeEnds
<1>4. ASSUME NEW j \in Job, RunStep(j)
      PROVE  [J!JournalNext]_J!jvars
  <2>1. CASE RunBegins(j) \/ RunJoinsNotice(j) \/ RunEnds(j)
    BY <2>1, JournalMarks DEF RunBegins, RunJoinsNotice, RunEnds
  <2>2. CASE WorkingBegins(j) \/ WorkingLands(j) \/ WorkingEnds(j)
    BY <1>1, <2>2, Marked, JournalActions DEF WorkingBegins, WorkingLands,
       WorkingEnds
  <2>3. CASE FollowerStops(j)
    BY <2>3 DEF FollowerStops
  <2>4. CASE PublishBegins(j) \/ PublishLands(j) \/ PublishEnds(j)
    BY <1>1, <2>4, JournalActions DEF PublishBegins, PublishLands, PublishEnds
  <2>5. CASE RetractBegins(j) \/ RetractLands(j) \/ RetractEnds(j)
    BY <1>1, <2>5, JournalActions DEF RetractBegins, RetractLands, RetractEnds
  <2> QED
    BY <1>4, <2>1, <2>2, <2>3, <2>4, <2>5 DEF RunStep
<1>5. ASSUME NEW j \in Job, RestoreStep(j)
      PROVE  [J!JournalNext]_J!jvars
  BY <1>5, JournalMarks
  DEF RestoreStep, RestoreChecks, CancelBegins, CancelRefused, CancelEnds,
      RestoreAdmits
<1>6. ASSUME NEW j \in Job, NEW o,
             TurnEnds(j, o) \/ StepSent(j) \/ StepEnds(j)
      PROVE  UNCHANGED J!jvars
  BY <1>6 DEF TurnEnds, StepSent, StepEnds
<1>7. CASE Restart \/ Opens \/ Closes \/ UNCHANGED vars
  BY <1>7 DEF Restart, Opens, Closes, vars
<1>8. CASE Exits \/ Crashes
  BY <1>8 DEF Exits, Crashes, ProcessEnds, J!JournalNext
<1> QED
  BY <1>2, <1>3, <1>4, <1>5, <1>6, <1>7, <1>8 DEF Next

LEMMA QueueActions ==
  /\ \A j \in Job, k \in Thread : Q!Enqueue(j, k) => Q!QueueNext
  /\ \A j \in Job : Q!Finish(j) => Q!QueueNext
  /\ Q!Close => Q!QueueNext
  /\ Q!Lose => Q!QueueNext
  BY DEF Q!QueueNext, Q!QueueStep

LEMMA QueueSteps ==
  ASSUME WorkInv, [Next]_vars
  PROVE  [Q!QueueNext]_Q!qvars
<1> USE DEF Q!qvars, queue
<1>1. ASSUME NEW j \in Job, NEW k \in Thread, NEW adm \in FromAdmin, Accept(j, k, adm)
      PROVE  Q!QueueNext
  BY <1>1, QueueActions DEF Accept, Admit
<1>2. ASSUME NEW j \in Job, NoticeStep(j)
      PROVE  UNCHANGED Q!qvars
  BY <1>2 DEF NoticeStep, NoticeBegins, NoticeLands, NoticeEnds
<1>3. ASSUME NEW j \in Job, RunStep(j)
      PROVE  [Q!QueueNext]_Q!qvars
  <2>1. CASE RunEnds(j)
    BY <2>1, QueueActions DEF RunEnds
  <2>2. CASE ~ RunEnds(j)
    BY <1>3, <2>2
    DEF RunStep, RunBegins, RunJoinsNotice, WorkingBegins, WorkingLands,
        WorkingEnds, FollowerStops, PublishBegins, PublishLands, PublishEnds,
        RetractBegins, RetractLands, RetractEnds
  <2> QED
    BY <2>1, <2>2
<1>4. ASSUME NEW j \in Job, RestoreAdmits(j)
      PROVE  [Q!QueueNext]_Q!qvars
  <2>1. PlaceOK(j) /\ j \in ready
    BY <1>4 DEF RestoreAdmits, WorkInv, OwnInv
  <2>2. thread[j] # NoThread
    BY <2>1 DEF PlaceOK, J!Open
  <2>3. thread[j] \in Thread
    BY <2>2 DEF WorkInv, OwnInv, WorkTypeOK
  <2> QED
    BY <1>4, <2>3, QueueActions DEF RestoreAdmits, Admit
<1>5. ASSUME NEW j \in Job, RestoreStep(j), ~ RestoreAdmits(j)
      PROVE  UNCHANGED Q!qvars
  BY <1>5 DEF RestoreStep, RestoreChecks, CancelBegins, CancelRefused, CancelEnds
<1>6. ASSUME NEW j \in Job, NEW o,
             TurnEnds(j, o) \/ StepSent(j) \/ StepEnds(j)
      PROVE  UNCHANGED Q!qvars
  BY <1>6 DEF TurnEnds, StepSent, StepEnds
<1>7. CASE Restart \/ Opens \/ UNCHANGED vars
  BY <1>7 DEF Restart, Opens, vars
<1>8. CASE Closes \/ Exits \/ Crashes
  BY <1>8, QueueActions DEF Closes, Exits, Crashes, ProcessEnds
<1> QED
  BY <1>1, <1>2, <1>3, <1>4, <1>5, <1>6, <1>7, <1>8 DEF Next

-----------------------------------------------------------------------------
LEMMA WorkInvInit == Init => WorkInv
<1> SUFFICES ASSUME Init PROVE OwnInv
  BY PartsInvInit DEF WorkInv
<1> USE DEF Init, J!JournalInit, Q!QueueInit
<1>1. WorkTypeOK
  BY DEF WorkTypeOK, Stage
<1>2. ASSUME NEW j \in Job PROVE JobOK(j)
  BY WorkAssumption
  DEF JobOK, MessageOK, FiberOK, StageOK, MarkerOK, EndOK, J!Recorded, ActionKey,
      Notice,
      Working, Publish, Retract, Marker, Starting, Turning, Publishing, Cleaning,
      Cancels
<1>3. ASSUME NEW j \in Job PROVE PlaceOK(j)
  BY DEF PlaceOK, QueuedJobs, J!Open
<1>4. LifeOK
  BY DEF LifeOK, QueuedJobs
<1> QED
  BY <1>1, <1>2, <1>3, <1>4 DEF OwnInv

LEMMA WorkInvStep == WorkInv /\ [Next]_vars => WorkInv'
<1> SUFFICES ASSUME WorkInv, [Next]_vars PROVE WorkInv'
  OBVIOUS
<1>1. JP!JournalInv' /\ QP!QueueInv'
  BY JournalSteps, QueueSteps, PartsInvStep DEF WorkInv
<1>2. Both
  BY <1>1, LedgerHolds, LineHolds DEF WorkInv, Both
<1>3. \A j \in Job : Knows(j)
  BY <1>2 DEF Both, OwnInv, Knows
<1>4. OwnInv
  BY DEF WorkInv
<1>5. ASSUME NEW j \in Job, NEW k \in Thread, NEW adm \in FromAdmin, Accept(j, k, adm)
      PROVE  OwnInv'
  BY <1>2, <1>5, AcceptKeeps
<1>6. ASSUME NEW j \in Job, NoticeStep(j)
      PROVE  OwnInv'
  BY <1>3, <1>4, <1>6, NoticeBeginsAlone, NoticeLandsAlone, NoticeEndsAlone,
     ActingAlone
  DEF NoticeStep
<1>7. ASSUME NEW j \in Job, RunStep(j)
      PROVE  OwnInv'
  <2>1. CASE RunBegins(j)
    BY <1>2, <2>1, RunBeginsKeeps
  <2>2. CASE RunEnds(j)
    BY <1>2, <2>2, RunEndsKeeps
  <2>3. CASE ~ RunBegins(j) /\ ~ RunEnds(j)
    <3>1. ActsAlone(j)
      BY <1>3, <1>7, <2>3, RunJoinsNoticeAlone, WorkingBeginsAlone,
         WorkingLandsAlone,
         WorkingEndsAlone, FollowerStopsAlone, PublishBeginsAlone,
         PublishLandsAlone, PublishEndsAlone, RetractBeginsAlone, RetractLandsAlone,
         RetractEndsAlone
      DEF RunStep
    <3> QED
      BY <1>4, <3>1, ActingAlone
  <2> QED
    BY <2>1, <2>2, <2>3
<1>8. ASSUME NEW j \in Job, RestoreStep(j)
      PROVE  OwnInv'
  <2>1. CASE CancelBegins(j)
    BY <1>3, <1>4, <2>1, CancelBeginsAlone, ActingAlone
  <2>2. CASE ~ CancelBegins(j)
    BY <1>2, <1>8, <2>2, RestoreChecksKeeps, CancelRefusedKeeps, CancelEndsKeeps,
       RestoreAdmitsKeeps
    DEF RestoreStep
  <2> QED
    BY <2>1, <2>2
<1>9. ASSUME NEW j \in Job, NEW o \in {"reply", "empty", "failed"},
             TurnEnds(j, o) \/ StepSent(j) \/ StepEnds(j)
      PROVE  OwnInv'
  BY <1>3, <1>4, <1>9, TurnEndsAlone, StepSentAlone, StepEndsAlone, ActingAlone
<1>10. ASSUME Restart \/ Opens \/ Closes \/ UNCHANGED vars
       PROVE  OwnInv'
  BY <1>2, <1>10, HostStepKeeps
<1>11. ASSUME Exits \/ Crashes
       PROVE  OwnInv'
  BY <1>2, <1>11, ProcessEndsKeeps DEF Exits, Crashes
<1>12. OwnInv'
  BY <1>5, <1>6, <1>7, <1>8, <1>9, <1>10, <1>11 DEF Next
<1> QED
  BY <1>1, <1>12 DEF WorkInv

(* The inductive invariant holds of every behaviour of the host.           *)
THEOREM WorkInvariant == Spec => []WorkInv
  BY WorkInvInit, WorkInvStep, PTL DEF Spec

(* A run leaves one message at most, across every crash and replay         *)
(* (runner.ts:72-74).                                                      *)
THEOREM LeavesOneMessage == Spec => []OneMessage
<1>1. WorkInv => OneMessage
  <2> SUFFICES ASSUME WorkInv, NEW j \in Job PROVE Len(shown[j]) <= 1
    BY DEF OneMessage
  <2> DEFINE n == Len(shown[j])
  <2>1. n \in {0, 1}
    BY AtMostOne, LedgerHolds DEF WorkInv, OwnInv, JobOK
  <2>2. n <= 1
    <3> HIDE DEF n
    <3> QED
      BY <2>1
  <2> QED
    BY <2>2
<1> QED
  BY <1>1, WorkInvariant, PTL

(* No status line outlives its run unless its fate is uncertain            *)
(* (runner.ts:72-74, 197-222, 227-274).                                    *)
THEOREM LeavesNoStatus == Spec => []NoStaleStatus
<1>1. WorkInv => NoStaleStatus
  <2> SUFFICES ASSUME WorkInv, NEW j \in Job
               PROVE  /\ status[j] = "completed" =>
                           \A m \in Visible(j) : shown[j][m] = "reply"
                      /\ status[j] = "cancelled" /\ row[j][Publish] = NoRow
                           => Visible(j) = {}
                      /\ /\ status[j] = "failed" /\ row[j][Publish] = NoRow
                         /\ \A k \in ActionKey : row[j][k] # Intent
                         => Visible(j) = {}
    BY DEF NoStaleStatus
  <2>1. Ledger /\ MessageOK(j) /\ EndOK(j)
    BY LedgerHolds DEF WorkInv, OwnInv, JobOK
  <2>2. /\ J!Recorded(j, Publish) => landed[j][Publish] > 0
        /\ J!Recorded(j, Retract) => landed[j][Retract] > 0
        /\ row[j][Retract] \in {NoRow, Intent} \/ J!Recorded(j, Retract)
    BY <2>1 DEF Ledger, J!Recorded, ActionKey
  <2>3. CASE status[j] = "completed"
    BY <2>1, <2>2, <2>3 DEF EndOK, MessageOK, Visible, Gone
  <2>4. CASE status[j] = "cancelled" /\ row[j][Publish] = NoRow
    BY <2>1, <2>2, <2>4 DEF EndOK, MessageOK, Visible, Gone
  <2>5. CASE /\ status[j] = "failed" /\ row[j][Publish] = NoRow
             /\ \A k \in ActionKey : row[j][k] # Intent
    BY <2>1, <2>2, <2>5 DEF EndOK, MessageOK, Visible, Gone, ActionKey
  <2> QED
    BY <2>3, <2>4, <2>5
<1> QED
  BY <1>1, WorkInvariant, PTL

LEMMA ActsInTurn == WorkInv => ThreadSerial
<1> SUFFICES ASSUME WorkInv, NEW i \in Job, NEW j \in Job, i < j,
                    thread[i] = thread[j], thread[j] # NoThread, pc[j] # "idle",
                    ~ Cancels(j), status[i] \notin J!Ended
             PROVE  FALSE
  BY DEF ThreadSerial, Cancels
<1>1. Ledger /\ Line /\ PlaceOK(i) /\ PlaceOK(j) /\ LifeOK
  BY LedgerHolds, LineHolds DEF WorkInv, OwnInv
<1>2. /\ j \in started /\ j \in QueuedJobs /\ key[j] = thread[j]
      /\ ~ IsCancelling(thread[i])
  BY <1>1 DEF PlaceOK, QueuedJobs
<1>3. status[i] \in J!Open
  BY <1>1, <1>2 DEF Ledger, PlaceOK, IsCancelling, J!Unfinished
<1>4. todo = {} /\ host \in {"restoring", "open"}
  BY <1>1, <1>2 DEF LifeOK, WorkInv, OwnInv, WorkTypeOK
<1>5. i \in ready \/ i \in QueuedJobs
  BY <1>1, <1>2, <1>3, <1>4 DEF PlaceOK
<1>6. i \notin ready
  BY <1>1, <1>2, WorkAssumption DEF LifeOK
<1>7. i \in QueuedJobs /\ key[i] = key[j]
  BY <1>1, <1>2, <1>5, <1>6 DEF PlaceOK
<1> QED
  BY <1>1, <1>2, <1>7, WorkAssumption DEF Line, QueuedJobs

(* A thread's runs follow one another in the order they were accepted,     *)
(* across restarts (queue.ts:6-9, thread-work.ts:71-76, 89-92).            *)
THEOREM SerialThreads == Spec => []ThreadSerial
  BY ActsInTurn, WorkInvariant, PTL

(* A run acts only for a sender its gateway let through in this process,   *)
(* and a cancelling run never acts (thread-work.ts:54-68, 206).            *)
THEOREM RunsConfirmed == Spec => []OnlyConfirmedRun
<1>1. WorkInv => OnlyConfirmedRun
  <2> SUFFICES ASSUME WorkInv, NEW j \in Job,
                      pc[j] \in Starting \cup Turning \cup Publishing
               PROVE  /\ access[j] \in {"admin", "member"}
                      /\ admin[j] => access[j] = "admin"
                      /\ status[j] = "running"
    BY DEF OnlyConfirmedRun, Starting, Turning, Publishing
  <2>1. PlaceOK(j) /\ StageOK(j)
    BY DEF WorkInv, OwnInv, JobOK
  <2> QED
    BY <2>1 DEF PlaceOK, StageOK, Confirmed, QueuedJobs, Cancels,
       Starting, Turning, Publishing, Cleaning
<1> QED
  BY <1>1, WorkInvariant, PTL

(* Once a reply is out, nothing replaces or removes it (runner.ts:151-154, *)
(* 179-180, 278-285).                                                      *)
THEOREM RepliesStand == Spec => ReplyStands
<1> DEFINE Stands == \A j \in Job : \A m \in 1 .. Len(shown[j]) :
                       shown[j][m] = "reply" => shown'[j][m] = "reply"
<1>1. WorkInv /\ [Next]_vars => [Stands]_vars
  <2> SUFFICES ASSUME WorkInv, WorkInv', Next, NEW j \in Job, NEW m \in 1 .. Len(shown[j]),
                      shown[j][m] = "reply"
               PROVE  shown'[j][m] = "reply"
    BY WorkInvStep
  <2>1. /\ Ledger /\ Ledger' /\ WorkTypeOK /\ Len(shown[j]) \in {0, 1}
        /\ MessageOK(j) /\ FiberOK(j) /\ StageOK(j)
    BY AtMostOne, LedgerHolds DEF WorkInv, OwnInv, JobOK
  <2>2. m = 1 /\ landed[j][Publish] = 1 /\ row[j][Publish] # NoRow
        /\ J!Recorded(j, Working) /\ J!Recorded(j, Notice)
    BY <2>1, WorkAssumption DEF MessageOK, Ledger, ActionKey, J!Recorded
  <2>3. \A i \in Job : Knows(i)
    BY LedgerHolds, LineHolds DEF WorkInv, OwnInv, Knows
  <2>4. ASSUME NEW i \in Job, i # j,
               \/ NoticeLands(i) \/ WorkingLands(i) \/ StepEnds(i)
               \/ PublishLands(i) \/ RetractLands(i)
        PROVE  shown'[j] = shown[j]
    BY <2>3, <2>4, NoticeLandsAlone, WorkingLandsAlone, StepEndsAlone,
       PublishLandsAlone,
       RetractLandsAlone
    DEF ActsAlone, SameJob
  <2>5. ~ NoticeLands(j) /\ ~ WorkingLands(j) /\ ~ PublishLands(j)
    BY <2>1, <2>2, WorkAssumption
    DEF NoticeLands, WorkingLands, PublishLands, J!LandAction, Ledger, ActionKey,
        J!Recorded, Marker
  <2>6. ~ StepEnds(j)
    BY <2>1, <2>2 DEF StepEnds, FiberOK
  <2>7. RetractLands(j) => shown' = shown
    BY <2>2 DEF RetractLands
  <2>8. CASE \A i \in Job : /\ ~ NoticeLands(i) /\ ~ WorkingLands(i) /\ ~ StepEnds(i)
                            /\ ~ PublishLands(i) /\ ~ RetractLands(i)
    <3>1. shown' = shown
      BY <2>8
      DEF Next, Accept, NoticeStep, NoticeBegins, NoticeEnds, RunStep, RunBegins,
          RunJoinsNotice, WorkingBegins, WorkingEnds, TurnEnds, FollowerStops,
          PublishBegins, PublishEnds, RetractBegins, RetractEnds, RunEnds,
          RestoreStep, RestoreChecks, CancelBegins, CancelRefused, CancelEnds,
          RestoreAdmits, StepSent, Restart, Opens, Closes, Exits, Crashes,
          ProcessEnds
    <3> QED
      BY <3>1
  <2> QED
    BY <2>4, <2>5, <2>6, <2>7, <2>8
<1> QED
  BY <1>1, WorkInvariant, PTL DEF Spec, ReplyStands
-----------------------------------------------------------------------------
(* The contract of a run: every step of the host is one of its steps or    *)
(* shows the thread nothing.                                               *)

USE DEF ActionKey, Notice, Working, Publish, Retract, Marker, J!Recorded, J!Replays,
        J!Uncertain, J!Open, Starting, Turning, Publishing, Cleaning

Told == [j \in Job |-> Sees(j)]
Fated == [j \in Job |-> Fate(j)]

LEMMA WhatIsSeen ==
  ASSUME WorkInv, NEW j \in Job
  PROVE  /\ shown[j] \in Seq(Body) /\ Len(shown[j]) \in {0, 1}
         /\ Len(shown[j]) = 0 => Sees(j) = "nothing"
         /\ Len(shown[j]) = 1 =>
              /\ shown[j][1] \in Body
              /\ shown[j][1] \in {"reply", "gone"} => Sees(j) = shown[j][1]
              /\ shown[j][1] \notin {"reply", "gone"} =>
                   Sees(j) = IF row[j][Publish] = NoRow THEN "status" ELSE "answering"
<1>1. shown[j] \in Seq(Body) /\ Len(shown[j]) \in {0, 1}
  BY AtMostOne, LedgerHolds DEF WorkInv, OwnInv, JobOK, WorkTypeOK
<1>2. CASE Len(shown[j]) = 0
  <2>1. shown[j] = <<>>
    BY <1>1, <1>2
  <2> QED
    BY <1>1, <1>2, <2>1 DEF Sees
<1>3. CASE Len(shown[j]) = 1
  <2>1. shown[j] # <<>> /\ ~ Len(shown[j]) > 1 /\ shown[j][1] \in Body
    BY <1>1, <1>3
  <2> QED
    BY <1>1, <1>3, <2>1 DEF Sees
<1> QED
  BY <1>1, <1>2, <1>3

(* What a step must leave alone to change nothing for the thread.          *)
LEMMA NothingTold ==
  ASSUME thread' = thread, shown' = shown,
         \A i \in Job : Fate(i)' = Fate(i),
         \A i \in Job : row'[i][Publish] = NoRow <=> row[i][Publish] = NoRow
  PROVE  UNCHANGED C!cvars
<1>1. \A i \in Job : Sees(i)' = Sees(i)
  BY DEF Sees
<1> QED
  BY <1>1 DEF C!cvars

(* A step on the message or the publication of one job.                    *)
LEMMA OneTold ==
  ASSUME NEW j \in Job, NEW s, thread' = thread,
         \A i \in Job : Fate(i)' = Fate(i),
         \A i \in Job : i # j => /\ shown'[i] = shown[i]
                                /\ row'[i][Publish] = row[i][Publish],
         Sees(j)' = s
  PROVE  /\ C!Seen(j, s) /\ UNCHANGED <<thread, Fated>>
         /\ Sees(j) = s => UNCHANGED C!cvars
<1>1. \A i \in Job : i # j => Sees(i)' = Sees(i)
  BY DEF Sees
<1>2. \A i \in Job : Sees(i)' = IF i = j THEN s ELSE Sees(i)
  BY <1>1
<1> QED
  BY <1>2 DEF C!Seen, C!cvars, Fated

LEMMA ReplyIsOut ==
  ASSUME WorkInv, NEW j \in Job, Len(shown[j]) = 1, shown[j][1] = "reply"
  PROVE  row[j][Publish] # NoRow /\ landed[j][Publish] = 1
<1>1. Ledger /\ MessageOK(j)
  BY LedgerHolds DEF WorkInv, OwnInv, JobOK
<1>2. 1 \in 1 .. Len(shown[j])
  OBVIOUS
<1>3. landed[j][Publish] > 0
  BY <1>1, <1>2 DEF MessageOK
<1>4. landed[j][Publish] \in {0, 1}
  BY <1>1 DEF Ledger
<1> QED
  BY <1>1, <1>3, <1>4 DEF Ledger

LEMMA OneEdit ==
  ASSUME WorkTypeOK, NEW j \in Job, NEW b \in Body, Len(shown[j]) = 1,
         shown' = [shown EXCEPT ![j][1] = b]
  PROVE  Len(shown'[j]) = 1 /\ shown'[j][1] = b
<1>1. shown[j] \in Seq(Body) /\ shown'[j] = [shown[j] EXCEPT ![1] = b]
  BY DEF WorkTypeOK
<1>2. 1 \in 1 .. Len(shown[j])
  OBVIOUS
<1>3. /\ Len(shown'[j]) = Len(shown[j])
      /\ \A n \in 1 .. Len(shown[j]) : shown'[j][n] = IF n = 1 THEN b ELSE shown[j][n]
  BY <1>1, <1>2, ExceptSeq
<1> QED
  BY <1>2, <1>3

LEMMA SameFates ==
  ASSUME status' = status
  PROVE  \A i \in Job : Fate(i)' = Fate(i)
  BY DEF Fate

(* A run that acts has its thread's turn.                                  *)
LEMMA TurnIsHis ==
  ASSUME WorkInv, NEW j \in Job, pc[j] # "idle", ~ Cancels(j)
  PROVE  C!InTurn(j) /\ status[j] = "running" /\ Fate(j) = "open"
<1>1. ThreadSerial /\ PlaceOK(j)
  BY ActsInTurn DEF WorkInv, OwnInv
<1>2. status[j] = "running" /\ thread[j] # NoThread
  BY <1>1 DEF PlaceOK
<1>3. \A i \in Job : i < j /\ thread[i] = thread[j] => status[i] \in J!Ended
  BY <1>1, <1>2 DEF ThreadSerial, Cancels
<1>4. \A i \in Job : status[i] \in J!Ended => Fate(i) \in C!Over
  BY DEF Fate, C!Over, J!Ended, J!Open
<1> QED
  BY <1>2, <1>3, <1>4 DEF C!InTurn, Fate, J!Open
LEMMA AcceptTold ==
  ASSUME WorkInv, NEW j \in Job, NEW k \in Thread, NEW adm \in FromAdmin,
         Accept(j, k, adm)
  PROVE  C!Accepts(j, k)
<1>1. Ledger /\ WorkTypeOK
  BY LedgerHolds DEF WorkInv, OwnInv
<1>2. /\ status[j] = "absent" /\ \A i \in Job : i < j => status[i] # "absent"
      /\ \A i \in Job : thread[i] = k => status[i] # "cancelling"
      /\ status' = [status EXCEPT ![j] = "queued"]
      /\ thread' = [thread EXCEPT ![j] = k]
      /\ row' = row /\ shown' = shown
  BY DEF Accept, J!Create, IsCancelling
<1>3. \A i \in Job : Fate(i)' = IF i = j THEN "open" ELSE Fate(i)
  BY <1>1, <1>2 DEF Fate, Ledger
<1>4. \A i \in Job : Sees(i)' = Sees(i)
  BY <1>2 DEF Sees
<1>5. /\ Fate(j) = "none" /\ \A i \in Job : i < j => Fate(i) # "none"
      /\ \A i \in Job : thread[i] = k => Fate(i) # "revoked"
  BY <1>1, <1>2 DEF Fate, Ledger, J!Unfinished, J!Ended
<1> QED
  BY <1>2, <1>3, <1>4, <1>5 DEF C!Accepts, C!Comes

(* Where the queue notice or the working line is posted there was nothing, *)
(* and where it is edited there was a status line.                         *)
LEMMA PostTold ==
  ASSUME WorkInv, WorkInv', NEW j \in Job, NoticeLands(j) \/ WorkingLands(j)
  PROVE  C!ShowsLine(j) \/ UNCHANGED C!cvars
<1>1. /\ Ledger /\ WorkTypeOK /\ Len(shown[j]) \in {0, 1}
      /\ JobOK(j) /\ PlaceOK(j) /\ Knows(j)
  BY AtMostOne, LedgerHolds, LineHolds, WorkInvStep DEF WorkInv, OwnInv, JobOK, Knows
<1>2. row[j][Publish] = NoRow
  BY <1>1, WorkAssumption
  DEF NoticeLands, WorkingLands, JobOK, MessageOK, FiberOK, StageOK, Ledger
<1>3. status' = status /\ thread' = thread /\ row' = row
  BY DEF NoticeLands, WorkingLands, J!LandAction, payload
<1>4. \A i \in Job : i # j => shown'[i] = shown[i]
  BY <1>1, NoticeLandsAlone, WorkingLandsAlone DEF ActsAlone, SameJob
<1>5. Fate(j) = "open"
  BY <1>1 DEF NoticeLands, WorkingLands, PlaceOK, Fate, J!Open, JobOK, StageOK, Cancels
<1>6. CASE shown'[j] = shown[j]
  <2>1. Sees(j)' = Sees(j)
    BY <1>3, <1>6 DEF Sees
  <2> QED
    BY <1>3, <1>4, <2>1, SameFates, OneTold
<1>7. CASE shown'[j] # shown[j]
  <2>1. ASSUME NoticeLands(j)
        PROVE  Len(shown[j]) = 0 /\ Len(shown'[j]) = 1 /\ shown'[j][1] = "status"
    <3>1. late[j] /\ shown' = [shown EXCEPT ![j] = Append(@, "status")]
      BY <1>7, <2>1 DEF NoticeLands
    <3>2. Len(shown[j]) = 0
      BY <1>1, <2>1, <3>1, WorkAssumption
      DEF NoticeLands, J!LandAction, JobOK, MessageOK, Ledger
    <3>3. "status" \in Body /\ WorkTypeOK
      BY <1>1 DEF Body
    <3>4. Len(shown'[j]) = Len(shown[j]) + 1 /\ shown'[j][Len(shown'[j])] = "status"
      BY <3>1, <3>3, Posts
    <3> QED
      BY <3>2, <3>4
  <2>2. ASSUME WorkingLands(j)
        PROVE  /\ \/ Len(shown[j]) = 0
                  \/ Len(shown[j]) = 1 /\ shown[j][1] \notin {"reply", "gone"}
               /\ Len(shown'[j]) = 1 /\ shown'[j][1] = "status"
    <3>1. Len(shown[j]) = marker[j]
      BY <1>1, <2>2, WorkAssumption
      DEF WorkingLands, J!LandAction, JobOK, MessageOK, MarkerOK, FiberOK, StageOK,
          Ledger, WorkTypeOK
    <3>2. /\ Len(shown'[j]) = 1 /\ shown'[j][1] = "status"
          /\ marker[j] = 1 => shown[j][1] # "gone"
      BY <1>1, <2>2, <3>1, Shows DEF WorkingLands, Body
    <3>3. Len(shown[j]) = 1 => shown[j][1] # "reply"
      BY <1>2, ReplyIsOut
    <3>4. Len(shown[j]) = 1 => shown[j][1] # "gone"
      BY <3>1, <3>2
    <3>5. Len(shown[j]) = 0 \/ Len(shown[j]) = 1
      BY <1>1
    <3>6. Len(shown[j]) = 1 => shown[j][1] \notin {"reply", "gone"}
      BY <3>3, <3>4
    <3> HIDE DEF ActionKey, Marker
    <3> QED
      BY <3>2, <3>5, <3>6
  <2>3. /\ \/ Len(shown[j]) = 0
           \/ Len(shown[j]) = 1 /\ shown[j][1] \notin {"reply", "gone"}
        /\ Len(shown'[j]) = 1 /\ shown'[j][1] = "status"
    BY <2>1, <2>2
  <2>4. Sees(j)' = "status"
    BY <1>2, <1>3, <2>3 DEF Sees
  <2>5. Sees(j) \in {"nothing", "status"}
    BY <1>2, <2>3, WhatIsSeen
  <2>6. C!Seen(j, "status") /\ (Sees(j) = "status" => UNCHANGED C!cvars)
        /\ UNCHANGED <<thread, Fated>>
    BY <1>3, <1>4, <2>4, SameFates, OneTold
  <2> QED
    BY <1>5, <2>5, <2>6 DEF C!ShowsLine, Fated
<1> QED
  BY <1>6, <1>7

(* A step edit changes a status line only.                                 *)
LEMMA StepTold ==
  ASSUME WorkInv, WorkInv', NEW j \in Job, StepEnds(j)
  PROVE  UNCHANGED C!cvars
<1>1. /\ Ledger /\ WorkTypeOK /\ Len(shown[j]) \in {0, 1}
      /\ JobOK(j) /\ Knows(j)
  BY AtMostOne, LedgerHolds, LineHolds DEF WorkInv, OwnInv, JobOK, Knows
<1>2. row[j][Publish] = NoRow /\ marker[j] = 1 /\ Len(shown[j]) = 1
  BY <1>1, WorkAssumption
  DEF StepEnds, JobOK, FiberOK, MarkerOK, WorkTypeOK
<1>3. status' = status /\ thread' = thread /\ row' = row
  BY DEF StepEnds, payload, journal
<1>4. \A i \in Job : i # j => shown'[i] = shown[i]
  BY <1>1, StepEndsAlone DEF ActsAlone, SameJob
<1>5. CASE shown'[j] = shown[j]
  <2>1. Sees(j)' = Sees(j)
    BY <1>3, <1>5 DEF Sees
  <2> QED
    BY <1>3, <1>4, <2>1, SameFates, OneTold
<1>6. CASE shown'[j] # shown[j]
  <2>1. ~ Gone(j, 1) /\ shown' = [shown EXCEPT ![j][1] = "step"]
    BY <1>2, <1>6 DEF StepEnds
  <2>2. shown[j][1] \notin {"reply", "gone"}
    BY <1>2, <2>1, ReplyIsOut DEF Gone
  <2>3. Len(shown'[j]) = 1 /\ shown'[j][1] = "step"
    BY <1>1, <1>2, <2>1, OneEdit DEF Body
  <2>4. Sees(j) = "status"
    BY <1>2, <2>2, WhatIsSeen
  <2>5. Sees(j)' = "status"
    BY <1>2, <1>3, <2>3 DEF Sees
  <2> QED
    BY <1>3, <1>4, <2>4, <2>5, SameFates, OneTold
<1> QED
  BY <1>5, <1>6

LEMMA PublishBeginsTold ==
  ASSUME WorkInv, NEW j \in Job, PublishBegins(j)
  PROVE  C!StartsAnswer(j) \/ UNCHANGED C!cvars
<1>1. Ledger /\ WorkTypeOK /\ JobOK(j)
  BY LedgerHolds DEF WorkInv, OwnInv
<1>2. status' = status /\ thread' = thread /\ shown' = shown
  BY DEF PublishBegins, J!BeginAction, payload, journal
<1>3. CASE row[j][Publish] = NoRow /\ J!BeginAction(j, Publish)
  <2>1. row' = [row EXCEPT ![j][Publish] = Intent]
    BY <1>3 DEF J!BeginAction
  <2>2. /\ \A i \in Job : i # j => row'[i][Publish] = row[i][Publish]
        /\ row'[j][Publish] # NoRow
    BY <1>1, <2>1, WorkAssumption DEF Ledger
  <2>3. pc[j] = "publish" /\ ~ Cancels(j) /\ marker[j] = 1 /\ Len(shown[j]) = 1
    BY <1>1, WhatIsSeen
    DEF PublishBegins, JobOK, StageOK, MarkerOK, WorkTypeOK, Cancels
  <2>4. shown[j][1] # "reply"
    BY <1>3, <2>3, ReplyIsOut
  <2>5. CASE shown[j][1] = "gone"
    <3>1. Sees(j)' = "gone" /\ Sees(j) = "gone"
      BY <1>2, <2>3, <2>5, WhatIsSeen DEF Sees
    <3> QED
      BY <1>2, <2>2, <3>1, SameFates, OneTold
  <2>6. CASE shown[j][1] # "gone"
    <3>1. Sees(j) = "status"
      BY <1>3, <2>3, <2>4, <2>6, WhatIsSeen
    <3>2. Sees(j)' = "answering"
      BY <1>2, <2>2, <2>3, <2>4, <2>6, WhatIsSeen DEF Sees
    <3>3. C!InTurn(j) /\ Fate(j) = "open"
      BY <2>3, TurnIsHis
    <3>4. C!Seen(j, "answering") /\ UNCHANGED <<thread, Fated>>
      BY <1>2, <2>2, <3>2, SameFates, OneTold
    <3> QED
      BY <3>1, <3>3, <3>4 DEF C!StartsAnswer, Fated
  <2> QED
    BY <2>5, <2>6
<1>4. CASE ~ (row[j][Publish] = NoRow /\ J!BeginAction(j, Publish))
  <2>1. row' = row
    BY <1>1, <1>4 DEF Ledger, PublishBegins, J!BeginAction, journal
  <2> QED
    BY <1>2, <2>1, SameFates, NothingTold
<1> QED
  BY <1>3, <1>4
LEMMA PublishLandsTold ==
  ASSUME WorkInv, WorkInv', NEW j \in Job, PublishLands(j)
  PROVE  \E s \in {"reply", "gone"} : C!Answers(j, s)
<1>1. /\ Ledger /\ WorkTypeOK /\ Len(shown[j]) \in {0, 1}
      /\ JobOK(j) /\ Knows(j)
  BY AtMostOne, LedgerHolds, LineHolds DEF WorkInv, OwnInv, JobOK, Knows
<1>2. status' = status /\ thread' = thread /\ row' = row
  BY DEF PublishLands, J!LandAction, payload
<1>3. \A i \in Job : i # j => shown'[i] = shown[i]
  BY <1>1, PublishLandsAlone DEF ActsAlone, SameJob
<1>4. /\ pc[j] = "publishing" /\ ~ Cancels(j) /\ marker[j] = 1
      /\ row[j][Publish] = Intent /\ landed[j][Publish] = 0
  BY <1>1 DEF PublishLands, J!LandAction, JobOK, StageOK, MarkerOK, Ledger, Cancels
<1>5. Len(shown[j]) = 1
  BY <1>1, <1>4 DEF JobOK, MarkerOK
<1>6. /\ ~ Gone(j, 1)
      /\ \/ shown' = [shown EXCEPT ![j][1] = "reply"]
         \/ shown' = [shown EXCEPT ![j][1] = "gone"]
  BY <1>4 DEF PublishLands, Show, Remove
<1>7. Sees(j) = "answering"
  <2>1. shown[j][1] \notin {"reply", "gone"}
    BY <1>4, <1>5, <1>6, ReplyIsOut DEF Gone
  <2> QED
    BY <1>4, <1>5, <2>1, WhatIsSeen, WorkAssumption
<1>8. ASSUME NEW s \in {"reply", "gone"}, shown' = [shown EXCEPT ![j][1] = s]
      PROVE  C!Answers(j, s)
  <2>1. Len(shown'[j]) = 1 /\ shown'[j][1] = s
    BY <1>1, <1>5, <1>8, OneEdit DEF Body
  <2>2. Sees(j)' = s
    BY <2>1 DEF Sees
  <2>3. C!InTurn(j) /\ Fate(j) = "open"
    BY <1>4, TurnIsHis
  <2>4. C!Seen(j, s) /\ UNCHANGED <<thread, Fated>>
    BY <1>2, <1>3, <2>2, SameFates, OneTold
  <2> QED
    BY <1>7, <2>3, <2>4 DEF C!Answers, Fated
<1> QED
  BY <1>6, <1>8

LEMMA RetractLandsTold ==
  ASSUME WorkInv, WorkInv', NEW j \in Job, RetractLands(j)
  PROVE  C!Withdraws(j) \/ UNCHANGED C!cvars
<1>1. /\ Ledger /\ WorkTypeOK /\ Len(shown[j]) \in {0, 1}
      /\ JobOK(j) /\ PlaceOK(j) /\ Knows(j)
  BY AtMostOne, LedgerHolds, LineHolds DEF WorkInv, OwnInv, JobOK, Knows
<1>2. status' = status /\ thread' = thread /\ row' = row
  BY DEF RetractLands, J!LandAction, payload
<1>3. \A i \in Job : i # j => shown'[i] = shown[i]
  BY <1>1, RetractLandsAlone DEF ActsAlone, SameJob
<1>4. CASE shown' = shown
  BY <1>2, <1>4, SameFates, NothingTold
<1>5. CASE shown' # shown
  <2>1. /\ row[j][Publish] = NoRow /\ marker[j] = 1 /\ ~ Gone(j, 1)
        /\ shown' = [shown EXCEPT ![j][1] = "gone"]
    BY <1>1, <1>5 DEF RetractLands, Remove, WorkTypeOK
  <2>2. Len(shown[j]) = 1
    BY <1>1, <2>1 DEF JobOK, MarkerOK
  <2>3. shown[j][1] \notin {"reply", "gone"}
    BY <2>1, <2>2, ReplyIsOut DEF Gone
  <2>4. Sees(j) = "status"
    BY <2>1, <2>2, <2>3, WhatIsSeen
  <2>5. Sees(j)' = "gone"
    <3>1. Len(shown'[j]) = 1 /\ shown'[j][1] = "gone"
      BY <1>1, <2>1, <2>2, OneEdit DEF Body
    <3> QED
      BY <3>1 DEF Sees
  <2>6. \/ Fate(j) = "revoked"
        \/ Fate(j) = "open" /\ C!InTurn(j)
    <3>1. CASE Cancels(j)
      BY <1>1, <3>1 DEF RetractLands, PlaceOK, Fate
    <3>2. CASE ~ Cancels(j)
      BY <3>2, TurnIsHis DEF RetractLands
    <3> QED
      BY <3>1, <3>2
  <2>7. C!Seen(j, "gone") /\ UNCHANGED <<thread, Fated>>
    BY <1>2, <1>3, <2>5, SameFates, OneTold
  <2> QED
    BY <2>4, <2>6, <2>7 DEF C!Withdraws, Fated
<1> QED
  BY <1>4, <1>5

(* A step on the fate of one job.                                          *)
LEMMA OneFated ==
  ASSUME NEW j \in Job, NEW f, thread' = thread, shown' = shown, row' = row,
         \A i \in Job : i # j => status'[i] = status[i],
         Fate(j)' = f
  PROVE  /\ C!Comes(j, f) /\ UNCHANGED <<thread, Told>>
         /\ Fate(j) = f => UNCHANGED C!cvars
<1>1. \A i \in Job : i # j => Fate(i)' = Fate(i)
  BY DEF Fate
<1>2. \A i \in Job : Fate(i)' = IF i = j THEN f ELSE Fate(i)
  BY <1>1
<1>3. \A i \in Job : Sees(i)' = Sees(i)
  BY DEF Sees
<1> QED
  BY <1>2, <1>3 DEF C!Comes, C!cvars, Told

LEMMA RestoreChecksTold ==
  ASSUME WorkInv, NEW j \in Job, NEW a, RestoreChecks(j, a)
  PROVE  C!Revokes(j) \/ UNCHANGED C!cvars
<1>1. Ledger
  BY LedgerHolds DEF WorkInv
<1>2. thread' = thread /\ shown' = shown /\ row' = row /\ Fate(j) = "open"
  BY DEF RestoreChecks, J!RequestCancel, J!Mark, payload, journal, Fate
<1>3. CASE status' = status
  BY <1>2, <1>3, SameFates, NothingTold
<1>4. CASE status' = [status EXCEPT ![j] = "cancelling"]
  <2>1. Fate(j)' = "revoked" /\ \A i \in Job : i # j => status'[i] = status[i]
    BY <1>1, <1>4 DEF Ledger, Fate
  <2>2. C!Comes(j, "revoked") /\ UNCHANGED <<thread, Told>>
    BY <1>2, <2>1, OneFated
  <2> QED
    BY <1>2, <2>2 DEF C!Revokes, Told
<1> QED
  BY <1>1, <1>3, <1>4 DEF RestoreChecks, J!RequestCancel, J!Mark, journal, Ledger
(* A publication on record is outside as a reply or as no message.         *)
LEMMA PublishedIsOut ==
  ASSUME WorkInv, NEW j \in Job, J!Recorded(j, Publish)
  PROVE  Sees(j) \in {"reply", "gone"}
<1>1. Ledger /\ MessageOK(j) /\ Len(shown[j]) \in {0, 1}
  BY AtMostOne, LedgerHolds DEF WorkInv, OwnInv, JobOK
<1>2. /\ landed[j][Publish] = 1
      /\ J!Recorded(j, Working) /\ J!Recorded(j, Notice)
  BY <1>1, WorkAssumption DEF Ledger, MessageOK
<1>3. landed[j][Notice] = 1 /\ landed[j][Working] = 1
  BY <1>1, <1>2 DEF Ledger
<1>4. Len(shown[j]) = 1 /\ 1 \in 1 .. Len(shown[j])
  BY <1>1, <1>3 DEF MessageOK
<1>5. shown[j][1] \in {"reply", "gone"}
  BY <1>1, <1>2, <1>4 DEF MessageOK
<1> QED
  BY <1>4, <1>5, WhatIsSeen

LEMMA RunEndsTold ==
  ASSUME WorkInv, NEW j \in Job, RunEnds(j)
  PROVE  C!Ends(j)
<1>1. Ledger /\ JobOK(j)
  BY LedgerHolds DEF WorkInv, OwnInv
<1>2. thread' = thread /\ shown' = shown /\ row' = row
  BY DEF RunEnds, J!MarkCompleted, J!MarkFailed, J!Mark, payload
<1>3. C!InTurn(j) /\ status[j] = "running" /\ Fate(j) = "open"
  BY TurnIsHis DEF RunEnds, Cancels
<1>4. CASE out[j] = "done"
  <2>1. status' = [status EXCEPT ![j] = "completed"]
    BY <1>1, <1>3, <1>4 DEF RunEnds, J!MarkCompleted, J!Mark, Ledger
  <2>2. Fate(j)' = "completed" /\ \A i \in Job : i # j => status'[i] = status[i]
    BY <1>1, <2>1 DEF Ledger, Fate
  <2>3. Sees(j) \in {"reply", "gone"}
    BY <1>1, <1>4, PublishedIsOut DEF JobOK, EndOK
  <2>4. C!Comes(j, "completed") /\ UNCHANGED <<thread, Told>>
    BY <1>2, <2>2, OneFated
  <2> QED
    BY <1>3, <2>3, <2>4 DEF C!Ends, Told
<1>5. CASE out[j] = "failed"
  <2>1. status' = [status EXCEPT ![j] = "failed"]
    BY <1>1, <1>3, <1>5 DEF RunEnds, J!MarkFailed, J!Mark, Ledger
  <2>2. Fate(j)' = "failed" /\ \A i \in Job : i # j => status'[i] = status[i]
    BY <1>1, <2>1 DEF Ledger, Fate
  <2>3. C!Comes(j, "failed") /\ UNCHANGED <<thread, Told>>
    BY <1>2, <2>2, OneFated
  <2> QED
    BY <1>3, <2>3 DEF C!Ends, Told
<1> QED
  BY <1>4, <1>5 DEF RunEnds

(* A cancellation ends with no status line left, or leaves the job         *)
(* cancelling.                                                             *)
LEMMA CancelTold ==
  ASSUME WorkInv, NEW j \in Job, CancelEnds(j) \/ CancelRefused(j)
  PROVE  C!Ends(j) \/ UNCHANGED C!cvars
<1>1. /\ Ledger /\ JobOK(j) /\ PlaceOK(j) /\ Len(shown[j]) \in {0, 1}
  BY AtMostOne, LedgerHolds DEF WorkInv, OwnInv, JobOK
<1>2. thread' = thread /\ shown' = shown /\ row' = row
  BY DEF CancelEnds, CancelRefused, J!MarkCancelled, J!MarkFailed, J!Mark, payload
<1>3. status[j] = "cancelling" /\ Fate(j) = "revoked"
  BY <1>1 DEF CancelEnds, CancelRefused, PlaceOK, Cancels, Fate
<1>4. CASE CancelEnds(j) /\ out[j] = "cancel"
  <2>1. status' = [status EXCEPT ![j] = "cancelled"]
    BY <1>1, <1>3, <1>4 DEF CancelEnds, J!MarkCancelled, J!Unfinished, Ledger
  <2>2. Fate(j)' = "cancelled" /\ \A i \in Job : i # j => status'[i] = status[i]
    BY <1>1, <2>1 DEF Ledger, Fate
  <2>3. /\ landed[j][Retract] = 1
        /\ row[j][Notice] # Intent /\ row[j][Working] # Intent
    BY <1>1, <1>4, WorkAssumption DEF CancelEnds, JobOK, EndOK, Ledger
  <2>4. Sees(j) # "status"
    <3>1. CASE Len(shown[j]) = 0
      BY <3>1, WhatIsSeen
    <3>2. CASE Len(shown[j]) = 1 /\ row[j][Publish] = NoRow
      <4>1. 1 \in 1 .. Len(shown[j])
        BY <3>2
      <4>2. shown[j][1] = "gone"
        BY <1>1, <2>3, <3>2, <4>1 DEF JobOK, MessageOK
      <4> QED
        BY <3>2, <4>2, WhatIsSeen
    <3>3. CASE Len(shown[j]) = 1 /\ row[j][Publish] # NoRow
      BY <3>3, WhatIsSeen
    <3> QED
      BY <1>1, <3>1, <3>2, <3>3
  <2>5. C!Comes(j, "cancelled") /\ UNCHANGED <<thread, Told>>
    BY <1>2, <2>2, OneFated
  <2> QED
    BY <1>3, <2>4, <2>5 DEF C!Ends, Told
<1>5. CASE ~ (CancelEnds(j) /\ out[j] = "cancel")
  <2>1. status' = status
    BY <1>1, <1>3, <1>5 DEF CancelEnds, CancelRefused, J!MarkFailed, J!Mark, Ledger
  <2> QED
    BY <1>2, <2>1, SameFates, NothingTold
<1> QED
  BY <1>4, <1>5

(* The steps that show a thread nothing, a death and a recovery among them. *)
LEMMA RestTold ==
  ASSUME WorkInv,
         \/ \E j \in Job : \/ NoticeBegins(j) \/ NoticeEnds(j) \/ RunBegins(j)
                           \/ RunJoinsNotice(j) \/ WorkingBegins(j) \/ WorkingEnds(j)
                           \/ \E o \in {"reply", "empty", "failed"} : TurnEnds(j, o)
                           \/ StepSent(j) \/ FollowerStops(j) \/ PublishEnds(j)
                           \/ RetractBegins(j) \/ RetractEnds(j)
                           \/ CancelBegins(j) \/ RestoreAdmits(j)
         \/ Restart \/ Opens \/ Closes \/ Exits \/ Crashes \/ UNCHANGED vars
  PROVE  UNCHANGED C!cvars
<1>1. thread' = thread /\ shown' = shown
  BY DEF NoticeBegins, NoticeEnds, RunBegins, RunJoinsNotice, WorkingBegins,
         WorkingEnds, TurnEnds, StepSent, FollowerStops, PublishEnds,
         RetractBegins, RetractEnds, CancelBegins, RestoreAdmits,
         Restart, Opens, Closes, Exits, Crashes, ProcessEnds, vars, runs, payload
<1>2. \A i \in Job : Fate(i)' = Fate(i)
  <2>1. CASE \E j \in Job : RunBegins(j)
    <3>1. PICK j \in Job : RunBegins(j)
      BY <2>1
    <3>2. /\ status \in [Job -> {"absent"} \cup J!Unfinished \cup J!Ended]
          /\ PlaceOK(j)
      BY LedgerHolds DEF WorkInv, OwnInv, Ledger
    <3>3. status[j] \in J!Open
      BY <3>1, <3>2 DEF RunBegins, PlaceOK, QueuedJobs
    <3> QED
      BY <3>1, <3>2, <3>3 DEF RunBegins, J!MarkRunning, J!Mark, Fate
  <2>2. CASE ~ \E j \in Job : RunBegins(j)
    <3>1. status' = status
      BY <2>2
      DEF NoticeBegins, NoticeEnds, RunJoinsNotice, WorkingBegins,
          WorkingEnds, TurnEnds, StepSent, FollowerStops, PublishEnds,
          RetractBegins, RetractEnds, CancelBegins, RestoreAdmits,
          Restart, Opens, Closes, Exits, Crashes, ProcessEnds, vars, journal,
          J!BeginAction, J!RecordAction, J!FailAction, J!LoseCalls
    <3> QED
      BY <3>1, SameFates
  <2> QED
    BY <2>1, <2>2
<1>3. \A i \in Job : row'[i][Publish] = NoRow <=> row[i][Publish] = NoRow
  <2>1. Ledger
    BY LedgerHolds DEF WorkInv
  <2>2. CASE \E j \in Job : PublishEnds(j)
    <3>1. PICK j \in Job : PublishEnds(j)
      BY <2>2
    <3>2. CASE J!RecordAction(j, Publish, 0)
      <4>1. row[j][Publish] = Intent /\ row' = [row EXCEPT ![j][Publish] = 0]
        BY <2>1, <3>2 DEF J!RecordAction, Ledger
      <4> QED
        BY <2>1, <4>1, WorkAssumption DEF Ledger
    <3>3. CASE ~ J!RecordAction(j, Publish, 0)
      BY <3>1, <3>3 DEF PublishEnds, J!FailAction
    <3> QED
      BY <3>2, <3>3
  <2>3. CASE ~ \E j \in Job : PublishEnds(j)
    <3>1. ASSUME NEW j \in Job, NEW k \in ActionKey \ {Publish}, NEW v,
                 row' = [row EXCEPT ![j][k] = v]
          PROVE  \A i \in Job : row'[i][Publish] = row[i][Publish]
      BY <2>1, <3>1 DEF Ledger
    <3>2. ASSUME NEW j \in Job, NoticeBegins(j) \/ NoticeEnds(j)
          PROVE  \A i \in Job : row'[i][Publish] = row[i][Publish]
      <4> DEFINE m == IF late[j] THEN Len(shown[j]) ELSE 0
      <4>1. \/ row' = row
            \/ row' = [row EXCEPT ![j][Notice] = Intent]
            \/ row' = [row EXCEPT ![j][Notice] = m]
        BY <3>2
        DEF NoticeBegins, NoticeEnds, J!BeginAction, J!RecordAction, J!FailAction,
            journal
      <4>2. Notice \in ActionKey \ {Publish}
        OBVIOUS
      <4> HIDE DEF m
      <4> QED
        BY <3>1, <4>1, <4>2
    <3>3. ASSUME NEW j \in Job, WorkingBegins(j) \/ WorkingEnds(j)
          PROVE  \A i \in Job : row'[i][Publish] = row[i][Publish]
      BY <3>1, <3>3
      DEF WorkingBegins, WorkingEnds, J!BeginAction, J!RecordAction, J!FailAction,
          journal
    <3>4. ASSUME NEW j \in Job, RetractBegins(j) \/ RetractEnds(j)
          PROVE  \A i \in Job : row'[i][Publish] = row[i][Publish]
      BY <3>1, <3>4
      DEF RetractBegins, RetractEnds, J!BeginAction, J!RecordAction, J!FailAction,
          journal
    <3>5. CASE ~ \E j \in Job : \/ NoticeBegins(j) \/ NoticeEnds(j)
                               \/ WorkingBegins(j) \/ WorkingEnds(j)
                               \/ RetractBegins(j) \/ RetractEnds(j)
      <4>1. row' = row
        BY <2>3, <3>5
        DEF RunBegins, RunJoinsNotice, TurnEnds, StepSent, FollowerStops,
            CancelBegins, RestoreAdmits, Restart, Opens, Closes, Exits, Crashes,
            ProcessEnds, vars, journal, J!MarkRunning, J!Mark, J!LoseCalls
      <4> QED
        BY <4>1
    <3> QED
      BY <3>2, <3>3, <3>4, <3>5
  <2> QED
    BY <2>2, <2>3
<1> QED
  BY <1>1, <1>2, <1>3, NothingTold

LEMMA ContractSteps ==
  ASSUME WorkInv, WorkInv', [Next]_vars
  PROVE  [C!ContractNext]_C!cvars
<1>1. ASSUME NEW j \in Job, NEW k \in Thread, NEW adm \in FromAdmin, Accept(j, k, adm)
      PROVE  C!ContractNext
  BY <1>1, AcceptTold DEF C!ContractNext
<1>2. ASSUME NEW j \in Job, NoticeLands(j) \/ WorkingLands(j) \/ StepEnds(j)
      PROVE  [C!ContractNext]_C!cvars
  BY <1>2, PostTold, StepTold DEF C!ContractNext
<1>3. ASSUME NEW j \in Job, PublishBegins(j) \/ PublishLands(j) \/ RetractLands(j)
      PROVE  [C!ContractNext]_C!cvars
  BY <1>3, PublishBeginsTold, PublishLandsTold, RetractLandsTold DEF C!ContractNext
<1>4. ASSUME NEW j \in Job, RunEnds(j) \/ CancelEnds(j) \/ CancelRefused(j)
      PROVE  [C!ContractNext]_C!cvars
  BY <1>4, RunEndsTold, CancelTold DEF C!ContractNext
<1>5. ASSUME NEW j \in Job, NEW a, RestoreChecks(j, a)
      PROVE  [C!ContractNext]_C!cvars
  BY <1>5, RestoreChecksTold DEF C!ContractNext
<1> QED
  BY <1>1, <1>2, <1>3, <1>4, <1>5, RestTold
  DEF Next, NoticeStep, RunStep, RestoreStep

LEMMA ContractBegins == Init => C!ContractInit
<1> SUFFICES ASSUME Init PROVE C!ContractInit
  OBVIOUS
<1>1. \A j \in Job : Fate(j) = "none" /\ Sees(j) = "nothing"
  BY DEF Init, J!JournalInit, Fate, Sees
<1> QED
  BY <1>1 DEF Init, C!ContractInit

(* Whatever the host does, dies of and recovers from, what a thread sees   *)
(* of its runs is what their contract allows (thread-work.ts:38-79,        *)
(* runner.ts:62-284).                                                      *)
THEOREM KeepsContract == Spec => ContractKept
<1>1. WorkInv /\ [Next]_vars => [C!ContractNext]_C!cvars
  BY WorkInvStep, ContractSteps
<1> QED
  BY <1>1, ContractBegins, WorkInvariant, PTL DEF Spec, ContractKept, C!ContractSpec
=============================================================================
