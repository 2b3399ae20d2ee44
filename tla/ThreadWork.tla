----------------------------- MODULE ThreadWork -----------------------------
(***************************************************************************)
(* Admission, ordering, publication and recovery of runs: ThreadWork of    *)
(* packages/host/src/thread-work.ts driving ThreadRunner of                *)
(* packages/host/src/agent/runner.ts over the journal (JobStore) and the   *)
(* queue (ThreadQueue), for one host process after another.                *)
(*                                                                         *)
(* A job is named by its sequence number in the journal, which is also its *)
(* arrival number in the queue. What a run shows outside is the sequence   *)
(* of messages it posted; a marker is an index into it, 0 for none. Every  *)
(* call to a gateway is sent, lands outside or not, and is answered with   *)
(* success only after it landed; the process may die in between. A call    *)
(* does not land after its own timeout or the next process's start.        *)
(*                                                                         *)
(* The turn itself (context, MCP connection, model, tools) is one state    *)
(* here and ends with a reply, an empty reply or a failure.                *)
(***************************************************************************)
EXTENDS Naturals, Sequences, FiniteSets

CONSTANTS
  Job,         \* sequence numbers
  Thread,      \* thread keys
  NoThread,
  Limit,       \* maxParallelRuns
  NoRow, Intent,
  FromAdmin,   \* whether events come from admins (bound: a subset of BOOLEAN)
  MaxCrashes   \* how many times the host dies (bound)

Notice  == "queue-notice"
Working == "working-notice"
Publish == "publish-reply"
Retract == "retract-status"
ActionKey == {Notice, Working, Publish, Retract}

(* A run posts at most once per action that can post. *)
Marker == 0 .. 3

ASSUME WorkAssumption ==
  /\ Job \subseteq Nat /\ IsFiniteSet(Job)
  /\ NoThread \notin Thread
  /\ Limit \in Nat \ {0}
  /\ NoRow \notin Nat /\ Intent \notin Nat /\ NoRow # Intent
  /\ FromAdmin \subseteq BOOLEAN
  /\ MaxCrashes \in Nat

VARIABLES
  \* the journal
  status, row, call, landed,
  thread,     \* payload.event.thread
  late,       \* payload.runsAhead > 0
  admin,      \* payload.event.admin
  \* the queue
  key, running, waiting, started, accepting,
  \* the process
  host,       \* where it is in its life
  todo,       \* restore: the unfinished jobs it has not looked at
  ready,      \* restore: the jobs it will admit
  access,     \* what its gateway said of an unfinished job's sender in this process
  crashes,
  \* the runs of this process
  notice,     \* the fiber that posts the queue notice
  pc,         \* where the run, or the cleanup of a cancelled one, is
  out,        \* what the run has come to
  marker,     \* status.id of the run
  step,       \* the fiber that follows the turn's steps
  \* outside
  shown       \* shown[j]: the messages the run of j posted

J == INSTANCE JobStore WITH Key <- ActionKey, ReplaySafe <- {}, Value <- Marker
Q == INSTANCE ThreadQueue WITH Task <- Job

journal == <<status, row, call, landed>>
payload == <<thread, late, admin>>
queue   == <<key, running, waiting, started, accepting>>
process == <<host, todo, ready, access, crashes>>
runs    == <<notice, pc, out, marker, step>>
vars    == <<journal, payload, queue, process, runs, shown>>

Init ==
  /\ J!JournalInit
  /\ thread = [j \in Job |-> NoThread]
  /\ late = [j \in Job |-> FALSE]
  /\ admin = [j \in Job |-> FALSE]
  /\ Q!QueueInit
  /\ host = "restoring"
  /\ todo = {}
  /\ ready = {}
  /\ access = [j \in Job |-> "none"]
  /\ crashes = 0
  /\ notice = [j \in Job |-> "none"]
  /\ pc = [j \in Job |-> "idle"]
  /\ out = [j \in Job |-> "none"]
  /\ marker = [j \in Job |-> 0]
  /\ step = [j \in Job |-> "off"]
  /\ shown = [j \in Job |-> <<>>]

(* Mutants are operators named Bug...: each stands for a slip the code      *)
(* could have made in the operator below it, and some run refutes it.      *)
BugOnlyQueued == {j \in Job : status[j] = "queued"}

Unfinished == {j \in Job : status[j] \in J!Unfinished}
Oldest(S) == CHOOSE j \in S : \A i \in S : j <= i

BugNeverCancelling(k) == FALSE

IsCancelling(k) ==
  \E j \in Job : status[j] = "cancelling" /\ thread[j] = k

-----------------------------------------------------------------------------
(* Outside. *)

Gone(j, m) == shown[j][m] = "gone"

BugShowPosts(j, body) == shown' = [shown EXCEPT ![j] = Append(@, body)]

(* channel.showEffect: posts the first time, edits the message after that; *)
(* a message that was removed cannot be edited.                            *)
Show(j, body) ==
  IF marker[j] = 0
  THEN shown' = [shown EXCEPT ![j] = Append(@, body)]
  ELSE /\ ~ Gone(j, marker[j])
       /\ shown' = [shown EXCEPT ![j][marker[j]] = body]

(* The marker once showEffect has succeeded. *)
ShownMarker(j) == IF marker[j] = 0 THEN Len(shown[j]) ELSE marker[j]

(* channel.retractEffect: nothing to do without a marker. *)
Remove(j) ==
  IF marker[j] = 0
  THEN UNCHANGED shown
  ELSE /\ ~ Gone(j, marker[j])
       /\ shown' = [shown EXCEPT ![j][marker[j]] = "gone"]

-----------------------------------------------------------------------------
(* Admission. *)

(* admit: forks the queue notice and queues the run. *)
Admit(j, k) ==
  /\ notice' = [notice EXCEPT ![j] = "begin"]
  /\ Q!Enqueue(j, k)

(* enqueueEffect for one event of thread k: refused once the queue is      *)
(* closed and, without a trace, while a cancelled run of the thread awaits *)
(* its cleanup.                                                            *)
Accept(j, k, adm) ==
  /\ host = "open"
  /\ status[j] = "absent" /\ \A i \in Job : i < j => status[i] # "absent"
  /\ ~ IsCancelling(k)
  /\ J!Create(j)
  /\ thread' = [thread EXCEPT ![j] = k]
  /\ late' = [late EXCEPT ![j] = Q!Ahead(k) > 0]
  /\ admin' = [admin EXCEPT ![j] = adm]
  /\ access' = [access EXCEPT ![j] = IF adm THEN "admin" ELSE "member"]
  /\ Admit(j, k)
  /\ UNCHANGED <<host, todo, ready, crashes, pc, out, marker, step, shown>>

(* The notice's fiber: replays a recorded notice, fails on an unrecorded   *)
(* one, and otherwise posts it, or records at once that there is none.     *)
NoticeBegins(j) ==
  /\ notice[j] = "begin"
  /\ \/ /\ J!BeginAction(j, Notice)
        /\ notice' = [notice EXCEPT ![j] = "posting"]
     \/ /\ J!Replays(j, Notice) \/ J!Uncertain(j, Notice)
        /\ notice' = [notice EXCEPT ![j] =
                        IF J!Replays(j, Notice) THEN "done" ELSE "failed"]
        /\ UNCHANGED journal
  /\ UNCHANGED <<payload, queue, process, pc, out, marker, step, shown>>

NoticeLands(j) ==
  /\ notice[j] = "posting"
  /\ J!LandAction(j, Notice)
  /\ shown' = IF late[j] THEN [shown EXCEPT ![j] = Append(@, "status")] ELSE shown
  /\ UNCHANGED <<payload, queue, process, runs>>

NoticeEnds(j) ==
  /\ notice[j] = "posting"
  /\ \/ /\ J!RecordAction(j, Notice, IF late[j] THEN Len(shown[j]) ELSE 0)
        /\ notice' = [notice EXCEPT ![j] = "done"]
     \/ /\ late[j]
        /\ J!FailAction(j, Notice)
        /\ notice' = [notice EXCEPT ![j] = "failed"]
  /\ UNCHANGED <<payload, queue, process, pc, out, marker, step, shown>>

-----------------------------------------------------------------------------
(* A run, from its turn in the queue to its end in the journal. *)

Goes(j, p) == pc' = [pc EXCEPT ![j] = p]
ComesTo(j, o) == out' = [out EXCEPT ![j] = o]

(* jobs.runEffect: the queue never holds a job that ended. *)
RunBegins(j) ==
  /\ j \in started /\ pc[j] = "idle"
  /\ status[j] \in J!Unfinished
  /\ J!MarkRunning(j)
  /\ Goes(j, "join")
  /\ UNCHANGED <<payload, queue, process, notice, out, marker, step, shown>>

(* The run joins the notice first and adopts its marker; without it the    *)
(* run fails before it can show anything.                                  *)
RunJoinsNotice(j) ==
  /\ pc[j] = "join"
  /\ \/ /\ notice[j] = "done"
        /\ marker' = [marker EXCEPT ![j] = row[j][Notice]]
        /\ Goes(j, "working")
        /\ UNCHANGED out
     \/ /\ notice[j] = "failed"
        /\ Goes(j, "end")
        /\ ComesTo(j, "failed")
        /\ UNCHANGED marker
  /\ UNCHANGED <<journal, payload, queue, process, notice, step, shown>>

(* The turn begins under marker m. The step follower runs unless a reply   *)
(* may be out already.                                                     *)
TurnBegins(j, m) ==
  /\ marker' = [marker EXCEPT ![j] = m]
  /\ step' = [step EXCEPT ![j] = IF row[j][Publish] = NoRow THEN "idle" ELSE "off"]
  /\ Goes(j, "turn")
  /\ UNCHANGED out

RunFails(j, p) ==
  /\ Goes(j, p)
  /\ ComesTo(j, "failed")

WorkingBegins(j) ==
  /\ pc[j] = "working"
  /\ \/ /\ J!BeginAction(j, Working)
        /\ Goes(j, "showing")
        /\ UNCHANGED <<out, marker, step>>
     \/ /\ J!Replays(j, Working)
        /\ TurnBegins(j, row[j][Working])
        /\ UNCHANGED journal
     \/ /\ J!Uncertain(j, Working)
        /\ RunFails(j, "retract")
        /\ UNCHANGED <<journal, marker, step>>
  /\ UNCHANGED <<payload, queue, process, notice, shown>>

WorkingLands(j) ==
  /\ pc[j] = "showing"
  /\ J!LandAction(j, Working)
  /\ Show(j, "status")
  /\ UNCHANGED <<payload, queue, process, runs>>

WorkingEnds(j) ==
  /\ pc[j] = "showing"
  /\ \/ /\ J!RecordAction(j, Working, ShownMarker(j))
        /\ TurnBegins(j, ShownMarker(j))
     \/ /\ J!FailAction(j, Working)
        /\ RunFails(j, "retract")
        /\ UNCHANGED <<marker, step>>
  /\ UNCHANGED <<payload, queue, process, notice, shown>>

(* The follower edits the status line while the turn runs; an edit in      *)
(* flight is never interrupted, and a failed one is only logged.           *)
StepSent(j) ==
  /\ pc[j] = "turn" /\ step[j] = "idle"
  /\ step' = [step EXCEPT ![j] = "sent"]
  /\ UNCHANGED <<journal, payload, queue, process, notice, pc, out, marker, shown>>

StepEnds(j) ==
  /\ step[j] = "sent"
  /\ step' = [step EXCEPT ![j] = "idle"]
  /\ \/ /\ ~ Gone(j, marker[j])
        /\ shown' = [shown EXCEPT ![j][marker[j]] = "step"]
     \/ UNCHANGED shown
  /\ UNCHANGED <<journal, payload, queue, process, notice, pc, out, marker>>

(* The turn answers, has nothing to say, or fails. *)
TurnEnds(j, o) ==
  /\ pc[j] = "turn"
  /\ ComesTo(j, o)
  /\ Goes(j, "unfollow")
  /\ UNCHANGED <<journal, payload, queue, process, notice, marker, step, shown>>

BugFollowerCutShort(j) ==
  /\ pc[j] = "unfollow"
  /\ Goes(j, IF out[j] = "failed" THEN "retract" ELSE "publish")
  /\ UNCHANGED <<journal, payload, queue, process, notice, out, marker, step, shown>>

(* Stopping the follower waits out an edit in flight, before the reply and *)
(* before a retraction.                                                    *)
FollowerStops(j) ==
  /\ pc[j] = "unfollow"
  /\ step[j] # "sent"
  /\ step' = [step EXCEPT ![j] = "off"]
  /\ Goes(j, IF out[j] = "failed" THEN "retract" ELSE "publish")
  /\ UNCHANGED <<journal, payload, queue, process, notice, out, marker, shown>>

PublishBegins(j) ==
  /\ pc[j] = "publish"
  /\ \/ /\ J!BeginAction(j, Publish)
        /\ Goes(j, "publishing")
        /\ UNCHANGED out
     \/ /\ J!Replays(j, Publish)
        /\ Goes(j, "retract")
        /\ ComesTo(j, "done")
        /\ UNCHANGED journal
     \/ /\ J!Uncertain(j, Publish)
        /\ RunFails(j, "retract")
        /\ UNCHANGED journal
  /\ UNCHANGED <<payload, queue, process, notice, marker, step, shown>>

(* publishEffect: the reply over the status line, or no line at all. *)
PublishLands(j) ==
  /\ pc[j] = "publishing"
  /\ J!LandAction(j, Publish)
  /\ IF out[j] = "reply" THEN Show(j, "reply") ELSE Remove(j)
  /\ UNCHANGED <<payload, queue, process, runs>>

PublishEnds(j) ==
  /\ pc[j] = "publishing"
  /\ Goes(j, "retract")
  /\ \/ /\ J!RecordAction(j, Publish, 0)
        /\ marker' = [marker EXCEPT ![j] = 0]
        /\ ComesTo(j, "done")
     \/ /\ J!FailAction(j, Publish)
        /\ ComesTo(j, "failed")
        /\ UNCHANGED marker
  /\ UNCHANGED <<payload, queue, process, notice, step, shown>>

(* onExit of the run, and the last action of a cancellation: the status    *)
(* line goes, unless publication began. A run only logs a failure here; a  *)
(* cancellation then stays unfinished.                                     *)
RetractBegins(j) ==
  /\ pc[j] = "retract"
  /\ \/ /\ J!BeginAction(j, Retract)
        /\ Goes(j, "retracting")
        /\ UNCHANGED out
     \/ /\ J!Replays(j, Retract)
        /\ Goes(j, "end")
        /\ UNCHANGED <<out, journal>>
     \/ /\ J!Uncertain(j, Retract)
        /\ Goes(j, "end")
        /\ ComesTo(j, IF out[j] = "cancel" THEN "uncancelled" ELSE out[j])
        /\ UNCHANGED journal
  /\ UNCHANGED <<payload, queue, process, notice, marker, step, shown>>

RetractLands(j) ==
  /\ pc[j] = "retracting"
  /\ J!LandAction(j, Retract)
  /\ IF row[j][Publish] = NoRow THEN Remove(j) ELSE UNCHANGED shown
  /\ UNCHANGED <<payload, queue, process, runs>>

RetractEnds(j) ==
  /\ pc[j] = "retracting"
  /\ Goes(j, "end")
  /\ \/ /\ J!RecordAction(j, Retract, 0)
        /\ UNCHANGED out
     \/ /\ row[j][Publish] = NoRow /\ marker[j] # 0
        /\ J!FailAction(j, Retract)
        /\ ComesTo(j, IF out[j] = "cancel" THEN "uncancelled" ELSE out[j])
  /\ UNCHANGED <<payload, queue, process, notice, marker, step, shown>>

(* jobs.runEffect records how the run ended, and its thread is free. *)
RunEnds(j) ==
  /\ pc[j] = "end" /\ out[j] \in {"done", "failed"}
  /\ IF out[j] = "done" THEN J!MarkCompleted(j) ELSE J!MarkFailed(j)
  /\ Q!Finish(j)
  /\ Goes(j, "idle")
  /\ access' = [access EXCEPT ![j] = "none"]
  /\ UNCHANGED <<payload, host, todo, ready, crashes, notice, out, marker, step, shown>>

-----------------------------------------------------------------------------
(* The life of the process, and recovery before it opens. *)

Restart ==
  /\ host \in {"down", "stopped"}
  /\ host' = "restoring"
  /\ todo' = Unfinished
  /\ UNCHANGED <<journal, payload, queue, ready, access, crashes, runs, shown>>

BugResumesDemoted(j, a) == a # "denied"

(* A sender denied now, or an admin not found one again, loses the run.    *)
Resumes(j, a) == a # "denied" /\ (admin[j] => a = "admin")

RestoreChecks(j, a) ==
  /\ host = "restoring" /\ j \in todo /\ j = Oldest(todo)
  /\ status[j] \in J!Open
  /\ access' = [access EXCEPT ![j] = a]
  /\ IF Resumes(j, a)
     THEN /\ todo' = todo \ {j}
          /\ ready' = ready \cup {j}
          /\ UNCHANGED journal
     ELSE /\ J!RequestCancel(j)
          /\ UNCHANGED <<todo, ready>>
  /\ UNCHANGED <<payload, queue, host, crashes, runs, shown>>

BugCancelGuesses(j) ==
  /\ host = "restoring" /\ j \in todo /\ j = Oldest(todo)
  /\ status[j] = "cancelling" /\ pc[j] = "idle"
  /\ marker' = [marker EXCEPT ![j] =
                  IF J!Recorded(j, Working) THEN row[j][Working]
                  ELSE IF J!Recorded(j, Notice) THEN row[j][Notice] ELSE 0]
  /\ Goes(j, "retract")
  /\ ComesTo(j, "cancel")
  /\ UNCHANGED <<journal, payload, queue, process, notice, step, shown>>

(* recoverCancellation finds the message the run may have left. A notice   *)
(* whose outcome is unknown is left for review.                            *)
CancelBegins(j) ==
  /\ host = "restoring" /\ j \in todo /\ j = Oldest(todo)
  /\ status[j] = "cancelling" /\ pc[j] = "idle"
  /\ row[j][Notice] # Intent /\ row[j][Working] # Intent
  /\ marker' = [marker EXCEPT ![j] =
                  IF J!Recorded(j, Working) THEN row[j][Working]
                  ELSE IF J!Recorded(j, Notice) THEN row[j][Notice] ELSE 0]
  /\ Goes(j, "retract")
  /\ ComesTo(j, "cancel")
  /\ UNCHANGED <<journal, payload, queue, process, notice, step, shown>>

(* Such a notice, or a turn that cannot be aborted, fails the cleanup. A   *)
(* job that reached its turn has a working notice on record.               *)
CancelRefused(j) ==
  /\ host = "restoring" /\ j \in todo /\ j = Oldest(todo)
  /\ status[j] = "cancelling" /\ pc[j] = "idle"
  /\ \/ row[j][Notice] = Intent \/ row[j][Working] = Intent
     \/ J!Recorded(j, Working)
  /\ J!MarkFailed(j)
  /\ todo' = todo \ {j}
  /\ access' = [access EXCEPT ![j] = "none"]
  /\ UNCHANGED <<payload, queue, host, ready, crashes, runs, shown>>

CancelEnds(j) ==
  /\ pc[j] = "end" /\ out[j] \in {"cancel", "uncancelled"}
  /\ IF out[j] = "cancel" THEN J!MarkCancelled(j) ELSE J!MarkFailed(j)
  /\ todo' = todo \ {j}
  /\ Goes(j, "idle")
  /\ access' = [access EXCEPT ![j] = "none"]
  /\ UNCHANGED <<payload, queue, host, ready, crashes,
                 notice, out, marker, step, shown>>

(* Jobs behind a failed cleanup stay queued for a later process. *)
RestoreAdmits(j) ==
  /\ host = "restoring" /\ todo = {}
  /\ j \in ready /\ j = Oldest(ready)
  /\ ready' = ready \ {j}
  /\ IF IsCancelling(thread[j])
     THEN UNCHANGED <<queue, notice>>
     ELSE Admit(j, thread[j])
  /\ UNCHANGED <<journal, payload, host, todo, access, crashes,
                 pc, out, marker, step, shown>>

Opens ==
  /\ host = "restoring" /\ todo = {} /\ ready = {}
  /\ host' = "open"
  /\ UNCHANGED <<journal, payload, queue, todo, ready, access, crashes, runs, shown>>

Closes ==
  /\ host = "open"
  /\ Q!Close
  /\ UNCHANGED <<journal, payload, process, runs, shown>>

(* Nothing but the journal and the outside survives the process. *)
ProcessEnds(h) ==
  /\ J!LoseCalls
  /\ Q!Lose
  /\ host' = h
  /\ todo' = {}
  /\ ready' = {}
  /\ access' = [j \in Job |-> "none"]
  /\ notice' = [j \in Job |-> "none"]
  /\ pc' = [j \in Job |-> "idle"]
  /\ out' = [j \in Job |-> "none"]
  /\ marker' = [j \in Job |-> 0]
  /\ step' = [j \in Job |-> "off"]
  /\ UNCHANGED <<payload, shown>>

(* Shutdown lets the queue drain; at its deadline it exits anyway, which   *)
(* is a crash for the runs in flight.                                      *)
Exits ==
  /\ ~ accepting /\ Q!Drained
  /\ ProcessEnds("stopped")
  /\ UNCHANGED crashes

Crashes ==
  /\ host \in {"restoring", "open"}
  /\ crashes < MaxCrashes
  /\ ProcessEnds("down")
  /\ crashes' = crashes + 1

-----------------------------------------------------------------------------
NoticeStep(j) == NoticeBegins(j) \/ NoticeLands(j) \/ NoticeEnds(j)

RunStep(j) ==
  \/ RunBegins(j) \/ RunJoinsNotice(j)
  \/ WorkingBegins(j) \/ WorkingLands(j) \/ WorkingEnds(j)
  \/ FollowerStops(j)
  \/ PublishBegins(j) \/ PublishLands(j) \/ PublishEnds(j)
  \/ RetractBegins(j) \/ RetractLands(j) \/ RetractEnds(j)
  \/ RunEnds(j)

RestoreStep(j) ==
  \/ \E a \in {"admin", "member", "denied"} : RestoreChecks(j, a)
  \/ CancelBegins(j) \/ CancelRefused(j) \/ CancelEnds(j)
  \/ RestoreAdmits(j)

Next ==
  \/ \E j \in Job, k \in Thread, adm \in FromAdmin : Accept(j, k, adm)
  \/ \E j \in Job : NoticeStep(j) \/ RunStep(j) \/ RestoreStep(j)
  \/ \E j \in Job, o \in {"reply", "empty", "failed"} : TurnEnds(j, o)
  \/ \E j \in Job : StepSent(j) \/ StepEnds(j)
  \/ Restart \/ Opens \/ Closes \/ Exits \/ Crashes

Spec == Init /\ [][Next]_vars

(* Every gateway request of a run has a timeout, and the service manager   *)
(* restarts a host that died (nix/module.nix:339). Events, shutdown,       *)
(* crashes, a restart after a clean exit and the end of a turn, which      *)
(* waits for the model without a deadline (durable.ts:534), are left to    *)
(* chance.                                                                 *)
FairSpec ==
  /\ Spec
  /\ \A j \in Job : /\ WF_vars(NoticeStep(j))
                    /\ WF_vars(RunStep(j))
                    /\ WF_vars(StepEnds(j))
                    /\ WF_vars(RestoreStep(j))
  /\ WF_vars(Opens)
  /\ WF_vars(host = "down" /\ Restart)

-----------------------------------------------------------------------------
Visible(j) == {m \in 1 .. Len(shown[j]) : ~ Gone(j, m)}

(* "A run leaves one message at most" (runner.ts:72-74), across every      *)
(* crash, replay and failure: no run ever posts a second one.              *)
OneMessage == \A j \in Job : Len(shown[j]) <= 1

(* Once a reply is out nothing replaces or removes it: no step edit lands  *)
(* over it (runner.ts:151-154), no recovery and no exit retracts it        *)
(* (runner.ts:179-180, 278-285).                                           *)
ReplyStands ==
  [][\A j \in Job : \A m \in 1 .. Len(shown[j]) :
       shown[j][m] = "reply" => shown'[j][m] = "reply"]_vars

(* No status line outlives its run unless its fate is uncertain: a         *)
(* completed run shows its reply or nothing; a cancelled one whose reply   *)
(* was never begun shows nothing; nor does a failed one with no action     *)
(* left open in the journal (runner.ts:72-74, 197-222, 227-274).           *)
NoStaleStatus ==
  \A j \in Job :
    /\ status[j] = "completed" =>
         \A m \in Visible(j) : shown[j][m] = "reply"
    /\ status[j] = "cancelled" /\ row[j][Publish] = NoRow => Visible(j) = {}
    /\ /\ status[j] = "failed" /\ row[j][Publish] = NoRow
       /\ \A k \in ActionKey : row[j][k] # Intent
       => Visible(j) = {}

(* A thread's runs follow one another in the order they were accepted,     *)
(* across restarts: a run acts only when every earlier run of its thread   *)
(* has ended (queue.ts:6-9, thread-work.ts:71-76, 89-92).                  *)
ThreadSerial ==
  \A i, j \in Job :
    i < j /\ thread[i] = thread[j] /\ thread[j] # NoThread /\ pc[j] # "idle"
      /\ out[j] \notin {"cancel", "uncancelled"}
    => status[i] \in J!Ended

(* A run acts only for a sender its gateway let through in this very       *)
(* process, an admin's run only for one found an admin again, and a        *)
(* cancelling run never acts, whatever the next gateway check says         *)
(* (thread-work.ts:54-68, 206).                                            *)
OnlyConfirmedRun ==
  \A j \in Job :
    pc[j] \in {"join", "working", "showing", "turn", "unfollow", "publish", "publishing"}
      => /\ access[j] \in {"admin", "member"}
         /\ admin[j] => access[j] = "admin"
         /\ status[j] = "running"

(* What a job's thread has been told, as the contract of a run sees it:    *)
(* the message the job posted, which counts as the reply or no message     *)
(* once publication began, since no one knows better after a death.        *)
Fate(j) ==
  IF status[j] = "absent" THEN "none"
  ELSE IF status[j] \in J!Open THEN "open"
  ELSE IF status[j] = "cancelling" THEN "revoked"
  ELSE status[j]

Sees(j) ==
  IF shown[j] = <<>> THEN "nothing"
  ELSE IF Len(shown[j]) > 1 THEN "several"
  ELSE IF shown[j][1] \in {"reply", "gone"} THEN shown[j][1]
  ELSE IF row[j][Publish] # NoRow THEN "answering"
  ELSE "status"

C == INSTANCE RunContract WITH
       fate <- [j \in Job |-> Fate(j)],
       sees <- [j \in Job |-> Sees(j)]

(* Whatever the host does, dies of and recovers from, a thread sees a run  *)
(* answer at most once, in its turn and never after it was revoked, its    *)
(* line left alone from the moment it may be the reply (runner.ts:179-180, *)
(* 278-285), and nothing of it change once it has ended.                   *)
ContractKept == C!ContractSpec

(* The model answers or gives up every time: a request to it has no        *)
(* deadline (durable.ts:534), so one that never ends holds its run, its    *)
(* thread and its slot for good.                                           *)
TurnsEnd == \A i \in Job : []<>(pc[i] # "turn")

(* As long as no request to the model stays open for ever, every accepted  *)
(* job ends, unless a failed cleanup of its thread holds it back for an    *)
(* operator (thread-work.ts:71-76), however often the host dies, in the    *)
(* middle of its recovery too.                                             *)
EveryJobSettles ==
  TurnsEnd =>
    \A j \in Job :
      status[j] \in J!Open ~> (status[j] \in J!Ended \/ IsCancelling(thread[j]))
=============================================================================
