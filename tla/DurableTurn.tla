----------------------------- MODULE DurableTurn -----------------------------
(***************************************************************************)
(* The runs of one conversation, one after another: runDurableTurn of      *)
(* packages/host/src/agent/durable.ts over Pi Durable, through stops,      *)
(* process deaths and changes of configuration.                            *)
(*                                                                         *)
(* Pi Durable keeps the conversation: submissions and the tool calls of    *)
(* the model's responses. It is external, and assumed to do as little as   *)
(* the code relies on: it drives whatever is pending from the moment the   *)
(* conversation is opened, runs one tool at a time, may or may not note    *)
(* that a call started, may run a call that has not ended again, and may   *)
(* send a request whose hook threw. The host keeps one document per run    *)
(* (policy, failure, operations) and decides from it what may run.         *)
(*                                                                         *)
(* The document's policy hashes the run's own prompt, so it is compared    *)
(* within a run only: a configuration stands for it, or NoTools for the    *)
(* turn that cleans up after a cancelled job.                              *)
(***************************************************************************)
EXTENDS Naturals, FiniteSets

CONSTANTS
  Runs,        \* how many runs the conversation has (bound)
  Call,        \* the tool calls the model can make in it
  Unsafe,      \* calls of tools without replay: "safe"
  Reviewed,    \* calls the write review decides
  Config,      \* what a deployment can make of model, prompt and tools
  NoTools, NoPolicy,
  MaxCrashes   \* how many times the host dies (bound)

Run == 1 .. Runs

ASSUME TurnAssumption ==
  /\ Runs \in Nat /\ MaxCrashes \in Nat
  /\ Reviewed \subseteq Unsafe /\ Unsafe \subseteq Call
  /\ NoTools \notin Config /\ NoPolicy \notin Config /\ NoTools # NoPolicy

VARIABLES
  \* Pi Durable
  sub,       \* submissionByRequest: a run's input and what came of it
  owner,     \* the run in whose response a call was made, 0 for none
  task,      \* the tool task of a call
  asking,    \* a model request is out
  \* DurableRunDoc
  policy, failed, op,
  \* the turn
  run,       \* the job whose turn it is
  result,    \* what the jobs so far came to
  config,    \* of this process
  cancel,    \* the turn only cleans up after a cancelled job
  pc, stopping, failure,
  stage,     \* where execute is with a call
  crashes,
  \* the services
  applied    \* how often a call's effect reached its service

durable == <<sub, owner, task, asking>>
doc     == <<policy, failed, op>>
turn    == <<run, result, config, cancel, pc>>
flags   == <<stopping, failure>>
vars    == <<durable, doc, turn, flags, stage, crashes, applied>>

Init ==
  /\ sub = [r \in Run |-> "none"]
  /\ owner = [c \in Call |-> 0]
  /\ task = [c \in Call |-> "none"]
  /\ asking = FALSE
  /\ policy = [r \in Run |-> NoPolicy]
  /\ failed = [r \in Run |-> FALSE]
  /\ op = [r \in Run |-> [c \in Call |-> "none"]]
  /\ run = 1
  /\ result = [r \in Run |-> "none"]
  /\ config \in Config
  /\ cancel = FALSE
  /\ pc = "idle"
  /\ stopping = FALSE
  /\ failure = FALSE
  /\ stage = [c \in Call |-> "idle"]
  /\ crashes = 0
  /\ applied = [c \in Call |-> 0]

Mine == IF cancel THEN NoTools ELSE config
Leftover == {c \in Call : task[c] \in {"pending", "started"}}
Open == {r \in Run : sub[r] = "open"}
UncertainOf(r) == {c \in Unsafe : op[r][c] = "intent"}
Uncertain == UncertainOf(run)

(* active > 0: from the start of a call until its result is recorded. *)
ActiveCalls == {c \in Call : stage[c] \in {"go", "called", "applied", "recorded"}}
Executing == {c \in Call : stage[c] # "idle"}

(* The harness is open and its tasks are driven. *)
Driven == pc # "idle"

-----------------------------------------------------------------------------
(* The turn. Mutants are operators named Bug...: each stands for a slip    *)
(* the code could have made in the operator after it, refuted by some run. *)

(* Context or MCP server down: the run ends before its turn opens. *)
FailsBefore ==
  /\ pc = "idle" /\ run \in Run
  /\ result' = [result EXCEPT ![run] = "failed"]
  /\ run' = run + 1
  /\ UNCHANGED <<durable, doc, config, cancel, pc, flags, stage, crashes, applied>>

(* Only the recovery of a job opens its conversation to clean up. *)
Opens ==
  /\ pc = "idle" /\ run \in Run
  /\ cancel' \in (IF crashes > 0 THEN BOOLEAN ELSE {FALSE})
  /\ pc' = "open"
  /\ stopping' = cancel'
  /\ failure' = FALSE
  /\ UNCHANGED <<durable, doc, run, result, config, stage, crashes, applied>>

BugOwnLeftoversOnly ==
  \/ failed[run]
  \/ Open # {} /\ policy[run] \notin {NoPolicy, Mine}
  \/ \E c \in Unsafe : task[c] = "started"

(* What the code finds when it opens the conversation. *)
MayNotResume ==
  \/ failed[run]
  \/ Open # {} /\ policy[run] # Mine
  \/ \E c \in Unsafe : task[c] = "started"

Inspects ==
  /\ pc = "open"
  /\ failure' = (failure \/ MayNotResume)
  /\ pc' = "inspected"
  /\ UNCHANGED <<durable, doc, run, result, config, cancel, stopping, stage, crashes, applied>>

Records ==
  /\ pc = "inspected"
  /\ policy' = [policy EXCEPT ![run] = IF @ = NoPolicy THEN Mine ELSE @]
  /\ failed' = [failed EXCEPT ![run] = @ \/ failure]
  /\ pc' = "recorded"
  /\ UNCHANGED <<durable, op, run, result, config, cancel, flags, stage, crashes, applied>>

Submits ==
  /\ pc = "recorded" /\ ~ failure /\ ~ stopping
  /\ sub' = [sub EXCEPT ![run] = IF @ = "none" THEN "open" ELSE @]
  /\ pc' = "waiting"
  /\ UNCHANGED <<owner, task, asking, doc, run, result, config, cancel, flags, stage, crashes, applied>>

(* stop: at once for a turn that may not go on, or when its signal aborts. *)
Stops ==
  /\ \/ pc = "recorded" /\ (failure \/ stopping)
     \/ pc = "waiting" /\ ~ stopping
  /\ stopping' = TRUE
  /\ pc' = "aborting"
  /\ UNCHANGED <<durable, doc, run, result, config, cancel, failure, stage, crashes, applied>>

(* conversation.abort, once no call is between its start and its result. *)
Aborts ==
  /\ pc = "aborting" /\ ActiveCalls = {}
  /\ sub' = [r \in Run |-> IF sub[r] = "open" THEN "unanswered" ELSE sub[r]]
  /\ task' = [c \in Call |-> IF c \in Leftover THEN "terminal" ELSE task[c]]
  /\ asking' = FALSE
  /\ pc' = "waiting"
  /\ UNCHANGED <<owner, doc, run, result, config, cancel, flags, stage, crashes, applied>>

(* A call still in review here belongs to a stopped turn and only throws.  *)
Returns ==
  /\ pc = "waiting" /\ sub[run] # "open"
  /\ failed' = [failed EXCEPT ![run] = @ \/ failure]
  /\ result' = [result EXCEPT ![run] =
       IF sub[run] = "done" /\ ~ stopping /\ ~ failure THEN "answered" ELSE "failed"]
  /\ run' = run + 1
  /\ pc' = "idle"
  /\ stage' = [c \in Call |-> IF stage[c] = "review" THEN "idle" ELSE stage[c]]
  /\ UNCHANGED <<durable, policy, op, config, cancel, flags, crashes, applied>>

-----------------------------------------------------------------------------
(* The model. *)

(* Generation is next when a submission is open and none of its calls is.  *)
Generates(r) == Driven /\ sub[r] = "open" /\ Leftover = {} /\ ~ asking

BugGuardForgetsFailure(r) ==
  /\ Generates(r)
  /\ failure' = (failure \/ Uncertain # {})
  /\ \/ /\ stopping \/ policy[run] # Mine
        /\ sub' = [sub EXCEPT ![r] = "unanswered"]
        /\ UNCHANGED asking
     \/ /\ ~ stopping
        /\ asking' = TRUE
        /\ UNCHANGED sub
  /\ UNCHANGED <<owner, task, doc, turn, stopping, stage, crashes, applied>>

(* beforeRequest, then the guard at the provider boundary. Both look at    *)
(* the document of the turn's run, whichever run's generation this is. A   *)
(* hook that only throws (no policy yet, or another one) may still not     *)
(* keep Durable from sending the request.                                  *)
Asks(r) ==
  /\ Generates(r)
  /\ failure' = (failure \/ Uncertain # {})
  /\ \/ /\ failure' \/ stopping \/ policy[run] # Mine
        /\ sub' = [sub EXCEPT ![r] = "unanswered"]
        /\ UNCHANGED asking
     \/ /\ ~ failure' /\ ~ stopping
        /\ asking' = TRUE
        /\ UNCHANGED sub
  /\ UNCHANGED <<owner, task, doc, turn, stopping, stage, crashes, applied>>

(* The response has calls, or is the answer, or there is none. *)
Responds(r) ==
  /\ asking /\ sub[r] = "open"
  /\ asking' = FALSE
  /\ \/ \E made \in SUBSET {c \in Call : owner[c] = 0} \ {{}} :
          /\ owner' = [c \in Call |-> IF c \in made THEN r ELSE owner[c]]
          /\ task' = [c \in Call |-> IF c \in made THEN "pending" ELSE task[c]]
          /\ UNCHANGED sub
     \/ /\ sub' = [sub EXCEPT ![r] = "done"]
        /\ UNCHANGED <<owner, task>>
     \/ /\ sub' = [sub EXCEPT ![r] = "unanswered"]
        /\ UNCHANGED <<owner, task>>
  /\ UNCHANGED <<doc, turn, flags, stage, crashes, applied>>

-----------------------------------------------------------------------------
(* A tool call. *)

BugGateForgetsPolicy == stopping \/ failure \/ failed[run] \/ Uncertain # {}
BugGateForgetsUncertain == stopping \/ failure \/ failed[run] \/ policy[run] # Mine

(* gate *)
Blocked == stopping \/ failure \/ failed[run] \/ policy[run] # Mine \/ Uncertain # {}

(* An operation with a result is never run again. *)
Recorded(c) == op[run][c] = "result"

(* execute, up to its review or its start. A blocked call ends with an     *)
(* error, a recorded one with its recorded result.                         *)
Executes(c) ==
  /\ Driven /\ c \in Leftover /\ Executing = {}
  /\ failure' = (failure \/ (~ stopping /\ ~ failed[run] /\ policy[run] = Mine /\ Uncertain # {}))
  /\ IF Blocked \/ Recorded(c)
     THEN task' = [task EXCEPT ![c] = "terminal"] /\ UNCHANGED stage
     ELSE /\ \E noted \in {task[c], "started"} : task' = [task EXCEPT ![c] = noted]
          /\ stage' = [stage EXCEPT ![c] = IF c \in Reviewed THEN "review" ELSE "go"]
  /\ UNCHANGED <<sub, owner, asking, doc, turn, stopping, crashes, applied>>

(* The call is over for Durable, unless an abort already ended it. *)
Ends(c) ==
  /\ task' = [task EXCEPT ![c] = "terminal"]
  /\ stage' = [stage EXCEPT ![c] = "idle"]

(* Held, or allowed into a turn that stopped meanwhile: it never starts.   *)
Holds(c) ==
  /\ stage[c] = "review"
  /\ Ends(c)
  /\ UNCHANGED <<sub, owner, asking, doc, turn, flags, crashes, applied>>

Allows(c) ==
  /\ stage[c] = "review" /\ ~ stopping
  /\ stage' = [stage EXCEPT ![c] = "go"]
  /\ UNCHANGED <<durable, doc, turn, flags, crashes, applied>>

(* The start is journaled before the tool runs. *)
Begins(c) ==
  /\ stage[c] = "go"
  /\ op' = [op EXCEPT ![run][c] = "intent"]
  /\ stage' = [stage EXCEPT ![c] = "called"]
  /\ UNCHANGED <<durable, policy, failed, turn, flags, crashes, applied>>

Applies(c) ==
  /\ stage[c] = "called"
  /\ applied' = [applied EXCEPT ![c] = @ + 1]
  /\ stage' = [stage EXCEPT ![c] = "applied"]
  /\ UNCHANGED <<durable, doc, turn, flags, crashes>>

(* The tool answered, with its result or with an error the service gave.   *)
Journals(c) ==
  /\ stage[c] \in {"called", "applied"}
  /\ op' = [op EXCEPT ![run][c] = "result"]
  /\ failed' = [failed EXCEPT ![run] = @ \/ failure]
  /\ stage' = [stage EXCEPT ![c] = "recorded"]
  /\ UNCHANGED <<durable, policy, turn, flags, crashes, applied>>

Settles(c) ==
  /\ stage[c] = "recorded"
  /\ Ends(c)
  /\ UNCHANGED <<sub, owner, asking, doc, turn, flags, crashes, applied>>

BugRejectsKeepActive(c) ==
  /\ stage[c] \in {"go", "called", "applied"}
  /\ task' = [task EXCEPT ![c] = "terminal"]
  /\ stage' = [stage EXCEPT ![c] = "lost"]
  /\ UNCHANGED <<sub, owner, asking, doc, turn, flags, crashes, applied>>

(* Nothing answered, or the step's listener or the document failed: the    *)
(* error goes on, and an operation that began has no result.               *)
Rejects(c) ==
  /\ stage[c] \in {"go", "called", "applied"}
  /\ Ends(c)
  /\ UNCHANGED <<sub, owner, asking, doc, turn, flags, crashes, applied>>

-----------------------------------------------------------------------------
(* The process dies. A call that was out may still reach its service.      *)
Crashes ==
  /\ crashes < MaxCrashes /\ run \in Run
  /\ crashes' = crashes + 1
  /\ config' \in Config
  /\ \E late \in SUBSET {c \in Call : stage[c] = "called"} :
       applied' = [c \in Call |-> IF c \in late THEN applied[c] + 1 ELSE applied[c]]
  /\ pc' = "idle"
  /\ cancel' = FALSE
  /\ stopping' = FALSE
  /\ failure' = FALSE
  /\ asking' = FALSE
  /\ stage' = [c \in Call |-> "idle"]
  /\ UNCHANGED <<sub, owner, task, doc, run, result>>

TurnStep == FailsBefore \/ Opens \/ Inspects \/ Records \/ Submits \/ Aborts \/ Returns
ModelStep == \E r \in Run : Asks(r) \/ Responds(r)
Requests == \E r \in Run : Asks(r)
CallEnds(c) == Holds(c) \/ Allows(c) \/ Begins(c) \/ Journals(c) \/ Settles(c) \/ Rejects(c)
CallStep(c) == Executes(c) \/ CallEnds(c)
StopsUnfit == Stops /\ pc = "recorded"

Next ==
  \/ TurnStep
  \/ ModelStep
  \/ \E c \in Call : CallStep(c) \/ Applies(c)
  \/ Stops
  \/ Crashes

Spec == Init /\ [][Next]_vars

(* The storage is local, a review ends after JUDGE_TIMEOUT (write-gate.ts: *)
(* 166) and a call to the server has a deadline. A request to the run's    *)
(* model has none, and submission.wait (durable.ts:534) waits as long as   *)
(* it does: nothing is assumed of Responds, nor of the signal that stops.  *)
FairSpec ==
  /\ Spec
  /\ WF_vars(TurnStep \/ StopsUnfit)
  /\ WF_vars(Requests)
  /\ WF_vars(\E c \in Call : CallStep(c))

-----------------------------------------------------------------------------
(* Properties. *)

TypeOK ==
  /\ sub \in [Run -> {"none", "open", "done", "unanswered"}]
  /\ owner \in [Call -> 0 .. Runs]
  /\ task \in [Call -> {"none", "pending", "started", "terminal"}]
  /\ policy \in [Run -> Config \cup {NoTools, NoPolicy}]
  /\ failed \in [Run -> BOOLEAN]
  /\ op \in [Run -> [Call -> {"none", "intent", "result"}]]
  /\ run \in 1 .. Runs + 1
  /\ result \in [Run -> {"none", "answered", "failed"}]
  /\ config \in Config
  /\ {asking, cancel, stopping, failure} \subseteq BOOLEAN
  /\ pc \in {"idle", "open", "inspected", "recorded", "waiting", "aborting"}
  /\ stage \in [Call -> {"idle", "review", "go", "called", "applied", "recorded"}]
  /\ crashes \in 0 .. MaxCrashes
  /\ applied \in [Call -> Nat]

(* A write reaches its service at most once, whatever dies, is recovered,  *)
(* is reopened by a later run or is run again by Durable (durable.ts       *)
(* 152-171, 241-263).                                                      *)
WriteAtMostOnce == \A c \in Unsafe : applied[c] <= 1

(* "uncertain writes stop model continuation" (durable.ts:109): the model  *)
(* of a run with a write whose outcome nobody knows is not asked. The one  *)
(* exception is an earlier run whose recovery failed before its turn: its  *)
(* generation is still pending, the hook reads the document of the run     *)
(* whose turn it is, and so its model may be asked between the opening of  *)
(* the conversation and its inspection (durable.ts:412-436), in a turn     *)
(* that then fails and never waits for anything.                           *)
UncertainStopsModel ==
  \A r \in Run : asking /\ sub[r] = "open" /\ UncertainOf(r) # {} =>
    /\ r < run
    /\ pc \in {"open", "inspected", "recorded", "aborting"}
    /\ pc # "open" => failure

(* A call runs only in its own run's turn, and under the policy the run    *)
(* was begun with, however early Durable drives what it finds; and the     *)
(* turn does not return, nor is the conversation aborted, while a call is  *)
(* between its start and its result (session.ts:171-174).                  *)
CallsStayInTurn ==
  \A c \in ActiveCalls :
    /\ owner[c] = run /\ policy[run] = Mine
    /\ pc # "idle" /\ c \in Leftover

(* A call whose result is recorded does not run again: a rerun returns the *)
(* recorded result, for reads as well.                                     *)
RecordedNeverReruns ==
  [][\A r \in Run, c \in Call : op[r][c] = "result" =>
       op'[r][c] = "result" /\ applied'[c] = applied[c]]_vars

(* A run whose document holds a failure lets no further call in and is     *)
(* never answered, in this process or a later one.                         *)
FailureIsFinal ==
  [][\A r \in Run : failed[r] =>
       /\ failed'[r]
       /\ result'[r] # "answered"
       /\ run = r => \A c \in Call : stage[c] = "idle" => stage'[c] = "idle"]_vars

(* A turn that returned leaves nothing pending in the conversation, its    *)
(* own or an earlier run's, "so the thread's next run does not find it"    *)
(* (runner.ts:253-254).                                                    *)
TurnLeavesNothing ==
  [][pc = "waiting" /\ run' # run => Open' = {} /\ Leftover' = {}]_vars

(* Every run of the conversation settles, or the model never answers the   *)
(* last request of a turn that nobody stops: no turn waits for ever for an *)
(* active call, for a submission nothing drives any more or for its own    *)
(* stop, and a stopped turn does not wait for the model (durable.ts        *)
(* 471-487, 534-535).                                                      *)
EveryRunSettles ==
  \/ \A r \in Run : <>(result[r] # "none")
  \/ <>[](asking /\ pc = "waiting" /\ ~ stopping)
=============================================================================
