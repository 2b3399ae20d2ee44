-------------------------- MODULE DurableTurnProofs --------------------------
(***************************************************************************)
(* What DurableTurn promises, for any number of runs, calls, deployments   *)
(* and deaths.                                                             *)
(***************************************************************************)
EXTENDS DurableTurn, TLAPS

-----------------------------------------------------------------------------
(* The inductive invariant. A write is applied once because its operation  *)
(* is journaled before it is called (AppliedOnce) in the document of the   *)
(* run it belongs to, and only that run's turn ever executes it            *)
(* (ExecutionOwned). The latter needs that a turn which may execute        *)
(* anything has no other run's work in its conversation (NoOthersWork),    *)
(* which the inspection at opening establishes and failures remember.      *)

Fresh == \A r \in Run : r > run =>
  /\ sub[r] = "none" /\ policy[r] = NoPolicy /\ failed[r] = FALSE
  /\ \A c \in Call : op[r][c] = "none"

OneAtATime == \A c, d \in Executing : c = d

LeftoverOwned == \A c \in Leftover : owner[c] \in Run /\ sub[owner[c]] = "open"

AskingAlone == asking => pc # "idle" /\ Open # {} /\ Leftover = {}

OpOwned == \A r \in Run, c \in Call : op[r][c] # "none" => owner[c] = r

ExecutionOwned == \A c \in Executing :
  /\ pc # "idle" /\ owner[c] = run /\ policy[run] = Mine
  /\ c \in ActiveCalls \/ ~ stopping => c \in Leftover
  /\ stage[c] \in {"called", "applied"} => op[run][c] = "intent"
  /\ stage[c] = "recorded" => op[run][c] = "result"
  /\ stage[c] \in {"review", "go"} => op[run][c] # "result"
  /\ c \in Unsafe /\ stage[c] \in {"review", "go"} => op[run][c] = "none"

NoOthersWork == run \in Run =>
  /\ policy[run] # NoPolicy /\ ~ failed[run] => Open \subseteq {run}
  /\ pc = "inspected" /\ ~ failure => Open \subseteq {run}
  /\ pc = "waiting" => Open \subseteq {run}

TurnRecorded ==
  /\ pc # "idle" => run \in Run
  /\ pc \in {"recorded", "waiting", "aborting"} => policy[run] # NoPolicy
  /\ pc = "aborting" => stopping
  /\ pc \notin {"idle", "open"} /\ failed[run] => failure
  /\ \A r \in Run : r >= run => result[r] = "none"
  /\ \A r \in Run : failed[r] => result[r] # "answered"

ReviewedUnsafe == \A c \in Call : stage[c] = "review" => c \in Unsafe

AppliedOnce == \A c \in Unsafe :
  /\ applied[c] <= 1
  /\ applied[c] = 1 => owner[c] \in Run /\ op[owner[c]][c] # "none"
  /\ stage[c] \in {"review", "go", "called"} => applied[c] = 0

IInv ==
  /\ TypeOK /\ Fresh /\ OneAtATime /\ LeftoverOwned /\ AskingAlone /\ OpOwned
  /\ ExecutionOwned /\ NoOthersWork /\ TurnRecorded /\ ReviewedUnsafe
  /\ AppliedOnce /\ UncertainStopsModel

USE TurnAssumption DEF Run, vars, durable, doc, turn, flags

LEMMA InvInit == Init => IInv
<1> SUFFICES ASSUME Init PROVE IInv
  OBVIOUS
<1>1. TypeOK
  <2>1. run \in 1 .. Runs + 1 /\ crashes \in 0 .. MaxCrashes /\ config \in Config
    BY DEF Init
  <2>2. owner \in [Call -> 0 .. Runs] /\ applied \in [Call -> Nat]
    BY DEF Init
  <2> QED
    BY <2>1, <2>2 DEF Init, TypeOK
<1>2. Fresh /\ OneAtATime /\ LeftoverOwned /\ AskingAlone /\ OpOwned
  BY DEF Init, Fresh, OneAtATime, LeftoverOwned, AskingAlone, OpOwned, Executing,
         Leftover
<1>3. ExecutionOwned /\ NoOthersWork /\ TurnRecorded /\ ReviewedUnsafe
  BY DEF Init, ExecutionOwned, NoOthersWork, TurnRecorded, ReviewedUnsafe,
         Executing, Leftover
<1>4. AppliedOnce /\ UncertainStopsModel
  BY DEF Init, AppliedOnce, UncertainStopsModel
<1> QED
  BY <1>1, <1>2, <1>3, <1>4 DEF IInv

LEMMA FailsBeforeInv ==
  ASSUME IInv, FailsBefore
  PROVE  IInv'
<1>1. TypeOK'
  <2>1. run' \in 1 .. Runs + 1
    BY DEF FailsBefore, IInv, TypeOK
  <2>2. result' \in [Run -> {"none", "answered", "failed"}]
    BY DEF FailsBefore, IInv, TypeOK
  <2> QED
    BY <2>1, <2>2 DEF FailsBefore, IInv, TypeOK
<1>2. Fresh'
  <2>1. run \in Nat /\ run' = run + 1
    BY DEF FailsBefore, IInv, TypeOK
  <2> QED
    BY <2>1 DEF FailsBefore, IInv, Fresh
<1>3. ExecutionOwned'
  BY DEF FailsBefore, IInv, TypeOK, ExecutionOwned, Executing, ActiveCalls,
         Mine, Leftover
<1>4. NoOthersWork'
  BY DEF FailsBefore, IInv, TypeOK, NoOthersWork, Fresh, Open
<1>5. TurnRecorded'
  BY DEF FailsBefore, IInv, TypeOK, TurnRecorded
<1>6. UncertainStopsModel'
  BY DEF FailsBefore, IInv, TypeOK, UncertainStopsModel, AskingAlone,
         UncertainOf, Open, Leftover
<1>7. OneAtATime' /\ LeftoverOwned' /\ AskingAlone' /\ OpOwned' /\
       ReviewedUnsafe' /\ AppliedOnce'
  BY DEF FailsBefore, IInv, OneAtATime, LeftoverOwned, AskingAlone, OpOwned,
         ReviewedUnsafe, AppliedOnce, Executing, Leftover, Open
<1> QED
  BY <1>1, <1>2, <1>3, <1>4, <1>5, <1>6, <1>7 DEF IInv

LEMMA OpensInv ==
  ASSUME IInv, Opens
  PROVE  IInv'
<1>1. TypeOK'
  BY DEF Opens, IInv, TypeOK
<1>2. AskingAlone'
  BY DEF Opens, IInv, TypeOK, AskingAlone, Open, Leftover
<1>3. ExecutionOwned'
  BY DEF Opens, IInv, TypeOK, ExecutionOwned, Executing, ActiveCalls, Mine, Leftover
<1>4. NoOthersWork'
  BY DEF Opens, IInv, TypeOK, NoOthersWork, Open
<1>5. TurnRecorded'
  BY DEF Opens, IInv, TypeOK, TurnRecorded
<1>6. Fresh' /\ OneAtATime' /\ LeftoverOwned' /\ OpOwned' /\
       ReviewedUnsafe' /\ AppliedOnce' /\ UncertainStopsModel'
  BY DEF Opens, IInv, Fresh, OneAtATime, LeftoverOwned, OpOwned,
         ReviewedUnsafe, AppliedOnce, UncertainStopsModel, Executing,
         Leftover, UncertainOf
<1> QED
  BY <1>1, <1>2, <1>3, <1>4, <1>5, <1>6 DEF IInv

LEMMA InspectsInv ==
  ASSUME IInv, Inspects
  PROVE  IInv'
<1>1. TypeOK'
  BY DEF Inspects, MayNotResume, IInv, TypeOK
<1>2. AskingAlone'
  BY DEF Inspects, MayNotResume, IInv, TypeOK, AskingAlone, Open, Leftover
<1>3. ExecutionOwned'
  BY DEF Inspects, MayNotResume, IInv, TypeOK, ExecutionOwned, Executing,
         ActiveCalls, Mine, Leftover
<1>4. NoOthersWork'
  BY DEF Inspects, MayNotResume, IInv, TypeOK, NoOthersWork, TurnRecorded,
         Mine, Open
<1>5. TurnRecorded'
  BY DEF Inspects, MayNotResume, IInv, TypeOK, TurnRecorded
<1>6. Fresh' /\ OneAtATime' /\ LeftoverOwned' /\ OpOwned' /\
       ReviewedUnsafe' /\ AppliedOnce'
  BY DEF Inspects, MayNotResume, IInv, Fresh, OneAtATime, LeftoverOwned,
         OpOwned, ReviewedUnsafe, AppliedOnce, Executing, Leftover
<1>7. UncertainStopsModel'
  <2>1. ASSUME NEW r \in Run, sub[r] = "open", r < run
        PROVE  failure'
    <3>1. r \in Open /\ ~ (Open \subseteq {run}) /\ run \in Run
      <4>1. run \in Run
        BY DEF Inspects, IInv, TurnRecorded
      <4>2. r # run
        BY <2>1, <4>1
      <4> QED
        BY <2>1, <4>1, <4>2 DEF Open
    <3>2. policy[run] = NoPolicy \/ failed[run]
      BY <3>1 DEF IInv, NoOthersWork
    <3>3. Mine # NoPolicy
      BY DEF Inspects, IInv, TypeOK, Mine
    <3> QED
      BY <3>1, <3>2, <3>3 DEF Inspects, MayNotResume
  <2>2. \A r \in Run : UncertainOf(r)' = UncertainOf(r)
    BY DEF Inspects, UncertainOf
  <2> QED
    BY <2>1, <2>2 DEF Inspects, IInv, UncertainStopsModel
<1> QED
  BY <1>1, <1>2, <1>3, <1>4, <1>5, <1>6, <1>7 DEF IInv

LEMMA RecordsInv ==
  ASSUME IInv, Records
  PROVE  IInv'
<1>1. TypeOK'
  <2>1. Mine \in Config \cup {NoTools, NoPolicy}
    BY DEF Mine, IInv, TypeOK
  <2>2. policy' \in [Run -> Config \cup {NoTools, NoPolicy}]
    BY <2>1 DEF Records, IInv, TypeOK
  <2>3. failed' \in [Run -> BOOLEAN]
    BY DEF Records, IInv, TypeOK
  <2> QED
    BY <2>2, <2>3 DEF Records, IInv, TypeOK
<1>2. Fresh'
  BY DEF Records, IInv, TypeOK, Fresh
<1>3. AskingAlone'
  BY DEF Records, IInv, TypeOK, AskingAlone, Open, Leftover
<1>4. ExecutionOwned'
  BY DEF Records, IInv, TypeOK, ExecutionOwned, Executing, ActiveCalls, Mine,
         Leftover
<1>5. NoOthersWork'
  BY DEF Records, IInv, TypeOK, NoOthersWork, Open
<1>6. TurnRecorded'
  <2>1. run \in Run /\ result[run] # "answered"
    BY DEF Records, IInv, TypeOK, TurnRecorded
  <2>2. Mine # NoPolicy /\ policy'[run] # NoPolicy
    BY <2>1 DEF Records, Mine, IInv, TypeOK
  <2>3. \A r \in Run : r # run => failed'[r] = failed[r]
    BY DEF Records, IInv, TypeOK
  <2>4. failed'[run] = (failed[run] \/ failure)
    BY <2>1 DEF Records, IInv, TypeOK
  <2> QED
    BY <2>1, <2>2, <2>3, <2>4 DEF Records, IInv, TurnRecorded
<1>7. OneAtATime' /\ LeftoverOwned' /\ OpOwned' /\ ReviewedUnsafe' /\
       AppliedOnce' /\ UncertainStopsModel'
  BY DEF Records, IInv, OneAtATime, LeftoverOwned, OpOwned, ReviewedUnsafe,
         AppliedOnce, UncertainStopsModel, Executing, Leftover, UncertainOf
<1> QED
  BY <1>1, <1>2, <1>3, <1>4, <1>5, <1>6, <1>7 DEF IInv

LEMMA SubmitsInv ==
  ASSUME IInv, Submits
  PROVE  IInv'
<1>1. TypeOK'
  BY DEF Submits, IInv, TypeOK
<1>2. Fresh'
  BY DEF Submits, IInv, TypeOK, Fresh
<1>3. LeftoverOwned'
  BY DEF Submits, IInv, TypeOK, LeftoverOwned, Leftover
<1>4. AskingAlone'
  BY DEF Submits, IInv, TypeOK, AskingAlone, Open, Leftover
<1>5. ExecutionOwned'
  BY DEF Submits, IInv, TypeOK, ExecutionOwned, Executing, ActiveCalls, Mine,
         Leftover
<1>6. NoOthersWork'
  BY DEF Submits, IInv, TypeOK, NoOthersWork, TurnRecorded, Open
<1>7. TurnRecorded'
  BY DEF Submits, IInv, TypeOK, TurnRecorded
<1>8. UncertainStopsModel'
  BY DEF Submits, IInv, TypeOK, UncertainStopsModel, AskingAlone,
         NoOthersWork, TurnRecorded, UncertainOf, Open, Leftover
<1>9. OneAtATime' /\ OpOwned' /\ ReviewedUnsafe' /\ AppliedOnce'
  BY DEF Submits, IInv, OneAtATime, OpOwned, ReviewedUnsafe, AppliedOnce,
         Executing
<1> QED
  BY <1>1, <1>2, <1>3, <1>4, <1>5, <1>6, <1>7, <1>8, <1>9 DEF IInv

LEMMA StopsInv ==
  ASSUME IInv, Stops
  PROVE  IInv'
<1>1. TypeOK'
  BY DEF Stops, IInv, TypeOK
<1>2. AskingAlone'
  BY DEF Stops, IInv, TypeOK, AskingAlone, Open, Leftover
<1>3. ExecutionOwned'
  BY DEF Stops, IInv, TypeOK, ExecutionOwned, Executing, ActiveCalls, Mine, Leftover
<1>4. NoOthersWork'
  BY DEF Stops, IInv, TypeOK, NoOthersWork, Open
<1>5. TurnRecorded'
  BY DEF Stops, IInv, TypeOK, TurnRecorded
<1>6. Fresh' /\ OneAtATime' /\ LeftoverOwned' /\ OpOwned' /\
       ReviewedUnsafe' /\ AppliedOnce' /\ UncertainStopsModel'
  BY DEF Stops, IInv, Fresh, OneAtATime, LeftoverOwned, OpOwned,
         ReviewedUnsafe, AppliedOnce, UncertainStopsModel, Executing,
         Leftover, UncertainOf
<1> QED
  BY <1>1, <1>2, <1>3, <1>4, <1>5, <1>6 DEF IInv

LEMMA AbortsInv ==
  ASSUME IInv, Aborts
  PROVE  IInv'
<1>1. TypeOK'
  BY DEF Aborts, IInv, TypeOK
<1>2. Fresh'
  BY DEF Aborts, IInv, TypeOK, Fresh
<1>3. LeftoverOwned'
  BY DEF Aborts, IInv, TypeOK, LeftoverOwned, Leftover
<1>4. AskingAlone'
  BY DEF Aborts, IInv, TypeOK, AskingAlone, Open, Leftover
<1>5. ExecutionOwned'
  BY DEF Aborts, IInv, TypeOK, ExecutionOwned, TurnRecorded, Executing,
         ActiveCalls, Mine, Leftover
<1>6. NoOthersWork'
  BY DEF Aborts, IInv, TypeOK, NoOthersWork, Open
<1>7. TurnRecorded'
  BY DEF Aborts, IInv, TypeOK, TurnRecorded
<1>8. UncertainStopsModel'
  BY DEF Aborts, IInv, TypeOK, UncertainStopsModel, UncertainOf
<1>9. OneAtATime' /\ OpOwned' /\ ReviewedUnsafe' /\ AppliedOnce'
  BY DEF Aborts, IInv, OneAtATime, OpOwned, ReviewedUnsafe, AppliedOnce,
         Executing
<1> QED
  BY <1>1, <1>2, <1>3, <1>4, <1>5, <1>6, <1>7, <1>8, <1>9 DEF IInv

LEMMA ReturnsInv ==
  ASSUME IInv, Returns
  PROVE  IInv'
<1>1. TypeOK'
  BY DEF Returns, IInv, TypeOK, TurnRecorded
<1>2. Fresh'
  BY DEF Returns, IInv, TypeOK, Fresh
<1>3. OneAtATime'
  BY DEF Returns, IInv, TypeOK, OneAtATime, Executing
<1>4. AskingAlone'
  BY DEF Returns, IInv, TypeOK, AskingAlone, NoOthersWork, TurnRecorded,
         Open, Leftover
<1>5. ExecutionOwned'
  BY DEF Returns, IInv, TypeOK, ExecutionOwned, LeftoverOwned, TurnRecorded,
         Executing, ActiveCalls, Mine, Leftover
<1>6. NoOthersWork'
  BY DEF Returns, IInv, TypeOK, NoOthersWork, Open
<1>7. TurnRecorded'
  BY DEF Returns, IInv, TypeOK, TurnRecorded
<1>8. ReviewedUnsafe'
  BY DEF Returns, IInv, TypeOK, ReviewedUnsafe
<1>9. AppliedOnce'
  BY DEF Returns, IInv, TypeOK, AppliedOnce
<1>10. UncertainStopsModel'
  BY DEF Returns, IInv, TypeOK, UncertainStopsModel, AskingAlone,
         NoOthersWork, TurnRecorded, UncertainOf, Open, Leftover
<1>11. LeftoverOwned' /\ OpOwned'
  BY DEF Returns, IInv, LeftoverOwned, OpOwned, Leftover
<1> QED
  BY <1>1, <1>2, <1>3, <1>4, <1>5, <1>6, <1>7, <1>8, <1>9, <1>10, <1>11 DEF IInv

LEMMA AsksInv ==
  ASSUME IInv, NEW r \in Run, Asks(r)
  PROVE  IInv'
<1>1. TypeOK'
  BY DEF Asks, Generates, Driven, IInv, TypeOK
<1>2. Fresh'
  <2>1. \A q \in Run : sub'[q] = sub[q] \/ sub[q] = "open"
    BY DEF Asks, Generates, IInv, TypeOK
  <2> QED
    BY <2>1 DEF Asks, IInv, Fresh
<1>3. LeftoverOwned'
  BY DEF Asks, Generates, Driven, IInv, TypeOK, LeftoverOwned, Leftover
<1>4. AskingAlone'
  BY DEF Asks, Generates, Driven, IInv, TypeOK, AskingAlone, Open, Leftover
<1>5. NoOthersWork'
  BY DEF Asks, Generates, Driven, IInv, TypeOK, NoOthersWork, Open
<1>6. TurnRecorded'
  BY DEF Asks, Generates, Driven, IInv, TypeOK, TurnRecorded
<1>7. UncertainStopsModel'
  <2>1. \A q \in Run : UncertainOf(q)' = UncertainOf(q)
    BY DEF Asks, UncertainOf
  <2>2. CASE asking' = asking
    <3>1. ~ asking'
      BY <2>2 DEF Asks, Generates
    <3> QED
      BY <3>1 DEF UncertainStopsModel
  <2>3. CASE ~ failure' /\ ~ stopping /\ sub' = sub
    <3>1. ~ failure /\ UncertainOf(run) = {}
      BY <2>3 DEF Asks, Uncertain
    <3>2. pc # "open" => Open \subseteq {run}
      BY <2>3, <3>1 DEF Asks, Generates, Driven, IInv, TypeOK, TurnRecorded,
                        NoOthersWork
    <3>3. ASSUME NEW q \in Run, sub[q] = "open", UncertainOf(q) # {}
          PROVE  q < run /\ pc = "open"
      <4>1. q # run
        BY <3>1, <3>3
      <4>2. ~ (q > run)
        BY <3>3 DEF IInv, Fresh
      <4>3. run \in Nat
        BY DEF IInv, TypeOK
      <4> QED
        BY <3>2, <3>3, <4>1, <4>2, <4>3 DEF Open
    <3> QED
      BY <2>1, <2>3, <3>3 DEF Asks, UncertainStopsModel
  <2> QED
    BY <2>2, <2>3 DEF Asks
<1>8. OneAtATime' /\ OpOwned' /\ ExecutionOwned' /\ ReviewedUnsafe' /\
       AppliedOnce'
  BY DEF Asks, Generates, Driven, IInv, OneAtATime, OpOwned, ExecutionOwned,
         ReviewedUnsafe, AppliedOnce, Executing, ActiveCalls, Mine, Leftover
<1> QED
  BY <1>1, <1>2, <1>3, <1>4, <1>5, <1>6, <1>7, <1>8 DEF IInv

LEMMA RespondsInv ==
  ASSUME IInv, NEW r \in Run, Responds(r)
  PROVE  IInv'
<1>1. TypeOK'
  <2>1. sub' \in [Run -> {"none", "open", "done", "unanswered"}]
    <3>1. \/ sub' = sub
          \/ sub' = [sub EXCEPT ![r] = "done"]
          \/ sub' = [sub EXCEPT ![r] = "unanswered"]
      BY DEF Responds
    <3> QED
      BY <3>1 DEF IInv, TypeOK
  <2>2. owner' \in [Call -> 0 .. Runs]
    <3>1. r \in 0 .. Runs
      OBVIOUS
    <3>2. \/ owner' = owner
          \/ \E made \in SUBSET Call :
               owner' = [c \in Call |-> IF c \in made THEN r ELSE owner[c]]
      BY DEF Responds
    <3> QED
      BY <3>1, <3>2 DEF IInv, TypeOK
  <2>3. task' \in [Call -> {"none", "pending", "started", "terminal"}]
    BY DEF Responds, IInv, TypeOK
  <2> QED
    BY <2>1, <2>2, <2>3 DEF Responds, IInv, TypeOK
<1>2. Fresh'
  <2>1. \A q \in Run : sub'[q] = sub[q] \/ sub[q] = "open"
    BY DEF Responds, IInv, TypeOK
  <2> QED
    BY <2>1 DEF Responds, IInv, Fresh
<1>3. LeftoverOwned'
  BY DEF Responds, IInv, TypeOK, LeftoverOwned, AskingAlone, Leftover, Open
<1>4. AskingAlone'
  BY DEF Responds, IInv, TypeOK, AskingAlone, Open, Leftover
<1>5. OpOwned'
  BY DEF Responds, IInv, TypeOK, OpOwned
<1>6. ExecutionOwned'
  BY DEF Responds, IInv, TypeOK, ExecutionOwned, Executing, ActiveCalls,
         Mine, Leftover
<1>7. NoOthersWork'
  BY DEF Responds, IInv, TypeOK, NoOthersWork, Open
<1>8. AppliedOnce'
  <2>1. \A c \in Call : owner[c] \in Run => owner'[c] = owner[c]
    BY DEF Responds, IInv, TypeOK
  <2> QED
    BY <2>1 DEF Responds, IInv, AppliedOnce
<1>9. UncertainStopsModel'
  BY DEF Responds, IInv, TypeOK, UncertainStopsModel, UncertainOf
<1>10. OneAtATime' /\ TurnRecorded' /\ ReviewedUnsafe'
  BY DEF Responds, IInv, OneAtATime, TurnRecorded, ReviewedUnsafe, Executing
<1> QED
  BY <1>1, <1>2, <1>3, <1>4, <1>5, <1>6, <1>7, <1>8, <1>9, <1>10 DEF IInv

LEMMA ExecutesInv ==
  ASSUME IInv, NEW c \in Call, Executes(c)
  PROVE  IInv'
<1>1. TypeOK'
  <2>1. task' \in [Call -> {"none", "pending", "started", "terminal"}]
    <3>1. \E t \in {task[c], "started", "terminal"} : task' = [task EXCEPT ![c] = t]
      BY DEF Executes
    <3>2. task[c] \in {"none", "pending", "started", "terminal"}
      BY DEF IInv, TypeOK
    <3> QED
      BY <3>1, <3>2 DEF IInv, TypeOK
  <2>2. stage' \in [Call -> {"idle", "review", "go", "called", "applied", "recorded"}]
    BY DEF Executes, IInv, TypeOK
  <2>3. failure' \in BOOLEAN
    BY DEF Executes, IInv, TypeOK
  <2> QED
    BY <2>1, <2>2, <2>3 DEF Executes, IInv, TypeOK
<1>2. OneAtATime'
  BY DEF Executes, Driven, Blocked, Recorded, IInv, TypeOK, OneAtATime,
         Executing
<1>3. LeftoverOwned'
  BY DEF Executes, Driven, Blocked, Recorded, IInv, TypeOK, LeftoverOwned,
         Leftover
<1>4. AskingAlone'
  BY DEF Executes, Driven, Blocked, Recorded, IInv, TypeOK, AskingAlone,
         Open, Leftover
<1>5. ExecutionOwned'
  BY DEF Executes, Driven, Blocked, Recorded, IInv, TypeOK, ExecutionOwned,
         LeftoverOwned, NoOthersWork, TurnRecorded, OneAtATime, Uncertain, UncertainOf,
         Executing, ActiveCalls, Mine, Leftover, Open
<1>6. NoOthersWork'
  BY DEF Executes, Driven, Blocked, Recorded, IInv, TypeOK, NoOthersWork,
         Open
<1>7. TurnRecorded'
  BY DEF Executes, Driven, Blocked, Recorded, IInv, TypeOK, TurnRecorded
<1>8. ReviewedUnsafe'
  BY DEF Executes, Driven, Blocked, Recorded, IInv, TypeOK, ReviewedUnsafe
<1>9. AppliedOnce'
  <2>1. UNCHANGED <<applied, op, owner>> /\ \A d \in Call : d # c => stage'[d] = stage[d]
    BY DEF Executes, IInv, TypeOK
  <2>2. CASE Blocked \/ Recorded(c)
    BY <2>1, <2>2 DEF Executes, IInv, AppliedOnce
  <2>3. CASE ~ (Blocked \/ Recorded(c)) /\ c \in Unsafe
    <3>1. owner[c] = run
      BY <2>3 DEF Executes, Driven, Blocked, IInv, TypeOK, LeftoverOwned,
             NoOthersWork, TurnRecorded, Mine, Open
    <3>2. op[run][c] = "none"
      BY <2>3 DEF Executes, Driven, Blocked, Recorded, Uncertain, UncertainOf, IInv, TypeOK,
             TurnRecorded
    <3>3. applied[c] = 0
      BY <2>3, <3>1, <3>2 DEF IInv, TypeOK, AppliedOnce
    <3> QED
      BY <2>1, <3>3 DEF IInv, AppliedOnce
  <2>4. CASE c \notin Unsafe
    BY <2>1, <2>4 DEF IInv, AppliedOnce
  <2> QED
    BY <2>2, <2>3, <2>4
<1>10. Fresh' /\ OpOwned' /\ UncertainStopsModel'
  BY DEF Executes, Driven, Blocked, Recorded, IInv, Fresh, OpOwned,
         UncertainStopsModel, Uncertain, UncertainOf
<1> QED
  BY <1>1, <1>2, <1>3, <1>4, <1>5, <1>6, <1>7, <1>8, <1>9, <1>10 DEF IInv

LEMMA HoldsInv ==
  ASSUME IInv, NEW c \in Call, Holds(c)
  PROVE  IInv'
<1>1. TypeOK'
  BY DEF Holds, Ends, IInv, TypeOK
<1>2. OneAtATime'
  BY DEF Holds, Ends, IInv, TypeOK, OneAtATime, Executing
<1>3. LeftoverOwned'
  BY DEF Holds, Ends, IInv, TypeOK, LeftoverOwned, Leftover
<1>4. AskingAlone'
  BY DEF Holds, Ends, IInv, TypeOK, AskingAlone, Open, Leftover
<1>5. ExecutionOwned'
  BY DEF Holds, Ends, IInv, TypeOK, ExecutionOwned, Executing, ActiveCalls,
         Mine, Leftover
<1>6. ReviewedUnsafe'
  BY DEF Holds, Ends, IInv, TypeOK, ReviewedUnsafe
<1>7. AppliedOnce'
  BY DEF Holds, Ends, IInv, TypeOK, AppliedOnce
<1>8. Fresh' /\ OpOwned' /\ NoOthersWork' /\ TurnRecorded' /\
       UncertainStopsModel'
  BY DEF Holds, Ends, IInv, Fresh, OpOwned, NoOthersWork, TurnRecorded,
         UncertainStopsModel, Open, UncertainOf
<1> QED
  BY <1>1, <1>2, <1>3, <1>4, <1>5, <1>6, <1>7, <1>8 DEF IInv

LEMMA AllowsInv ==
  ASSUME IInv, NEW c \in Call, Allows(c)
  PROVE  IInv'
<1>1. TypeOK'
  BY DEF Allows, IInv, TypeOK
<1>2. OneAtATime'
  BY DEF Allows, IInv, TypeOK, OneAtATime, Executing
<1>3. ExecutionOwned'
  BY DEF Allows, IInv, TypeOK, ExecutionOwned, Executing, ActiveCalls, Mine,
         Leftover
<1>4. ReviewedUnsafe'
  BY DEF Allows, IInv, TypeOK, ReviewedUnsafe
<1>5. AppliedOnce'
  BY DEF Allows, IInv, TypeOK, AppliedOnce
<1>6. Fresh' /\ LeftoverOwned' /\ AskingAlone' /\ OpOwned' /\
       NoOthersWork' /\ TurnRecorded' /\ UncertainStopsModel'
  BY DEF Allows, IInv, Fresh, LeftoverOwned, AskingAlone, OpOwned,
         NoOthersWork, TurnRecorded, UncertainStopsModel, Leftover, Open,
         UncertainOf
<1> QED
  BY <1>1, <1>2, <1>3, <1>4, <1>5, <1>6 DEF IInv

LEMMA BeginsInv ==
  ASSUME IInv, NEW c \in Call, Begins(c)
  PROVE  IInv'
<1>1. TypeOK'
  BY DEF Begins, IInv, TypeOK
<1>2. Fresh'
  BY DEF Begins, IInv, TypeOK, Fresh
<1>3. OneAtATime'
  BY DEF Begins, IInv, TypeOK, OneAtATime, Executing
<1>4. OpOwned'
  BY DEF Begins, IInv, TypeOK, OpOwned, ExecutionOwned, TurnRecorded,
         Executing, ActiveCalls, Mine, Leftover
<1>5. ExecutionOwned'
  BY DEF Begins, IInv, TypeOK, ExecutionOwned, Executing, ActiveCalls, Mine,
         Leftover
<1>6. ReviewedUnsafe'
  BY DEF Begins, IInv, TypeOK, ReviewedUnsafe
<1>7. AppliedOnce'
  BY DEF Begins, IInv, TypeOK, AppliedOnce
<1>8. UncertainStopsModel'
  BY DEF Begins, IInv, TypeOK, UncertainStopsModel, ExecutionOwned,
         AskingAlone, LeftoverOwned, TurnRecorded, UncertainOf, Executing,
         ActiveCalls, Mine, Open, Leftover
<1>9. LeftoverOwned' /\ AskingAlone' /\ NoOthersWork' /\ TurnRecorded'
  BY DEF Begins, IInv, LeftoverOwned, AskingAlone, NoOthersWork,
         TurnRecorded, Leftover, Open
<1> QED
  BY <1>1, <1>2, <1>3, <1>4, <1>5, <1>6, <1>7, <1>8, <1>9 DEF IInv

LEMMA AppliesInv ==
  ASSUME IInv, NEW c \in Call, Applies(c)
  PROVE  IInv'
<1>1. TypeOK'
  BY DEF Applies, IInv, TypeOK
<1>2. OneAtATime'
  BY DEF Applies, IInv, TypeOK, OneAtATime, Executing
<1>3. ExecutionOwned'
  BY DEF Applies, IInv, TypeOK, ExecutionOwned, Executing, ActiveCalls, Mine,
         Leftover
<1>4. ReviewedUnsafe'
  BY DEF Applies, IInv, TypeOK, ReviewedUnsafe
<1>5. AppliedOnce'
  <2>1. owner[c] \in Run /\ op[owner[c]][c] = "intent" /\ stage[c] = "called"
    BY DEF Applies, IInv, ExecutionOwned, Executing, TurnRecorded
  <2>2. \A d \in Call : d # c => applied'[d] = applied[d] /\ stage'[d] = stage[d]
    BY DEF Applies, IInv, TypeOK
  <2>3. applied'[c] = applied[c] + 1 /\ stage'[c] = "applied"
    BY DEF Applies, IInv, TypeOK
  <2> QED
    BY <2>1, <2>2, <2>3 DEF Applies, IInv, AppliedOnce
<1>6. Fresh' /\ LeftoverOwned' /\ AskingAlone' /\ OpOwned' /\
       NoOthersWork' /\ TurnRecorded' /\ UncertainStopsModel'
  BY DEF Applies, IInv, Fresh, LeftoverOwned, AskingAlone, OpOwned,
         NoOthersWork, TurnRecorded, UncertainStopsModel, Leftover, Open,
         UncertainOf
<1> QED
  BY <1>1, <1>2, <1>3, <1>4, <1>5, <1>6 DEF IInv

LEMMA JournalsInv ==
  ASSUME IInv, NEW c \in Call, Journals(c)
  PROVE  IInv'
<1>1. TypeOK'
  BY DEF Journals, IInv, TypeOK
<1>2. Fresh'
  BY DEF Journals, IInv, TypeOK, Fresh
<1>3. OneAtATime'
  BY DEF Journals, IInv, TypeOK, OneAtATime, Executing
<1>4. OpOwned'
  BY DEF Journals, IInv, TypeOK, OpOwned, ExecutionOwned, TurnRecorded,
         Executing, ActiveCalls, Mine, Leftover
<1>5. ExecutionOwned'
  BY DEF Journals, IInv, TypeOK, ExecutionOwned, Executing, ActiveCalls,
         Mine, Leftover
<1>6. NoOthersWork'
  BY DEF Journals, IInv, TypeOK, NoOthersWork, Open
<1>7. TurnRecorded'
  BY DEF Journals, IInv, TypeOK, TurnRecorded, ExecutionOwned, Executing,
         ActiveCalls, Mine, Leftover
<1>8. ReviewedUnsafe'
  BY DEF Journals, IInv, TypeOK, ReviewedUnsafe
<1>9. AppliedOnce'
  BY DEF Journals, IInv, TypeOK, AppliedOnce
<1>10. UncertainStopsModel'
  BY DEF Journals, IInv, TypeOK, UncertainStopsModel, UncertainOf
<1>11. LeftoverOwned' /\ AskingAlone'
  BY DEF Journals, IInv, LeftoverOwned, AskingAlone, Leftover, Open
<1> QED
  BY <1>1, <1>2, <1>3, <1>4, <1>5, <1>6, <1>7, <1>8, <1>9, <1>10, <1>11 DEF IInv

LEMMA SettlesInv ==
  ASSUME IInv, NEW c \in Call, Settles(c)
  PROVE  IInv'
<1>1. TypeOK'
  BY DEF Settles, Ends, IInv, TypeOK
<1>2. OneAtATime'
  BY DEF Settles, Ends, IInv, TypeOK, OneAtATime, Executing
<1>3. LeftoverOwned'
  BY DEF Settles, Ends, IInv, TypeOK, LeftoverOwned, Leftover
<1>4. AskingAlone'
  BY DEF Settles, Ends, IInv, TypeOK, AskingAlone, Open, Leftover
<1>5. ExecutionOwned'
  BY DEF Settles, Ends, IInv, TypeOK, ExecutionOwned, Executing,
         ActiveCalls, Mine, Leftover
<1>6. ReviewedUnsafe'
  BY DEF Settles, Ends, IInv, TypeOK, ReviewedUnsafe
<1>7. AppliedOnce'
  BY DEF Settles, Ends, IInv, TypeOK, AppliedOnce
<1>8. Fresh' /\ OpOwned' /\ NoOthersWork' /\ TurnRecorded' /\
       UncertainStopsModel'
  BY DEF Settles, Ends, IInv, Fresh, OpOwned, NoOthersWork, TurnRecorded,
         UncertainStopsModel, Open, UncertainOf
<1> QED
  BY <1>1, <1>2, <1>3, <1>4, <1>5, <1>6, <1>7, <1>8 DEF IInv

LEMMA RejectsInv ==
  ASSUME IInv, NEW c \in Call, Rejects(c)
  PROVE  IInv'
<1>1. TypeOK'
  BY DEF Rejects, Ends, IInv, TypeOK
<1>2. OneAtATime'
  BY DEF Rejects, Ends, IInv, TypeOK, OneAtATime, Executing
<1>3. LeftoverOwned'
  BY DEF Rejects, Ends, IInv, TypeOK, LeftoverOwned, Leftover
<1>4. AskingAlone'
  BY DEF Rejects, Ends, IInv, TypeOK, AskingAlone, Open, Leftover
<1>5. ExecutionOwned'
  BY DEF Rejects, Ends, IInv, TypeOK, ExecutionOwned, Executing,
         ActiveCalls, Mine, Leftover
<1>6. ReviewedUnsafe'
  BY DEF Rejects, Ends, IInv, TypeOK, ReviewedUnsafe
<1>7. AppliedOnce'
  BY DEF Rejects, Ends, IInv, TypeOK, AppliedOnce
<1>8. Fresh' /\ OpOwned' /\ NoOthersWork' /\ TurnRecorded' /\
       UncertainStopsModel'
  BY DEF Rejects, Ends, IInv, Fresh, OpOwned, NoOthersWork, TurnRecorded,
         UncertainStopsModel, Open, UncertainOf
<1> QED
  BY <1>1, <1>2, <1>3, <1>4, <1>5, <1>6, <1>7, <1>8 DEF IInv

LEMMA CrashesInv ==
  ASSUME IInv, Crashes
  PROVE  IInv'
<1>1. TypeOK'
  <2>1. applied' \in [Call -> Nat]
    BY DEF Crashes, IInv, TypeOK
  <2>2. crashes' \in 0 .. MaxCrashes
    BY DEF Crashes, IInv, TypeOK
  <2>3. stage' \in [Call -> {"idle", "review", "go", "called", "applied", "recorded"}]
    BY DEF Crashes
  <2> QED
    BY <2>1, <2>2, <2>3 DEF Crashes, IInv, TypeOK
<1>2. OneAtATime'
  BY DEF Crashes, IInv, TypeOK, OneAtATime, Executing
<1>3. AskingAlone'
  BY DEF Crashes, IInv, TypeOK, AskingAlone, Open, Leftover
<1>4. ExecutionOwned'
  BY DEF Crashes, IInv, TypeOK, ExecutionOwned, Executing, ActiveCalls, Mine,
         Leftover
<1>5. NoOthersWork'
  BY DEF Crashes, IInv, TypeOK, NoOthersWork, Open
<1>6. TurnRecorded'
  BY DEF Crashes, IInv, TypeOK, TurnRecorded
<1>7. ReviewedUnsafe'
  BY DEF Crashes, IInv, TypeOK, ReviewedUnsafe
<1>8. AppliedOnce'
  <2>1. \A c \in Call : stage[c] = "called" => owner[c] \in Run /\ op[owner[c]][c] = "intent"
    BY DEF IInv, ExecutionOwned, Executing, TurnRecorded
  <2>2. \A c \in Call : \/ applied'[c] = applied[c]
                        \/ stage[c] = "called" /\ applied'[c] = applied[c] + 1
    <3>1. PICK late \in SUBSET {c \in Call : stage[c] = "called"} :
            applied' = [c \in Call |-> IF c \in late THEN applied[c] + 1 ELSE applied[c]]
      BY DEF Crashes
    <3>2. \A c \in late : stage[c] = "called"
      BY <3>1
    <3>3. \A c \in Call : /\ c \in late => applied'[c] = applied[c] + 1
                          /\ c \notin late => applied'[c] = applied[c]
      BY <3>1
    <3> QED
      BY <3>2, <3>3
  <2>3. \A c \in Call : stage'[c] = "idle"
    BY DEF Crashes
  <2> QED
    BY <2>1, <2>2, <2>3 DEF Crashes, IInv, AppliedOnce
<1>9. UncertainStopsModel'
  BY DEF Crashes, IInv, TypeOK, UncertainStopsModel, UncertainOf
<1>10. Fresh' /\ LeftoverOwned' /\ OpOwned'
  BY DEF Crashes, IInv, Fresh, LeftoverOwned, OpOwned, Leftover
<1> QED
  BY <1>1, <1>2, <1>3, <1>4, <1>5, <1>6, <1>7, <1>8, <1>9, <1>10 DEF IInv

LEMMA InvStep == IInv /\ [Next]_vars => IInv'
<1> SUFFICES ASSUME IInv, [Next]_vars PROVE IInv'
  OBVIOUS
<1>1. CASE TurnStep
  BY <1>1, FailsBeforeInv, OpensInv, InspectsInv, RecordsInv, SubmitsInv, AbortsInv,
     ReturnsInv DEF TurnStep
<1>2. CASE Stops
  BY <1>2, StopsInv
<1>3. CASE ModelStep
  BY <1>3, AsksInv, RespondsInv DEF ModelStep
<1>4. ASSUME NEW c \in Call, CallStep(c) \/ Applies(c)
      PROVE  IInv'
  BY <1>4, ExecutesInv, HoldsInv, AllowsInv, BeginsInv, AppliesInv, JournalsInv,
     SettlesInv, RejectsInv DEF CallStep, CallEnds
<1>5. CASE Crashes
  BY <1>5, CrashesInv
<1>6. CASE UNCHANGED vars
  BY <1>6 DEF IInv, TypeOK, Fresh, OneAtATime, LeftoverOwned, AskingAlone,
         OpOwned, ExecutionOwned, NoOthersWork, TurnRecorded, ReviewedUnsafe,
         AppliedOnce, UncertainStopsModel, Executing, ActiveCalls, Leftover, Open,
         UncertainOf, Mine
<1> QED
  BY <1>1, <1>2, <1>3, <1>4, <1>5, <1>6 DEF Next

THEOREM TurnInvariant == Spec => []IInv
<1> QED
  BY InvInit, InvStep, PTL DEF Spec

-----------------------------------------------------------------------------

(* A write reaches its service at most once, across deaths, recoveries,    *)
(* changes of configuration and later runs of the conversation.            *)
THEOREM AtMostOneWrite == Spec => []WriteAtMostOnce
<1>1. IInv => WriteAtMostOnce
  BY DEF IInv, AppliedOnce, WriteAtMostOnce
<1> QED
  BY <1>1, TurnInvariant, PTL

(* The model of a run with a write of unknown outcome is not asked, in     *)
(* whichever run's turn, except in the moment before the inspection of a   *)
(* turn that inherits the run and therefore fails (durable.ts:366-380,     *)
(* 436-460).                                                               *)
THEOREM UncertaintyStopsModel == Spec => []UncertainStopsModel
<1>1. IInv => UncertainStopsModel
  BY DEF IInv
<1> QED
  BY <1>1, TurnInvariant, PTL

(* A call starts only in its own run's turn and under the policy the run   *)
(* began with, and the turn does not end around it.                        *)
THEOREM ActiveCallsStayInTurn == Spec => []CallsStayInTurn
<1>1. IInv => CallsStayInTurn
  BY DEF IInv, ExecutionOwned, CallsStayInTurn, Executing,
         ActiveCalls
<1> QED
  BY <1>1, TurnInvariant, PTL

(* A failure a run's document holds is final: no later call is let in and  *)
(* the run is never answered.                                              *)
THEOREM FailuresAreFinal == Spec => FailureIsFinal
<1>1. ASSUME IInv, [Next]_vars, NEW r \in Run, failed[r]
      PROVE  /\ failed'[r]
             /\ result'[r] # "answered"
             /\ run = r => \A c \in Call : stage[c] = "idle" => stage'[c] = "idle"
  <2>1. failed'[r]
    <3>1. CASE TurnStep \/ Stops
      BY <1>1, <3>1 DEF IInv, TypeOK, TurnStep, FailsBefore, Opens, Inspects,
             Records, Submits, Aborts, Returns, Stops
    <3>2. CASE ModelStep
      BY <1>1, <3>2 DEF IInv, TypeOK, ModelStep, Asks, Responds
    <3>3. CASE \E d \in Call : CallStep(d) \/ Applies(d)
      BY <1>1, <3>3 DEF IInv, TypeOK, CallStep, CallEnds, Ends,
                     Executes, Holds, Allows, Begins, Applies,
                     Journals, Settles, Rejects
    <3>4. CASE Crashes \/ UNCHANGED vars
      BY <1>1, <3>4 DEF IInv, TypeOK, Crashes
    <3> QED
      BY <1>1, <3>1, <3>2, <3>3, <3>4 DEF Next
  <2>2. result'[r] # "answered"
    BY <1>1, <2>1, InvStep DEF IInv, TurnRecorded
  <2>3. ASSUME run = r, NEW c \in Call, stage[c] = "idle"
        PROVE  stage'[c] = "idle"
    <3>1. CASE TurnStep \/ Stops
      BY <2>3, <3>1 DEF TurnStep, FailsBefore, Opens, Inspects, Records, Submits,
                        Aborts, Returns, Stops
    <3>2. CASE ModelStep
      BY <1>1, <2>3, <3>2 DEF IInv, TypeOK, Blocked, ModelStep, Asks, Responds
    <3>3. CASE \E d \in Call : CallStep(d) \/ Applies(d)
      BY <1>1, <2>3, <3>3 DEF IInv, TypeOK, Blocked, CallStep, CallEnds, Ends,
                     Executes, Holds, Allows, Begins, Applies,
                     Journals, Settles, Rejects
    <3>4. CASE Crashes \/ UNCHANGED vars
      BY <1>1, <2>3, <3>4 DEF IInv, TypeOK, Blocked, Crashes
    <3> QED
      BY <1>1, <2>3, <3>1, <3>2, <3>3, <3>4 DEF Next
  <2> QED
    BY <2>1, <2>2, <2>3
<1>2. IInv /\ [Next]_vars =>
        [\A r \in Run : failed[r] =>
           /\ failed'[r]
           /\ result'[r] # "answered"
           /\ run = r => \A c \in Call : stage[c] = "idle" => stage'[c] = "idle"]_vars
  BY <1>1
<1> QED
  BY <1>2, TurnInvariant, PTL DEF Spec, FailureIsFinal

(* A turn that returns leaves nothing pending for the thread's next run.   *)
THEOREM TurnsCleanUp == Spec => TurnLeavesNothing
<1>1. ASSUME IInv, [Next]_vars, pc = "waiting", run' # run
      PROVE  Open' = {} /\ Leftover' = {}
  <2>1. Returns
    BY <1>1 DEF Next, TurnStep, ModelStep, CallStep, CallEnds, FailsBefore,
                Opens, Inspects, Records, Submits, Stops, Aborts, Asks, Responds,
                Executes, Holds, Allows, Begins, Applies, Journals, Settles,
                Rejects, Crashes
  <2>2. Open = {}
    BY <1>1, <2>1 DEF Returns, IInv, NoOthersWork, TurnRecorded, Open
  <2>3. Leftover = {}
    BY <1>1, <2>2 DEF IInv, LeftoverOwned, Open
  <2> QED
    BY <2>1, <2>2, <2>3 DEF Returns, Open, Leftover
<1>2. IInv /\ [Next]_vars =>
        [pc = "waiting" /\ run' # run => Open' = {} /\ Leftover' = {}]_vars
  BY <1>1
<1> QED
  BY <1>2, TurnInvariant, PTL DEF Spec, TurnLeavesNothing

(* A recorded result is never undone and its call never applied again.     *)
THEOREM RecordedStays == Spec => RecordedNeverReruns
<1>1. ASSUME IInv, [Next]_vars, NEW r \in Run, NEW c \in Call, op[r][c] = "result"
      PROVE  op'[r][c] = "result" /\ applied'[c] = applied[c]
  <2>1. op'[r][c] = "result"
    <3>1. CASE TurnStep \/ Stops
      BY <1>1, <3>1 DEF IInv, TypeOK, ExecutionOwned, OpOwned, Executing,
             TurnStep, FailsBefore, Opens, Inspects, Records, Submits, Aborts,
             Returns, Stops
    <3>2. CASE ModelStep
      BY <1>1, <3>2 DEF IInv, TypeOK, ExecutionOwned, OpOwned, Executing,
             ModelStep, Asks, Responds
    <3>3. CASE \E d \in Call : CallStep(d) \/ Applies(d)
      <4> SUFFICES ASSUME NEW d \in Call, CallStep(d) \/ Applies(d)
                   PROVE  op'[r][c] = "result"
        BY <3>3
      <4>1. CASE Begins(d)
        <5>1. run \in Run /\ op[run][d] # "result"
          <6>1. stage[d] = "go"
            BY <4>1 DEF Begins
          <6> QED
            BY <1>1, <6>1 DEF IInv, ExecutionOwned, Executing, TurnRecorded
        <5> QED
          BY <1>1, <4>1, <5>1 DEF Begins, IInv, TypeOK
      <4>2. CASE Journals(d)
        BY <1>1, <4>2 DEF Journals, IInv, TypeOK
      <4> QED
        BY <1>1, <4>1, <4>2 DEF CallStep, CallEnds, Executes, Holds, Allows,
               Applies, Settles, Rejects
    <3>4. CASE Crashes \/ UNCHANGED vars
      BY <1>1, <3>4 DEF IInv, TypeOK, ExecutionOwned, OpOwned, Executing, Crashes
    <3> QED
      BY <1>1, <3>1, <3>2, <3>3, <3>4 DEF Next
  <2>2. applied'[c] = applied[c]
    <3>1. CASE TurnStep \/ Stops
      BY <1>1, <3>1 DEF IInv, TypeOK, ExecutionOwned, OpOwned, Executing,
             TurnStep, FailsBefore, Opens, Inspects, Records, Submits, Aborts,
             Returns, Stops
    <3>2. CASE ModelStep
      BY <1>1, <3>2 DEF IInv, TypeOK, ExecutionOwned, OpOwned, Executing,
             ModelStep, Asks, Responds
    <3>3. CASE \E d \in Call : CallStep(d) \/ Applies(d)
      <4> SUFFICES ASSUME NEW d \in Call, CallStep(d) \/ Applies(d)
                   PROVE  applied'[c] = applied[c]
        BY <3>3
      <4>1. CASE Applies(d)
        <5>1. c # d
          BY <1>1, <4>1 DEF Applies, IInv, ExecutionOwned, OpOwned, Executing
        <5> QED
          BY <4>1, <5>1 DEF Applies, IInv, TypeOK
      <4> QED
        BY <4>1 DEF CallStep, CallEnds, Executes, Holds, Allows, Begins, Journals,
                    Settles, Rejects
    <3>4. CASE Crashes \/ UNCHANGED vars
      <4>1. stage[c] # "called"
        BY <1>1 DEF IInv, ExecutionOwned, OpOwned, Executing
      <4> QED
        BY <3>4, <4>1 DEF Crashes, IInv, TypeOK
    <3> QED
      BY <1>1, <3>1, <3>2, <3>3, <3>4 DEF Next
  <2> QED
    BY <2>1, <2>2
<1>2. IInv /\ [Next]_vars =>
        [\A r \in Run, c \in Call : op[r][c] = "result" =>
           op'[r][c] = "result" /\ applied'[c] = applied[c]]_vars
  BY <1>1
<1> QED
  BY <1>2, TurnInvariant, PTL DEF Spec, RecordedNeverReruns
=============================================================================
