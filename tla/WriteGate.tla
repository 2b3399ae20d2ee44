------------------------------ MODULE WriteGate ------------------------------
(***************************************************************************)
(* createWriteGate of packages/host/src/agent/write-gate.ts: the review of *)
(* one run's destructive calls by a separate model, as reviewCall and      *)
(* execute of agent/durable.ts drive it, one call of a response at a time. *)
(*                                                                         *)
(* The judge's answer is abstracted to the two fields parseVerdicts reads  *)
(* of a decision: allow, and whether the rule is "ok". It may name any of  *)
(* the calls asked about; none at all stands for a request that failed or  *)
(* an answer that is not the JSON asked for. The gate lives in the process *)
(* (runner.ts:142), so a recovered run begins with a new one. A run that   *)
(* dies once the start of a write is journaled is not resumed; one that    *)
(* dies before has the call reviewed again (DurableTurn).                  *)
(***************************************************************************)
EXTENDS Naturals, Sequences, FiniteSets

CONSTANTS
  MaxCalls,     \* reviewed calls of the run (bound)
  MaxInARow,    \* MAX_HELD_IN_A_ROW
  MaxHeld,      \* MAX_HELD
  MaxRound,     \* reviewed calls of one response (bound)
  MaxCrashes    \* how often the run is recovered (bound)

(* The run's reviewed calls, in the order the model makes them. *)
Call == 1 .. MaxCalls

Verdict == [allow : BOOLEAN, ok : BOOLEAN]

ASSUME GateAssumption ==
  /\ {MaxInARow, MaxHeld, MaxRound, MaxCalls} \subseteq Nat \ {0}
  /\ MaxCrashes \in Nat

VARIABLES
  \* the gate
  decisions,   \* what a request said of a call
  inARow, total,
  \* the run
  round,       \* the calls of the response being worked off
  stage,       \* where a call is
  crashes,
  \* history
  log,         \* what became of each reviewed call, in order
  born         \* Len(log) when this gate was created

gate == <<decisions, inARow, total>>
gateVars == <<gate, round, stage, crashes, log, born>>

GateInit ==
  /\ decisions = [c \in Call |-> "none"]
  /\ inARow = 0
  /\ total = 0
  /\ round = {}
  /\ stage = [c \in Call |-> "unmade"]
  /\ crashes = 0
  /\ log = <<>>
  /\ born = 0

-----------------------------------------------------------------------------
(* Mutants are operators named Bug...: each stands for a slip the code      *)
(* could have made in the operator below it, and some run refutes it.      *)

Suspended == inARow >= MaxInARow \/ total >= MaxHeld

(* The calls of the response one request asks about. *)
Asked(c) == {x \in round : decisions[x] = "none"} \cup {c}

(* parseVerdicts: a block needs a rule, and an allow names none. *)
Parsed(v) == IF v.allow /\ v.ok THEN "allowed" ELSE "held"

BugConcludesForgets(c, verdict) ==
  /\ log' = Append(log, verdict)
  /\ stage' = [stage EXCEPT ![c] = IF verdict = "allowed" THEN "go" ELSE "over"]
  /\ inARow' = IF verdict = "allowed" THEN 0 ELSE inARow + 1
  /\ total' = IF verdict = "allowed" THEN 0 ELSE total + 1

(* What check does with the verdict on its call. *)
Concludes(c, verdict) ==
  /\ log' = Append(log, verdict)
  /\ stage' = [stage EXCEPT ![c] = IF verdict = "allowed" THEN "go" ELSE "over"]
  /\ inARow' = IF verdict = "allowed" THEN 0 ELSE inARow + 1
  /\ total' = IF verdict = "allowed" THEN total ELSE total + 1

Busy == \E c \in Call : stage[c] \in {"judging", "go", "running"}
Waiting == {c \in Call : stage[c] = "made"}

(* The model's next response, once the calls of the last one are over.     *)
Responds ==
  /\ ~ Busy /\ Waiting = {}
  /\ \E n \in 1 .. MaxRound :
       LET made == {c \in Call : stage[c] = "unmade" /\ (c > n => stage[c - n] # "unmade")}
       IN  /\ made # {}
           /\ round' = made
           /\ stage' = [c \in Call |-> IF c \in made THEN "made" ELSE stage[c]]
  /\ UNCHANGED <<gate, crashes, log, born>>

(* A suspended run's call is held without a request and is not counted.    *)
Suspends(c) ==
  /\ ~ Busy /\ c \in Waiting /\ Suspended
  /\ log' = Append(log, "held")
  /\ stage' = [stage EXCEPT ![c] = "over"]
  /\ UNCHANGED <<gate, round, crashes, born>>

(* decide: a call an earlier request of its response decided. *)
Knows(c) ==
  /\ ~ Busy /\ c \in Waiting /\ ~ Suspended
  /\ decisions[c] # "none"
  /\ Concludes(c, decisions[c])
  /\ UNCHANGED <<decisions, round, crashes, born>>

AsksJudge(c) ==
  /\ ~ Busy /\ c \in Waiting /\ ~ Suspended
  /\ decisions[c] = "none"
  /\ stage' = [stage EXCEPT ![c] = "judging"]
  /\ UNCHANGED <<gate, round, crashes, log, born>>

(* Every verdict of the answer is kept; a call without one is held now and *)
(* stays undecided.                                                        *)
Judged(c) ==
  /\ stage[c] = "judging"
  /\ \E named \in SUBSET Asked(c) : \E answer \in [named -> Verdict] :
       LET verdict(x) == IF x \in named THEN Parsed(answer[x]) ELSE decisions[x]
       IN  /\ decisions' = [x \in Call |-> verdict(x)]
           /\ Concludes(c, IF c \in named THEN verdict(c) ELSE "held")
  /\ UNCHANGED <<round, crashes, born>>

(* execute: the start of an allowed write is journaled and the write runs. *)
Starts(c) ==
  /\ stage[c] = "go"
  /\ stage' = [stage EXCEPT ![c] = "running"]
  /\ UNCHANGED <<gate, round, crashes, log, born>>

(* The write ran and its result is journaled. *)
Settles(c) ==
  /\ stage[c] = "running"
  /\ stage' = [stage EXCEPT ![c] = "over"]
  /\ UNCHANGED <<gate, round, crashes, log, born>>

(* The process dies and the run is recovered: a new gate for the calls of  *)
(* the response that are not over.                                         *)
Recovers ==
  /\ crashes < MaxCrashes
  /\ \A c \in Call : stage[c] # "running"
  /\ crashes' = crashes + 1
  /\ decisions' = [c \in Call |-> "none"]
  /\ inARow' = 0
  /\ total' = 0
  /\ stage' = [c \in Call |-> IF stage[c] \in {"judging", "go"} THEN "made" ELSE stage[c]]
  /\ born' = Len(log)
  /\ UNCHANGED <<round, log>>

GateNext ==
  \/ Responds
  \/ \E c \in Call : Suspends(c) \/ Knows(c) \/ AsksJudge(c) \/ Judged(c)
                   \/ Starts(c) \/ Settles(c)
  \/ Recovers

GateSpec == GateInit /\ [][GateNext]_gateVars

-----------------------------------------------------------------------------
(* Properties. *)

HeldIn(i, j) == Cardinality({k \in i .. j : log[k] = "held"})

(* Entry k of the log was preceded, since entry from, by MaxInARow held    *)
(* calls in a row or by MaxHeld of them.                                   *)
Exhausted(from, k) ==
  \/ HeldIn(from, k - 1) >= MaxHeld
  \/ \E i \in from .. k - 1 : i + MaxInARow <= k /\ HeldIn(i, i + MaxInARow - 1) = MaxInARow

(* Once a gate has held its limit of writes, counted from what it did and  *)
(* not from its counters, it lets none through (write-gate.ts:362-388).    *)
LimitsHold ==
  \A k \in born + 1 .. Len(log) : Exhausted(born + 1, k) => log[k] = "held"

(* "After 3 held writes in a row or 10 in a run, every further write of    *)
(* that run is held" (README.md:175-176).                                  *)
LimitsHoldForTheRun ==
  \A k \in 1 .. Len(log) : Exhausted(1, k) => log[k] = "held"
=============================================================================
