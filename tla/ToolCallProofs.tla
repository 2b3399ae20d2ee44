--------------------------- MODULE ToolCallProofs ---------------------------
(***************************************************************************)
(* Two parts of a tool call's way that share no variable: the limits of the *)
(* gate that reviews writes (WriteGate), and one write against its service  *)
(* (ServiceWrites).                                                        *)
(*                                                                         *)
(* The gate's limits hold for every number of calls, responses and          *)
(* restarts and every pair of limits. The gate counts as it goes and the    *)
(* property counts over the log, so the invariant ties the two together for *)
(* as long as the gate is not suspended; once it is, its counters stand.    *)
(***************************************************************************)
EXTENDS WriteGate, ServiceWrites, FiniteSetTheorems, TLAPS

Stages == {"unmade", "made", "judging", "go", "running", "over"}

GateTypeOK ==
  /\ decisions \in [Call -> {"none", "allowed", "held"}]
  /\ inARow \in Nat /\ total \in Nat
  /\ stage \in [Call -> Stages]
  /\ log \in Seq({"allowed", "held"})
  /\ born \in 0 .. Len(log)

BusyStages == {"judging", "go", "running"}

(* One call at a time, and no request while the gate is suspended.         *)
OneAtATime ==
  /\ \A c, d \in Call : stage[c] \in BusyStages /\ stage[d] \in BusyStages => c = d
  /\ \A c \in Call : stage[c] = "judging" => ~ Suspended

(* The counters of a gate that is not suspended say what the log says: the  *)
(* held calls of this gate, that the row of them started after a call that  *)
(* was not held, and that no row of MaxInARow of them was ever seen.       *)
Counted(row, sum, l, b) ==
  /\ sum = Cardinality({k \in b + 1 .. Len(l) : l[k] = "held"})
  /\ Len(l) - row > b => l[Len(l) - row] # "held"
  /\ \A i \in b + 1 .. Len(l) :
       i + MaxInARow <= Len(l) + 1 => \E k \in i .. i + MaxInARow - 1 : l[k] # "held"

GateInv ==
  /\ GateTypeOK
  /\ OneAtATime
  /\ ~ Suspended => Counted(inARow, total, log, born)
  /\ LimitsHold

-----------------------------------------------------------------------------
(* One more entry adds itself to the held ones, if it is one.              *)
LEMMA HeldAppended ==
  ASSUME NEW l \in Seq({"allowed", "held"}), NEW b \in 0 .. Len(l),
         NEW v \in {"allowed", "held"}
  PROVE  Cardinality({k \in b + 1 .. Len(l) + 1 : Append(l, v)[k] = "held"})
         = Cardinality({k \in b + 1 .. Len(l) : l[k] = "held"})
           + (IF v = "held" THEN 1 ELSE 0)
<1> DEFINE old == {k \in b + 1 .. Len(l) : l[k] = "held"}
           new == {k \in b + 1 .. Len(l) + 1 : Append(l, v)[k] = "held"}
<1>1. Len(l) \in Nat /\ IsFiniteSet(b + 1 .. Len(l))
  BY FS_Interval
<1>2. IsFiniteSet(old) /\ Cardinality(old) \in Nat
  BY <1>1, FS_Subset, FS_CardinalityType
<1>3. /\ Append(l, v)[Len(l) + 1] = v
      /\ \A k \in 1 .. Len(l) : Append(l, v)[k] = l[k]
  OBVIOUS
<1>4. Len(l) + 1 \notin old
  BY <1>1
<1>5. CASE v = "held"
  <2>1. b + 1 .. Len(l) + 1 = (b + 1 .. Len(l)) \cup {Len(l) + 1}
    BY <1>1
  <2>2. \A k \in b + 1 .. Len(l) : Append(l, v)[k] = l[k]
    BY <1>1, <1>3
  <2>3. new = old \cup {Len(l) + 1}
    BY <1>3, <1>5, <2>1, <2>2
  <2> QED
    BY <1>2, <1>4, <1>5, <2>3, FS_AddElement
<1>6. CASE v = "allowed"
  <2>1. new = old
    BY <1>1, <1>3, <1>6
  <2> HIDE DEF old, new
  <2>2. Cardinality(new) = Cardinality(old) + 0
    BY <1>2, <2>1
  <2> QED
    BY <1>6, <2>2 DEF old, new
<1> QED
  BY <1>5, <1>6

(* A stretch whose every entry is held, and only such a one, has as many    *)
(* held entries as it is long.                                             *)
LEMMA AllHeld ==
  ASSUME NEW l, NEW i \in Int, NEW n \in Nat,
         Cardinality({k \in i .. i + n - 1 : l[k] = "held"}) = n
  PROVE  \A k \in i .. i + n - 1 : l[k] = "held"
<1>1. IsFiniteSet(i .. i + n - 1) /\ Cardinality(i .. i + n - 1) = n
  BY FS_Interval
<1>2. {k \in i .. i + n - 1 : l[k] = "held"} = i .. i + n - 1
  BY <1>1, FS_Subset
<1> QED
  BY <1>2

(* What a gate that is not suspended counted leaves its next call free.     *)
LEMMA NotExhausted ==
  ASSUME GateInv, ~ Suspended
  PROVE  ~ Exhausted(born + 1, Len(log) + 1)
<1>1. /\ log \in Seq({"allowed", "held"}) /\ Len(log) \in Nat
      /\ born \in 0 .. Len(log) /\ inARow \in Nat /\ total \in Nat
      /\ MaxInARow \in Nat \ {0} /\ MaxHeld \in Nat \ {0}
  BY GateAssumption DEF GateInv, GateTypeOK
<1>2. Counted(inARow, total, log, born) /\ total < MaxHeld
  BY <1>1 DEF GateInv, Suspended
<1>3. ~ (HeldIn(born + 1, Len(log)) >= MaxHeld)
  BY <1>1, <1>2 DEF Counted, HeldIn
<1>4. ASSUME NEW i \in born + 1 .. Len(log), i + MaxInARow <= Len(log) + 1,
             HeldIn(i, i + MaxInARow - 1) = MaxInARow
      PROVE  FALSE
  <2>1. \A k \in i .. i + MaxInARow - 1 : log[k] = "held"
    BY <1>1, <1>4, AllHeld DEF HeldIn
  <2> QED
    BY <1>1, <1>2, <1>4, <2>1 DEF Counted
<1>5. Len(log) + 1 - 1 = Len(log)
  BY <1>1
<1> QED
  BY <1>3, <1>4, <1>5 DEF Exhausted

(* A call that is concluded in a gate that is not suspended keeps what the  *)
(* counters say, and the limits: it may be let through (write-gate.ts check). *)
LEMMA ConclusionKeepsLimits ==
  ASSUME GateInv, ~ Suspended, NEW c \in Call, NEW v \in {"allowed", "held"},
         Concludes(c, v), born' = born
  PROVE  /\ ~ Suspended' => Counted(inARow, total, log, born)'
         /\ LimitsHold'
<1>1. /\ log \in Seq({"allowed", "held"}) /\ Len(log) \in Nat
      /\ born \in 0 .. Len(log) /\ inARow \in Nat /\ total \in Nat
      /\ MaxInARow \in Nat \ {0} /\ MaxHeld \in Nat \ {0}
  BY GateAssumption DEF GateInv, GateTypeOK
<1>2. /\ log' = Append(log, v)
      /\ inARow' = IF v = "allowed" THEN 0 ELSE inARow + 1
      /\ total' = IF v = "allowed" THEN total ELSE total + 1
  BY DEF Concludes
<1>3. /\ Len(log') = Len(log) + 1
      /\ log'[Len(log) + 1] = v
      /\ \A k \in 1 .. Len(log) : log'[k] = log[k]
  BY <1>1, <1>2
<1>4. Counted(inARow, total, log, born)
  BY DEF GateInv
<1>5. ASSUME ~ Suspended'
      PROVE  Counted(inARow, total, log, born)'
  <2>1. inARow' < MaxInARow
    BY <1>1, <1>2, <1>5 DEF Suspended
  <2>2. total' = Cardinality({k \in born + 1 .. Len(log') : log'[k] = "held"})
    <3>1. Cardinality({k \in born + 1 .. Len(log) + 1 : Append(log, v)[k] = "held"})
          = total + (IF v = "held" THEN 1 ELSE 0)
      BY <1>1, <1>4, HeldAppended DEF Counted
    <3>2. {k \in born + 1 .. Len(log') : log'[k] = "held"}
          = {k \in born + 1 .. Len(log) + 1 : Append(log, v)[k] = "held"}
      BY <1>2, <1>3
    <3>3. total' = total + (IF v = "held" THEN 1 ELSE 0)
      BY <1>1, <1>2
    <3> QED
      BY <3>1, <3>2, <3>3
  <2>3. Len(log') - inARow' > born => log'[Len(log') - inARow'] # "held"
    <3>1. CASE v = "allowed"
      BY <1>1, <1>2, <1>3, <3>1
    <3>2. CASE v = "held"
      <4>1. Len(log') - inARow' = Len(log) - inARow
        BY <1>1, <1>2, <1>3, <3>2
      <4> QED
        BY <1>1, <1>3, <1>4, <4>1 DEF Counted
    <3> QED
      BY <3>1, <3>2
  <2>4. ASSUME NEW i \in born + 1 .. Len(log'), i + MaxInARow <= Len(log') + 1
        PROVE  \E k \in i .. i + MaxInARow - 1 : log'[k] # "held"
    <3>1. CASE i + MaxInARow <= Len(log) + 1
      <4>1. i \in born + 1 .. Len(log)
        BY <1>1, <3>1
      <4>2. PICK k \in i .. i + MaxInARow - 1 : log[k] # "held"
        BY <1>4, <3>1, <4>1 DEF Counted
      <4> QED
        BY <1>1, <1>3, <3>1, <4>1, <4>2
    <3>2. CASE i + MaxInARow = Len(log) + 2
      <4>1. Len(log') - inARow' \in i .. i + MaxInARow - 1
        BY <1>1, <1>2, <1>3, <2>1, <2>4, <3>2
      <4> QED
        BY <1>1, <2>3, <2>4, <4>1
    <3> QED
      BY <1>1, <1>3, <2>4, <3>1, <3>2
  <2> QED
    BY <2>2, <2>3, <2>4 DEF Counted
<1>6. LimitsHold'
  <2> SUFFICES ASSUME NEW k \in born + 1 .. Len(log) + 1, Exhausted(born + 1, k)'
               PROVE  log'[k] = "held"
    BY <1>1, <1>3 DEF LimitsHold
  <2>1. \A i, j \in Int : i >= 1 /\ j <= Len(log) => HeldIn(i, j)' = HeldIn(i, j)
    <3>1. ASSUME NEW i \in Int, NEW j \in Int, i >= 1, j <= Len(log)
          PROVE  {k1 \in i .. j : log'[k1] = "held"} = {k1 \in i .. j : log[k1] = "held"}
      BY <1>1, <1>3, <3>1
    <3> QED
      BY <3>1 DEF HeldIn
  <2>2. Exhausted(born + 1, k)
    BY <1>1, <2>1 DEF Exhausted
  <2>3. k # Len(log) + 1
    BY <2>2, NotExhausted
  <2> QED
    BY <1>1, <1>3, <2>2, <2>3 DEF GateInv, LimitsHold
<1> QED
  BY <1>5, <1>6

-----------------------------------------------------------------------------
(* The gate starts with nothing counted.                                   *)
LEMMA GateStarts == GateInit => GateInv
<1> SUFFICES ASSUME GateInit PROVE GateInv
  OBVIOUS
<1>1. log = <<>> /\ Len(log) = 0 /\ born = 0 /\ inARow = 0 /\ total = 0
  BY DEF GateInit
<1>2. GateTypeOK
  BY <1>1 DEF GateInit, GateTypeOK, Stages
<1>3. OneAtATime
  BY DEF GateInit, OneAtATime, BusyStages
<1>4. Counted(inARow, total, log, born)
  <2>1. {k \in born + 1 .. Len(log) : log[k] = "held"} = {}
    BY <1>1
  <2> QED
    BY <1>1, <2>1, FS_EmptySet DEF Counted
<1>5. LimitsHold
  BY <1>1 DEF LimitsHold
<1> QED
  BY <1>2, <1>3, <1>4, <1>5 DEF GateInv

(* A step that leaves the log, the counters and the gate's birth alone      *)
(* leaves what they say of each other.                                     *)
LEMMA CountsUntouched ==
  ASSUME GateInv, UNCHANGED <<inARow, total, log, born>>
  PROVE  /\ ~ Suspended' => Counted(inARow, total, log, born)'
         /\ LimitsHold'
  BY DEF GateInv, Suspended, Counted, LimitsHold, Exhausted, HeldIn

(* A call held without a count, because the gate is suspended, disturbs no   *)
(* limit (write-gate.ts:362-388).                                          *)
LEMMA SuspendedHoldKeepsLimits ==
  ASSUME GateInv, Suspended, log' = Append(log, "held"), UNCHANGED <<inARow, total, born>>
  PROVE  Suspended' /\ LimitsHold'
<1>1. /\ log \in Seq({"allowed", "held"}) /\ Len(log) \in Nat /\ born \in 0 .. Len(log)
      /\ MaxInARow \in Nat
  BY GateAssumption DEF GateInv, GateTypeOK
<1>2. /\ Len(log') = Len(log) + 1
      /\ log'[Len(log) + 1] = "held"
      /\ \A k \in 1 .. Len(log) : log'[k] = log[k]
  BY <1>1
<1>3. SUFFICES ASSUME NEW k \in born + 1 .. Len(log) + 1, Exhausted(born + 1, k)'
               PROVE  log'[k] = "held"
  BY <1>1, <1>2 DEF LimitsHold, Suspended
<1>4. \A i, j \in Int : i >= 1 /\ j <= Len(log) => HeldIn(i, j)' = HeldIn(i, j)
  <2>1. ASSUME NEW i \in Int, NEW j \in Int, i >= 1, j <= Len(log)
        PROVE  {n \in i .. j : log'[n] = "held"} = {n \in i .. j : log[n] = "held"}
    BY <1>1, <1>2, <2>1
  <2> QED
    BY <2>1 DEF HeldIn
<1>5. Exhausted(born + 1, k)
  BY <1>1, <1>3, <1>4 DEF Exhausted
<1> QED
  BY <1>1, <1>2, <1>5 DEF GateInv, LimitsHold

(* Moving one call to a stage of its own, while no other is busy, keeps the  *)
(* calls one at a time.                                                    *)
LEMMA OneMoves ==
  ASSUME GateInv, NEW c \in Call, NEW s \in Stages,
         stage' = [stage EXCEPT ![c] = s],
         ~ Busy \/ stage[c] \in BusyStages,
         s = "judging" => ~ Suspended'
  PROVE  OneAtATime' /\ stage' \in [Call -> Stages]
<1>1. stage \in [Call -> Stages]
  BY DEF GateInv, GateTypeOK
<1>2. \A d \in Call : d # c => stage'[d] \notin BusyStages
  BY <1>1 DEF GateInv, OneAtATime, Busy, BusyStages
<1>3. stage' \in [Call -> Stages] /\ stage'[c] = s
  BY <1>1
<1> QED
  BY <1>2, <1>3 DEF OneAtATime, BusyStages

LEMMA GateSteps == GateInv /\ [GateNext]_gateVars => GateInv'
<1> SUFFICES ASSUME GateInv, [GateNext]_gateVars PROVE GateInv'
  OBVIOUS
<1> USE DEF GateInv
<1>t. /\ decisions \in [Call -> {"none", "allowed", "held"}]
      /\ inARow \in Nat /\ total \in Nat
      /\ stage \in [Call -> Stages]
      /\ log \in Seq({"allowed", "held"}) /\ Len(log) \in Nat
      /\ born \in 0 .. Len(log)
  BY DEF GateTypeOK
<1>a. ASSUME NEW v \in {"allowed", "held"}, log' = Append(log, v), born' = born
      PROVE  log' \in Seq({"allowed", "held"}) /\ born' \in 0 .. Len(log')
  BY <1>t, <1>a
<1>1. CASE Responds
  <2>1. UNCHANGED <<decisions, inARow, total, log, born>>
    BY <1>1 DEF Responds, gate
  <2>2. stage' \in [Call -> Stages] /\ \A c \in Call : stage'[c] \notin BusyStages
    BY <1>1, <1>t DEF Responds, Busy, BusyStages, Stages
  <2>3. OneAtATime'
    BY <2>2 DEF OneAtATime, BusyStages
  <2> QED
    BY <2>1, <2>2, <2>3, <1>t, CountsUntouched DEF GateTypeOK
<1>2. ASSUME NEW c \in Call, Suspends(c)
      PROVE  GateInv'
  <2>1. /\ ~ Busy /\ Suspended /\ log' = Append(log, "held")
        /\ stage' = [stage EXCEPT ![c] = "over"]
        /\ UNCHANGED <<decisions, inARow, total, born>>
    BY <1>2 DEF Suspends, gate
  <2>2. OneAtATime' /\ stage' \in [Call -> Stages]
    BY <2>1, OneMoves DEF Stages
  <2>3. Suspended' /\ LimitsHold'
    BY <2>1, SuspendedHoldKeepsLimits
  <2> QED
    BY <2>1, <2>2, <2>3, <1>a, <1>t DEF GateTypeOK
<1>3. ASSUME NEW c \in Call, NEW v \in {"allowed", "held"}, Concludes(c, v),
             ~ Suspended, ~ Busy \/ stage[c] \in BusyStages,
             decisions' \in [Call -> {"none", "allowed", "held"}], born' = born
      PROVE  GateInv'
  <2>1. /\ log' = Append(log, v)
        /\ stage' = [stage EXCEPT ![c] = IF v = "allowed" THEN "go" ELSE "over"]
        /\ inARow' \in Nat /\ total' \in Nat
    BY <1>3, <1>t DEF Concludes
  <2>2. OneAtATime' /\ stage' \in [Call -> Stages]
    <3>1. (IF v = "allowed" THEN "go" ELSE "over") \in Stages \ {"judging"}
      BY DEF Stages
    <3> QED
      BY <1>3, <2>1, <3>1, OneMoves
  <2>3. (~ Suspended' => Counted(inARow, total, log, born)') /\ LimitsHold'
    BY <1>3, ConclusionKeepsLimits
  <2> QED
    BY <1>3, <1>a, <2>1, <2>2, <2>3 DEF GateTypeOK
<1>4. ASSUME NEW c \in Call, Knows(c)
      PROVE  GateInv'
  <2>1. decisions[c] \in {"allowed", "held"}
    BY <1>4, <1>t DEF Knows
  <2> QED
    BY <1>3, <1>4, <1>t, <2>1 DEF Knows
<1>5. ASSUME NEW c \in Call, AsksJudge(c)
      PROVE  GateInv'
  <2>1. /\ ~ Busy /\ ~ Suspended /\ stage' = [stage EXCEPT ![c] = "judging"]
        /\ UNCHANGED <<decisions, inARow, total, log, born>>
    BY <1>5 DEF AsksJudge, gate
  <2>2. OneAtATime' /\ stage' \in [Call -> Stages]
    BY <2>1, OneMoves DEF Stages, Suspended
  <2> QED
    BY <2>1, <2>2, <1>t, CountsUntouched DEF GateTypeOK
<1>6. ASSUME NEW c \in Call, Judged(c)
      PROVE  GateInv'
  <2>1. stage[c] = "judging" /\ born' = born
    BY <1>6 DEF Judged
  <2>2. ~ Suspended /\ stage[c] \in BusyStages
    BY <2>1 DEF OneAtATime, BusyStages
  <2>a. PICK named \in SUBSET Asked(c) : \E answer \in [named -> Verdict] :
          LET verdict(x) == IF x \in named THEN Parsed(answer[x]) ELSE decisions[x]
          IN  /\ decisions' = [x \in Call |-> verdict(x)]
              /\ Concludes(c, IF c \in named THEN verdict(c) ELSE "held")
    BY <1>6 DEF Judged
  <2>3. PICK answer \in [named -> Verdict] :
          LET verdict(x) == IF x \in named THEN Parsed(answer[x]) ELSE decisions[x]
          IN  /\ decisions' = [x \in Call |-> verdict(x)]
              /\ Concludes(c, IF c \in named THEN verdict(c) ELSE "held")
    BY <2>a
  <2>4. \A x \in named : Parsed(answer[x]) \in {"allowed", "held"}
    BY DEF Parsed
  <2>5. decisions' \in [Call -> {"none", "allowed", "held"}]
    BY <1>t, <2>3, <2>4
  <2>6. PICK v \in {"allowed", "held"} : Concludes(c, v)
    BY <2>3, <2>4
  <2> QED
    BY <1>3, <2>1, <2>2, <2>5, <2>6
<1>7. ASSUME NEW c \in Call, Starts(c) \/ Settles(c)
      PROVE  GateInv'
  <2>1. PICK s \in {"running", "over"} :
          /\ stage[c] \in BusyStages /\ stage' = [stage EXCEPT ![c] = s]
          /\ UNCHANGED <<decisions, inARow, total, log, born>>
    BY <1>7 DEF Starts, Settles, gate, BusyStages
  <2>2. OneAtATime' /\ stage' \in [Call -> Stages]
    BY <2>1, OneMoves DEF Stages
  <2> QED
    BY <2>1, <2>2, <1>t, CountsUntouched DEF GateTypeOK
<1>8. CASE Recovers
  <2>1. /\ decisions' = [c \in Call |-> "none"] /\ inARow' = 0 /\ total' = 0
        /\ stage' = [c \in Call |-> IF stage[c] \in {"judging", "go"} THEN "made" ELSE stage[c]]
        /\ born' = Len(log) /\ log' = log
        /\ \A c \in Call : stage[c] # "running"
    BY <1>8 DEF Recovers
  <2>2. stage' \in [Call -> Stages] /\ \A c \in Call : stage'[c] \notin BusyStages
    BY <1>t, <2>1 DEF BusyStages, Stages
  <2>3. OneAtATime'
    BY <2>2 DEF OneAtATime, BusyStages
  <2>4. Counted(inARow, total, log, born)'
    <3>1. {k \in born' + 1 .. Len(log') : log'[k] = "held"} = {}
      BY <1>t, <2>1
    <3>2. total' = Cardinality({k \in born' + 1 .. Len(log') : log'[k] = "held"})
      BY <2>1, <3>1, FS_EmptySet
    <3>3. ~ (Len(log') - inARow' > born') /\ born' + 1 .. Len(log') = {}
      BY <1>t, <2>1
    <3> QED
      BY <3>2, <3>3 DEF Counted
  <2>5. LimitsHold'
    BY <1>t, <2>1 DEF LimitsHold
  <2> QED
    BY <1>t, <2>1, <2>2, <2>3, <2>4, <2>5 DEF GateTypeOK
<1>9. CASE UNCHANGED gateVars
  BY <1>9, <1>t, CountsUntouched DEF gateVars, gate, GateTypeOK, OneAtATime, Suspended
<1> QED
  BY <1>1, <1>2, <1>4, <1>5, <1>6, <1>7, <1>8, <1>9 DEF GateNext

(* For every number of calls and restarts and every pair of limits: a gate   *)
(* that held its limit of writes lets no further one through, however its    *)
(* requests fall among the calls (write-gate.ts:362-388).                  *)
THEOREM LimitsAlwaysHold == GateSpec => []LimitsHold
<1>1. GateInv => LimitsHold
  BY DEF GateInv
<1> QED
  BY <1>1, GateStarts, GateSteps, PTL DEF GateSpec

-----------------------------------------------------------------------------
(* What a plan was made from: the state, or, of the downloads, what a list *)
(* that did not fit shows of it.                                           *)
Reads(view, read) ==
  \/ view.of = read
  \/ /\ ~ view.whole
     /\ DOMAIN view.of = DOMAIN read
     /\ \A t \in DOMAIN read : view.of[t] \in {"listed", "blocked"} => read[t] = view.of[t]

(* A state that is the one that was read but for what is in T.             *)
SameBut(T, read, state) ==
  /\ DOMAIN state = DOMAIN read
  /\ \A t \in DOMAIN read : state[t] = read[t] \/ t \in T

(* What changed was an effect of the plan, to the value it announced, or   *)
(* was warned of, or is in T.                                              *)
ShownBy(p, T, before, after) ==
  \A t \in DOMAIN before : after[t] # before[t] =>
     \/ t \in DOMAIN p.effects /\ after[t] = p.effects[t]
     \/ t \in p.warned \/ t \in T

(* What the plan announces and does not warn of has come true.             *)
Happens(p, after) == \A t \in DOMAIN p.effects \ p.warned : after[t] = p.effects[t]

(* The downloads' state has its values.                                    *)
QueueOK(state) ==
  /\ Items \cup {"grab", "release", "pending release", "data", "search"} \subseteq DOMAIN state
  /\ \A i \in Items : state[i] \in {"listed", "absent"}
  /\ state["release"] \in {"free", "blocked"}

(* A plan that knows the grab's source, or that it does not, is sure of a   *)
(* replacement search only if the Arr's own rule says so: "yes" and "no"    *)
(* are true (arr/writes.ts:77-103).                                        *)
LEMMA FailureSearches ==
  ASSUME NEW h \in Handlings, NEW source, source \in {h.source, "none"}
  PROVE  /\ RedownloadAfterFailure(h, source) \in {"yes", "no", "unknown"}
         /\ RedownloadAfterFailure(h, source) = "yes" => Searches(h)
         /\ RedownloadAfterFailure(h, source) = "no" => ~ Searches(h)
BY DEF Handlings, RedownloadAfterFailure, Searches

(* With the record of another event it misses no search, but announces one  *)
(* that an interactive grab may not be given (arr/writes.ts:304).          *)
LEMMA OtherRecordSearches ==
  ASSUME NEW h \in Handlings, NEW answer, answer = RedownloadAfterFailure(h, "not said")
  PROVE  /\ Searches(h) => answer \in {"yes", "unknown"}
         /\ answer = "yes" => Searches(h) \/ (h.source = "InteractiveSearch" /\ h.interactive = "off")
BY DEF Handlings, RedownloadAfterFailure, Searches

(* Of a queue item's removal: whether a search follows, and what it        *)
(* blocks.                                                                 *)
Answer(op, h) == IF op.blocklist THEN RedownloadAfterRemoval(h, op.item, op.skip) ELSE "no"
Blocked(op) == IF op.blocklist THEN {ReleaseOf(op.item)} ELSE {}

(* What the review of a removal announces (arr/writes.ts:190-240).         *)
LEMMA RemovalEffects ==
  ASSUME NEW op \in DownloadOps, op.tool = "remove_queue_item", NEW h, NEW view,
         NEW p, p = RemoveQueueItem(op, view, h)
  PROVE  /\ DOMAIN p.effects = {op.item} \cup Foretold(Answer(op, h)) \cup Blocked(op)
         /\ p.effects[op.item] = "absent"
         /\ \A t \in Blocked(op) : p.effects[t] = "blocked"
         /\ Answer(op, h) = "yes" => p.effects["search"] = "started"
<1> DEFINE answer == Answer(op, h)
           blocked == Blocked(op)
<1>1. p.effects = [t \in {op.item} \cup Foretold(answer) \cup blocked |->
         CASE t = op.item -> "absent" [] t \in blocked -> "blocked" [] OTHER -> "started"]
  BY DEF RemoveQueueItem, Answer, Blocked
<1>2. op.item \in {"item 1", "pending"} /\ op.blocklist \in BOOLEAN
  BY DEF DownloadOps
<1>3. blocked \subseteq {"release", "pending release"}
  BY <1>2 DEF Blocked, ReleaseOf
<1>4. answer = "yes" => Foretold(answer) = {"search"}
  BY DEF Foretold
<1> QED
  BY <1>1, <1>2, <1>3, <1>4

(* The other items of the download go with it only when the whole queue    *)
(* was read, so those listed were warned of, and one that was not listed   *)
(* had no entry to lose (arr/writes.ts:172-190).                           *)
LEMMA RemovalIsShown ==
  ASSUME NEW op \in DownloadOps, op.tool = "remove_queue_item", NEW h \in Handlings,
         NEW view, NEW read, Reads(view, read), QueueOK(read),
         NEW p, p = RemoveQueueItem(op, view, h), ~ p.refused,
         NEW T, NEW state, SameBut(T, read, state), QueueOK(state),
         NEW after, after = QueueItemRemoved(op, state, h)
  PROVE  /\ ShownBy(p, T, state, after)
         /\ T = {} => Happens(p, after)
<1> DEFINE answer == Answer(op, h)
           blocked == Blocked(op)
           gone == {op.item} \cup (IF op.fromClient THEN Siblings(op.item) ELSE {})
           fails == op.blocklist /\ op.item \in FromDownload /\ ~ op.skip
<1>0. /\ op.item \in {"item 1", "pending"} /\ op.fromClient \in BOOLEAN
      /\ op.blocklist \in BOOLEAN /\ op.skip \in BOOLEAN /\ h.showsGrab \in BOOLEAN
  BY DEF DownloadOps, Handlings
<1>1. /\ view.of[op.item] = "listed"
      /\ op.fromClient => view.of = read
  BY <1>0 DEF RemoveQueueItem, RemovalRefused, Reads
<1>2. /\ fails /\ Searches(h) => answer \in {"yes", "unknown"}
      /\ answer = "yes" => fails /\ Searches(h)
  BY <1>0, FailureSearches DEF Answer, RedownloadAfterRemoval, FromDownload
<1>3. /\ blocked \subseteq {"release", "pending release"}
      /\ op.item \in gone /\ gone \subseteq Items
      /\ \A t \in gone : t = op.item \/ (op.fromClient /\ t \in Siblings(op.item))
      /\ answer = "yes" => Foretold(answer) = {"search"}
      /\ answer # "yes" => Foretold(answer) = {}
      /\ answer = "unknown" => "search" \in Uncertain(answer)
  BY <1>0 DEF Blocked, ReleaseOf, Siblings, Items, FromDownload, Foretold, Uncertain
<1>4. /\ p.warned = Uncertain(answer) \cup Listed(view.of, Siblings(op.item))
                      \cup (IF op.fromClient THEN {"data"} ELSE {})
      /\ DOMAIN p.effects = {op.item} \cup Foretold(answer) \cup blocked
      /\ p.effects[op.item] = "absent"
      /\ \A t \in blocked : p.effects[t] = "blocked"
      /\ answer = "yes" => p.effects["search"] = "started"
  BY RemovalEffects DEF RemoveQueueItem, Answer
<1>5. \A t : t \in blocked <=> t = ReleaseOf(op.item) /\ op.blocklist
  BY DEF Blocked
<1>6. ASSUME NEW t \in DOMAIN state
      PROVE  /\ t \in gone => after[t] = "absent"
             /\ t \in blocked => after[t] = "blocked"
             /\ t = "search" /\ fails /\ Searches(h) => after[t] = "started"
             /\ \/ t \in gone \/ t \in blocked
                \/ t = "search" /\ fails /\ Searches(h)
                \/ t = "data" /\ op.fromClient
                \/ after[t] = state[t]
  <2>1. after[t] = CASE t \in gone -> "absent"
             [] t = "data" /\ op.fromClient /\ op.item \in FromDownload -> "deleted"
             [] t = ReleaseOf(op.item) /\ op.blocklist -> "blocked"
             [] t = "search" /\ fails /\ Searches(h) -> "started"
             [] OTHER -> state[t]
    BY DEF QueueItemRemoved
  <2>2. ReleaseOf(op.item) \in {"release", "pending release"}
    BY DEF ReleaseOf
  <2>3. t \in gone => t \in {"item 1", "item 2", "pending"}
    BY <1>3 DEF Items
  <2> HIDE DEF gone, fails
  <2> QED
    BY <1>5, <2>1, <2>2, <2>3
<1> HIDE DEF answer, blocked, gone, fails
<1>7. ASSUME NEW t \in DOMAIN state, after[t] # state[t], t \notin T
      PROVE  (t \in DOMAIN p.effects /\ after[t] = p.effects[t]) \/ t \in p.warned
  <2>1. CASE t \in gone
    <3>1. CASE t = op.item
      BY <1>4, <1>6, <2>1, <3>1
    <3>2. CASE op.fromClient /\ t \in Siblings(op.item)
      <4>1. state[t] = read[t] /\ read[t] = view.of[t]
        BY <1>1, <1>7, <3>2 DEF SameBut
      <4>2. view.of[t] = "listed"
        BY <1>3, <1>6, <1>7, <2>1, <4>1 DEF QueueOK
      <4> QED
        BY <1>4, <3>2, <4>2 DEF Listed
    <3> QED
      BY <1>3, <2>1, <3>1, <3>2
  <2>2. CASE t \in blocked
    BY <1>4, <1>6, <2>2
  <2>3. CASE t = "search" /\ fails /\ Searches(h)
    BY <1>2, <1>3, <1>4, <1>6, <2>3
  <2>4. CASE t = "data" /\ op.fromClient
    BY <1>4, <2>4
  <2> QED
    BY <1>6, <1>7, <2>1, <2>2, <2>3, <2>4
<1>8. ASSUME NEW t \in DOMAIN p.effects
      PROVE  after[t] = p.effects[t]
  <2>1. t \in DOMAIN state
    BY <1>3, <1>4 DEF QueueOK
  <2>2. CASE t = op.item
    BY <1>3, <1>4, <1>6, <2>1, <2>2
  <2>3. CASE t \in blocked
    BY <1>4, <1>6, <2>1, <2>3
  <2>4. CASE t = "search" /\ answer = "yes"
    BY <1>2, <1>4, <1>6, <2>1, <2>4
  <2> QED
    BY <1>3, <1>4, <2>2, <2>3, <2>4
<1> QED
  BY <1>7, <1>8 DEF ShownBy, Happens

(* What is announced and need not happen.                                  *)
MayFail(op, h) ==
  IF /\ op.tool = "mark_history_failed" /\ op.record # "grab"
     /\ h.source = "InteractiveSearch" /\ h.interactive = "off"
  THEN {"search"} ELSE {}

HappensBut(p, T, after) == \A t \in DOMAIN p.effects \ p.warned : after[t] = p.effects[t] \/ t \in T

(* A grab marked failed: its download's items and data are left aside, as  *)
(* the queue may have been read in part (arr/writes.ts:296-334).           *)
LEMMA MarkIsShown ==
  ASSUME NEW op \in DownloadOps, op.tool = "mark_history_failed", NEW h \in Handlings, NEW view, NEW read, Reads(view, read), QueueOK(read),
         NEW p, p = MarkHistoryFailed(op, view, h), ~ p.refused,
         NEW T, NEW state, SameBut(T, read, state), QueueOK(state),
         NEW after, after = HistoryMarkedFailed(op, state, h)
  PROVE  /\ ShownBy(p, T \cup FromDownload \cup {"data"}, state, after)
         /\ HappensBut(p, MayFail(op, h), after)
<1> DEFINE answer == RedownloadAfterFailure(h, SourceIn(op, h))
<1>0. op.record \in {"grab", "import"}
  BY DEF DownloadOps
<1>1. /\ Searches(h) => answer \in {"yes", "unknown"}
      /\ answer = "yes" => Searches(h) \/ "search" \in MayFail(op, h)
  <2>1. CASE op.record = "grab"
    <3>1. SourceIn(op, h) = h.source
      BY <2>1 DEF SourceIn
    <3> QED
      BY <3>1, FailureSearches
  <2>2. CASE op.record # "grab"
    <3>1. SourceIn(op, h) = "not said"
      BY <2>2 DEF SourceIn
    <3> QED
      BY <2>2, <3>1, OtherRecordSearches DEF MayFail
  <2> QED
    BY <2>1, <2>2
<1>2. /\ answer = "yes" => Foretold(answer) = {"search"}
      /\ answer # "yes" => Foretold(answer) = {}
      /\ answer = "unknown" => "search" \in Uncertain(answer)
  BY DEF Foretold, Uncertain
<1>3. /\ Uncertain(answer) \subseteq p.warned
      /\ p.effects = [t \in {"release"} \cup Foretold(answer) |->
                        IF t = "release" THEN "blocked" ELSE "started"]
  BY DEF MarkHistoryFailed
<1>4. ASSUME NEW t \in DOMAIN state
      PROVE  /\ t = "release" => after[t] = "blocked"
             /\ t = "search" /\ Searches(h) => after[t] = "started"
             /\ \/ t \in FromDownload \cup {"data", "release"}
                \/ t = "search" /\ Searches(h)
                \/ after[t] = state[t]
  BY DEF HistoryMarkedFailed, FromDownload
<1>5. {"release", "search"} \subseteq DOMAIN state
  BY DEF QueueOK
<1> HIDE DEF answer
<1>6. ASSUME NEW t \in DOMAIN state, after[t] # state[t], t \notin T \cup FromDownload \cup {"data"}
      PROVE  (t \in DOMAIN p.effects /\ after[t] = p.effects[t]) \/ t \in p.warned
  BY <1>1, <1>2, <1>3, <1>4, <1>6
<1>7. \A t \in DOMAIN p.effects : after[t] = p.effects[t] \/ t \in MayFail(op, h)
  BY <1>1, <1>2, <1>3, <1>4, <1>5
<1> QED
  BY <1>6, <1>7 DEF ShownBy, HappensBut

(* A blocklist entry deleted (arr/writes.ts:367-400).                      *)
LEMMA EntryIsShown ==
  ASSUME NEW op, NEW h, NEW view, NEW p, p = DeleteBlocklistEntry(op, view, h),
         NEW T, NEW state, QueueOK(state),
         NEW after, after = BlocklistEntryDeleted(op, state, h)
  PROVE  ShownBy(p, T, state, after) /\ Happens(p, after)
<1>1. /\ DOMAIN p.effects = {"release"} /\ p.effects["release"] = "free"
      /\ after = [state EXCEPT !["release"] = "free"] /\ "release" \in DOMAIN state
  BY DEF DeleteBlocklistEntry, BlocklistEntryDeleted, QueueOK
<1> QED
  BY <1>1 DEF ShownBy, Happens

(* A release grabbed (arr/writes.ts:442-478).                              *)
LEMMA GrabIsShown ==
  ASSUME NEW op, NEW h, NEW view, NEW p, p = GrabRelease(op, view, h),
         NEW T, NEW state, QueueOK(state), NEW after, after = ReleaseGrabbed(op, state, h)
  PROVE  ShownBy(p, T, state, after) /\ Happens(p, after)
<1>1. /\ DOMAIN p.effects = {"grab"} /\ p.effects["grab"] = "listed"
      /\ after = [state EXCEPT !["grab"] = "listed"] /\ "grab" \in DOMAIN state
  BY DEF GrabRelease, ReleaseGrabbed, QueueOK
<1> QED
  BY <1>1 DEF ShownBy, Happens

(* Every write on the downloads (arr/writes.ts:149-506).                   *)
LEMMA DownloadIsShown ==
  ASSUME NEW op \in DownloadOps, NEW h \in Handlings, NEW view, NEW read,
         Reads(view, read), QueueOK(read),
         NEW p, p = DownloadPlan(op, view, h), ~ p.refused,
         NEW T, NEW state, SameBut(T, read, state), QueueOK(state),
         NEW after, after = DownloadAfter(op, state, h)
  PROVE  /\ ShownBy(p, T \cup (IF op.tool = "mark_history_failed" THEN FromDownload \cup {"data"} ELSE {}),
                    state, after)
         /\ T = {} => HappensBut(p, MayFail(op, h), after)
<1>1. CASE op.tool = "remove_queue_item"
  <2>2. p = RemoveQueueItem(op, view, h) /\ after = QueueItemRemoved(op, state, h)
    BY <1>1 DEF DownloadPlan, DownloadAfter
  <2>3. ShownBy(p, T, state, after) /\ (T = {} => Happens(p, after))
    BY <1>1, <2>2, RemovalIsShown
  <2> QED
    BY <1>1, <2>3 DEF ShownBy, Happens, HappensBut
<1>2. CASE op.tool = "mark_history_failed"
  <2>1. p = MarkHistoryFailed(op, view, h) /\ after = HistoryMarkedFailed(op, state, h)
    BY <1>2 DEF DownloadPlan, DownloadAfter
  <2>2. /\ ShownBy(p, T \cup FromDownload \cup {"data"}, state, after)
        /\ HappensBut(p, MayFail(op, h), after)
    BY <1>2, <2>1, MarkIsShown
  <2> QED
    BY <1>2, <2>2 DEF ShownBy
<1>3. CASE op.tool = "delete_blocklist_entry"
  <2>1. p = DeleteBlocklistEntry(op, view, h) /\ after = BlocklistEntryDeleted(op, state, h)
    BY <1>3 DEF DownloadPlan, DownloadAfter
  <2>2. ShownBy(p, T, state, after) /\ Happens(p, after)
    BY <2>1, EntryIsShown
  <2> QED
    BY <1>3, <2>2 DEF ShownBy, Happens, HappensBut
<1>4. CASE op.tool = "grab_release"
  <2>1. p = GrabRelease(op, view, h) /\ after = ReleaseGrabbed(op, state, h)
    BY <1>4 DEF DownloadPlan, DownloadAfter
  <2>2. ShownBy(p, T, state, after) /\ Happens(p, after)
    BY <2>1, GrabIsShown
  <2> QED
    BY <1>4, <2>2 DEF ShownBy, Happens, HappensBut
<1> QED
  BY <1>1, <1>2, <1>3, <1>4 DEF DownloadOps

(* A list that does not show the item confirms its removal only when it is *)
(* whole; a list that shows a blocklist entry, or an item of the title that *)
(* was grabbed, does so in any case                                        *)
(* (arr/writes.ts:241-272, 337-366, 401-421, 482-506).                     *)
LEMMA DownloadConfirms ==
  ASSUME NEW op \in DownloadOps, NEW h, NEW shown, NEW p, p = DownloadPlan(op, shown, h),
         NEW state, QueueOK(state), NEW view, Reads(view, state), DownloadConfirmed(op, view)
  PROVE  \/ state[DownloadSubject(op)] = p.effects[DownloadSubject(op)]
         \/ op.tool = "grab_release" /\ \E i \in Namesakes(op) : state[i] = "listed"
<1>1. CASE op.tool = "remove_queue_item"
  <2>1. op.item \in {"item 1", "pending"} /\ p = RemoveQueueItem(op, shown, h)
    BY <1>1 DEF DownloadOps, DownloadPlan
  <2>2. p.effects[op.item] = "absent"
    <3>1. /\ DOMAIN p.effects = {op.item} \cup Foretold(Answer(op, h)) \cup Blocked(op)
          /\ p.effects[op.item] = "absent"
          /\ \A t \in Blocked(op) : p.effects[t] = "blocked"
          /\ Answer(op, h) = "yes" => p.effects["search"] = "started"
      BY <1>1, <2>1, RemovalEffects
    <3> QED
      BY <3>1
  <2>3. view.of[op.item] # "listed" /\ view.whole
    BY <1>1 DEF DownloadConfirmed, RemovalConfirmed
  <2>4. view.of = state
    BY <2>3 DEF Reads
  <2> QED
    BY <1>1, <2>1, <2>2, <2>3, <2>4 DEF DownloadSubject, QueueOK, Items
<1>2. CASE op.tool = "mark_history_failed"
  <2>1. p.effects["release"] = "blocked"
    BY <1>2 DEF DownloadPlan, MarkHistoryFailed
  <2>2. view.of["release"] = "blocked"
    BY <1>2 DEF DownloadConfirmed, MarkConfirmed
  <2> QED
    BY <1>2, <2>1, <2>2 DEF DownloadSubject, Reads, QueueOK
<1>3. CASE op.tool = "delete_blocklist_entry"
  <2>1. p.effects["release"] = "free"
    BY <1>3 DEF DownloadPlan, DeleteBlocklistEntry
  <2>2. view.of["release"] # "blocked" /\ view.of = state
    BY <1>3 DEF DownloadConfirmed, EntryConfirmed, Reads
  <2> QED
    BY <1>3, <2>1, <2>2 DEF DownloadSubject, QueueOK
<1>4. CASE op.tool = "grab_release"
  <2>1. p.effects["grab"] = "listed" /\ DownloadSubject(op) = "grab"
    BY <1>4 DEF DownloadPlan, GrabRelease, DownloadSubject
  <2>2. PICK i \in {"grab"} \cup Namesakes(op) : view.of[i] = "listed"
    BY <1>4 DEF DownloadConfirmed, GrabConfirmed
  <2>3. i \in DOMAIN state
    BY DEF Namesakes, FromDownload, Items, QueueOK
  <2>4. state[i] = "listed"
    BY <2>2, <2>3 DEF Reads
  <2> QED
    BY <1>4, <2>1, <2>2, <2>4
<1> QED
  BY <1>1, <1>2, <1>3, <1>4 DEF DownloadOps

-----------------------------------------------------------------------------
(* Who changes a thing changes what it brings along.                       *)
Brings(T) == \A t \in T : Along(t) \subseteq T

(* The record sent back whole, as it was read: it undoes only what         *)
(* somebody else changed since, a season's flag its episodes included      *)
(* (arr/monitoring.ts:18-75, sonarr/monitoring.ts:126-157).                *)
LEMMA MonitoringIsShown ==
  ASSUME NEW op, NEW view, NEW read, view.of = read,
         NEW fields, fields = SeriesFields \/ fields = MovieFields,
         NEW p, p = SetMonitoring(op, view, fields),
         NEW T, Brings(T), NEW state, SameBut(T, read, state), LibraryThings \subseteq DOMAIN state,
         NEW after, after = RecordReplaced(p.body, state)
  PROVE  /\ ShownBy(p, T, state, after)
         /\ Happens(p, after)
<1> DEFINE body == Patched(read, fields, op.change)
           moved == {s \in Seasons \cap fields : body[s] # state[s]}
<1>0. /\ fields \subseteq LibraryThings \ Episodes
      /\ DOMAIN state = DOMAIN read
  BY DEF SeriesFields, MovieFields, OtherFields, LibraryThings, Seasons, Episodes, SameBut
<1>1. /\ p.body = body /\ DOMAIN body = fields
      /\ DOMAIN p.effects = {g \in fields : body[g] # read[g]}
      /\ \A f \in DOMAIN p.effects : p.effects[f] = body[f]
      /\ p.warned = Follow(DOMAIN p.effects)
  BY DEF SetMonitoring, MonitoringEffects, Patched
<1> HIDE DEF body
<1>2. ASSUME NEW t \in DOMAIN state
      PROVE  /\ t \in fields => after[t] = body[t]
             /\ t \in fields \/ t \in Follow(moved) \/ after[t] = state[t]
  <2>1. after[t] = CASE t \in fields -> body[t]
                     [] t \in Follow(moved) -> body[SeasonOf[t]]
                     [] OTHER -> state[t]
    BY <1>1 DEF RecordReplaced
  <2>2. Follow(moved) \cap fields = {}
    BY <1>0 DEF Follow
  <2> HIDE DEF moved
  <2> QED
    BY <2>1, <2>2
<1>3. ASSUME NEW t \in DOMAIN state, after[t] # state[t], t \notin T
      PROVE  (t \in DOMAIN p.effects /\ after[t] = p.effects[t]) \/ t \in p.warned
  <2>1. CASE t \in fields
    BY <1>0, <1>1, <1>2, <1>3, <2>1 DEF SameBut
  <2>2. CASE t \in Follow(moved)
    <3>1. t \in Episodes /\ SeasonOf[t] \in moved
      BY <2>2 DEF Follow
    <3>2. SeasonOf[t] \notin T
      <4>1. SeasonOf[t] \in Seasons
        BY <3>1
      <4>2. Follow({SeasonOf[t]}) \subseteq Along(SeasonOf[t])
        BY <4>1 DEF Along, Seasons, Episodes, FromDownload
      <4>3. SeasonOf[t] \in T => Follow({SeasonOf[t]}) \subseteq T
        BY <4>2 DEF Brings
      <4> QED
        BY <1>3, <3>1, <4>3 DEF Follow
    <3>3. SeasonOf[t] \in DOMAIN state /\ state[SeasonOf[t]] = read[SeasonOf[t]]
      BY <1>0, <3>1, <3>2 DEF SameBut
    <3>4. SeasonOf[t] \in DOMAIN p.effects
      BY <1>1, <3>1, <3>3
    <3> QED
      BY <1>1, <3>1, <3>4 DEF Follow
  <2> QED
    BY <1>2, <1>3, <2>1, <2>2
<1>4. \A t \in DOMAIN p.effects : after[t] = p.effects[t]
  BY <1>0, <1>1, <1>2
<1> QED
  BY <1>3, <1>4 DEF ShownBy, Happens

(* Episodes searched by name, or those monitored when the Arr comes to it  *)
(* (sonarr/search.ts:41-94).                                               *)
LEMMA SearchIsShown ==
  ASSUME NEW op \in LibraryOps, op.tool = "auto_search", NEW view, NEW read, view.of = read,
         NEW p, p = AutoSearch(op, view),
         NEW T, Brings(T), NEW state, SameBut(T, read, state), LibraryThings \subseteq DOMAIN state,
         NEW after, after = SearchRun(op, state)
  PROVE  /\ ShownBy(p, T, state, after)
         /\ T = {} => Happens(p, after)
<1> DEFINE scope == SearchScope(op, read)
           later == SearchScope(op, state)
<1>0. op.episodes \subseteq Episodes /\ scope \subseteq Episodes /\ later \subseteq Episodes
  BY DEF LibraryOps, SearchScope
<1>1. /\ p.effects = [s \in {Search(e) : e \in scope} |-> "run"]
      /\ after = [t \in DOMAIN state |-> IF t \in {Search(e) : e \in later} THEN "run" ELSE state[t]]
  BY DEF AutoSearch, Planned, SearchRun
<1>2. ASSUME NEW e \in later, e \notin scope
      PROVE  e \in T
  <2>1. op.episodes = {} /\ state[e] = "on" /\ read[e] # "on"
    BY <1>2 DEF SearchScope
  <2> QED
    BY <1>0, <1>2, <2>1 DEF SameBut, LibraryThings
<1>3. \A e \in Episodes \cap T : Search(e) \in T
  <2>1. \A e \in Episodes : Along(e) = {Search(e)}
    BY DEF Along, Seasons, Episodes, FromDownload
  <2> QED
    BY <2>1 DEF Brings
<1>4. T = {} => scope \subseteq later
  BY <1>0 DEF SearchScope, SameBut, LibraryThings
<1>5. \A e \in Episodes : Search(e) \in DOMAIN state
  BY DEF Search, LibraryThings, CommandThings
<1> HIDE DEF scope, later
<1>6. ASSUME NEW t \in DOMAIN state, after[t] # state[t], t \notin T
      PROVE  t \in DOMAIN p.effects /\ after[t] = p.effects[t]
  <2>1. PICK e \in later : t = Search(e)
    BY <1>1, <1>6
  <2> QED
    BY <1>0, <1>1, <1>2, <1>3, <1>6, <2>1
<1>7. ASSUME T = {}, NEW t \in DOMAIN p.effects
      PROVE  after[t] = p.effects[t]
  BY <1>0, <1>1, <1>4, <1>5, <1>7
<1> QED
  BY <1>6, <1>7 DEF ShownBy, Happens

(* Only episodes whose flag differs are announced; setting the others      *)
(* again changes nothing (sonarr/writes.ts:176-224).                       *)
LEMMA EpisodesAreShown ==
  ASSUME NEW op \in LibraryOps, op.tool = "set_episode_monitoring",
         NEW view, NEW read, view.of = read,
         NEW p, p = SetEpisodeMonitoring(op, view),
         NEW T, NEW state, SameBut(T, read, state), LibraryThings \subseteq DOMAIN state,
         NEW after, after = EpisodesSet(op, state)
  PROVE  ShownBy(p, T, state, after) /\ Happens(p, after)
<1>1. op.episodes \subseteq Episodes /\ Episodes \subseteq DOMAIN state
  BY DEF LibraryOps, LibraryThings
<1>2. p.effects = [e \in {e \in op.episodes : read[e] # op.flag} |-> op.flag]
  BY DEF SetEpisodeMonitoring, Planned
<1>3. after = [t \in DOMAIN state |-> IF t \in op.episodes THEN op.flag ELSE state[t]]
  BY DEF EpisodesSet
<1> QED
  BY <1>1, <1>2, <1>3 DEF ShownBy, Happens, SameBut

(* A named file is imported, or it was rejected and that was warned of     *)
(* (arr/manual-import.ts:136-179).                                         *)
LEMMA ImportsAreShown ==
  ASSUME NEW op \in LibraryOps, op.tool = "manual_import",
         NEW view, NEW read, view.of = read,
         NEW p, p = ManualImport(op, view), ~ p.refused,
         NEW T, NEW state, SameBut(T, read, state), LibraryThings \subseteq DOMAIN state,
         NEW after, after = FilesImported(op, state)
  PROVE  /\ ShownBy(p, T, state, after)
         /\ T = {} => Happens(p, after)
<1>1. op.files \subseteq Imports /\ Imports \subseteq DOMAIN state
  BY DEF LibraryOps, LibraryThings
<1>2. /\ p.effects = [f \in op.files |-> "imported"]
      /\ p.warned = {f \in op.files : read[f] = "rejected"}
      /\ \A f \in op.files : read[f] \in {"offered", "rejected"}
  BY DEF ManualImport, Planned, CandidateWarnings, MatchCandidates, Candidates, KnownRejections
<1>3. after = [t \in DOMAIN state |->
        IF t \in op.files \cap Candidates(state) /\ state[t] # "rejected" THEN "imported" ELSE state[t]]
  BY DEF FilesImported
<1>4. \A f \in Imports : f \in Candidates(state) <=> state[f] \in {"offered", "rejected", "unreadable"}
  BY DEF Candidates
<1>5. ShownBy(p, T, state, after)
  BY <1>1, <1>2, <1>3 DEF ShownBy
<1>6. ASSUME T = {}, NEW f \in op.files, f \notin p.warned
      PROVE  after[f] = "imported"
  <2>1. state[f] = "offered"
    BY <1>1, <1>2, <1>6 DEF SameBut
  <2> QED
    BY <1>1, <1>3, <1>4, <1>6, <2>1
<1> QED
  BY <1>2, <1>5, <1>6 DEF Happens

(* A scan takes the files that are offered (arr/manual-import.ts:205-278). *)
LEMMA ScanIsShown ==
  ASSUME NEW op, NEW view, NEW read, view.of = read,
         NEW p, p = ScanImportFolder(op, view), ~ p.refused,
         NEW T, NEW state, SameBut(T, read, state), LibraryThings \subseteq DOMAIN state,
         NEW after, after = FolderScanned(op, state)
  PROVE  /\ ShownBy(p, T, state, after)
         /\ T = {} => Happens(p, after)
<1>1. Imports \subseteq DOMAIN state /\ DOMAIN state = DOMAIN read
  BY DEF LibraryThings, SameBut
<1>2. /\ p.effects = [f \in Candidates(read) |-> "imported"]
      /\ p.warned = {f \in Candidates(read) : read[f] = "rejected"}
      /\ \A f \in Candidates(read) : read[f] # "unreadable"
  BY DEF ScanImportFolder, Planned, CandidateWarnings, ScanCandidates, KnownRejections
<1>3. after = [t \in DOMAIN state |-> IF t \in Imports /\ state[t] = "offered" THEN "imported" ELSE state[t]]
  BY DEF FolderScanned
<1>4. \A f : f \in Candidates(read) <=> f \in Imports /\ read[f] \in {"offered", "rejected", "unreadable"}
  BY DEF Candidates
<1>5. ShownBy(p, T, state, after)
  BY <1>1, <1>2, <1>3, <1>4 DEF ShownBy, SameBut
<1>6. ASSUME T = {}, NEW f \in Candidates(read), f \notin p.warned
      PROVE  after[f] = "imported"
  <2>1. state[f] = "offered"
    BY <1>1, <1>2, <1>4, <1>6 DEF SameBut
  <2> QED
    BY <1>1, <1>3, <1>4, <1>6, <2>1
<1> QED
  BY <1>2, <1>5, <1>6 DEF Happens

(* A write that sets one thing to what it announced.                       *)
LEMMA OneThingIsShown ==
  ASSUME NEW p, NEW t, NEW v, DOMAIN p.effects = {t}, p.effects[t] = v,
         NEW T, NEW state, t \in DOMAIN state,
         NEW after, after = [state EXCEPT ![t] = v]
  PROVE  ShownBy(p, T, state, after) /\ Happens(p, after)
BY DEF ShownBy, Happens

(* Every write on the library (sonarr/writes.ts, radarr/writes.ts,         *)
(* arr/commands.ts:109-170).                                               *)
LEMMA LibraryIsShown ==
  ASSUME NEW op \in LibraryOps, NEW view, NEW read, view.of = read,
         NEW p, p = LibraryPlan(op, view), ~ p.refused,
         NEW T, Brings(T), NEW state, SameBut(T, read, state), LibraryThings \subseteq DOMAIN state,
         NEW after, after = LibraryAfter(op, p.body, state)
  PROVE  /\ ShownBy(p, T, state, after)
         /\ T = {} => Happens(p, after)
<1>1. CASE op.tool = "set_series_monitoring"
  <2>1. p = SetMonitoring(op, view, SeriesFields) /\ after = RecordReplaced(p.body, state)
    BY <1>1 DEF LibraryPlan, LibraryAfter, SetSeriesMonitoring
  <2> QED
    BY <2>1, MonitoringIsShown
<1>2. CASE op.tool = "set_movie_monitoring"
  <2>1. p = SetMonitoring(op, view, MovieFields) /\ after = RecordReplaced(p.body, state)
    BY <1>2 DEF LibraryPlan, LibraryAfter, SetMovieMonitoring
  <2> QED
    BY <2>1, MonitoringIsShown
<1>3. CASE op.tool = "set_episode_monitoring"
  <2>1. p = SetEpisodeMonitoring(op, view) /\ after = EpisodesSet(op, state)
    BY <1>3 DEF LibraryPlan, LibraryAfter
  <2> QED
    BY <1>3, <2>1, EpisodesAreShown
<1>4. CASE op.tool = "delete_file"
  <2>1. p = DeleteFile(op, view) /\ after = FileDeleted(op, state)
    BY <1>4 DEF LibraryPlan, LibraryAfter
  <2>2. /\ DOMAIN p.effects = {"file"} /\ p.effects["file"] = "deleted"
        /\ after = [state EXCEPT !["file"] = "deleted"]
    BY <2>1 DEF DeleteFile, FileDeleted, Planned
  <2>3. "file" \in DOMAIN state
    BY DEF LibraryThings
  <2> QED
    BY <2>2, <2>3, OneThingIsShown
<1>5. CASE op.tool = "auto_search"
  <2>1. p = AutoSearch(op, view) /\ after = SearchRun(op, state)
    BY <1>5 DEF LibraryPlan, LibraryAfter
  <2> QED
    BY <1>5, <2>1, SearchIsShown
<1>6. CASE op.tool = "auto_search_movie"
  <2>1. p = AutoSearchMovie(op, view) /\ after = MovieSearchRun(op, state)
    BY <1>6 DEF LibraryPlan, LibraryAfter
  <2>2. /\ DOMAIN p.effects = {"search movie"} /\ p.effects["search movie"] = "run"
        /\ after = [state EXCEPT !["search movie"] = "run"]
    <3>1. DOMAIN p.effects = {"search movie"} /\ p.effects["search movie"] = "run"
      <4> DEFINE run == [t \in {"search movie"} |-> "run"]
      <4>1. p = Planned(FALSE, run, {})
        BY <2>1 DEF AutoSearchMovie
      <4> HIDE DEF run
      <4>2. p.effects = run
        BY <4>1 DEF Planned
      <4> QED
        BY <4>2 DEF run
    <3>2. after = [state EXCEPT !["search movie"] = "run"]
      BY <2>1 DEF MovieSearchRun
    <3> QED
      BY <3>1, <3>2
  <2>3. "search movie" \in DOMAIN state
    BY DEF LibraryThings, CommandThings
  <2> QED
    BY <2>2, <2>3, OneThingIsShown
<1>7. CASE op.tool = "manual_import"
  <2>1. p = ManualImport(op, view) /\ after = FilesImported(op, state)
    BY <1>7 DEF LibraryPlan, LibraryAfter
  <2> QED
    BY <1>7, <2>1, ImportsAreShown
<1>8. CASE op.tool = "scan_import_folder"
  <2>1. p = ScanImportFolder(op, view) /\ after = FolderScanned(op, state)
    BY <1>8 DEF LibraryPlan, LibraryAfter
  <2> QED
    BY <2>1, ScanIsShown
<1>9. CASE op.tool = "run_command"
  <2>1. p = RunCommand(op, view) /\ after = CommandRun(op, state)
    BY <1>9 DEF LibraryPlan, LibraryAfter
  <2>2. /\ DOMAIN p.effects = {"refresh"} /\ p.effects["refresh"] = "run"
        /\ after = [state EXCEPT !["refresh"] = "run"]
    BY <2>1 DEF RunCommand, CommandRun, Planned
  <2>3. "refresh" \in DOMAIN state
    BY DEF LibraryThings, CommandThings
  <2> QED
    BY <2>2, <2>3, OneThingIsShown
<1>10. op.tool \in {"set_series_monitoring", "set_movie_monitoring", "set_episode_monitoring",
          "delete_file", "auto_search", "auto_search_movie", "manual_import",
          "scan_import_folder", "run_command"}
  BY DEF LibraryOps
<1> QED
  BY <1>1, <1>2, <1>3, <1>4, <1>5, <1>6, <1>7, <1>8, <1>9, <1>10

(* What a read-back of the library found.                                  *)
SaidBack(op, p, of) ==
  /\ op.tool \in Monitoring => \A f \in Compared(p.body) : of[f] = p.body[f]
  /\ op.tool \notin Monitoring => \A t \in DOMAIN p.effects : of[t] = p.effects[t]

(* Of the library, a confirmation reads back all that was announced, and of *)
(* a monitoring change every field it compares.                            *)
LEMMA LibraryConfirms ==
  ASSUME NEW op \in LibraryOps, NEW shown, NEW p, p = LibraryPlan(op, shown),
         NEW view, LibraryConfirmed(op, p.body, view)
  PROVE  SaidBack(op, p, view.of)
<1>1. CASE op.tool \in Monitoring
  BY <1>1 DEF LibraryConfirmed, MonitoringReadBack, Monitoring, SaidBack
<1>2. CASE op.tool = "set_episode_monitoring"
  <2>1. p = SetEpisodeMonitoring(op, shown) /\ EpisodesReadBack(op, view)
    BY <1>2 DEF LibraryPlan, LibraryConfirmed
  <2> QED
    BY <1>2, <2>1 DEF SetEpisodeMonitoring, Planned, EpisodesReadBack, Monitoring, SaidBack
<1>3. CASE op.tool = "delete_file"
  <2>1. p = DeleteFile(op, shown) /\ VerifyDeleted(op, view)
    BY <1>3 DEF LibraryPlan, LibraryConfirmed
  <2> QED
    BY <1>3, <2>1 DEF DeleteFile, Planned, VerifyDeleted, Monitoring, SaidBack
<1>4. CASE op.tool \in Commands
  BY <1>4 DEF LibraryConfirmed, Commands
<1> QED
  BY <1>1, <1>2, <1>3, <1>4 DEF LibraryOps, Commands, Monitoring

(* What a job's, and an item's, state has.                                 *)
JobThings == {"job", "files", "priority", "category"}

(* A list that was cut shows no job, and then nothing is planned            *)
(* (sabnzbd/jobs.ts:88-117).                                               *)
LEMMA JobWasThere ==
  ASSUME NEW op \in JobOps, NEW view, ~ JobPlan(op, view).refused
  PROVE  view.of["job"] # "gone"
<1>1. CASE op.tool = "retry_job"
  BY <1>1 DEF JobPlan, RetryJob, Announced
<1>2. CASE op.tool = "pause_job"
  BY <1>2 DEF JobPlan, PauseJob, Announced
<1>3. CASE op.tool = "resume_job"
  BY <1>3 DEF JobPlan, ResumeJob, Announced
<1>4. CASE op.tool = "set_priority"
  BY <1>4 DEF JobPlan, SetPriority, Announced, RequireJob, JobsIn, Queued
<1>5. CASE op.tool = "change_category"
  BY <1>5 DEF JobPlan, ChangeCategory, Announced, RequireJob, JobsIn, Queued
<1>6. CASE op.tool = "delete_job"
  BY <1>6 DEF JobPlan, DeleteJob, Announced, RequireJob, JobsIn, Queued, InHistory
<1> QED
  BY <1>1, <1>2, <1>3, <1>4, <1>5, <1>6 DEF JobOps

(* SABnzbd does nothing to a job that is not where the call looks for it;  *)
(* if nobody else moved it, it is (sabnzbd/writes.ts:21-247).              *)
LEMMA JobIsShown ==
  ASSUME NEW op \in JobOps, NEW view, NEW read, view.of = read,
         NEW p, p = JobPlan(op, view), ~ p.refused,
         NEW T, NEW state, SameBut(T, read, state), JobThings \subseteq DOMAIN state,
         NEW after, after = JobAfter(op, state)
  PROVE  /\ ShownBy(p, T, state, after)
         /\ T = {} => Happens(p, after)
<1>0. /\ JobThings \subseteq DOMAIN read
      /\ \A t \in JobThings : T = {} => state[t] = read[t]
  BY DEF SameBut
<1>1. CASE op.tool = "retry_job"
  <2>1. p = RetryJob(op, view)
    BY <1>1 DEF JobPlan
  <2>2. read["job"] = "failed"
    <3>1. p.refused = ~ (read["job"] = "failed")
      BY <2>1 DEF RetryJob, Announced
    <3> QED
      BY <3>1
  <2>3. /\ DOMAIN p.effects = {"job"} /\ p.effects["job"] = "waiting"
    BY <2>1 DEF RetryJob, Announced
  <2>4. \/ state["job"] = "failed" /\ after = [state EXCEPT !["job"] = "waiting"]
        \/ state["job"] # "failed" /\ after = state
    BY <1>1 DEF JobAfter
  <2> QED
    BY <1>0, <2>2, <2>3, <2>4 DEF ShownBy, Happens, JobThings
<1>2. CASE op.tool = "pause_job"
  <2>1. p = PauseJob(op, view)
    BY <1>2 DEF JobPlan
  <2>2. read["job"] = "waiting"
    <3>1. p.refused = ~ (read["job"] = "waiting")
      BY <2>1 DEF PauseJob, Announced
    <3> QED
      BY <3>1
  <2>3. /\ DOMAIN p.effects = {"job"} /\ p.effects["job"] = "paused"
    BY <2>1 DEF PauseJob, Announced
  <2>4. \/ state["job"] \in Queued /\ after = [state EXCEPT !["job"] = "paused"]
        \/ state["job"] \notin Queued /\ after = state
    BY <1>2 DEF JobAfter
  <2> QED
    BY <1>0, <2>2, <2>3, <2>4 DEF ShownBy, Happens, JobThings, Queued
<1>3. CASE op.tool = "resume_job"
  <2>1. p = ResumeJob(op, view)
    BY <1>3 DEF JobPlan
  <2>2. read["job"] = "paused"
    <3>1. p.refused = ~ (read["job"] = "paused")
      BY <2>1 DEF ResumeJob, Announced
    <3> QED
      BY <3>1
  <2>3. /\ DOMAIN p.effects = {"job"} /\ p.effects["job"] = "waiting"
    BY <2>1 DEF ResumeJob, Announced
  <2>4. \/ state["job"] \in Queued /\ after = [state EXCEPT !["job"] = "waiting"]
        \/ state["job"] \notin Queued /\ after = state
    BY <1>3 DEF JobAfter
  <2> QED
    BY <1>0, <2>2, <2>3, <2>4 DEF ShownBy, Happens, JobThings, Queued
<1>4. CASE op.tool = "set_priority"
  <2>1. p = SetPriority(op, view)
    BY <1>4 DEF JobPlan
  <2>2. read["job"] \in Queued
    <3>1. p.refused = ~ (read["job"] \in Queued)
      BY <2>1 DEF SetPriority, Announced, RequireJob, JobsIn
    <3> QED
      BY <3>1
  <2>3. /\ DOMAIN p.effects = {"priority"} /\ p.effects["priority"] = op.value
    BY <2>1 DEF SetPriority, Announced
  <2>4. \/ state["job"] \in Queued /\ after = [state EXCEPT !["priority"] = op.value]
        \/ state["job"] \notin Queued /\ after = state
    BY <1>4 DEF JobAfter
  <2> QED
    BY <1>0, <2>2, <2>3, <2>4 DEF ShownBy, Happens, JobThings
<1>5. CASE op.tool = "change_category"
  <2>1. p = ChangeCategory(op, view)
    BY <1>5 DEF JobPlan
  <2>2. read["job"] \in Queued
    <3>1. p.refused = (~ RequireJob(view, "queue") \/ view.of["category"] = op.value)
      BY <2>1 DEF ChangeCategory, Announced
    <3> QED
      BY <3>1 DEF RequireJob, JobsIn
  <2>3. /\ DOMAIN p.effects = {"category"} /\ p.effects["category"] = op.value
    BY <2>1 DEF ChangeCategory, Announced
  <2>4. \/ state["job"] \in Queued /\ after = [state EXCEPT !["category"] = op.value]
        \/ state["job"] \notin Queued /\ after = state
    BY <1>5 DEF JobAfter
  <2> QED
    BY <1>0, <2>2, <2>3, <2>4 DEF ShownBy, Happens, JobThings
<1>6. CASE op.tool = "delete_job"
  <2>1. p = DeleteJob(op, view)
    BY <1>6 DEF JobPlan
  <2>2. read["job"] \in JobsIn(op.from)
    <3>1. p.refused = ~ (read["job"] \in JobsIn(op.from))
      BY <2>1 DEF DeleteJob, Announced, RequireJob
    <3> QED
      BY <3>1
  <2>3. /\ DOMAIN p.effects = {"job"} /\ p.effects["job"] = "gone"
        /\ op.files => "files" \in p.warned
    BY <2>1 DEF DeleteJob, Announced
  <2>4. \/ /\ state["job"] \in JobsIn(op.from)
           /\ after = [state EXCEPT !["job"] = "gone", !["files"] = IF op.files THEN "deleted" ELSE @]
        \/ state["job"] \notin JobsIn(op.from) /\ after = state
    BY <1>6 DEF JobAfter
  <2> QED
    BY <1>0, <2>2, <2>3, <2>4 DEF ShownBy, Happens, JobThings
<1> QED
  BY <1>1, <1>2, <1>3, <1>4, <1>5, <1>6 DEF JobOps

(* Of a job, what is read back is what was announced                       *)
(* (sabnzbd/jobs.ts:160-178), and the job is there.                        *)
LEMMA JobConfirms ==
  ASSUME NEW op \in JobOps, op.tool \notin {"retry_job", "delete_job"},
         NEW shown, NEW p, p = JobPlan(op, shown), NEW view, VerifyJob(op, view)
  PROVE  /\ \A t \in DOMAIN p.effects : view.of[t] = p.effects[t]
         /\ view.of["job"] # "gone"
<1>1. CASE op.tool = "pause_job"
  BY <1>1 DEF JobPlan, VerifyJob, PauseJob, Announced
<1>2. CASE op.tool = "resume_job"
  BY <1>2 DEF JobPlan, VerifyJob, ResumeJob, Announced, Queued
<1>3. CASE op.tool = "set_priority"
  BY <1>3 DEF JobPlan, VerifyJob, SetPriority, Announced, Queued
<1>4. CASE op.tool = "change_category"
  BY <1>4 DEF JobPlan, VerifyJob, ChangeCategory, Announced, Queued
<1> QED
  BY <1>1, <1>2, <1>3, <1>4 DEF JobOps

-----------------------------------------------------------------------------
ItemThings == {"match", "metadata", "children", "refresh", "type"}

(* What an item is does not change, so the children announced with a       *)
(* series are those refreshed (jellyfin/writes.ts:39-206).                 *)
LEMMA ItemIsShown ==
  ASSUME NEW op \in ItemOps, NEW view, NEW read, view.of = read,
         NEW p, p = ItemPlan(op, view), ~ p.refused,
         NEW T, "type" \notin T, NEW state, SameBut(T, read, state), ItemThings \subseteq DOMAIN state,
         NEW after, after = ItemAfter(op, state)
  PROVE  ShownBy(p, T, state, after) /\ Happens(p, after)
<1>1. CASE op.tool = "refresh_item"
  <2>1. p = RefreshItem(op, view)
    BY <1>1 DEF ItemPlan
  <2>2. /\ DOMAIN p.effects = {"refresh"} /\ p.effects["refresh"] = "run"
        /\ op.replaces => "metadata" \in p.warned
    BY <2>1 DEF RefreshItem, Announced
  <2>3. after = [state EXCEPT !["refresh"] = "run",
                              !["metadata"] = IF op.replaces THEN "replaced" ELSE @]
    BY <1>1 DEF ItemAfter
  <2> QED
    BY <2>2, <2>3 DEF ShownBy, Happens, ItemThings
<1>2. CASE op.tool # "refresh_item"
  <2>1. p = ApplyRemoteSearch(op, view)
    BY <1>2 DEF ItemPlan
  <2>2. /\ p.effects = [t \in {"match"} \cup (IF read["type"] = "series" THEN {"children"} ELSE {})
                          |-> IF t = "match" THEN "wanted" ELSE "refreshed"]
        /\ "metadata" \in p.warned
    BY <2>1 DEF ApplyRemoteSearch, Announced
  <2>3. after = [state EXCEPT !["match"] = "wanted", !["metadata"] = "replaced",
                     !["children"] = IF state["type"] = "series" THEN "refreshed" ELSE @]
    BY <1>2 DEF ItemAfter
  <2>4. state["type"] = read["type"]
    BY DEF SameBut, ItemThings
  <2>5. /\ after["match"] = "wanted" /\ p.effects["match"] = "wanted" /\ "match" \in DOMAIN p.effects
        /\ state["type"] = "series" => /\ after["children"] = "refreshed"
                                       /\ p.effects["children"] = "refreshed"
                                       /\ "children" \in DOMAIN p.effects
        /\ state["type"] # "series" => DOMAIN p.effects = {"match"} /\ after["children"] = state["children"]
        /\ \A t \in DOMAIN state \ {"match", "metadata", "children"} : after[t] = state[t]
        /\ DOMAIN p.effects \subseteq {"match", "children"}
    BY <2>2, <2>3, <2>4 DEF ItemThings
  <2> QED
    BY <2>2, <2>5 DEF ShownBy, Happens
<1> QED
  BY <1>1, <1>2

(* Of an item, the match is read back (jellyfin/rematch.ts:223-240).       *)
LEMMA ItemConfirms ==
  ASSUME NEW op, op.tool = "apply_remote_search",
         NEW shown, NEW p, p = ItemPlan(op, shown), NEW view, RematchReadBack(op, view)
  PROVE  view.of["match"] = p.effects["match"]
<1>1. p = ApplyRemoteSearch(op, shown)
  BY DEF ItemPlan
<1>2. p.effects["match"] = "wanted"
  BY <1>1 DEF ApplyRemoteSearch, Announced
<1> QED
  BY <1>2 DEF RematchReadBack

(* A request that is there already, or is not failed, is warned of         *)
(* (seerr/writes.ts:49-232).                                               *)
LEMMA RequestIsShown ==
  ASSUME NEW op, NEW view, NEW read, view.of = read,
         NEW p, p = RequestPlan(op, view), ~ p.refused,
         NEW T, NEW state, SameBut(T, read, state), "request" \in DOMAIN state,
         NEW after, after = RequestAfter(op, state)
  PROVE  /\ ShownBy(p, T, state, after)
         /\ T = {} => Happens(p, after)
<1>1. CASE op.tool = "create_request"
  <2>1. p = CreateRequest(op, view)
    BY <1>1 DEF RequestPlan
  <2>2. /\ DOMAIN p.effects = {"request"} /\ p.effects["request"] = "pending"
        /\ read["request"] # "none" => "request" \in p.warned
    BY <2>1 DEF CreateRequest, Announced
  <2>3. after = [state EXCEPT !["request"] = IF @ = "none" THEN "pending" ELSE @]
    BY <1>1 DEF RequestAfter
  <2> QED
    BY <2>2, <2>3 DEF ShownBy, Happens, SameBut
<1>2. CASE op.tool # "create_request"
  <2>1. p = RetryRequest(op, view)
    BY <1>2 DEF RequestPlan
  <2>2. /\ DOMAIN p.effects = {"request"} /\ p.effects["request"] = "pending"
        /\ read["request"] # "failed" => "request" \in p.warned
    BY <2>1 DEF RetryRequest, Announced
  <2>3. after = [state EXCEPT !["request"] = IF @ = "failed" THEN "pending" ELSE @]
    BY <1>2 DEF RequestAfter
  <2> QED
    BY <2>2, <2>3 DEF ShownBy, Happens, SameBut
<1> QED
  BY <1>1, <1>2

(* The things of the services a call is about are there.                   *)
StateOK(c, state) ==
  /\ c.family = "download" => QueueOK(state)
  /\ c.family = "library" => LibraryThings \subseteq DOMAIN state
  /\ c.family = "job" => JobThings \subseteq DOMAIN state
  /\ c.family = "item" => ItemThings \subseteq DOMAIN state
  /\ c.family = "request" => "request" \in DOMAIN state

(* What somebody else changed is closed under what it brings along, and is *)
(* never what an item is. Before the write is resolved nothing counts.     *)
TouchedOK ==
  /\ phase = "called" => touched = {} /\ svc \in Worlds(call)
  /\ Brings(touched)
  /\ "type" \notin touched

(* What was shown is a plan made from some read of some first state; until *)
(* the write is done, the services are in that state but for what somebody *)
(* else touched.                                                           *)
PlanOK ==
  phase \in {"shown", "accepted", "written"} =>
    \E read \in Worlds(call) : \E view \in Views(read) :
      /\ plan = Plan(view) /\ ~ plan.refused
      /\ phase # "written" => SameBut(touched, read, svc)

WriteInv ==
  /\ call \in Calls
  /\ StateOK(call, svc) /\ TouchedOK /\ PlanOK
  /\ phase # "told" => confirmed = FALSE

(* Whose call it is.                                                       *)
LEMMA CallKinds ==
  ASSUME NEW c \in Calls
  PROVE  \/ c.family = "download" /\ c.op \in DownloadOps /\ c.h \in Handlings
         \/ c.family = "library" /\ c.op \in LibraryOps
         \/ c.family = "job" /\ c.op \in JobOps
         \/ c.family = "item" /\ c.op \in ItemOps
         \/ c.family = "request" /\ c.op \in RequestOps
BY DEF Calls

(* The first states are states.                                            *)
LEMMA WorldsAreOK ==
  ASSUME NEW c \in Calls, NEW state \in Worlds(c)
  PROVE  StateOK(c, state)
<1>1. CASE c.family = "download"
  <2>1. state \in DownloadWorlds
    BY <1>1 DEF Worlds
  <2>2. PICK r \in {"free", "blocked"}, queue \in [Items -> {"listed", "absent"}] :
          state = DownloadWorld(r, queue)
    BY <2>1 DEF DownloadWorlds
  <2>3. DOMAIN state = Items \cup {"grab", "release", "pending release", "data", "search"}
    BY <2>2 DEF DownloadWorld, DownloadValues, QueueItems
  <2>4. state["release"] = r
    BY <2>2, <2>3 DEF DownloadWorld, Items
  <2>5. ASSUME NEW i \in Items PROVE state[i] = queue[i]
    BY <2>2, <2>3 DEF DownloadWorld, Items
  <2> QED
    BY <1>1, <2>3, <2>4, <2>5 DEF StateOK, QueueOK
<1>2. CASE c.family = "library"
  BY <1>2 DEF Worlds, LibraryWorlds, StateOK
<1>3. CASE c.family = "job"
  <2>1. state \in JobWorlds
    BY <1>3 DEF Worlds
  <2> QED
    BY <1>3, <2>1 DEF JobWorlds, StateOK, JobThings
<1>4. CASE c.family = "item"
  <2>1. state \in ItemWorlds
    BY <1>4 DEF Worlds
  <2> QED
    BY <1>4, <2>1 DEF ItemWorlds, StateOK, ItemThings
<1>5. CASE c.family = "request"
  <2>1. state \in RequestWorlds
    BY <1>5 DEF Worlds
  <2> QED
    BY <1>5, <2>1 DEF RequestWorlds, StateOK
<1> QED
  BY <1>1, <1>2, <1>3, <1>4, <1>5, CallKinds

(* Only the downloads may be read in part, and the list of a job.          *)
LEMMA ViewsRead ==
  ASSUME NEW state, NEW view \in Views(state)
  PROVE  /\ Reads(view, state)
         /\ call.family \notin {"download", "job"} => view.of = state
         /\ call.family = "job" =>
              view.of = state \/ (call.long /\ view.of = [state EXCEPT !["job"] = "gone"])
<1>1. ASSUME NEW of \in Unread(state)
      PROVE  /\ DOMAIN of = DOMAIN state
             /\ \A t \in DOMAIN state : of[t] \in {"listed", "blocked"} => state[t] = of[t]
  <2>1. PICK missed : of = [t \in DOMAIN state |->
            IF t \in missed THEN (IF t \in QueueItems THEN "absent" ELSE "free") ELSE state[t]]
    BY DEF Unread
  <2> QED
    BY <2>1
<1>2. CASE view = [of |-> state, whole |-> TRUE]
  BY <1>2 DEF Reads
<1>3. CASE call.family = "download" /\ view \in [of : Unread(state), whole : {FALSE}]
  BY <1>1, <1>3 DEF Reads
<1>4. CASE call.family = "library" /\ view \in [of : {state}, whole : {FALSE}]
  BY <1>4 DEF Reads
<1>5. CASE call.family = "job" /\ view \in [of : FindJob(state, call.long), whole : {FALSE}]
  <2>1. ~ view.whole
    BY <1>5
  <2>2. view.of = state \/ (call.long /\ view.of = [state EXCEPT !["job"] = "gone"])
    BY <1>5 DEF FindJob
  <2>3. Reads(view, state)
    BY <2>1, <2>2 DEF Reads
  <2> QED
    BY <1>5, <2>2, <2>3
<1> QED
  BY <1>2, <1>3, <1>4, <1>5 DEF Views

(* Writes keep the states what they are.                                   *)
LEMMA DownloadKeepsQueue ==
  ASSUME NEW op \in DownloadOps, NEW h, NEW state, QueueOK(state)
  PROVE  QueueOK(DownloadAfter(op, state, h))
<1> DEFINE after == DownloadAfter(op, state, h)
<1>1. CASE op.tool = "remove_queue_item"
  <2> DEFINE gone == {op.item} \cup (IF op.fromClient THEN Siblings(op.item) ELSE {})
             fails == op.blocklist /\ op.item \in FromDownload /\ ~ op.skip
  <2>1. after = [t \in DOMAIN state |->
         CASE t \in gone -> "absent"
           [] t = "data" /\ op.fromClient /\ op.item \in FromDownload -> "deleted"
           [] t = ReleaseOf(op.item) /\ op.blocklist -> "blocked"
           [] t = "search" /\ fails /\ Searches(h) -> "started"
           [] OTHER -> state[t]]
    BY <1>1 DEF DownloadAfter, QueueItemRemoved
  <2>2. op.item \in {"item 1", "pending"} /\ ReleaseOf(op.item) \in {"release", "pending release"}
    BY <1>1 DEF DownloadOps, ReleaseOf
  <2>3. gone \subseteq {"item 1", "item 2", "pending"}
    BY <2>2 DEF Siblings, FromDownload
  <2> HIDE DEF gone, fails, after
  <2>4. DOMAIN after = DOMAIN state
    BY <2>1
  <2>5. ASSUME NEW i \in Items PROVE after[i] \in {"absent", state[i]}
    BY <2>1, <2>2 DEF QueueOK, Items
  <2>6. after["release"] \in {"blocked", state["release"]}
    BY <2>1, <2>2, <2>3 DEF QueueOK
  <2>7. QueueOK(after)
    BY <2>4, <2>5, <2>6 DEF QueueOK
  <2> QED
    BY <2>7 DEF after
<1>2. CASE op.tool = "mark_history_failed"
  <2>1. after = [t \in DOMAIN state |->
     CASE t \in FromDownload -> "absent"
       [] t = "data" /\ Listed(state, FromDownload) # {} -> "deleted"
       [] t = "release" -> "blocked"
       [] t = "search" /\ Searches(h) -> "started"
       [] OTHER -> state[t]]
    BY <1>2 DEF DownloadAfter, HistoryMarkedFailed
  <2> HIDE DEF after
  <2>2. QueueOK(after)
    BY <2>1 DEF QueueOK, Items, FromDownload
  <2> QED
    BY <2>2 DEF after
<1>3. CASE op.tool = "delete_blocklist_entry"
  <2>1. after = [state EXCEPT !["release"] = "free"]
    BY <1>3 DEF DownloadAfter, BlocklistEntryDeleted
  <2> HIDE DEF after
  <2>2. QueueOK(after)
    BY <2>1 DEF QueueOK, Items
  <2> QED
    BY <2>2 DEF after
<1>4. CASE op.tool = "grab_release"
  <2>1. after = [state EXCEPT !["grab"] = "listed"]
    BY <1>4 DEF DownloadAfter, ReleaseGrabbed
  <2> HIDE DEF after
  <2>2. QueueOK(after)
    BY <2>1 DEF QueueOK, Items
  <2> QED
    BY <2>2 DEF after
<1> QED
  BY <1>1, <1>2, <1>3, <1>4 DEF DownloadOps

LEMMA LibraryKeepsThings ==
  ASSUME NEW op \in LibraryOps, NEW body, NEW state
  PROVE  DOMAIN LibraryAfter(op, body, state) = DOMAIN state
<1>1. CASE op.tool \in {"set_series_monitoring", "set_movie_monitoring"}
  BY <1>1 DEF LibraryAfter, RecordReplaced
<1>2. CASE op.tool = "set_episode_monitoring"
  BY <1>2 DEF LibraryAfter, EpisodesSet
<1>3. CASE op.tool = "delete_file"
  BY <1>3 DEF LibraryAfter, FileDeleted
<1>4. CASE op.tool = "auto_search"
  BY <1>4 DEF LibraryAfter, SearchRun
<1>5. CASE op.tool = "auto_search_movie"
  BY <1>5 DEF LibraryAfter, MovieSearchRun
<1>6. CASE op.tool = "manual_import"
  BY <1>6 DEF LibraryAfter, FilesImported
<1>7. CASE op.tool = "scan_import_folder"
  BY <1>7 DEF LibraryAfter, FolderScanned
<1>8. CASE op.tool = "run_command"
  BY <1>8 DEF LibraryAfter, CommandRun
<1>9. op.tool \in {"set_series_monitoring", "set_movie_monitoring", "set_episode_monitoring",
          "delete_file", "auto_search", "auto_search_movie", "manual_import",
          "scan_import_folder", "run_command"}
  BY DEF LibraryOps
<1> QED
  BY <1>1, <1>2, <1>3, <1>4, <1>5, <1>6, <1>7, <1>8, <1>9

LEMMA OthersKeepThings ==
  ASSUME NEW op, NEW state
  PROVE  /\ op \in JobOps => DOMAIN JobAfter(op, state) = DOMAIN state
         /\ DOMAIN ItemAfter(op, state) = DOMAIN state
         /\ DOMAIN RequestAfter(op, state) = DOMAIN state
<1>1. ASSUME op \in JobOps PROVE DOMAIN JobAfter(op, state) = DOMAIN state
  BY <1>1 DEF JobAfter, JobOps
<1>2. DOMAIN ItemAfter(op, state) = DOMAIN state
  BY DEF ItemAfter
<1>3. DOMAIN RequestAfter(op, state) = DOMAIN state
  BY DEF RequestAfter
<1> QED
  BY <1>1, <1>2, <1>3

(* What the review of a grab marked failed may miss                        *)
(* (arr/writes.ts:296-334).                                                *)
Excepted == IF call.op.tool = "mark_history_failed" THEN FromDownload \cup {"data"} ELSE {}

(* What is announced and need not happen (arr/writes.ts:304).              *)
Unsure == IF SearchForAnother THEN {"search"} ELSE {}

(* The write itself, of any tool: it was shown, and nothing else in        *)
(* between means that all of it happens.                                   *)
LEMMA WriteIsShown ==
  ASSUME WriteInv, phase \in {"shown", "accepted"}, NEW after, after = After
  PROVE  /\ ShownBy(plan, touched \cup Excepted, svc, after)
         /\ touched = {} => HappensBut(plan, Unsure, after)
         /\ StateOK(call, after)
<1>1. PICK read \in Worlds(call) : \E view \in Views(read) :
        plan = Plan(view) /\ ~ plan.refused /\ SameBut(touched, read, svc)
  BY DEF WriteInv, PlanOK
<1>2. PICK view \in Views(read) : plan = Plan(view) /\ ~ plan.refused /\ SameBut(touched, read, svc)
  BY <1>1
<1>3. /\ Reads(view, read)
      /\ call.family \notin {"download", "job"} => view.of = read
      /\ call.family = "job" =>
           view.of = read \/ (call.long /\ view.of = [read EXCEPT !["job"] = "gone"])
  BY ViewsRead
<1>4. StateOK(call, read) /\ StateOK(call, svc) /\ Brings(touched) /\ "type" \notin touched
  BY WorldsAreOK DEF WriteInv, TouchedOK
<1>5. /\ ShownBy(plan, touched, svc, after) => ShownBy(plan, touched \cup Excepted, svc, after)
      /\ Happens(plan, after) => HappensBut(plan, Unsure, after)
  BY DEF ShownBy, Happens, HappensBut
<1>6. CASE call.family = "download" /\ call.op \in DownloadOps /\ call.h \in Handlings
  <2>1. plan = DownloadPlan(call.op, view, call.h) /\ after = DownloadAfter(call.op, svc, call.h)
    BY <1>2, <1>6 DEF Plan, After
  <2>2. QueueOK(read) /\ QueueOK(svc)
    BY <1>4, <1>6 DEF StateOK
  <2>3. /\ ShownBy(plan, touched \cup
              (IF call.op.tool = "mark_history_failed" THEN FromDownload \cup {"data"} ELSE {}), svc, after)
        /\ touched = {} => HappensBut(plan, MayFail(call.op, call.h), after)
    BY <1>2, <1>3, <1>6, <2>1, <2>2, DownloadIsShown
  <2>4. QueueOK(after)
    BY <1>6, <2>1, <2>2, DownloadKeepsQueue
  <2>5. Unsure = MayFail(call.op, call.h)
    BY DEF Unsure, SearchForAnother, MayFail
  <2> QED
    BY <1>6, <2>3, <2>4, <2>5 DEF Excepted, StateOK
<1>7. CASE call.family = "library" /\ call.op \in LibraryOps
  <2>1. plan = LibraryPlan(call.op, view) /\ after = LibraryAfter(call.op, plan.body, svc)
    BY <1>2, <1>7 DEF Plan, After
  <2>2. LibraryThings \subseteq DOMAIN svc
    BY <1>4, <1>7 DEF StateOK
  <2>3. /\ ShownBy(plan, touched, svc, after)
        /\ touched = {} => Happens(plan, after)
    BY <1>2, <1>3, <1>4, <1>7, <2>1, <2>2, LibraryIsShown
  <2>4. DOMAIN after = DOMAIN svc
    BY <1>7, <2>1, LibraryKeepsThings
  <2> QED
    BY <1>5, <1>7, <2>2, <2>3, <2>4 DEF StateOK
<1>8. CASE call.family = "job" /\ call.op \in JobOps
  <2>1. plan = JobPlan(call.op, view) /\ after = JobAfter(call.op, svc)
    BY <1>2, <1>8 DEF Plan, After
  <2>2. JobThings \subseteq DOMAIN svc /\ JobThings \subseteq DOMAIN read
    BY <1>4, <1>8 DEF StateOK
  <2>a. view.of = read
    <3>1. view.of["job"] # "gone"
      BY <1>2, <1>8, <2>1, JobWasThere
    <3> QED
      BY <1>3, <1>8, <2>2, <3>1 DEF JobThings
  <2>3. /\ ShownBy(plan, touched, svc, after)
        /\ touched = {} => Happens(plan, after)
    BY <1>2, <1>8, <2>1, <2>2, <2>a, JobIsShown
  <2>4. DOMAIN after = DOMAIN svc
    BY <1>8, <2>1, OthersKeepThings
  <2> QED
    BY <1>5, <1>8, <2>2, <2>3, <2>4 DEF StateOK
<1>9. CASE call.family = "item" /\ call.op \in ItemOps
  <2>1. plan = ItemPlan(call.op, view) /\ after = ItemAfter(call.op, svc)
    BY <1>2, <1>9 DEF Plan, After
  <2>2. ItemThings \subseteq DOMAIN svc
    BY <1>4, <1>9 DEF StateOK
  <2>3. /\ ShownBy(plan, touched, svc, after)
        /\ Happens(plan, after)
    BY <1>2, <1>3, <1>4, <1>9, <2>1, <2>2, ItemIsShown
  <2>4. DOMAIN after = DOMAIN svc
    BY <2>1, OthersKeepThings
  <2> QED
    BY <1>5, <1>9, <2>2, <2>3, <2>4 DEF StateOK
<1>10. CASE call.family = "request" /\ call.op \in RequestOps
  <2>1. plan = RequestPlan(call.op, view) /\ after = RequestAfter(call.op, svc)
    BY <1>2, <1>10 DEF Plan, After
  <2>2. "request" \in DOMAIN svc
    BY <1>4, <1>10 DEF StateOK
  <2>3. /\ ShownBy(plan, touched, svc, after)
        /\ touched = {} => Happens(plan, after)
    BY <1>2, <1>3, <1>10, <2>1, <2>2, RequestIsShown
  <2>4. DOMAIN after = DOMAIN svc
    BY <2>1, OthersKeepThings
  <2> QED
    BY <1>5, <1>10, <2>2, <2>3, <2>4 DEF StateOK
<1> QED
  BY <1>6, <1>7, <1>8, <1>9, <1>10, CallKinds DEF WriteInv

-----------------------------------------------------------------------------
(* What a change brings along, and that this brings nothing more.          *)
LEMMA AlongIs ==
  ASSUME NEW t
  PROVE  /\ t \in Seasons => Along(t) = Follow({t}) \cup {Search(e) : e \in Follow({t})}
         /\ t \in Episodes => Along(t) = {Search(t)}
         /\ t \in FromDownload => Along(t) = {"data"}
         /\ t \notin Seasons \cup Episodes \cup FromDownload => Along(t) = {}
         /\ Follow({t}) \subseteq Episodes
         /\ \A e : Search(e) \in {"search 1", "search 2"}
BY DEF Along, Seasons, Episodes, FromDownload, Follow, Search

LEMMA AlongBrings ==
  ASSUME NEW t
  PROVE  Brings({t} \cup Along(t)) /\ "type" \notin Along(t)
<1>1. \A u \in {"search 1", "search 2", "data"} : Along(u) = {}
  BY AlongIs DEF Seasons, Episodes, FromDownload
<1>2. \A e \in Episodes : Along(e) = {Search(e)}
  BY AlongIs
<1>3. CASE t \in Seasons
  <2>1. Along(t) = Follow({t}) \cup {Search(e) : e \in Follow({t})}
    BY <1>3, AlongIs
  <2>2. ASSUME NEW u \in Along(t) PROVE Along(u) \subseteq Along(t)
    <3>1. CASE u \in Follow({t})
      <4>1. u \in Episodes
        BY <3>1 DEF Follow
      <4> QED
        BY <1>2, <2>1, <3>1, <4>1
    <3>2. CASE u \in {Search(e) : e \in Follow({t})}
      <4>1. u \in {"search 1", "search 2"}
        BY <3>2 DEF Search
      <4> QED
        BY <1>1, <4>1
    <3> QED
      BY <2>1, <3>1, <3>2
  <2>3. "type" \notin Along(t)
    BY <2>1, AlongIs DEF Episodes
  <2> QED
    BY <2>2, <2>3 DEF Brings
<1>4. CASE t \in Episodes
  <2>1. Along(t) = {Search(t)}
    BY <1>2, <1>4
  <2>2. Search(t) \in {"search 1", "search 2"}
    BY DEF Search
  <2> QED
    BY <1>1, <2>1, <2>2 DEF Brings
<1>5. CASE t \in FromDownload
  <2>1. Along(t) = {"data"}
    BY <1>5, AlongIs
  <2> QED
    BY <1>1, <2>1 DEF Brings
<1>6. CASE t \notin Seasons \cup Episodes \cup FromDownload
  <2>1. Along(t) = {}
    BY <1>6, AlongIs
  <2> QED
    BY <2>1 DEF Brings
<1> QED
  BY <1>3, <1>4, <1>5, <1>6

(* Somebody else's change counts as touched, with all it brings.           *)
LEMMA OutsideKeeps ==
  ASSUME WriteInv, Outside PROVE WriteInv'
<1>1. PICK t \in DOMAIN Values :
        /\ \E v \in Values[t] \ {svc[t]} :
             svc' = [s \in DOMAIN svc |-> IF s = t \/ (t \in Seasons /\ s \in Follow({t})) THEN v ELSE svc[s]]
        /\ touched' = touched \cup {t} \cup Along(t)
  BY DEF Outside
<1>2. PICK v \in Values[t] :
        svc' = [s \in DOMAIN svc |-> IF s = t \/ (t \in Seasons /\ s \in Follow({t})) THEN v ELSE svc[s]]
  BY <1>1
<1>3. phase \in {"shown", "accepted", "written"} /\ UNCHANGED <<call, phase, plan, confirmed>>
  BY DEF Outside
<1>4. DOMAIN svc' = DOMAIN svc
  BY <1>2
<1>5. StateOK(call, svc)'
  <2>1. CASE call.family = "download"
    <3>1. /\ t \in Items \cup {"grab", "release", "pending release", "data", "search"}
          /\ Values = DownloadValues
      BY <1>1, <2>1 DEF Values, DownloadValues, QueueItems
    <3>2. t \notin Seasons
      BY <3>1 DEF Items, Seasons
    <3>3. /\ t \in Items => v \in {"listed", "absent"}
          /\ t = "release" => v \in {"free", "blocked"}
      BY <3>1, <1>2 DEF DownloadValues, QueueItems, Items
    <3>4. QueueOK(svc)
      BY <2>1 DEF WriteInv, StateOK
    <3>5. QueueOK(svc')
      <4>1. \A s \in DOMAIN svc : svc'[s] = IF s = t THEN v ELSE svc[s]
        BY <1>2, <3>2
      <4> QED
        BY <1>4, <3>3, <3>4, <4>1 DEF QueueOK
    <3> QED
      BY <1>3, <2>1, <3>5 DEF StateOK
  <2>2. CASE call.family # "download"
    BY <1>3, <1>4, <2>2 DEF WriteInv, StateOK
  <2> QED
    BY <2>1, <2>2
<1>6. TouchedOK'
  <2>1. "type" # t
    <3>1. CASE call.family = "download"
      BY <1>1, <3>1 DEF Values, DownloadValues, QueueItems, Items
    <3>2. CASE call.family = "library"
      BY <1>1, <3>2 DEF Values, LibraryValues, LibraryThings, Seasons, Episodes, Imports,
                          CommandThings, OtherFields
    <3>3. CASE call.family = "job"
      BY <1>1, <3>3 DEF Values, JobValues
    <3>4. CASE call.family = "item"
      BY <1>1, <3>4 DEF Values, ItemValues
    <3>5. CASE call.family = "request"
      BY <1>1, <3>5 DEF Values, RequestValues
    <3> QED
      BY <3>1, <3>2, <3>3, <3>4, <3>5, CallKinds DEF WriteInv
  <2>2. Brings(touched) /\ "type" \notin touched
    BY DEF WriteInv, TouchedOK
  <2>3. Brings({t} \cup Along(t)) /\ "type" \notin Along(t)
    BY AlongBrings
  <2>4. Brings(touched') /\ "type" \notin touched'
    BY <1>1, <2>1, <2>2, <2>3 DEF Brings
  <2> QED
    BY <1>3, <2>4 DEF TouchedOK, Brings
<1>7. PlanOK'
  <2>1. PICK read \in Worlds(call) : \E view \in Views(read) :
          /\ plan = Plan(view) /\ ~ plan.refused
          /\ phase # "written" => SameBut(touched, read, svc)
    BY <1>3 DEF WriteInv, PlanOK
  <2>2. ASSUME SameBut(touched, read, svc)
        PROVE  SameBut(touched', read, svc')
    <3>1. t \in Seasons => Follow({t}) \subseteq Along(t)
      BY AlongIs
    <3>2. \A s \in DOMAIN svc : svc'[s] # svc[s] => s \in touched'
      BY <1>1, <1>2, <3>1
    <3> QED
      BY <1>1, <1>4, <2>2, <3>2 DEF SameBut
  <2> QED
    BY <1>3, <2>1, <2>2 DEF PlanOK, Worlds, Views, Plan
<1> QED
  BY <1>3, <1>5, <1>6, <1>7 DEF WriteInv

(* Every step of a write call keeps the invariant                          *)
(* (tools/writes.ts:115-252).                                              *)
LEMMA WriteStep == WriteInv /\ [ServiceNext]_serviceVars => WriteInv'
<1> SUFFICES ASSUME WriteInv, [ServiceNext]_serviceVars PROVE WriteInv'
  OBVIOUS
<1>1. CASE Resolves
  <2>1. PICK view \in Views(svc) : plan' = Plan(view)
    BY <1>1 DEF Resolves
  <2>2. /\ phase = "called" /\ UNCHANGED <<call, svc, touched, confirmed>>
        /\ phase' \in {"refused", "shown"}
        /\ phase' = "shown" => ~ plan'.refused
    BY <1>1 DEF Resolves
  <2>3. svc \in Worlds(call) /\ touched = {}
    BY <2>2 DEF WriteInv, TouchedOK
  <2>4. Plan(view)' = Plan(view) /\ Views(svc)' = Views(svc) /\ Worlds(call)' = Worlds(call)
    BY <2>2 DEF Plan, Views, Worlds
  <2>5. SameBut(touched, svc, svc)'
    BY DEF SameBut
  <2>6. PlanOK'
    BY <2>1, <2>2, <2>3, <2>4, <2>5 DEF PlanOK
  <2> QED
    BY <2>2, <2>6 DEF WriteInv, TouchedOK, StateOK
<1>2. CASE Outside
  BY <1>2, OutsideKeeps
<1>3. CASE Writes
  <2>1. phase = "shown" /\ UNCHANGED <<call, plan, touched, confirmed>>
    BY <1>3 DEF Writes
  <2>2. CASE phase' \in {"rejected", "accepted"} /\ svc' = svc
    <3>1. PlanOK'
      BY <2>1, <2>2 DEF WriteInv, PlanOK, Worlds, Views, Plan
    <3> QED
      BY <2>1, <2>2, <3>1 DEF WriteInv, TouchedOK, StateOK
  <2>3. CASE phase' = "written" /\ svc' = After
    <3>1. StateOK(call, svc')
      BY <2>1, <2>3, WriteIsShown
    <3>2. PlanOK'
      BY <2>1, <2>3 DEF WriteInv, PlanOK, Worlds, Views, Plan
    <3> QED
      BY <2>1, <2>3, <3>1, <3>2 DEF WriteInv, TouchedOK, StateOK
  <2> QED
    BY <1>3, <2>2, <2>3 DEF Writes
<1>4. CASE Runs
  <2>1. phase = "accepted" /\ phase' = "written" /\ svc' = After
        /\ UNCHANGED <<call, plan, touched, confirmed>>
    BY <1>4 DEF Runs
  <2>2. StateOK(call, svc')
    BY <2>1, WriteIsShown
  <2>3. PlanOK'
    BY <2>1 DEF WriteInv, PlanOK, Worlds, Views, Plan
  <2> QED
    BY <2>1, <2>2, <2>3 DEF WriteInv, TouchedOK, StateOK
<1>5. CASE Verifies
  BY <1>5 DEF Verifies, WriteInv, TouchedOK, StateOK, PlanOK
<1>6. CASE UNCHANGED serviceVars
  BY <1>6 DEF serviceVars, WriteInv, TouchedOK, StateOK, PlanOK, Worlds, Views, Plan
<1> QED
  BY <1>1, <1>2, <1>3, <1>4, <1>5, <1>6 DEF ServiceNext

(* For any number of things others change: a write goes out on a plan that *)
(* somebody was shown (tools/writes.ts:139-213).                           *)
THEOREM WriteInvariant == ServiceInit /\ [][ServiceNext]_serviceVars => []WriteInv
<1>1. ServiceInit => WriteInv
  <2> SUFFICES ASSUME ServiceInit PROVE WriteInv
    OBVIOUS
  <2>1. StateOK(call, svc)
    BY WorldsAreOK DEF ServiceInit
  <2> QED
    BY <2>1 DEF ServiceInit, WriteInv, TouchedOK, PlanOK, Brings
<1> QED
  BY <1>1, WriteStep, PTL

(* For any number of things others change: a write changes only what its   *)
(* review announced or warned of, or what somebody else changed since it   *)
(* was read, but for what mark_history_failed leaves out                   *)
(* (tools/writes.ts:181-213, arr/writes.ts:296-334).                       *)
THEOREM ShownBeforeDone == ServiceInit /\ [][ServiceNext]_serviceVars => ChangesWereShown
<1> DEFINE Sound ==
      ServiceActs =>
       \A t \in DOMAIN svc : svc'[t] # svc[t] =>
         \/ t \in DOMAIN plan.effects /\ svc'[t] = plan.effects[t]
         \/ t \in plan.warned \/ t \in touched
         \/ call.op.tool = "mark_history_failed" /\ t \in FromDownload \cup {"data"}
<1>1. WriteInv /\ [ServiceNext]_serviceVars => [Sound]_serviceVars
  <2> SUFFICES ASSUME WriteInv, ServiceNext, ServiceActs PROVE Sound
    OBVIOUS
  <2>1. phase \in {"shown", "accepted"} /\ svc' = After
    BY DEF ServiceActs, ServiceNext, Resolves, Outside, Writes, Runs, Verifies
  <2>2. ShownBy(plan, touched \cup Excepted, svc, svc')
    BY <2>1, WriteIsShown
  <2> QED
    BY <2>2 DEF ShownBy, Excepted
<1> QED
  BY <1>1, WriteInvariant, PTL DEF ChangesWereShown

(* What a review announces and does not warn of happens, if nobody else    *)
(* gets in between, but for the search announced for a record that is not   *)
(* the grab (arr/writes.ts:45-51, 304, sonarr/writes.ts:66-70).            *)
THEOREM AnnouncedHappens == ServiceInit /\ [][ServiceNext]_serviceVars => EffectsHappen
<1> DEFINE Sound ==
      ServiceActs /\ touched = {} =>
        \A t \in DOMAIN plan.effects \ plan.warned :
          svc'[t] = plan.effects[t] \/ (t = "search" /\ SearchForAnother)
<1>1. WriteInv /\ [ServiceNext]_serviceVars => [Sound]_serviceVars
  <2> SUFFICES ASSUME WriteInv, ServiceNext, ServiceActs, touched = {} PROVE Sound
    OBVIOUS
  <2>1. phase \in {"shown", "accepted"} /\ svc' = After
    BY DEF ServiceActs, ServiceNext, Resolves, Outside, Writes, Runs, Verifies
  <2>2. HappensBut(plan, Unsure, svc')
    BY <2>1, WriteIsShown
  <2> QED
    BY <2>2 DEF HappensBut, Unsure
<1> QED
  BY <1>1, WriteInvariant, PTL DEF EffectsHappen

(* A read-back is a yes or a no.                                           *)
LEMMA ReadBackSays ==
  ASSUME WriteInv, NEW view PROVE ReadsBack(view) \in BOOLEAN
<1>1. CASE call.family = "download" /\ call.op \in DownloadOps
  <2>1. DownloadConfirmed(call.op, view) \in BOOLEAN
    BY <1>1 DEF DownloadConfirmed, RemovalConfirmed, MarkConfirmed, EntryConfirmed, GrabConfirmed, DownloadOps
  <2> QED
    BY <1>1, <2>1 DEF ReadsBack
<1>2. CASE call.family = "library" /\ call.op \in LibraryOps
  <2>1. LibraryConfirmed(call.op, plan.body, view) \in BOOLEAN
    BY <1>2 DEF LibraryConfirmed, MonitoringReadBack, EpisodesReadBack, VerifyDeleted, Commands, LibraryOps
  <2> QED
    BY <1>2, <2>1 DEF ReadsBack
<1>3. CASE call.family = "job" /\ call.op \in JobOps
  <2>1. VerifyJob(call.op, view) \in BOOLEAN
    <3>1. CASE call.op.tool = "retry_job"
      BY <3>1 DEF VerifyJob
    <3>2. CASE call.op.tool = "pause_job"
      BY <3>2 DEF VerifyJob
    <3>3. CASE call.op.tool = "resume_job"
      BY <3>3 DEF VerifyJob
    <3>4. CASE call.op.tool = "set_priority"
      BY <3>4 DEF VerifyJob
    <3>5. CASE call.op.tool = "change_category"
      BY <3>5 DEF VerifyJob
    <3>6. CASE call.op.tool = "delete_job"
      BY <3>6 DEF VerifyJob
    <3> QED
      BY <1>3, <3>1, <3>2, <3>3, <3>4, <3>5, <3>6 DEF JobOps
  <2> QED
    BY <1>3, <2>1 DEF ReadsBack
<1>4. CASE call.family = "item"
  BY <1>4 DEF ReadsBack
<1>5. CASE call.family = "request"
  BY <1>5 DEF ReadsBack
<1> QED
  BY <1>1, <1>2, <1>3, <1>4, <1>5, CallKinds DEF WriteInv

(* Whatever happened in between, what is read back is so now, but for the   *)
(* two lists that do not tell (arr/writes.ts:485-487, sabnzbd/jobs.ts:95-101). *)
LEMMA ReadBackIsSo ==
  ASSUME WriteInv, phase \in {"accepted", "written"}, NEW view \in Views(svc), ReadsBack(view)
  PROVE  Claim \/ CutJobs \/ TitleTaken
<1>1. PICK shown : plan = Plan(shown)
  BY DEF WriteInv, PlanOK
<1>2. /\ Reads(view, svc)
      /\ call.family \notin {"download", "job"} => view.of = svc
      /\ call.family = "job" => view.of = svc \/ (call.long /\ view.of = [svc EXCEPT !["job"] = "gone"])
  BY ViewsRead
<1>3. CASE call.family = "download" /\ call.op \in DownloadOps
  <2>1. /\ plan = DownloadPlan(call.op, shown, call.h)
        /\ DownloadConfirmed(call.op, view)
        /\ Confirms = {DownloadSubject(call.op)}
    <3>1. plan = DownloadPlan(call.op, shown, call.h)
      BY <1>1, <1>3 DEF Plan
    <3>2. DownloadConfirmed(call.op, view)
      BY <1>3 DEF ReadsBack
    <3>3. Confirms = {DownloadSubject(call.op)}
      BY <1>3 DEF Confirms, DownloadOps
    <3> QED
      BY <3>1, <3>2, <3>3
  <2>2. QueueOK(svc)
    BY <1>3 DEF WriteInv, StateOK
  <2>3. \/ svc[DownloadSubject(call.op)] = plan.effects[DownloadSubject(call.op)]
        \/ call.op.tool = "grab_release" /\ \E i \in Namesakes(call.op) : svc[i] = "listed"
    BY <1>2, <1>3, <2>1, <2>2, DownloadConfirms
  <2>4. call.op.tool \notin {"retry_job", "delete_job"} \cup Monitoring
    BY <1>3 DEF DownloadOps, Monitoring
  <2>5. Claim = (\A t \in Confirms : svc[t] = plan.effects[t])
    BY <2>4 DEF Claim
  <2> QED
    BY <2>1, <2>3, <2>5 DEF TitleTaken
<1>4. CASE call.family = "library" /\ call.op \in LibraryOps
  <2>1. plan = LibraryPlan(call.op, shown) /\ LibraryConfirmed(call.op, plan.body, view)
    BY <1>1, <1>4 DEF Plan, ReadsBack
  <2>2. SaidBack(call.op, plan, view.of)
    <3>1. ASSUME NEW op \in LibraryOps, NEW p, p = LibraryPlan(op, shown),
                 LibraryConfirmed(op, p.body, view)
          PROVE  SaidBack(op, p, view.of)
      BY <3>1, LibraryConfirms
    <3> QED
      BY <1>4, <2>1, <3>1
  <2>3. Confirms = DOMAIN plan.effects /\ call.op.tool \notin {"retry_job", "delete_job"}
    BY <1>4 DEF Confirms, LibraryOps
  <2>4. view.of = svc
    BY <1>2, <1>4
  <2> QED
    BY <2>2, <2>3, <2>4 DEF Claim, SaidBack
<1>5. CASE call.family = "job" /\ call.op \in JobOps /\ call.op.tool \notin {"retry_job", "delete_job"}
  <2>1. plan = JobPlan(call.op, shown) /\ VerifyJob(call.op, view) /\ Confirms = DOMAIN plan.effects
    BY <1>1, <1>5 DEF Plan, ReadsBack, Confirms
  <2>2. \A t \in DOMAIN plan.effects : view.of[t] = plan.effects[t]
    BY <1>5, <2>1, JobConfirms
  <2>3. view.of = svc
    <3>1. view.of["job"] # "gone" /\ "job" \in DOMAIN svc
      BY <1>5, <2>1, JobConfirms DEF WriteInv, StateOK, JobThings
    <3> QED
      BY <1>2, <1>5, <3>1
  <2>4. call.op.tool \notin Monitoring
    BY <1>5 DEF JobOps, Monitoring
  <2> QED
    BY <1>5, <2>1, <2>2, <2>3, <2>4 DEF Claim
<1>6. CASE call.family = "job" /\ call.op.tool \in {"retry_job", "delete_job"}
  <2>1. VerifyJob(call.op, view)
    BY <1>6 DEF ReadsBack
  <2>2. CASE view.of = svc
    BY <1>6, <2>1, <2>2 DEF VerifyJob, Claim
  <2>3. CASE call.long
    BY <1>6, <2>3 DEF CutJobs
  <2> QED
    BY <1>2, <1>6, <2>2, <2>3
<1>7. CASE call.family = "item" /\ call.op \in ItemOps
  <2>1. /\ plan = ItemPlan(call.op, shown)
        /\ call.op.tool = "apply_remote_search" /\ RematchReadBack(call.op, view)
        /\ Confirms = {"match"}
    BY <1>1, <1>7 DEF Plan, ReadsBack, Confirms
  <2>2. view.of["match"] = plan.effects["match"]
    BY <2>1, ItemConfirms
  <2>3. Claim = (\A t \in Confirms : svc[t] = plan.effects[t])
    BY <2>1 DEF Claim, Monitoring
  <2> QED
    BY <1>2, <1>7, <2>1, <2>2, <2>3
<1>8. CASE call.family = "request"
  BY <1>8 DEF ReadsBack
<1> QED
  BY <1>3, <1>4, <1>5, <1>6, <1>7, <1>8, CallKinds DEF WriteInv

(* For any number of things others change: "confirmed" is the truth when   *)
(* it is said, but for a SABnzbd list that was cut and a grab whose title    *)
(* another item has (arr/writes.ts:253-271, 402-418, 482-506;               *)
(* arr/monitoring.ts:50-75; sabnzbd/jobs.ts:95-101).                       *)
THEOREM ConfirmedWasSo == ServiceInit /\ [][ServiceNext]_serviceVars => ConfirmedIsSo
<1> DEFINE Sound == confirmed' # confirmed => Claim \/ CutJobs \/ TitleTaken
<1>1. WriteInv /\ [ServiceNext]_serviceVars => [Sound]_serviceVars
  <2> SUFFICES ASSUME WriteInv, ServiceNext, confirmed' # confirmed PROVE Sound
    OBVIOUS
  <2>1. /\ phase \in {"accepted", "written"}
        /\ \E view \in Views(svc) : confirmed' = ReadsBack(view)
    BY DEF ServiceNext, Resolves, Outside, Writes, Runs, Verifies
  <2>2. PICK view \in Views(svc) : confirmed' = ReadsBack(view)
    BY <2>1
  <2>3. confirmed = FALSE
    BY <2>1 DEF WriteInv
  <2>4. ReadsBack(view)
    BY <2>2, <2>3, ReadBackSays
  <2> QED
    BY <2>1, <2>4, ReadBackIsSo
<1> QED
  BY <1>1, WriteInvariant, PTL DEF ConfirmedIsSo
=============================================================================
