--------------------------- MODULE JobStoreProofs ---------------------------
(***************************************************************************)
(* The journal's safety for every set of jobs, action keys and results.    *)
(* "At most once" is not inductive: it needs that an effect in flight or   *)
(* already seen by the outside has a row, and that an effect just started  *)
(* has not been seen yet.                                                  *)
(***************************************************************************)
EXTENDS JobStore, TLAPS

(* One action of one job: what its row, its call and its count agree on.   *)
LedgerOK(j, k) ==
  /\ call[j][k] # "none" => row[j][k] = Intent
  /\ call[j][k] = "landed" => landed[j][k] > 0
  /\ row[j][k] = NoRow => landed[j][k] = 0
  /\ Recorded(j, k) => landed[j][k] > 0
  /\ k \notin ReplaySafe =>
       /\ landed[j][k] <= 1
       /\ call[j][k] = "sent" => landed[j][k] = 0

JournalInv == JournalTypeOK /\ \A j \in Job, k \in Key : LedgerOK(j, k)

LEMMA JournalInvInit == JournalInit => JournalInv
  BY JournalAssumption
  DEF JournalInit, JournalInv, JournalTypeOK, LedgerOK, Recorded, Unfinished, Open, Ended

(* A step on one action leaves every other action's ledger alone. *)
LEMMA ActionKeepsInv ==
  ASSUME JournalInv, NEW j \in Job, NEW k \in Key, ActionStep(j, k)
  PROVE  JournalInv'
<1> USE JournalAssumption DEF JournalInv
<1>1. CASE BeginAction(j, k)
  <2>1. JournalTypeOK'
    BY <1>1 DEF BeginAction, JournalTypeOK
  <2>2. LedgerOK(j, k)'
    BY <1>1 DEF BeginAction, JournalTypeOK, LedgerOK, Recorded, Replays, Uncertain
  <2>3. ASSUME NEW i \in Job, NEW m \in Key, <<i, m>> # <<j, k>>
        PROVE  LedgerOK(i, m)'
    BY <1>1, <2>3 DEF BeginAction, JournalTypeOK, LedgerOK, Recorded
  <2> QED
    BY <2>1, <2>2, <2>3
<1>2. CASE LandAction(j, k)
  <2>1. JournalTypeOK'
    BY <1>2 DEF LandAction, JournalTypeOK
  <2>2. LedgerOK(j, k)'
    BY <1>2 DEF LandAction, JournalTypeOK, LedgerOK, Recorded
  <2>3. ASSUME NEW i \in Job, NEW m \in Key, <<i, m>> # <<j, k>>
        PROVE  LedgerOK(i, m)'
    BY <1>2, <2>3 DEF LandAction, JournalTypeOK, LedgerOK, Recorded
  <2> QED
    BY <2>1, <2>2, <2>3
<1>3. ASSUME NEW v \in Value, RecordAction(j, k, v)
      PROVE  JournalInv'
  <2>1. JournalTypeOK'
    BY <1>3 DEF RecordAction, JournalTypeOK
  <2>2. LedgerOK(j, k)'
    BY <1>3 DEF RecordAction, JournalTypeOK, LedgerOK, Recorded
  <2>3. ASSUME NEW i \in Job, NEW m \in Key, <<i, m>> # <<j, k>>
        PROVE  LedgerOK(i, m)'
    BY <1>3, <2>3 DEF RecordAction, JournalTypeOK, LedgerOK, Recorded
  <2> QED
    BY <2>1, <2>2, <2>3
<1>4. CASE FailAction(j, k)
  <2>1. JournalTypeOK'
    BY <1>4 DEF FailAction, JournalTypeOK
  <2>2. LedgerOK(j, k)'
    BY <1>4 DEF FailAction, JournalTypeOK, LedgerOK, Recorded
  <2>3. ASSUME NEW i \in Job, NEW m \in Key, <<i, m>> # <<j, k>>
        PROVE  LedgerOK(i, m)'
    BY <1>4, <2>3 DEF FailAction, JournalTypeOK, LedgerOK, Recorded
  <2> QED
    BY <2>1, <2>2, <2>3
<1> QED
  BY <1>1, <1>2, <1>3, <1>4 DEF ActionStep

LEMMA JournalInvStep == JournalInv /\ [JournalNext]_jvars => JournalInv'
<1> SUFFICES ASSUME JournalInv, [JournalNext]_jvars PROVE JournalInv'
  OBVIOUS
<1>1. ASSUME NEW j \in Job, JobStep(j)
      PROVE  JournalInv'
  <2>1. UNCHANGED <<row, call, landed>>
    BY <1>1 DEF JobStep, Create, MarkRunning, MarkCompleted, MarkFailed,
                RequestCancel, MarkCancelled, Mark
  <2>2. status' \in [Job -> {"absent"} \cup Unfinished \cup Ended]
    BY <1>1 DEF JobStep, Create, MarkRunning, MarkCompleted, MarkFailed,
                RequestCancel, MarkCancelled, Mark, JournalInv, JournalTypeOK,
                Unfinished, Open, Ended
  <2> QED
    BY <2>1, <2>2 DEF JournalInv, JournalTypeOK, LedgerOK, Recorded
<1>2. ASSUME NEW j \in Job, NEW k \in Key, ActionStep(j, k)
      PROVE  JournalInv'
  BY <1>2, ActionKeepsInv
<1>3. CASE LoseCalls
  BY <1>3 DEF LoseCalls, JournalInv, JournalTypeOK, LedgerOK, Recorded
<1>4. CASE UNCHANGED jvars
  BY <1>4 DEF jvars, JournalInv, JournalTypeOK, LedgerOK, Recorded
<1> QED
  BY <1>1, <1>2, <1>3, <1>4 DEF JournalNext

THEOREM JournalInvariant == JournalSpec => []JournalInv
  BY JournalInvInit, JournalInvStep, PTL DEF JournalSpec

(* No action that may not repeat reaches the outside twice, across every   *)
(* crash, restart and retry (jobs.ts:146-191).                             *)
THEOREM AtMostOnce == JournalSpec => []EffectAtMostOnce
<1>1. JournalInv => EffectAtMostOnce
  BY DEF JournalInv, LedgerOK, EffectAtMostOnce
<1> QED
  BY <1>1, JournalInvariant, PTL

(* A result is recorded only for what happened, and what happened has a    *)
(* row (jobs.ts:171-191).                                                  *)
THEOREM HonestJournal == JournalSpec => []JournalIsHonest
<1>1. JournalInv => JournalIsHonest
  <2> SUFFICES ASSUME JournalInv, NEW j \in Job, NEW k \in Key
               PROVE  /\ Recorded(j, k) => landed[j][k] > 0
                      /\ landed[j][k] > 0 => row[j][k] # NoRow
    BY DEF JournalIsHonest
  <2>1. LedgerOK(j, k) /\ landed[j][k] \in Nat
    BY DEF JournalInv, JournalTypeOK
  <2> QED
    BY <2>1 DEF LedgerOK
<1> QED
  BY <1>1, JournalInvariant, PTL

(* A recorded result never changes (jobs.ts:158-162). *)
THEOREM FinalResults == JournalSpec => ResultIsFinal
<1> DEFINE Final == \A j \in Job, k \in Key :
                      Recorded(j, k) => row'[j][k] = row[j][k]
<1>1. JournalInv /\ [JournalNext]_jvars => [Final]_jvars
  <2> SUFFICES ASSUME JournalInv, JournalNext, NEW i \in Job, NEW m \in Key,
                      Recorded(i, m)
               PROVE  row'[i][m] = row[i][m]
    OBVIOUS
  <2>1. row \in [Job -> [Key -> Value \cup {NoRow, Intent}]] /\ LedgerOK(i, m)
    BY DEF JournalInv, JournalTypeOK
  <2>2. row[i][m] # Intent
    BY JournalAssumption DEF Recorded
  <2>3. ASSUME NEW j \in Job, JobStep(j)
        PROVE  row' = row
    BY <2>3 DEF JobStep, Create, MarkRunning, MarkCompleted, MarkFailed,
                RequestCancel, MarkCancelled, Mark
  <2>4. ASSUME NEW j \in Job, NEW k \in Key, BeginAction(j, k)
        PROVE  row'[i][m] = row[i][m]
    BY <2>1, <2>4 DEF BeginAction, Replays
  <2>5. ASSUME NEW j \in Job, NEW k \in Key, NEW v \in Value, RecordAction(j, k, v)
        PROVE  row'[i][m] = row[i][m]
    BY <2>1, <2>2, <2>5 DEF RecordAction, LedgerOK
  <2>6. ASSUME NEW j \in Job, NEW k \in Key, LandAction(j, k) \/ FailAction(j, k)
        PROVE  row' = row
    BY <2>6 DEF LandAction, FailAction
  <2>7. LoseCalls => row' = row
    BY DEF LoseCalls
  <2> QED
    BY <2>3, <2>4, <2>5, <2>6, <2>7 DEF JournalNext, ActionStep
<1> QED
  BY <1>1, JournalInvariant, PTL DEF JournalSpec, ResultIsFinal

(* An ended job stays as it ended, and a cancelling job can end only as    *)
(* cancelled (jobs.ts:93-116).                                             *)
THEOREM FinalEnds == JournalSpec => EndIsFinal
<1> DEFINE Final == \A j \in Job :
             /\ status[j] \in Ended => status'[j] = status[j]
             /\ status[j] = "cancelling" => status'[j] \in {"cancelling", "cancelled"}
<1>1. JournalInv /\ [JournalNext]_jvars => [Final]_jvars
  <2> SUFFICES ASSUME JournalInv, JournalNext
               PROVE  Final
    OBVIOUS
  <2>1. status \in [Job -> {"absent"} \cup Unfinished \cup Ended]
    BY DEF JournalInv, JournalTypeOK
  <2>2. ASSUME NEW j \in Job, JobStep(j)
        PROVE  Final
    BY <2>1, <2>2 DEF JobStep, Create, MarkRunning, MarkCompleted, MarkFailed,
                      RequestCancel, MarkCancelled, Mark, Unfinished, Open, Ended
  <2>3. ASSUME NEW j \in Job, NEW k \in Key, ActionStep(j, k)
        PROVE  status' = status
    BY <2>3 DEF ActionStep, BeginAction, LandAction, RecordAction, FailAction
  <2>4. LoseCalls => status' = status
    BY DEF LoseCalls
  <2> QED
    BY <2>2, <2>3, <2>4 DEF JournalNext
<1> QED
  BY <1>1, JournalInvariant, PTL DEF JournalSpec, EndIsFinal
=============================================================================
