----------------------------- MODULE HostProofs -----------------------------
(***************************************************************************)
(* What the host process keeps to from boot to exit (HostLifecycle), and    *)
(* what its queue tells a new task (QueueAhead), for any messages, threads, *)
(* starts and slots. The two have no variable in common.                   *)
(***************************************************************************)
EXTENDS HostLifecycle, QueueAhead, ThreadQueueProofs

-----------------------------------------------------------------------------
(* Where an admission is, and which stages of the process take work, close   *)
(* and have no process.                                                    *)
Place == {"unsent", "gone"} \cup Active
PastLatch == Active \ {"held"}
Running == {"listening", "restoring", "serving", "unlistening"}
Closing == {"draining", "closing"}
Over == {"down", "exited"}

HostTypeOK ==
  /\ at \in [Message -> Place]
  /\ job \in [Message -> {"none", "queued", "running", "ended"}]
  /\ link \in [Listener -> {"off", "connecting", "auditing", "listening"}]
  /\ inQueue \subseteq Message
  /\ stage \in Running \cup Closing \cup Over
  /\ opened \in BOOLEAN /\ queueOpen \in BOOLEAN
  /\ deadline \in BOOLEAN /\ journalOpen \in BOOLEAN

(* The journal, the queue and admission are open by the stage of the        *)
(* process; a journal is closed only once nothing is in the queue.          *)
StageOK ==
  /\ queueOpen <=> stage \in Running
  /\ opened <=> stage \in {"serving", "unlistening"} \cup Closing
  /\ stage \in Running \cup {"draining"} => journalOpen
  /\ ~ journalOpen => inQueue = {}

(* An admission is past the latch only while it is open. After the queue    *)
(* closed, no admission is left unless the shutdown ran out of time.        *)
AdmissionsOK ==
  /\ \A m \in Message : at[m] \in PastLatch => opened
  /\ stage \in Closing /\ ~ deadline => Unlistened

HostInv == HostTypeOK /\ StageOK /\ AdmissionsOK

-----------------------------------------------------------------------------
(* What a step leaves in the queue and the journal: nothing new, or the run *)
(* of one message (chat-admission.ts:329-349, server.ts:39-71).             *)
MaySubmit(m) ==
  \/ UNCHANGED queueVars
  \/ /\ queueOpen /\ opened
     /\ job' = [job EXCEPT ![m] = "queued"]
     /\ inQueue' = inQueue \cup {m}

LEMMA SubmitsMay ==
  ASSUME NEW m, opened, Submits(m) PROVE MaySubmit(m)
BY DEF Submits, MaySubmit, queueVars

(* A message whose place is known, and one that passes the latch: either is *)
(* dropped, moves on to its next await, or is submitted.                   *)
LEMMA PlacedGoes ==
  ASSUME NEW m \in Message, opened, NEW place, Placed(m, place)
  PROVE  /\ \E p \in Place \ {"unsent"} : at' = [at EXCEPT ![m] = p]
         /\ MaySubmit(m)
BY SubmitsMay DEF Placed, Goes, Place, Active, Interruptible, MaySubmit

LEMMA TakesGoes ==
  ASSUME NEW m \in Message, opened, Takes(m)
  PROVE  /\ \E p \in Place \ {"unsent"} : at' = [at EXCEPT ![m] = p]
         /\ MaySubmit(m)
BY PlacedGoes DEF Takes, Goes, Place, Active, Interruptible, MaySubmit

(* One step of an admission moves that one message, and past the latch only *)
(* while it is open. It is a message a listener brings or one already       *)
(* admitted.                                                               *)
LEMMA ChatMoves ==
  ASSUME HostInv, NEW m \in Message, Chat(m)
  PROVE  /\ MaySubmit(m)
         /\ \/ UNCHANGED at
            \/ /\ at[m] \in Active \/ (at[m] = "unsent" /\ link[gateway[m]] # "off")
               /\ \E p \in Place \ {"unsent"} :
                    /\ at' = [at EXCEPT ![m] = p]
                    /\ p \in PastLatch => opened
<1>0. at[m] \in PastLatch => opened
  BY DEF HostInv, AdmissionsOK
<1>1. CASE Hears(m)
  <2>1. CASE opened
    <3>1. Takes(m) /\ at[m] = "unsent" /\ link[gateway[m]] # "off"
      BY <1>1, <2>1 DEF Hears, Arrives
    <3> QED
      BY <2>1, <3>1, TakesGoes
  <2>2. CASE ~ opened
    BY <1>1, <2>2 DEF Hears, Arrives, Goes, MaySubmit, Place, PastLatch, Active, Interruptible
  <2> QED BY <2>1, <2>2
<1>2. CASE Resumes(m)
  <2>1. Takes(m) /\ opened /\ at[m] \in Active
    BY <1>2 DEF Resumes, Active, Interruptible
  <2> QED
    BY <2>1, TakesGoes
<1>3. CASE Located(m)
  <2>1. Placed(m, home[m]) /\ opened /\ at[m] \in Active
    BY <1>0, <1>3 DEF Located, PastLatch, Active, Interruptible
  <2> QED
    BY <2>1, PlacedGoes
<1>4. CASE Opened(m)
  BY <1>0, <1>4, SubmitsMay DEF Opened, Goes, Place, PastLatch, Active, Interruptible
<1>5. CASE \E accepted \in BOOLEAN : Judged(m, accepted)
  BY <1>0, <1>5 DEF Judged, Goes, MaySubmit, Place, PastLatch, Active, Interruptible
<1>6. CASE Fails(m) \/ Denies(m) \/ Named(m) \/ Creates(m) \/ OpenUnheard(m) \/ Joined(m)
  BY <1>0, <1>6
  DEF Fails, Denies, Named, Creates, OpenUnheard, Joined, Goes, MaySubmit, Place, PastLatch, Active, Interruptible
<1>7. CASE LandsLate(m)
  BY <1>7 DEF LandsLate, MaySubmit
<1> QED
  BY <1>1, <1>2, <1>3, <1>4, <1>5, <1>6, <1>7 DEF Chat, AdmissionStep

-----------------------------------------------------------------------------
(* The invariant holds before the first start, and after every step.       *)
LEMMA HostInvInit == Init => HostInv
BY DEF Init, HostInv, HostTypeOK, StageOK, AdmissionsOK, Place, PastLatch, Active,
       Interruptible, Running, Closing, Over, Listener

(* What a listening socket does leaves the admissions, the queue and the    *)
(* stage alone.                                                            *)
LEMMA LinkStep ==
  ASSUME HostInv, UNCHANGED <<at, job, inQueue, stage, opened, queueOpen, deadline, journalOpen>>,
         NEW g \in Listener, NEW to \in {"off", "connecting", "auditing", "listening"},
         link' = [link EXCEPT ![g] = to],
         stage \in Closing => to = "off"
  PROVE  HostInv'
<1>1. HostTypeOK'
  BY DEF HostInv, HostTypeOK
<1>2. StageOK'
  BY DEF HostInv, StageOK
<1>3. AdmissionsOK'
  BY DEF HostInv, HostTypeOK, AdmissionsOK, Unlistened, Quiet
<1> QED
  BY <1>1, <1>2, <1>3 DEF HostInv

(* One step of an admission, or a webhook's: one message moves, and its run *)
(* may be submitted.                                                       *)
LEMMA MoveStep ==
  ASSUME HostInv, UNCHANGED <<stage, opened, queueOpen, link, deadline, journalOpen>>,
         NEW m \in Message, NEW p \in Place, at' = [at EXCEPT ![m] = p],
         MaySubmit(m),
         p \in PastLatch => opened,
         p \in Active => (stage \in Closing /\ ~ deadline => ~ Unlistened)
  PROVE  HostInv'
<1>1. HostTypeOK'
  BY DEF HostInv, HostTypeOK, MaySubmit, queueVars
<1>2. StageOK'
  BY DEF HostInv, StageOK, MaySubmit, queueVars
<1>3. at' = [n \in Message |-> IF n = m THEN p ELSE at[n]]
  BY DEF HostInv, HostTypeOK
<1>4. Unlistened => p \in Active \/ Unlistened'
  BY <1>3 DEF Unlistened, Quiet
<1>5. AdmissionsOK'
  BY <1>3, <1>4 DEF HostInv, AdmissionsOK
<1> QED
  BY <1>1, <1>2, <1>5 DEF HostInv

(* The end of a process, in whatever stage.                                *)
LEMMA EndsStep ==
  ASSUME HostInv, NEW how, Ends(how), journalOpen' = FALSE, UNCHANGED <<job, deadline>>
  PROVE  HostInv'
<1>1. stage' \in Over
  BY DEF Ends, Over
<1>2. at' \in [Message -> {"unsent", "gone"}]
  BY DEF Ends, HostInv, HostTypeOK, Place
<1>3. HostTypeOK'
  BY <1>1, <1>2 DEF Ends, HostInv, HostTypeOK, Place, Over
<1>4. StageOK'
  BY <1>1 DEF Ends, StageOK, Running, Closing, Over
<1>5. AdmissionsOK'
  BY <1>1, <1>2 DEF AdmissionsOK, PastLatch, Active, Interruptible, Over, Closing
<1> QED
  BY <1>3, <1>4, <1>5 DEF HostInv

LEMMA HostInvStep == HostInv /\ [Next]_vars => HostInv'
<1> SUFFICES ASSUME HostInv, [Next]_vars PROVE HostInv'
  OBVIOUS
<1>0. /\ at \in [Message -> Place]
      /\ queueOpen <=> stage \in Running
      /\ opened <=> stage \in {"serving", "unlistening"} \cup Closing
  BY DEF HostInv, HostTypeOK, StageOK
<1>1. CASE Starts
  <2>1. HostTypeOK'
    BY <1>1 DEF Starts, HostInv, HostTypeOK, queueVars, Running
  <2>2. StageOK'
    BY <1>1 DEF Starts, StageOK, Running, Closing
  <2>3. AdmissionsOK'
    BY <1>0, <1>1 DEF Starts, HostInv, AdmissionsOK, Closing
  <2> QED
    BY <2>1, <2>2, <2>3 DEF HostInv
<1>2. CASE BootFails \/ Dies \/ Exits
  BY <1>2, EndsStep DEF BootFails, Dies, Exits
<1>3. CASE ConnectsDiscord \/ ConnectsFluxer
  <2>1. /\ stage = "listening"
        /\ \E g \in Listener, to \in {"off", "connecting", "auditing", "listening"} :
             link' = [link EXCEPT ![g] = to]
        /\ UNCHANGED <<at, job, inQueue, stage, opened, queueOpen, deadline, journalOpen>>
    BY <1>3 DEF ConnectsDiscord, ConnectsFluxer, Links, Listener, admissionIdle,
                admissionVars, queueVars, hostVars
  <2>2. stage \notin Closing
    BY <2>1 DEF Closing
  <2> QED
    BY <2>1, <2>2, LinkStep
<1>4. CASE ListensAll \/ GatewayLost \/ Signalled
  <2>1. /\ stage \in {"listening", "serving"} /\ stage' \in {"restoring", "unlistening"}
        /\ stage = "listening" <=> stage' = "restoring"
        /\ UNCHANGED <<at, job, inQueue, opened, queueOpen, link, deadline, journalOpen>>
    BY <1>4 DEF ListensAll, GatewayLost, Signalled, Stops, admissionIdle, admissionVars, queueVars
  <2> QED
    BY <2>1 DEF HostInv, HostTypeOK, StageOK, AdmissionsOK, Running, Closing, Over
<1>5. ASSUME NEW g \in Listener, ClosesForGood(g)
      PROVE  HostInv'
  BY <1>5 DEF ClosesForGood, admissionIdle, admissionVars, queueVars, HostInv, HostTypeOK,
              StageOK, AdmissionsOK, Unlistened, Quiet
<1>6. CASE Restores
  <2>1. PICK denied \in SUBSET Unfinished :
          /\ job' = [m \in Message |-> IF m \in denied THEN "ended"
                                       ELSE IF m \in Unfinished THEN "queued" ELSE job[m]]
          /\ inQueue' = Unfinished \ denied
    BY <1>6 DEF Restores
  <2>2. HostTypeOK'
    BY <1>6, <2>1 DEF Restores, HostInv, HostTypeOK, Running, admissionVars, Unfinished
  <2>3. StageOK'
    BY <1>6 DEF Restores, HostInv, StageOK, Running, Closing
  <2>4. AdmissionsOK'
    BY <1>6 DEF Restores, HostInv, AdmissionsOK, Over, Closing, admissionVars
  <2> QED
    BY <2>2, <2>3, <2>4 DEF HostInv
<1>7. ASSUME NEW m \in Message, Webhook(m)
      PROVE  HostInv'
  <2>1. opened /\ at' = [at EXCEPT ![m] = "gone"] /\ "gone" \in Place \ Active
    BY <1>0, <1>7 DEF Webhook, Goes, Place, Active, Interruptible, Closing
  <2>2. MaySubmit(m)
    BY <1>7, <2>1, SubmitsMay DEF Webhook
  <2>3. UNCHANGED <<stage, opened, queueOpen, link, deadline, journalOpen>>
    BY <1>7 DEF Webhook, hostVars
  <2> QED
    BY <2>1, <2>2, <2>3, MoveStep
<1>8. ASSUME NEW m \in Message, Chat(m)
      PROVE  HostInv'
  <2>1. UNCHANGED <<stage, opened, queueOpen, link, deadline, journalOpen>>
    BY <1>8 DEF Chat, hostVars
  <2>2. MaySubmit(m) /\ gateway[m] \in Listener
    BY <1>8, ChatMoves DEF Chat
  <2>3. CASE UNCHANGED at
    <3>1. at' = [at EXCEPT ![m] = at[m]] /\ at[m] \in Place
      BY <1>0, <2>3
    <3>2. at[m] \in PastLatch => opened
      BY DEF HostInv, AdmissionsOK
    <3>3. at[m] \in Active => ~ Unlistened
      BY <2>2 DEF HostInv, AdmissionsOK, Unlistened, Quiet
    <3> QED
      BY <2>1, <2>2, <3>1, <3>2, <3>3, MoveStep
  <2>4. CASE ~ UNCHANGED at
    <3>1. PICK p \in Place : at' = [at EXCEPT ![m] = p] /\ (p \in PastLatch => opened)
      BY <1>8, <2>4, ChatMoves
    <3>2. at[m] \in Active \/ (at[m] = "unsent" /\ link[gateway[m]] # "off")
      BY <1>8, <2>4, ChatMoves
    <3>3. ~ Unlistened
      BY <2>2, <3>2 DEF Unlistened, Quiet
    <3> QED
      BY <2>1, <2>2, <3>1, <3>3, MoveStep
  <2> QED
    BY <2>3, <2>4
<1>9. ASSUME NEW m \in Message, RunStarts(m) \/ RunEnds(m)
      PROVE  HostInv'
  BY <1>9 DEF RunStarts, RunEnds, HostInv, HostTypeOK, StageOK, AdmissionsOK, Unlistened, Quiet,
              admissionVars, hostVars
<1>10. ASSUME NEW g \in Listener, LinkCloses(g)
       PROVE  HostInv'
  BY <1>10, LinkStep DEF LinkCloses, admissionIdle, admissionVars, queueVars, hostVars
<1>11. ASSUME NEW m \in Message, Interrupts(m)
       PROVE  HostInv'
  <2>1. /\ at' = [at EXCEPT ![m] = "gone"] /\ "gone" \in Place \ Active
        /\ MaySubmit(m)
        /\ UNCHANGED <<stage, opened, queueOpen, link, deadline, journalOpen>>
    BY <1>11 DEF Interrupts, Interrupted, Goes, MaySubmit, hostVars, Place, Active, Interruptible
  <2> QED
    BY <2>1, MoveStep DEF PastLatch
<1>12. CASE DeadlinePasses
  BY <1>12 DEF DeadlinePasses, admissionIdle, admissionVars, queueVars, HostInv, HostTypeOK,
               StageOK, AdmissionsOK
<1>13. CASE ClosesQueue
  BY <1>13 DEF ClosesQueue, HostInv, HostTypeOK, StageOK, AdmissionsOK, Unlistened, Quiet,
               admissionVars, queueVars, Running, Closing, Over
<1>14. CASE Drains
  BY <1>14 DEF Drains, JournalLeftOpen, admissionIdle, HostInv, HostTypeOK, StageOK, AdmissionsOK,
               Unlistened, Quiet, admissionVars, queueVars, Running, Closing, Over
<1>15. CASE UNCHANGED vars
  BY <1>15 DEF vars, admissionVars, queueVars, hostVars, HostInv, HostTypeOK, StageOK,
               AdmissionsOK, Unlistened, Quiet
<1> QED
  BY <1>1, <1>2, <1>3, <1>4, <1>5, <1>6, <1>7, <1>8, <1>9, <1>10, <1>11, <1>12, <1>13, <1>14, <1>15
  DEF Next, HostStep

(* For any messages and any number of starts: the queue, the journal and    *)
(* admission are open in their stages, whatever gateways hear, lose and     *)
(* answer meanwhile (index.ts:140-188, 293-327).                           *)
THEOREM HostInvariant == Spec => []HostInv
BY HostInvInit, HostInvStep, PTL DEF Spec

-----------------------------------------------------------------------------
(* A run changes when a message is submitted, when recovery queues it, or   *)
(* when the queue starts or ends it.                                       *)
LEMMA JobsChange ==
  ASSUME HostInv, Next, NEW m \in Message, job'[m] # job[m]
  PROVE  \/ queueOpen /\ opened
         \/ job[m] \in {"queued", "running"} /\ (stage = "restoring" \/ m \in inQueue)
<1>1. CASE \E n \in Message : Chat(n) \/ Webhook(n)
  <2>1. PICK n \in Message : Chat(n) \/ Webhook(n)
    BY <1>1
  <2>2. opened \/ Chat(n)
    BY <2>1 DEF Webhook, HostInv, StageOK, Closing
  <2>3. MaySubmit(n)
    BY <2>1, <2>2, ChatMoves, SubmitsMay DEF Webhook
  <2> QED
    BY <2>3 DEF MaySubmit, queueVars
<1>2. CASE Restores
  BY <1>2 DEF Restores, Unfinished
<1>3. ASSUME NEW n \in Message, RunStarts(n) \/ RunEnds(n)
      PROVE  m \in inQueue /\ job[m] \in {"queued", "running"}
  BY <1>3 DEF RunStarts, RunEnds, HostInv, HostTypeOK
<1> QED
  BY <1>1, <1>2, <1>3
  DEF Next, HostStep, Starts, BootFails, Dies, Exits, ConnectsDiscord, ConnectsFluxer, ListensAll,
      GatewayLost, Signalled, Stops, ClosesQueue, Drains, LinkCloses, Interrupts, Interrupted,
      DeadlinePasses, ClosesForGood, admissionIdle, admissionVars, queueVars

(* No run is journaled, started or ended in a closed journal, however the    *)
(* shutdown runs out of time: it closes under an empty queue only, and the  *)
(* queue stays closed (index.ts:310, 323-325).                             *)
THEOREM RunsStayJournaled == Spec => JournalOutlivesRuns
<1> DEFINE Sound == \A m \in Message : job'[m] # job[m] => journalOpen
<1>1. HostInv /\ [Next]_vars => [Sound]_vars
  <2> SUFFICES ASSUME HostInv, Next, NEW m \in Message, job'[m] # job[m]
               PROVE  journalOpen
    OBVIOUS
  <2> QED
    BY JobsChange DEF HostInv, StageOK, Running
<1> QED
  BY <1>1, HostInvariant, PTL DEF Spec, JournalOutlivesRuns

(* Nothing is denied, and no thread opened that the host still waits for,   *)
(* but by an admission that is past the latch.                             *)
LEMMA AdmissionsAct ==
  ASSUME HostInv, Next, NEW m \in Message,
         m \in denials' \ denials \/ m \in (created' \ created) \ unheard
  PROVE  /\ at[m] \in PastLatch /\ gateway[m] \in Listener
         /\ opened /\ UNCHANGED queueVars
<1>1. PICK n \in Message : Chat(n)
  BY DEF Next, HostStep, Starts, BootFails, Dies, Exits, ConnectsDiscord, ConnectsFluxer, ListensAll,
      GatewayLost, Signalled, Stops, ClosesQueue, Drains, LinkCloses, Interrupts, Interrupted,
      DeadlinePasses, ClosesForGood, Restores, Webhook, RunStarts, RunEnds, admissionIdle, admissionVars
<1>2. Denies(n) \/ Creates(n) \/ LandsLate(n)
  BY <1>1 DEF Chat, AdmissionStep, Hears, Resumes, Located, Fails, Judged, Named, Opened,
              OpenUnheard, Joined
<1>3. n = m /\ (Denies(n) \/ Creates(n))
  BY <1>2 DEF Denies, Creates, LandsLate
<1> QED
  BY <1>1, <1>3 DEF Chat, Denies, Creates, PastLatch, Active, Interruptible, HostInv, AdmissionsOK

(* Whatever the gateways hear, nothing is posted, opened or submitted before *)
(* recovery or after the queue closed, but by a shutdown out of time, which  *)
(* submits nothing (index.ts:149-178, 302-310).                            *)
THEOREM ActsOnlyInService == Spec => ActsInService
<1> DEFINE Sound == \A m \in Message : Acts(m) =>
                      \/ stage \in {"serving", "unlistening"} /\ opened
                      \/ deadline /\ job'[m] = job[m]
<1>1. HostInv /\ [Next]_vars => [Sound]_vars
  <2> SUFFICES ASSUME HostInv, Next, NEW m \in Message, Acts(m)
               PROVE  \/ stage \in {"serving", "unlistening"} /\ opened
                      \/ deadline /\ job'[m] = job[m]
    OBVIOUS
  <2>0. /\ queueOpen <=> stage \in Running
        /\ opened <=> stage \in {"serving", "unlistening"} \cup Closing
        /\ stage \in Closing /\ ~ deadline => Unlistened
    BY DEF HostInv, StageOK, AdmissionsOK
  <2>1. CASE job[m] = "none" /\ job'[m] # "none"
    <3>1. (queueOpen /\ opened) \/ job[m] \in {"queued", "running"}
      BY <2>1, JobsChange
    <3> QED
      BY <2>0, <2>1, <3>1 DEF Running, Closing
  <2>2. CASE m \in denials' \ denials \/ m \in (created' \ created) \ unheard
    <3>1. at[m] \in Active /\ gateway[m] \in Listener /\ opened /\ job' = job
      BY <2>2, AdmissionsAct DEF PastLatch, queueVars
    <3>2. ~ Unlistened
      BY <3>1 DEF Unlistened, Quiet
    <3> QED
      BY <2>0, <3>1, <3>2
  <2> QED
    BY <2>1, <2>2 DEF Acts
<1> QED
  BY <1>1, HostInvariant, PTL DEF Spec, ActsInService

(* An admission that hears its thread was opened leaves a run for it, unless  *)
(* the shutdown is out of time: the queue closes after the last admission    *)
(* otherwise (chat-admission.ts:325-349, index.ts:302-310).                 *)
THEOREM ThreadsGetTheirRun == Spec => OpenedThreadRuns
<1> DEFINE Sound == \A m \in Message : OpenedThread(m) => job'[m] # "none" \/ deadline
<1>1. HostInv /\ [Next]_vars => [Sound]_vars
  <2> SUFFICES ASSUME HostInv, Next, NEW m \in Message, OpenedThread(m)
               PROVE  job'[m] # "none" \/ deadline
    OBVIOUS
  <2>1. at[m] = "created" /\ at'[m] # "created" /\ m \notin unheard'
    BY DEF OpenedThread
  <2>2. PICK n \in Message : Chat(n) \/ Interrupts(n) \/ Webhook(n)
    BY <2>1
    DEF Next, HostStep, Starts, BootFails, Dies, Exits, Ends, ConnectsDiscord, ConnectsFluxer,
      ListensAll, GatewayLost, Signalled, Stops, ClosesQueue, Drains, LinkCloses,
      DeadlinePasses, ClosesForGood, Restores, RunStarts, RunEnds, admissionIdle, admissionVars,
      HostInv, HostTypeOK, Active, Interruptible
  <2>3. Opened(m) /\ gateway[m] \in Listener
    <3>1. at \in [Message -> Place]
      BY DEF HostInv, HostTypeOK
    <3>2. CASE Chat(n)
      <4>1. Hears(n) \/ AdmissionStep(n)
        BY <3>2 DEF Chat
      <4>2. n = m
        BY <2>1, <3>1, <3>2, ChatMoves
      <4>3. ~ Hears(m)
        BY <2>1 DEF Hears
      <4> QED
        BY <2>1, <3>2, <4>1, <4>2, <4>3
        DEF Chat, AdmissionStep, Resumes, Located, Fails, Judged, Denies, Named, Creates,
            OpenUnheard, LandsLate, Joined
    <3>3. CASE Interrupts(n) \/ Webhook(n)
      BY <2>1, <3>1, <3>3 DEF Interrupts, Interrupted, Interruptible, Webhook, Goes
    <3> QED
      BY <2>2, <3>2, <3>3
  <2>4. CASE queueOpen
    BY <2>3, <2>4 DEF Opened, Submits, HostInv, HostTypeOK
  <2>5. CASE ~ queueOpen
    <3>1. opened /\ ~ Unlistened
      BY <2>1, <2>3 DEF HostInv, AdmissionsOK, PastLatch, Active, Interruptible, Unlistened, Quiet
    <3> QED
      BY <2>5, <3>1 DEF HostInv, StageOK, AdmissionsOK, Running
  <2> QED
    BY <2>4, <2>5
<1> QED
  BY <1>1, HostInvariant, PTL DEF Spec, OpenedThreadRuns

-----------------------------------------------------------------------------
(* What ThreadQueue.ahead tells a new task is honest, for every number of   *)
(* threads, arrivals and slots. Ahead counts all that is under way, though  *)
(* up to Limit of it end together: the invariant weighs the earlier tasks   *)
(* that ended against those that are left (Waits).                         *)

(* The tasks under way that came before a task, and those of its thread.   *)
Earlier(t) == {u \in waiting \cup started : u < t}
OwnEarlier(t) == {u \in Earlier(t) : key[u] = key[t]}

(* A task that waits has what it was promised still before it: a task      *)
(* whose thread was idle waits for a slot only, all slots are taken by     *)
(* earlier tasks, and those that ended and those that are left are no      *)
(* more than it was told and those in the other slots.                     *)
Waits(t) ==
  /\ own[t] <= promise[t]
  /\ own[t] <= passed[t] + Cardinality(OwnEarlier(t))
  /\ own[t] = 0 =>
       /\ OwnEarlier(t) = {}
       /\ Cardinality(running) = Limit
       /\ \A u \in started : u < t
       /\ passed[t] + Cardinality(Earlier(t)) < promise[t] + Limit

CountsOK ==
  promise \in [Task -> Nat] /\ own \in [Task -> Nat] /\ passed \in [Task -> Nat]

AheadInv ==
  /\ QueueInv
  /\ CountsOK
  /\ \A t \in Task : key[t] = NoThread => passed[t] = 0
  /\ \A t \in waiting : Waits(t)
  /\ AheadHonest

-----------------------------------------------------------------------------
(* Whatever is under way is a finite set of tasks.                         *)
LEMMA UnderWayFinite ==
  ASSUME QueueInv
  PROVE  /\ waiting \subseteq Task /\ started \subseteq Task /\ Task \subseteq Nat
         /\ IsFiniteSet(waiting) /\ IsFiniteSet(started) /\ IsFiniteSet(running)
         /\ \A T \in SUBSET (waiting \cup started) :
              IsFiniteSet(T) /\ Cardinality(T) \in Nat
<1>1. waiting \subseteq Task /\ started \subseteq Task /\ Task \subseteq Nat
  BY QueueAssumption DEF QueueInv, QueueTypeOK, Arrived
<1>2. \A T \in SUBSET Task : IsFiniteSet(T) /\ Cardinality(T) \in Nat
  BY QueueAssumption, FS_Subset, FS_CardinalityType
<1>3. IsFiniteSet(running)
  BY <1>1, <1>2, KeysFinite DEF QueueInv, Exclusive
<1> QED
  BY <1>1, <1>2, <1>3

(* As many tasks have started as threads are busy.                         *)
LEMMA OneThreadEach ==
  ASSUME NEW k, NEW begun, IsFiniteSet(begun),
         \A t, u \in begun : k[t] = k[u] => t = u
  PROVE  Cardinality({k[t] : t \in begun}) = Cardinality(begun)
<1> DEFINE K == {k[t] : t \in begun}
           f == [t \in begun |-> k[t]]
<1>1. f \in Surjection(begun, K) /\ f \in Injection(begun, K)
  BY DEF Surjection, Injection, IsInjective
<1> QED
  BY <1>1, FS_Surjection

(* What a task's thread has under way, as ahead counts it.                 *)
LEMMA OwnCounts ==
  ASSUME QueueInv, NEW k \in Thread
  PROVE  /\ Own(k) \in Nat
         /\ Own(k) = 0 <=> k \notin running /\ \A u \in waiting : key[u] # k
         /\ Own(k) <= Cardinality({u \in waiting \cup started : key[u] = k})
<1> DEFINE W == {u \in waiting : key[u] = k}
           S == {u \in started : key[u] = k}
<1>1. /\ IsFiniteSet(W) /\ IsFiniteSet(S) /\ Cardinality(W) \in Nat
      /\ Cardinality(S) \in Nat
  BY UnderWayFinite
<1>2. Cardinality(W) = 0 <=> W = {}
  BY <1>1, FS_EmptySet
<1>3. Own(k) = (IF k \in running THEN 1 ELSE 0) + Cardinality(W)
  BY DEF Own
<1>4. Cardinality(W \cup S) = Cardinality(W) + Cardinality(S)
  <2>1. W \cap S = {}
    BY DEF QueueInv, Exclusive
  <2>2. Cardinality(W \cap S) = 0
    BY <2>1, FS_EmptySet
  <2> HIDE DEF W, S
  <2>3. Cardinality(W \cup S) = Cardinality(W) + Cardinality(S) - Cardinality(W \cap S)
    BY <1>1, FS_Union
  <2> QED
    BY <1>1, <2>2, <2>3
<1>5. k \in running => Cardinality(S) >= 1
  <2> SUFFICES ASSUME k \in running PROVE Cardinality(S) # 0
    BY <1>1
  <2>1. S # {}
    BY DEF QueueInv, Exclusive
  <2> QED
    BY <1>1, <2>1, FS_EmptySet
<1>6. {u \in waiting \cup started : key[u] = k} = W \cup S
  OBVIOUS
<1>7. W = {} <=> \A u \in waiting : key[u] # k
  OBVIOUS
<1> HIDE DEF W, S
<1> QED
  BY <1>1, <1>2, <1>3, <1>4, <1>5, <1>6, <1>7

(* A new task starts at once, told of none, or it waits and nothing starts. *)
LEMMA NewTask ==
  ASSUME AheadInv, NEW t \in Task, NEW k \in Thread, Enqueue(t, k)
  PROVE  /\ key' = [key EXCEPT ![t] = k] /\ key[t] = NoThread
         /\ t \notin waiting \cup started
         /\ \A u \in waiting \cup started : u < t
         /\ \/ /\ Own(k) = 0 /\ Cardinality(running) < Limit
               /\ waiting' = waiting /\ started' = started \cup {t}
            \/ /\ Own(k) # 0 \/ Cardinality(running) = Limit
               /\ waiting' = waiting \cup {t}
               /\ started' = started /\ running' = running
<1> DEFINE line == waiting \cup {t}
<1>1. /\ key' = [key EXCEPT ![t] = k] /\ key[t] = NoThread /\ \A u \in Arrived : u < t
      /\ StartWaiting(key', running, line, started)
  BY DEF Enqueue
<1>2. /\ key \in [Task -> Thread \cup {NoThread}] /\ NoThread \notin Thread
      /\ waiting \subseteq Arrived /\ started \subseteq Arrived /\ Arrived \subseteq Task
  BY QueueAssumption DEF AheadInv, QueueInv, QueueTypeOK, Arrived
<1>3. t \notin Arrived
  BY <1>1 DEF Arrived
<1>4. t \notin waiting \cup started /\ \A u \in waiting \cup started : u < t
  BY <1>1, <1>2, <1>3
<1>5. key'[t] = k /\ \A u \in waiting : key'[u] = key[u]
  BY <1>1, <1>2, <1>4
<1>6. PICK S \in SUBSET line :
        /\ OldestFirst(key', running, line, S)
        /\ running' = running \cup {key'[u] : u \in S}
        /\ waiting' = line \ S /\ started' = started \cup S
  BY <1>1 DEF StartWaiting
<1>7. /\ Cardinality(running) \in Nat /\ Limit \in Nat /\ Cardinality(running) <= Limit
      /\ Cardinality(S) \in Nat /\ IsFiniteSet(S)
  <2>1. IsFiniteSet(running) /\ IsFiniteSet(waiting)
    BY UnderWayFinite DEF AheadInv
  <2>2. IsFiniteSet(S)
    BY <2>1, FS_AddElement, FS_Subset
  <2> QED
    BY <2>1, <2>2, FS_CardinalityType, QueueAssumption DEF AheadInv, QueueInv, SlotsWellUsed
<1>8. Own(k) = 0 <=> k \notin running /\ \A u \in waiting : key[u] # k
  BY OwnCounts DEF AheadInv
<1>9. S = {} => waiting' = line /\ started' = started /\ running' = running
  BY <1>6
<1>10. S \subseteq Eligible(key', running, line)
       /\ Cardinality(running) + Cardinality(S) <= Limit
       /\ (S = Eligible(key', running, line)
           \/ Cardinality(running) + Cardinality(S) = Limit)
  BY <1>6 DEF OldestFirst
<1>11. CASE Cardinality(running) = Limit
  <2>1. S = {}
    BY <1>7, <1>10, <1>11, FS_EmptySet
  <2> QED
    BY <1>1, <1>4, <1>9, <1>11, <2>1
<1>12. CASE Cardinality(running) < Limit
  <2>1. \A u \in waiting : key[u] \in running
    BY <1>12 DEF AheadInv, QueueInv, SlotsWellUsed
  <2>2. Eligible(key', running, line) \subseteq {t}
    BY <1>5, <2>1 DEF Eligible
  <2>3. CASE Own(k) # 0
    <3>1. k \in running
      BY <1>8, <2>1, <2>3
    <3>2. S = {}
      BY <1>5, <1>10, <2>2, <3>1 DEF Eligible
    <3> QED
      BY <1>1, <1>4, <1>9, <2>3, <3>2
  <2>4. CASE Own(k) = 0
    <3>1. Eligible(key', running, line) = {t}
      <4>1. \A u \in line : key'[u] = k => t <= u
        BY <1>2, <1>5, <1>8, <2>4, QueueAssumption
      <4> QED
        BY <1>5, <1>8, <2>2, <2>4, <4>1 DEF Eligible
    <3>2. S = {t}
      <4>1. S = {} => Cardinality(S) = 0
        BY FS_EmptySet
      <4> QED
        BY <1>7, <1>10, <1>12, <3>1, <4>1
    <3> QED
      BY <1>1, <1>4, <1>6, <1>12, <2>4, <3>2
  <2> QED
    BY <2>3, <2>4
<1> QED
  BY <1>7, <1>11, <1>12

(* The task that asked is told no less than its own thread has under way,  *)
(* and if that is nothing, what must end before a slot is left for it.     *)
LEMMA AskKeeps ==
  ASSUME AheadInv, NEW t \in Task, NEW k \in Thread, AskAndEnqueue(t, k), QueueInv'
  PROVE  AheadInv'
<1>1. /\ promise' = [promise EXCEPT ![t] = Ahead(k)] /\ own' = [own EXCEPT ![t] = Own(k)]
      /\ Enqueue(t, k) /\ passed' = passed
  BY DEF AskAndEnqueue
<1>2. /\ key' = [key EXCEPT ![t] = k] /\ key[t] = NoThread
      /\ t \notin waiting \cup started
      /\ \A u \in waiting \cup started : u < t
      /\ \/ /\ Own(k) = 0 /\ Cardinality(running) < Limit
            /\ waiting' = waiting /\ started' = started \cup {t}
         \/ /\ Own(k) # 0 \/ Cardinality(running) = Limit
            /\ waiting' = waiting \cup {t}
            /\ started' = started /\ running' = running
  BY <1>1, NewTask
<1>3. CountsOK /\ QueueInv /\ key \in [Task -> Thread \cup {NoThread}]
      /\ waiting \subseteq Task /\ started \subseteq Task /\ Task \subseteq Nat
      /\ NoThread \notin Thread
  BY UnderWayFinite, QueueAssumption DEF AheadInv, QueueInv, QueueTypeOK
<1>4. /\ Own(k) \in Nat
      /\ Own(k) <= Cardinality({u \in waiting \cup started : key[u] = k})
      /\ Own(k) = 0 => k \notin running /\ \A u \in waiting : key[u] # k
  BY <1>3, OwnCounts
<1>5. /\ Cardinality(running) \in Nat /\ Cardinality(waiting) \in Nat
      /\ Cardinality(running) <= Limit /\ Limit \in Nat \ {0}
  BY <1>3, UnderWayFinite, FS_CardinalityType, QueueAssumption DEF QueueInv, SlotsWellUsed
<1>6. /\ Ahead(k) \in Nat /\ Own(k) <= Ahead(k)
      /\ Own(k) = 0 /\ Cardinality(running) = Limit => Ahead(k) = Cardinality(waiting) + 1
      /\ Own(k) = 0 /\ Cardinality(running) < Limit => Ahead(k) = 0
  BY <1>4, <1>5 DEF Ahead
<1>7. /\ passed[t] = 0 /\ promise'[t] = Ahead(k) /\ own'[t] = Own(k)
      /\ \A u \in Task \ {t} : promise'[u] = promise[u] /\ own'[u] = own[u]
  BY <1>1, <1>2, <1>3 DEF AheadInv, CountsOK
<1>8. CountsOK'
  BY <1>1, <1>3, <1>4, <1>6 DEF CountsOK
<1>9. \A u \in Task : key'[u] = NoThread => passed'[u] = 0
  BY <1>1, <1>2, <1>3 DEF AheadInv
<1>10. ASSUME NEW u \in waiting PROVE Waits(u)'
  <2>1. u # t /\ u < t /\ u \in Task /\ Waits(u)
    BY <1>2, <1>3, <1>10 DEF AheadInv
  <2>2. waiting' \cup started' = waiting \cup started \cup {t}
    BY <1>2
  <2>3. ~ (t < u)
    BY <1>3, <2>1
  <2>4. Earlier(u)' = Earlier(u)
    BY <2>2, <2>3 DEF Earlier
  <2>5. \A v \in Earlier(u) : key'[v] = key[v]
    BY <1>2, <1>3 DEF Earlier
  <2>6. key'[u] = key[u]
    BY <1>2, <1>3, <2>1
  <2>7. OwnEarlier(u)' = OwnEarlier(u)
    BY <2>4, <2>5, <2>6 DEF OwnEarlier
  <2>8. own'[u] = own[u] /\ promise'[u] = promise[u] /\ passed'[u] = passed[u]
    BY <1>1, <1>7, <2>1
  <2>9. own[u] = 0 => running' = running /\ started' = started
    BY <1>2, <1>5, <2>1 DEF Waits
  <2> QED
    BY <2>1, <2>4, <2>7, <2>8, <2>9 DEF Waits
<1>11. ASSUME t \in waiting' PROVE Waits(t)'
  <2>1. /\ Own(k) # 0 \/ Cardinality(running) = Limit
        /\ waiting' = waiting \cup {t} /\ started' = started /\ running' = running
    BY <1>2, <1>11
  <2>2. Earlier(t)' = waiting \cup started
    <3>1. Earlier(t)' = {u \in waiting \cup started \cup {t} : u < t}
      BY <2>1 DEF Earlier
    <3>2. ~ (t < t) /\ \A u \in waiting \cup started : u < t
      BY <1>2, <1>3
    <3> QED
      BY <3>1, <3>2
  <2>3. key'[t] = k /\ \A u \in waiting \cup started : key'[u] = key[u]
    BY <1>2, <1>3
  <2>4. OwnEarlier(t)' = {u \in waiting \cup started : key[u] = k}
    BY <2>2, <2>3 DEF OwnEarlier
  <2>5. Cardinality(waiting \cup started) = Cardinality(waiting) + Cardinality(running)
    <3>1. Cardinality(started) = Cardinality(running)
      <4>1. \A u, v \in started : key[u] = key[v] => u = v
        BY <1>3 DEF QueueInv, Exclusive
      <4>2. running = {key[u] : u \in started} /\ IsFiniteSet(started)
        BY <1>3, UnderWayFinite DEF QueueInv, Exclusive
      <4> QED
        BY <4>1, <4>2, OneThreadEach
    <3>2. waiting \cap started = {}
      BY <1>3 DEF QueueInv, Exclusive
    <3>3. Cardinality(waiting \cap started) = 0
      BY <3>2, FS_EmptySet
    <3>4. IsFiniteSet(waiting) /\ IsFiniteSet(started)
      BY <1>3, UnderWayFinite
    <3>5. Cardinality(waiting \cup started)
            = Cardinality(waiting) + Cardinality(started) - Cardinality(waiting \cap started)
      BY <3>4, FS_Union
    <3> QED
      BY <1>5, <3>1, <3>3, <3>5
  <2>6. CASE Own(k) # 0
    <3>1. own'[t] <= promise'[t] /\ own'[t] # 0
      BY <1>6, <1>7, <2>6
    <3>2. Cardinality(OwnEarlier(t))' = Cardinality({u \in waiting \cup started : key[u] = k})
      BY <2>4
    <3>3. Cardinality({u \in waiting \cup started : key[u] = k}) \in Nat
      BY <1>3, UnderWayFinite
    <3>4. own'[t] <= passed'[t] + Cardinality(OwnEarlier(t))'
      BY <1>1, <1>4, <1>7, <3>2, <3>3
    <3> QED
      BY <3>1, <3>4 DEF Waits
  <2>7. CASE Own(k) = 0
    <3>1. OwnEarlier(t)' = {}
      BY <1>3, <1>4, <2>4, <2>7 DEF QueueInv, Exclusive
    <3>2. \A u \in started' : u < t
      BY <1>2, <2>1
    <3>3. Cardinality(running') = Limit
      BY <2>1, <2>7
    <3>4. passed'[t] + Cardinality(waiting \cup started) < promise'[t] + Limit
      BY <1>1, <1>5, <1>6, <1>7, <2>1, <2>5, <2>7
    <3>5. own'[t] <= promise'[t] /\ own'[t] = 0 /\ passed'[t] = 0
      BY <1>1, <1>6, <1>7, <2>7
    <3>6. Cardinality({}) = 0
      BY FS_EmptySet
    <3> QED
      BY <2>2, <3>1, <3>2, <3>3, <3>4, <3>5, <3>6 DEF Waits
  <2> QED
    BY <2>6, <2>7
<1>12. AheadHonest'
  <2> SUFFICES ASSUME NEW u \in started'
               PROVE  /\ own'[u] = 0 => passed'[u] <= promise'[u]
                      /\ own'[u] <= promise'[u] /\ own'[u] <= passed'[u]
    BY DEF AheadHonest
  <2>1. CASE u \in started
    <3>1. u # t /\ u \in Task
      BY <1>2, <1>3, <2>1
    <3> QED
      BY <1>1, <1>7, <2>1, <3>1 DEF AheadInv, AheadHonest
  <2>2. CASE u \notin started
    <3>1. u = t /\ Own(k) = 0
      BY <1>2, <2>2
    <3> QED
      BY <1>1, <1>6, <1>7, <3>1
  <2> QED
    BY <2>1, <2>2
<1>13. \A u \in waiting' : u \in waiting \/ u = t
  BY <1>2
<1> QED
  BY <1>8, <1>9, <1>10, <1>11, <1>12, <1>13 DEF AheadInv

(* A task that waits beside an end: the one that ended is no longer before *)
(* it, and is counted.                                                     *)
LEMMA EndCounted ==
  ASSUME AheadInv, NEW t \in started, NEW u \in waiting,
         passed' = [v \in Task |-> IF v \in waiting /\ t < v THEN passed[v] + 1 ELSE passed[v]]
  PROVE  /\ passed'[u] \in Nat /\ passed[u] \in Nat
         /\ passed'[u] >= passed[u] /\ (t < u => passed'[u] = passed[u] + 1)
         /\ IsFiniteSet(Earlier(u)) /\ IsFiniteSet(OwnEarlier(u))
         /\ passed'[u] + Cardinality(Earlier(u) \ {t}) = passed[u] + Cardinality(Earlier(u))
         /\ passed'[u] + Cardinality(OwnEarlier(u) \ {t})
              >= passed[u] + Cardinality(OwnEarlier(u))
<1>1. QueueInv /\ CountsOK
  BY DEF AheadInv
<1>2. u \in Task /\ t \in Task /\ Task \subseteq Nat
  BY <1>1, UnderWayFinite
<1>3. passed[u] \in Nat /\ passed'[u] = IF t < u THEN passed[u] + 1 ELSE passed[u]
  BY <1>1, <1>2 DEF CountsOK
<1>4. /\ IsFiniteSet(Earlier(u)) /\ IsFiniteSet(OwnEarlier(u))
      /\ Cardinality(Earlier(u)) \in Nat /\ Cardinality(OwnEarlier(u)) \in Nat
  BY <1>1, UnderWayFinite DEF Earlier, OwnEarlier
<1>5. Cardinality(Earlier(u) \ {t})
        = IF t \in Earlier(u) THEN Cardinality(Earlier(u)) - 1 ELSE Cardinality(Earlier(u))
  BY <1>4, FS_RemoveElement
<1>6. Cardinality(OwnEarlier(u) \ {t})
        = IF t \in OwnEarlier(u) THEN Cardinality(OwnEarlier(u)) - 1
          ELSE Cardinality(OwnEarlier(u))
  BY <1>4, FS_RemoveElement
<1>7. t \in Earlier(u) <=> t < u
  BY DEF Earlier
<1>8. t \in OwnEarlier(u) => t < u
  BY DEF OwnEarlier, Earlier
<1> QED
  BY <1>3, <1>4, <1>5, <1>6, <1>7, <1>8

(* A run ends: whatever starts was promised no less than it waited for.    *)
LEMMA FinishKeeps ==
  ASSUME AheadInv, NEW t \in Task, FinishCounted(t), QueueInv'
  PROVE  AheadInv'
<1> DEFINE busy == running \ {key[t]}
           begun == started \ {t}
<1>1. /\ t \in started /\ StartWaiting(key, busy, waiting, begun) /\ key' = key
      /\ promise' = promise /\ own' = own
      /\ passed' = [v \in Task |-> IF v \in waiting /\ t < v THEN passed[v] + 1 ELSE passed[v]]
  BY DEF FinishCounted, Finish
<1>2. /\ QueueInv /\ CountsOK /\ QueueTypeOK /\ Exclusive(key, running, waiting, started)
      /\ waiting \subseteq Task /\ started \subseteq Task /\ Task \subseteq Nat
      /\ Limit \in Nat \ {0}
  BY UnderWayFinite, QueueAssumption DEF AheadInv, QueueInv
<1>3. PICK S \in SUBSET waiting :
        /\ OldestFirst(key, busy, waiting, S)
        /\ running' = busy \cup {key[v] : v \in S}
        /\ waiting' = waiting \ S /\ started' = begun \cup S
  BY <1>1 DEF StartWaiting
<1> HIDE DEF busy, begun
<1>4. /\ S \subseteq Eligible(key, busy, waiting)
      /\ \A v \in S, u \in Eligible(key, busy, waiting) \ S : v < u
      /\ S = Eligible(key, busy, waiting) \/ Cardinality(busy) + Cardinality(S) = Limit
  BY <1>3 DEF OldestFirst
<1>5. /\ waiting' \cup started' = (waiting \cup started) \ {t}
      /\ waiting \cap started = {}
  BY <1>1, <1>2, <1>3 DEF Exclusive, begun
<1>6. CountsOK'
  BY <1>1, <1>2 DEF CountsOK
<1>7. \A u \in Task : key'[u] = NoThread => passed'[u] = 0
  <2>1. \A u \in waiting : key[u] # NoThread
    BY <1>2 DEF QueueTypeOK, Arrived
  <2> QED
    BY <1>1, <2>1 DEF AheadInv
<1>8. ASSUME NEW u \in waiting
      PROVE  /\ Waits(u) /\ u \in Task /\ own[u] \in Nat /\ promise[u] \in Nat
             /\ passed'[u] \in Nat /\ passed[u] \in Nat
             /\ passed'[u] >= passed[u] /\ (t < u => passed'[u] = passed[u] + 1)
             /\ IsFiniteSet(Earlier(u)) /\ IsFiniteSet(OwnEarlier(u))
             /\ Cardinality(Earlier(u)) \in Nat /\ Cardinality(OwnEarlier(u)) \in Nat
             /\ passed'[u] + Cardinality(Earlier(u) \ {t}) = passed[u] + Cardinality(Earlier(u))
             /\ passed'[u] + Cardinality(OwnEarlier(u) \ {t})
                  >= passed[u] + Cardinality(OwnEarlier(u))
  <2>1. Waits(u) /\ u \in Task
    BY <1>2 DEF AheadInv
  <2> QED
    BY <1>1, <1>2, <2>1, EndCounted, FS_CardinalityType DEF CountsOK
(* A task whose thread was idle is eligible all the while it waits.        *)
<1>9. ASSUME NEW u \in waiting, own[u] = 0
      PROVE  /\ u \in Eligible(key, busy, waiting) /\ t < u
             /\ Cardinality(running) = Limit
  <2>1. /\ OwnEarlier(u) = {} /\ \A v \in started : v < u
        /\ Cardinality(running) = Limit
    BY <1>8, <1>9 DEF Waits
  <2>2. \A v \in waiting \cup started : key[v] = key[u] => ~ (v < u)
    BY <2>1 DEF OwnEarlier, Earlier
  <2>3. key[u] \notin running
    BY <1>2, <2>1, <2>2 DEF Exclusive
  <2>4. \A v \in waiting : key[v] = key[u] => u <= v
    BY <1>2, <2>2
  <2> QED
    BY <1>1, <2>1, <2>3, <2>4 DEF Eligible, busy
<1>10. ASSUME NEW u \in waiting' PROVE Waits(u)'
  <2>1. u \in waiting /\ u \notin S
    BY <1>3, <1>10
  <2>2. Earlier(u)' = Earlier(u) \ {t} /\ OwnEarlier(u)' = OwnEarlier(u) \ {t}
    BY <1>1, <1>5 DEF Earlier, OwnEarlier
  <2>3. own'[u] <= promise'[u]
    BY <1>1, <1>8, <2>1 DEF Waits
  <2>4. own'[u] <= passed'[u] + Cardinality(OwnEarlier(u))'
    <3>1. Cardinality(OwnEarlier(u))' = Cardinality(OwnEarlier(u) \ {t})
      BY <2>2
    <3>2. own[u] <= passed[u] + Cardinality(OwnEarlier(u))
      BY <1>8, <2>1 DEF Waits
    <3>3. Cardinality(OwnEarlier(u) \ {t}) \in Nat
      BY <1>8, <2>1, FS_RemoveElement, FS_CardinalityType
    <3>4. /\ own[u] \in Nat /\ passed[u] \in Nat /\ passed'[u] \in Nat
          /\ Cardinality(OwnEarlier(u)) \in Nat
          /\ passed'[u] + Cardinality(OwnEarlier(u) \ {t})
               >= passed[u] + Cardinality(OwnEarlier(u))
      BY <1>8, <2>1
    <3>5. own[u] <= passed'[u] + Cardinality(OwnEarlier(u) \ {t})
      BY <3>2, <3>3, <3>4
    <3> QED
      BY <1>1, <3>1, <3>5
  <2>5. ASSUME own'[u] = 0
        PROVE  /\ OwnEarlier(u)' = {}
               /\ Cardinality(running') = Limit
               /\ \A v \in started' : v < u
               /\ passed'[u] + Cardinality(Earlier(u))' < promise'[u] + Limit
    <3>1. own[u] = 0
      BY <1>1, <2>5
    <3>2. /\ OwnEarlier(u) = {} /\ \A v \in started : v < u
          /\ passed[u] + Cardinality(Earlier(u)) < promise[u] + Limit
      BY <1>8, <2>1, <3>1 DEF Waits
    <3>3. u \in Eligible(key, busy, waiting) \ S
      BY <1>9, <2>1, <3>1
    <3>4. \A v \in started' : v < u
      BY <1>3, <1>4, <3>2, <3>3 DEF begun
    <3>5. Cardinality(busy) + Cardinality(S) = Limit
      BY <1>4, <3>3
    <3>6. Cardinality(running') = Limit
      <4>1. /\ IsFiniteSet(running) /\ IsFiniteSet(S) /\ Cardinality(S) \in Nat
        BY <1>2, UnderWayFinite
      <4>2. IsFiniteSet(busy)
        BY <4>1, FS_Subset DEF busy
      <4>3. \A v, w \in S : key[v] = key[w] => v = w
        <5>1. \A v \in S : \A w \in waiting : key[w] = key[v] => v <= w
          BY <1>4 DEF Eligible
        <5> QED
          BY <1>2, <5>1
      <4>4. Cardinality({key[v] : v \in S}) = Cardinality(S)
        BY <4>1, <4>3, OneThreadEach
      <4>5. IsFiniteSet({key[v] : v \in S})
        BY <4>1, KeysFinite
      <4>6. busy \cap {key[v] : v \in S} = {}
        BY <1>4 DEF Eligible
      <4>7. Cardinality(busy \cap {key[v] : v \in S}) = 0
        BY <4>6, FS_EmptySet
      <4>8. Cardinality(busy \cup {key[v] : v \in S})
              = Cardinality(busy) + Cardinality({key[v] : v \in S})
                - Cardinality(busy \cap {key[v] : v \in S})
        BY <4>2, <4>5, FS_Union
      <4>9. Cardinality(busy) \in Nat
        BY <4>2, FS_CardinalityType
      <4> QED
        BY <1>3, <3>5, <4>1, <4>4, <4>7, <4>8, <4>9
    <3>7. Cardinality(Earlier(u))' = Cardinality(Earlier(u) \ {t})
      BY <2>2
    <3>8. passed'[u] + Cardinality(Earlier(u))' < promise'[u] + Limit
      BY <1>1, <1>8, <2>1, <3>2, <3>7
    <3> QED
      BY <2>2, <3>2, <3>4, <3>6, <3>8
  <2> QED
    BY <2>3, <2>4, <2>5 DEF Waits
<1>11. ASSUME NEW u \in S
       PROVE  /\ own[u] = 0 => passed'[u] <= promise[u]
              /\ own[u] <= promise[u] /\ own[u] <= passed'[u]
  <2>1. u \in waiting /\ u \in Eligible(key, busy, waiting)
    BY <1>4
  <2>2. own[u] <= promise[u] /\ own[u] <= passed[u] + Cardinality(OwnEarlier(u))
    BY <1>8, <2>1 DEF Waits
  <2>3. OwnEarlier(u) \ {t} = {}
    <3>1. key[u] \notin busy /\ \A v \in waiting : key[v] = key[u] => u <= v
      BY <2>1 DEF Eligible
    <3>2. \A v \in started : key[v] = key[u] => key[v] = key[t]
      BY <1>2, <3>1 DEF Exclusive, busy
    <3>3. \A v \in started : key[v] = key[u] => v = t
      BY <1>1, <1>2, <3>2 DEF Exclusive
    <3>4. \A v \in waiting : key[v] = key[u] => ~ (v < u)
      BY <1>2, <2>1, <3>1
    <3> QED
      BY <3>3, <3>4 DEF OwnEarlier, Earlier
  <2>4. own[u] <= passed'[u]
    <3>1. Cardinality(OwnEarlier(u) \ {t}) = 0
      BY <2>3, FS_EmptySet
    <3>2. /\ own[u] \in Nat /\ passed[u] \in Nat /\ passed'[u] \in Nat
          /\ Cardinality(OwnEarlier(u)) \in Nat
          /\ passed'[u] + Cardinality(OwnEarlier(u) \ {t})
               >= passed[u] + Cardinality(OwnEarlier(u))
      BY <1>8, <2>1
    <3> QED
      BY <2>2, <3>1, <3>2
  <2>5. ASSUME own[u] = 0 PROVE passed'[u] <= promise[u]
    <3>1. passed[u] + Cardinality(Earlier(u)) < promise[u] + Limit
      BY <1>8, <2>1, <2>5 DEF Waits
    <3>2. Cardinality(running) = Limit /\ passed'[u] = passed[u] + 1
      BY <1>8, <1>9, <2>1, <2>5
    <3>3. started \subseteq Earlier(u)
      BY <1>8, <2>1, <2>5 DEF Waits, Earlier
    <3>4. Cardinality(started) <= Cardinality(Earlier(u))
      BY <1>8, <2>1, <3>3, FS_Subset
    <3>5. Cardinality(running) <= Cardinality(started)
      BY <1>2, UnderWayFinite, KeysFinite DEF Exclusive
    <3>6. Cardinality(started) \in Nat
      BY <1>2, UnderWayFinite
    <3>7. passed[u] \in Nat /\ promise[u] \in Nat /\ Cardinality(Earlier(u)) \in Nat
      BY <1>8, <2>1
    <3> QED
      BY <1>2, <3>1, <3>2, <3>4, <3>5, <3>6, <3>7
  <2> QED
    BY <2>2, <2>4, <2>5
<1>12. AheadHonest'
  <2> SUFFICES ASSUME NEW u \in started'
               PROVE  /\ own'[u] = 0 => passed'[u] <= promise'[u]
                      /\ own'[u] <= promise'[u] /\ own'[u] <= passed'[u]
    BY DEF AheadHonest
  <2>1. CASE u \in S
    BY <1>1, <1>11, <2>1
  <2>2. CASE u \in begun
    <3>1. u \in started /\ u \notin waiting /\ u \in Task
      BY <1>2, <1>5, <2>2 DEF begun
    <3>2. passed'[u] = passed[u]
      BY <1>1, <3>1
    <3> QED
      BY <1>1, <3>1, <3>2 DEF AheadInv, AheadHonest
  <2> QED
    BY <1>3, <2>1, <2>2
<1> QED
  BY <1>6, <1>7, <1>10, <1>12 DEF AheadInv

LEMMA AheadInvInit == AheadInit => AheadInv
<1> SUFFICES ASSUME AheadInit PROVE AheadInv
  OBVIOUS
<1>1. QueueInv /\ waiting = {} /\ started = {}
  BY QueueInvInit DEF AheadInit, QueueInit
<1> QED
  BY <1>1 DEF AheadInit, AheadInv, CountsOK, AheadHonest

LEMMA AheadInvStep == AheadInv /\ [AheadNext]_avars => AheadInv'
<1> SUFFICES ASSUME AheadInv, [AheadNext]_avars PROVE AheadInv'
  OBVIOUS
<1>1. [QueueNext]_qvars
  BY DEF AheadNext, AskAndEnqueue, FinishCounted, CloseCounted, QueueNext, QueueStep, avars
<1>2. QueueInv'
  BY <1>1, QueueInvStep DEF AheadInv
<1>3. CASE \E t \in Task, k \in Thread : AskAndEnqueue(t, k)
  BY <1>2, <1>3, AskKeeps
<1>4. CASE \E t \in Task : FinishCounted(t)
  BY <1>2, <1>4, FinishKeeps
<1>5. CASE CloseCounted \/ UNCHANGED avars
  <2>1. UNCHANGED <<key, running, waiting, started, promise, own, passed>>
    BY <1>5 DEF CloseCounted, Close, avars, qvars
  <2>2. CountsOK' /\ AheadHonest' /\ \A t \in Task : key'[t] = NoThread => passed'[t] = 0
    BY <2>1 DEF AheadInv, CountsOK, AheadHonest
  <2>3. ASSUME NEW t \in waiting' PROVE Waits(t)'
    <3>1. Waits(t)
      BY <2>1, <2>3 DEF AheadInv
    <3>2. Earlier(t)' = Earlier(t) /\ OwnEarlier(t)' = OwnEarlier(t)
      BY <2>1 DEF OwnEarlier, Earlier
    <3> QED
      BY <2>1, <3>1, <3>2 DEF Waits
  <2> QED
    BY <1>2, <2>2, <2>3 DEF AheadInv
<1> QED
  BY <1>3, <1>4, <1>5 DEF AheadNext

(* The inductive invariant holds while one process lives.                  *)
THEOREM AheadInvariant == AheadSpec => []AheadInv
  BY AheadInvInit, AheadInvStep, PTL DEF AheadSpec

(* A task of an idle thread starts after at most as many ends as it was     *)
(* told, and a task of a busy one after all its thread had under way, of   *)
(* which it was told (queue.ts:33-43, thread-work.ts:93-94).               *)
THEOREM AheadIsHonest == AheadSpec => []AheadHonest
<1>1. AheadInv => AheadHonest
  BY DEF AheadInv
<1> QED
  BY <1>1, AheadInvariant, PTL
=============================================================================
