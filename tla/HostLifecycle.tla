---------------------------- MODULE HostLifecycle ----------------------------
(***************************************************************************)
(* The host process from boot to exit (packages/host/src/index.ts) with    *)
(* the gateways that listen: Discord, then Fluxer, each admitting messages *)
(* (ChatAdmission), and a webhook the host serves.                         *)
(*                                                                         *)
(* A run is only queued, running or ended here: ThreadQueue and ThreadWork *)
(* say which one the queue starts and what a run does.                     *)
(***************************************************************************)
EXTENDS ChatAdmission

CONSTANTS
  MaxStarts     \* how often the process starts (bound)

Listener == {"discord", "fluxer"}

VARIABLES
  stage,        \* where the process is
  dead,         \* gateways whose platform closed the socket for good
  lost,         \* gatewayLost is complete
  code,         \* the exit code a shutdown will use
  deadline,     \* the grace budget of the shutdown is over
  journalOpen,
  starts

hostVars == <<stage, dead, lost, code, deadline, journalOpen, starts>>
vars == <<opened, queueOpen, link, admissionVars, queueVars, hostVars>>

NoCode == "none"
Unfinished == {m \in Message : job[m] \in {"queued", "running"}}

Init ==
  /\ opened = FALSE /\ queueOpen = FALSE
  /\ link = [g \in Listener |-> "off"]
  /\ at = [m \in Message |-> "unsent"]
  /\ threads = [g \in Listener |-> <<>>]
  /\ created = {} /\ denials = {} /\ unheard = {}
  /\ job = [m \in Message |-> "none"]
  /\ inQueue = {}
  /\ stage = "down"
  /\ dead = {} /\ lost = FALSE
  /\ code = NoCode
  /\ deadline = FALSE
  /\ journalOpen = FALSE
  /\ starts = 0

-----------------------------------------------------------------------------
(* Boot. *)

(* The configuration, the models and the MCP server answer, and the journal *)
(* is opened.                                                              *)
Starts ==
  /\ stage \in {"down", "exited"} /\ starts < MaxStarts
  /\ starts' = starts + 1
  /\ stage' = "listening"
  /\ journalOpen' = TRUE /\ queueOpen' = TRUE /\ opened' = FALSE
  /\ code' = NoCode /\ lost' = FALSE /\ dead' = {} /\ deadline' = FALSE
  /\ threads' = [g \in Listener |-> <<>>]
  /\ UNCHANGED <<link, at, created, denials, unheard, queueVars>>

Links(g, from, to) == link[g] = from /\ link' = [link EXCEPT ![g] = to]

admissionIdle == UNCHANGED <<opened, queueOpen, admissionVars, queueVars>>

(* One gateway after another. The socket opens, and hears, before the       *)
(* gateway says it listens.                                                *)
ConnectsDiscord ==
  /\ stage = "listening"
  /\ Links("discord", "off", "connecting") \/ Links("discord", "connecting", "listening")
  /\ "discord" \notin dead
  /\ admissionIdle /\ UNCHANGED hostVars

(* Fluxer: the socket is ready, then the audit of the guild burst passes.  *)
ConnectsFluxer ==
  /\ stage = "listening" /\ link["discord"] = "listening"
  /\ \/ Links("fluxer", "off", "connecting") /\ "fluxer" \notin dead
     \/ Links("fluxer", "connecting", "auditing") /\ "fluxer" \notin dead
     \/ Links("fluxer", "auditing", "listening")
  /\ admissionIdle /\ UNCHANGED hostVars

ListensAll ==
  /\ stage = "listening"
  /\ \A g \in Listener : link[g] = "listening"
  /\ stage' = "restoring"
  /\ admissionIdle
  /\ UNCHANGED <<link, dead, lost, code, deadline, journalOpen, starts>>

BugLossForgotten == lost' = (lost \/ stage = "serving")

(* The first loss is kept until shutdown is in place.                       *)
Loses == lost' = TRUE

(* A close that reconnecting cannot fix. While a gateway connects, it fails *)
(* the boot; once its socket is ready, it is a loss.                        *)
ClosesForGood(g) ==
  /\ g \notin dead
  /\ link[g] \in {"connecting", "auditing", "listening"}
  /\ dead' = dead \cup {g}
  /\ IF link[g] = "connecting" THEN UNCHANGED lost ELSE Loses
  /\ admissionIdle
  /\ UNCHANGED <<link, stage, code, deadline, journalOpen, starts>>

(* restoreEffect: every unfinished run is queued, or cancelled because its  *)
(* sender may no longer use the bot. Then the host serves HTTP, installs   *)
(* the shutdown and opens admission.                                       *)
Restores ==
  /\ stage = "restoring"
  /\ \E denied \in SUBSET Unfinished :
       /\ job' = [m \in Message |-> IF m \in denied THEN "ended"
                                    ELSE IF m \in Unfinished THEN "queued" ELSE job[m]]
       /\ inQueue' = Unfinished \ denied
  /\ stage' = "serving"
  /\ opened' = TRUE
  /\ UNCHANGED <<queueOpen, link, admissionVars, dead, lost, code, deadline, journalOpen, starts>>

(* What dies with the process: admissions, listeners, the queue. A thread  *)
(* start it waited for may still happen.                                   *)
Ends(how) ==
  /\ code' = how
  /\ stage' = IF how = NoCode THEN "down" ELSE "exited"
  /\ LET cut == {m \in Message : at[m] \in Active}
     IN  /\ at' = [m \in Message |-> IF m \in cut THEN "gone" ELSE at[m]]
         /\ unheard' = unheard \cup {m \in cut : at[m] \in {"opening", "created"}}
  /\ link' = [g \in Listener |-> "off"]
  /\ inQueue' = {}
  /\ opened' = FALSE /\ queueOpen' = FALSE

(* A gateway that cannot connect, an audit that finds a problem or waits    *)
(* too long, a recovery that fails: the listeners close and the process     *)
(* exits.                                                                  *)
BootFails ==
  /\ stage \in {"listening", "restoring"}
  /\ Ends("failure")
  /\ journalOpen' = FALSE
  /\ UNCHANGED <<threads, created, denials, job, dead, lost, deadline, starts>>

(* Killed, or a signal before the shutdown is installed.                   *)
Dies ==
  /\ stage \notin {"down", "exited"}
  /\ Ends(NoCode)
  /\ journalOpen' = FALSE
  /\ UNCHANGED <<threads, created, denials, job, dead, lost, deadline, starts>>

-----------------------------------------------------------------------------
(* Service. *)

(* POST /webhook: authorized and well formed, it is submitted at once.      *)
Webhook(m) ==
  /\ at[m] = "unsent" /\ gateway[m] \notin Listener
  /\ stage \in {"serving", "unlistening", "draining"}
  /\ Goes(m, "gone")
  /\ Submits(m)
  /\ UNCHANGED <<opened, queueOpen, link, threads, created, denials, unheard, hostVars>>

RunStarts(m) ==
  /\ m \in inQueue /\ job[m] = "queued"
  /\ job' = [job EXCEPT ![m] = "running"]
  /\ UNCHANGED <<opened, queueOpen, link, admissionVars, inQueue, hostVars>>

RunEnds(m) ==
  /\ m \in inQueue /\ job[m] = "running"
  /\ job' = [job EXCEPT ![m] = "ended"]
  /\ inQueue' = inQueue \ {m}
  /\ UNCHANGED <<opened, queueOpen, link, admissionVars, hostVars>>

-----------------------------------------------------------------------------
(* Shutdown. Only the first request runs.                                  *)

Stops(how) ==
  /\ stage = "serving"
  /\ stage' = "unlistening"
  /\ code' = how
  /\ admissionIdle
  /\ UNCHANGED <<link, dead, lost, deadline, journalOpen, starts>>

Signalled == Stops("success")

GatewayLost == lost /\ Stops("failure")

(* The listeners close in reverse. What a socket brings once its gateway's  *)
(* admissions are closed is dropped.                                       *)
Quiet(g) ==
  /\ link[g] = "off"
  /\ \A m \in Message : gateway[m] = g => at[m] \notin Active

LinkCloses(g) ==
  /\ stage = "unlistening"
  /\ g = "discord" => Quiet("fluxer")
  /\ link[g] # "off"
  /\ link' = [link EXCEPT ![g] = "off"]
  /\ admissionIdle /\ UNCHANGED hostVars

Interrupts(m) ==
  /\ stage = "unlistening" /\ gateway[m] \in Listener
  /\ link[gateway[m]] = "off"
  /\ Interrupted(m)
  /\ UNCHANGED <<opened, queueOpen, link, hostVars>>

(* A socket is closed within 5 seconds and an interrupted admission ends at *)
(* once: only a thread that is being opened can use up the budget.          *)
DeadlinePasses ==
  /\ ~ deadline
  /\ \/ stage = "unlistening" /\ \E m \in Message : at[m] \in Active \ Interruptible
     \/ stage = "draining"
  /\ deadline' = TRUE
  /\ admissionIdle
  /\ UNCHANGED <<link, stage, dead, lost, code, journalOpen, starts>>

Unlistened == \A g \in Listener : Quiet(g)

(* The queue closes once nothing listens, or when the budget is over.       *)
ClosesQueue ==
  /\ stage = "unlistening"
  /\ Unlistened \/ deadline
  /\ queueOpen' = FALSE
  /\ stage' = "draining"
  /\ UNCHANGED <<opened, link, admissionVars, queueVars, dead, lost, code, deadline,
                 journalOpen, starts>>

BugClosesJournal == FALSE
JournalLeftOpen == inQueue # {}

(* A journal under active runs stays open until the process is gone.        *)
Drains ==
  /\ stage = "draining"
  /\ inQueue = {} \/ deadline
  /\ stage' = "closing"
  /\ journalOpen' = JournalLeftOpen
  /\ admissionIdle
  /\ UNCHANGED <<link, dead, lost, code, deadline, starts>>

Exits ==
  /\ stage = "closing"
  /\ Ends(code)
  /\ journalOpen' = FALSE
  /\ UNCHANGED <<threads, created, denials, job, dead, lost, deadline, starts>>

-----------------------------------------------------------------------------
HostStep ==
  \/ ConnectsDiscord \/ ConnectsFluxer \/ ListensAll \/ Restores
  \/ GatewayLost \/ ClosesQueue \/ Drains \/ Exits
  \/ \E g \in Listener : LinkCloses(g)
  \/ \E m \in Message : Interrupts(m)

Chat(m) ==
  /\ gateway[m] \in Listener
  /\ Hears(m) \/ AdmissionStep(m)
  /\ UNCHANGED <<opened, queueOpen, link, hostVars>>

Next ==
  \/ Starts \/ BootFails \/ Dies
  \/ HostStep
  \/ Signalled \/ DeadlinePasses
  \/ \E g \in Listener : ClosesForGood(g)
  \/ \E m \in Message : Webhook(m) \/ Chat(m) \/ RunStarts(m) \/ RunEnds(m)

Spec == Init /\ [][Next]_vars

(* The host's own steps and its clock go on, and each wait of the boot has  *)
(* a deadline; platforms and runs owe the host nothing.                     *)
FairSpec == Spec /\ WF_vars(HostStep) /\ WF_vars(DeadlinePasses) /\ WF_vars(BootFails)

-----------------------------------------------------------------------------
(* Properties. *)

(* An admission that hears its thread was opened leaves a run for it in the *)
(* journal. Only a shutdown past its 30 seconds may not wait for that, and  *)
(* only the end of the process may cut it (chat-admission.ts:325-328,       *)
(* index.ts:302-310).                                                      *)
OpenedThread(m) == at[m] = "created" /\ at'[m] # "created" /\ m \notin unheard'

OpenedThreadRuns ==
  [][\A m \in Message : OpenedThread(m) => job'[m] # "none" \/ deadline]_vars

(* What the comment promises: "a shutdown that stops listening waits for    *)
(* both, so no thread is left without its run" (chat-admission.ts:326-327). *)
NoThreadWithoutRun ==
  [][\A m \in Message : OpenedThread(m) => job'[m] # "none"]_vars

(* Whatever a gateway heard, it posts, opens and submits nothing before     *)
(* recovery has queued its runs, and nothing after the queue closed, unless *)
(* a shutdown ran out of time (index.ts:149-158, gateway.ts:121-126). A     *)
(* thread start no one hears the answer of may still happen.                *)
Acts(m) ==
  \/ job[m] = "none" /\ job'[m] # "none"
  \/ m \in denials' \ denials
  \/ m \in (created' \ created) \ unheard

ActsInService ==
  [][\A m \in Message : Acts(m) =>
       \/ stage \in {"serving", "unlistening"} /\ opened
       \/ deadline /\ job'[m] = job[m]]_vars

(* No run is journaled, started or ended in a closed journal: the deadline  *)
(* ends the process under its runs and not the journal (index.ts:323-325).  *)
JournalOutlivesRuns ==
  [][\A m \in Message : job'[m] # job[m] => journalOpen]_vars

(* A shutdown ends the process, and so does a gateway lost for good, even   *)
(* when it is lost during the boot; hung requests and runs cannot keep it   *)
(* up (index.ts:154-160, 185-188, 281-285).                                 *)
HostEnds ==
  stage = "unlistening" \/ dead # {} ~> stage \in {"exited", "down"}
=============================================================================
