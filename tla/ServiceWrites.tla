--------------------------- MODULE ServiceWrites ---------------------------
(***************************************************************************)
(* One write call against its service: resolve reads the target and says    *)
(* what the write will do, which is what is reviewed and approved; write    *)
(* sends the one request that does it; verify reads back (mcp tools/        *)
(* writes.ts, with each service's actions). Nothing keeps the services from  *)
(* changing in between: anyone else who uses them may.                      *)
(*                                                                         *)
(* McpWrites has the call's claim, outcome and answer when a request is      *)
(* lost; here every request is answered.                                    *)
(***************************************************************************)
EXTENDS ArrDownloads, ArrLibrary, OtherServices, Naturals, FiniteSets

CONSTANT MaxTouched    \* how many things change outside in one call

ASSUME MaxTouchedAssumption == MaxTouched \in Nat

VARIABLES
  call,      \* the family and the call itself, with the Arr's handling
  svc,       \* the services' state
  phase,     \* "called", "refused", "shown", "rejected", "accepted", "written", "told"
  plan,      \* what resolve returned
  touched,   \* what changed outside since resolve read it
  confirmed  \* whether the call's answer says "confirmed"

serviceVars == <<call, svc, phase, plan, touched, confirmed>>

NoPlan == [refused |-> TRUE, effects |-> <<>>, warned |-> {}]

-----------------------------------------------------------------------------
(* The tools' tables. *)

ReadHandling == CHOOSE h \in Handlings : h.auto = "off" /\ h.showsAuto = "off"

Calls ==
  [family : {"library"}, op : LibraryOps]
  \cup [family : {"job"}, op : JobOps, long : BOOLEAN]
  \cup [family : {"item"}, op : ItemOps] \cup [family : {"request"}, op : RequestOps]
  \cup {c \in [family : {"download"}, op : DownloadOps, h : Handlings] :
          \/ c.h = ReadHandling
          \/ c.op.tool = "mark_history_failed"
          \/ c.op.tool = "remove_queue_item" /\ c.op.blocklist /\ ~ c.op.skip}

Worlds(c) ==
  CASE c.family = "download" -> DownloadWorlds
    [] c.family = "library" -> LibraryWorlds(c.op)
    [] c.family = "job" -> JobWorlds
    [] c.family = "item" -> ItemWorlds
    [] c.family = "request" -> RequestWorlds

Values ==
  CASE call.family = "download" -> DownloadValues
    [] call.family = "library" -> LibraryValues
    [] call.family = "job" -> JobValues
    [] call.family = "item" -> ItemValues
    [] call.family = "request" -> RequestValues

(* What a read of a state may return.                                       *)
Views(state) ==
  {[of |-> state, whole |-> TRUE]}
  \cup (IF call.family = "download" THEN [of : Unread(state), whole : {FALSE}]
        ELSE IF call.family = "library" THEN [of : {state}, whole : {FALSE}]
        ELSE IF call.family = "job" THEN [of : FindJob(state, call.long), whole : {FALSE}] ELSE {})

Plan(view) ==
  CASE call.family = "download" -> DownloadPlan(call.op, view, call.h)
    [] call.family = "library" -> LibraryPlan(call.op, view)
    [] call.family = "job" -> JobPlan(call.op, view)
    [] call.family = "item" -> ItemPlan(call.op, view)
    [] call.family = "request" -> RequestPlan(call.op, view)

After ==
  CASE call.family = "download" -> DownloadAfter(call.op, svc, call.h)
    [] call.family = "library" -> LibraryAfter(call.op, plan.body, svc)
    [] call.family = "job" -> JobAfter(call.op, svc)
    [] call.family = "item" -> ItemAfter(call.op, svc)
    [] call.family = "request" -> RequestAfter(call.op, svc)

ReadsBack(view) ==
  CASE call.family = "download" -> DownloadConfirmed(call.op, view)
    [] call.family = "library" -> LibraryConfirmed(call.op, plan.body, view)
    [] call.family = "job" -> VerifyJob(call.op, view)
    [] call.family = "item" -> call.op.tool = "apply_remote_search" /\ RematchReadBack(call.op, view)
    [] call.family = "request" -> FALSE

TargetGone ==
  \/ call.family = "download" /\ DownloadGone(call.op, svc)
  \/ call.family = "library" /\ LibraryGone(call.op, svc)
  \/ call.op.tool = "retry_request" /\ svc["request"] = "none"

Background == Commands \cup {"refresh_item", "grab_release"}

(* What a change brings along: a season's flag its episodes', an episode's   *)
(* whether it is searched, a new queue item its data.                       *)
Along(t) ==
  CASE t \in Seasons -> Follow({t}) \cup {Search(e) : e \in Follow({t})}
    [] t \in Episodes -> {Search(t)}
    [] t \in FromDownload -> {"data"}
    [] OTHER -> {}

-----------------------------------------------------------------------------
ServiceInit ==
  /\ call \in Calls
  /\ svc \in Worlds(call)
  /\ phase = "called" /\ plan = NoPlan /\ touched = {} /\ confirmed = FALSE

Resolves ==
  /\ phase = "called"
  /\ \E view \in Views(svc) : plan' = Plan(view)
  /\ phase' = IF plan'.refused THEN "refused" ELSE "shown"
  /\ UNCHANGED <<call, svc, touched, confirmed>>

(* Someone else changes a thing.                                            *)
Outside ==
  /\ phase \in {"shown", "accepted", "written"}
  /\ \E t \in DOMAIN Values :
       /\ t \in touched \/ Cardinality(touched) < MaxTouched
       /\ \E v \in Values[t] \ {svc[t]} :
            svc' = [s \in DOMAIN svc |-> IF s = t \/ (t \in Seasons /\ s \in Follow({t})) THEN v ELSE svc[s]]
       /\ touched' = touched \cup {t} \cup Along(t)
  /\ UNCHANGED <<call, phase, plan, confirmed>>

(* The request arrives. A command is queued, and the item of a grabbed        *)
(* release follows when the queue is next refreshed; anything else is done at *)
(* once.                                                                    *)
Writes ==
  /\ phase = "shown"
  /\ IF TargetGone THEN phase' = "rejected" /\ svc' = svc
     ELSE IF call.op.tool \in Background THEN phase' = "accepted" /\ svc' = svc
     ELSE phase' = "written" /\ svc' = After
  /\ UNCHANGED <<call, plan, touched, confirmed>>

(* The service comes to a queued command.                                   *)
Runs ==
  /\ phase = "accepted"
  /\ phase' = "written" /\ svc' = After
  /\ UNCHANGED <<call, plan, touched, confirmed>>

Verifies ==
  /\ phase \in {"accepted", "written"}
  /\ phase' = "told"
  /\ \E view \in Views(svc) : confirmed' = ReadsBack(view)
  /\ UNCHANGED <<call, svc, plan, touched>>

ServiceNext == Resolves \/ Outside \/ Writes \/ Runs \/ Verifies

-----------------------------------------------------------------------------
ServiceActs == phase # "written" /\ phase' = "written"

(* A write changes nothing but what its review showed: an effect, to the     *)
(* value it announced, or something it warned of. What somebody else changed *)
(* after it was read may change back: a monitoring PUT sends the whole       *)
(* record as it was read (arr/monitoring.ts:18-22). One exception is in the  *)
(* code: mark_history_failed does not ask whether the queue it read was      *)
(* whole, so the warning that it discards an active download may be missing  *)
(* (arr/writes.ts:296-334; remove_queue_item asks, 174-178).                *)
ChangesWereShown ==
  [][ServiceActs =>
       \A t \in DOMAIN svc : svc'[t] # svc[t] =>
         \/ t \in DOMAIN plan.effects /\ svc'[t] = plan.effects[t]
         \/ t \in plan.warned \/ t \in touched
         \/ call.op.tool = "mark_history_failed" /\ t \in FromDownload \cup {"data"}]_serviceVars

(* The record that mark_history_failed was given is not the grab, and the    *)
(* settings make no search for the grab, which came from an interactive one. *)
SearchForAnother ==
  /\ call.op.tool = "mark_history_failed" /\ call.op.record # "grab"
  /\ call.h.source = "InteractiveSearch" /\ call.h.interactive = "off"

(* What a review announces does happen, unless it warned of that or somebody *)
(* else got in between: no replacement search is announced that the Arr's    *)
(* settings forbid, no search that finds nothing in scope, no retry of a job *)
(* that is not failed (arr/writes.ts:45-51, sonarr/writes.ts:66-70). One     *)
(* exception is in the code: mark_history_failed decides by the source of    *)
(* the record it was given, and the Arr by that of the grab; with any other  *)
(* record the search it announces may not come (arr/writes.ts:304, 326-330). *)
EffectsHappen ==
  [][ServiceActs /\ touched = {} =>
       \A t \in DOMAIN plan.effects \ plan.warned :
         svc'[t] = plan.effects[t] \/ (t = "search" /\ SearchForAnother)]_serviceVars

(* The things a confirmation speaks of.                                      *)
Confirms ==
  CASE call.family = "download" -> {DownloadSubject(call.op)}
    [] call.family = "item" -> {"match"}
    [] OTHER -> DOMAIN plan.effects

Monitoring == {"set_series_monitoring", "set_movie_monitoring"}

(* What a confirmation says: of a job that was retried or deleted, that it    *)
(* left its list; of a monitoring change, also that the fields it compares    *)
(* are as they were sent; of the others, that what was announced is so.      *)
Claim ==
  IF call.op.tool = "retry_job" THEN svc["job"] # "failed"
  ELSE IF call.op.tool = "delete_job" THEN svc["job"] \notin JobsIn(call.op.from)
  ELSE IF call.op.tool \in Monitoring THEN \A f \in Compared(plan.body) : svc[f] = plan.body[f]
  ELSE \A t \in Confirms : svc[t] = plan.effects[t]

(* Two lists do not tell what is asked of them: SABnzbd's, cut, does not show *)
(* a job that is there, and in the queue another download of the same title  *)
(* stands for the one that was grabbed.                                      *)
CutJobs == call.op.tool \in {"retry_job", "delete_job"} /\ call.long
TitleTaken == call.op.tool = "grab_release" /\ \E i \in Namesakes(call.op) : svc[i] = "listed"

(* "confirmed" is the truth at the time it is said, whoever changed what in  *)
(* between (arr/writes.ts:253-271, 402-418; arr/monitoring.ts:50-75). The    *)
(* exceptions are in the code: nothing is asked of how much of a SABnzbd     *)
(* list was read (sabnzbd/jobs.ts:95-101), and a grab goes by its title      *)
(* (arr/writes.ts:485-487).                                                 *)
ConfirmedIsSo == [][confirmed' # confirmed => Claim \/ CutJobs \/ TitleTaken]_serviceVars
=============================================================================
