--------------------------- MODULE OtherServices ---------------------------
(***************************************************************************)
(* The writes on SABnzbd's jobs, Jellyfin's items and Seerr's requests (mcp *)
(* services/sabnzbd, jellyfin and seerr). States, views and plans as in      *)
(* ArrDownloads; of the views, only SABnzbd's lists may be cut.             *)
(***************************************************************************)
EXTENDS Naturals, FiniteSets

Announced(refused, effects, warned) == [refused |-> refused, effects |-> effects, warned |-> warned]

-----------------------------------------------------------------------------
(* SABnzbd: one job, in the queue, in history, or gone. A list is read up to *)
(* 500 jobs; an old version that ignores the job's id may so leave it out.   *)

Queued == {"waiting", "paused"}
InHistory == {"failed", "completed"}
JobsIn(list) == IF list = "queue" THEN Queued ELSE InHistory

FindJob(state, long) ==
  {state} \cup (IF long THEN {[state EXCEPT !["job"] = "gone"]} ELSE {})

RequireJob(view, list) == view.of["job"] \in JobsIn(list)

RetryJob(op, view) == Announced(view.of["job"] # "failed", [job |-> "waiting"], {})
PauseJob(op, view) == Announced(view.of["job"] # "waiting", [job |-> "paused"], {})
ResumeJob(op, view) == Announced(view.of["job"] # "paused", [job |-> "waiting"], {})
SetPriority(op, view) == Announced(~ RequireJob(view, "queue"), [priority |-> op.value], {})
ChangeCategory(op, view) ==
  Announced(~ RequireJob(view, "queue") \/ view.of["category"] = op.value, [category |-> op.value], {})
DeleteJob(op, view) ==
  Announced(~ RequireJob(view, op.from), [job |-> "gone"], IF op.files THEN {"files"} ELSE {})

JobPlan(op, view) ==
  CASE op.tool = "retry_job" -> RetryJob(op, view)
    [] op.tool = "pause_job" -> PauseJob(op, view)
    [] op.tool = "resume_job" -> ResumeJob(op, view)
    [] op.tool = "set_priority" -> SetPriority(op, view)
    [] op.tool = "change_category" -> ChangeCategory(op, view)
    [] op.tool = "delete_job" -> DeleteJob(op, view)

(* SABnzbd answers with success, and does nothing to a job that is not where *)
(* the call looks for it.                                                   *)
JobAfter(op, state) ==
  LET job == state["job"]
  IN  CASE op.tool = "retry_job" /\ job = "failed" -> [state EXCEPT !["job"] = "waiting"]
        [] op.tool = "pause_job" /\ job \in Queued -> [state EXCEPT !["job"] = "paused"]
        [] op.tool = "resume_job" /\ job \in Queued -> [state EXCEPT !["job"] = "waiting"]
        [] op.tool = "set_priority" /\ job \in Queued -> [state EXCEPT !["priority"] = op.value]
        [] op.tool = "change_category" /\ job \in Queued -> [state EXCEPT !["category"] = op.value]
        [] op.tool = "delete_job" /\ job \in JobsIn(op.from) ->
             [state EXCEPT !["job"] = "gone", !["files"] = IF op.files THEN "deleted" ELSE @]
        [] OTHER -> state

VerifyJob(op, view) ==
  LET job == view.of["job"]
  IN  CASE op.tool = "retry_job" -> job # "failed"
        [] op.tool = "pause_job" -> job = "paused"
        [] op.tool = "resume_job" -> job \in Queued \ {"paused"}
        [] op.tool = "set_priority" -> job \in Queued /\ view.of["priority"] = op.value
        [] op.tool = "change_category" -> job \in Queued /\ view.of["category"] = op.value
        [] op.tool = "delete_job" -> job \notin JobsIn(op.from)

-----------------------------------------------------------------------------
(* Jellyfin: an item, and what its providers return for an id. "metadata"    *)
(* is the item's and its children's.                                        *)

(* candidateOf: a candidate, as far as the choice tells them apart. from is  *)
(* the search provider.                                                     *)
CandidateKinds == [ids : {"wanted", "other", "unreadable"}, from : {"tmdb", "tvdb"}, title : {"a", "b"}]

(* From the named search provider if there is one.                          *)
Matching(found, from) == {c \in found : c.ids = "wanted" /\ from \in {"", c.from}}

ExactCandidate(found, from) ==
  /\ \A c \in found : c.ids # "unreadable"
  /\ Cardinality(Matching(found, from)) = 1

RematchType(view) == view.of["type"] \in {"movie", "series"}

ApplyRemoteSearch(op, view) ==
  LET below == IF view.of["type"] = "series" THEN {"children"} ELSE {}
  IN  Announced(~ RematchType(view) \/ ~ ExactCandidate(op.found, op.from),
                [t \in {"match"} \cup below |-> IF t = "match" THEN "wanted" ELSE "refreshed"],
                {"metadata"})

RematchReadBack(op, view) == view.of["match"] = "wanted"

RefreshItem(op, view) ==
  Announced(FALSE, [refresh |-> "run"], IF op.replaces THEN {"metadata"} ELSE {})

ItemPlan(op, view) ==
  IF op.tool = "refresh_item" THEN RefreshItem(op, view) ELSE ApplyRemoteSearch(op, view)

ItemAfter(op, state) ==
  IF op.tool = "refresh_item"
  THEN [state EXCEPT !["refresh"] = "run", !["metadata"] = IF op.replaces THEN "replaced" ELSE @]
  ELSE [state EXCEPT !["match"] = "wanted", !["metadata"] = "replaced",
                     !["children"] = IF state["type"] = "series" THEN "refreshed" ELSE @]

-----------------------------------------------------------------------------
(* Seerr: the requests for one title. *)

CreateRequest(op, view) ==
  Announced((op.media = "movie" /\ op.seasons # {}) \/ ~ op.seasons \subseteq {1, 2},
            [request |-> "pending"], {t \in {"request"} : view.of["request"] # "none"})

(* Of a request that is not failed it only warns.                           *)
RetryRequest(op, view) ==
  Announced(view.of["request"] = "none", [request |-> "pending"],
            {t \in {"request"} : view.of["request"] # "failed"})

RequestPlan(op, view) ==
  IF op.tool = "create_request" THEN CreateRequest(op, view) ELSE RetryRequest(op, view)

RequestAfter(op, state) ==
  LET from == IF op.tool = "create_request" THEN "none" ELSE "failed"
  IN  [state EXCEPT !["request"] = IF @ = from THEN "pending" ELSE @]

-----------------------------------------------------------------------------
JobOps ==
  [tool : {"retry_job", "pause_job", "resume_job"}]
  \cup [tool : {"set_priority", "change_category"}, value : {"low", "high"}]
  \cup [tool : {"delete_job"}, from : {"queue", "history"}, files : BOOLEAN]

JobValues ==
  [job |-> Queued \cup InHistory \cup {"gone"}, files |-> {"kept", "deleted"},
   priority |-> {"low", "high"}, category |-> {"low", "high"}]

JobWorlds ==
  {[job |-> j, files |-> "kept", priority |-> v, category |-> v] :
     j \in JobValues["job"], v \in {"low", "high"}}

ItemOps ==
  [tool : {"apply_remote_search"}, found : {some \in SUBSET CandidateKinds : Cardinality(some) <= 2},
   from : {"", "tmdb"}]
  \cup [tool : {"refresh_item"}, replaces : BOOLEAN]

ItemValues ==
  [match |-> {"none", "wanted", "another"}, metadata |-> {"edited", "replaced"},
   children |-> {"edited", "refreshed"}, refresh |-> {"none", "run"}]

ItemWorlds ==
  {[type |-> type, match |-> "none", refresh |-> "none", metadata |-> "edited", children |-> "edited"] :
     type \in {"movie", "series", "episode"}}

RequestOps ==
  [tool : {"create_request"}, media : {"movie", "tv"}, seasons : SUBSET {1, 3}]
  \cup [tool : {"retry_request"}]

RequestValues == [request |-> {"none", "pending", "failed"}]
RequestWorlds == {[request |-> r] : r \in RequestValues["request"]}
=============================================================================
