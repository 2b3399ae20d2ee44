---------------------------- MODULE ArrDownloads ----------------------------
(***************************************************************************)
(* The writes on an Arr's downloads (mcp services/arr/writes.ts): what each *)
(* one announces from what it read, what the Arr then does, and when the    *)
(* read-back says "confirmed".                                             *)
(*                                                                         *)
(* A state is a function from things to values. Two queue items come from   *)
(* one download; a third one is a pending release, which has none; "grab" is *)
(* the item of a release that is grabbed by the call. A view                *)
(* is a state as it was read: of is the state, in which a list that did not *)
(* fit misses some, and whole says whether all was read. A plan is what a   *)
(* resolve returns: effects maps each thing it announces to its new value,  *)
(* warned holds the things it warns of.                                    *)
(***************************************************************************)
Items == {"item 1", "item 2", "pending"}
FromDownload == {"item 1", "item 2"}
QueueItems == Items \cup {"grab"}

(* What the Arr is set to do, and what it shows of that: a setting it does  *)
(* not report, and a grab that is not in its history, are "unknown".        *)
Handlings ==
  {h \in [auto : {"on", "off"}, interactive : {"on", "off"}, source : {"InteractiveSearch", "Search"},
          showsAuto : {"on", "off", "unknown"}, showsInteractive : {"on", "off", "unknown"},
          showsGrab : BOOLEAN] :
     /\ h.showsAuto \in {h.auto, "unknown"}
     /\ h.showsInteractive \in {h.interactive, "unknown"}
     /\ h.auto = "off" => h.source = "Search"
     /\ h.source = "Search" => h.interactive = "off" /\ h.showsInteractive = "off"}

(* Whether the Arr will search: "yes", "no", or "unknown". source is the      *)
(* release source in a history record, "none" if there is no record.         *)
BugInteractiveAlways(h, source) ==
  IF h.showsAuto = "on" THEN "yes" ELSE IF h.showsAuto = "off" THEN "no" ELSE "unknown"
RedownloadAfterFailure(h, source) ==
  IF h.showsAuto = "unknown" THEN "unknown"
  ELSE IF h.showsAuto = "off" THEN "no"
  ELSE IF source = "none" THEN "unknown"
  ELSE IF source # "InteractiveSearch" THEN "yes"
  ELSE CASE h.showsInteractive = "unknown" -> "unknown"
         [] h.showsInteractive = "on" -> "yes"
         [] OTHER -> "no"

RedownloadAfterRemoval(h, item, skip) ==
  IF item = "pending" \/ skip THEN "no"
  ELSE RedownloadAfterFailure(h, IF h.showsGrab THEN h.source ELSE "none")

(* The Arr's failed download handling: the grab's own source counts.        *)
Searches(h) == h.auto = "on" /\ (h.source = "Search" \/ h.interactive = "on")

Listed(state, items) == {i \in items : state[i] = "listed"}
Siblings(item) == IF item \in FromDownload THEN FromDownload \ {item} ELSE {}
ReleaseOf(item) == IF item \in FromDownload THEN "release" ELSE "pending release"

Foretold(answer) == IF answer = "yes" THEN {"search"} ELSE {}
Uncertain(answer) == IF answer = "unknown" THEN {"search"} ELSE {}

-----------------------------------------------------------------------------
(* remove_queue_item. *)

BugRemovesUnread(op, view) == view.of[op.item] # "listed"
RemovalRefused(op, view) ==
  \/ op.fromClient /\ ~ view.whole
  \/ view.of[op.item] # "listed"

RemoveQueueItem(op, view, h) ==
  LET search == IF op.blocklist THEN RedownloadAfterRemoval(h, op.item, op.skip) ELSE "no"
      blocked == IF op.blocklist THEN {ReleaseOf(op.item)} ELSE {}
  IN  [refused |-> RemovalRefused(op, view),
       effects |-> [t \in {op.item} \cup Foretold(search) \cup blocked |->
                      CASE t = op.item -> "absent" [] t \in blocked -> "blocked" [] OTHER -> "started"],
       warned |-> Uncertain(search) \cup Listed(view.of, Siblings(op.item))
                  \cup (IF op.fromClient THEN {"data"} ELSE {})]

(* The Arr removes a download's other items only with the download itself.  *)
QueueItemRemoved(op, state, h) ==
  LET gone == {op.item} \cup (IF op.fromClient THEN Siblings(op.item) ELSE {})
      fails == op.blocklist /\ op.item \in FromDownload /\ ~ op.skip
  IN  [t \in DOMAIN state |->
         CASE t \in gone -> "absent"
           [] t = "data" /\ op.fromClient /\ op.item \in FromDownload -> "deleted"
           [] t = ReleaseOf(op.item) /\ op.blocklist -> "blocked"
           [] t = "search" /\ fails /\ Searches(h) -> "started"
           [] OTHER -> state[t]]

BugConfirmsUnread(op, view) == view.of[op.item] # "listed"
RemovalConfirmed(op, view) == view.of[op.item] # "listed" /\ view.whole

-----------------------------------------------------------------------------
(* mark_history_failed, of a download's grab or of a later event of it, as   *)
(* its import, whose record has no release source. Whichever record is named, *)
(* the Arr fails the grab that shares its download; one still in the queue   *)
(* is discarded.                                                            *)

FindHistoryRecord(op, h) == op.record = "import" \/ h.showsGrab
SourceIn(op, h) == IF op.record = "grab" THEN h.source ELSE "not said"

MarkHistoryFailed(op, view, h) ==
  LET search == RedownloadAfterFailure(h, SourceIn(op, h))
      active == Listed(view.of, FromDownload)
  IN  [refused |-> ~ FindHistoryRecord(op, h),
       effects |-> [t \in {"release"} \cup Foretold(search) |->
                      IF t = "release" THEN "blocked" ELSE "started"],
       warned |-> Uncertain(search) \cup active \cup (IF active # {} THEN {"data"} ELSE {})]

HistoryMarkedFailed(op, state, h) ==
  [t \in DOMAIN state |->
     CASE t \in FromDownload -> "absent"
       [] t = "data" /\ Listed(state, FromDownload) # {} -> "deleted"
       [] t = "release" -> "blocked"
       [] t = "search" /\ Searches(h) -> "started"
       [] OTHER -> state[t]]

(* Looked for among the newest hundred entries only.                        *)
MarkConfirmed(op, view) == view.of["release"] = "blocked"

-----------------------------------------------------------------------------
(* delete_blocklist_entry. *)

DeleteBlocklistEntry(op, view, h) ==
  [refused |-> view.of["release"] # "blocked", effects |-> [release |-> "free"], warned |-> {}]

BlocklistEntryDeleted(op, state, h) == [state EXCEPT !["release"] = "free"]

EntryConfirmed(op, view) == view.of["release"] # "blocked" /\ view.whole

-----------------------------------------------------------------------------
(* grab_release, of one that a listing of the last hour has. The queue lists *)
(* it some time after the Arr took it; the read-back goes by the title.      *)

GrabRelease(op, view, h) ==
  [refused |-> ~ op.remembered, effects |-> [grab |-> "listed"], warned |-> {}]

ReleaseGrabbed(op, state, h) == [state EXCEPT !["grab"] = "listed"]

(* The other items of its title.                                            *)
Namesakes(op) == IF op.title = "release" THEN FromDownload ELSE {}

GrabConfirmed(op, view) == \E i \in {"grab"} \cup Namesakes(op) : view.of[i] = "listed"

-----------------------------------------------------------------------------
DownloadOps ==
  {op \in [tool : {"remove_queue_item"}, item : {"item 1", "pending"}, fromClient : BOOLEAN,
           blocklist : BOOLEAN, skip : BOOLEAN] : op.skip => op.blocklist}
  \cup [tool : {"mark_history_failed"}, record : {"grab", "import"}]
  \cup [tool : {"delete_blocklist_entry"}]
  \cup [tool : {"grab_release"}, remembered : BOOLEAN, cached : BOOLEAN, title : {"release", "its own"}]

DownloadPlan(op, view, h) ==
  CASE op.tool = "remove_queue_item" -> RemoveQueueItem(op, view, h)
    [] op.tool = "mark_history_failed" -> MarkHistoryFailed(op, view, h)
    [] op.tool = "delete_blocklist_entry" -> DeleteBlocklistEntry(op, view, h)
    [] op.tool = "grab_release" -> GrabRelease(op, view, h)

(* 404 for an item, an entry or a release that is not there any more.        *)
DownloadGone(op, state) ==
  \/ op.tool = "remove_queue_item" /\ state[op.item] # "listed"
  \/ op.tool = "delete_blocklist_entry" /\ state["release"] # "blocked"
  \/ op.tool = "grab_release" /\ ~ op.cached

DownloadAfter(op, state, h) ==
  CASE op.tool = "remove_queue_item" -> QueueItemRemoved(op, state, h)
    [] op.tool = "mark_history_failed" -> HistoryMarkedFailed(op, state, h)
    [] op.tool = "delete_blocklist_entry" -> BlocklistEntryDeleted(op, state, h)
    [] op.tool = "grab_release" -> ReleaseGrabbed(op, state, h)

DownloadConfirmed(op, view) ==
  CASE op.tool = "remove_queue_item" -> RemovalConfirmed(op, view)
    [] op.tool = "mark_history_failed" -> MarkConfirmed(op, view)
    [] op.tool = "delete_blocklist_entry" -> EntryConfirmed(op, view)
    [] op.tool = "grab_release" -> GrabConfirmed(op, view)

(* The thing a confirmation is about.                                       *)
DownloadSubject(op) ==
  CASE op.tool = "remove_queue_item" -> op.item
    [] op.tool = "grab_release" -> "grab"
    [] OTHER -> "release"

DownloadValues ==
  [t \in QueueItems \cup {"release", "pending release", "data", "search"} |->
     CASE t \in QueueItems -> {"listed", "absent"}
       [] t = "data" -> {"kept", "deleted"}
       [] t = "search" -> {"none", "started"}
       [] OTHER -> {"free", "blocked"}]

(* At first only a blocklist entry and the queue differ.                    *)
DownloadWorld(release, queue) ==
  [t \in DOMAIN DownloadValues |->
     CASE t \in Items -> queue[t]
       [] t = "grab" -> "absent"
       [] t = "release" -> release
       [] t = "pending release" -> "free"
       [] t = "data" -> "kept"
       [] t = "search" -> "none"]

DownloadWorlds ==
  {DownloadWorld(r, queue) : r \in {"free", "blocked"}, queue \in [Items -> {"listed", "absent"}]}

(* What a list that does not fit may miss.                                  *)
Unread(state) ==
  {[t \in DOMAIN state |-> IF t \in missed THEN (IF t \in QueueItems THEN "absent" ELSE "free") ELSE state[t]] :
     missed \in SUBSET {t \in QueueItems \cup {"release"} : state[t] \in {"listed", "blocked"}} \ {{}}}
=============================================================================
