----------------------------- MODULE ArrLibrary -----------------------------
(***************************************************************************)
(* The writes on an Arr's library (mcp services/sonarr/writes.ts, radarr/   *)
(* writes.ts, arr/manual-import.ts, arr/commands.ts): a series with two     *)
(* seasons and an episode in each, a movie, the file of both episodes or of *)
(* the movie, and two files in an import folder. States, views and plans as *)
(* in ArrDownloads; a view that is not whole is a record that reads back    *)
(* without its id, path or profile. "series" stands for its two own flags.  *)
(***************************************************************************)
Seasons == {"season 1", "season 2"}
Episodes == {"episode 1", "episode 2"}
SeasonOf == [e \in Episodes |-> IF e = "episode 1" THEN "season 1" ELSE "season 2"]
Imports == {"import 1", "import 2"}
Flags == {"on", "off"}

-----------------------------------------------------------------------------
(* set_series_monitoring and set_movie_monitoring. PUT sends the whole       *)
(* record back: what is monitored, and all the other fields.                *)

OtherFields == {"preserved fields", "other fields"}
SeriesFields == Seasons \cup {"series"} \cup OtherFields
MovieFields == {"movie"} \cup OtherFields

Patched(record, fields, change) ==
  [f \in fields |-> IF f \in DOMAIN change THEN change[f] ELSE record[f]]

(* A season's flag sets its episodes.                                       *)
Follow(seasons) == {e \in Episodes : SeasonOf[e] \in seasons}

MonitoringEffects(record, body) ==
  [f \in {g \in DOMAIN body : body[g] # record[g]} |-> body[f]]

(* arrRecord: a record without its essentials is never sent back.           *)
ArrRecord(view) == view.whole

SetMonitoring(op, view, fields) ==
  LET body == Patched(view.of, fields, op.change)
      effects == MonitoringEffects(view.of, body)
  IN  [refused |-> ~ ArrRecord(view) \/ DOMAIN effects = {},
       effects |-> effects, warned |-> Follow(DOMAIN effects), body |-> body]

SetSeriesMonitoring(op, view) == SetMonitoring(op, view, SeriesFields)
SetMovieMonitoring(op, view) == SetMonitoring(op, view, MovieFields)

(* PUT replaces the record.                                                 *)
RecordReplaced(body, state) ==
  LET moved == {s \in Seasons \cap DOMAIN body : body[s] # state[s]}
  IN  [t \in DOMAIN state |->
         CASE t \in DOMAIN body -> body[t]
           [] t \in Follow(moved) -> body[SeasonOf[t]]
           [] OTHER -> state[t]]

(* Only some of the other fields are compared: the path, the profile, ...   *)
Compared(body) == DOMAIN body \ {"other fields"}
MonitoringReadBack(body, view) == ArrRecord(view) /\ \A f \in Compared(body) : view.of[f] = body[f]

-----------------------------------------------------------------------------
(* set_episode_monitoring. *)

Planned(refused, effects, warned) ==
  [refused |-> refused, effects |-> effects, warned |-> warned, body |-> <<>>]

SetEpisodeMonitoring(op, view) ==
  LET changing == {e \in op.episodes : view.of[e] # op.flag}
  IN  Planned(changing = {}, [e \in changing |-> op.flag], {})

EpisodesSet(op, state) == [t \in DOMAIN state |-> IF t \in op.episodes THEN op.flag ELSE state[t]]

EpisodesReadBack(op, view) == \A e \in op.episodes : view.of[e] = op.flag

-----------------------------------------------------------------------------
(* delete_episode_file and delete_movie_file. *)

DeleteFile(op, view) == Planned(view.of["file"] = "deleted", [file |-> "deleted"], {})
FileDeleted(op, state) == [state EXCEPT !["file"] = "deleted"]

(* 404 on its own path.                                                    *)
VerifyDeleted(op, view) == view.of["file"] = "deleted"

-----------------------------------------------------------------------------
(* auto_search: named episodes are searched in any case, a season's or the  *)
(* series' when they are monitored.                                        *)

SearchScope(op, state) ==
  IF op.episodes # {} THEN op.episodes
  ELSE {e \in Episodes : state[e] = "on" /\ SeasonOf[e] \in op.seasons}

Search(e) == IF e = "episode 1" THEN "search 1" ELSE "search 2"

AutoSearch(op, view) ==
  LET scope == SearchScope(op, view.of)
  IN  Planned(scope = {} \/ (op.episodes # {} /\ op.seasons # {}),
              [s \in {Search(e) : e \in scope} |-> "run"], {})

SearchRun(op, state) ==
  LET searched == {Search(e) : e \in SearchScope(op, state)}
  IN  [t \in DOMAIN state |-> IF t \in searched THEN "run" ELSE state[t]]

AutoSearchMovie(op, view) == Planned(FALSE, [t \in {"search movie"} |-> "run"], {})
MovieSearchRun(op, state) == [state EXCEPT !["search movie"] = "run"]

-----------------------------------------------------------------------------
(* manual_import and scan_import_folder. A candidate is "offered", or       *)
(* "rejected" for a reason, or its reasons cannot be read.                  *)

Candidates(state) == {f \in Imports : state[f] \in {"offered", "rejected", "unreadable"}}

KnownRejections(state, files) == \A f \in files : state[f] # "unreadable"

CandidateWarnings(state, files) == {f \in files : state[f] = "rejected"}

MatchCandidates(op, state) == op.files \subseteq Candidates(state) /\ KnownRejections(state, op.files)

(* The Arr may leave out a named file that it rejects.                      *)
ManualImport(op, view) ==
  Planned(~ MatchCandidates(op, view.of), [f \in op.files |-> "imported"],
          CandidateWarnings(view.of, op.files))

FilesImported(op, state) ==
  [t \in DOMAIN state |->
     IF t \in op.files \cap Candidates(state) /\ state[t] # "rejected" THEN "imported" ELSE state[t]]

ScanCandidates(state) == Candidates(state) # {} /\ KnownRejections(state, Candidates(state))

(* The scan takes what is accepted when it runs.                            *)
ScanImportFolder(op, view) ==
  LET files == Candidates(view.of)
  IN  Planned(~ ScanCandidates(view.of), [f \in files |-> "imported"], CandidateWarnings(view.of, files))

FolderScanned(op, state) ==
  [t \in DOMAIN state |-> IF t \in Imports /\ state[t] = "offered" THEN "imported" ELSE state[t]]

-----------------------------------------------------------------------------
(* run_command, for one item or for every download. *)
RunCommand(op, view) ==
  Planned(op.command = "RefreshMonitoredDownloads" <=> op.item, [refresh |-> "run"], {})
CommandRun(op, state) == [state EXCEPT !["refresh"] = "run"]

-----------------------------------------------------------------------------
ChangesOf(fields) == UNION {[some -> Flags] : some \in SUBSET (fields \ OtherFields) \ {{}}}

LibraryOps ==
  [tool : {"set_series_monitoring"}, change : ChangesOf(SeriesFields)]
  \cup [tool : {"set_movie_monitoring"}, change : ChangesOf(MovieFields)]
  \cup [tool : {"set_episode_monitoring"}, episodes : SUBSET Episodes \ {{}}, flag : Flags]
  \cup [tool : {"delete_file"}]
  \cup [tool : {"auto_search"}, episodes : SUBSET Episodes, seasons : {{"season 1"}, Seasons}]
  \cup [tool : {"auto_search_movie"}]
  \cup [tool : {"manual_import"}, files : SUBSET Imports \ {{}}]
  \cup [tool : {"scan_import_folder"}]
  \cup [tool : {"run_command"}, command : {"RescanSeries", "RefreshMonitoredDownloads"}, item : BOOLEAN]

LibraryPlan(op, view) ==
  CASE op.tool = "set_series_monitoring" -> SetSeriesMonitoring(op, view)
    [] op.tool = "set_movie_monitoring" -> SetMovieMonitoring(op, view)
    [] op.tool = "set_episode_monitoring" -> SetEpisodeMonitoring(op, view)
    [] op.tool = "delete_file" -> DeleteFile(op, view)
    [] op.tool = "auto_search" -> AutoSearch(op, view)
    [] op.tool = "auto_search_movie" -> AutoSearchMovie(op, view)
    [] op.tool = "manual_import" -> ManualImport(op, view)
    [] op.tool = "scan_import_folder" -> ScanImportFolder(op, view)
    [] op.tool = "run_command" -> RunCommand(op, view)

(* What is only queued by the write, and runs when the Arr comes to it.     *)
Commands == {"auto_search", "auto_search_movie", "manual_import", "scan_import_folder", "run_command"}

LibraryGone(op, state) == op.tool = "delete_file" /\ state["file"] = "deleted"

LibraryAfter(op, body, state) ==
  CASE op.tool \in {"set_series_monitoring", "set_movie_monitoring"} -> RecordReplaced(body, state)
    [] op.tool = "set_episode_monitoring" -> EpisodesSet(op, state)
    [] op.tool = "delete_file" -> FileDeleted(op, state)
    [] op.tool = "auto_search" -> SearchRun(op, state)
    [] op.tool = "auto_search_movie" -> MovieSearchRun(op, state)
    [] op.tool = "manual_import" -> FilesImported(op, state)
    [] op.tool = "scan_import_folder" -> FolderScanned(op, state)
    [] op.tool = "run_command" -> CommandRun(op, state)

(* verifyCommand shows a command's status and confirms nothing.             *)
LibraryConfirmed(op, body, view) ==
  CASE op.tool \in {"set_series_monitoring", "set_movie_monitoring"} -> MonitoringReadBack(body, view)
    [] op.tool = "set_episode_monitoring" -> EpisodesReadBack(op, view)
    [] op.tool = "delete_file" -> VerifyDeleted(op, view)
    [] op.tool \in Commands -> FALSE

CommandThings == {"search 1", "search 2", "search movie", "refresh"}
LibraryThings ==
  Seasons \cup Episodes \cup Imports \cup CommandThings \cup {"series", "movie", "file"} \cup OtherFields

LibraryValues ==
  [t \in LibraryThings |->
     CASE t \in Imports -> {"absent", "offered", "rejected", "unreadable", "imported"}
       [] t \in CommandThings -> {"none", "run"}
       [] t \in OtherFields -> {"as set", "edited"}
       [] t = "file" -> {"there", "deleted"}
       [] OTHER -> Flags]

(* The things whose first value matters to a call; the others start plain.  *)
Varies(op) ==
  CASE op.tool = "set_series_monitoring" -> Seasons \cup Episodes \cup {"series"}
    [] op.tool = "set_movie_monitoring" -> {"movie"}
    [] op.tool \in {"set_episode_monitoring", "auto_search"} -> Episodes
    [] op.tool \in {"manual_import", "scan_import_folder"} -> Imports
    [] op.tool = "delete_file" -> {"file"}
    [] OTHER -> {}

Plain ==
  [t \in LibraryThings |->
     CASE t \in Imports -> "absent"
       [] t \in CommandThings -> "none"
       [] t \in OtherFields -> "as set"
       [] t = "file" -> "there"
       [] OTHER -> "on"]

LibraryWorlds(op) ==
  {[t \in LibraryThings |-> IF t \in Varies(op) THEN f[t] ELSE Plain[t]] :
     f \in {g \in [Varies(op) -> UNION {LibraryValues[t] : t \in Varies(op)}] :
              \A t \in Varies(op) : g[t] \in LibraryValues[t] \ {"imported"}}}
=============================================================================
