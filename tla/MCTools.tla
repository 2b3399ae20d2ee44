------------------------------ MODULE MCTools ------------------------------
(* What happens on the way of one tool call: the review of the writes, the   *)
(* writes themselves, the memory of listed releases, and the reads that are  *)
(* longer than a result. They share nothing: the initial state says which    *)
(* one runs.                                                                *)
EXTENDS ServiceWrites, ListedReleases, WriteGate, MCPagedReads

VARIABLE part

NoCall == [family |-> "request", op |-> [tool |-> "retry_request"]]
NoRead == [read |-> "queue", lists |-> <<<<>>>>, limit |-> 2, room |-> 3]

MCInit ==
  /\ part \in {"review", "write", "releases", "read"}
  /\ GateInit /\ ServiceInit /\ ReleasesInit
  /\ part # "write" => call = NoCall /\ svc["request"] = "none"
  /\ IF part = "read" THEN PagesInit
     ELSE reading = NoRead /\ at = <<1, 0>> /\ seen = <<>> /\ caller = "over"

ReviewPart == part = "review" /\ UNCHANGED <<part, serviceVars, releaseVars, pageVars>>
WritePart == part = "write" /\ UNCHANGED <<part, gateVars, releaseVars, pageVars>>
ReleasesPart == part = "releases" /\ UNCHANGED <<part, gateVars, serviceVars, pageVars>>
ReadPart == part = "read" /\ UNCHANGED <<part, gateVars, serviceVars, releaseVars>>

MCNext ==
  \/ ReviewPart /\ GateNext
  \/ WritePart /\ ServiceNext
  \/ ReleasesPart /\ ReleasesNext
  \/ ReadPart /\ ReadsOn

MCSpec == MCInit /\ [][MCNext]_<<part, gateVars, serviceVars, releaseVars, pageVars>>
=============================================================================
