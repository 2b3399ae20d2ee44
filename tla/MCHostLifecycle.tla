--------------------------- MODULE MCHostLifecycle ---------------------------
(* On Discord, whose listener closes last, a request that triage may turn   *)
(* away and a follow-up in its thread; on Fluxer a stranger; and what a     *)
(* webhook brings.                                                         *)
EXTENDS HostLifecycle

CONSTANTS request, followup, stranger, webhook

MCMessage == {request, followup, stranger, webhook}
MCGateway == [m \in MCMessage |->
  CASE m = webhook -> "seerr" [] m = stranger -> "fluxer" [] OTHER -> "discord"]
MCAuthor == [m \in MCMessage |-> IF m = stranger THEN "eve" ELSE "ann"]
MCRoles == [m \in MCMessage |-> IF m = request THEN {"helpers"} ELSE {}]
MCHome == [m \in MCMessage |-> IF m = followup THEN request ELSE "channel"]
MCMentioned == {request}
=============================================================================
