----------------------------- MODULE MCGateways -----------------------------
(* The Fluxer socket, the Fluxer listener over what the socket promises, and *)
(* the Seerr gateway. They share nothing: the initial state says which one   *)
(* runs.                                                                    *)
(*                                                                          *)
(* Two guilds, one of which has the watched channel, where an overwrite      *)
(* denies everyone and another may allow the bot's role, if it is listed at  *)
(* all. An issue whose reporter has no email and somebody's name; the last   *)
(* of its comments comes only where no right has changed (FewGrants).       *)
EXTENDS FluxerSession, FluxerGateway, SeerrGateway, TLC

CONSTANTS media, other, status, reply, eve, bob, ann

VARIABLE part

MCGuild == {media, other}
MCReady == [t |-> "READY"]

State(overwrites) ==
  [owner |-> "ann", roles |-> {[id |-> media, permissions |-> {"view", "send"}]},
   held |-> {"bots"},
   channels |-> [c \in {"help"} |-> [type |-> "text", overwrites |-> overwrites]]]

Deny == [type |-> "role", id |-> media, allow |-> {}, deny |-> {"send"}]
Allow == [type |-> "role", id |-> "bots", allow |-> {"send"}, deny |-> {}]
Hidden == [State({}) EXCEPT !.channels = <<>>]
Bare == [owner |-> "bob", roles |-> {}, held |-> {}, channels |-> <<>>]

MCStatesOf(g) ==
  IF g = media THEN {State({Deny, Allow}), State({Deny}), Hidden, Malformed} ELSE {Bare, Malformed}

MCPost == {status, reply}
MCAccount == {eve, bob, ann}
MCEmail == eve :> NoEmail @@ bob :> "bob@" @@ ann :> "ann@"
MCName == eve :> "bob" @@ bob :> "bob" @@ ann :> "ann"

MCInit ==
  /\ part \in {"socket", "listener", "issue"}
  /\ Init /\ GatewayInit /\ SeerrInit
  /\ part # "issue" => users = {reporter}

SocketPart == part = "socket" /\ UNCHANGED <<part, gatewayVars, issueVars>>
ListenerPart == part = "listener" /\ UNCHANGED <<part, vars, issueVars>>
IssuePart == part = "issue" /\ UNCHANGED <<part, vars, gatewayVars>>

FewGrants == Len(comments') = MaxSaved => grants' = 0

MCNext ==
  \/ SocketPart /\ Next
  \/ ListenerPart /\ GatewayNext
  \/ IssuePart /\ SeerrNext /\ FewGrants

allVars == <<part, vars, gatewayVars, issueVars>>

MCSpec ==
  /\ MCInit /\ [][MCNext]_allVars
  /\ WF_allVars(ClientStep /\ SocketPart)
  /\ WF_allVars(ServerStep /\ SocketPart)
  /\ WF_allVars(cut /\ (Stalls \/ StartTimesOut) /\ SocketPart)
=============================================================================
