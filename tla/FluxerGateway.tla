---------------------------- MODULE FluxerGateway ----------------------------
(***************************************************************************)
(* The Fluxer gateway's listener (gateways/fluxer/gateway.ts): discovery,   *)
(* the token check, the socket, and the startup audit (StartupAudit) of the *)
(* guilds the first READY names, fed by the socket.                        *)
(*                                                                         *)
(* The socket is here what FluxerSession promises of it, SessionFeed: READY *)
(* first, the rest in order, and again from READY on when a session is gone *)
(* and another one begins.                                                 *)
(***************************************************************************)
EXTENDS StartupAudit, Naturals, Sequences

CONSTANTS
  Guild,
  StatesOf(_),  \* what a guild may look like
  Down,         \* a guild that is unavailable, or no longer the bot's
  MaxBursts,    \* sessions that begin (bound)
  MaxTold       \* what is told of guilds before the verdict (bound)

(* A mask has the permissions there are.                                    *)
ASSUME GatewayAssumption ==
  /\ Required \subseteq Permission
  /\ \A guilds \in SUBSET Guild : guilds # NotYet
  /\ \A g \in Guild : \A state \in StatesOf(g) \ {Malformed, Down} :
       /\ \A r \in state.roles : r.permissions \subseteq Permission
       /\ \A c \in DOMAIN state.channels :
            \A o \in state.channels[c].overwrites : o.allow \subseteq Permission

VARIABLES
  listen,       \* where listenEffect is
  connected,    \* connectSocketEffect: "waiting", "ok" or "failed"
  lost,         \* whether the host was told that the gateway is lost
  audit,
  audited,      \* its verdict: "pending", "ok" or "failed"
  news,         \* what was told of guilds before the verdict, in order
  bursts

gatewayVars == <<listen, connected, lost, audit, audited, news, bursts>>

GatewayInit ==
  /\ listen = "discovering"
  /\ connected = "waiting"
  /\ lost = FALSE
  /\ audit = NewAudit
  /\ audited = "pending"
  /\ news = <<>>
  /\ bursts = 0

Goes(from, to) ==
  /\ listen = from
  /\ listen' = to
  /\ UNCHANGED <<connected, lost, audit, audited, news, bursts>>

(* The instance answers with its endpoints, then the token is accepted.     *)
Discovers == Goes("discovering", "checking")
ChecksToken == Goes("checking", "connecting")

(* No such instance, a rejected token, no answer.                           *)
Refused == \E from \in {"discovering", "checking"} : Goes(from, "failed")

(* The socket is ready, or never will be.                                   *)
Connected == connected = "ok" /\ Goes("connecting", "auditing")
NotConnected == connected = "failed" /\ Goes("connecting", "failed")

(* The verdict, or 30 seconds without one.                                  *)
Listening == audited = "ok" /\ Goes("auditing", "listening")
AuditFails == audited # "ok" /\ Goes("auditing", "failed")

Connects == Connected \/ NotConnected
Settles == Listening \/ AuditFails

-----------------------------------------------------------------------------
(* onDispatch. *)

SocketRuns == listen \in {"connecting", "auditing", "listening"} /\ connected # "failed" /\ ~ lost

GuildEvent(g, state) ==
  IF state = Down THEN [t |-> "GUILD_DELETE", guild |-> g]
  ELSE [t |-> "GUILD_CREATE", guild |-> g, state |-> state]

Dispatched(e) ==
  /\ audit' = Feed(audit, e)
  /\ audited' = IF audit'.settled /\ ~ audit.settled THEN Verdict(audit') ELSE audited
  /\ UNCHANGED <<listen, lost>>

(* A session begins. Only the first READY lets the startup go on.           *)
Burst ==
  /\ SocketRuns /\ bursts < MaxBursts
  /\ bursts' = bursts + 1
  /\ \E guilds \in SUBSET Guild : Dispatched([t |-> "READY", guilds |-> guilds])
  /\ connected' = "ok"
  /\ UNCHANGED news

GuildChanges ==
  /\ SocketRuns /\ bursts > 0
  /\ audit.settled \/ Len(news) < MaxTold
  /\ \E g \in Guild : \E state \in StatesOf(g) \cup {Down} :
       /\ Dispatched(GuildEvent(g, state))
       /\ news' = IF audit.settled THEN news ELSE Append(news, GuildEvent(g, state))
  /\ UNCHANGED <<connected, bursts>>

(* A close that reconnecting cannot fix, or no READY within a minute.       *)
SocketEnds ==
  /\ SocketRuns
  /\ IF connected = "waiting" THEN connected' = "failed" /\ UNCHANGED lost
     ELSE lost' = TRUE /\ UNCHANGED connected
  /\ UNCHANGED <<listen, audit, audited, news, bursts>>

GatewayNext ==
  \/ Discovers \/ ChecksToken \/ Refused \/ Connects \/ Settles
  \/ Burst \/ GuildChanges \/ SocketEnds

(* Calls and waits have deadlines.                                          *)
GatewaySpec == GatewayInit /\ [][GatewayNext]_gatewayVars

-----------------------------------------------------------------------------
(* Properties. *)

TellsOf(n, g) == news[n].guild = g
Loses(n) == news[n].t = "GUILD_DELETE" \/ news[n].state = Malformed
Lists(n, c) == ~ Loses(n) /\ c \in DOMAIN news[n].state.channels

(* The bot may use the channel as the guild's state shows it.               *)
Usable(g, state, c) ==
  /\ state.channels[c].type \in TextTypes
  /\ \A p \in Required :
       Granted(g, state.owner, state.roles, Bot, state.held, state.channels[c].overwrites, p)

(* The channel was listed, and since then neither listed again nor lost     *)
(* with its guild.                                                         *)
Stands(n, c) ==
  /\ n \in DOMAIN news /\ Lists(n, c)
  /\ \A m \in DOMAIN news :
       m > n => ~ Lists(m, c) /\ ~ (Loses(m) /\ TellsOf(m, news[n].guild))

Fine(c) == \E n \in DOMAIN news : Stands(n, c) /\ Usable(news[n].guild, news[n].state, c)

(* The verdict is on the watched channels as they were last listed: none     *)
(* before every guild the first READY named was heard from, then "ok"       *)
(* exactly when the bot may use each of them, however guilds came, went and *)
(* returned, and whichever session brought it (audit.ts:47-65, 109-112).     *)
AuditHonest ==
  /\ audited = "pending" /\ audit.expected # NotYet =>
       \E g \in audit.expected : \A n \in DOMAIN news : ~ TellsOf(n, g)
  /\ audited # "pending" =>
       /\ audit.expected # NotYet
       /\ \A g \in audit.expected : \E n \in DOMAIN news : TellsOf(n, g)
  /\ audited = "ok" => \A c \in Watched : Fine(c)
  /\ audited = "failed" => \E c \in Watched : ~ Fine(c)

(* "At startup the host checks its permissions in each watched channel and   *)
(* refuses to start if [...] a watched channel is in no guild it can see"   *)
(* (README.md:346-348): each is listed by what was last told of some guild. *)
SeesWhatItWatches ==
  audited = "ok" =>
    \A c \in Watched : \E n \in DOMAIN news :
      /\ Lists(n, c)
      /\ \A m \in DOMAIN news : m > n => ~ TellsOf(m, news[n].guild)
=============================================================================
