--------------------------- MODULE FluxerSession ---------------------------
(***************************************************************************)
(* The Fluxer gateway session of packages/host/src/gateways/fluxer/         *)
(* client.ts: one socket after another, each identifying or resuming, with  *)
(* heartbeats, and the server and the network they talk to.                *)
(*                                                                         *)
(* A session of the server is its log of dispatches. A frame is [op], a     *)
(* dispatch also names its session and its place in the log, which is its   *)
(* sequence. Frames of one socket arrive in order or, once it is cut, not   *)
(* at all.                                                                 *)
(***************************************************************************)
EXTENDS Integers, Sequences

CONSTANTS
  ReadyEvent,   \* the first dispatch of a session
  MaxSessions,  \* sessions the server opens (bound)
  MaxDispatch,  \* dispatches of a session (bound)
  MaxFaults     \* closes, silences and sessions lost (bound)

ASSUME SessionAssumption == MaxSessions \in Nat /\ ReadyEvent.t = "READY"

Session == 1..MaxSessions

VARIABLES
  \* the session object
  ready, id, seq,
  \* the connection object
  socket,       \* "open", "pausing" or "over"
  acked, beating, established,
  \* what it told others
  startup,      \* connectSocketEffect: "waiting", "ok" or "failed"
  dead,         \* how often onDead was called
  heard,        \* session |-> the sequence last handed to onDispatch
  \* the server and the network
  log, gone, latest,
  attached,     \* the session the socket feeds; 0 is none
  asked,        \* what the socket asked of the server
  cut,          \* the socket brings nothing more
  wire,         \* frames under way
  faults

sessionVars == <<ready, id, seq>>
connection == <<socket, acked, beating, established>>
told == <<startup, dead, heard>>
server == <<log, gone, latest>>
network == <<attached, asked, cut, wire>>
vars == <<sessionVars, connection, told, server, network, faults>>

Nothing == [op |-> "nothing"]
Resumed == [t |-> "RESUMED"]
Message == [t |-> "MESSAGE_CREATE"]
Dispatch(e, i, s) == [op |-> "dispatch", event |-> e, session |-> i, s |-> s]
Closed(code) == [op |-> "close", code |-> code]

Init ==
  /\ ready = "pending" /\ id = 0 /\ seq = 0
  /\ socket = "pausing"
  /\ acked = TRUE /\ beating = FALSE /\ established = FALSE
  /\ startup = "waiting" /\ dead = 0
  /\ heard = [i \in Session |-> 0]
  /\ log = [i \in Session |-> <<>>] /\ gone = {} /\ latest = 0
  /\ attached = 0 /\ asked = Nothing /\ cut = FALSE /\ wire = <<>>
  /\ faults = 0

-----------------------------------------------------------------------------
(* The endings of a socket.                                                *)

Fatal(ending) == ending.op = "close" /\ ending.code = "fatal"

SessionIsGone(ending) ==
  \/ ending.op = "invalid"
  \/ ending.op = "close" /\ ending.code = "invalid sequence"

(* A close that reconnecting cannot fix: the startup that waits hears of    *)
(* it, or else whoever listens.                                            *)
BugDeadAlways == /\ ready' = "failed"
                 /\ dead' = dead + 1

ReportsDeath ==
  IF ready = "pending"
  THEN ready' = "failed" /\ UNCHANGED dead
  ELSE dead' = dead + 1 /\ UNCHANGED ready

Ends(ending) ==
  IF Fatal(ending)
  THEN /\ socket' = "over"
       /\ ReportsDeath
       /\ UNCHANGED <<id, seq>>
  ELSE /\ socket' = "pausing"
       /\ IF SessionIsGone(ending) THEN id' = 0 /\ seq' = 0 ELSE UNCHANGED <<id, seq>>
       /\ UNCHANGED <<ready, dead>>

Dropped == [op |-> "dropped"]

-----------------------------------------------------------------------------
(* One socket. *)

BugKeepsFrames == wire
NoFrames == <<>>

(* A new socket, with a queue of its own: a socket left behind queues for   *)
(* nobody.                                                                 *)
Opens ==
  /\ socket = "pausing" /\ startup # "failed"
  /\ socket' = "open"
  /\ acked' = TRUE /\ beating' = FALSE /\ established' = FALSE
  /\ attached' = 0 /\ asked' = [op |-> "connect"] /\ cut' = FALSE /\ wire' = NoFrames
  /\ UNCHANGED <<sessionVars, told, server, faults>>

(* HELLO starts the heartbeat, once, and identifies or resumes.             *)
TakesHello ==
  IF beating THEN UNCHANGED <<beating, asked>>
  ELSE /\ beating' = TRUE
       /\ asked' = IF id = 0 \/ seq = 0 THEN [op |-> "identify"]
                   ELSE [op |-> "resume", session |-> id, s |-> seq]

(* READY names the session. The event is handed over before its sequence is *)
(* taken, and before the startup hears of READY.                            *)
TakesDispatch(f) ==
  /\ id' = IF f.event.t = "READY" THEN f.session ELSE id
  /\ IF f.event.t \in {"READY", "RESUMED"}
     THEN established' = TRUE
     ELSE UNCHANGED established
  /\ heard' = [heard EXCEPT ![f.session] = f.s]
  /\ seq' = f.s
  /\ ready' = IF f.event.t = "READY" /\ ready = "pending" THEN "done" ELSE ready

Takes ==
  /\ socket = "open" /\ wire # <<>>
  /\ wire' = Tail(wire)
  /\ LET f == Head(wire)
     IN  \/ /\ f.op = "hello"
            /\ TakesHello
            /\ UNCHANGED <<sessionVars, socket, acked, established, told>>
         \/ /\ f.op = "dispatch"
            /\ TakesDispatch(f)
            /\ UNCHANGED <<socket, acked, beating, startup, dead, asked>>
         \/ /\ f.op = "ack"
            /\ acked' = TRUE
            /\ UNCHANGED <<sessionVars, socket, beating, established, told, asked>>
         \/ /\ f.op \in {"reconnect", "invalid", "close"}
            /\ Ends(IF f.op = "reconnect" THEN Dropped ELSE f)
            /\ UNCHANGED <<acked, beating, established, startup, heard, asked>>
  /\ UNCHANGED <<server, attached, cut, faults>>

Fault == faults < MaxFaults /\ faults' = faults + 1
Late == IF cut THEN UNCHANGED faults ELSE Fault

BugUnanswered == FALSE
Unanswered == ~ acked

(* The heartbeat interval passed: an unanswered beat means the socket is    *)
(* dead, or an answer was late.                                            *)
Beats ==
  /\ socket = "open" /\ beating
  /\ IF ~ Unanswered
     THEN /\ acked' = FALSE
          /\ wire' = IF cut THEN wire ELSE Append(wire, [op |-> "ack"])
          /\ UNCHANGED <<sessionVars, socket, told, faults>>
     ELSE /\ Ends(Dropped) /\ Late
          /\ UNCHANGED <<acked, wire, startup, heard>>
  /\ UNCHANGED <<beating, established, server, attached, asked, cut>>

(* A minute without READY or RESUMED.                                      *)
Stalls ==
  /\ socket = "open" /\ ~ established
  /\ Ends(Dropped) /\ Late
  /\ UNCHANGED <<acked, beating, established, startup, heard, server, network>>

-----------------------------------------------------------------------------
(* connectSocketEffect. *)

Starts ==
  /\ startup = "waiting" /\ ready # "pending"
  /\ startup' = IF ready = "done" THEN "ok" ELSE "failed"
  /\ UNCHANGED <<sessionVars, connection, dead, heard, server, network, faults>>

(* Not ready within a minute: the session is interrupted.                   *)
StartTimesOut ==
  /\ startup = "waiting" /\ ready = "pending"
  /\ startup' = "failed"
  /\ socket' = "over"
  /\ UNCHANGED <<sessionVars, acked, beating, established, dead, heard, server, network, faults>>

-----------------------------------------------------------------------------
(* The server and the network. *)

Sends(f) == wire' = IF cut THEN wire ELSE Append(wire, f)

Greets ==
  /\ socket = "open" /\ asked.op = "connect"
  /\ asked' = Nothing
  /\ Sends([op |-> "hello"])
  /\ UNCHANGED <<sessionVars, connection, told, server, attached, cut, faults>>

Identifies ==
  /\ socket = "open" /\ asked.op = "identify" /\ latest < MaxSessions
  /\ asked' = Nothing
  /\ latest' = latest + 1
  /\ log' = [log EXCEPT ![latest + 1] = <<ReadyEvent>>]
  /\ attached' = latest + 1
  /\ Sends(Dispatch(ReadyEvent, latest + 1, 1))
  /\ UNCHANGED <<sessionVars, connection, told, gone, cut, faults>>

Replay(i, s) == [n \in 1..(Len(log[i]) - s) |-> Dispatch(log[i][s + n], i, s + n)]

(* Everything after the sequence, then RESUMED; or the session is invalid.  *)
Resumes ==
  /\ socket = "open" /\ asked.op = "resume"
  /\ asked' = Nothing
  /\ LET i == asked.session
         n == Len(log[i]) + 1
     IN  IF i \in gone
         THEN Sends([op |-> "invalid"]) /\ UNCHANGED <<log, attached>>
         ELSE /\ log' = [log EXCEPT ![i] = Append(@, Resumed)]
              /\ attached' = i
              /\ wire' = IF cut THEN wire
                         ELSE wire \o Replay(i, asked.s) \o <<Dispatch(Resumed, i, n)>>
  /\ UNCHANGED <<sessionVars, connection, told, gone, latest, cut, faults>>

(* Something happens in a guild.                                            *)
Emits(i, e) ==
  /\ i \notin gone /\ log[i] # <<>> /\ Len(log[i]) < MaxDispatch
  /\ log' = [log EXCEPT ![i] = Append(@, e)]
  /\ IF attached = i /\ socket = "open" THEN Sends(Dispatch(e, i, Len(log[i]) + 1))
     ELSE UNCHANGED wire
  /\ UNCHANGED <<sessionVars, connection, told, gone, latest, attached, asked, cut, faults>>

(* A socket closed or told to reconnect brings nothing after that; one that   *)
(* goes silent does not even say so.                                        *)
Cuts(last) ==
  /\ socket = "open" /\ ~ cut /\ Fault
  /\ cut' = TRUE
  /\ wire' = wire \o last
  /\ UNCHANGED <<sessionVars, connection, told, server, attached, asked>>

CutsOff ==
  \/ Cuts(<<>>)
  \/ Cuts(<<[op |-> "reconnect"]>>)
  \/ \E code \in {"other", "fatal"} : Cuts(<<Closed(code)>>)

(* The server no longer has the session, and says so while it is attached,  *)
(* or when it is resumed; it may call a sequence invalid instead.           *)
Forgets(i) ==
  /\ i \notin gone /\ log[i] # <<>> /\ Fault
  /\ gone' = gone \cup {i}
  /\ IF attached = i /\ socket = "open" /\ ~ cut
     THEN /\ cut' = TRUE
          /\ \E f \in {[op |-> "invalid"], Closed("invalid sequence")} : wire' = Append(wire, f)
     ELSE UNCHANGED <<cut, wire>>
  /\ UNCHANGED <<sessionVars, connection, told, log, latest, attached, asked>>

-----------------------------------------------------------------------------
ClientStep == Opens \/ Takes \/ Beats \/ Starts
ServerStep == Greets \/ Identifies \/ Resumes
Faulty == CutsOff \/ \E i \in Session : Forgets(i)

Next ==
  \/ ClientStep \/ ServerStep \/ Faulty
  \/ Stalls \/ StartTimesOut
  \/ \E i \in Session : Emits(i, Message)

Spec == Init /\ [][Next]_vars

(* Timers fire, frames are taken, and the server answers a socket it has.   *)
FairSpec ==
  /\ Spec
  /\ WF_vars(ClientStep) /\ WF_vars(ServerStep)
  /\ WF_vars(cut /\ (Stalls \/ StartTimesOut))

-----------------------------------------------------------------------------
(* Properties. *)

(* Across sockets, drops and resumes a listener hears each session from its *)
(* READY on, in order, nothing twice and nothing left out, and loses the     *)
(* rest of a session only when the server no longer has it                  *)
(* (client.ts:496-503, 870).                                                *)
Promise == INSTANCE SessionFeed WITH current <- id
FeedImplemented == Promise!Spec

(* A close that ends the session is told exactly once: to a startup that     *)
(* still waits, or to onDead after READY reached onDispatch, which is also  *)
(* when the startup succeeds; and a session is over for no other reason but *)
(* a startup that gave up (client.ts:500-503, 550-553, 872).                *)
DeathToldOnce ==
  /\ dead <= 1
  /\ ready = "failed" => dead = 0 /\ heard = [i \in Session |-> 0]
  /\ ready = "done" => \E i \in Session : heard[i] > 0
  /\ socket = "over" => ready = "failed" \/ dead = 1 \/ startup = "failed"

(* What a session the server keeps has dispatched is heard in the end: the   *)
(* client notices a silent socket, returns and catches up, unless it is     *)
(* told that the session or the gateway is gone; then it gets a new session    *)
(* (client.ts:496-503, 735-740).                                            *)
EverythingHeard ==
  /\ \A i \in Session :
       id = i /\ Len(log[i]) > heard[i] ~> heard[i] >= Len(log[i]) \/ i \in gone \/ socket = "over"
  /\ socket = "pausing" /\ latest > 0 ~> established \/ socket = "over"
=============================================================================
