---------------------------- MODULE GatewayProofs ----------------------------
(***************************************************************************)
(* The three parts of the gateways, each with the invariant its theorems   *)
(* rest on: the session of the Fluxer socket is told once of its death and *)
(* feeds every dispatch in order (SessionInv), the startup audit of Fluxer *)
(* agrees with the guilds it heard of (AuditInv), and the comments of a    *)
(* Seerr issue are told apart and their senders checked (IssueInv). They   *)
(* hold for any number of sessions, guilds, channels, accounts and posts.  *)
(***************************************************************************)
EXTENDS FluxerSession, FluxerGateway, SeerrGateway,
        SequenceTheorems, FiniteSetTheorems, WellFoundedInduction, TLAPS

-----------------------------------------------------------------------------
(* The session of the Fluxer socket (gateways/fluxer/client.ts).           *)

Event == {ReadyEvent, Resumed, Message}
Frame ==
  [op : {"hello", "ack", "reconnect", "invalid"}]
  \cup [op : {"close"}, code : {"other", "fatal", "invalid sequence"}]
  \cup [op : {"dispatch"}, event : Event, session : Session, s : Nat \ {0}]
Request ==
  [op : {"nothing", "connect", "identify"}]
  \cup [op : {"resume"}, session : Session, s : Nat]

SessionTypeOK ==
  /\ ready \in {"pending", "done", "failed"}
  /\ id \in Session \cup {0} /\ seq \in Nat
  /\ socket \in {"open", "pausing", "over"}
  /\ acked \in BOOLEAN /\ beating \in BOOLEAN /\ established \in BOOLEAN
  /\ startup \in {"waiting", "ok", "failed"}
  /\ dead \in Nat
  /\ heard \in [Session -> Nat]
  /\ log \in [Session -> Seq(Event)]
  /\ gone \subseteq Session
  /\ latest \in Session \cup {0}
  /\ attached \in Session \cup {0}
  /\ asked \in Request
  /\ cut \in BOOLEAN
  /\ wire \in Seq(Frame)
  /\ faults \in Nat

(* A session's log begins with its READY, and the client stands where it   *)
(* last heard its session.                                                 *)
LogOK ==
  /\ \A i \in Session : heard[i] <= Len(log[i])
  /\ \A i \in Session : i > latest => log[i] = <<>> /\ heard[i] = 0 /\ i \notin gone
  /\ \A i \in Session : \A n \in 1 .. Len(log[i]) : log[i][n].t = "READY" <=> n = 1
  /\ id = 0 => seq = 0
  /\ id # 0 => id <= latest /\ seq = heard[id] /\ seq >= 1

(* What the socket asked for, and whom it is attached to.                  *)
AskedOK ==
  /\ ~ beating => attached = 0 /\ asked.op \in {"nothing", "connect"}
  /\ asked.op # "nothing" => attached = 0
  /\ asked.op = "identify" => id = 0
  /\ asked.op = "resume" => id # 0 /\ asked.session = id /\ asked.s = seq
  /\ attached # 0 => /\ attached <= latest
                     /\ id = attached \/ (id = 0 /\ heard[attached] = 0)

(* The dispatches under way are those of the attached session that were    *)
(* not heard yet, in the order of its log, up to where the socket was cut. *)
IsDispatch(n) == wire[n].op = "dispatch"
WireOK ==
  /\ \A n \in 1 .. Len(wire) : IsDispatch(n) =>
       /\ attached # 0 /\ wire[n].session = attached
       /\ wire[n].s > heard[attached] /\ wire[n].s <= Len(log[attached])
       /\ wire[n].event = log[attached][wire[n].s]
       /\ \/ wire[n].s = heard[attached] + 1
          \/ \E m \in 1 .. n - 1 : IsDispatch(m) /\ wire[m].s = wire[n].s - 1
  /\ \A m, n \in 1 .. Len(wire) :
       m < n /\ IsDispatch(m) /\ IsDispatch(n) => wire[m].s < wire[n].s
  /\ ~ cut /\ attached # 0 =>
       \/ heard[attached] = Len(log[attached])
       \/ \E m \in 1 .. Len(wire) : IsDispatch(m) /\ wire[m].s = Len(log[attached])

(* The client is told that its session is gone only when it is.            *)
GoneOK ==
  \A n \in 1 .. Len(wire) : SessionIsGone(wire[n]) =>
    /\ asked.op = "nothing" /\ beating
    /\ id \in gone \cup {0} /\ attached \in gone \cup {0}

DeathOK ==
  /\ socket # "over" => dead = 0 /\ ready # "failed"
  /\ ready = "pending" => \A i \in Session : heard[i] = 0
  /\ DeathToldOnce

SessionInv ==
  /\ SessionTypeOK /\ LogOK /\ DeathOK
  /\ socket = "open" => AskedOK /\ WireOK /\ GoneOK

-----------------------------------------------------------------------------
LEMMA Frames ==
  /\ \A o \in {"hello", "ack", "reconnect", "invalid"} : [op |-> o] \in Frame
  /\ \A c \in {"other", "fatal", "invalid sequence"} : Closed(c) \in Frame
  /\ \A e \in Event, i \in Session, s \in Nat \ {0} : Dispatch(e, i, s) \in Frame
  BY DEF Frame, Closed, Dispatch

LEMMA Events ==
  /\ ReadyEvent \in Event /\ Resumed \in Event /\ Message \in Event
  /\ ReadyEvent.t = "READY" /\ Resumed.t # "READY" /\ Message.t # "READY"
  BY SessionAssumption DEF Event, Resumed, Message

(* The wire after a frame is taken, and after one is sent.                 *)
LEMMA TailOfWire ==
  ASSUME SessionTypeOK, wire # <<>>, wire' = Tail(wire)
  PROVE  /\ wire' \in Seq(Frame) /\ Len(wire') = Len(wire) - 1 /\ Len(wire) \in Nat \ {0}
         /\ \A n \in 1 .. Len(wire') : wire'[n] = wire[n + 1]
         /\ wire[1] = Head(wire) /\ wire[1] \in Frame
<1>1. wire \in Seq(Frame)
  BY DEF SessionTypeOK
<1> QED
  BY <1>1, HeadTailProperties, EmptySeq

LEMMA SentOnWire ==
  ASSUME SessionTypeOK, NEW f \in Frame, wire' = Append(wire, f)
  PROVE  /\ wire' \in Seq(Frame) /\ Len(wire') = Len(wire) + 1 /\ Len(wire) \in Nat
         /\ \A n \in 1 .. Len(wire) : wire'[n] = wire[n]
         /\ wire'[Len(wire')] = f
<1>1. wire \in Seq(Frame)
  BY DEF SessionTypeOK
<1> QED
  BY <1>1, AppendProperties

LEMMA QuietTail ==
  ASSUME SessionTypeOK, wire # <<>>, wire' = Tail(wire), WireOK, ~ IsDispatch(1),
         UNCHANGED <<attached, heard, log, cut>>
  PROVE  WireOK'
<1> USE TailOfWire DEF IsDispatch
<1>1. ASSUME NEW n \in 1 .. Len(wire'), IsDispatch(n)'
      PROVE  /\ attached # 0 /\ wire'[n].session = attached
             /\ wire'[n].s > heard[attached] /\ wire'[n].s <= Len(log[attached])
             /\ wire'[n].event = log[attached][wire'[n].s]
             /\ \/ wire'[n].s = heard[attached] + 1
                \/ \E m \in 1 .. n - 1 : IsDispatch(m)' /\ wire'[m].s = wire'[n].s - 1
  <2>1. n + 1 \in 1 .. Len(wire) /\ IsDispatch(n + 1) /\ wire'[n] = wire[n + 1]
    BY <1>1
  <2>2. CASE wire[n + 1].s = heard[attached] + 1
    BY <2>1, <2>2 DEF WireOK
  <2>3. CASE \E m \in 1 .. (n + 1) - 1 : IsDispatch(m) /\ wire[m].s = wire[n + 1].s - 1
    <3>1. PICK m \in 1 .. n : IsDispatch(m) /\ wire[m].s = wire[n + 1].s - 1
      BY <2>3
    <3>2. m - 1 \in 1 .. n - 1 /\ wire'[m - 1] = wire[m]
      BY <3>1
    <3> QED
      BY <2>1, <3>1, <3>2 DEF WireOK
  <2> QED
    BY <2>1, <2>2, <2>3 DEF WireOK
<1>2. ASSUME NEW m \in 1 .. Len(wire'), NEW n \in 1 .. Len(wire'),
             m < n, IsDispatch(m)', IsDispatch(n)'
      PROVE  wire'[m].s < wire'[n].s
  <2>1. /\ m + 1 \in 1 .. Len(wire) /\ IsDispatch(m + 1) /\ wire'[m] = wire[m + 1]
        /\ n + 1 \in 1 .. Len(wire) /\ IsDispatch(n + 1) /\ wire'[n] = wire[n + 1]
        /\ m + 1 < n + 1
    BY <1>2
  <2> QED
    BY <2>1 DEF WireOK
<1>3. ASSUME ~ cut, attached # 0, heard[attached] # Len(log[attached])
      PROVE  \E m \in 1 .. Len(wire') : IsDispatch(m)' /\ wire'[m].s = Len(log[attached])
  <2>1. PICK m \in 1 .. Len(wire) : IsDispatch(m) /\ wire[m].s = Len(log[attached])
    BY <1>3 DEF WireOK
  <2>2. m - 1 \in 1 .. Len(wire') /\ wire'[m - 1] = wire[m]
    BY <2>1
  <2> QED
    BY <2>1, <2>2
<1> QED
  BY <1>1, <1>2, <1>3 DEF WireOK

LEMMA QuietSend ==
  ASSUME SessionTypeOK, NEW f \in Frame, f.op # "dispatch", wire' = Append(wire, f),
         WireOK, UNCHANGED <<attached, heard, log>>, cut => cut'
  PROVE  WireOK'
<1> USE SentOnWire DEF IsDispatch
<1>1. \A n \in 1 .. Len(wire') :
        IsDispatch(n)' => n \in 1 .. Len(wire) /\ IsDispatch(n) /\ wire'[n] = wire[n]
  OBVIOUS
<1>2. \A n \in 1 .. Len(wire) : n \in 1 .. Len(wire') /\ wire'[n] = wire[n]
  OBVIOUS
<1> HIDE SentOnWire
<1>3. ASSUME NEW n \in 1 .. Len(wire'), IsDispatch(n)'
      PROVE  /\ attached # 0 /\ wire'[n].session = attached
             /\ wire'[n].s > heard[attached] /\ wire'[n].s <= Len(log[attached])
             /\ wire'[n].event = log[attached][wire'[n].s]
             /\ \/ wire'[n].s = heard[attached] + 1
                \/ \E m \in 1 .. n - 1 : IsDispatch(m)' /\ wire'[m].s = wire'[n].s - 1
  BY <1>1, <1>2, <1>3 DEF WireOK
<1>4. ASSUME NEW m \in 1 .. Len(wire'), NEW n \in 1 .. Len(wire'),
             m < n, IsDispatch(m)', IsDispatch(n)'
      PROVE  wire'[m].s < wire'[n].s
  BY <1>1, <1>4 DEF WireOK
<1>5. ASSUME ~ cut', attached # 0, heard[attached] # Len(log[attached])
      PROVE  \E m \in 1 .. Len(wire') : IsDispatch(m)' /\ wire'[m].s = Len(log[attached])
  BY <1>2, <1>5 DEF WireOK
<1> QED
  BY <1>3, <1>4, <1>5 DEF WireOK

LEMMA Numbered ==
  ASSUME SessionTypeOK, NEW n \in 1 .. Len(wire), IsDispatch(n)
  PROVE  wire[n].s \in Nat \ {0}
<1>1. wire[n] \in Frame
  BY DEF SessionTypeOK
<1> QED
  BY <1>1 DEF Frame, IsDispatch

(* The dispatch at the head of the wire is the next of its session.        *)
LEMMA NextHeard ==
  ASSUME SessionTypeOK, WireOK, wire # <<>>, IsDispatch(1)
  PROVE  /\ attached \in Session /\ wire[1].session = attached
         /\ wire[1].s = heard[attached] + 1 /\ wire[1].s <= Len(log[attached])
         /\ wire[1].event = log[attached][wire[1].s]
<1>1. 1 \in 1 .. Len(wire)
  BY EmptySeq DEF SessionTypeOK
<1>2. ~ \E m \in 1 .. 1 - 1 : IsDispatch(m) /\ wire[m].s = wire[1].s - 1
  OBVIOUS
<1> QED
  BY <1>1, <1>2 DEF WireOK, SessionTypeOK

LEMMA DispatchTail ==
  ASSUME SessionTypeOK, WireOK, wire # <<>>, wire' = Tail(wire), IsDispatch(1),
         heard' = [heard EXCEPT ![wire[1].session] = wire[1].s],
         UNCHANGED <<attached, log, cut>>
  PROVE  WireOK'
<1> USE TailOfWire DEF IsDispatch
<1>1. /\ attached \in Session /\ wire[1].s = heard[attached] + 1
      /\ heard'[attached] = wire[1].s /\ heard[attached] \in Nat
      /\ Len(log[attached]) \in Nat
  BY NextHeard DEF SessionTypeOK
<1>2. ASSUME NEW n \in 1 .. Len(wire'), IsDispatch(n)'
      PROVE  /\ attached # 0 /\ wire'[n].session = attached
             /\ wire'[n].s > heard'[attached] /\ wire'[n].s <= Len(log[attached])
             /\ wire'[n].event = log[attached][wire'[n].s]
             /\ \/ wire'[n].s = heard'[attached] + 1
                \/ \E m \in 1 .. n - 1 : IsDispatch(m)' /\ wire'[m].s = wire'[n].s - 1
  <2>1. n + 1 \in 1 .. Len(wire) /\ IsDispatch(n + 1) /\ wire'[n] = wire[n + 1]
        /\ 1 \in 1 .. Len(wire) /\ 1 < n + 1
    BY <1>2
  <2>2. wire[1].s < wire[n + 1].s
    BY <2>1 DEF WireOK
  <2>3. PICK m \in 1 .. (n + 1) - 1 : IsDispatch(m) /\ wire[m].s = wire[n + 1].s - 1
    BY <1>1, <2>1, <2>2 DEF WireOK
  <2>4. CASE m = 1
    <3>1. wire[n + 1].s \in Nat /\ wire[n + 1].s = heard'[attached] + 1
      BY <1>1, <2>1, <2>3, <2>4, Numbered
    <3> QED
      BY <1>1, <2>1, <2>2, <3>1 DEF WireOK
  <2>5. CASE m # 1
    <3>1. m - 1 \in 1 .. n - 1 /\ wire'[m - 1] = wire[m]
      BY <2>3, <2>5
    <3> QED
      BY <1>1, <2>1, <2>2, <2>3, <3>1 DEF WireOK
  <2> QED
    BY <2>4, <2>5
<1>3. ASSUME NEW m \in 1 .. Len(wire'), NEW n \in 1 .. Len(wire'),
             m < n, IsDispatch(m)', IsDispatch(n)'
      PROVE  wire'[m].s < wire'[n].s
  <2>1. /\ m + 1 \in 1 .. Len(wire) /\ IsDispatch(m + 1) /\ wire'[m] = wire[m + 1]
        /\ n + 1 \in 1 .. Len(wire) /\ IsDispatch(n + 1) /\ wire'[n] = wire[n + 1]
        /\ m + 1 < n + 1
    BY <1>3
  <2> QED
    BY <2>1 DEF WireOK
<1>4. ASSUME ~ cut, attached # 0, heard'[attached] # Len(log[attached])
      PROVE  \E m \in 1 .. Len(wire') : IsDispatch(m)' /\ wire'[m].s = Len(log[attached])
  <2>1. heard[attached] # Len(log[attached])
    BY <1>1, NextHeard
  <2>2. PICK m \in 1 .. Len(wire) : IsDispatch(m) /\ wire[m].s = Len(log[attached])
    BY <1>4, <2>1 DEF WireOK
  <2>3. m - 1 \in 1 .. Len(wire') /\ wire'[m - 1] = wire[m]
    BY <1>1, <1>4, <2>2
  <2> QED
    BY <2>2, <2>3
<1> QED
  BY <1>2, <1>3, <1>4 DEF WireOK

(* A session's log after one more dispatch.                                *)
LEMMA LogGrows ==
  ASSUME SessionTypeOK, NEW i \in Session, NEW e \in Event,
         log' = [log EXCEPT ![i] = Append(@, e)]
  PROVE  /\ log' \in [Session -> Seq(Event)]
         /\ \A j \in Session : j # i => log'[j] = log[j]
         /\ Len(log'[i]) = Len(log[i]) + 1 /\ Len(log[i]) \in Nat
         /\ \A n \in 1 .. Len(log[i]) : log'[i][n] = log[i][n]
         /\ log'[i][Len(log'[i])] = e
<1>1. log \in [Session -> Seq(Event)]
  BY DEF SessionTypeOK
<1>2. log[i] \in Seq(Event) /\ log'[i] = Append(log[i], e)
  BY <1>1
<1> QED
  BY <1>1, <1>2, AppendProperties

(* One more dispatch of the attached session, sent unless the socket is    *)
(* cut.                                                                    *)
LEMMA NewDispatch ==
  ASSUME SessionTypeOK, LogOK, NEW i \in Session, NEW e \in Event,
         log' = [log EXCEPT ![i] = Append(@, e)],
         attached' = i, UNCHANGED <<heard, cut>>,
         Sends(Dispatch(e, i, Len(log[i]) + 1)),
         \/ attached = i /\ WireOK
         \/ /\ heard[i] = Len(log[i])
            /\ \A n \in 1 .. Len(wire) : ~ IsDispatch(n)
  PROVE  WireOK'
<1>0. /\ log' \in [Session -> Seq(Event)]
      /\ \A j \in Session : j # i => log'[j] = log[j]
      /\ Len(log'[i]) = Len(log[i]) + 1
      /\ \A n \in 1 .. Len(log[i]) : log'[i][n] = log[i][n]
      /\ log'[i][Len(log[i]) + 1] = e
  BY LogGrows
<1>1. i # 0 /\ heard[i] \in Nat /\ Len(log[i]) \in Nat
  BY DEF SessionTypeOK, Session
<1>2. /\ wire' \in Seq(Frame) /\ Len(wire) \in Nat
      /\ \A n \in 1 .. Len(wire) : n \in 1 .. Len(wire') /\ wire'[n] = wire[n]
      /\ \A n \in 1 .. Len(wire') :
           \/ n \in 1 .. Len(wire) /\ wire'[n] = wire[n]
           \/ ~ cut /\ n = Len(wire) + 1 /\ wire'[n] = Dispatch(e, i, Len(log[i]) + 1)
      /\ ~ cut => Len(wire') = Len(wire) + 1
  <2>1. CASE cut
    BY <2>1 DEF Sends, SessionTypeOK
  <2>2. CASE ~ cut
    <3>1. Dispatch(e, i, Len(log[i]) + 1) \in Frame
      <4>1. Len(log[i]) + 1 \in Nat \ {0}
        BY <1>1
      <4> QED
        BY <4>1, Frames
    <3> QED
      BY <2>2, <3>1, SentOnWire DEF Sends
  <2> QED
    BY <2>1, <2>2
<1>3. \A n \in 1 .. Len(wire) : IsDispatch(n) =>
        /\ wire[n].session = i
        /\ wire[n].s > heard[i] /\ wire[n].s <= Len(log[i])
        /\ wire[n].event = log[i][wire[n].s]
        /\ \/ wire[n].s = heard[i] + 1
           \/ \E m \in 1 .. n - 1 : IsDispatch(m) /\ wire[m].s = wire[n].s - 1
  BY DEF WireOK
<1>4. \A n \in 1 .. Len(wire) : IsDispatch(n) => wire[n].s \in Nat \ {0}
  BY Numbered
<1>5. Len(log[i]) >= heard[i] + 1 /\ ~ cut =>
        \E m \in 1 .. Len(wire) : IsDispatch(m) /\ wire[m].s = Len(log[i])
  BY <1>1 DEF WireOK
<1>6. heard[i] <= Len(log[i])
  BY DEF LogOK
<1>7. ASSUME NEW n \in 1 .. Len(wire'), IsDispatch(n)'
      PROVE  /\ wire'[n].session = i
             /\ wire'[n].s > heard[i] /\ wire'[n].s <= Len(log'[i])
             /\ wire'[n].event = log'[i][wire'[n].s]
             /\ \/ wire'[n].s = heard[i] + 1
                \/ \E m \in 1 .. n - 1 : IsDispatch(m)' /\ wire'[m].s = wire'[n].s - 1
  <2>1. CASE n \in 1 .. Len(wire) /\ wire'[n] = wire[n]
    <3>1. IsDispatch(n)
      BY <1>7, <2>1 DEF IsDispatch
    <3>2. \A m \in 1 .. n - 1 : m \in 1 .. Len(wire) /\ wire'[m] = wire[m]
      BY <1>2, <2>1
    <3>3. wire[n].s \in 1 .. Len(log[i])
      BY <1>1, <1>3, <1>4, <2>1, <3>1
    <3>4. wire[n].s <= Len(log'[i]) /\ log'[i][wire[n].s] = log[i][wire[n].s]
      BY <1>0, <1>1, <3>3
    <3>5. \/ wire[n].s = heard[i] + 1
          \/ \E m \in 1 .. n - 1 : IsDispatch(m)' /\ wire'[m].s = wire[n].s - 1
      BY <1>3, <2>1, <3>1, <3>2 DEF IsDispatch
    <3> QED
      BY <1>3, <2>1, <3>1, <3>4, <3>5
  <2>2. CASE ~ cut /\ n = Len(wire) + 1 /\ wire'[n] = Dispatch(e, i, Len(log[i]) + 1)
    <3>1. /\ wire'[n].session = i /\ wire'[n].s = Len(log[i]) + 1 /\ wire'[n].event = e
      BY <2>2 DEF Dispatch
    <3>2. CASE Len(log[i]) = heard[i]
      BY <1>0, <1>1, <3>1, <3>2
    <3>3. CASE Len(log[i]) >= heard[i] + 1
      <4>1. PICK m \in 1 .. Len(wire) : IsDispatch(m) /\ wire[m].s = Len(log[i])
        BY <1>5, <2>2, <3>3
      <4>2. m \in 1 .. n - 1 /\ IsDispatch(m)' /\ wire'[m].s = wire'[n].s - 1
        BY <1>1, <1>2, <2>2, <3>1, <4>1 DEF IsDispatch
      <4> QED
        BY <1>0, <1>1, <3>1, <3>3, <4>2
    <3>4. Len(log[i]) = heard[i] \/ Len(log[i]) >= heard[i] + 1
      BY <1>1, <1>6
    <3> QED
      BY <3>2, <3>3, <3>4
  <2> QED
    BY <1>2, <2>1, <2>2
<1>8. ASSUME NEW m \in 1 .. Len(wire'), NEW n \in 1 .. Len(wire'),
             m < n, IsDispatch(m)', IsDispatch(n)'
      PROVE  wire'[m].s < wire'[n].s
  <2>1. m \in 1 .. Len(wire) /\ IsDispatch(m) /\ wire'[m] = wire[m]
    BY <1>2, <1>8 DEF IsDispatch
  <2>2. CASE n \in 1 .. Len(wire) /\ wire'[n] = wire[n]
    BY <1>8, <2>1, <2>2 DEF IsDispatch, WireOK
  <2>3. CASE wire'[n] = Dispatch(e, i, Len(log[i]) + 1)
    BY <1>1, <1>3, <1>4, <2>1, <2>3 DEF Dispatch
  <2> QED
    BY <1>2, <2>2, <2>3
<1>9. ~ cut => \E m \in 1 .. Len(wire') : IsDispatch(m)' /\ wire'[m].s = Len(log'[i])
  <2>1. SUFFICES ASSUME ~ cut
                 PROVE  \E m \in 1 .. Len(wire') : IsDispatch(m)' /\ wire'[m].s = Len(log'[i])
    OBVIOUS
  <2>2. /\ Len(wire') \in 1 .. Len(wire') /\ Len(wire') = Len(wire) + 1
        /\ wire'[Len(wire')] = Dispatch(e, i, Len(log[i]) + 1)
    BY <1>2, <2>1
  <2> QED
    BY <1>0, <2>2 DEF IsDispatch, Dispatch
<1> QED
  BY <1>0, <1>1, <1>7, <1>8, <1>9 DEF WireOK

(* A resumed session catches up: what was not heard, then RESUMED.         *)
LEMMA CatchesUp ==
  ASSUME SessionTypeOK, LogOK, AskedOK, WireOK, Resumes, asked.session \notin gone
  PROVE  /\ wire' \in Seq(Frame) /\ WireOK'
         /\ \A n \in 1 .. Len(wire') : SessionIsGone(wire'[n]) =>
              n \in 1 .. Len(wire) /\ wire'[n] = wire[n]
<1>1. /\ asked.op = "resume" /\ attached = 0
      /\ id \in Session /\ id # 0 /\ asked.session = id /\ asked.s = seq /\ seq = heard[id]
      /\ attached' = id /\ log' = [log EXCEPT ![id] = Append(@, Resumed)]
      /\ UNCHANGED <<cut, heard>>
      /\ wire' = IF cut THEN wire
                 ELSE wire \o Replay(id, seq) \o <<Dispatch(Resumed, id, Len(log[id]) + 1)>>
  BY DEF Resumes, AskedOK, LogOK, SessionTypeOK, told
<1> DEFINE last == Len(log[id])
           more == Replay(id, seq) \o <<Dispatch(Resumed, id, last + 1)>>
<1>2. /\ last \in Nat /\ heard[id] \in Nat /\ heard[id] <= last
      /\ log[id] \in Seq(Event)
  BY <1>1 DEF SessionTypeOK, LogOK
<1>3. /\ log' \in [Session -> Seq(Event)] /\ Len(log'[id]) = last + 1
      /\ \A n \in 1 .. last : log'[id][n] = log[id][n]
      /\ log'[id][last + 1] = Resumed
  <2>1. /\ log' \in [Session -> Seq(Event)]
        /\ Len(log'[id]) = Len(log[id]) + 1
        /\ \A n \in 1 .. Len(log[id]) : log'[id][n] = log[id][n]
        /\ log'[id][Len(log'[id])] = Resumed
    BY <1>1, Events, LogGrows
  <2> QED
    BY <2>1
<1>4. /\ Replay(id, seq) \in Seq(Frame)
      /\ <<Dispatch(Resumed, id, last + 1)>> \in Seq(Frame)
      /\ more \in Seq(Frame) /\ Len(more) = last - heard[id] + 1
      /\ \A n \in 1 .. Len(more) :
           more[n] = Dispatch(log'[id][heard[id] + n], id, heard[id] + n)
  <2>1. /\ Replay(id, seq) \in Seq(Frame) /\ Len(Replay(id, seq)) = last - heard[id]
        /\ \A n \in 1 .. last - heard[id] :
             Replay(id, seq)[n] = Dispatch(log[id][heard[id] + n], id, heard[id] + n)
    <3>1. last - heard[id] \in Nat
      BY <1>2
    <3>2. ASSUME NEW n \in 1 .. last - heard[id]
          PROVE  Dispatch(log[id][heard[id] + n], id, heard[id] + n) \in Frame
      <4>1. heard[id] + n \in 1 .. last /\ heard[id] + n \in Nat \ {0}
        BY <1>2
      <4>2. log[id][heard[id] + n] \in Event
        BY <1>2, <4>1, ElementOfSeq
      <4> QED
        BY <1>1, <4>1, <4>2, Frames
    <3>3. Replay(id, seq) = [n \in 1 .. last - heard[id] |->
                               Dispatch(log[id][heard[id] + n], id, heard[id] + n)]
      BY <1>1 DEF Replay
    <3> HIDE DEF last
    <3> QED
      BY <3>1, <3>2, <3>3
  <2>2. Dispatch(Resumed, id, last + 1) \in Frame
    <3>1. last + 1 \in Nat \ {0}
      BY <1>2
    <3> QED
      BY <1>1, <3>1, Events, Frames
  <2> DEFINE replay == Replay(id, seq)
             final == Dispatch(Resumed, id, last + 1)
  <2> HIDE DEF last, replay, final
  <2>3. /\ replay \o <<final>> \in Seq(Frame)
        /\ Len(replay \o <<final>>) = Len(replay) + 1
        /\ \A n \in 1 .. Len(replay) + 1 :
             (replay \o <<final>>)[n] = IF n <= Len(replay) THEN replay[n] ELSE final
    <3>1. <<final>> \in Seq(Frame) /\ Len(<<final>>) = 1 /\ <<final>>[1] = final
      BY <2>2 DEF final
    <3> QED
      BY <2>1, <3>1, ConcatProperties DEF replay
  <2>4. ASSUME NEW n \in 1 .. last - heard[id] + 1
        PROVE  more[n] = Dispatch(log'[id][heard[id] + n], id, heard[id] + n)
    <3>1. CASE n <= last - heard[id]
      <4>1. n \in 1 .. last - heard[id] /\ heard[id] + n \in 1 .. last
        BY <1>2, <3>1
      <4> QED
        BY <1>3, <2>1, <2>3, <3>1, <4>1 DEF replay, final
    <3>2. CASE n = last - heard[id] + 1
      <4>1. heard[id] + n = last + 1 /\ ~ n <= last - heard[id]
        BY <1>2, <3>2
      <4> QED
        BY <1>3, <2>1, <2>3, <3>2, <4>1 DEF replay, final
    <3>3. n <= last - heard[id] \/ n = last - heard[id] + 1
      BY <1>2
    <3> QED
      BY <3>1, <3>2, <3>3
  <2>5. <<final>> \in Seq(Frame)
    BY <2>2 DEF final
  <2> QED
    BY <1>2, <2>1, <2>3, <2>4, <2>5 DEF replay, final
<1>5. CASE cut
  BY <1>1, <1>3, <1>5 DEF WireOK, IsDispatch, SessionTypeOK
<1>6. CASE ~ cut
  <2>1. wire' = wire \o more /\ wire \in Seq(Frame) /\ more \in Seq(Frame)
    <3> DEFINE replay == Replay(id, seq)
               resumed == <<Dispatch(Resumed, id, last + 1)>>
    <3>1. wire \in Seq(Frame) /\ replay \in Seq(Frame) /\ resumed \in Seq(Frame)
      BY <1>4 DEF SessionTypeOK
    <3>2. wire' = (wire \o replay) \o resumed
      BY <1>1, <1>6
    <3>3. more \in Seq(Frame) /\ more = replay \o resumed
      BY <1>4
    <3> HIDE DEF replay, resumed, more
    <3> QED
      BY <3>1, <3>2, <3>3, ConcatAssociative
  <2> HIDE DEF last, more
  <2>2. /\ wire' \in Seq(Frame) /\ Len(wire) \in Nat /\ Len(more) \in Nat
        /\ Len(wire') = Len(wire) + Len(more)
        /\ \A n \in 1 .. Len(wire') :
             wire'[n] = IF n <= Len(wire) THEN wire[n] ELSE more[n - Len(wire)]
    BY <2>1, ConcatProperties, LenProperties
  <2>3. \A n \in 1 .. Len(wire) : ~ IsDispatch(n)
    BY <1>1 DEF WireOK
  <2>4. ASSUME NEW n \in 1 .. Len(wire'), n > Len(wire)
        PROVE  LET s == heard[id] + n - Len(wire)
               IN  /\ IsDispatch(n)' /\ ~ SessionIsGone(wire'[n])
                   /\ s > heard[id] /\ s <= last + 1
                   /\ wire'[n].session = id /\ wire'[n].s = s
                   /\ wire'[n].event = log'[id][s]
    <3>1. /\ n - Len(wire) \in 1 .. Len(more)
          /\ heard[id] + (n - Len(wire)) = heard[id] + n - Len(wire)
      BY <1>2, <2>2, <2>4
    <3>2. wire'[n] = Dispatch(log'[id][heard[id] + n - Len(wire)], id,
                              heard[id] + n - Len(wire))
      BY <1>4, <2>2, <2>4, <3>1
    <3> QED
      BY <1>2, <1>4, <3>1, <3>2 DEF IsDispatch, Dispatch, SessionIsGone
  <2>5. \A n \in 1 .. Len(wire') :
          \/ n \in 1 .. Len(wire) /\ wire'[n] = wire[n]
          \/ n > Len(wire)
    BY <2>2
  <2>6. \A n \in 1 .. Len(wire') : IsDispatch(n)' => n > Len(wire)
    BY <2>3, <2>5 DEF IsDispatch
  <2>7. ASSUME NEW n \in 1 .. Len(wire'), IsDispatch(n)'
        PROVE  \/ wire'[n].s = heard[id] + 1
               \/ \E m \in 1 .. n - 1 : IsDispatch(m)' /\ wire'[m].s = wire'[n].s - 1
    <3>1. n > Len(wire) /\ wire'[n].s = heard[id] + n - Len(wire)
      BY <2>4, <2>6, <2>7
    <3>2. CASE n = Len(wire) + 1
      BY <1>2, <2>2, <3>1, <3>2
    <3>3. CASE n > Len(wire) + 1
      <4>1. n - 1 \in 1 .. Len(wire') /\ n - 1 > Len(wire) /\ n - 1 \in 1 .. n - 1
        BY <2>2, <3>3
      <4>2. IsDispatch(n - 1)' /\ wire'[n - 1].s = heard[id] + (n - 1) - Len(wire)
        BY <2>4, <4>1
      <4> QED
        BY <1>2, <2>2, <3>1, <4>1, <4>2
    <3> QED
      BY <2>2, <3>1, <3>2, <3>3
  <2>8. ASSUME NEW m \in 1 .. Len(wire'), NEW n \in 1 .. Len(wire'),
               m < n, IsDispatch(m)', IsDispatch(n)'
        PROVE  wire'[m].s < wire'[n].s
    <3>1. /\ wire'[m].s = heard[id] + m - Len(wire)
          /\ wire'[n].s = heard[id] + n - Len(wire)
      BY <2>4, <2>6, <2>8
    <3> QED
      BY <1>2, <2>2, <2>8, <3>1
  <2>9. \E m \in 1 .. Len(wire') : IsDispatch(m)' /\ wire'[m].s = Len(log'[id])
    <3>1. PICK n \in 1 .. Len(wire') : n = Len(wire') /\ n > Len(wire)
      <4>1. Len(more) >= 1
        BY <1>2, <1>4
      <4> QED
        BY <2>2, <4>1
    <3>2. IsDispatch(n)' /\ wire'[n].s = heard[id] + n - Len(wire)
      BY <2>4, <3>1
    <3>3. heard[id] + n - Len(wire) = Len(log'[id])
      BY <1>2, <1>3, <1>4, <2>2, <3>1
    <3> QED
      BY <3>1, <3>2, <3>3
  <2>10. \A n \in 1 .. Len(wire') : IsDispatch(n)' =>
           /\ wire'[n].session = id
           /\ wire'[n].s > heard[id] /\ wire'[n].s <= Len(log'[id])
           /\ wire'[n].event = log'[id][wire'[n].s]
    BY <1>3, <2>4, <2>6
  <2>11. WireOK'
    <3>1. heard' = heard /\ attached' = id /\ id # 0
      BY <1>1
    <3> QED
      BY <2>7, <2>8, <2>9, <2>10, <3>1 DEF WireOK
  <2>12. \A n \in 1 .. Len(wire') : SessionIsGone(wire'[n]) =>
           n \in 1 .. Len(wire) /\ wire'[n] = wire[n]
    BY <2>4, <2>5
  <2> QED
    BY <2>2, <2>11, <2>12
<1> QED
  BY <1>5, <1>6

-----------------------------------------------------------------------------
(* The steps of the socket. *)

LEMMA SessionInvInit == Init => SessionInv
<1> SUFFICES ASSUME Init PROVE SessionInv
  OBVIOUS
<1> USE SessionAssumption DEF Init
<1>1. SessionTypeOK
  BY EmptySeq DEF SessionTypeOK, Session, Request, Nothing
<1>2. LogOK
  BY EmptySeq DEF LogOK, Session
<1>3. DeathOK
  BY DEF DeathOK, DeathToldOnce
<1> QED
  BY <1>1, <1>2, <1>3 DEF SessionInv

(* A frame that is no dispatch leaves the wire, or comes to it.            *)
LEMMA QuietGone ==
  ASSUME SessionTypeOK, GoneOK, UNCHANGED <<asked, beating, id, gone, attached>>,
         \/ wire # <<>> /\ wire' = Tail(wire)
         \/ \E f \in Frame : ~ SessionIsGone(f) /\ wire' = Append(wire, f)
  PROVE  GoneOK'
<1>1. CASE wire # <<>> /\ wire' = Tail(wire)
  <2>1. /\ Len(wire') = Len(wire) - 1 /\ Len(wire) \in Nat
        /\ \A n \in 1 .. Len(wire') : wire'[n] = wire[n + 1]
    BY <1>1, TailOfWire
  <2>2. \A n \in 1 .. Len(wire') : n + 1 \in 1 .. Len(wire)
    BY <2>1
  <2> QED
    BY <2>1, <2>2 DEF GoneOK
<1>2. CASE \E f \in Frame : ~ SessionIsGone(f) /\ wire' = Append(wire, f)
  BY <1>2, SentOnWire DEF GoneOK
<1> QED
  BY <1>1, <1>2

LEMMA OpensKeeps ==
  ASSUME SessionInv, Opens
  PROVE  SessionInv'
<1> USE DEF SessionInv, Opens, sessionVars, told, server
<1>1. SessionTypeOK'
  BY EmptySeq DEF SessionTypeOK, Request, NoFrames
<1>2. LogOK' /\ DeathOK'
  BY DEF LogOK, DeathOK, DeathToldOnce
<1>3. AskedOK' /\ WireOK' /\ GoneOK'
  BY EmptySeq DEF AskedOK, WireOK, GoneOK, NoFrames
<1> QED
  BY <1>1, <1>2, <1>3

(* A socket that ends, for whatever reason.                                *)
LEMMA EndsKeeps ==
  ASSUME SessionInv, NEW ending, Ends(ending), socket = "open",
         SessionIsGone(ending) => id \in gone \cup {0},
         UNCHANGED <<beating, established, startup, heard, server, attached, cut>>,
         wire' \in Seq(Frame), acked' \in BOOLEAN, asked' \in Request, faults' \in Nat
  PROVE  SessionInv'
<1> USE DEF SessionInv, Ends, ReportsDeath, server
<1>1. SessionTypeOK'
  BY DEF SessionTypeOK
<1>2. LogOK'
  BY DEF LogOK
<1>3. DeathOK'
  BY DEF DeathOK, DeathToldOnce, SessionTypeOK
<1>4. socket' # "open"
  OBVIOUS
<1> QED
  BY <1>1, <1>2, <1>3, <1>4

LEMMA TakesKeeps ==
  ASSUME SessionInv, Takes
  PROVE  SessionInv'
<1> USE DEF SessionInv
<1>1. /\ socket = "open" /\ wire # <<>> /\ wire' = Tail(wire) /\ wire[1] = Head(wire)
      /\ UNCHANGED <<server, attached, cut, faults>>
      /\ wire' \in Seq(Frame) /\ wire[1] \in Frame /\ 1 \in 1 .. Len(wire)
  BY TailOfWire DEF Takes
<1> DEFINE f == Head(wire)
<1>2. CASE /\ f.op = "hello" /\ TakesHello
           /\ UNCHANGED <<sessionVars, socket, acked, established, told>>
  <2> USE DEF sessionVars, told, server, TakesHello
  <2>1. SessionTypeOK'
    <3>1. asked' \in Request
      <4>1. [op |-> "identify"] \in Request /\ asked \in Request
        BY DEF SessionTypeOK, Request
      <4>2. id # 0 => [op |-> "resume", session |-> id, s |-> seq] \in Request
        BY DEF SessionTypeOK, Request
      <4> QED
        BY <1>2, <4>1, <4>2
    <3> QED
      BY <1>1, <1>2, <3>1 DEF SessionTypeOK
  <2>2. LogOK' /\ DeathOK'
    BY <1>1, <1>2 DEF LogOK, DeathOK, DeathToldOnce
  <2>3. WireOK'
    BY <1>1, <1>2, QuietTail DEF IsDispatch
  <2>4. AskedOK'
    BY <1>1, <1>2 DEF AskedOK, LogOK, SessionTypeOK
  <2>5. GoneOK'
    BY <1>1, <1>2, TailOfWire DEF GoneOK
  <2> QED
    BY <2>1, <2>2, <2>3, <2>4, <2>5
<1>3. CASE /\ f.op = "dispatch" /\ TakesDispatch(f)
           /\ UNCHANGED <<socket, acked, beating, startup, dead, asked>>
  <2> DEFINE i == attached
  <2>1. /\ i \in Session /\ f.session = i /\ f.s = heard[i] + 1 /\ f.s <= Len(log[i])
        /\ f.event = log[i][f.s] /\ f.s \in Nat \ {0}
    BY <1>1, <1>3, NextHeard, Numbered DEF IsDispatch
  <2>2. /\ f.event.t = "READY" <=> f.s = 1
        /\ id = i \/ (id = 0 /\ heard[i] = 0)
        /\ i <= latest /\ i # 0
    BY <1>1, <2>1 DEF LogOK, AskedOK, SessionTypeOK, Session
  <2>3. /\ id' = i /\ seq' = heard[i] + 1 /\ heard' = [heard EXCEPT ![i] = heard[i] + 1]
        /\ UNCHANGED <<socket, acked, beating, startup, dead, asked, log, gone, latest,
                       attached, cut, faults>>
    <3>1. f.event.t # "READY" => id = i
      BY <2>1, <2>2 DEF SessionTypeOK
    <3> QED
      BY <1>1, <1>3, <2>1, <3>1 DEF TakesDispatch, server
  <2>4. SessionTypeOK'
    BY <1>1, <1>3, <2>1, <2>3 DEF SessionTypeOK, TakesDispatch
  <2>5. LogOK'
    BY <2>1, <2>2, <2>3 DEF LogOK, SessionTypeOK
  <2>6. DeathOK'
    BY <1>1, <1>3, <2>1, <2>2, <2>3 DEF DeathOK, DeathToldOnce, SessionTypeOK, TakesDispatch
  <2>7. AskedOK'
    BY <2>1, <2>2, <2>3, <1>1 DEF AskedOK, SessionTypeOK
  <2>8. WireOK'
    BY <1>1, <1>3, <2>1, <2>3, DispatchTail DEF IsDispatch
  <2>9. GoneOK'
    BY <1>1, <2>2, <2>3, TailOfWire DEF GoneOK
  <2> QED
    BY <2>4, <2>5, <2>6, <2>7, <2>8, <2>9
<1>4. CASE /\ f.op = "ack" /\ acked' = TRUE
           /\ UNCHANGED <<sessionVars, socket, beating, established, told, asked>>
  <2> USE DEF sessionVars, told, server
  <2>1. SessionTypeOK'
    BY <1>1, <1>4 DEF SessionTypeOK
  <2>2. LogOK' /\ DeathOK'
    BY <1>1, <1>4 DEF LogOK, DeathOK, DeathToldOnce
  <2>3. WireOK' /\ GoneOK'
    BY <1>1, <1>4, QuietTail, QuietGone DEF IsDispatch
  <2>4. AskedOK'
    BY <1>1, <1>4 DEF AskedOK
  <2> QED
    BY <2>1, <2>2, <2>3, <2>4
<1>5. CASE /\ f.op \in {"reconnect", "invalid", "close"}
           /\ Ends(IF f.op = "reconnect" THEN Dropped ELSE f)
           /\ UNCHANGED <<acked, beating, established, startup, heard, asked>>
  <2>1. SessionIsGone(IF f.op = "reconnect" THEN Dropped ELSE f) => id \in gone \cup {0}
    BY <1>1, <1>5 DEF GoneOK, SessionIsGone, Dropped
  <2> QED
    BY <1>1, <1>5, <2>1, EndsKeeps DEF SessionTypeOK
<1> QED
  BY <1>2, <1>3, <1>4, <1>5 DEF Takes

LEMMA BeatsKeeps ==
  ASSUME SessionInv, Beats
  PROVE  SessionInv'
<1> USE DEF SessionInv
<1>1. CASE ~ Unanswered
  <2> USE <1>1 DEF Beats, sessionVars, told, server
  <2>1. [op |-> "ack"] \in Frame
    BY Frames
  <2>2. SessionTypeOK'
    BY <2>1, SentOnWire DEF SessionTypeOK
  <2>3. LogOK' /\ DeathOK'
    BY DEF LogOK, DeathOK, DeathToldOnce
  <2>4. AskedOK'
    BY DEF AskedOK
  <2>5. WireOK' /\ GoneOK'
    <3>1. CASE cut
      BY <3>1 DEF WireOK, IsDispatch, GoneOK
    <3>2. CASE ~ cut
      BY <2>1, <3>2, QuietSend, QuietGone DEF SessionIsGone
    <3> QED
      BY <3>1, <3>2
  <2> QED
    BY <2>2, <2>3, <2>4, <2>5
<1>2. CASE Unanswered
  <2>1. ~ SessionIsGone(Dropped)
    BY DEF SessionIsGone, Dropped
  <2> QED
    BY <1>2, <2>1, EndsKeeps DEF Beats, Late, Fault, SessionTypeOK
<1> QED
  BY <1>1, <1>2

LEMMA StallsKeeps ==
  ASSUME SessionInv, Stalls
  PROVE  SessionInv'
<1>1. ~ SessionIsGone(Dropped)
  BY DEF SessionIsGone, Dropped
<1> QED
  BY <1>1, EndsKeeps DEF SessionInv, Stalls, Late, Fault, SessionTypeOK, network

LEMMA StartKeeps ==
  ASSUME SessionInv, Starts \/ StartTimesOut
  PROVE  SessionInv'
<1> USE DEF SessionInv, Starts, StartTimesOut, sessionVars, connection, server, network
<1>1. SessionTypeOK'
  BY DEF SessionTypeOK
<1>2. LogOK' /\ DeathOK'
  BY DEF LogOK, DeathOK, DeathToldOnce, SessionTypeOK
<1>3. socket' = "open" => AskedOK' /\ WireOK' /\ GoneOK'
  BY DEF AskedOK, WireOK, IsDispatch, GoneOK
<1> QED
  BY <1>1, <1>2, <1>3

LEMMA GreetsKeeps ==
  ASSUME SessionInv, Greets
  PROVE  SessionInv'
<1> USE DEF SessionInv, Greets, Sends, sessionVars, connection, told, server
<1>1. [op |-> "hello"] \in Frame /\ ~ SessionIsGone([op |-> "hello"])
  BY Frames DEF SessionIsGone
<1>2. SessionTypeOK'
  BY <1>1, SentOnWire DEF SessionTypeOK, Request, Nothing
<1>3. LogOK' /\ DeathOK'
  BY DEF LogOK, DeathOK, DeathToldOnce
<1>4. AskedOK'
  BY DEF AskedOK, Nothing
<1>5. WireOK'
  <2>1. CASE cut
    BY <2>1 DEF WireOK, IsDispatch
  <2>2. CASE ~ cut
    BY <1>1, <2>2, QuietSend
  <2> QED
    BY <2>1, <2>2
<1>6. GoneOK'
  BY <1>1, SentOnWire DEF GoneOK
<1> QED
  BY <1>2, <1>3, <1>4, <1>5, <1>6

LEMMA IdentifiesKeeps ==
  ASSUME SessionInv, Identifies
  PROVE  SessionInv'
<1> USE DEF SessionInv
<1> DEFINE i == latest + 1
<1>1. /\ i \in Session /\ i # 0 /\ i > latest /\ attached = 0 /\ id = 0
      /\ log[i] = <<>> /\ heard[i] = 0 /\ i \notin gone
      /\ socket = "open" /\ asked.op = "identify" /\ beating
  BY SessionAssumption DEF Identifies, AskedOK, LogOK, SessionTypeOK, Session
<1>2. /\ log' = [log EXCEPT ![i] = Append(@, ReadyEvent)]
      /\ Sends(Dispatch(ReadyEvent, i, Len(log[i]) + 1))
      /\ attached' = i /\ latest' = i /\ asked' = Nothing
      /\ UNCHANGED <<sessionVars, connection, told, gone, cut, faults>>
  BY <1>1 DEF Identifies
<1>3. /\ log' \in [Session -> Seq(Event)]
      /\ \A j \in Session : j # i => log'[j] = log[j]
      /\ Len(log'[i]) = 1 /\ log'[i][1] = ReadyEvent
  <2>1. /\ log' \in [Session -> Seq(Event)]
        /\ \A j \in Session : j # i => log'[j] = log[j]
        /\ Len(log'[i]) = Len(log[i]) + 1 /\ log'[i][Len(log'[i])] = ReadyEvent
    BY <1>1, <1>2, LogGrows, Events
  <2> QED
    BY <1>1, <2>1
<1>4. \A n \in 1 .. Len(wire) : ~ IsDispatch(n) /\ ~ SessionIsGone(wire[n])
  BY <1>1 DEF WireOK, GoneOK
<1>5. Dispatch(ReadyEvent, i, 1) \in Frame /\ ~ SessionIsGone(Dispatch(ReadyEvent, i, 1))
  <2>1. Dispatch(ReadyEvent, i, 1) \in Frame
    <3>1. ReadyEvent \in Event /\ 1 \in Nat \ {0}
      BY Events
    <3> QED
      BY <1>1, <3>1, Frames
  <2> QED
    BY <2>1 DEF Dispatch, SessionIsGone
<1>6. SessionTypeOK'
  BY <1>1, <1>2, <1>3, <1>5, SentOnWire
  DEF SessionTypeOK, Sends, Request, Nothing, sessionVars, connection, told
<1>7. LogOK'
  BY <1>1, <1>2, <1>3, Events DEF LogOK, SessionTypeOK, Session, sessionVars, told
<1>8. DeathOK'
  BY <1>2 DEF DeathOK, DeathToldOnce, sessionVars, connection, told
<1>9. AskedOK'
  BY <1>1, <1>2 DEF AskedOK, Nothing, sessionVars, connection, told, SessionTypeOK
<1>10. WireOK'
  BY <1>1, <1>2, <1>4, NewDispatch, Events DEF told
<1>11. GoneOK'
  BY <1>1, <1>2, <1>4, <1>5, SentOnWire DEF GoneOK, Sends
<1> QED
  BY <1>6, <1>7, <1>8, <1>9, <1>10, <1>11

LEMMA ResumesKeeps ==
  ASSUME SessionInv, Resumes
  PROVE  SessionInv'
<1> USE DEF SessionInv
<1>1. /\ socket = "open" /\ attached = 0 /\ beating /\ asked.session = id
      /\ id \in Session /\ id # 0 /\ id <= latest
      /\ asked' = Nothing
      /\ UNCHANGED <<sessionVars, connection, told, gone, latest, cut, faults>>
      /\ \A n \in 1 .. Len(wire) : ~ SessionIsGone(wire[n])
  BY DEF Resumes, AskedOK, LogOK, GoneOK, SessionTypeOK
<1>0. Resumed \in Event /\ Resumed.t # "READY"
  BY Events
<1>2. CASE id \in gone
  <2>1. /\ [op |-> "invalid"] \in Frame
        /\ Sends([op |-> "invalid"]) /\ UNCHANGED <<log, attached>>
    BY <1>1, <1>2, Frames DEF Resumes
  <2> USE DEF sessionVars, connection, told
  <2>2. SessionTypeOK'
    BY <1>1, <2>1, SentOnWire DEF SessionTypeOK, Sends, Request, Nothing
  <2>3. LogOK' /\ DeathOK'
    BY <1>1, <2>1 DEF LogOK, DeathOK, DeathToldOnce
  <2>4. AskedOK'
    BY <1>1, <2>1 DEF AskedOK, Nothing
  <2>5. WireOK'
    <3>1. CASE cut
      BY <1>1, <2>1, <3>1 DEF WireOK, IsDispatch, Sends
    <3>2. CASE ~ cut
      BY <1>1, <2>1, <3>2, QuietSend DEF Sends
    <3> QED
      BY <3>1, <3>2
  <2>6. GoneOK'
    BY <1>1, <1>2, <2>1, SentOnWire DEF GoneOK, Sends, Nothing
  <2> QED
    BY <2>2, <2>3, <2>4, <2>5, <2>6
<1>3. CASE id \notin gone
  <2>1. attached' = id /\ log' = [log EXCEPT ![id] = Append(@, Resumed)]
    BY <1>1, <1>3 DEF Resumes
  <2>2. /\ wire' \in Seq(Frame) /\ WireOK'
        /\ \A n \in 1 .. Len(wire') : ~ SessionIsGone(wire'[n])
    BY <1>1, <1>3, CatchesUp
  <2>3. /\ log' \in [Session -> Seq(Event)]
        /\ \A j \in Session : j # id => log'[j] = log[j]
        /\ Len(log'[id]) = Len(log[id]) + 1 /\ Len(log[id]) \in Nat
        /\ \A n \in 1 .. Len(log[id]) : log'[id][n] = log[id][n]
        /\ log'[id][Len(log[id]) + 1] = Resumed
    <3>1. /\ log' \in [Session -> Seq(Event)]
          /\ \A j \in Session : j # id => log'[j] = log[j]
          /\ Len(log'[id]) = Len(log[id]) + 1 /\ Len(log[id]) \in Nat
          /\ \A n \in 1 .. Len(log[id]) : log'[id][n] = log[id][n]
          /\ log'[id][Len(log'[id])] = Resumed
      <4>1. SessionTypeOK
        OBVIOUS
      <4> QED
        BY <1>0, <1>1, <2>1, <4>1, LogGrows
    <3> QED
      BY <3>1
  <2> USE DEF sessionVars, connection, told
  <2>4. SessionTypeOK'
    BY <1>1, <2>1, <2>2, <2>3 DEF SessionTypeOK, Request, Nothing
  <2>5. Len(log[id]) >= 1
    BY <1>1, <2>3 DEF LogOK, SessionTypeOK
  <2>6. LogOK'
    BY <1>1, <2>1, <2>3, <2>5, <1>0 DEF LogOK, SessionTypeOK, Session
  <2>7. DeathOK'
    BY <1>1 DEF DeathOK, DeathToldOnce
  <2>8. AskedOK' /\ GoneOK'
    BY <1>1, <2>1, <2>2 DEF AskedOK, GoneOK, Nothing
  <2> QED
    BY <2>2, <2>4, <2>6, <2>7, <2>8
<1> QED
  BY <1>2, <1>3

LEMMA EmitsKeeps ==
  ASSUME SessionInv, NEW i \in Session, NEW e \in {Message}, Emits(i, e)
  PROVE  SessionInv'
<1> USE DEF SessionInv
<1>1. /\ log' = [log EXCEPT ![i] = Append(@, e)] /\ e \in Event /\ e.t # "READY"
      /\ IF attached = i /\ socket = "open" THEN Sends(Dispatch(e, i, Len(log[i]) + 1))
         ELSE UNCHANGED wire
      /\ log[i] # <<>>
      /\ UNCHANGED <<sessionVars, connection, told, gone, latest, attached, asked, cut, faults>>
  BY Events DEF Emits
<1> USE DEF sessionVars, connection, told
<1>2. /\ log' \in [Session -> Seq(Event)]
      /\ \A j \in Session : j # i => log'[j] = log[j]
      /\ Len(log'[i]) = Len(log[i]) + 1 /\ Len(log[i]) \in Nat \ {0}
      /\ \A n \in 1 .. Len(log[i]) : log'[i][n] = log[i][n]
      /\ log'[i][Len(log[i]) + 1] = e
  <2>1. /\ log' \in [Session -> Seq(Event)]
        /\ \A j \in Session : j # i => log'[j] = log[j]
        /\ Len(log'[i]) = Len(log[i]) + 1 /\ Len(log[i]) \in Nat
        /\ \A n \in 1 .. Len(log[i]) : log'[i][n] = log[i][n]
        /\ log'[i][Len(log'[i])] = e
    BY <1>1, LogGrows
  <2>2. Len(log[i]) # 0
    BY <1>1, EmptySeq DEF SessionTypeOK
  <2> QED
    BY <2>1, <2>2
<1>3. Dispatch(e, i, Len(log[i]) + 1) \in Frame
  <2>1. Len(log[i]) + 1 \in Nat \ {0}
    BY <1>2
  <2> QED
    BY <1>1, <2>1, Frames
<1>4. SessionTypeOK'
  BY <1>1, <1>2, <1>3, SentOnWire DEF SessionTypeOK, Sends
<1>5. LogOK'
  BY <1>1, <1>2 DEF LogOK, SessionTypeOK
<1>6. DeathOK'
  BY <1>1 DEF DeathOK, DeathToldOnce
<1>7. ASSUME socket = "open" PROVE AskedOK' /\ WireOK' /\ GoneOK'
  <2>1. AskedOK'
    BY <1>1, <1>7 DEF AskedOK
  <2>2. CASE attached = i
    <3>1. WireOK'
      BY <1>1, <1>7, <2>2, NewDispatch
    <3>2. GoneOK'
      <4>1. ~ SessionIsGone(Dispatch(e, i, Len(log[i]) + 1))
        BY DEF SessionIsGone, Dispatch
      <4> QED
        BY <1>1, <1>3, <1>7, <2>2, <4>1, SentOnWire DEF GoneOK, Sends
    <3> QED
      BY <2>1, <3>1, <3>2
  <2>3. CASE attached # i
    <3>0. attached \in Session \cup {0}
      BY DEF SessionTypeOK
    <3>1. attached # 0 => attached \in Session /\ log'[attached] = log[attached]
      BY <1>2, <2>3, <3>0
    <3>2. wire' = wire /\ GoneOK'
      BY <1>1, <1>7, <2>3 DEF GoneOK
    <3>3. WireOK'
      BY <1>1, <1>7, <3>1, <3>2 DEF WireOK, IsDispatch
    <3> QED
      BY <2>1, <3>2, <3>3
  <2> QED
    BY <2>2, <2>3
<1> QED
  BY <1>1, <1>4, <1>5, <1>6, <1>7

LEMMA CutsKeeps ==
  ASSUME SessionInv, CutsOff
  PROVE  SessionInv'
<1> USE DEF SessionInv
<1>1. /\ socket = "open" /\ cut' = TRUE /\ faults' = faults + 1
      /\ UNCHANGED <<sessionVars, connection, told, server, attached, asked>>
      /\ \/ wire' = wire
         \/ \E f \in Frame : /\ f.op # "dispatch" /\ ~ SessionIsGone(f)
                             /\ wire' = Append(wire, f)
  <2>1. wire \o <<>> = wire
    BY ConcatEmptySeq DEF SessionTypeOK
  <2>2. ASSUME NEW f PROVE wire \o <<f>> = Append(wire, f)
    OBVIOUS
  <2>3. /\ [op |-> "reconnect"] \in Frame /\ ~ SessionIsGone([op |-> "reconnect"])
        /\ \A code \in {"other", "fatal"} :
             Closed(code) \in Frame /\ ~ SessionIsGone(Closed(code))
    BY Frames DEF SessionIsGone, Closed
  <2>4. [op |-> "reconnect"].op # "dispatch" /\ \A code : Closed(code).op # "dispatch"
    BY DEF Closed
  <2> QED
    BY <2>1, <2>2, <2>3, <2>4 DEF CutsOff, Cuts, Fault
<1> USE DEF sessionVars, connection, told, server
<1>2. SessionTypeOK'
  BY <1>1, SentOnWire DEF SessionTypeOK
<1>3. LogOK' /\ DeathOK'
  BY <1>1 DEF LogOK, DeathOK, DeathToldOnce
<1>4. AskedOK'
  BY <1>1 DEF AskedOK
<1>5. CASE wire' = wire
  BY <1>1, <1>2, <1>3, <1>4, <1>5 DEF WireOK, IsDispatch, GoneOK
<1>6. CASE \E f \in Frame : /\ f.op # "dispatch" /\ ~ SessionIsGone(f)
                            /\ wire' = Append(wire, f)
  BY <1>1, <1>2, <1>3, <1>4, <1>6, QuietSend, QuietGone
<1> QED
  BY <1>1, <1>5, <1>6

LEMMA ForgetsKeeps ==
  ASSUME SessionInv, NEW i \in Session, Forgets(i)
  PROVE  SessionInv'
<1> USE DEF SessionInv
<1>1. /\ gone' = gone \cup {i} /\ faults' = faults + 1 /\ i <= latest
      /\ UNCHANGED <<sessionVars, connection, told, log, latest, attached, asked>>
      /\ \/ UNCHANGED <<cut, wire>>
         \/ /\ attached = i /\ socket = "open" /\ cut' = TRUE
            /\ \E f \in Frame : f.op # "dispatch" /\ wire' = Append(wire, f)
  <2>1. /\ [op |-> "invalid"] \in Frame /\ Closed("invalid sequence") \in Frame
        /\ [op |-> "invalid"].op # "dispatch" /\ Closed("invalid sequence").op # "dispatch"
    BY Frames DEF Closed
  <2>2. i <= latest
    <3>1. log[i] # <<>>
      BY DEF Forgets
    <3>2. latest \in Session \cup {0}
      BY DEF SessionTypeOK
    <3>3. i \in Int /\ latest \in Int
      BY <3>2, SessionAssumption DEF Session
    <3> QED
      BY <3>1, <3>3 DEF LogOK
  <2>3. /\ gone' = gone \cup {i} /\ faults' = faults + 1
        /\ UNCHANGED <<sessionVars, connection, told, log, latest, attached, asked>>
    BY DEF Forgets, Fault
  <2>4. CASE attached = i /\ socket = "open" /\ ~ cut
    <3>1. /\ cut' = TRUE
          /\ \E f \in {[op |-> "invalid"], Closed("invalid sequence")} : wire' = Append(wire, f)
      BY <2>4 DEF Forgets
    <3> QED
      BY <2>1, <2>2, <2>3, <2>4, <3>1
  <2>5. CASE ~ (attached = i /\ socket = "open" /\ ~ cut)
    BY <2>2, <2>3, <2>5 DEF Forgets
  <2> QED
    BY <2>4, <2>5
<1> USE DEF sessionVars, connection, told
<1>2. SessionTypeOK'
  <2>1. wire' \in Seq(Frame) /\ cut' \in BOOLEAN
    BY <1>1, SentOnWire DEF SessionTypeOK
  <2> QED
    BY <1>1, <2>1 DEF SessionTypeOK
<1>3. LogOK' /\ DeathOK'
  <2>1. ASSUME NEW j \in Session, j > latest
        PROVE  log[j] = <<>> /\ heard[j] = 0 /\ j \notin gone \cup {i}
    BY <1>1, <2>1 DEF LogOK, SessionTypeOK, Session
  <2>2. LogOK'
    BY <1>1, <2>1 DEF LogOK
  <2> QED
    BY <1>1, <2>2 DEF DeathOK, DeathToldOnce
<1>4. socket = "open" => AskedOK'
  BY <1>1 DEF AskedOK
<1>5. CASE UNCHANGED <<cut, wire>>
  BY <1>1, <1>2, <1>3, <1>4, <1>5 DEF WireOK, IsDispatch, GoneOK
<1>6. CASE /\ attached = i /\ socket = "open" /\ cut' = TRUE
           /\ \E f \in Frame : f.op # "dispatch" /\ wire' = Append(wire, f)
  <2>1. WireOK'
    BY <1>1, <1>6, QuietSend
  <2>2. asked.op = "nothing" /\ beating /\ {id, attached} \subseteq gone' \cup {0}
    BY <1>1, <1>6, SessionAssumption DEF AskedOK, SessionTypeOK, Session
  <2>3. GoneOK'
    BY <1>1, <2>2 DEF GoneOK
  <2> QED
    BY <1>1, <1>2, <1>3, <1>4, <1>6, <2>1, <2>3
<1> QED
  BY <1>1, <1>5, <1>6

LEMMA SessionInvStep == SessionInv /\ [Next]_vars => SessionInv'
<1> SUFFICES ASSUME SessionInv, [Next]_vars PROVE SessionInv'
  OBVIOUS
<1>1. CASE UNCHANGED vars
  BY <1>1
  DEF vars, sessionVars, connection, told, server, network, SessionInv, SessionTypeOK, LogOK,
      DeathOK, DeathToldOnce, AskedOK, WireOK, IsDispatch, GoneOK
<1>2. CASE Next
  BY <1>2, OpensKeeps, TakesKeeps, BeatsKeeps, StallsKeeps, StartKeeps, GreetsKeeps,
     IdentifiesKeeps, ResumesKeeps, EmitsKeeps, CutsKeeps, ForgetsKeeps
  DEF Next, ClientStep, ServerStep, Faulty
<1> QED
  BY <1>1, <1>2

(* The wire holds nothing but what was not heard yet, in the server's      *)
(* order, across every drop, resume and new session (client.ts).           *)
THEOREM SessionInvariant == Spec => []SessionInv
  BY SessionInvInit, SessionInvStep, PTL DEF Spec

(* However the socket ends, whoever waits for it learns so exactly once:    *)
(* the startup, or onDead after READY (client.ts:500-503, 550-553, 872).    *)
THEOREM DeathIsToldOnce == Spec => []DeathToldOnce
<1>1. SessionInv => DeathToldOnce
  BY DEF SessionInv, DeathOK
<1> QED
  BY <1>1, SessionInvariant, PTL

(* A step of the client is one of the feed: it hears the next dispatch of  *)
(* the session it follows, or leaves a session that is gone.               *)
LEMMA FeedStep ==
  ASSUME SessionInv, [Next]_vars
  PROVE  [Promise!Next]_(Promise!vars)
<1> USE DEF SessionInv, Promise!vars
<1>1. ASSUME NEW ending, Ends(ending), SessionIsGone(ending) => id \in gone \cup {0},
             UNCHANGED <<heard, gone>>
      PROVE  [Promise!Next]_(Promise!vars)
  BY <1>1 DEF Ends, Promise!Next, Promise!Leaves
<1>2. CASE Takes
  <2>1. /\ socket = "open" /\ wire # <<>> /\ wire[1] = Head(wire) /\ gone' = gone
        /\ 1 \in 1 .. Len(wire)
    BY <1>2, TailOfWire DEF Takes, server
  <2> DEFINE f == Head(wire)
  <2>2. CASE f.op = "dispatch" /\ TakesDispatch(f)
    <3>1. /\ attached \in Session /\ f.session = attached /\ f.s = heard[attached] + 1
          /\ f.event = log[attached][f.s] /\ f.s \in 1 .. Len(log[attached])
      BY <2>1, <2>2, NextHeard, Numbered DEF IsDispatch, SessionTypeOK
    <3>2. /\ f.event.t = "READY" <=> f.s = 1
          /\ id = attached \/ (id = 0 /\ heard[attached] = 0)
      BY <2>1, <3>1 DEF LogOK, AskedOK, Session
    <3>3. f.event.t # "READY" => id = attached
      BY <3>1, <3>2 DEF SessionTypeOK
    <3>4. id' = attached /\ heard' = [heard EXCEPT ![attached] = @ + 1]
      BY <2>2, <3>1, <3>3 DEF TakesDispatch
    <3> QED
      BY <2>1, <3>1, <3>2, <3>4 DEF Promise!Next, Promise!Hears
  <2>3. CASE Ends(IF f.op = "reconnect" THEN Dropped ELSE f) /\ UNCHANGED heard
    <3>1. SessionIsGone(IF f.op = "reconnect" THEN Dropped ELSE f) => id \in gone \cup {0}
      BY <2>1 DEF GoneOK, SessionIsGone, Dropped
    <3> QED
      BY <1>1, <2>1, <2>3, <3>1
  <2>4. CASE UNCHANGED <<sessionVars, told>>
    BY <2>1, <2>4 DEF sessionVars, told
  <2> QED
    BY <1>2, <2>2, <2>3, <2>4 DEF Takes
<1>3. CASE Beats \/ Stalls
  <2>1. ~ SessionIsGone(Dropped)
    BY DEF SessionIsGone, Dropped
  <2> QED
    BY <1>1, <1>3, <2>1 DEF Beats, Stalls, sessionVars, told, server
<1>4. ASSUME NEW i \in Session, Forgets(i)
      PROVE  [Promise!Next]_(Promise!vars)
  BY <1>4 DEF Forgets, sessionVars, told, Promise!Next, Promise!Ended
<1>5. CASE \/ Opens \/ Starts \/ StartTimesOut \/ ServerStep \/ CutsOff
           \/ \E i \in Session : Emits(i, Message)
  BY <1>5
  DEF Opens, Starts, StartTimesOut, ServerStep, Greets, Identifies, Resumes, CutsOff, Cuts, Emits,
      sessionVars, told, server
<1>6. CASE UNCHANGED vars
  BY <1>6 DEF vars, sessionVars, told, server
<1> QED
  BY <1>2, <1>3, <1>4, <1>5, <1>6 DEF Next, ClientStep, Faulty

(* Across sockets, drops and resumes a listener hears each session from its *)
(* READY on, in order, nothing twice and nothing left out (client.ts:496-503, *)
(* 870).                                                                    *)
THEOREM ImplementsFeed == Spec => FeedImplemented
<1>1. Init => Promise!Init
  BY DEF Init, Promise!Init
<1>2. SessionInv /\ [Next]_vars => [Promise!Next]_(Promise!vars)
  BY FeedStep
<1> QED
  BY <1>1, <1>2, SessionInvariant, PTL DEF Spec, FeedImplemented, Promise!Spec

-----------------------------------------------------------------------------
(* The permissions and the startup audit (gateways/fluxer/permissions.ts,    *)
(* audit.ts).                                                              *)
(* One step of overwrites, seen from one permission: an allow of the step    *)
(* gives it, a deny alone takes it, and else it stays as it was             *)
(* (permissions.ts applyOverwrites).                                       *)
LEMMA OverwritesOfOne ==
  ASSUME NEW mask, NEW step, NEW p
  PROVE  p \in ApplyOverwrites(mask, step)
         <=> Allows(step, p) \/ (p \in mask /\ ~ Denies(step, p))
  BY DEF ApplyOverwrites, Allows, Denies

(* No step leaves the set of the permissions there are.                     *)
LEMMA OverwritesStayWithin ==
  ASSUME NEW mask \in SUBSET Permission, NEW step,
         \A o \in step : o.allow \subseteq Permission
  PROVE  ApplyOverwrites(mask, step) \subseteq Permission
  BY DEF ApplyOverwrites

(* The three steps in their order (everyone, roles, member) give a member    *)
(* exactly what the closest overwrite that speaks of a permission decides,   *)
(* an allow beating a deny among those of one step; the owner and an         *)
(* administrator have everything (permissions.ts effectivePermissions).     *)
THEOREM ClosestOverwriteDecides ==
  ASSUME NEW guild, NEW owner, NEW roles, NEW who, NEW held, NEW overwrites,
         \A r \in roles : r.permissions \subseteq Permission,
         \A o \in overwrites : o.allow \subseteq Permission
  PROVE  EffectivePermissions(guild, owner, roles, who, held, overwrites)
         = {p \in Permission : Granted(guild, owner, roles, who, held, overwrites, p)}
<1> DEFINE base == Base(roles, guild, held)
           all == Everyone(overwrites, guild)
           ofRoles == OfRoles(overwrites, guild, held)
           mine == OfMember(overwrites, who)
           one == ApplyOverwrites(base, all)
           two == ApplyOverwrites(one, ofRoles)
           three == ApplyOverwrites(two, mine)
<1>1. CASE who = owner \/ Administrator \in base
  BY <1>1 DEF EffectivePermissions, Granted
<1>2. CASE ~ (who = owner \/ Administrator \in base)
  <2>1. EffectivePermissions(guild, owner, roles, who, held, overwrites) = three
    BY <1>2 DEF EffectivePermissions
  <2>2. three \subseteq Permission
    <3>1. base \subseteq Permission
      BY DEF Base
    <3>2. one \subseteq Permission
      BY <3>1, OverwritesStayWithin DEF Everyone
    <3>3. two \subseteq Permission
      BY <3>2, OverwritesStayWithin DEF OfRoles
    <3> QED
      BY <3>3, OverwritesStayWithin DEF OfMember
  <2>3. ASSUME NEW p
        PROVE  p \in three <=> Granted(guild, owner, roles, who, held, overwrites, p)
    <3>1. p \in one <=> Allows(all, p) \/ (p \in base /\ ~ Denies(all, p))
      BY OverwritesOfOne
    <3>2. p \in two <=> Allows(ofRoles, p) \/ (p \in one /\ ~ Denies(ofRoles, p))
      BY OverwritesOfOne
    <3>3. p \in three <=> Allows(mine, p) \/ (p \in two /\ ~ Denies(mine, p))
      BY OverwritesOfOne
    <3> HIDE DEF base, all, ofRoles, mine, one, two, three
    <3>4. Granted(guild, owner, roles, who, held, overwrites, p)
          <=> \/ Allows(mine, p)
              \/ ~ Denies(mine, p) /\ Allows(ofRoles, p)
              \/ ~ Denies(mine, p) /\ ~ Denies(ofRoles, p) /\ Allows(all, p)
              \/ ~ Denies(mine, p) /\ ~ Denies(ofRoles, p) /\ ~ Denies(all, p) /\ p \in base
      BY <1>2 DEF Granted, base, all, ofRoles, mine
    <3> QED
      BY <3>1, <3>2, <3>3, <3>4
  <2> QED
    <3> HIDE DEF three
    <3> QED
      BY <2>1, <2>2, <2>3
<1> QED
  BY <1>1, <1>2


(* A check of a channel finds nothing exactly when the bot may use it       *)
(* (audit.ts missing, verdict).                                            *)
LEMMA CheckedIsUsable ==
  ASSUME NEW g \in Guild, NEW state \in StatesOf(g) \ {Malformed, Down},
         NEW c \in DOMAIN state.channels
  PROVE  Usable(g, state, c) <=> /\ Finding(g, state, c).type \in TextTypes
                                 /\ Finding(g, state, c).missing = {}
<1> DEFINE overwrites == state.channels[c].overwrites
           mask == EffectivePermissions(g, state.owner, state.roles, Bot, state.held, overwrites)
           granted(p) == Granted(g, state.owner, state.roles, Bot, state.held, overwrites, p)
<1>1. /\ \A r \in state.roles : r.permissions \subseteq Permission
      /\ \A o \in overwrites : o.allow \subseteq Permission
      /\ Required \subseteq Permission
  BY GatewayAssumption
<1>2. mask = {p \in Permission : granted(p)}
  <2> HIDE DEF overwrites
  <2> QED
    BY <1>1, ClosestOverwriteDecides
<1>3. Finding(g, state, c).type = state.channels[c].type
      /\ Finding(g, state, c).missing = Required \ mask
  BY DEF Finding, MissingPermissions
<1>4. Usable(g, state, c) <=> /\ state.channels[c].type \in TextTypes
                              /\ \A p \in Required : granted(p)
  BY DEF Usable
<1> HIDE DEF mask, granted
<1> QED
  BY <1>1, <1>2, <1>3, <1>4

GuildNews ==
  UNION {{GuildEvent(g, state) : state \in StatesOf(g) \cup {Down}} : g \in Guild}

(* The findings are those of the states in which the watched channels were *)
(* last listed, and the verdict waits for exactly the guilds that were not *)
(* heard from.                                                             *)
NewsOK ==
  /\ news \in Seq(GuildNews)
  /\ audit.seen = {news[n].guild : n \in DOMAIN news}

FindingsOK ==
  /\ DOMAIN audit.findings = {c \in Watched : \E n \in DOMAIN news : Stands(n, c)}
  /\ \A c \in Watched : \A n \in DOMAIN news :
       Stands(n, c) => audit.findings[c] = Finding(news[n].guild, news[n].state, c)

VerdictOK ==
  /\ audit.expected \in (SUBSET Guild) \cup {NotYet}
  /\ audit.settled = Complete(audit)
  /\ audited = IF audit.settled THEN Verdict(audit) ELSE "pending"

AuditInv ==
  /\ DOMAIN audit = {"expected", "seen", "unchecked", "findings", "settled"}
  /\ NewsOK /\ FindingsOK /\ VerdictOK

LEMMA NewsOfAGuild ==
  ASSUME NEW e \in GuildNews
  PROVE  /\ e.guild \in Guild
         /\ e.t \in {"GUILD_CREATE", "GUILD_DELETE"}
         /\ e.t = "GUILD_CREATE" => e.state \in StatesOf(e.guild) \ {Down}
<1>1. PICK g \in Guild : \E state \in StatesOf(g) \cup {Down} : e = GuildEvent(g, state)
  BY DEF GuildNews
<1>2. PICK state \in StatesOf(g) \cup {Down} : e = GuildEvent(g, state)
  BY <1>1
<1> QED
  BY <1>2 DEF GuildEvent

(* A verdict that is drawn so is an honest one.                            *)
LEMMA AuditInvHonest ==
  ASSUME AuditInv
  PROVE  AuditHonest
<1> USE DEF AuditInv
<1>1. audited = "pending" <=> ~ audit.settled
  BY DEF VerdictOK, Verdict
<1>2. audit.settled <=> audit.expected # NotYet /\ audit.expected \subseteq audit.seen
  BY DEF VerdictOK, Complete, Pending
<1>3. \A g : g \in audit.seen <=> \E n \in DOMAIN news : TellsOf(n, g)
  BY DEF NewsOK, TellsOf
<1>4. audit.settled => audited = IF \E c \in Watched : Problem(audit, c) THEN "failed" ELSE "ok"
  BY DEF VerdictOK, Verdict
<1>5. ASSUME NEW c \in Watched
      PROVE  Problem(audit, c) <=> ~ Fine(c)
  <2>1. ASSUME NEW n \in DOMAIN news, Stands(n, c)
        PROVE  Usable(news[n].guild, news[n].state, c) <=> ~ Problem(audit, c)
    <3>1. news[n] \in GuildNews /\ Lists(n, c)
      BY <2>1 DEF NewsOK, Stands
    <3>2. /\ news[n].guild \in Guild
          /\ news[n].state \in StatesOf(news[n].guild) \ {Malformed, Down}
          /\ c \in DOMAIN news[n].state.channels
      BY <3>1, NewsOfAGuild DEF Lists, Loses
    <3>3. /\ c \in DOMAIN audit.findings
          /\ audit.findings[c] = Finding(news[n].guild, news[n].state, c)
      BY <2>1 DEF FindingsOK
    <3> QED
      BY <3>2, <3>3, CheckedIsUsable DEF Problem
  <2>2. c \in DOMAIN audit.findings <=> \E n \in DOMAIN news : Stands(n, c)
    BY DEF FindingsOK
  <2> QED
    BY <2>1, <2>2 DEF Fine, Problem
<1> QED
  BY <1>1, <1>2, <1>3, <1>4, <1>5 DEF AuditHonest

(* What one more event of a guild does to the channels that stand.         *)
LEMMA NewsGrows ==
  ASSUME news \in Seq(GuildNews), NEW e \in GuildNews, news' = Append(news, e), NEW k,
         k = Len(news) + 1
  PROVE  /\ news' \in Seq(GuildNews)
         /\ DOMAIN news = 1 .. Len(news) /\ Len(news) \in Nat
         /\ DOMAIN news' = DOMAIN news \cup {k} /\ k \notin DOMAIN news
         /\ \A n \in DOMAIN news : news'[n] = news[n]
         /\ news'[k] = e
         /\ \A n \in DOMAIN news : \A c :
              Stands(n, c)' <=> /\ Stands(n, c) /\ ~ Lists(k, c)'
                                /\ ~ (Loses(k)' /\ e.guild = news[n].guild)
         /\ \A c : Stands(k, c)' <=> Lists(k, c)'
<1>1. /\ news' \in Seq(GuildNews)
      /\ DOMAIN news = 1 .. Len(news) /\ Len(news) \in Nat
      /\ DOMAIN news' = DOMAIN news \cup {k} /\ k \notin DOMAIN news
      /\ \A n \in DOMAIN news : news'[n] = news[n] /\ n < k
      /\ news'[k] = e
  BY AppendProperties, LenProperties
<1>2. \A n \in DOMAIN news : \A c : Lists(n, c)' <=> Lists(n, c)
  BY <1>1 DEF Lists, Loses
<1>3. \A n \in DOMAIN news : \A g : Loses(n)' <=> Loses(n)
  BY <1>1 DEF Loses
<1>4. \A n \in DOMAIN news : \A g : TellsOf(n, g)' <=> TellsOf(n, g)
  BY <1>1 DEF TellsOf
<1>5. \A g : TellsOf(k, g)' <=> e.guild = g
  BY <1>1 DEF TellsOf
<1>6. ASSUME NEW n \in DOMAIN news, NEW c
      PROVE  Stands(n, c)' <=> /\ Stands(n, c) /\ ~ Lists(k, c)'
                               /\ ~ (Loses(k)' /\ e.guild = news[n].guild)
  BY <1>1, <1>2, <1>3, <1>4, <1>5 DEF Stands
<1>7. ASSUME NEW c PROVE Stands(k, c)' <=> Lists(k, c)'
  BY <1>1 DEF Stands
<1> QED
  BY <1>1, <1>6, <1>7

(* What a step that is no news leaves as it was.                           *)
LEMMA AuditQuiet ==
  ASSUME AuditInv, UNCHANGED <<audit, audited, news>>
  PROVE  AuditInv'
  BY DEF AuditInv, NewsOK, FindingsOK, VerdictOK, Stands, Lists, Loses, TellsOf

(* READY, or news of a guild, after the verdict.                           *)
LEMMA DeafKeeps ==
  ASSUME AuditInv, audit.settled, NEW e, Dispatched(e), UNCHANGED news
  PROVE  AuditInv'
  BY AuditQuiet DEF Dispatched, Feed

(* The event that completes the burst settles the verdict.                 *)
LEMMA FeedSettles ==
  ASSUME AuditInv, ~ audit.settled, NEW e, Dispatched(e), NEW next,
         next = Reads(audit, e), DOMAIN next = DOMAIN audit,
         next.expected \in (SUBSET Guild) \cup {NotYet}
  PROVE  /\ DOMAIN audit' = DOMAIN audit
         /\ audit'.seen = next.seen /\ audit'.findings = next.findings
         /\ VerdictOK'
<1>1. audit' = [next EXCEPT !.settled = Complete(next)]
  BY DEF Dispatched, Feed
<1>2. /\ DOMAIN audit' = DOMAIN audit
      /\ audit'.seen = next.seen /\ audit'.findings = next.findings
      /\ audit'.expected = next.expected /\ audit'.settled = Complete(next)
  BY <1>1 DEF AuditInv
<1>3. Complete(audit') = Complete(next)
  BY <1>2 DEF Complete, Pending
<1>4. audited' = IF audit'.settled THEN Verdict(audit') ELSE "pending"
  BY <1>2 DEF AuditInv, VerdictOK, Dispatched
<1> QED
  BY <1>2, <1>3, <1>4 DEF VerdictOK

LEMMA ReadyKeeps ==
  ASSUME AuditInv, ~ audit.settled, NEW guilds \in SUBSET Guild, UNCHANGED news,
         Dispatched([t |-> "READY", guilds |-> guilds])
  PROVE  AuditInv'
<1> DEFINE next == HearsReady(audit, guilds)
<1>1. next = Reads(audit, [t |-> "READY", guilds |-> guilds])
  BY DEF Reads
<1>2. /\ DOMAIN next = DOMAIN audit /\ next.expected \in (SUBSET Guild) \cup {NotYet}
      /\ next.seen = audit.seen /\ next.findings = audit.findings
  BY DEF HearsReady, AuditInv, VerdictOK
<1> HIDE DEF next
<1>3. /\ DOMAIN audit' = DOMAIN audit
      /\ audit'.seen = audit.seen /\ audit'.findings = audit.findings
      /\ VerdictOK'
  BY <1>1, <1>2, FeedSettles
<1>4. NewsOK' /\ FindingsOK'
  BY <1>3 DEF AuditInv, NewsOK, FindingsOK, Stands, Lists, Loses, TellsOf
<1> QED
  BY <1>3, <1>4 DEF AuditInv

LEMMA TellsKeeps ==
  ASSUME AuditInv, ~ audit.settled, NEW e \in GuildNews, Dispatched(e),
         news' = Append(news, e)
  PROVE  AuditInv'
<1> DEFINE next == Reads(audit, e)
           g == e.guild
<1>0. PICK k : k = Len(news) + 1
  OBVIOUS
<1>1. /\ g \in Guild /\ e.t \in {"GUILD_CREATE", "GUILD_DELETE"}
      /\ e.t = "GUILD_CREATE" => e.state \in StatesOf(g) \ {Down}
  BY NewsOfAGuild
<1>2. /\ news' \in Seq(GuildNews)
      /\ DOMAIN news' = DOMAIN news \cup {k} /\ k \notin DOMAIN news
      /\ \A n \in DOMAIN news : news'[n] = news[n]
      /\ news'[k] = e
      /\ \A n \in DOMAIN news : \A c :
           Stands(n, c)' <=> /\ Stands(n, c) /\ ~ Lists(k, c)'
                             /\ ~ (Loses(k)' /\ g = news[n].guild)
      /\ \A c : Stands(k, c)' <=> Lists(k, c)'
  BY <1>0, NewsGrows DEF AuditInv, NewsOK
<1> DEFINE loses == e.t = "GUILD_DELETE" \/ e.state = Malformed
           listed == {c \in Watched : c \in DOMAIN e.state.channels}
<1>3. next = IF loses THEN Lose(audit, g) ELSE GuildCreate(audit, g, e.state)
  BY <1>1 DEF Reads, GuildCreate
<1>4. /\ Loses(k)' <=> loses
      /\ \A c : Lists(k, c)' <=> ~ loses /\ c \in DOMAIN e.state.channels
  BY <1>2 DEF Loses, Lists
<1>5. /\ DOMAIN next = DOMAIN audit /\ next.expected = audit.expected
      /\ next.seen = audit.seen \cup {g}
      /\ loses => next.findings = Without(audit.findings, g)
      /\ ~ loses => next.findings = [c \in listed \cup DOMAIN audit.findings |->
                     IF c \in listed THEN Finding(g, e.state, c) ELSE audit.findings[c]]
  <2>1. CASE loses
    BY <1>3, <2>1 DEF Lose, AuditInv
  <2>2. CASE ~ loses
    <3>1. listed = Watched \cap DOMAIN e.state.channels
      OBVIOUS
    <3> HIDE DEF listed
    <3>2. next = [audit EXCEPT
              !.seen = @ \cup {g},
              !.unchecked = @ \ {g},
              !.findings = [c \in listed \cup DOMAIN @ |->
                              IF c \in listed THEN Finding(g, e.state, c) ELSE @[c]]]
      BY <1>3, <2>2, <3>1 DEF GuildCreate
    <3> HIDE DEF next
    <3> QED
      BY <2>2, <3>2 DEF AuditInv
  <2> QED
    BY <2>1, <2>2
<1>6. /\ DOMAIN audit' = DOMAIN audit
      /\ audit'.seen = next.seen /\ audit'.findings = next.findings
      /\ VerdictOK'
  <2>1. next.expected \in (SUBSET Guild) \cup {NotYet}
    BY <1>5 DEF AuditInv, VerdictOK
  <2> HIDE DEF next
  <2>2. next = Reads(audit, e)
    BY DEF next
  <2> QED
    BY <1>5, <2>1, <2>2, FeedSettles
<1> HIDE DEF next, loses, g
<1>7. NewsOK'
  <2>1. audit'.seen = {news[n].guild : n \in DOMAIN news} \cup {e.guild}
    BY <1>5, <1>6 DEF AuditInv, NewsOK, g
  <2> QED
    BY <1>2, <2>1 DEF NewsOK
<1>8. FindingsOK'
  <2>1. CASE loses
    <3>1. \A n \in DOMAIN news : \A c : Stands(n, c)' <=> Stands(n, c) /\ news[n].guild # g
      BY <1>2, <1>4, <2>1
    <3>2. \A c : ~ Stands(k, c)'
      BY <1>2, <1>4, <2>1
    <3>3. ASSUME NEW c \in Watched, NEW n \in DOMAIN news, Stands(n, c)
          PROVE  c \in DOMAIN audit.findings /\ audit.findings[c].guild = news[n].guild
      <4>1. /\ c \in DOMAIN audit.findings
            /\ audit.findings[c] = Finding(news[n].guild, news[n].state, c)
        BY <3>3 DEF AuditInv, FindingsOK
      <4>2. Finding(news[n].guild, news[n].state, c).guild = news[n].guild
        BY DEF Finding
      <4> QED
        BY <4>1, <4>2
    <3>4. /\ DOMAIN audit'.findings = {c \in DOMAIN audit.findings : audit.findings[c].guild # g}
          /\ \A c \in DOMAIN audit'.findings : audit'.findings[c] = audit.findings[c]
      BY <1>5, <1>6, <2>1 DEF Without
    <3>5. ASSUME NEW c \in Watched
          PROVE  c \in DOMAIN audit'.findings <=> \E n \in DOMAIN news' : Stands(n, c)'
      BY <1>2, <3>1, <3>2, <3>3, <3>4 DEF AuditInv, FindingsOK
    <3>6. ASSUME NEW c \in Watched, NEW n \in DOMAIN news', Stands(n, c)'
          PROVE  audit'.findings[c] = Finding(news'[n].guild, news'[n].state, c)
      <4>1. n \in DOMAIN news /\ Stands(n, c) /\ news'[n] = news[n]
        BY <1>2, <3>1, <3>2, <3>6
      <4>2. c \in DOMAIN audit'.findings
        BY <3>5, <3>6
      <4> QED
        BY <3>4, <4>1, <4>2 DEF AuditInv, FindingsOK
    <3>7. DOMAIN audit'.findings \subseteq Watched
      BY <3>4 DEF AuditInv, FindingsOK
    <3> QED
      BY <3>5, <3>6, <3>7 DEF FindingsOK
  <2>2. CASE ~ loses
    <3>1. \A n \in DOMAIN news, c \in Watched : Stands(n, c)' <=> Stands(n, c) /\ c \notin listed
      BY <1>2, <1>4, <2>2
    <3>2. \A c \in Watched : Stands(k, c)' <=> c \in listed
      BY <1>2, <1>4, <2>2
    <3>3. /\ DOMAIN audit'.findings = listed \cup DOMAIN audit.findings
          /\ \A c \in listed : audit'.findings[c] = Finding(g, e.state, c)
          /\ \A c \in DOMAIN audit.findings \ listed : audit'.findings[c] = audit.findings[c]
      <4> HIDE DEF listed
      <4> QED
        BY <1>5, <1>6, <2>2
    <3>4. listed \subseteq Watched
      OBVIOUS
    <3> HIDE DEF listed
    <3>5. ASSUME NEW c \in Watched
          PROVE  c \in DOMAIN audit'.findings <=> \E n \in DOMAIN news' : Stands(n, c)'
      BY <1>2, <3>1, <3>2, <3>3 DEF AuditInv, FindingsOK
    <3>6. ASSUME NEW c \in Watched, NEW n \in DOMAIN news', Stands(n, c)'
          PROVE  audit'.findings[c] = Finding(news'[n].guild, news'[n].state, c)
      <4>1. CASE n = k
        BY <1>2, <3>2, <3>3, <3>6, <4>1 DEF g
      <4>2. CASE n \in DOMAIN news
        <5>1. Stands(n, c) /\ c \notin listed /\ news'[n] = news[n]
          BY <1>2, <3>1, <3>6, <4>2
        <5>2. c \in DOMAIN audit.findings
          BY <4>2, <5>1 DEF AuditInv, FindingsOK
        <5> QED
          BY <3>3, <4>2, <5>1, <5>2 DEF AuditInv, FindingsOK
      <4> QED
        BY <1>2, <4>1, <4>2
    <3>7. DOMAIN audit'.findings \subseteq Watched
      BY <3>3, <3>4 DEF AuditInv, FindingsOK
    <3> QED
      BY <3>5, <3>6, <3>7 DEF FindingsOK
  <2> QED
    BY <2>1, <2>2
<1> QED
  BY <1>6, <1>7, <1>8 DEF AuditInv

LEMMA AuditInvInit == GatewayInit => AuditInv
<1> SUFFICES ASSUME GatewayInit PROVE AuditInv
  OBVIOUS
<1>1. DOMAIN news = {} /\ news \in Seq(GuildNews)
  BY EmptySeq DEF GatewayInit
<1>2. /\ audit = NewAudit /\ audited = "pending"
      /\ DOMAIN NewAudit = {"expected", "seen", "unchecked", "findings", "settled"}
      /\ NewAudit.expected = NotYet /\ NewAudit.seen = {} /\ NewAudit.settled = FALSE
  BY DEF GatewayInit, NewAudit
<1>3. NewAudit.findings = <<>> /\ DOMAIN <<>> = {}
  BY DEF NewAudit
<1>4. NewsOK
  BY <1>1, <1>2 DEF NewsOK
<1>5. FindingsOK
  <2>1. DOMAIN audit.findings = {}
    BY <1>2, <1>3
  <2> QED
    BY <1>1, <2>1 DEF FindingsOK
<1>6. VerdictOK
  <2>1. audit.expected = NotYet /\ audit.settled = FALSE
    BY <1>2
  <2>2. Complete(audit) = FALSE
    BY <2>1 DEF Complete
  <2>3. audit.settled = Complete(audit)
    BY <2>1, <2>2
  <2>4. audited = IF audit.settled THEN Verdict(audit) ELSE "pending"
    BY <1>2, <2>1
  <2>5. audit.expected \in (SUBSET Guild) \cup {NotYet}
    BY <2>1
  <2> QED
    BY <2>3, <2>4, <2>5, Zenon DEF VerdictOK
<1> QED
  BY <1>2, <1>4, <1>5, <1>6 DEF AuditInv

LEMMA AuditInvStep == AuditInv /\ [GatewayNext]_gatewayVars => AuditInv'
<1> SUFFICES ASSUME AuditInv, [GatewayNext]_gatewayVars PROVE AuditInv'
  OBVIOUS
<1>1. CASE Burst
  <2>1. PICK guilds \in SUBSET Guild : Dispatched([t |-> "READY", guilds |-> guilds])
    BY <1>1 DEF Burst
  <2>2. UNCHANGED news
    BY <1>1 DEF Burst
  <2> QED
    BY <2>1, <2>2, DeafKeeps, ReadyKeeps
<1>2. CASE GuildChanges
  <2>1. PICK g \in Guild : \E state \in StatesOf(g) \cup {Down} :
          /\ Dispatched(GuildEvent(g, state))
          /\ news' = IF audit.settled THEN news ELSE Append(news, GuildEvent(g, state))
    BY <1>2 DEF GuildChanges
  <2>2. PICK state \in StatesOf(g) \cup {Down} :
          /\ Dispatched(GuildEvent(g, state))
          /\ news' = IF audit.settled THEN news ELSE Append(news, GuildEvent(g, state))
    BY <2>1
  <2>3. GuildEvent(g, state) \in GuildNews
    BY DEF GuildNews
  <2> QED
    BY <2>2, <2>3, DeafKeeps, TellsKeeps
<1>3. CASE UNCHANGED <<audit, audited, news>>
  BY <1>3, AuditQuiet
<1> QED
  BY <1>1, <1>2, <1>3
  DEF GatewayNext, gatewayVars, Goes, Discovers, ChecksToken, Refused, Connects, Connected,
      NotConnected, Settles, Listening, AuditFails, SocketEnds

(* For every set of guilds and channels, the verdict of the startup audit   *)
(* is that of the rule on the watched channels as they were last listed,    *)
(* and it is given by the event that completes the burst (audit.ts feed).   *)
THEOREM AuditIsHonest == GatewaySpec => []AuditHonest
<1>1. AuditInv => AuditHonest
  BY AuditInvHonest
<1> QED
  BY <1>1, AuditInvInit, AuditInvStep, PTL DEF GatewaySpec

-----------------------------------------------------------------------------
(* The comments of a Seerr issue (gateways/seerr/client.ts, sender.ts).    *)

(* Of finitely many numbers one is the greatest.                           *)
LEMMA GreatestNumber ==
  ASSUME NEW k \in Nat, NEW T \in SUBSET (1 .. k), T # {}
  PROVE  \E m \in T : \A t \in T : t <= m
<1> DEFINE below == {k - t : t \in T}
<1>1. IsWellFoundedOn(OpToRel(<, Nat), Nat)
  BY NatLessThanWellFounded
<1>2. below \subseteq Nat /\ below # {}
  <2>1. \A t \in T : k - t \in Nat
    OBVIOUS
  <2> QED
    BY <2>1
<1>3. PICK b \in below : \A t \in below : ~ (<<t, b>> \in OpToRel(<, Nat))
  <2> HIDE DEF below
  <2> QED
    BY <1>1, <1>2, WFMin
<1>4. OpToRel(<, Nat) = {ss \in Nat \X Nat : ss[1] < ss[2]}
  BY DEF OpToRel
<1>5. PICK m \in T : b = k - m
  OBVIOUS
<1>6. ASSUME NEW t \in T PROVE t <= m
  <2>1. k - t \in below /\ k - t \in Nat /\ b \in Nat
    BY <1>2
  <2>2. ~ (k - t < b)
    BY <1>3, <1>4, <2>1
  <2> QED
    BY <1>5, <2>2
<1> QED
  BY <1>6

(* The stages of a request, and of the check of a comment.                 *)
CallState == {"idle", "asked", "saved"}
Ruling == {"unheard", "ignored", "reading", "reporter", "other", "member", "admin", "denied"}

IssueTypeOK ==
  /\ reporter \in users /\ users \subseteq Account
  /\ comments \in Seq(users \cup Post) /\ Len(comments) >= 1
  /\ access \in Seq(Ruling) /\ Len(access) = Len(comments)
  /\ signed \subseteq Nat /\ deleted \subseteq Nat
  /\ posting \subseteq Post
  /\ call \in [Post -> CallState]
  /\ late \in [Post -> Nat]
  /\ made \in [Post -> Nat]
  /\ marker \in [Post -> Nat]

(* A request under way holds the permit, and no other does.                *)
PermitOK ==
  /\ \A p, q \in posting : p = q
  /\ \A p \in Post : call[p] \in {"asked", "saved"} <=> p \in posting

(* A marker is at or after the comment its post made, which is newer than  *)
(* every marker taken before it.                                           *)
MarkersOK ==
  /\ \A p \in Post :
       /\ made[p] # 0 <=> call[p] = "saved" \/ marker[p] # 0
       /\ marker[p] # 0 => call[p] = "idle"
       /\ made[p] # 0 => made[p] \in 2 .. Len(comments) /\ comments[made[p]] = p
       /\ marker[p] # 0 => marker[p] \in made[p] .. Len(comments)
  /\ \A p, q \in Post : p # q /\ marker[p] # 0 /\ made[q] # 0 =>
       marker[p] < made[q] \/ (marker[q] # 0 /\ marker[q] < made[p])
  /\ 1 \notin signed /\ {0, 1} \cap deleted = {}
  /\ \A n \in deleted : \E p \in Post : marker[p] = n
  /\ signed \subseteq DOMAIN comments
  /\ \A n \in signed : comments[n] \in Post \/ \E p \in Post : marker[p] = n

(* Own comments are never let in, and the reporter is never a stranger.    *)
SendersOK ==
  \A n \in DOMAIN comments :
    /\ comments[n] \in Post => access[n] \in {"unheard", "ignored"}
    /\ comments[n] = reporter => access[n] # "other"
    /\ access[n] = "reporter" => Matches(reporter, comments[n])

IssueInv == IssueTypeOK /\ PermitOK /\ MarkersOK /\ SendersOK

(* One comment more in the issue.                                          *)
LEMMA CommentSaved ==
  ASSUME IssueTypeOK, NEW who \in users \cup Post, Saves(who)
  PROVE  /\ comments' \in Seq(users \cup Post) /\ Len(comments') = Len(comments) + 1
         /\ access' \in Seq(Ruling) /\ Len(access') = Len(comments')
         /\ Len(comments) \in Nat \ {0}
         /\ DOMAIN comments = 1 .. Len(comments) /\ DOMAIN access = DOMAIN comments
         /\ DOMAIN comments' = DOMAIN comments \cup {Len(comments) + 1}
         /\ \A n \in DOMAIN comments : comments'[n] = comments[n] /\ access'[n] = access[n]
         /\ comments'[Len(comments) + 1] = who /\ access'[Len(comments) + 1] = "unheard"
<1>1. /\ comments \in Seq(users \cup Post) /\ access \in Seq(Ruling)
      /\ comments' = Append(comments, who) /\ access' = Append(access, "unheard")
      /\ "unheard" \in Ruling /\ Len(access) = Len(comments) /\ Len(comments) \in Nat \ {0}
  <2>1. comments \in Seq(users \cup Post) /\ Len(comments) >= 1
    BY DEF IssueTypeOK
  <2> QED
    BY <2>1, LenProperties DEF IssueTypeOK, Saves, Ruling
<1>2. /\ comments' \in Seq(users \cup Post) /\ Len(comments') = Len(comments) + 1
      /\ \A n \in 1 .. Len(comments) : comments'[n] = comments[n]
      /\ comments'[Len(comments) + 1] = who
  BY <1>1, AppendProperties
<1>3. /\ access' \in Seq(Ruling) /\ Len(access') = Len(access) + 1
      /\ \A n \in 1 .. Len(access) : access'[n] = access[n]
      /\ access'[Len(access) + 1] = "unheard"
  BY <1>1, AppendProperties
<1>4. DOMAIN comments = 1 .. Len(comments) /\ DOMAIN access = 1 .. Len(access)
      /\ DOMAIN comments' = 1 .. Len(comments')
  BY <1>1, <1>2, LenProperties
<1> QED
  BY <1>1, <1>2, <1>3, <1>4

(* The newest comment that is left is as new as the one just made.         *)
LEMMA NewestIsNew ==
  ASSUME IssueTypeOK, MarkersOK, NEW q \in Post, call[q] = "saved",
         \A p \in Post : marker[p] < made[q]
  PROVE  Max(Ids \ deleted) \in made[q] .. Len(comments)
<1>1. Len(comments) \in Nat /\ Ids = 1 .. Len(comments)
  <2>1. comments \in Seq(users \cup Post)
    BY DEF IssueTypeOK
  <2> QED
    BY <2>1, LenProperties DEF Ids, IssueTypeOK
<1>2. made[q] \in 2 .. Len(comments)
  BY DEF MarkersOK
<1>3. made[q] \in Ids \ deleted
  <2>1. made[q] \notin deleted
    BY <1>1, <1>2 DEF MarkersOK
  <2> QED
    BY <1>1, <1>2, <2>1
<1>4. \E m \in Ids \ deleted : \A t \in Ids \ deleted : m >= t
  <2>1. PICK m \in Ids \ deleted : \A t \in Ids \ deleted : t <= m
    BY <1>1, <1>3, GreatestNumber
  <2> QED
    BY <1>1, <2>1
<1>5. /\ Max(Ids \ deleted) \in Ids \ deleted
      /\ \A t \in Ids \ deleted : Max(Ids \ deleted) >= t
  BY <1>4 DEF Max
<1> DEFINE newest == Max(Ids \ deleted)
<1>6. newest >= made[q] /\ newest \in 1 .. Len(comments)
  BY <1>1, <1>3, <1>5
<1> HIDE DEF newest
<1>7. newest \in made[q] .. Len(comments)
  BY <1>1, <1>2, <1>6
<1> QED
  BY <1>7 DEF newest

LEMMA IssueInvInit == SeerrInit => IssueInv
<1> SUFFICES ASSUME SeerrInit PROVE IssueInv
  OBVIOUS
<1>1. /\ comments = <<reporter>> /\ access = <<"member">>
      /\ users \subseteq Account /\ reporter \in users
      /\ reporter \notin Post
  BY SeerrAssumption DEF SeerrInit
<1>2. IssueTypeOK
  BY <1>1 DEF SeerrInit, IssueTypeOK, CallState, Ruling
<1>3. PermitOK /\ MarkersOK
  BY DEF SeerrInit, PermitOK, MarkersOK
<1>4. SendersOK
  BY <1>1 DEF SendersOK
<1> QED
  BY <1>2, <1>3, <1>4 DEF IssueInv

(* What the host does to its own posts.                                    *)
LEMMA ShowsKeeps ==
  ASSUME IssueInv, NEW p \in Post, Shows(p)
  PROVE  IssueInv'
<1> USE DEF IssueInv, Shows, seerrVars
<1>1. IssueTypeOK'
  BY DEF IssueTypeOK, CallState
<1>2. PermitOK'
  BY DEF PermitOK, PermitFree, IssueTypeOK
<1>3. MarkersOK'
  BY DEF MarkersOK, IssueTypeOK
<1>4. SendersOK'
  BY DEF SendersOK
<1> QED
  BY <1>1, <1>2, <1>3, <1>4

(* A comment more of a post, waited for or not, leaves what is there as it  *)
(* is.                                                                     *)
LEMMA SavedKeeps ==
  ASSUME IssueInv, NEW p \in Post, Saved(p)
  PROVE  /\ comments' \in Seq(users \cup Post) /\ Len(comments') = Len(comments) + 1
         /\ access' \in Seq(Ruling) /\ Len(access') = Len(comments')
         /\ Len(comments) \in Nat \ {0} /\ DOMAIN comments = 1 .. Len(comments)
         /\ DOMAIN comments' = DOMAIN comments \cup {Len(comments) + 1}
         /\ \A n \in DOMAIN comments : comments'[n] = comments[n]
         /\ comments'[Len(comments) + 1] = p
         /\ signed' = signed \cup {Len(comments) + 1}
         /\ SendersOK'
<1> DEFINE n == Len(comments) + 1
<1>1. /\ comments' \in Seq(users \cup Post) /\ Len(comments') = n
      /\ access' \in Seq(Ruling) /\ Len(access') = Len(comments')
      /\ Len(comments) \in Nat \ {0} /\ DOMAIN comments = 1 .. Len(comments)
      /\ DOMAIN comments' = DOMAIN comments \cup {n}
      /\ \A k \in DOMAIN comments : comments'[k] = comments[k] /\ access'[k] = access[k]
      /\ comments'[n] = p /\ access'[n] = "unheard"
  BY CommentSaved DEF Saved, IssueInv
<1>2. signed' = signed \cup {n} /\ UNCHANGED <<users, holds>>
  BY DEF Saved
<1> HIDE DEF n
<1>3. SendersOK'
  BY <1>1, <1>2, SeerrAssumption DEF SendersOK, IssueInv
<1> QED
  BY <1>1, <1>2, <1>3 DEF n

LEMMA PostedKeeps ==
  ASSUME IssueInv, NEW p \in Post, Posted(p)
  PROVE  IssueInv'
<1> USE DEF IssueInv
<1> DEFINE n == Len(comments) + 1
<1>1. /\ call[p] = "asked" /\ signed' = signed \cup {n}
      /\ call' = [call EXCEPT ![p] = "saved"] /\ made' = [made EXCEPT ![p] = n]
      /\ UNCHANGED <<deleted, users, holds, grants, posting, marker, late>>
  BY DEF Posted, Saved
<1>2. /\ comments' \in Seq(users \cup Post) /\ Len(comments') = n
      /\ access' \in Seq(Ruling) /\ Len(access') = n
      /\ Len(comments) \in Nat \ {0} /\ DOMAIN comments = 1 .. Len(comments)
      /\ DOMAIN comments' = DOMAIN comments \cup {n}
      /\ \A k \in DOMAIN comments : comments'[k] = comments[k]
      /\ comments'[n] = p
  BY SavedKeeps DEF Posted
<1>3. n \in Nat /\ n >= 2 /\ \A k \in 1 .. Len(comments) : k < n /\ k \in 1 .. n
  BY <1>2
<1> HIDE DEF n
<1>4. IssueTypeOK'
  BY <1>1, <1>2, <1>3 DEF IssueTypeOK, CallState
<1>5. PermitOK'
  BY <1>1 DEF PermitOK, IssueTypeOK
<1>6. MarkersOK'
  <2>1. marker[p] = 0 /\ made \in [Post -> Nat] /\ marker \in [Post -> Nat] /\ call \in [Post -> CallState]
    BY <1>1 DEF MarkersOK, IssueTypeOK
  <2>2. \A q \in Post : marker[q] < n
    <3>1. ASSUME NEW q \in Post, marker[q] # 0
          PROVE  marker[q] \in 1 .. Len(comments)
      <4>1. made[q] \in 2 .. Len(comments) /\ marker[q] \in made[q] .. Len(comments)
        BY <3>1 DEF MarkersOK
      <4> QED
        BY <1>2, <2>1, <4>1
    <3> QED
      BY <1>3, <2>1, <3>1
  <2>3. \A q \in Post : made'[q] = IF q = p THEN n ELSE made[q]
    BY <1>1, <2>1
  <2>4. \A q \in Post : call'[q] = IF q = p THEN "saved" ELSE call[q]
    BY <1>1, <2>1
  <2>5. ASSUME NEW q \in Post
        PROVE  /\ made'[q] # 0 <=> call'[q] = "saved" \/ marker[q] # 0
               /\ marker[q] # 0 => call'[q] = "idle"
               /\ made'[q] # 0 => made'[q] \in 2 .. n /\ comments'[made'[q]] = q
               /\ marker[q] # 0 => marker[q] \in made'[q] .. n
    <3>1. CASE q = p
      BY <1>2, <1>3, <2>1, <2>3, <2>4, <3>1
    <3>2. CASE q # p
      <4>1. made[q] \in 2 .. Len(comments) => made[q] \in DOMAIN comments /\ made[q] \in 2 .. n
        BY <1>2, <1>3, <2>1
      <4>2. marker[q] \in made[q] .. Len(comments) => marker[q] \in made[q] .. n
        BY <1>2, <1>3, <2>1, <2>2
      <4> QED
        BY <1>2, <2>3, <2>4, <3>2, <4>1, <4>2 DEF MarkersOK
    <3> QED
      BY <3>1, <3>2
  <2>6. \A q, r \in Post : q # r /\ marker[q] # 0 /\ made'[r] # 0 =>
          marker[q] < made'[r] \/ (marker[r] # 0 /\ marker[r] < made'[q])
    BY <2>1, <2>2, <2>3 DEF MarkersOK
  <2>7. 1 \notin signed' /\ {0, 1} \cap deleted = {}
        /\ \A k \in deleted : \E q \in Post : marker[q] = k
    BY <1>1, <1>3 DEF MarkersOK
  <2>8. /\ signed' \subseteq DOMAIN comments'
        /\ \A k \in signed' : comments'[k] \in Post \/ \E q \in Post : marker[q] = k
    BY <1>1, <1>2 DEF MarkersOK
  <2> QED
    BY <1>1, <1>2, <2>5, <2>6, <2>7, <2>8 DEF MarkersOK
<1>7. SendersOK'
  BY SavedKeeps DEF Posted
<1> QED
  BY <1>4, <1>5, <1>6, <1>7

(* A comment that nobody waits for takes no marker and moves none.         *)
LEMMA IssueGrows ==
  ASSUME IssueTypeOK, MarkersOK, UNCHANGED <<deleted, call, made, marker>>,
         NEW extra \in SUBSET {Len(comments) + 1}, signed' = signed \cup extra,
         Len(comments) \in Nat \ {0}, Len(comments') = Len(comments) + 1,
         DOMAIN comments = 1 .. Len(comments),
         DOMAIN comments' = DOMAIN comments \cup {Len(comments) + 1},
         \A k \in DOMAIN comments : comments'[k] = comments[k],
         \A k \in extra : comments'[k] \in Post
  PROVE  MarkersOK'
<1> DEFINE n == Len(comments) + 1
<1>1. n \in Nat /\ n >= 2 /\ Len(comments') = n
  OBVIOUS
<1>2. made \in [Post -> Nat] /\ marker \in [Post -> Nat]
  BY DEF IssueTypeOK
<1>3. ASSUME NEW q \in Post
      PROVE  /\ made[q] # 0 => made[q] \in 2 .. n /\ comments'[made[q]] = q
             /\ marker[q] # 0 => marker[q] \in made[q] .. n
  <2>1. made[q] \in 2 .. Len(comments) => made[q] \in DOMAIN comments /\ made[q] \in 2 .. n
    BY <1>2
  <2>2. marker[q] \in made[q] .. Len(comments) => marker[q] \in made[q] .. n
    BY <1>2
  <2> QED
    BY <2>1, <2>2 DEF MarkersOK
<1>4. 1 \notin signed'
  <2>1. 1 \notin extra
    BY <1>1
  <2> QED
    BY <2>1 DEF MarkersOK
<1>5. /\ signed' \subseteq DOMAIN comments'
      /\ \A k \in signed' : comments'[k] \in Post \/ \E q \in Post : marker[q] = k
  BY DEF MarkersOK
<1> HIDE DEF n
<1> QED
  BY <1>1, <1>3, <1>4, <1>5 DEF MarkersOK

LEMMA ArrivesKeeps ==
  ASSUME IssueInv, NEW p \in Post, Arrives(p)
  PROVE  IssueInv'
<1> USE DEF IssueInv
<1>1. /\ late[p] > 0 /\ late' = [late EXCEPT ![p] = @ - 1]
      /\ UNCHANGED <<deleted, users, holds, grants, posting, marker, call, made>>
  BY DEF Arrives, Saved
<1>2. IssueTypeOK'
  <2>1. late' \in [Post -> Nat]
    BY <1>1 DEF IssueTypeOK
  <2>2. /\ comments' \in Seq(users \cup Post) /\ Len(comments') = Len(comments) + 1
        /\ access' \in Seq(Ruling) /\ Len(access') = Len(comments')
        /\ Len(comments) \in Nat \ {0} /\ signed' = signed \cup {Len(comments) + 1}
    BY SavedKeeps DEF Arrives
  <2>3. signed' \subseteq Nat /\ Len(comments') >= 1
    <3>1. Len(comments) + 1 \in Nat /\ Len(comments) + 1 >= 1
      BY <2>2
    <3> QED
      BY <2>2, <3>1 DEF IssueTypeOK
  <2> QED
    BY <1>1, <2>1, <2>2, <2>3 DEF IssueTypeOK
<1>3. PermitOK'
  BY <1>1 DEF PermitOK
<1>4. MarkersOK'
  <2>1. /\ signed' = signed \cup {Len(comments) + 1}
        /\ Len(comments) \in Nat \ {0} /\ Len(comments') = Len(comments) + 1
        /\ DOMAIN comments = 1 .. Len(comments)
        /\ DOMAIN comments' = DOMAIN comments \cup {Len(comments) + 1}
        /\ \A k \in DOMAIN comments : comments'[k] = comments[k]
        /\ comments'[Len(comments) + 1] = p
    BY SavedKeeps DEF Arrives
  <2>2. UNCHANGED <<deleted, call, made, marker>>
    BY <1>1
  <2>3. PICK extra \in SUBSET {Len(comments) + 1} : extra = {Len(comments) + 1}
    OBVIOUS
  <2>4. signed' = signed \cup extra /\ \A k \in extra : comments'[k] \in Post
    BY <2>1, <2>3
  <2> QED
    BY <2>1, <2>2, <2>4, IssueGrows
<1>5. SendersOK'
  BY SavedKeeps DEF Arrives
<1> QED
  BY <1>2, <1>3, <1>4, <1>5

LEMMA AnsweredKeeps ==
  ASSUME IssueInv, NEW p \in Post, Answered(p)
  PROVE  IssueInv'
<1> USE DEF IssueInv
<1> DEFINE newest == Max(Ids \ deleted)
<1>1. /\ call[p] = "saved" /\ call' = [call EXCEPT ![p] = "idle"]
      /\ marker' = [marker EXCEPT ![p] = newest] /\ posting' = posting \ {p}
      /\ UNCHANGED <<comments, signed, deleted, users, holds, access, late, made>>
  BY DEF Answered, seerrVars
<1>2. /\ made \in [Post -> Nat] /\ marker \in [Post -> Nat] /\ call \in [Post -> CallState]
      /\ marker[p] = 0 /\ made[p] # 0 /\ made[p] \in 2 .. Len(comments)
  BY <1>1 DEF MarkersOK, IssueTypeOK
<1>3. \A q \in Post : marker[q] < made[p]
  BY <1>2 DEF MarkersOK
<1>4. newest \in made[p] .. Len(comments)
  BY <1>1, <1>3, NewestIsNew
<1> HIDE DEF newest
<1>5. newest \in Nat /\ newest # 0 /\ Len(comments) \in Nat
  BY <1>2, <1>4, LenProperties DEF IssueTypeOK
<1>6. IssueTypeOK'
  BY <1>1, <1>5 DEF IssueTypeOK, CallState
<1>7. PermitOK'
  BY <1>1 DEF PermitOK, IssueTypeOK
<1>8. MarkersOK'
  <2>1. \A q \in Post : marker'[q] = IF q = p THEN newest ELSE marker[q]
    BY <1>1, <1>2
  <2>2. \A q \in Post : call'[q] = IF q = p THEN "idle" ELSE call[q]
    BY <1>1, <1>2
  <2>3. \A q \in Post : q # p => call[q] # "saved"
    BY <1>1 DEF PermitOK
  <2>4. ASSUME NEW q \in Post
        PROVE  /\ made[q] # 0 <=> call'[q] = "saved" \/ marker'[q] # 0
               /\ marker'[q] # 0 => call'[q] = "idle"
               /\ made[q] # 0 => made[q] \in 2 .. Len(comments) /\ comments[made[q]] = q
               /\ marker'[q] # 0 => marker'[q] \in made[q] .. Len(comments)
    BY <1>2, <1>4, <1>5, <2>1, <2>2 DEF MarkersOK
  <2>5. ASSUME NEW q \in Post, NEW r \in Post, q # r, marker'[q] # 0, made[r] # 0
        PROVE  marker'[q] < made[r] \/ (marker'[r] # 0 /\ marker'[r] < made[q])
    <3>1. CASE q = p
      BY <1>3, <2>1, <2>3, <2>5, <3>1 DEF MarkersOK
    <3>2. CASE q # p
      BY <1>3, <2>1, <2>5, <3>2 DEF MarkersOK
    <3> QED
      BY <3>1, <3>2
  <2>6. /\ \A k \in deleted : \E q \in Post : marker'[q] = k
        /\ \A k \in signed : comments[k] \in Post \/ \E q \in Post : marker'[q] = k
    <3>1. ASSUME NEW k \in Nat, k # 0, NEW q \in Post, marker[q] = k
          PROVE  marker'[q] = k
      BY <1>2, <2>1, <3>1
    <3>2. signed \subseteq Nat \ {0} /\ deleted \subseteq Nat \ {0}
      <4>1. signed \subseteq DOMAIN comments /\ deleted \subseteq Nat /\ 0 \notin deleted
        BY DEF MarkersOK, IssueTypeOK
      <4>2. DOMAIN comments = 1 .. Len(comments)
        BY LenProperties DEF IssueTypeOK
      <4> QED
        BY <4>1, <4>2, <1>5
    <3> QED
      BY <3>1, <3>2 DEF MarkersOK
  <2>7. 1 \notin signed /\ {0, 1} \cap deleted = {} /\ signed \subseteq DOMAIN comments
    BY DEF MarkersOK
  <2> QED
    BY <1>1, <2>4, <2>5, <2>6, <2>7 DEF MarkersOK
<1>9. SendersOK'
  BY <1>1 DEF SendersOK
<1> QED
  BY <1>6, <1>7, <1>8, <1>9

LEMMA GivesUpKeeps ==
  ASSUME IssueInv, NEW p \in Post, GivesUp(p)
  PROVE  IssueInv'
<1> USE DEF IssueInv
<1>1. /\ call[p] \in {"asked", "saved"} /\ posting' = posting \ {p}
      /\ call' = [call EXCEPT ![p] = "idle"] /\ made' = [made EXCEPT ![p] = 0]
      /\ UNCHANGED <<seerrVars, marker, access>>
  BY DEF GivesUp
<1>2. late' \in [Post -> Nat]
  <2>1. late \in [Post -> Nat] /\ late[p] + 1 \in Nat
    BY DEF IssueTypeOK
  <2> QED
    BY <2>1 DEF GivesUp
<1> USE DEF seerrVars
<1>3. IssueTypeOK'
  BY <1>1, <1>2 DEF IssueTypeOK, CallState
<1>4. PermitOK'
  BY <1>1 DEF PermitOK, IssueTypeOK
<1>5. MarkersOK'
  <2>1. marker[p] = 0
    BY <1>1 DEF MarkersOK
  <2>2. /\ \A q \in Post : made'[q] = IF q = p THEN 0 ELSE made[q]
        /\ \A q \in Post : call'[q] = IF q = p THEN "idle" ELSE call[q]
    BY <1>1 DEF IssueTypeOK
  <2> QED
    BY <1>1, <2>1, <2>2 DEF MarkersOK
<1>6. SendersOK'
  BY <1>1 DEF SendersOK
<1> QED
  BY <1>3, <1>4, <1>5, <1>6

LEMMA ChangesKeep ==
  ASSUME IssueInv, NEW p \in Post, Edits(p) \/ Retracts(p)
  PROVE  IssueInv'
<1> USE DEF IssueInv, Edits, Retracts, postVars
<1>1. marker[p] \in Nat /\ marker[p] # 0 /\ marker[p] # 1 /\ marker[p] \in DOMAIN comments
  <2>1. marker[p] \in Ids /\ Ids = 1 .. Len(comments) /\ Len(comments) \in Nat
    BY LenProperties DEF Ids, IssueTypeOK
  <2>2. marker[p] \in Nat /\ marker[p] # 0
    BY <2>1
  <2>3. made[p] \in 2 .. Len(comments) /\ marker[p] \in made[p] .. Len(comments)
    BY <2>2 DEF MarkersOK
  <2> QED
    BY <2>1, <2>2, <2>3 DEF Ids
<1>2. IssueTypeOK'
  BY <1>1 DEF IssueTypeOK
<1>3. PermitOK' /\ SendersOK'
  BY DEF PermitOK, SendersOK
<1>4. MarkersOK'
  BY <1>1 DEF MarkersOK
<1> QED
  BY <1>2, <1>3, <1>4

LEMMA PeopleKeep ==
  ASSUME IssueInv, \/ \E who \in users : Comments(who)
                   \/ \E user \in users, right \in {"none", "manage", "admin"} : Grants(user, right)
  PROVE  IssueInv'
<1> USE DEF IssueInv
<1>1. ASSUME NEW who \in users, Comments(who) PROVE IssueInv'
  <2> DEFINE n == Len(comments) + 1
  <2>1. UNCHANGED <<signed, deleted, users, holds, grants, postVars>>
    BY <1>1 DEF Comments
  <2>2. /\ comments' \in Seq(users \cup Post) /\ Len(comments') = n
        /\ access' \in Seq(Ruling) /\ Len(access') = n
        /\ Len(comments) \in Nat \ {0} /\ DOMAIN comments = 1 .. Len(comments)
        /\ DOMAIN comments' = DOMAIN comments \cup {n}
        /\ \A k \in DOMAIN comments : comments'[k] = comments[k] /\ access'[k] = access[k]
        /\ comments'[n] = who /\ access'[n] = "unheard"
    BY <1>1, CommentSaved DEF Comments
  <2> USE DEF postVars
  <2>3. IssueTypeOK'
    BY <2>1, <2>2 DEF IssueTypeOK
  <2>4. PermitOK'
    BY <2>1 DEF PermitOK
  <2>5. MarkersOK'
    <3>1. PICK extra \in SUBSET {n} : extra = {}
      OBVIOUS
    <3>2. signed' = signed \cup extra /\ \A k \in extra : comments'[k] \in Post
      BY <2>1, <3>1
    <3>3. UNCHANGED <<deleted, call, made, marker>>
      BY <2>1
    <3> QED
      BY <2>2, <3>2, <3>3, IssueGrows
  <2>6. SendersOK'
    BY <2>1, <2>2 DEF SendersOK
  <2> QED
    BY <2>3, <2>4, <2>5, <2>6
<1>2. ASSUME NEW user \in users, NEW right, Grants(user, right) PROVE IssueInv'
  BY <1>2 DEF Grants, postVars, IssueTypeOK, PermitOK, MarkersOK, SendersOK
<1> QED
  BY <1>1, <1>2

-----------------------------------------------------------------------------
(* The check of an author. *)

(* With fewer users than a listing holds, it lists them all, and the one    *)
(* that matches its author is the author.                                  *)
LEMMA SoleAdminIsAuthor ==
  ASSUME IssueTypeOK, NEW listed \in Listings, NEW who \in users, SoleAdmin(listed, who)
  PROVE  holds[who] = "admin"
<1>1. IsFiniteSet(users) /\ listed \subseteq users
  BY SeerrAssumption, FS_Subset DEF IssueTypeOK, Listings
<1>2. /\ Cardinality(users) \in Nat /\ Cardinality(listed) < UserPage
      /\ Cardinality(listed) = Min({UserPage, Cardinality(users)})
  BY <1>1, FS_CardinalityType DEF SoleAdmin, Listings
<1>3. Cardinality(listed) = Cardinality(users)
  <2> DEFINE n == Cardinality(users)
  <2>1. UserPage \in Nat /\ n \in Nat
    BY <1>2, SeerrAssumption
  <2> HIDE DEF n
  <2>2. \E x \in {UserPage, n} : \A y \in {UserPage, n} : x =< y
    BY <2>1
  <2>3. Min({UserPage, n}) \in {UserPage, n} /\ \A y \in {UserPage, n} : Min({UserPage, n}) =< y
    BY <2>2 DEF Min
  <2> QED
    BY <1>2, <2>1, <2>3 DEF n
<1>4. listed = users
  BY <1>1, <1>3, FS_Subset
<1>5. Matches(who, who)
  BY DEF Matches
<1> QED
  BY <1>4, <1>5 DEF SoleAdmin

(* Emails tell accounts apart, so only where one is missing can a name      *)
(* stand for another account.                                              *)
LEMMA MatchStandsFor ==
  ASSUME NEW user \in Account, NEW who \in Account, Matches(user, who),
         user = reporter \/ holds[user] # "none"
  PROVE  StandsFor(user, who)
<1>1. CASE email[user] # NoEmail /\ email[who] # NoEmail
  BY <1>1, SeerrAssumption DEF Matches, StandsFor
<1>2. CASE ~ (email[user] # NoEmail /\ email[who] # NoEmail)
  BY <1>2 DEF Matches, StandsFor
<1> QED
  BY <1>1, <1>2

(* What a step of a check may do, whoever wrote the comment.                *)
LEMMA CheckIsSound ==
  ASSUME IssueInv, NEW c \in Ids, Checks(c)
  PROVE  /\ access' \in Seq(Ruling) /\ Len(access') = Len(access)
         /\ \A n \in Ids : n # c => access'[n] = access[n]
         /\ access'[c] = "admin" => comments[c] \in users /\ holds[comments[c]] = "admin"
         /\ comments[c] = reporter =>
              access'[c] # "other" /\ (access[c] # "reading" => access'[c] # "denied")
         /\ access'[c] = "reporter" => Matches(reporter, comments[c])
         /\ access'[c] = "member" => \E user \in users : StandsFor(user, comments[c])
         /\ comments[c] \in Post => access'[c] = "ignored"
<1> USE DEF IssueInv
<1>1. /\ access \in Seq(Ruling) /\ DOMAIN access = Ids /\ Ids = 1 .. Len(access)
      /\ comments[c] \in users \cup Post
  BY LenProperties, ElementOfSeq DEF IssueTypeOK, Ids
<1>2. ASSUME NEW r \in Ruling, access' = [access EXCEPT ![c] = r]
      PROVE  /\ access' \in Seq(Ruling) /\ Len(access') = Len(access)
             /\ \A n \in Ids : n # c => access'[n] = access[n]
             /\ access'[c] = r
  BY <1>1, <1>2, ExceptSeq
<1>3. comments[c] \in Post => access[c] \in {"unheard", "ignored"}
  BY DEF SendersOK, Ids
<1>4. CASE Hears(c)
  BY <1>1, <1>2, <1>3, <1>4 DEF Hears, IsBotComment, Ruling
<1>5. CASE ReadsIssue(c)
  <2>1. comments[c] = reporter => Matches(reporter, comments[c])
    BY DEF Matches
  <2> QED
    BY <1>1, <1>2, <1>3, <1>5, <2>1 DEF ReadsIssue, Ruling
<1>6. CASE ReadsUsers(c)
  <2>1. access[c] \in {"reporter", "other"} /\ comments[c] \in users
    BY <1>1, <1>3, <1>6 DEF ReadsUsers
  <2>2. comments[c] = reporter => access[c] = "reporter"
    BY <2>1 DEF SendersOK, Ids
  <2> DEFINE Vouched == \E user \in users : StandsFor(user, comments[c])
  <2>3. ASSUME NEW listed \in Listings, NEW ruling \in Rulings(c, listed)
        PROVE  /\ ruling \in {"member", "admin", "denied"}
               /\ ruling = "admin" => holds[comments[c]] = "admin"
               /\ ruling = "member" => Vouched
               /\ comments[c] = reporter => ruling # "denied"
    <3> DEFINE who == comments[c]
               found == {user \in listed : Matches(user, who)}
    <3>1. listed \subseteq users /\ users \subseteq Account /\ who \in users
          /\ reporter \in users
      BY <2>1 DEF Listings, IssueTypeOK
    <3>2. CASE SoleAdmin(listed, who)
      BY <2>1, <3>2, SoleAdminIsAuthor DEF Rulings
    <3>3. CASE ~ SoleAdmin(listed, who) /\ access[c] = "reporter"
      <4>1. ruling = "member"
        BY <3>3 DEF Rulings
      <4>2. StandsFor(reporter, who)
        BY <3>1, <3>3, MatchStandsFor DEF SendersOK, Ids
      <4> QED
        BY <3>1, <4>1, <4>2
    <3>4. CASE ~ SoleAdmin(listed, who) /\ access[c] = "other"
      <4>1. \/ ruling = "denied"
            \/ ruling = "member" /\ \E user \in found : holds[user] # "none"
        BY <3>4 DEF Rulings
      <4>2. ASSUME NEW user \in found, holds[user] # "none"
            PROVE  Vouched
        <5>1. StandsFor(user, who)
          BY <3>1, <4>2, MatchStandsFor
        <5> QED
          BY <3>1, <5>1
      <4> QED
        BY <2>2, <3>4, <4>1, <4>2
    <3> QED
      BY <2>1, <3>2, <3>3, <3>4
  <2>4. CASE \E listed \in Listings : \E ruling \in Rulings(c, listed) :
               access' = [access EXCEPT ![c] = ruling]
    <3>0. PICK listed \in Listings : \E ruling \in Rulings(c, listed) :
            access' = [access EXCEPT ![c] = ruling]
      BY <2>4
    <3>1. PICK ruling \in Rulings(c, listed) : access' = [access EXCEPT ![c] = ruling]
      BY <3>0
    <3>2. ruling \in Ruling /\ ruling # "reporter" /\ ruling # "other"
      BY <2>3 DEF Ruling
    <3>3. comments[c] \notin Post
      BY <1>3, <2>1
    <3> HIDE DEF Vouched
    <3>4. /\ access' \in Seq(Ruling) /\ Len(access') = Len(access)
          /\ \A n \in Ids : n # c => access'[n] = access[n]
          /\ access'[c] = ruling
      BY <1>2, <3>1, <3>2
    <3> QED
      BY <2>1, <2>3, <3>2, <3>3, <3>4 DEF Vouched
  <2>5. CASE access' = [access EXCEPT ![c] = IF @ = "reporter" THEN "member" ELSE "denied"]
    <3>1. PICK r \in {"member", "denied"} :
            r = IF access[c] = "reporter" THEN "member" ELSE "denied"
      OBVIOUS
    <3>2. access' = [access EXCEPT ![c] = r] /\ r \in Ruling
      BY <2>5, <3>1 DEF Ruling
    <3>3. access[c] = "reporter" => Vouched
      <4>1. reporter \in users /\ users \subseteq Account
        BY DEF IssueTypeOK
      <4>2. access[c] = "reporter" => StandsFor(reporter, comments[c])
        BY <2>1, <4>1, MatchStandsFor DEF SendersOK, Ids
      <4> QED
        BY <4>1, <4>2
    <3>4. comments[c] \notin Post
      BY <1>3, <2>1
    <3> HIDE DEF Vouched
    <3>5. /\ access' \in Seq(Ruling) /\ Len(access') = Len(access)
          /\ \A n \in Ids : n # c => access'[n] = access[n]
          /\ access'[c] = r
      BY <1>2, <3>2
    <3> QED
      BY <2>1, <2>2, <3>1, <3>3, <3>4, <3>5 DEF Vouched
  <2> QED
    BY <1>6, <2>4, <2>5 DEF ReadsUsers
<1>7. CASE ChecksAgain(c)
  BY <1>1, <1>2, <1>3, <1>7 DEF ChecksAgain, Ruling
<1> QED
  BY <1>4, <1>5, <1>6, <1>7 DEF Checks

LEMMA ChecksKeep ==
  ASSUME IssueInv, NEW c \in Ids, Checks(c)
  PROVE  IssueInv'
<1> USE DEF IssueInv
<1>1. UNCHANGED <<seerrVars, postVars>>
  BY DEF Checks
<1> USE DEF seerrVars, postVars
<1>2. IssueTypeOK'
  BY <1>1, CheckIsSound DEF IssueTypeOK
<1>3. PermitOK' /\ MarkersOK'
  BY <1>1 DEF PermitOK, MarkersOK
<1>4. SendersOK'
  BY <1>1, CheckIsSound DEF SendersOK, Ids
<1> QED
  BY <1>2, <1>3, <1>4

LEMMA IssueInvStep == IssueInv /\ [SeerrNext]_issueVars => IssueInv'
<1> SUFFICES ASSUME IssueInv, [SeerrNext]_issueVars PROVE IssueInv'
  OBVIOUS
<1>1. CASE UNCHANGED issueVars
  BY <1>1
  DEF issueVars, seerrVars, postVars, IssueInv, IssueTypeOK, PermitOK, MarkersOK, SendersOK
<1>2. CASE SeerrNext
  BY <1>2, ShowsKeeps, PostedKeeps, ArrivesKeeps, AnsweredKeeps, GivesUpKeeps, ChangesKeep, ChecksKeep,
     PeopleKeep
  DEF SeerrNext
<1> QED
  BY <1>1, <1>2

(* One request of ours at a time, markers of comments of our own only, and  *)
(* no comment judged beyond its author (client.ts postCommentEffect,       *)
(* sender.ts soleAdmin).                                                   *)
THEOREM IssueInvariant == SeerrSpec => []IssueInv
  BY IssueInvInit, IssueInvStep, PTL DEF SeerrSpec

(* For any number of posts, however their requests are lost, late or        *)
(* interleaved with others' comments, no two take one comment for their own *)
(* and the report is in every context (client.ts postCommentEffect).        *)
THEOREM CommentsStayApart == SeerrSpec => []CommentsApart
<1>1. IssueInv => CommentsApart
  <2> SUFFICES ASSUME IssueInv PROVE CommentsApart
    OBVIOUS
  <2>1. 1 \in (Ids \ deleted) \ signed /\ \A n \in Ids : n \in Int /\ 1 =< n
    <3>1. Ids = 1 .. Len(comments) /\ Len(comments) \in Nat /\ Len(comments) >= 1
      BY LenProperties DEF IssueInv, IssueTypeOK, Ids
    <3> QED
      BY <3>1 DEF IssueInv, MarkersOK
  <2> DEFINE shown == (Ids \ deleted) \ signed
  <2>2. Min(shown) = 1
    <3>1. 1 \in shown /\ \A n \in shown : n \in Int /\ 1 =< n
      BY <2>1
    <3> HIDE DEF shown
    <3>2. Min(shown) \in shown /\ \A n \in shown : Min(shown) =< n
      BY <3>1 DEF Min
    <3> QED
      BY <3>1, <3>2
  <2>3. 1 \in Context
    BY <2>1, <2>2 DEF Context, Selected
  <2>4. ASSUME NEW p \in Post, NEW q \in Post, p # q, marker[p] # 0
        PROVE  marker[p] # marker[q] /\ made[q] \notin made[p] .. marker[p]
    <3>1. /\ made \in [Post -> Nat] /\ marker \in [Post -> Nat]
          /\ made[p] # 0 /\ made[p] =< marker[p]
      BY <2>4 DEF IssueInv, IssueTypeOK, MarkersOK
    <3>2. CASE made[q] = 0
      BY <2>4, <3>1, <3>2 DEF IssueInv, MarkersOK
    <3>3. CASE made[q] # 0
      <4>1. marker[p] < made[q] \/ (marker[q] # 0 /\ marker[q] < made[p])
        BY <2>4, <3>3 DEF IssueInv, MarkersOK
      <4>2. marker[q] # 0 => made[q] =< marker[q]
        BY <3>3 DEF IssueInv, MarkersOK
      <4> QED
        BY <2>4, <3>1, <4>1, <4>2
    <3> QED
      BY <3>2, <3>3
  <2>5. \A p \in Post : marker[p] # 0 => comments[made[p]] = p /\ made[p] =< marker[p]
    BY DEF IssueInv, IssueTypeOK, MarkersOK
  <2>6. \A n \in signed \cup deleted :
          comments[n] \in Post \/ \E p \in Post : marker[p] = n
    BY DEF IssueInv, MarkersOK
  <2> QED
    BY <2>3, <2>4, <2>5, <2>6 DEF CommentsApart
<1> QED
  BY <1>1, IssueInvariant, PTL

(* The rights of an admin go only to a comment whose author is one, for any *)
(* accounts, however their names and emails coincide (sender.ts soleAdmin). *)
THEOREM SendersAreChecked == SeerrSpec => SenderChecked
<1> DEFINE Sound ==
      \A c \in Ids : access'[c] # access[c] =>
        /\ access'[c] = "admin" => comments[c] \in Account /\ holds[comments[c]] = "admin"
        /\ access'[c] = "member" => \E user \in users : StandsFor(user, comments[c])
        /\ comments[c] = reporter /\ access[c] # "reading" => access'[c] # "denied"
        /\ comments[c] \in Post => access'[c] = "ignored"
<1>1. IssueInv /\ [SeerrNext]_issueVars => [Sound]_issueVars
  <2> SUFFICES ASSUME IssueInv, SeerrNext, NEW c \in Ids, access'[c] # access[c]
               PROVE  /\ access'[c] = "admin" =>
                           comments[c] \in Account /\ holds[comments[c]] = "admin"
                      /\ access'[c] = "member" =>
                           \E user \in users : StandsFor(user, comments[c])
                      /\ comments[c] = reporter /\ access[c] # "reading" =>
                           access'[c] # "denied"
                      /\ comments[c] \in Post => access'[c] = "ignored"
    OBVIOUS
  <2>1. CASE \E n \in Ids : Checks(n)
    BY <2>1, CheckIsSound DEF IssueInv, IssueTypeOK
  <2>2. ASSUME NEW who \in users \cup Post, Saves(who) PROVE FALSE
    BY <2>2, CommentSaved DEF IssueInv, Ids
  <2> QED
    BY <2>1, <2>2
    DEF SeerrNext, Shows, Posted, Arrives, Saved, Answered, GivesUp, Edits, Retracts, Comments, Grants, postVars
<1> QED
  BY <1>1, IssueInvariant, PTL DEF SeerrSpec, SenderChecked
=============================================================================
