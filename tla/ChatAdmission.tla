---------------------------- MODULE ChatAdmission ----------------------------
(***************************************************************************)
(* What a chat gateway does with a message it hears                        *)
(* (packages/host/src/gateways/chat-admission.ts): from its arrival to a   *)
(* submitted run, a denial, or nothing.                                    *)
(*                                                                         *)
(* An admission is a fiber; `at` says which await it is in. A thread is    *)
(* named by the message it was opened from. The latch, the queue and the   *)
(* listeners belong to the host (HostLifecycle).                           *)
(***************************************************************************)
EXTENDS SequencesExt

CONSTANTS
  Message,
  gateway,      \* the gateway a message arrives on
  author, roles,  \* of a message, as its event says
  memberless,   \* messages whose event carries no member
  botOrOther,   \* messages of bots, webhooks and other kinds
  home,         \* where it was posted: "channel", "elsewhere" or a thread
  saysKind,     \* messages whose event says whether they are in a thread
  mentioned,    \* messages that address the bot
  wordless,     \* messages without text
  starters,     \* a thread's own first message, echoed into it
  users, memberRoles, adminUsers, adminRoles,   \* the allowlist
  MaxKnownThreads

ASSUME AdmissionAssumption ==
  /\ \A m \in Message : home[m] \in {"channel", "elsewhere"} \cup Message
  /\ MaxKnownThreads \in Nat \ {0}

VARIABLES
  opened,       \* intake.opened
  queueOpen,    \* the queue takes work
  link,         \* where a gateway's listener is
  at,           \* where a message's admission is
  threads,      \* gateway |-> the threads it remembers, oldest first
  created,      \* the threads there are on the platform
  denials,      \* messages answered with the denial
  unheard,      \* thread starts whose answer never came
  job,          \* the run of a message in the journal
  inQueue       \* the runs the queue holds

admissionVars == <<at, threads, created, denials, unheard>>
queueVars == <<job, inQueue>>

-----------------------------------------------------------------------------
(* Who may use the bot. *)

Listed(people, granted, who, held) == who \in people \/ granted \cap held # {}

AccessOf(who, held) ==
  IF Listed(adminUsers, adminRoles, who, held) THEN "admin"
  ELSE IF Listed(users, memberRoles, who, held) THEN "member"
  ELSE "denied"

(* An event without its author's member refuses them. *)
AdmissionOf(m) == IF m \in memberless THEN "denied" ELSE AccessOf(author[m], roles[m])

-----------------------------------------------------------------------------
(* Places: which threads the bot opened. *)

Known(g, t) == t \in Range(threads[g])

(* The oldest is dropped when the memory is full. *)
Remember(g, t) ==
  LET full == Len(threads[g]) >= MaxKnownThreads
      kept == IF full THEN Tail(threads[g]) ELSE threads[g]
  IN  [threads EXCEPT ![g] = IF t \in Range(kept) THEN kept ELSE Append(kept, t)]

IsThread(p) == p \in Message

BotThread(t) == t \in created

-----------------------------------------------------------------------------
(* The steps of admitEffect. A step ends at the next await.                 *)

Goes(m, where) == at' = [at EXCEPT ![m] = where]

(* enqueueEffect: refused by a closed queue, else journaled and queued.    *)
Submits(m) ==
  IF queueOpen
  THEN /\ job' = [job EXCEPT ![m] = "queued"]
       /\ inQueue' = inQueue \cup {m}
  ELSE UNCHANGED queueVars

(* The message's place is known: the sender and the text decide, a         *)
(* follow-up is submitted, and a channel message goes to triage.           *)
Placed(m, place) ==
  IF \/ place = "elsewhere"
     \/ m \in starters
     \/ AdmissionOf(m) = "denied"
     \/ m \in wordless
  THEN Goes(m, "gone") /\ UNCHANGED queueVars
  ELSE IF place = "channel"
  THEN Goes(m, "judging") /\ UNCHANGED queueVars
  ELSE Goes(m, "gone") /\ Submits(m)

(* placeEffect: a watched channel, a remembered thread, or a lookup.       *)
Takes(m) ==
  IF m \in botOrOther
  THEN Goes(m, "gone") /\ UNCHANGED queueVars
  ELSE IF home[m] = "channel" THEN Placed(m, "channel")
  ELSE IF home[m] = "elsewhere" /\ m \in saysKind THEN Placed(m, "elsewhere")
  ELSE IF Known(gateway[m], home[m]) THEN Placed(m, home[m])
  ELSE Goes(m, "locating") /\ UNCHANGED queueVars

BugNeverHeld(m) == Takes(m)
Arrives(m) == IF opened THEN Takes(m) ELSE Goes(m, "held") /\ UNCHANGED queueVars

(* The socket brought it. It waits while the host is not ready.            *)
Hears(m) ==
  /\ at[m] = "unsent" /\ gateway[m] \in DOMAIN threads
  /\ link[gateway[m]] \in {"auditing", "listening"}
  /\ IsThread(home[m]) => BotThread(home[m])
  /\ Arrives(m)
  /\ UNCHANGED <<threads, created, denials, unheard>>

Resumes(m) ==
  /\ at[m] = "held" /\ opened
  /\ Takes(m)
  /\ UNCHANGED <<threads, created, denials, unheard>>

Located(m) ==
  /\ at[m] = "locating"
  /\ Placed(m, home[m])
  /\ threads' = Remember(gateway[m], home[m])
  /\ UNCHANGED <<created, denials, unheard>>

(* A failed lookup, a failed post: logged, and nothing more.               *)
Fails(m) ==
  /\ at[m] \in {"locating", "denying", "opening", "joining"}
  /\ Goes(m, "gone")
  /\ UNCHANGED <<threads, created, denials, unheard, queueVars>>

(* Triage accepts or not; when it fails, the mention decides.              *)
Judged(m, accepted) ==
  /\ at[m] = "judging"
  /\ Goes(m, IF accepted THEN "naming" ELSE IF m \in mentioned THEN "denying" ELSE "gone")
  /\ UNCHANGED <<threads, created, denials, unheard, queueVars>>

Denies(m) ==
  /\ at[m] = "denying"
  /\ denials' = denials \cup {m}
  /\ Goes(m, "gone")
  /\ UNCHANGED <<threads, created, unheard, queueVars>>

(* The helper's title, or the message itself.                              *)
Named(m) ==
  /\ at[m] = "naming"
  /\ Goes(m, "opening")
  /\ UNCHANGED <<threads, created, denials, unheard, queueVars>>

(* The platform opens the thread, whether or not the host still waits.     *)
Creates(m) ==
  /\ at[m] = "opening"
  /\ created' = created \cup {m}
  /\ Goes(m, "created")
  /\ UNCHANGED <<threads, denials, unheard, queueVars>>

(* Its answer: the thread is remembered and its run submitted. A submit    *)
(* that fails ends the admission.                                          *)
Opened(m) ==
  /\ at[m] = "created"
  /\ threads' = Remember(gateway[m], m)
  /\ Submits(m)
  /\ Goes(m, IF queueOpen THEN "joining" ELSE "gone")
  /\ UNCHANGED <<created, denials, unheard>>

(* The answer is lost or comes after the request's deadline; what it asked *)
(* for may still happen.                                                   *)
OpenUnheard(m) ==
  /\ at[m] \in {"opening", "created"}
  /\ Goes(m, "gone")
  /\ unheard' = unheard \cup {m}
  /\ UNCHANGED <<threads, created, denials, queueVars>>

LandsLate(m) ==
  /\ m \in unheard \ created
  /\ created' = created \cup {m}
  /\ UNCHANGED <<at, threads, denials, unheard, queueVars>>

Joined(m) ==
  /\ at[m] = "joining"
  /\ Goes(m, "gone")
  /\ UNCHANGED <<threads, created, denials, unheard, queueVars>>

(* Opening a thread cannot be interrupted.                                 *)
BugInterruptible == {"held", "locating", "judging", "denying", "naming", "opening", "created"}
Interruptible == {"held", "locating", "judging", "denying", "naming"}
Active == Interruptible \cup {"opening", "created", "joining"}

Interrupted(m) ==
  /\ at[m] \in Interruptible
  /\ Goes(m, "gone")
  /\ UNCHANGED <<threads, created, denials, unheard, queueVars>>

(* What an admission or the platform does next, but for an interruption.   *)
AdmissionStep(m) ==
  \/ Resumes(m) \/ Located(m) \/ Fails(m)
  \/ \E accepted \in BOOLEAN : Judged(m, accepted)
  \/ Denies(m) \/ Named(m) \/ Creates(m) \/ Opened(m) \/ OpenUnheard(m)
  \/ LandsLate(m) \/ Joined(m)
=============================================================================
