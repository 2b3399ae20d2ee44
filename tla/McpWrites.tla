------------------------------ MODULE McpWrites ------------------------------
(***************************************************************************)
(* The write calls of the MCP server (packages/mcp/src/tools/writes.ts)    *)
(* and the list reads it keeps (tools/kept-reads.ts), in one process after *)
(* another.                                                                *)
(*                                                                         *)
(* A record of a service is a version, the number of writes that reached   *)
(* it. A call resolves its target, sends one write and reads the result    *)
(* back. A write given up on (a deadline, a lost connection, a gateway's   *)
(* 502 or 504, the process's death) may reach the service later or never.  *)
(***************************************************************************)
EXTENDS Naturals

CONSTANTS
  Write,       \* write calls
  Locked,      \* those of actions with a lock
  Record,
  target,      \* the record a call writes, and its lock key
  Reader,      \* callers of keptRead for one list of all records
  NotKept,     \* no copy of it is kept
  MaxRestarts  \* how often the server restarts (bound)

ASSUME ServerAssumption ==
  /\ Locked \subseteq Write
  /\ target \in [Write -> Record]
  \* no action without a lock replaces a record one with a lock does
  /\ \A w \in Locked, u \in Write \ Locked : target[w] # target[u]
  /\ NotKept \notin [Record -> Nat]
  /\ MaxRestarts \in Nat

VARIABLES
  \* the server
  activeWriteKeys, writeMarks, kept,
  phase,      \* where a call is
  base,       \* the version it resolved
  reader,     \* where a keptRead that went to the service is
  marks,      \* the writeMarks it began with
  items,      \* what it read
  restarts,
  \* the caller
  outcome,
  \* the service
  version, landed,
  pending     \* writes given up on that may still land

callVars == <<phase, base, outcome>>
readVars == <<reader, marks, items>>
service  == <<version, landed, pending>>
vars == <<activeWriteKeys, writeMarks, kept, callVars, readVars, restarts, service>>

Init ==
  /\ activeWriteKeys = {}
  /\ writeMarks = 0
  /\ kept = NotKept
  /\ phase = [w \in Write |-> "idle"]
  /\ base = [w \in Write |-> 0]
  /\ outcome = [w \in Write |-> "none"]
  /\ reader = [r \in Reader |-> "idle"]
  /\ marks = [r \in Reader |-> 0]
  /\ items = [r \in Reader |-> NotKept]
  /\ restarts = 0
  /\ version = [k \in Record |-> 0]
  /\ landed = [w \in Write |-> 0]
  /\ pending = {}

Key(w) == IF w \in Locked THEN {target[w]} ELSE {}

-----------------------------------------------------------------------------
(* Mutants are operators named Bug...: each stands for a slip the code      *)
(* could have made in the operator below it, and some run refutes it.      *)

BugDropsCopyOnly ==
  /\ kept' = NotKept
  /\ UNCHANGED writeMarks

DropKeptReads ==
  /\ kept' = NotKept
  /\ writeMarks' = writeMarks + 1

BugLeavesKey(w, answer) ==
  /\ phase' = [phase EXCEPT ![w] = "done"]
  /\ outcome' = [outcome EXCEPT ![w] = answer]
  /\ UNCHANGED activeWriteKeys

(* The call ends and releases its key. *)
Answer(w, answer) ==
  /\ phase' = [phase EXCEPT ![w] = "done"]
  /\ outcome' = [outcome EXCEPT ![w] = answer]
  /\ activeWriteKeys' = activeWriteKeys \ Key(w)

BugBusyNever(w) == FALSE
Busy(w) == Key(w) \cap activeWriteKeys # {}

(* A busy record: refused at once, nothing written. *)
Refuses(w) ==
  /\ phase[w] = "idle" /\ Busy(w)
  /\ phase' = [phase EXCEPT ![w] = "done"]
  /\ outcome' = [outcome EXCEPT ![w] = "error"]
  /\ UNCHANGED <<activeWriteKeys, writeMarks, kept, base, readVars, restarts, service>>

Begins(w) ==
  /\ phase[w] = "idle" /\ ~ Busy(w)
  /\ activeWriteKeys' = activeWriteKeys \cup Key(w)
  /\ phase' = [phase EXCEPT ![w] = "resolving"]
  /\ UNCHANGED <<writeMarks, kept, base, outcome, readVars, restarts, service>>

(* No such target, a deadline, or the client went away. *)
ResolveFails(w) ==
  /\ phase[w] = "resolving"
  /\ Answer(w, "error")
  /\ UNCHANGED <<writeMarks, kept, base, readVars, restarts, service>>

Resolves(w) ==
  /\ phase[w] = "resolving"
  /\ base' = [base EXCEPT ![w] = version[target[w]]]
  /\ phase' = [phase EXCEPT ![w] = "resolved"]
  /\ UNCHANGED <<activeWriteKeys, writeMarks, kept, outcome, readVars, restarts, service>>

Sends(w) ==
  /\ phase[w] = "resolved"
  /\ DropKeptReads
  /\ phase' = [phase EXCEPT ![w] = "sent"]
  /\ UNCHANGED <<activeWriteKeys, base, outcome, readVars, restarts, service>>

Reaches(w) ==
  /\ version' = [version EXCEPT ![target[w]] = @ + 1]
  /\ landed' = [landed EXCEPT ![w] = @ + 1]

Lands(w) ==
  /\ phase[w] = "sent"
  /\ Reaches(w)
  /\ phase' = [phase EXCEPT ![w] = "landed"]
  /\ UNCHANGED <<activeWriteKeys, writeMarks, kept, base, outcome, readVars, restarts, pending>>

Written(w) ==
  /\ phase[w] = "landed"
  /\ DropKeptReads
  /\ phase' = [phase EXCEPT ![w] = "verifying"]
  /\ UNCHANGED <<activeWriteKeys, base, outcome, readVars, restarts, service>>

(* The service answered that it did not write. *)
Rejected(w) ==
  /\ phase[w] = "sent"
  /\ DropKeptReads
  /\ Answer(w, "error")
  /\ UNCHANGED <<base, readVars, restarts, service>>

BugLostIsAnswered(w) ==
  /\ phase[w] \in {"sent", "landed"}
  /\ DropKeptReads
  /\ Answer(w, "error")
  /\ pending' = IF phase[w] = "sent" THEN pending \cup {w} ELSE pending
  /\ UNCHANGED <<base, readVars, restarts, version, landed>>

(* The result never came back: WriteOutcomeUnknown. *)
Lost(w) ==
  /\ phase[w] \in {"sent", "landed"}
  /\ DropKeptReads
  /\ Answer(w, "unknown")
  /\ pending' = IF phase[w] = "sent" THEN pending \cup {w} ELSE pending
  /\ UNCHANGED <<base, readVars, restarts, version, landed>>

(* The read-back; its failure does not hide the write. *)
Verifies(w) ==
  /\ phase[w] = "verifying"
  /\ Answer(w, "ok")
  /\ UNCHANGED <<writeMarks, kept, base, readVars, restarts, service>>

LandsLate(w) ==
  /\ w \in pending
  /\ Reaches(w)
  /\ pending' = pending \ {w}
  /\ UNCHANGED <<activeWriteKeys, writeMarks, kept, callVars, readVars, restarts>>

CallEnds(w) ==
  ResolveFails(w) \/ Rejected(w) \/ Lost(w) \/ Verifies(w)

CallStep(w) ==
  Refuses(w) \/ Begins(w) \/ Resolves(w) \/ Sends(w) \/ Lands(w) \/ Written(w) \/ CallEnds(w)

-----------------------------------------------------------------------------
(* keptRead: the kept copy, or a read of the service that is kept only     *)
(* when no write started or settled meanwhile.                             *)

ReadsService(r) ==
  /\ reader[r] = "idle" /\ kept = NotKept
  /\ reader' = [reader EXCEPT ![r] = "reading"]
  /\ marks' = [marks EXCEPT ![r] = writeMarks]
  /\ UNCHANGED <<activeWriteKeys, writeMarks, kept, callVars, items, restarts, service>>

Lists(r) ==
  /\ reader[r] = "reading"
  /\ items' = [items EXCEPT ![r] = version]
  /\ reader' = [reader EXCEPT ![r] = "listed"]
  /\ UNCHANGED <<activeWriteKeys, writeMarks, kept, callVars, marks, restarts, service>>

Keeps(r) ==
  /\ reader[r] = "listed"
  /\ kept' = IF marks[r] = writeMarks THEN items[r] ELSE kept
  /\ reader' = [reader EXCEPT ![r] = "idle"]
  /\ items' = [items EXCEPT ![r] = NotKept]
  /\ marks' = [marks EXCEPT ![r] = 0]
  /\ UNCHANGED <<activeWriteKeys, writeMarks, callVars, restarts, service>>

(* The read failed, or the copy is older than maxAgeMs. *)
ReadFails(r) ==
  /\ reader[r] \in {"reading", "listed"}
  /\ reader' = [reader EXCEPT ![r] = "idle"]
  /\ items' = [items EXCEPT ![r] = NotKept]
  /\ marks' = [marks EXCEPT ![r] = 0]
  /\ UNCHANGED <<activeWriteKeys, writeMarks, kept, callVars, restarts, service>>

Expires ==
  /\ kept # NotKept
  /\ kept' = NotKept
  /\ UNCHANGED <<activeWriteKeys, writeMarks, callVars, readVars, restarts, service>>

ReadStep(r) == ReadsService(r) \/ Lists(r) \/ Keeps(r) \/ ReadFails(r)

(* Keys, marks and copies die with the process; its callers hear a         *)
(* rejected call, which the host treats as an unknown outcome.             *)
Restarts ==
  /\ restarts < MaxRestarts
  /\ restarts' = restarts + 1
  /\ activeWriteKeys' = {}
  /\ writeMarks' = 0
  /\ kept' = NotKept
  /\ LET cut == {w \in Write : phase[w] \notin {"idle", "done"}}
     IN  /\ phase' = [w \in Write |-> IF w \in cut THEN "done" ELSE phase[w]]
         /\ outcome' = [w \in Write |-> IF w \in cut THEN "unknown" ELSE outcome[w]]
         /\ pending' = pending \cup {w \in cut : phase[w] = "sent"}
  /\ reader' = [r \in Reader |-> "idle"]
  /\ marks' = [r \in Reader |-> 0]
  /\ items' = [r \in Reader |-> NotKept]
  /\ UNCHANGED <<base, version, landed>>

Next ==
  \/ \E w \in Write : CallStep(w) \/ LandsLate(w)
  \/ \E r \in Reader : ReadStep(r)
  \/ Expires
  \/ Restarts

Spec == Init /\ [][Next]_vars

(* Each phase of a call has a deadline. *)
FairSpec == Spec /\ \A w \in Write : WF_vars(CallStep(w))

-----------------------------------------------------------------------------
(* Properties. *)

Unknown(k) == \E w \in Write : target[w] = k /\ outcome[w] = "unknown"

TypeOK ==
  /\ activeWriteKeys \subseteq Record
  /\ writeMarks \in Nat
  /\ kept \in [Record -> Nat] \cup {NotKept}
  /\ phase \in [Write -> {"idle", "resolving", "resolved", "sent", "landed",
                         "verifying", "done"}]
  /\ base \in [Write -> Nat]
  /\ outcome \in [Write -> {"none", "ok", "error", "unknown"}]
  /\ reader \in [Reader -> {"idle", "reading", "listed"}]
  /\ marks \in [Reader -> Nat]
  /\ items \in [Reader -> [Record -> Nat] \cup {NotKept}]
  /\ version \in [Record -> Nat]
  /\ landed \in [Write -> Nat]
  /\ pending \subseteq Write

(* A write goes out against the state its call resolved: no other locked   *)
(* call of the record wrote in between. Only a write nobody got an answer  *)
(* to can: "the lock covers this process's calls, not external or          *)
(* still-pending writes" (writes.ts:32-34).                                *)
WritesWhatItResolved ==
  \A w \in Locked : phase[w] \in {"resolved", "sent"} =>
    \/ base[w] = version[target[w]]
    \/ Unknown(target[w])

(* What the caller is told is what happened: "ok" is one write, an error   *)
(* is none, and only an unknown outcome can be either (writes.ts:195-212). *)
HonestOutcome ==
  \A w \in Write :
    /\ landed[w] <= 1
    /\ outcome[w] = "ok" => landed[w] = 1
    /\ outcome[w] = "error" => landed[w] = 0 /\ w \notin pending

(* A kept list shows every write whose caller has an answer: a copy can be *)
(* stale only while the write is in flight or when its outcome is unknown, *)
(* however a read overlapped it (kept-reads.ts:5-10).                      *)
KeptShowsAnswered ==
  kept # NotKept => \A k \in Record :
    \/ kept[k] = version[k]
    \/ Unknown(k)
    \/ \E w \in Write : target[w] = k /\ phase[w] \in {"sent", "landed"}

(* Every call that began is answered and leaves its record free.           *)
EveryCallAnswers ==
  \A w \in Write : phase[w] # "idle" ~> phase[w] = "done" /\ Key(w) \cap activeWriteKeys = {}
=============================================================================
