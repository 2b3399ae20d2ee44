----------------------------- MODULE RunContract -----------------------------
(***************************************************************************)
(* What the host promises of a run to the thread that asked for it, with   *)
(* no process, journal or queue in sight: a run is accepted once, shows    *)
(* one message, answers at most once and in its turn, and says nothing     *)
(* more once it has ended. A death of the host and all of its recovery are *)
(* nothing at all here (thread-work.ts:38-79, runner.ts:62-284).           *)
(***************************************************************************)
EXTENDS Naturals

CONSTANTS
  Job,       \* runs, in the order of their acceptance
  Thread, NoThread

VARIABLES
  thread,    \* where a run belongs
  fate,      \* what has become of it
  sees       \* what the thread sees of it: nothing, a status line, a line that
             \* may yet turn out to be the reply, the reply, or no line anymore

cvars == <<thread, fate, sees>>

Over == {"completed", "failed", "cancelled"}

ContractInit ==
  /\ thread = [j \in Job |-> NoThread]
  /\ fate = [j \in Job |-> "none"]
  /\ sees = [j \in Job |-> "nothing"]

(* The thread's earlier runs are over. *)
InTurn(j) == \A i \in Job : i < j /\ thread[i] = thread[j] => fate[i] \in Over

Comes(j, f) == fate' = [fate EXCEPT ![j] = f]
Seen(j, s) == sees' = [sees EXCEPT ![j] = s]

(* In order, and never behind a revoked run of the thread. *)
Accepts(j, k) ==
  /\ fate[j] = "none" /\ \A i \in Job : i < j => fate[i] # "none"
  /\ \A i \in Job : thread[i] = k => fate[i] # "revoked"
  /\ thread' = [thread EXCEPT ![j] = k]
  /\ Comes(j, "open")
  /\ UNCHANGED sees

(* A waiting run may say that it waits. *)
ShowsLine(j) ==
  /\ fate[j] = "open" /\ sees[j] = "nothing"
  /\ Seen(j, "status")
  /\ UNCHANGED <<thread, fate>>

(* From here on the line may be the reply and is left alone. *)
StartsAnswer(j) ==
  /\ fate[j] = "open" /\ sees[j] = "status" /\ InTurn(j)
  /\ Seen(j, "answering")
  /\ UNCHANGED <<thread, fate>>

(* With a reply over the line or, having none, without the line. *)
Answers(j, s) ==
  /\ fate[j] = "open" /\ sees[j] = "answering" /\ InTurn(j)
  /\ s \in {"reply", "gone"}
  /\ Seen(j, s)
  /\ UNCHANGED <<thread, fate>>

Withdraws(j) ==
  /\ sees[j] = "status"
  /\ \/ fate[j] = "revoked"
     \/ fate[j] = "open" /\ InTurn(j)
  /\ Seen(j, "gone")
  /\ UNCHANGED <<thread, fate>>

(* Its sender may no longer ask: it never answers from here on. *)
Revokes(j) ==
  /\ fate[j] = "open"
  /\ Comes(j, "revoked")
  /\ UNCHANGED <<thread, sees>>

(* A completed run has answered; a revoked one can only be cancelled, and  *)
(* leaves no status line.                                                  *)
Ends(j) ==
  /\ \/ /\ fate[j] = "open" /\ InTurn(j)
        /\ \/ sees[j] \in {"reply", "gone"} /\ Comes(j, "completed")
           \/ Comes(j, "failed")
     \/ /\ fate[j] = "revoked" /\ sees[j] # "status"
        /\ Comes(j, "cancelled")
  /\ UNCHANGED <<thread, sees>>

ContractNext ==
  \E j \in Job :
    \/ \E k \in Thread : Accepts(j, k)
    \/ ShowsLine(j) \/ StartsAnswer(j)
    \/ \E s \in {"reply", "gone"} : Answers(j, s)
    \/ Withdraws(j) \/ Revokes(j) \/ Ends(j)

ContractSpec == ContractInit /\ [][ContractNext]_cvars
=============================================================================
