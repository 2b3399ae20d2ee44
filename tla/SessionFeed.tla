---------------------------- MODULE SessionFeed ----------------------------
(***************************************************************************)
(* What a gateway socket promises whoever listens to it: the dispatches of  *)
(* one session after another, each session's from its first on, in order,   *)
(* none twice and none left out, until the session is gone.                *)
(***************************************************************************)
EXTENDS Naturals

CONSTANTS Session

VARIABLES
  current,   \* the session listened to; 0 is none
  heard,     \* how many of a session's dispatches have been heard
  gone       \* the sessions that ended

vars == <<current, heard, gone>>

Init ==
  /\ current = 0
  /\ heard = [i \in Session |-> 0]
  /\ gone = {}

Ended(i) == gone' = gone \cup {i} /\ UNCHANGED <<current, heard>>

(* A session is given up only when it is gone.                              *)
Leaves == current \in gone /\ current' = 0 /\ UNCHANGED <<heard, gone>>

Hears(i) ==
  /\ current = i \/ (current = 0 /\ heard[i] = 0)
  /\ current' = i
  /\ heard' = [heard EXCEPT ![i] = @ + 1]
  /\ UNCHANGED gone

Next == Leaves \/ \E i \in Session : Hears(i) \/ Ended(i)

Spec == Init /\ [][Next]_vars
=============================================================================
