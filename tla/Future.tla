------------------------------- MODULE Future -------------------------------
(***************************************************************************)
(* What a Thread handle of lib/thread.x promises: the callback behind it   *)
(* runs once and ends in a value or an error, one join receives exactly    *)
(* that outcome (or loses it, when export fails), and the handle goes away *)
(* only afterwards.                                                        *)
(***************************************************************************)
CONSTANTS Handles

VARIABLES
  status,    \* status[h]: how far h has come
  outcome,   \* outcome[h]: how h's callback ended
  received   \* received[h]: what the join of h was given

vars == <<status, outcome, received>>

Init ==
  /\ status = [h \in Handles |-> "new"]
  /\ outcome = [h \in Handles |-> "none"]
  /\ received = [h \in Handles |-> "none"]

Begin(h) ==
  /\ status[h] = "new"
  /\ status' = [status EXCEPT ![h] = "pending"]
  /\ UNCHANGED <<outcome, received>>

Settle(h, how) ==
  /\ status[h] = "pending"
  /\ status' = [status EXCEPT ![h] = "settled"]
  /\ outcome' = [outcome EXCEPT ![h] = how]
  /\ UNCHANGED received

Deliver(h) ==
  /\ status[h] = "settled"
  /\ status' = [status EXCEPT ![h] = "taken"]
  /\ \E what \in {outcome[h], "lost"} :
       received' = [received EXCEPT ![h] = what]
  /\ UNCHANGED outcome

Discard(h) ==
  /\ status[h] = "taken"
  /\ status' = [status EXCEPT ![h] = "gone"]
  /\ UNCHANGED <<outcome, received>>

Next ==
  \E h \in Handles :
    \/ Begin(h) \/ Deliver(h) \/ Discard(h)
    \/ \E how \in {"value", "error"} : Settle(h, how)

Spec == Init /\ [][Next]_vars
=============================================================================
