----------------------------- MODULE RemoteCall -----------------------------
(***************************************************************************)
(* What a call of a project `meta' function promises the compiler:         *)
(* src/src/meta-helper-client.x:89-97.  A call runs its body at most once, *)
(* is never tried again, returns what its own body computed or fails, and  *)
(* leaves no body running when it fails.  Only a call whose compiler has   *)
(* ended is lost, and its body may then still run.                         *)
(***************************************************************************)
EXTENDS Naturals

CONSTANT Calls

VARIABLE call   \* each call's state, the result it got, and its body

Unused == [state |-> "unused", got |-> 0, body |-> "no"]

Init == call = [c \in Calls |-> Unused]

(* The calls that follow when the bodies of S that run are ended.          *)
Halted(S) == [c \in Calls |-> IF c \in S /\ call[c].body = "running"
                              THEN [call[c] EXCEPT !.body = "stopped"] ELSE call[c]]

Begin(c) == /\ call[c].state = "unused"
            /\ call' = [call EXCEPT ![c].state = "pending"]

Refuse(c) == /\ call[c].state = "unused"
             /\ call' = [call EXCEPT ![c].state = "failed"]

Start(c) == /\ call[c].state \in {"pending", "lost"}
            /\ call[c].body = "no"
            /\ call' = [call EXCEPT ![c].body = "running"]

Complete(c) == /\ call[c].body = "running"
               /\ call' = [call EXCEPT ![c].body = "done"]

Halt(S) == call' = Halted(S)

Return(c) == /\ call[c].state = "pending"
             /\ call[c].body = "done"
             /\ call' = [call EXCEPT ![c].state = "returned", ![c].got = c]

Fail(c, S) == /\ call[c].state = "pending"
              /\ call' = [Halted(S \cup {c}) EXCEPT ![c].state = "failed"]

Lose(S) == /\ \A c \in S : call[c].state = "pending"
           /\ call' = [c \in Calls |-> IF c \in S THEN [call[c] EXCEPT !.state = "lost"] ELSE call[c]]

Next == \/ \E c \in Calls : Begin(c) \/ Refuse(c) \/ Start(c) \/ Complete(c) \/ Return(c)
        \/ \E S \in SUBSET Calls : Halt(S) \/ Lose(S) \/ \E c \in Calls : Fail(c, S)

Spec == Init /\ [][Next]_call

=============================================================================
