----------------------------- MODULE StaticOnce -----------------------------
(***************************************************************************)
(* What the guards of lib/static-init.x promise the code that uses them,   *)
(* without the lock, the condition variable or the wait edges: a guard has *)
(* at most one initializer at a time, storage becomes visible only after   *)
(* an initializer has published it, and it is withdrawn only when nobody   *)
(* can see it.                                                             *)
(***************************************************************************)
CONSTANTS Threads, Guards

VARIABLES
  initializing,  \* initializing[g]: the threads running g's initializer
  published,     \* the guards whose storage has been published
  visible        \* visible[t]: the guards whose storage t has been given

vars == <<initializing, published, visible>>

Init ==
  /\ initializing = [g \in Guards |-> {}]
  /\ published = {}
  /\ visible = [t \in Threads |-> {}]

Begin(t, g) ==
  /\ initializing[g] = {}
  /\ g \notin published
  /\ initializing' = [initializing EXCEPT ![g] = {t}]
  /\ UNCHANGED <<published, visible>>

\* The initializer of g fails; the next caller starts it again.
Abandon(t, g) ==
  /\ initializing[g] = {t}
  /\ initializing' = [initializing EXCEPT ![g] = {}]
  /\ UNCHANGED <<published, visible>>

Publish(t, g) ==
  /\ initializing[g] = {t}
  /\ initializing' = [initializing EXCEPT ![g] = {}]
  /\ published' = published \cup {g}
  /\ UNCHANGED visible

Observe(t, g) ==
  /\ g \in published
  /\ visible' = [visible EXCEPT ![t] = @ \cup {g}]
  /\ UNCHANGED <<initializing, published>>

\* A thread ends and takes with it storage no other thread can see.
Retire(t, gone) ==
  /\ \A g \in gone : /\ initializing[g] = {}
                     /\ \A u \in Threads \ {t} : g \notin visible[u]
  /\ published' = published \ gone
  /\ visible' = [visible EXCEPT ![t] = {}]
  /\ UNCHANGED initializing

Next ==
  \/ \E t \in Threads, g \in Guards :
       Begin(t, g) \/ Abandon(t, g) \/ Publish(t, g) \/ Observe(t, g)
  \/ \E t \in Threads, gone \in SUBSET Guards : Retire(t, gone)

Spec == Init /\ [][Next]_vars
=============================================================================
