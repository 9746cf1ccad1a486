-------------------------- MODULE StaticInit_proofs --------------------------
(***************************************************************************)
(* Proofs about lib/static-init.x for any number of threads and guards.    *)
(***************************************************************************)
EXTENDS StaticInit, TLAPS

-----------------------------------------------------------------------------
(* Types.                                                                  *)

\* A thread that prepares, fills or has just published storage is inside the
\* initializer it does that for; a thread on its way to the lock wants a guard.
Busy ==
  \A t \in Threads :
    /\ pc[t] \in {"reserve", "copied", "committed"} => running[t] # <<>>
    /\ pc[t] = "lock" => want[t] \in Guards

TypeInv == TypeOK /\ Busy

\* What Head, Tail and pushing do to a stack of guards.
LEMMA StackFacts ==
  ASSUME NEW S, NEW s \in Seq(S), NEW e \in S
  PROVE  /\ <<e>> \o s \in Seq(S)
         /\ <<e>> \o s # <<>>
         /\ s # <<>> => Head(s) \in S /\ Tail(s) \in Seq(S)
  OBVIOUS

LEMMA TypeStep == TypeInv /\ [Next]_vars => TypeInv'
<1> SUFFICES ASSUME TypeInv, [Next]_vars
             PROVE  TypeInv'
  OBVIOUS
<1> USE StaticAssumption DEF TypeInv, TypeOK, Busy, PC, guardVars, waitVars
<1>1. ASSUME NEW t \in Threads, NEW g \in Guards, AcquireFast(t, g)
      PROVE  TypeInv'
  BY <1>1 DEF AcquireFast
<1>2. ASSUME NEW t \in Threads, NEW g \in Guards, AcquireSlow(t, g)
      PROVE  TypeInv'
  BY <1>2 DEF AcquireSlow
<1>3. ASSUME NEW t \in Threads, ReturnZero(t)
      PROVE  TypeInv'
  BY <1>3 DEF ReturnZero, HasLock
<1>4. ASSUME NEW t \in Threads, Wait(t)
      PROVE  TypeInv'
  BY <1>4 DEF Wait, HasLock
<1>5. ASSUME NEW t \in Threads, Refuse(t)
      PROVE  TypeInv'
  BY <1>5 DEF Refuse, HasLock
<1>6. ASSUME NEW t \in Threads, Own(t)
      PROVE  TypeInv'
  <2>1. want[t] \in Guards /\ running[t] \in Seq(Guards)
    BY <1>6 DEF Own, HasLock
  <2>2. <<want[t]>> \o running[t] \in Seq(Guards) /\ <<want[t]>> \o running[t] # <<>>
    BY <2>1, StackFacts
  <2>3. QED BY <1>6, <2>1, <2>2 DEF Own, TakeOwnership, HasLock
<1>7. ASSUME NEW t \in Threads, Reserve(t)
      PROVE  TypeInv'
  <2>1. Top(t) \in Guards
    BY <1>7, StackFacts DEF Reserve, Top
  <2>2. Home[Top(t)] \in Threads \cup {None}
    BY <2>1
  <2>3. <<Top(t)>> \o values[Home[Top(t)]] \in Seq(Guards)
    BY <2>1, <2>2, StackFacts
  <2>4. QED BY <1>7, <2>1, <2>2, <2>3 DEF Reserve
<1>8. ASSUME NEW t \in Threads, ReserveFails(t)
      PROVE  TypeInv'
  <2>1. Tail(running[t]) \in Seq(Guards)
    BY <1>8, StackFacts DEF ReserveFails
  <2>2. QED BY <1>8, <2>1 DEF ReserveFails, Disown
<1>9. ASSUME NEW t \in Threads, Copy(t)
      PROVE  TypeInv'
  BY <1>9 DEF Copy
<1>10. ASSUME NEW t \in Threads, Commit(t)
      PROVE  TypeInv'
  BY <1>10 DEF Commit, Disown
<1>11. ASSUME NEW t \in Threads, Leave(t)
      PROVE  TypeInv'
  <2>1. Tail(running[t]) \in Seq(Guards) /\ Top(t) \in Guards
    BY <1>11, StackFacts DEF Leave, Top
  <2>2. QED BY <1>11, <2>1 DEF Leave, Abort, Disown
<1>12. ASSUME NEW t \in Threads, Fail(t)
      PROVE  TypeInv'
  BY <1>12 DEF Fail
<1>13. ASSUME NEW t \in Threads, Unwind(t)
      PROVE  TypeInv'
  <2>1. Tail(running[t]) \in Seq(Guards) /\ Top(t) \in Guards
    BY <1>13, StackFacts DEF Unwind, Top
  <2>2. QED BY <1>13, <2>1 DEF Unwind, Abort, Disown
<1>14. ASSUME NEW t \in Threads, Catch(t)
      PROVE  TypeInv'
  BY <1>14 DEF Catch
<1>15. ASSUME NEW t \in Threads, Exit(t)
      PROVE  TypeInv'
  BY <1>15 DEF Exit, Release
<1>16. ASSUME NEW t \in Threads, SpuriousWakeup(t)
      PROVE  TypeInv'
  BY <1>16 DEF SpuriousWakeup
<1>17. CASE Shutdown
  BY <1>17 DEF Shutdown, Release
<1>18. CASE UNCHANGED vars
  BY <1>18 DEF vars
<1>19. QED
  BY <1>1, <1>2, <1>3, <1>4, <1>5, <1>6, <1>7, <1>8, <1>9, <1>10, <1>11,
     <1>12, <1>13, <1>14, <1>15, <1>16, <1>17, <1>18 DEF Next, Step

\* Every variable of the guards keeps its type, and a guard being prepared,
\* filled or published always has the initializer that does it.
THEOREM TypeCorrect == Spec => []TypeInv
<1>1. Init => TypeInv
  BY StaticAssumption DEF Init, TypeInv, TypeOK, Busy, PC
<1>2. QED BY <1>1, TypeStep, PTL DEF Spec

-----------------------------------------------------------------------------
(* The wait edges.                                                         *)

\* Sleepers are inside acquire, their edge is the guard they want, and that
\* guard is unpublished and owned.
SleepInv ==
  \A t \in asleep :
    /\ pc[t] = "lock"
    /\ waiting[t] = want[t]
    /\ ~ready[want[t]]
    /\ owner[want[t]] # None

\* f[t]: the thread t's edge leads to.  Every set of threads has a member whose
\* edge does not stay inside the set.
NoTrap(f) == \A S \in SUBSET Threads : S # {} => \E t \in S : f[t] \notin S

\* The edges, those of threads already woken included.
Edge == [t \in Threads |-> Blocker(t)]

Acyclic == NoTrap(Edge)

WaitInv == TypeInv /\ SleepInv /\ Acyclic

\* Adding an edge from t keeps the edges acyclic when the walk from its end o
\* does not meet t: the closed set C that shows it cuts a smaller trapped set
\* out of any trapped set through t.
LEMMA AddEdge ==
  ASSUME NEW f, NEW h, NEW t \in Threads, NEW o, NEW C \in SUBSET Threads,
         NoTrap(f), None \notin Threads,
         o \in C, t \notin C, \A u \in C : f[u] # None => f[u] \in C,
         h[t] = o, \A u \in Threads \ {t} : h[u] = f[u]
  PROVE  NoTrap(h)
<1>1. SUFFICES ASSUME NEW S \in SUBSET Threads, S # {},
                      \A u \in S : h[u] \in S
               PROVE  FALSE
  BY DEF NoTrap
<1>2. CASE t \notin S
  BY <1>1, <1>2 DEF NoTrap
<1>3. CASE t \in S
  <2>1. S \cap C # {}
    BY <1>1, <1>3
  <2>2. \A u \in S \cap C : f[u] \in S \cap C
    BY <1>1
  <2>3. QED BY <2>1, <2>2 DEF NoTrap
<1>4. QED BY <1>2, <1>3

\* Dropping edges keeps them acyclic.
LEMMA DropEdges ==
  ASSUME NEW f, NEW h, NoTrap(f),
         \A u \in Threads : h[u] = f[u] \/ h[u] \notin Threads
  PROVE  NoTrap(h)
BY DEF NoTrap

\* So does turning edges so that they lead to a thread without an edge.
LEMMA TurnEdges ==
  ASSUME NEW f, NEW h, NEW t \in Threads, NoTrap(f), h[t] \notin Threads,
         \A u \in Threads \ {t} : h[u] = f[u] \/ h[u] = t
  PROVE  NoTrap(h)
<1>1. SUFFICES ASSUME NEW S \in SUBSET Threads, S # {},
                      \A u \in S : h[u] \in S
               PROVE  FALSE
  BY DEF NoTrap
<1>2. t \notin S
  BY <1>1
<1>3. QED BY <1>1, <1>2 DEF NoTrap

LEMMA SameEdges ==
  ASSUME Acyclic, owner' = owner, waiting' = waiting
  PROVE  Acyclic'
<1>1. Edge' = Edge
  BY DEF Edge, Blocker
<1>2. QED BY <1>1 DEF Acyclic, NoTrap

LEMMA ClearEdge ==
  ASSUME TypeInv, Acyclic, NEW t \in Threads, owner' = owner,
         waiting' = [waiting EXCEPT ![t] = None]
  PROVE  Acyclic'
<1>1. \A u \in Threads : Edge'[u] = Edge[u] \/ Edge'[u] \notin Threads
  BY StaticAssumption DEF TypeInv, TypeOK, Edge, Blocker
<1>2. NoTrap(Edge')
  BY <1>1, DropEdges DEF Acyclic
<1>3. QED BY <1>2 DEF Acyclic, NoTrap

\* Giving up a guard wakes every sleeper and removes the edges to its owner.
LEMMA DisownStep ==
  ASSUME WaitInv, NEW g, Disown(g), waiting' = waiting
  PROVE  SleepInv' /\ Acyclic'
<1>1. SleepInv'
  BY DEF Disown, SleepInv
<1>2. \A u \in Threads : Edge'[u] = Edge[u] \/ Edge'[u] \notin Threads
  BY StaticAssumption DEF WaitInv, TypeInv, TypeOK, Disown, Edge, Blocker
<1>3. NoTrap(Edge')
  BY <1>2, DropEdges DEF WaitInv, Acyclic
<1>4. QED BY <1>1, <1>3 DEF Acyclic, NoTrap

LEMMA WaitStep == WaitInv /\ [Next]_vars => WaitInv'
<1> SUFFICES ASSUME WaitInv, [Next]_vars
             PROVE  WaitInv'
  OBVIOUS
<1>0. TypeInv /\ TypeInv' /\ SleepInv /\ Acyclic
  BY TypeStep DEF WaitInv
<1>a. ASSUME owner' = owner, waiting' = waiting
      PROVE  Acyclic'
  BY <1>0, <1>a, SameEdges
<1>b. ASSUME NEW t \in Threads, owner' = owner,
             waiting' = [waiting EXCEPT ![t] = None]
      PROVE  Acyclic'
  BY <1>0, <1>b, ClearEdge
<1> SUFFICES SleepInv' /\ Acyclic'
  BY <1>0 DEF WaitInv
<1> USE StaticAssumption DEF TypeInv, TypeOK, Busy, guardVars, waitVars
<1>1. ASSUME NEW t \in Threads, NEW g \in Guards, AcquireFast(t, g)
      PROVE  SleepInv' /\ Acyclic'
  BY <1>0, <1>1, <1>a DEF AcquireFast, SleepInv
<1>2. ASSUME NEW t \in Threads, NEW g \in Guards, AcquireSlow(t, g)
      PROVE  SleepInv' /\ Acyclic'
  BY <1>0, <1>2, <1>a DEF AcquireSlow, SleepInv
<1>3. ASSUME NEW t \in Threads, ReturnZero(t)
      PROVE  SleepInv' /\ Acyclic'
  <2>1. Acyclic'
    BY <1>3, <1>b DEF ReturnZero
  <2>2. SleepInv'
    BY <1>0, <1>3 DEF ReturnZero, HasLock, SleepInv
  <2>3. QED BY <2>1, <2>2
<1>4. ASSUME NEW t \in Threads, Wait(t)
      PROVE  SleepInv' /\ Acyclic'
  <2>1. PICK C \in SUBSET Threads :
          owner[want[t]] \in C /\ Closed(C) /\ t \notin C
    BY <1>4 DEF Wait, Cycle
  <2>2. Edge'[t] = owner[want[t]] /\ \A u \in Threads \ {t} : Edge'[u] = Edge[u]
    BY <1>0, <1>4 DEF Wait, HasLock, Edge, Blocker
  <2>3. \A u \in C : Edge[u] # None => Edge[u] \in C
    BY <2>1 DEF Closed, Edge
  <2>4. NoTrap(Edge')
    <3>1. NoTrap(Edge) /\ None \notin Threads
      BY <1>0 DEF Acyclic
    <3>2. QED BY <2>1, <2>2, <2>3, <3>1, AddEdge
  <2>5. Acyclic'
    BY <2>4 DEF Acyclic, NoTrap
  <2>6. QED BY <1>0, <1>4, <2>5 DEF Wait, HasLock, SleepInv
<1>5. ASSUME NEW t \in Threads, Refuse(t)
      PROVE  SleepInv' /\ Acyclic'
  BY <1>0, <1>5, <1>b DEF Refuse, HasLock, SleepInv
<1>6. ASSUME NEW t \in Threads, Own(t)
      PROVE  SleepInv' /\ Acyclic'
  \* Edges to the guard now lead to t, but t's own edge is gone.
  <2>1. SleepInv'
    BY <1>0, <1>6 DEF Own, TakeOwnership, HasLock, SleepInv
  <2>2. Edge'[t] \notin Threads
    BY <1>0, <1>6 DEF Own, TakeOwnership, Edge, Blocker
  <2>3. \A u \in Threads \ {t} : Edge'[u] = Edge[u] \/ Edge'[u] = t
    BY <1>0, <1>6 DEF Own, TakeOwnership, HasLock, Edge, Blocker
  <2>4. NoTrap(Edge')
    BY <1>0, <2>2, <2>3, TurnEdges DEF Acyclic
  <2>5. QED BY <2>1, <2>4 DEF Acyclic, NoTrap
<1>7. ASSUME NEW t \in Threads, Reserve(t)
      PROVE  SleepInv' /\ Acyclic'
  BY <1>0, <1>7, <1>a DEF Reserve, SleepInv
<1>8. ASSUME NEW t \in Threads, ReserveFails(t)
      PROVE  SleepInv' /\ Acyclic'
  BY <1>8, DisownStep DEF ReserveFails
<1>9. ASSUME NEW t \in Threads, Copy(t)
      PROVE  SleepInv' /\ Acyclic'
  BY <1>0, <1>9, <1>a DEF Copy, SleepInv
<1>10. ASSUME NEW t \in Threads, Commit(t)
      PROVE  SleepInv' /\ Acyclic'
  BY <1>10, DisownStep DEF Commit
<1>11. ASSUME NEW t \in Threads, Leave(t)
      PROVE  SleepInv' /\ Acyclic'
  <2>1. CASE ready[Top(t)]
    BY <1>0, <1>11, <1>a, <2>1 DEF Leave, Abort, SleepInv
  <2>2. CASE ~ready[Top(t)]
    BY <1>11, <2>2, DisownStep DEF Leave, Abort
  <2>3. QED BY <2>1, <2>2
<1>12. ASSUME NEW t \in Threads, Fail(t)
      PROVE  SleepInv' /\ Acyclic'
  BY <1>0, <1>12, <1>a DEF Fail, SleepInv
<1>13. ASSUME NEW t \in Threads, Unwind(t)
      PROVE  SleepInv' /\ Acyclic'
  <2>1. CASE ready[Top(t)]
    BY <1>0, <1>13, <1>a, <2>1 DEF Unwind, Abort, SleepInv
  <2>2. CASE ~ready[Top(t)]
    BY <1>13, <2>2, DisownStep DEF Unwind, Abort
  <2>3. QED BY <2>1, <2>2
<1>14. ASSUME NEW t \in Threads, Catch(t)
      PROVE  SleepInv' /\ Acyclic'
  BY <1>0, <1>14, <1>a DEF Catch, SleepInv
<1>15. ASSUME NEW t \in Threads, Exit(t)
      PROVE  SleepInv' /\ Acyclic'
  BY <1>0, <1>15, <1>a DEF Exit, Release, SleepInv
<1>16. ASSUME NEW t \in Threads, SpuriousWakeup(t)
      PROVE  SleepInv' /\ Acyclic'
  BY <1>0, <1>16, <1>a DEF SpuriousWakeup, SleepInv
<1>17. CASE Shutdown
  BY <1>0, <1>17, <1>a DEF Shutdown, Release, SleepInv
<1>18. CASE UNCHANGED vars
  BY <1>0, <1>18, <1>a DEF vars, SleepInv
<1>19. QED
  BY <1>1, <1>2, <1>3, <1>4, <1>5, <1>6, <1>7, <1>8, <1>9, <1>10, <1>11,
     <1>12, <1>13, <1>14, <1>15, <1>16, <1>17, <1>18 DEF Next, Step

LEMMA WaitInvariant == Spec => []WaitInv
<1>1. Init => WaitInv
  <2> SUFFICES ASSUME Init PROVE WaitInv
    OBVIOUS
  <2>1. TypeInv
    BY StaticAssumption DEF Init, TypeInv, TypeOK, Busy, PC
  <2>2. SleepInv
    BY DEF Init, SleepInv
  <2>3. \A t \in Threads : Edge[t] = None
    BY DEF Init, Edge, Blocker
  <2>4. Acyclic
    BY <2>3, StaticAssumption DEF Acyclic, NoTrap
  <2>5. QED BY <2>1, <2>2, <2>4 DEF WaitInv
<1>2. QED BY <1>1, WaitStep, PTL DEF Spec

\* Initializers that use each other's statics never sleep in a circle,
\* whatever the number of threads and guards the circle would run through.
THEOREM DeadlockFreedom == Spec => []NoDeadlock
<1>1. WaitInv => NoDeadlock
  <2> SUFFICES ASSUME WaitInv, NEW S \in SUBSET Threads, S # {}
               PROVE  \E t \in S : ~(t \in asleep /\ owner[want[t]] \in S)
    BY DEF NoDeadlock
  <2>1. PICK t \in S : Edge[t] \notin S
    BY DEF WaitInv, Acyclic, NoTrap
  <2>2. t \in asleep => Edge[t] = owner[want[t]]
    BY StaticAssumption
       DEF WaitInv, TypeInv, TypeOK, Busy, SleepInv, Edge, Blocker
  <2>3. QED BY <2>1, <2>2
<1>2. QED BY <1>1, WaitInvariant, PTL

\* No thread sleeps on a guard that nobody is going to release.
THEOREM NoWakeupLost == Spec => []NoLostWakeup
<1>1. WaitInv => NoLostWakeup
  BY DEF WaitInv, SleepInv, NoLostWakeup
<1>2. QED BY <1>1, WaitInvariant, PTL

-----------------------------------------------------------------------------
(* Refusals.                                                               *)

\* A wait edge belongs to a call that is still inside acquire.
EdgeInv ==
  \A t \in Threads :
    waiting[t] # None => pc[t] = "lock" /\ waiting[t] = want[t]

LEMMA EdgeInvariant == Spec => [](TypeInv /\ EdgeInv)
<1>1. Init => TypeInv /\ EdgeInv
  BY StaticAssumption DEF Init, TypeInv, TypeOK, Busy, PC, EdgeInv
<1>2. TypeInv /\ EdgeInv /\ [Next]_vars => TypeInv' /\ EdgeInv'
  <2> SUFFICES ASSUME TypeInv, EdgeInv, [Next]_vars PROVE EdgeInv'
    BY TypeStep
  <2> USE StaticAssumption DEF TypeInv, TypeOK, EdgeInv
  <2>1. ASSUME NEW t \in Threads, Step(t) PROVE EdgeInv'
    BY <2>1 DEF Step, AcquireFast, AcquireSlow, ReturnZero, Wait, Refuse, Own,
         TakeOwnership, HasLock, Reserve, ReserveFails, Copy, Commit, Leave,
         Fail, Unwind, Catch, Exit, waitVars
  <2>2. ASSUME NEW t \in Threads, SpuriousWakeup(t) PROVE EdgeInv'
    BY <2>2 DEF SpuriousWakeup
  <2>3. CASE Shutdown
    BY <2>3 DEF Shutdown, waitVars
  <2>4. CASE UNCHANGED vars
    BY <2>4 DEF vars, waitVars
  <2>5. QED BY <2>1, <2>2, <2>3, <2>4 DEF Next
<1>3. QED BY <1>1, <1>2, PTL DEF Spec

\* The walk meets t only if waiting would close a circle: the threads that
\* lead to t are all inside acquire and each waits for another of them.
LEMMA CycleIsReal ==
  ASSUME TypeInv, EdgeInv, NEW t \in Threads, pc[t] = "lock",
         owner[want[t]] # None, Cycle(want[t], t)
  PROVE  WouldDeadlock(t)
<1> USE StaticAssumption DEF TypeInv, TypeOK, Busy
<1> DEFINE S == {u \in Threads :
                   \A C \in SUBSET Threads : u \in C /\ Closed(C) => t \in C}
<1>1. t \in S
  OBVIOUS
<1>2. owner[want[t]] \in S
  <2>1. owner[want[t]] \in Threads
    OBVIOUS
  <2>2. QED BY <2>1 DEF Cycle
<1>3. ASSUME NEW u \in S, u # t
      PROVE  pc[u] = "lock" /\ owner[want[u]] \in S
  <2>1. Blocker(u) # None
    <3>1. Blocker(u) = None => Closed({u})
      BY DEF Closed
    <3>2. {u} \in SUBSET Threads
      OBVIOUS
    <3>3. QED BY <1>3, <3>1, <3>2
  <2>2. waiting[u] # None /\ Blocker(u) = owner[waiting[u]]
    BY <2>1 DEF Blocker
  <2>3. pc[u] = "lock" /\ Blocker(u) = owner[want[u]] /\ Blocker(u) \in Threads
    BY <2>1, <2>2 DEF EdgeInv
  <2>4. Blocker(u) \in S
    <3> SUFFICES ASSUME NEW C \in SUBSET Threads, Blocker(u) \in C, Closed(C)
                 PROVE  t \in C
      BY <2>3
    <3>1. Closed(C \cup {u}) /\ C \cup {u} \in SUBSET Threads
      BY DEF Closed
    <3>2. QED BY <1>3, <3>1
  <2>5. QED BY <2>3, <2>4
<1>4. QED BY <1>1, <1>2, <1>3 DEF WouldDeadlock

\* acquire never refuses a call that could have waited and returned.
THEOREM RefusalsAreReal == Spec => RefusalIsReal
<1>1. TypeInv /\ EdgeInv /\ [Next]_vars =>
        [\A t \in Threads :
           (pc[t] = "lock" /\ pc'[t] = "unwind") => WouldDeadlock(t)]_vars
  <2> SUFFICES ASSUME TypeInv, EdgeInv, Next, NEW t \in Threads,
                      pc[t] = "lock", pc'[t] = "unwind"
               PROVE  WouldDeadlock(t)
    OBVIOUS
  <2> USE DEF TypeInv, TypeOK
  <2>1. ASSUME NEW u \in Threads, NEW g \in Guards,
               AcquireFast(u, g) \/ AcquireSlow(u, g)
        PROVE  FALSE
    BY <2>1 DEF AcquireFast, AcquireSlow
  <2>2. ASSUME NEW u \in Threads, ReturnZero(u) \/ Wait(u) \/ Own(u)
        PROVE  FALSE
    BY <2>2 DEF ReturnZero, Wait, Own, TakeOwnership
  <2>3. ASSUME NEW u \in Threads, Reserve(u) \/ ReserveFails(u)
        PROVE  FALSE
    BY <2>3 DEF Reserve, ReserveFails
  <2>4. ASSUME NEW u \in Threads, Copy(u) \/ Commit(u) \/ Leave(u)
        PROVE  FALSE
    BY <2>4 DEF Copy, Commit, Leave
  <2>5. ASSUME NEW u \in Threads, Fail(u) \/ Unwind(u) \/ Catch(u) \/ Exit(u)
        PROVE  FALSE
    BY <2>5 DEF Fail, Unwind, Catch, Exit
  <2>6. ASSUME NEW u \in Threads, SpuriousWakeup(u)
        PROVE  FALSE
    BY <2>6 DEF SpuriousWakeup
  <2>7. ~Shutdown
    BY DEF Shutdown
  <2>8. ASSUME NEW u \in Threads, Refuse(u)
        PROVE  u = t
    BY <2>8 DEF Refuse
  <2>9. Refuse(t)
    BY <2>1, <2>2, <2>3, <2>4, <2>5, <2>6, <2>7, <2>8 DEF Next, Step
  <2>10. QED BY <2>9, CycleIsReal DEF Refuse
<1>2. QED BY <1>1, EdgeInvariant, PTL DEF Spec, RefusalIsReal

-----------------------------------------------------------------------------
(* Ownership, publication and storage.                                     *)

Elems(s) == {s[i] : i \in 1..Len(s)}

Distinct(s) == \A i, j \in 1..Len(s) : s[i] = s[j] => i = j

\* The stack of initializers as a set: pushing a new one and popping the top.
LEMMA PushFacts ==
  ASSUME NEW S, NEW s \in Seq(S), NEW e \in S
  PROVE  /\ Elems(<<e>> \o s) = {e} \cup Elems(s)
         /\ Head(<<e>> \o s) = e
         /\ Tail(<<e>> \o s) = s
         /\ Distinct(s) /\ e \notin Elems(s) => Distinct(<<e>> \o s)
<1> DEFINE p == <<e>> \o s
<1>1. /\ p \in Seq(S) /\ Len(p) = Len(s) + 1 /\ p[1] = e
      /\ \A i \in 1..Len(s) : p[i + 1] = s[i]
  OBVIOUS
<1>2. \A i \in 2..Len(p) : i - 1 \in 1..Len(s) /\ p[i] = s[i - 1]
  BY <1>1
<1>3. Elems(p) = {e} \cup Elems(s)
  <2>1. ASSUME NEW x \in Elems(p) PROVE x \in {e} \cup Elems(s)
    BY <1>1, <1>2 DEF Elems
  <2>2. e \in Elems(p)
    BY <1>1 DEF Elems
  <2>3. ASSUME NEW i \in 1..Len(s) PROVE s[i] \in Elems(p)
    <3>1. i + 1 \in 1..Len(p) /\ p[i + 1] = s[i]
      BY <1>1
    <3>2. QED BY <3>1 DEF Elems
  <2>4. QED BY <2>1, <2>2, <2>3 DEF Elems
<1>4. ASSUME Distinct(s), e \notin Elems(s) PROVE Distinct(p)
  <2>1. SUFFICES ASSUME NEW i \in 1..Len(p), NEW j \in 1..Len(p), p[i] = p[j]
                 PROVE  i = j
    BY DEF Distinct
  <2>2. \A k \in 2..Len(p) : p[k] # e
    BY <1>2, <1>4 DEF Elems
  <2>3. CASE i = 1 \/ j = 1
    BY <1>1, <2>1, <2>2, <2>3
  <2>4. CASE i # 1 /\ j # 1
    <3>1. i - 1 = j - 1
      BY <1>2, <1>4, <2>1, <2>4 DEF Distinct
    <3>2. QED BY <3>1
  <2>5. QED BY <2>3, <2>4
<1>5. QED BY <1>1, <1>3, <1>4

LEMMA PopFacts ==
  ASSUME NEW S, NEW s \in Seq(S), s # <<>>
  PROVE  /\ Elems(s) = {Head(s)} \cup Elems(Tail(s))
         /\ Elems(Tail(s)) = {s[i] : i \in 2..Len(s)}
         /\ Distinct(s) => Distinct(Tail(s)) /\ Head(s) \notin Elems(Tail(s))
<1> DEFINE r == Tail(s)
<1>1. /\ Len(s) \in Nat /\ Len(s) > 0 /\ Len(r) = Len(s) - 1
      /\ Head(s) = s[1] /\ \A i \in 1..Len(r) : r[i] = s[i + 1]
  OBVIOUS
<1>2. \A i \in 2..Len(s) : i - 1 \in 1..Len(r) /\ s[i] = r[i - 1]
  <2> SUFFICES ASSUME NEW i \in 2..Len(s)
               PROVE  i - 1 \in 1..Len(r) /\ s[i] = r[i - 1]
    OBVIOUS
  <2>1. i - 1 \in 1..Len(r) /\ (i - 1) + 1 = i
    BY <1>1
  <2>2. QED BY <1>1, <2>1
<1>3. Elems(r) = {s[i] : i \in 2..Len(s)}
  <2>1. ASSUME NEW i \in 1..Len(r) PROVE r[i] \in {s[k] : k \in 2..Len(s)}
    <3>1. i + 1 \in 2..Len(s)
      BY <1>1
    <3>2. QED BY <1>1, <3>1
  <2>2. ASSUME NEW i \in 2..Len(s) PROVE s[i] \in Elems(r)
    BY <1>2 DEF Elems
  <2>3. QED BY <2>1, <2>2 DEF Elems
<1>4. Elems(s) = {Head(s)} \cup Elems(r)
  <2>1. 1 \in 1..Len(s) /\ 2..Len(s) \subseteq 1..Len(s)
    BY <1>1
  <2>2. ASSUME NEW i \in 1..Len(s) PROVE i = 1 \/ i \in 2..Len(s)
    BY <1>1
  <2>3. QED BY <1>1, <1>3, <2>1, <2>2 DEF Elems
<1>5. ASSUME Distinct(s) PROVE Distinct(r) /\ Head(s) \notin Elems(r)
  <2>1. Head(s) \notin Elems(r)
    BY <1>1, <1>3, <1>5 DEF Distinct
  <2>2. ASSUME NEW i \in 1..Len(r), NEW j \in 1..Len(r), r[i] = r[j]
        PROVE  i = j
    <3>1. i + 1 \in 1..Len(s) /\ j + 1 \in 1..Len(s) /\ s[i + 1] = s[j + 1]
      BY <1>1, <2>2
    <3>2. QED BY <1>5, <3>1 DEF Distinct
  <2>3. QED BY <2>1, <2>2 DEF Distinct
<1>6. QED BY <1>3, <1>4, <1>5

\* The initializers of a thread that have not committed, by where it is.
PendOf(p, s) == IF p = "committed" THEN Elems(Tail(s)) ELSE Elems(s)

OwnerInv ==
  \A t \in Threads :
    /\ Distinct(running[t])
    /\ \A g \in Guards : owner[g] = t <=> g \in PendOf(pc[t], running[t])

PublishedInv ==
  /\ \A g \in Guards : ready[g] => /\ owner[g] = None
                                   /\ payload[g]
                                   /\ bytes[g] = "whole"
  /\ \A t \in Threads :
       /\ pc[t] = "committed" => ready[Top(t)]
       /\ pc[t] = "copied" => bytes[Top(t)] = "whole"
       /\ \A g \in Guards :
            owner[g] = t => payload[g] \/ (pc[t] = "reserve" /\ g = Top(t))
       /\ \A g \in holds[t] : ready[g]

HomeInv ==
  /\ \A t \in Threads :
       /\ \A g \in Elems(running[t]) \cup holds[t] : Home[g] \in {None, t}
       /\ pc[t] = "lock" => Home[want[t]] \in {None, t}
       /\ pc[t] = "exit" => running[t] = <<>> /\ holds[t] = {}
  /\ \A h \in Threads \cup {None} : \A g \in Elems(values[h]) : Home[g] = h

OnceInv == TypeInv /\ OwnerInv /\ PublishedInv /\ HomeInv

\* The guards t is inside of are guards, and the top one is the first.
LEMMA TopFacts ==
  ASSUME TypeInv, NEW t \in Threads, running[t] # <<>>
  PROVE  /\ Top(t) \in Guards
         /\ Top(t) \in Elems(running[t])
         /\ Elems(running[t]) = {Top(t)} \cup Elems(Tail(running[t]))
         /\ Distinct(running[t]) => /\ Distinct(Tail(running[t]))
                                    /\ Top(t) \notin Elems(Tail(running[t]))
         /\ Elems(running[t]) \subseteq Guards
<1>1. running[t] \in Seq(Guards)
  BY DEF TypeInv, TypeOK
<1>2. Elems(running[t]) \subseteq Guards
  BY <1>1 DEF Elems
<1>3. QED BY <1>1, <1>2, PopFacts DEF Top

\* A thread owns the guard of the initializer it is in, until it commits.
LEMMA TopOwned ==
  ASSUME TypeInv, OwnerInv, HomeInv, NEW t \in Threads,
         running[t] # <<>>, pc[t] # "committed"
  PROVE  Top(t) \in Guards /\ owner[Top(t)] = t /\ Home[Top(t)] \in {None, t}
<1>1. Top(t) \in Guards /\ Top(t) \in Elems(running[t])
  BY TopFacts
<1>2. owner[Top(t)] = t
  BY <1>1 DEF OwnerInv, PendOf
<1>3. Home[Top(t)] \in {None, t}
  BY <1>1 DEF HomeInv
<1>4. QED BY <1>1, <1>2, <1>3

\* Ownership is undisturbed by a step that leaves the owners and the stacks
\* alone and does not enter or leave the committed state.
LEMMA OwnerFrame ==
  ASSUME OwnerInv, owner' = owner, running' = running,
         \A t \in Threads : pc[t] = "committed" <=> pc'[t] = "committed"
  PROVE  OwnerInv'
BY DEF OwnerInv, PendOf

\* A thread drops its innermost initializer together with its ownership.
LEMMA OwnerPop ==
  ASSUME OnceInv, NEW t \in Threads, running[t] # <<>>,
         pc[t] # "committed", pc'[t] # "committed",
         \A u \in Threads \ {t} : pc'[u] = pc[u],
         running' = [running EXCEPT ![t] = Tail(@)],
         owner' = [owner EXCEPT ![Top(t)] = None]
  PROVE  OwnerInv'
<1> USE StaticAssumption DEF OnceInv, TypeInv, TypeOK, OwnerInv, PendOf
<1>1. running'[t] = Tail(running[t])
      /\ \A u \in Threads \ {t} : running'[u] = running[u]
  OBVIOUS
<1>2. owner'[Top(t)] = None /\ \A g \in Guards \ {Top(t)} : owner'[g] = owner[g]
  BY TopFacts
<1>3. ASSUME NEW u \in Threads \ {t}
      PROVE  /\ Distinct(running'[u])
             /\ \A g \in Guards : owner'[g] = u <=> g \in PendOf(pc'[u], running'[u])
  <2>1. owner[Top(t)] = t
    BY TopFacts
  <2>2. QED BY <1>1, <1>2, <1>3, <2>1
<1>4. /\ Distinct(running'[t])
      /\ \A g \in Guards : owner'[g] = t <=> g \in PendOf(pc'[t], running'[t])
  BY <1>1, <1>2, TopFacts
<1>5. QED BY <1>3, <1>4

\* A thread becomes the owner of a free guard and enters its initializer.
LEMMA OwnerPush ==
  ASSUME OnceInv, NEW t \in Threads, NEW g \in Guards, owner[g] = None,
         pc[t] # "committed", pc'[t] # "committed",
         \A u \in Threads \ {t} : pc'[u] = pc[u],
         running' = [running EXCEPT ![t] = <<g>> \o @],
         owner' = [owner EXCEPT ![g] = t]
  PROVE  OwnerInv'
<1> USE StaticAssumption DEF OnceInv, TypeInv, TypeOK, OwnerInv, PendOf
<1>1. running'[t] = <<g>> \o running[t]
      /\ \A u \in Threads \ {t} : running'[u] = running[u]
  OBVIOUS
<1>2. owner'[g] = t /\ \A h \in Guards \ {g} : owner'[h] = owner[h]
  OBVIOUS
<1>3. ASSUME NEW u \in Threads \ {t}
      PROVE  /\ Distinct(running'[u])
             /\ \A h \in Guards : owner'[h] = u <=> h \in PendOf(pc'[u], running'[u])
  BY <1>1, <1>2, <1>3
<1>4. /\ Distinct(running'[t])
      /\ \A h \in Guards : owner'[h] = t <=> h \in PendOf(pc'[t], running'[t])
  <2>1. g \notin Elems(running[t]) /\ Distinct(running[t])
    OBVIOUS
  <2>2. Elems(running'[t]) = {g} \cup Elems(running[t]) /\ Distinct(running'[t])
    BY <1>1, <2>1, PushFacts
  <2>3. QED BY <1>2, <2>2
<1>5. QED BY <1>3, <1>4

\* A thread leaves the initializer it has committed.
LEMMA OwnerLeave ==
  ASSUME OnceInv, NEW t \in Threads, running[t] # <<>>,
         pc[t] = "committed", pc'[t] # "committed",
         \A u \in Threads \ {t} : pc'[u] = pc[u],
         running' = [running EXCEPT ![t] = Tail(@)],
         owner' = owner
  PROVE  OwnerInv'
<1> USE StaticAssumption DEF OnceInv, TypeInv, TypeOK, OwnerInv, PendOf
<1>1. running'[t] = Tail(running[t])
      /\ \A u \in Threads \ {t} : running'[u] = running[u]
  OBVIOUS
<1>2. Distinct(Tail(running[t]))
  BY TopFacts
<1>3. QED BY <1>1, <1>2

LEMMA OnceStep == OnceInv /\ [Next]_vars => OnceInv'
<1> SUFFICES ASSUME OnceInv, [Next]_vars
             PROVE  OnceInv'
  OBVIOUS
<1>0. TypeInv /\ TypeInv' /\ OwnerInv /\ PublishedInv /\ HomeInv
  BY TypeStep DEF OnceInv
<1> SUFFICES OwnerInv' /\ PublishedInv' /\ HomeInv'
  BY <1>0 DEF OnceInv
<1> USE StaticAssumption DEF TypeInv, TypeOK, Busy, guardVars, waitVars, Top
<1>1. ASSUME NEW t \in Threads, NEW g \in Guards, AcquireFast(t, g)
      PROVE  OwnerInv' /\ PublishedInv' /\ HomeInv'
  <2>1. OwnerInv'
    BY <1>0, <1>1, OwnerFrame DEF AcquireFast
  <2>2. PublishedInv'
    BY <1>0, <1>1 DEF AcquireFast, PublishedInv
  <2>3. HomeInv'
    BY <1>0, <1>1 DEF AcquireFast, HomeInv
  <2>4. QED BY <2>1, <2>2, <2>3
<1>2. ASSUME NEW t \in Threads, NEW g \in Guards, AcquireSlow(t, g)
      PROVE  OwnerInv' /\ PublishedInv' /\ HomeInv'
  <2>1. OwnerInv'
    BY <1>0, <1>2, OwnerFrame DEF AcquireSlow
  <2>2. PublishedInv'
    BY <1>0, <1>2 DEF AcquireSlow, PublishedInv
  <2>3. HomeInv'
    BY <1>0, <1>2 DEF AcquireSlow, HomeInv
  <2>4. QED BY <2>1, <2>2, <2>3
<1>3. ASSUME NEW t \in Threads, ReturnZero(t)
      PROVE  OwnerInv' /\ PublishedInv' /\ HomeInv'
  <2>1. OwnerInv'
    BY <1>0, <1>3, OwnerFrame DEF ReturnZero, HasLock
  <2>2. PublishedInv'
    BY <1>0, <1>3 DEF ReturnZero, HasLock, PublishedInv
  <2>3. HomeInv'
    BY <1>0, <1>3 DEF ReturnZero, HasLock, HomeInv
  <2>4. QED BY <2>1, <2>2, <2>3
<1>4. ASSUME NEW t \in Threads, Wait(t)
      PROVE  OwnerInv' /\ PublishedInv' /\ HomeInv'
  <2>1. OwnerInv'
    BY <1>0, <1>4, OwnerFrame DEF Wait, HasLock
  <2>2. PublishedInv'
    BY <1>0, <1>4 DEF Wait, HasLock, PublishedInv
  <2>3. HomeInv'
    BY <1>0, <1>4 DEF Wait, HasLock, HomeInv
  <2>4. QED BY <2>1, <2>2, <2>3
<1>5. ASSUME NEW t \in Threads, Refuse(t)
      PROVE  OwnerInv' /\ PublishedInv' /\ HomeInv'
  <2>1. OwnerInv'
    BY <1>0, <1>5, OwnerFrame DEF Refuse, HasLock
  <2>2. PublishedInv'
    BY <1>0, <1>5 DEF Refuse, HasLock, PublishedInv
  <2>3. HomeInv'
    BY <1>0, <1>5 DEF Refuse, HasLock, HomeInv
  <2>4. QED BY <2>1, <2>2, <2>3
<1>6. ASSUME NEW t \in Threads, Own(t)
      PROVE  OwnerInv' /\ PublishedInv' /\ HomeInv'
  <2>1. /\ want[t] \in Guards /\ ~ready[want[t]] /\ owner[want[t]] = None
        /\ pc[t] = "lock" /\ pc'[t] = "reserve"
        /\ \A u \in Threads \ {t} : pc'[u] = pc[u]
        /\ owner' = [owner EXCEPT ![want[t]] = t]
        /\ running' = [running EXCEPT ![t] = <<want[t]>> \o @]
    BY <1>0, <1>6 DEF Own, TakeOwnership, HasLock
  <2>2. OwnerInv'
    BY <2>1, OwnerPush
  <2>3. /\ Elems(running'[t]) = {want[t]} \cup Elems(running[t])
        /\ Head(running'[t]) = want[t]
        /\ \A u \in Threads \ {t} : running'[u] = running[u]
    BY <1>0, <2>1, PushFacts
  <2>4. PublishedInv'
    BY <1>0, <1>6, <2>1, <2>3 DEF Own, TakeOwnership, PublishedInv
  <2>5. HomeInv'
    <3>1. \A u \in Threads : \A g \in Elems(running'[u]) \cup holds'[u] :
            Home[g] \in {None, u}
      BY <1>0, <1>6, <2>1, <2>3 DEF Own, TakeOwnership, HomeInv
    <3>2. \A u \in Threads : pc'[u] = "exit" => running'[u] = <<>> /\ holds'[u] = {}
      BY <1>0, <1>6, <2>1, <2>3 DEF Own, TakeOwnership, HomeInv
    <3>3. values' = values
      BY <1>6 DEF Own, TakeOwnership
    <3>4. \A u \in Threads : pc'[u] = "lock" => pc[u] = "lock" /\ want'[u] = want[u]
      BY <1>0, <1>6, <2>1 DEF Own, TakeOwnership
    <3>5. QED BY <1>0, <3>1, <3>2, <3>3, <3>4 DEF HomeInv
  <2>6. QED BY <2>2, <2>4, <2>5
<1>7. ASSUME NEW t \in Threads, Reserve(t)
      PROVE  OwnerInv' /\ PublishedInv' /\ HomeInv'
  <2>1. OwnerInv'
    BY <1>0, <1>7, OwnerFrame DEF Reserve
  <2>2. /\ Top(t) \in Guards /\ owner[Top(t)] = t
        /\ Home[Top(t)] \in {None, t}
    <3>1. running[t] # <<>> /\ pc[t] # "committed"
      BY <1>0, <1>7 DEF Reserve
    <3> HIDE DEF TypeInv, TypeOK, Busy, Top
    <3>2. QED BY <1>0, <3>1, TopOwned
  <2>3. PublishedInv'
    <3>1. /\ ready' = ready /\ owner' = owner /\ holds' = holds
          /\ running' = running /\ ~ready[Top(t)] /\ pc[t] = "reserve"
      BY <1>0, <1>7, <2>2 DEF Reserve, PublishedInv
    <3>2. \A g \in Guards : payload'[g] = (payload[g] \/ g = Top(t))
      BY <1>0, <1>7, <2>2 DEF Reserve
    <3>3. \A g \in Guards \ {Top(t)} : bytes'[g] = bytes[g]
      BY <1>0, <1>7, <2>2 DEF Reserve
    <3>4. pc'[t] = "run" /\ \A u \in Threads \ {t} : pc'[u] = pc[u]
      BY <1>0, <1>7 DEF Reserve
    <3>5. \A u \in Threads \ {t} : pc[u] = "copied" => Top(u) # Top(t)
      BY <1>0, <2>2, TopFacts DEF OwnerInv, PendOf
    <3>6. \A g \in Guards : ready'[g] => owner'[g] = None /\ payload'[g] /\ bytes'[g] = "whole"
      BY <1>0, <3>1, <3>2, <3>3 DEF PublishedInv
    <3>7. \A u \in Threads : pc'[u] = "copied" => bytes'[Top(u)] = "whole"
      <4>1. \A u \in Threads : pc[u] = "copied" => Top(u) \in Guards
        BY <1>0, TopFacts
      <4> HIDE DEF TypeInv, TypeOK, Busy, Top
      <4> QED BY <1>0, <3>3, <3>4, <3>5, <4>1 DEF PublishedInv
    <3>8. \A u \in Threads, g \in Guards :
            owner'[g] = u => payload'[g] \/ (pc'[u] = "reserve" /\ g = Top(u))
      <4> SUFFICES ASSUME NEW u \in Threads, NEW g \in Guards, owner'[g] = u
                   PROVE  payload'[g] \/ (pc'[u] = "reserve" /\ g = Top(u))
        OBVIOUS
      <4>1. payload[g] \/ (pc[u] = "reserve" /\ g = Top(u))
        BY <1>0, <3>1 DEF PublishedInv
      <4> HIDE DEF TypeInv, TypeOK, Busy, Top
      <4>2. CASE u = t
        BY <3>2, <4>1, <4>2
      <4>3. CASE u # t
        BY <3>2, <3>4, <4>1, <4>3
      <4> QED BY <4>2, <4>3
    <3>9. \A u \in Threads : pc'[u] = "committed" => ready'[Top(u)]
      BY <1>0, <3>1, <3>4 DEF PublishedInv
    <3>10. \A u \in Threads : Top(u)' = Top(u)
      BY <3>1
    <3> HIDE DEF TypeInv, TypeOK, Busy, Top
    <3>11. QED BY <1>0, <3>1, <3>6, <3>7, <3>8, <3>9, <3>10 DEF PublishedInv
  <2>4. Elems(<<Top(t)>> \o values[Home[Top(t)]])
          = {Top(t)} \cup Elems(values[Home[Top(t)]])
    BY <1>0, <2>2, PushFacts
  <2>5. HomeInv'
    <3>1. \A h \in Threads \cup {None} :
            Elems(values'[h]) = Elems(values[h])
            \/ (h = Home[Top(t)] /\ Elems(values'[h]) = {Top(t)} \cup Elems(values[h]))
      BY <1>0, <1>7, <2>2, <2>4 DEF Reserve
    <3>2. \A u \in Threads : pc'[u] \in {"lock", "exit"} => pc'[u] = pc[u]
      BY <1>0, <1>7 DEF Reserve
    <3>3. running' = running /\ holds' = holds /\ want' = want
      BY <1>7 DEF Reserve
    <3> HIDE DEF TypeInv, TypeOK, Busy, Top
    <3>4. \A h \in Threads \cup {None} : \A g \in Elems(values'[h]) : Home[g] = h
      BY <1>0, <3>1 DEF HomeInv
    <3>5. QED BY <1>0, <3>2, <3>3, <3>4 DEF HomeInv
  <2>6. QED BY <2>1, <2>3, <2>5
<1>8. ASSUME NEW t \in Threads, ReserveFails(t)
      PROVE  OwnerInv' /\ PublishedInv' /\ HomeInv'
  <2>1. OwnerInv'
    <3>1. running[t] # <<>> /\ pc[t] = "reserve"
          /\ owner' = [owner EXCEPT ![Top(t)] = None]
          /\ running' = [running EXCEPT ![t] = Tail(@)]
          /\ pc'[t] = "unwind"
          /\ \A u \in Threads \ {t} : pc'[u] = pc[u]
      BY <1>0, <1>8 DEF ReserveFails, Disown
    <3>2. QED BY <3>1, OwnerPop
  <2>2. Elems(Tail(running[t])) \subseteq Elems(running[t])
    BY <1>0, <1>8, TopFacts DEF ReserveFails
  <2>3. PublishedInv'
    BY <1>0, <1>8 DEF ReserveFails, Disown, PublishedInv
  <2>4. HomeInv'
    BY <1>0, <1>8, <2>2 DEF ReserveFails, Disown, HomeInv
  <2>5. QED BY <2>1, <2>3, <2>4
<1>9. ASSUME NEW t \in Threads, Copy(t)
      PROVE  OwnerInv' /\ PublishedInv' /\ HomeInv'
  <2>1. OwnerInv'
    BY <1>0, <1>9, OwnerFrame DEF Copy
  <2>2. Top(t) \in Guards /\ owner[Top(t)] = t
    <3>1. running[t] # <<>> /\ pc[t] # "committed"
      BY <1>0, <1>9 DEF Copy
    <3> HIDE DEF TypeInv, TypeOK, Busy, Top
    <3>2. QED BY <1>0, <3>1, TopOwned
  <2>3. PublishedInv'
    BY <1>0, <1>9, <2>2 DEF Copy, PublishedInv
  <2>4. HomeInv'
    BY <1>0, <1>9 DEF Copy, HomeInv
  <2>5. QED BY <2>1, <2>3, <2>4
<1>10. ASSUME NEW t \in Threads, Commit(t)
      PROVE  OwnerInv' /\ PublishedInv' /\ HomeInv'
  <2>1. /\ Top(t) \in Guards /\ owner[Top(t)] = t
        /\ payload[Top(t)] /\ bytes[Top(t)] = "whole"
    BY <1>0, <1>10, TopFacts DEF Commit, OwnerInv, PendOf, PublishedInv
  <2>2. OwnerInv'
    <3>1. owner' = [owner EXCEPT ![Top(t)] = None] /\ running' = running
          /\ pc' = [pc EXCEPT ![t] = "committed"] /\ pc[t] = "copied"
      BY <1>10 DEF Commit, Disown
    <3>2. /\ running[t] # <<>> /\ Distinct(running[t])
          /\ \A g \in Guards : owner[g] = t <=> g \in Elems(running[t])
      BY <1>0, <3>1 DEF OwnerInv, PendOf
    <3>3. \A g \in Guards : owner'[g] = t <=> g \in Elems(Tail(running[t]))
      BY <1>0, <2>1, <3>1, <3>2, TopFacts
    <3>4. \A u \in Threads \ {t} : \A g \in Guards :
            owner'[g] = u <=> g \in PendOf(pc'[u], running'[u])
      <4>1. \A u \in Threads \ {t} : \A g \in Guards :
              owner'[g] = u <=> owner[g] = u
        BY <1>0, <2>1, <3>1
      <4>2. \A u \in Threads \ {t} : pc'[u] = pc[u] /\ running'[u] = running[u]
        BY <1>0, <3>1
      <4> HIDE DEF TypeInv, TypeOK, Busy, Top
      <4> QED BY <1>0, <4>1, <4>2 DEF OwnerInv
    <3>5. Distinct(running'[t]) /\ \A g \in Guards :
            owner'[g] = t <=> g \in PendOf(pc'[t], running'[t])
      BY <1>0, <3>1, <3>2, <3>3 DEF PendOf
    <3>6. \A u \in Threads : Distinct(running'[u])
      BY <1>0, <3>1 DEF OwnerInv
    <3> HIDE DEF TypeInv, TypeOK, Busy, Top
    <3>7. QED BY <3>4, <3>5, <3>6 DEF OwnerInv
  <2>3. PublishedInv'
    BY <1>0, <1>10, <2>1 DEF Commit, Disown, PublishedInv
  <2>4. HomeInv'
    BY <1>0, <1>10 DEF Commit, Disown, HomeInv
  <2>5. QED BY <2>2, <2>3, <2>4
<1>11. ASSUME NEW t \in Threads, Leave(t)
      PROVE  OwnerInv' /\ PublishedInv' /\ HomeInv'
  <2>1. /\ running[t] # <<>> /\ pc[t] = "committed" /\ ready[Top(t)]
        /\ Top(t) \in Guards /\ Top(t) \in Elems(running[t])
        /\ owner' = owner /\ asleep' = asleep
        /\ running' = [running EXCEPT ![t] = Tail(@)]
        /\ pc'[t] = "run" /\ \A u \in Threads \ {t} : pc'[u] = pc[u]
    <3>1. running[t] # <<>> /\ pc[t] = "committed" /\ ready[Top(t)]
      BY <1>0, <1>11 DEF Leave, PublishedInv
    <3>2. Top(t) \in Guards /\ Top(t) \in Elems(running[t])
      BY <1>0, <3>1, TopFacts
    <3>3. owner' = owner /\ asleep' = asleep
      BY <1>11, <3>1 DEF Leave, Abort
    <3>4. QED BY <1>0, <1>11, <3>1, <3>2, <3>3 DEF Leave
  <2>2. /\ Elems(Tail(running[t])) \subseteq Elems(running[t])
        /\ Distinct(running[t]) => Distinct(Tail(running[t]))
    BY <1>0, <2>1, TopFacts
  <2>3. OwnerInv'
    BY <2>1, OwnerLeave
  <2>4. PublishedInv'
    BY <1>0, <1>11, <2>1 DEF Leave, PublishedInv
  <2>5. HomeInv'
    BY <1>0, <1>11, <2>1, <2>2 DEF Leave, HomeInv
  <2>6. QED BY <2>3, <2>4, <2>5
<1>12. ASSUME NEW t \in Threads, Fail(t)
      PROVE  OwnerInv' /\ PublishedInv' /\ HomeInv'
  <2>1. OwnerInv'
    BY <1>0, <1>12, OwnerFrame DEF Fail
  <2>2. PublishedInv'
    BY <1>0, <1>12 DEF Fail, PublishedInv
  <2>3. HomeInv'
    BY <1>0, <1>12 DEF Fail, HomeInv
  <2>4. QED BY <2>1, <2>2, <2>3
<1>13. ASSUME NEW t \in Threads, Unwind(t)
      PROVE  OwnerInv' /\ PublishedInv' /\ HomeInv'
  <2>1. Top(t) \in Guards /\ owner[Top(t)] = t /\ ~ready[Top(t)]
    BY <1>0, <1>13, TopFacts DEF Unwind, OwnerInv, PendOf, PublishedInv
  <2>2. OwnerInv'
    BY <1>13, <2>1, OwnerPop DEF Unwind, Abort, Disown
  <2>3. Elems(Tail(running[t])) \subseteq Elems(running[t])
    BY <1>0, <1>13, TopFacts DEF Unwind
  <2>4. PublishedInv'
    BY <1>0, <1>13, <2>1 DEF Unwind, Abort, Disown, PublishedInv
  <2>5. HomeInv'
    BY <1>0, <1>13, <2>3 DEF Unwind, HomeInv
  <2>6. QED BY <2>2, <2>4, <2>5
<1>14. ASSUME NEW t \in Threads, Catch(t)
      PROVE  OwnerInv' /\ PublishedInv' /\ HomeInv'
  <2>1. OwnerInv'
    BY <1>0, <1>14, OwnerFrame DEF Catch
  <2>2. PublishedInv'
    BY <1>0, <1>14 DEF Catch, PublishedInv
  <2>3. HomeInv'
    BY <1>0, <1>14 DEF Catch, HomeInv
  <2>4. QED BY <2>1, <2>2, <2>3
<1>15. ASSUME NEW t \in Threads, Exit(t)
      PROVE  OwnerInv' /\ PublishedInv' /\ HomeInv'
  <2>1. OwnerInv'
    BY <1>0, <1>15, OwnerFrame DEF Exit, Release
  <2>2. \A g \in Guards : InSeq(g, values[t]) => Home[g] = t
    BY <1>0 DEF HomeInv, InSeq, Elems
  <2>3. \A g \in Guards : InSeq(g, values[t]) => \A u \in Threads : owner[g] # u
    <3>1. pc[t] = "run" /\ running[t] = <<>>
      BY <1>15 DEF Exit
    <3>2. \A g \in Guards : owner[g] # t
      BY <1>0, <3>1 DEF OwnerInv, PendOf, Elems
    <3>3. \A u \in Threads, g \in Guards : owner[g] = u => Home[g] \in {None, u}
      <4> SUFFICES ASSUME NEW u \in Threads, NEW g \in Guards, owner[g] = u
                   PROVE  Home[g] \in {None, u}
        OBVIOUS
      <4>1. g \in PendOf(pc[u], running[u])
        BY <1>0 DEF OwnerInv
      <4>2. g \in Elems(running[u])
        <5>1. CASE pc[u] = "committed"
          <6>1. running[u] # <<>>
            BY <1>0, <5>1
          <6>2. Elems(running[u]) = {Top(u)} \cup Elems(Tail(running[u]))
            BY <1>0, <6>1, TopFacts
          <6>3. QED BY <4>1, <5>1, <6>2 DEF PendOf
        <5>2. CASE pc[u] # "committed"
          BY <4>1, <5>2 DEF PendOf
        <5>3. QED BY <5>1, <5>2
      <4>3. QED BY <1>0, <4>2 DEF HomeInv
    <3>4. QED BY <2>2, <3>2, <3>3
  <2>4. \A u \in Threads : pc[u] \in {"committed", "copied"} =>
          Top(u) \in Guards /\ ~InSeq(Top(u), values[t])
    <3> SUFFICES ASSUME NEW u \in Threads, pc[u] \in {"committed", "copied"}
                 PROVE  Top(u) \in Guards /\ ~InSeq(Top(u), values[t])
      OBVIOUS
    <3>1. u # t /\ running[u] # <<>>
      BY <1>0, <1>15 DEF Exit
    <3>2. Top(u) \in Guards /\ Top(u) \in Elems(running[u])
      BY <1>0, <3>1, TopFacts
    <3>3. Home[Top(u)] \in {None, u}
      BY <1>0, <3>2 DEF HomeInv
    <3>4. QED BY <2>2, <3>1, <3>2, <3>3
  <2>5. \A u \in Threads \ {t} : \A g \in holds[u] : ~InSeq(g, values[t])
    BY <1>0, <2>2 DEF HomeInv
  <2>6. PublishedInv'
    <3>1. /\ owner' = owner /\ running' = running
          /\ \A g \in Guards : ~InSeq(g, values[t]) =>
               payload'[g] = payload[g] /\ ready'[g] = ready[g] /\ bytes'[g] = bytes[g]
          /\ \A g \in Guards : ready'[g] => ~InSeq(g, values[t])
          /\ holds'[t] = {} /\ \A u \in Threads \ {t} : holds'[u] = holds[u]
          /\ pc'[t] = "exit" /\ \A u \in Threads \ {t} : pc'[u] = pc[u]
      <4>1. /\ owner' = owner /\ running' = running
            /\ \A g \in Guards : /\ payload'[g] = (payload[g] /\ ~InSeq(g, values[t]))
                                  /\ ready'[g] = (ready[g] /\ ~InSeq(g, values[t]))
        BY <1>15 DEF Exit, Release
      <4>2. \A g \in Guards : ~InSeq(g, values[t]) => bytes'[g] = bytes[g]
        BY <1>15 DEF Exit, Release
      <4>3. /\ holds'[t] = {} /\ \A u \in Threads \ {t} : holds'[u] = holds[u]
            /\ pc'[t] = "exit" /\ \A u \in Threads \ {t} : pc'[u] = pc[u]
        BY <1>0, <1>15 DEF Exit
      <4>4. \A g \in Guards : payload[g] \in BOOLEAN /\ ready[g] \in BOOLEAN
        BY <1>0
      <4> HIDE DEF TypeInv, TypeOK, Busy, Top
      <4>5. \A g \in Guards : ~InSeq(g, values[t]) =>
              payload'[g] = payload[g] /\ ready'[g] = ready[g]
        BY <4>1, <4>4
      <4>6. \A g \in Guards : ready'[g] => ~InSeq(g, values[t])
        BY <4>1
      <4> QED BY <4>1, <4>2, <4>3, <4>5, <4>6
    <3>2. \A g \in Guards :
            ready'[g] => owner'[g] = None /\ payload'[g] /\ bytes'[g] = "whole"
      BY <1>0, <3>1 DEF PublishedInv
    <3>3. \A u \in Threads : pc'[u] = "committed" => ready'[Top(u)]
      <4> HIDE DEF TypeInv, TypeOK, Busy, Top
      <4> QED BY <1>0, <2>4, <3>1 DEF PublishedInv
    <3>4. \A u \in Threads : pc'[u] = "copied" => bytes'[Top(u)] = "whole"
      <4> HIDE DEF TypeInv, TypeOK, Busy, Top
      <4> QED BY <1>0, <2>4, <3>1 DEF PublishedInv
    <3>5. \A u \in Threads, g \in Guards :
            owner'[g] = u => payload'[g] \/ (pc'[u] = "reserve" /\ g = Top(u))
      BY <1>0, <1>15, <2>3, <3>1 DEF PublishedInv, Exit
    <3>6. \A u \in Threads : \A g \in holds'[u] : ready'[g]
      BY <1>0, <2>5, <3>1 DEF PublishedInv
    <3>7. QED BY <3>1, <3>2, <3>3, <3>4, <3>5, <3>6 DEF PublishedInv
  <2>7. HomeInv'
    BY <1>0, <1>15 DEF Exit, Release, HomeInv, Elems
  <2>8. QED BY <2>1, <2>6, <2>7
<1>16. ASSUME NEW t \in Threads, SpuriousWakeup(t)
      PROVE  OwnerInv' /\ PublishedInv' /\ HomeInv'
  <2>1. OwnerInv'
    BY <1>0, <1>16, OwnerFrame DEF SpuriousWakeup
  <2>2. PublishedInv'
    BY <1>0, <1>16 DEF SpuriousWakeup, PublishedInv
  <2>3. HomeInv'
    BY <1>0, <1>16 DEF SpuriousWakeup, HomeInv
  <2>4. QED BY <2>1, <2>2, <2>3
<1>17. CASE Shutdown
  <2>1. OwnerInv'
    BY <1>0, <1>17, OwnerFrame DEF Shutdown, Release
  <2>2. \A t \in Threads : running[t] = <<>> /\ holds[t] = {}
    BY <1>0, <1>17 DEF Shutdown, HomeInv
  <2>3. \A t \in Threads, g \in Guards : owner[g] # t
    BY <1>0, <1>17, <2>2 DEF Shutdown, OwnerInv, PendOf, Elems
  <2>4. PublishedInv'
    BY <1>0, <1>17, <2>2, <2>3 DEF Shutdown, Release, PublishedInv
  <2>5. HomeInv'
    BY <1>0, <1>17 DEF Shutdown, Release, HomeInv, Elems
  <2>6. QED BY <2>1, <2>4, <2>5
<1>18. CASE UNCHANGED vars
  <2>1. OwnerInv'
    BY <1>0, <1>18, OwnerFrame DEF vars
  <2>2. PublishedInv'
    BY <1>0, <1>18 DEF vars, PublishedInv
  <2>3. HomeInv'
    BY <1>0, <1>18 DEF vars, HomeInv
  <2>4. QED BY <2>1, <2>2, <2>3
<1>19. QED
  BY <1>1, <1>2, <1>3, <1>4, <1>5, <1>6, <1>7, <1>8, <1>9, <1>10, <1>11,
     <1>12, <1>13, <1>14, <1>15, <1>16, <1>17, <1>18 DEF Next, Step

LEMMA OnceInvariant == Spec => []OnceInv
<1>1. Init => OnceInv
  <2> SUFFICES ASSUME Init PROVE OnceInv
    OBVIOUS
  <2>1. TypeInv
    BY StaticAssumption DEF Init, TypeInv, TypeOK, Busy, PC
  <2>2. OwnerInv
    BY StaticAssumption DEF Init, OwnerInv, PendOf, Distinct, Elems
  <2>3. PublishedInv
    BY StaticAssumption DEF Init, PublishedInv
  <2>4. HomeInv
    BY DEF Init, HomeInv, Elems
  <2>5. QED BY <2>1, <2>2, <2>3, <2>4 DEF OnceInv
<1>2. QED BY <1>1, OnceStep, PTL DEF Spec

\* Storage a thread was given is reserved and completely initialized, for any
\* number of threads racing on the unlocked test of `ready`.
THEOREM VisibleStorageIsWhole == Spec => []VisibleIsWhole
<1>1. OnceInv => VisibleIsWhole
  BY DEF OnceInv, TypeInv, TypeOK, PublishedInv, VisibleIsWhole
<1>2. QED BY <1>1, OnceInvariant, PTL

-----------------------------------------------------------------------------
(* The release chains.                                                     *)

\* A guard has storage iff the chain of its home holds it, once.
ChainInv ==
  /\ \A h \in Threads \cup {None} : Distinct(values[h])
  /\ \A g \in Guards : payload[g] <=> g \in Elems(values[Home[g]])

\* Storage is linked where it is reserved for the first time.
LEMMA ReserveChains ==
  ASSUME OnceInv, ChainInv, NEW t \in Threads, Reserve(t)
  PROVE  ChainInv'
<1> USE StaticAssumption DEF OnceInv, TypeInv, TypeOK, Busy, ChainInv
<1>1. Top(t) \in Guards /\ Home[Top(t)] \in Threads \cup {None}
  BY TopFacts DEF Reserve
<1>2. payload' = [payload EXCEPT ![Top(t)] = TRUE]
  BY DEF Reserve
<1>3. CASE payload[Top(t)]
  <2>1. values' = values /\ payload' = payload
    BY <1>1, <1>2, <1>3 DEF Reserve
  <2>2. QED BY <2>1
<1>4. CASE ~payload[Top(t)]
  <2> DEFINE h == Home[Top(t)]
             s == values[h]
  <2>1. values' = [values EXCEPT ![h] = <<Top(t)>> \o s]
    BY <1>4 DEF Reserve
  <2>2. s \in Seq(Guards) /\ Distinct(s) /\ Top(t) \notin Elems(s)
    BY <1>1, <1>4
  <2>3. /\ Elems(<<Top(t)>> \o s) = {Top(t)} \cup Elems(s)
        /\ Distinct(<<Top(t)>> \o s)
    BY <1>1, <2>2, PushFacts
  <2>4. /\ values'[h] = <<Top(t)>> \o s
        /\ \A k \in Threads \cup {None} : k # h => values'[k] = values[k]
    BY <1>1, <2>1
  <2>5. \A k \in Threads \cup {None} : Distinct(values'[k])
    BY <2>3, <2>4
  <2>6. ASSUME NEW g \in Guards PROVE payload'[g] <=> g \in Elems(values'[Home[g]])
    <3>1. CASE g = Top(t)
      BY <1>1, <1>2, <2>3, <2>4, <3>1
    <3>2. CASE g # Top(t)
      BY <1>1, <1>2, <2>3, <2>4, <3>2
    <3>3. QED BY <3>1, <3>2
  <2>7. QED BY <2>5, <2>6
<1>5. QED BY <1>3, <1>4

\* A released chain takes the storage of all its guards with it.
LEMMA ReleaseChains ==
  ASSUME OnceInv, ChainInv, NEW h \in Threads \cup {None}, Release(h)
  PROVE  ChainInv'
<1> USE StaticAssumption DEF OnceInv, TypeInv, TypeOK, ChainInv
<1>1. \A g \in Guards : InSeq(g, values[h]) <=> g \in Elems(values[h])
  BY DEF InSeq, Elems
<1>2. \A g \in Guards : payload'[g] <=> payload[g] /\ g \notin Elems(values[h])
  BY <1>1 DEF Release
<1>3. /\ values'[h] = <<>>
      /\ \A k \in Threads \cup {None} : k # h => values'[k] = values[k]
  BY DEF Release
<1>4. Distinct(<<>>) /\ Elems(<<>>) = {}
  BY DEF Distinct, Elems
<1>5. \A k \in Threads \cup {None} : Distinct(values'[k])
  BY <1>3, <1>4
<1>6. ASSUME NEW g \in Guards PROVE payload'[g] <=> g \in Elems(values'[Home[g]])
  <2>1. g \in Elems(values[h]) => Home[g] = h
    BY DEF HomeInv
  <2>2. QED BY <1>2, <1>3, <1>4, <2>1
<1>7. QED BY <1>5, <1>6

LEMMA ChainStep == OnceInv /\ ChainInv /\ [Next]_vars => ChainInv'
<1> SUFFICES ASSUME OnceInv, ChainInv, [Next]_vars
             PROVE  ChainInv'
  OBVIOUS
<1>1. ASSUME UNCHANGED <<payload, values>>
      PROVE  ChainInv'
  BY <1>1 DEF ChainInv
<1>2. ASSUME NEW t \in Threads, SpuriousWakeup(t) \/ Step(t), ~Reserve(t), ~Exit(t)
      PROVE  UNCHANGED <<payload, values>>
  BY <1>2 DEF Step, SpuriousWakeup, AcquireFast, AcquireSlow, ReturnZero, Wait, Refuse, Own,
              TakeOwnership, ReserveFails, Copy, Commit, Leave, Fail, Unwind, Catch, guardVars
<1>3. ASSUME NEW t \in Threads, Reserve(t)
      PROVE  ChainInv'
  BY <1>3, ReserveChains
<1>4. ASSUME NEW t \in Threads, Exit(t)
      PROVE  ChainInv'
  BY <1>4, ReleaseChains DEF Exit
<1>5. CASE Shutdown
  BY <1>5, ReleaseChains DEF Shutdown
<1>6. CASE UNCHANGED vars
  BY <1>1, <1>6 DEF vars, guardVars
<1>7. QED BY <1>1, <1>2, <1>3, <1>4, <1>5, <1>6 DEF Next

\* Storage that is reserved is linked exactly once, on the chain of the thread
\* or process it belongs to, after any failed attempts and thread exits.
THEOREM ReservationsAreSingle == Spec => []ReservedOnce
<1>1. Init => ChainInv
  BY StaticAssumption DEF Init, ChainInv, Distinct, Elems
<1>2. OnceInv /\ ChainInv => ReservedOnce
  <2> SUFFICES ASSUME OnceInv, ChainInv, NEW g \in Guards
               PROVE  {p \in UNION {{h} \X DOMAIN values[h] : h \in DOMAIN values} :
                         values[p[1]][p[2]] = g}
                      = IF payload[g] THEN {<<Home[g], CHOOSE i \in DOMAIN values[Home[g]] :
                                                         values[Home[g]][i] = g>>}
                        ELSE {}
    BY DEF ReservedOnce
  <2> DEFINE at == {p \in UNION {{h} \X DOMAIN values[h] : h \in DOMAIN values} :
                      values[p[1]][p[2]] = g}
             s == values[Home[g]]
  <2>1. /\ Home[g] \in Threads \cup {None} /\ DOMAIN values = Threads \cup {None}
        /\ \A h \in Threads \cup {None} : DOMAIN values[h] = 1..Len(values[h])
    BY StaticAssumption DEF OnceInv, TypeInv, TypeOK
  <2>2. ASSUME NEW p \in at
        PROVE  p = <<Home[g], p[2]>> /\ p[2] \in 1..Len(s) /\ s[p[2]] = g
    <3>1. PICK h \in DOMAIN values : p \in {h} \X DOMAIN values[h]
      OBVIOUS
    <3>2. p = <<h, p[2]>> /\ p[2] \in 1..Len(values[h]) /\ values[h][p[2]] = g
      BY <2>1, <3>1
    <3>3. Home[g] = h
      BY <2>1, <3>2 DEF OnceInv, HomeInv, Elems
    <3>4. QED BY <3>2, <3>3
  <2>3. ASSUME NEW i \in 1..Len(s), s[i] = g
        PROVE  <<Home[g], i>> \in at
    <3>1. <<Home[g], i>> \in {Home[g]} \X DOMAIN values[Home[g]]
      BY <2>1
    <3>2. QED BY <2>1, <2>3, <3>1
  <2>4. payload[g] <=> \E i \in 1..Len(s) : s[i] = g
    BY DEF ChainInv, Elems
  <2>5. \A i, j \in 1..Len(s) : s[i] = g /\ s[j] = g => i = j
    BY <2>1 DEF ChainInv, Distinct
  <2> HIDE DEF at
  <2>6. CASE ~payload[g]
    <3>1. at = {}
      BY <2>2, <2>4, <2>6
    <3>2. QED BY <2>6, <3>1 DEF at
  <2>7. CASE payload[g]
    <3> DEFINE i == CHOOSE i \in DOMAIN s : s[i] = g
    <3>1. DOMAIN s = 1..Len(s)
      BY <2>1
    <3>2. i \in 1..Len(s) /\ s[i] = g
      BY <2>4, <2>7, <3>1
    <3> HIDE DEF i
    <3>3. at = {<<Home[g], i>>}
      BY <2>2, <2>3, <2>5, <3>2
    <3>4. QED BY <2>7, <3>3 DEF at, i
  <2>8. QED BY <2>6, <2>7
<1>3. QED BY <1>1, <1>2, ChainStep, OnceInvariant, PTL DEF Spec

-----------------------------------------------------------------------------
(* The guards implement StaticOnce.                                        *)

\* The refinement's `initializing`, and what it is in every reachable state.
InitializingBar == [g \in Guards |-> {t \in Threads : g \in Uncommitted(t)}]

OwnersOf(own) == [g \in Guards |-> {t \in Threads : own[g] = t}]

LEMMA UncommittedFacts ==
  ASSUME NEW S, NEW s \in Seq(S), NEW p, p = "committed" => s # <<>>
  PROVE  {s[i] : i \in (IF p = "committed" THEN 2 ELSE 1)..Len(s)} = PendOf(p, s)
<1>1. CASE p = "committed"
  BY <1>1, PopFacts DEF PendOf
<1>2. CASE p # "committed"
  BY <1>2 DEF PendOf, Elems
<1>3. QED BY <1>1, <1>2

LEMMA BarFacts == OnceInv => InitializingBar = OwnersOf(owner)
<1> SUFFICES ASSUME OnceInv PROVE InitializingBar = OwnersOf(owner)
  OBVIOUS
<1>1. \A t \in Threads : Uncommitted(t) = PendOf(pc[t], running[t])
  BY UncommittedFacts DEF OnceInv, TypeInv, TypeOK, Busy, Uncommitted
<1>2. QED BY <1>1 DEF OnceInv, OwnerInv, InitializingBar, OwnersOf

LEMMA BarFactsPrime == OnceInv' => InitializingBar' = OwnersOf(owner')
<1>1. OnceInv' => (InitializingBar = OwnersOf(owner))'
  BY BarFacts, PTL
<1>2. QED BY <1>1 DEF OwnersOf

LEMMA OwnersTake ==
  ASSUME NEW o \in [Guards -> Threads \cup {None}], NEW t \in Threads,
         NEW g \in Guards, NEW q, q = [o EXCEPT ![g] = t]
  PROVE  OwnersOf(q) = [OwnersOf(o) EXCEPT ![g] = {t}]
BY DEF OwnersOf

LEMMA OwnersDrop ==
  ASSUME NEW o \in [Guards -> Threads \cup {None}],
         NEW g \in Guards, NEW q, q = [o EXCEPT ![g] = None]
  PROVE  OwnersOf(q) = [OwnersOf(o) EXCEPT ![g] = {}]
BY StaticAssumption DEF OwnersOf

\* Every step of the guards is a step of StaticOnce or leaves its state alone.
LEMMA OnceSimulation ==
  OnceInv /\ OnceInv' /\ [Next]_vars => [Once!Next]_(Once!vars)
<1> SUFFICES ASSUME OnceInv, OnceInv', [Next]_vars
             PROVE  [Once!Next]_(Once!vars)
  OBVIOUS
<1> DEFINE pub == {g \in Guards : ready[g]}
<1>0. /\ TypeInv /\ TypeInv' /\ OwnerInv /\ PublishedInv /\ HomeInv
      /\ InitializingBar = OwnersOf(owner) /\ InitializingBar' = OwnersOf(owner')
  BY BarFacts, BarFactsPrime DEF OnceInv
<1>s. ASSUME owner' = owner, ready' = ready, holds' = holds
      PROVE  [Once!Next]_(Once!vars)
  BY <1>0, <1>s DEF Once!vars, InitializingBar
<1>o. ASSUME NEW t \in Threads, NEW g \in Guards, ready[g],
             owner' = owner, ready' = ready,
             holds' = [holds EXCEPT ![t] = @ \cup {g}]
      PROVE  Once!Next
  <2>1. Once!Observe(t, g)
    BY <1>0, <1>o DEF Once!Observe, InitializingBar
  <2>2. QED BY <2>1 DEF Once!Next
<1>d. ASSUME NEW t \in Threads, running[t] # <<>>, pc[t] # "committed",
             owner' = [owner EXCEPT ![Top(t)] = None],
             ready' = ready, holds' = holds
      PROVE  Once!Next
  <2>1. Top(t) \in Guards /\ owner[Top(t)] = t
    BY <1>0, <1>d, TopFacts DEF OwnerInv, PendOf
  <2>2. OwnersOf(owner') = [OwnersOf(owner) EXCEPT ![Top(t)] = {}]
    BY <1>0, <1>d, <2>1, OwnersDrop DEF TypeInv, TypeOK
  <2>3. OwnersOf(owner)[Top(t)] = {t}
    BY <2>1 DEF OwnersOf
  <2>4. Once!Abandon(t, Top(t))
    BY <1>0, <1>d, <2>2, <2>3 DEF Once!Abandon, InitializingBar
  <2>5. QED BY <2>1, <2>4 DEF Once!Next
<1>r. ASSUME NEW t \in Threads, NEW h, owner' = owner,
             ready' = [g \in Guards |-> ready[g] /\ ~InSeq(g, values[h])],
             holds' = [holds EXCEPT ![t] = {}],
             \A g \in Guards : InSeq(g, values[h]) =>
               /\ \A u \in Threads : owner[g] # u
               /\ \A u \in Threads \ {t} : g \notin holds[u]
      PROVE  Once!Next
  <2>0. PICK gone \in SUBSET Guards : gone = {g \in Guards : InSeq(g, values[h])}
    OBVIOUS
  <2>1. {g \in Guards : ready'[g]} = pub \ gone
    BY <1>r, <2>0
  <2>2. \A g \in gone : OwnersOf(owner)[g] = {}
    BY <1>r, <2>0 DEF OwnersOf
  <2>3. \A g \in gone : \A u \in Threads \ {t} : g \notin holds[u]
    BY <1>r, <2>0
  <2>4. Once!Retire(t, gone)
    BY <1>0, <1>r, <2>1, <2>2, <2>3 DEF Once!Retire, InitializingBar
  <2>5. QED BY <2>4 DEF Once!Next
<1> USE DEF guardVars, waitVars
<1>1. ASSUME NEW t \in Threads, NEW g \in Guards, AcquireFast(t, g)
      PROVE  [Once!Next]_(Once!vars)
  BY <1>1, <1>o DEF AcquireFast
<1>2. ASSUME NEW t \in Threads, NEW g \in Guards, AcquireSlow(t, g)
      PROVE  [Once!Next]_(Once!vars)
  BY <1>2, <1>s DEF AcquireSlow
<1>3. ASSUME NEW t \in Threads, ReturnZero(t)
      PROVE  [Once!Next]_(Once!vars)
  <2>1. want[t] \in Guards
    BY <1>0, <1>3 DEF ReturnZero, HasLock, TypeInv, Busy
  <2>2. QED BY <1>3, <1>o, <2>1 DEF ReturnZero
<1>4. ASSUME NEW t \in Threads, Wait(t)
      PROVE  [Once!Next]_(Once!vars)
  BY <1>4, <1>s DEF Wait
<1>5. ASSUME NEW t \in Threads, Refuse(t)
      PROVE  [Once!Next]_(Once!vars)
  BY <1>5, <1>s DEF Refuse
<1>6. ASSUME NEW t \in Threads, Own(t)
      PROVE  [Once!Next]_(Once!vars)
  <2>1. want[t] \in Guards /\ owner[want[t]] = None /\ ~ready[want[t]]
    BY <1>0, <1>6 DEF Own, TakeOwnership, HasLock, TypeInv, Busy
  <2>2. OwnersOf(owner') = [OwnersOf(owner) EXCEPT ![want[t]] = {t}]
    <3>1. owner \in [Guards -> Threads \cup {None}]
      BY <1>0 DEF TypeInv, TypeOK
    <3>2. owner' = [owner EXCEPT ![want[t]] = t]
      BY <1>6 DEF Own, TakeOwnership
    <3>3. QED BY <2>1, <3>1, <3>2, OwnersTake
  <2>3. OwnersOf(owner)[want[t]] = {}
    BY <2>1, StaticAssumption DEF OwnersOf
  <2>4. Once!Begin(t, want[t])
    BY <1>0, <1>6, <2>1, <2>2, <2>3
       DEF Own, TakeOwnership, Once!Begin, InitializingBar
  <2>5. QED BY <2>1, <2>4 DEF Once!Next
<1>7. ASSUME NEW t \in Threads, Reserve(t)
      PROVE  [Once!Next]_(Once!vars)
  BY <1>7, <1>s DEF Reserve
<1>8. ASSUME NEW t \in Threads, ReserveFails(t)
      PROVE  [Once!Next]_(Once!vars)
  BY <1>0, <1>8, <1>d DEF ReserveFails, Disown, TypeInv, Busy
<1>9. ASSUME NEW t \in Threads, Copy(t)
      PROVE  [Once!Next]_(Once!vars)
  BY <1>9, <1>s DEF Copy
<1>10. ASSUME NEW t \in Threads, Commit(t)
      PROVE  [Once!Next]_(Once!vars)
  <2>1. PICK g \in Guards : g = Top(t) /\ owner[g] = t
    BY <1>0, <1>10, TopFacts DEF Commit, OwnerInv, PendOf, TypeInv, Busy
  <2>2. OwnersOf(owner') = [OwnersOf(owner) EXCEPT ![g] = {}]
    BY <1>0, <1>10, <2>1, OwnersDrop DEF Commit, Disown, TypeInv, TypeOK
  <2>3. OwnersOf(owner)[g] = {t}
    BY <2>1 DEF OwnersOf
  <2>4. {x \in Guards : ready'[x]} = pub \cup {g}
    BY <1>0, <1>10, <2>1 DEF Commit, TypeInv, TypeOK
  <2>5. Once!Publish(t, g)
    BY <1>0, <1>10, <2>2, <2>3, <2>4 DEF Commit, Once!Publish, InitializingBar
  <2>6. Once!Next
    BY <2>5 DEF Once!Next
  <2>7. QED BY <2>6
<1>11. ASSUME NEW t \in Threads, Leave(t)
      PROVE  [Once!Next]_(Once!vars)
  <2>1. ready[Top(t)] /\ Top(t) \in Guards
    BY <1>0, <1>11, TopFacts DEF Leave, PublishedInv, TypeInv, Busy
  <2>2. QED BY <1>11, <1>o, <2>1 DEF Leave, Abort
<1>12. ASSUME NEW t \in Threads, Fail(t)
      PROVE  [Once!Next]_(Once!vars)
  BY <1>12, <1>s DEF Fail
<1>13. ASSUME NEW t \in Threads, Unwind(t)
      PROVE  [Once!Next]_(Once!vars)
  <2>1. CASE ready[Top(t)]
    BY <1>13, <2>1, <1>s DEF Unwind, Abort
  <2>2. CASE ~ready[Top(t)]
    BY <1>13, <2>2, <1>d DEF Unwind, Abort, Disown
  <2>3. QED BY <2>1, <2>2
<1>14. ASSUME NEW t \in Threads, Catch(t)
      PROVE  [Once!Next]_(Once!vars)
  BY <1>14, <1>s DEF Catch
<1>15. ASSUME NEW t \in Threads, Exit(t)
      PROVE  [Once!Next]_(Once!vars)
  <2>1. \A g \in Guards : InSeq(g, values[t]) => Home[g] = t
    BY <1>0, StaticAssumption DEF HomeInv, InSeq, Elems, TypeInv, TypeOK
  <2>2. \A u \in Threads : \A g \in Guards : owner[g] = u => Home[g] \in {None, u}
    <3> SUFFICES ASSUME NEW u \in Threads, NEW g \in Guards, owner[g] = u
                 PROVE  Home[g] \in {None, u}
      OBVIOUS
    <3>1. g \in PendOf(pc[u], running[u])
      BY <1>0 DEF OwnerInv
    <3>2. CASE pc[u] = "committed"
      <4>1. running[u] # <<>>
        BY <1>0, <3>2 DEF TypeInv, Busy
      <4>2. g \in Elems(running[u])
        BY <1>0, <3>1, <3>2, <4>1, TopFacts DEF PendOf
      <4>3. QED BY <1>0, <4>2 DEF HomeInv
    <3>3. CASE pc[u] # "committed"
      BY <1>0, <3>1, <3>3 DEF HomeInv, PendOf
    <3>4. QED BY <3>2, <3>3
  <2>3. \A g \in Guards : owner[g] # t
    BY <1>0, <1>15 DEF Exit, OwnerInv, PendOf, Elems
  <2>4. \A g \in Guards : InSeq(g, values[t]) =>
               /\ \A u \in Threads : owner[g] # u
               /\ \A u \in Threads \ {t} : g \notin holds[u]
    BY <1>0, <2>1, <2>2, <2>3, StaticAssumption DEF HomeInv
  <2>5. QED BY <1>15, <1>r, <2>4 DEF Exit, Release
<1>16. ASSUME NEW t \in Threads, SpuriousWakeup(t)
      PROVE  [Once!Next]_(Once!vars)
  BY <1>16, <1>s DEF SpuriousWakeup
<1>17. CASE Shutdown
  <2>1. PICK t \in Threads : TRUE
    BY StaticAssumption
  <2>2. \A u \in Threads : running[u] = <<>> /\ holds[u] = {} /\ pc[u] = "exit"
    BY <1>0, <1>17 DEF Shutdown, HomeInv
  <2>3. \A u \in Threads, g \in Guards : owner[g] # u
    BY <1>0, <2>2 DEF OwnerInv, PendOf, Elems
  <2>4. holds' = [holds EXCEPT ![t] = {}]
    BY <1>0, <1>17, <2>2 DEF Shutdown, TypeInv, TypeOK
  <2>5. /\ owner' = owner
        /\ ready' = [g \in Guards |-> ready[g] /\ ~InSeq(g, values[None])]
    BY <1>17 DEF Shutdown, Release
  <2>6. \A g \in Guards : InSeq(g, values[None]) =>
               /\ \A u \in Threads : owner[g] # u
               /\ \A u \in Threads \ {t} : g \notin holds[u]
    BY <2>2, <2>3
  <2>7. QED BY <1>r, <2>4, <2>5, <2>6
<1>18. CASE UNCHANGED vars
  BY <1>18, <1>s DEF vars
<1>19. QED
  BY <1>1, <1>2, <1>3, <1>4, <1>5, <1>6, <1>7, <1>8, <1>9, <1>10, <1>11,
     <1>12, <1>13, <1>14, <1>15, <1>16, <1>17, <1>18 DEF Next, Step

\* Whatever the number of threads and guards, and whichever attempts fail: a
\* guard has at most one initializer at a time, its storage is visible only
\* after one has committed, and nobody still sees it when it is released.
THEOREM StaticInitImplementsOnce == Spec => ImplementsOnce
<1>1. Init => Once!Init
  <2> SUFFICES ASSUME Init PROVE Once!Init
    OBVIOUS
  <2>1. \A t \in Threads : Uncommitted(t) = {}
    BY DEF Init, Uncommitted
  <2>2. QED BY <2>1 DEF Init, Once!Init
<1>2. QED
  BY <1>1, OnceInvariant, OnceSimulation, PTL DEF Spec, ImplementsOnce, Once!Spec
=============================================================================
