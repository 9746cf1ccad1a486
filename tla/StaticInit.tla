----------------------------- MODULE StaticInit -----------------------------
(***************************************************************************)
(* First-use initialization of dynamic local statics: lib/static-init.x.   *)
(*                                                                         *)
(* Threads call x2c_static_acquire on guards, nested as deep as user       *)
(* initializers call each other.  One mutex protects every guard and one   *)
(* condition variable serves every waiter; each locked section of the code *)
(* is one action here, and the unlocked steps between two sections         *)
(* (evaluating the initializer, copying the value, leaving the cleanup     *)
(* record) are actions of their own.                                       *)
(***************************************************************************)
EXTENDS Integers, Sequences, FiniteSets

CONSTANTS
  Threads,
  Guards,
  None,      \* the NULL of the source: no owner, no guard, the process itself
  Home,      \* Home[g]: the thread of a `static threaded` guard, or None
  MaxCalls   \* bound: slow calls of x2c_static_acquire per thread

ASSUME StaticAssumption ==
  /\ Threads # {}
  /\ None \notin Threads \cup Guards
  /\ Home \in [Guards -> Threads \cup {None}]
  /\ MaxCalls \in Nat

VARIABLES
  ready,     \* ready[g]: the guard is published
  owner,     \* owner[g]: the thread initializing g, or None
  payload,   \* payload[g]: storage is reserved
  bytes,     \* bytes[g]: what the storage holds
  values,    \* values[h]: the shutdown chain of a thread, or of the process
  waiting,   \* waiting[t]: the guard t waits for, the wait edge of StaticThread
  asleep,    \* the threads blocked in pthread_cond_wait(&static_changed)
  pc,        \* pc[t]: where t is
  want,      \* want[t]: the guard argument of t's acquire call
  running,   \* running[t]: the initializers t is inside of, innermost first
  holds,     \* holds[t]: the guards whose published storage t was given
  calls      \* calls[t]: slow calls made so far, for the bound

guardVars == <<ready, owner, payload, bytes, values>>
waitVars == <<waiting, asleep>>
vars == <<guardVars, waitVars, pc, want, running, holds, calls>>

PC == {"run", "lock", "reserve", "copied", "committed", "unwind", "exit"}

TypeOK ==
  /\ ready \in [Guards -> BOOLEAN]
  /\ owner \in [Guards -> Threads \cup {None}]
  /\ payload \in [Guards -> BOOLEAN]
  /\ bytes \in [Guards -> {"none", "zero", "whole"}]
  /\ values \in [Threads \cup {None} -> Seq(Guards)]
  /\ waiting \in [Threads -> Guards \cup {None}]
  /\ asleep \subseteq Threads
  /\ pc \in [Threads -> PC]
  /\ want \in [Threads -> Guards \cup {None}]
  /\ running \in [Threads -> Seq(Guards)]
  /\ holds \in [Threads -> SUBSET Guards]
  /\ calls \in [Threads -> 0..MaxCalls]

Init ==
  /\ ready = [g \in Guards |-> FALSE]
  /\ owner = [g \in Guards |-> None]
  /\ payload = [g \in Guards |-> FALSE]
  /\ bytes = [g \in Guards |-> "none"]
  /\ values = [h \in Threads \cup {None} |-> <<>>]
  /\ waiting = [t \in Threads |-> None]
  /\ asleep = {}
  /\ pc = [t \in Threads |-> "run"]
  /\ want = [t \in Threads |-> None]
  /\ running = [t \in Threads |-> <<>>]
  /\ holds = [t \in Threads |-> {}]
  /\ calls = [t \in Threads |-> 0]

-----------------------------------------------------------------------------
(* The wait edges.                                                         *)

\* The thread the chain walk of _cycle visits after u.
Blocker(u) == IF waiting[u] = None THEN None ELSE owner[waiting[u]]

Closed(S) == \A u \in S : Blocker(u) # None => Blocker(u) \in S

\* Mutant of Cycle: only direct recursion is looked for.
CycleDirectOnly(g, self) == owner[g] = self

\* _cycle: the walk from g's owner along the wait edges meets self, that is,
\* self is in every set that holds the owner and is closed under the edges.
Cycle(g, self) ==
  \A S \in SUBSET Threads : (owner[g] \in S /\ Closed(S)) => self \in S

-----------------------------------------------------------------------------
(* x2c_static_acquire                                                      *)

\* Mutant of AcquireFast: tests the reserved storage instead of `ready`.
AcquireFastOnPayload(t, g) ==
  /\ pc[t] = "run"
  /\ Home[g] \in {None, t}
  /\ payload[g]
  /\ holds' = [holds EXCEPT ![t] = @ \cup {g}]
  /\ UNCHANGED <<guardVars, waitVars, pc, want, running, calls>>

\* The unlocked test of `ready` succeeds.
AcquireFast(t, g) ==
  /\ pc[t] = "run"
  /\ Home[g] \in {None, t}
  /\ ready[g]
  /\ holds' = [holds EXCEPT ![t] = @ \cup {g}]
  /\ UNCHANGED <<guardVars, waitVars, pc, want, running, calls>>

\* The unlocked test fails: the call goes on to the lock.
AcquireSlow(t, g) ==
  /\ pc[t] = "run"
  /\ Home[g] \in {None, t}
  /\ ~ready[g]
  /\ calls[t] < MaxCalls
  /\ calls' = [calls EXCEPT ![t] = @ + 1]
  /\ pc' = [pc EXCEPT ![t] = "lock"]
  /\ want' = [want EXCEPT ![t] = g]
  /\ UNCHANGED <<guardVars, waitVars, running, holds>>

\* t has the mutex, on entry or on return from pthread_cond_wait.
HasLock(t) == pc[t] = "lock" /\ t \notin asleep

\* Another invocation committed while t was on its way.
ReturnZero(t) ==
  /\ HasLock(t)
  /\ ready[want[t]]
  /\ waiting' = [waiting EXCEPT ![t] = None]
  /\ holds' = [holds EXCEPT ![t] = @ \cup {want[t]}]
  /\ pc' = [pc EXCEPT ![t] = "run"]
  /\ want' = [want EXCEPT ![t] = None]
  /\ UNCHANGED <<guardVars, asleep, running, calls>>

\* Somebody else initializes the guard and no cycle would form: wait.  The
\* test does not depend on t's own edge, which the code has just cleared.
Wait(t) ==
  /\ HasLock(t)
  /\ ~ready[want[t]]
  /\ owner[want[t]] # None
  /\ ~Cycle(want[t], t)
  /\ waiting' = [waiting EXCEPT ![t] = want[t]]
  /\ asleep' = asleep \cup {t}
  /\ UNCHANGED <<guardVars, pc, want, running, holds, calls>>

\* Waiting would never end: the call raises <bad-state>.
Refuse(t) ==
  /\ HasLock(t)
  /\ ~ready[want[t]]
  /\ owner[want[t]] # None
  /\ Cycle(want[t], t)
  /\ waiting' = [waiting EXCEPT ![t] = None]
  /\ pc' = [pc EXCEPT ![t] = "unwind"]
  /\ want' = [want EXCEPT ![t] = None]
  /\ UNCHANGED <<guardVars, asleep, running, holds, calls>>

\* t becomes the owner, leaving its wait edge as `edge`.
TakeOwnership(t, edge) ==
  /\ owner[want[t]] = None
  /\ owner' = [owner EXCEPT ![want[t]] = t]
  /\ waiting' = [waiting EXCEPT ![t] = edge]
  /\ running' = [running EXCEPT ![t] = <<want[t]>> \o @]
  /\ pc' = [pc EXCEPT ![t] = "reserve"]
  /\ want' = [want EXCEPT ![t] = None]
  /\ UNCHANGED <<ready, payload, bytes, values, asleep, holds, calls>>

\* Mutants of Own: the wait edge survives the wait; a guard published in the
\* meantime is not noticed.
OwnKeepsEdge(t) ==
  HasLock(t) /\ ~ready[want[t]] /\ TakeOwnership(t, waiting[t])

OwnIgnoresReady(t) ==
  HasLock(t) /\ TakeOwnership(t, None)

\* The guard is free: t owns it and leaves the lock to prepare the storage.
Own(t) ==
  HasLock(t) /\ ~ready[want[t]] /\ TakeOwnership(t, None)

\* The innermost initializer of t.
Top(t) == Head(running[t])

\* Mutant of Reserve: a retried guard is linked again.
ReserveLinksAgain(t) ==
  /\ pc[t] = "reserve"
  /\ payload' = [payload EXCEPT ![Top(t)] = TRUE]
  /\ values' = [values EXCEPT ![Home[Top(t)]] = <<Top(t)>> \o @]
  /\ bytes' = [bytes EXCEPT ![Top(t)] = "zero"]
  /\ pc' = [pc EXCEPT ![t] = "run"]
  /\ UNCHANGED <<ready, owner, waitVars, want, running, holds, calls>>

\* Storage is reserved once, on the chain that releases it, and zeroed for
\* every attempt; acquire returns one and the caller pushes its cleanup record.
Reserve(t) ==
  /\ pc[t] = "reserve"
  /\ payload' = [payload EXCEPT ![Top(t)] = TRUE]
  /\ values' = IF payload[Top(t)] THEN values
               ELSE [values EXCEPT ![Home[Top(t)]] = <<Top(t)>> \o @]
  /\ bytes' = [bytes EXCEPT ![Top(t)] = "zero"]
  /\ pc' = [pc EXCEPT ![t] = "run"]
  /\ UNCHANGED <<ready, owner, waitVars, want, running, holds, calls>>

-----------------------------------------------------------------------------
(* x2c_static_commit, x2c_static_abort and the emitted code around them.   *)

\* Mutant of Disown: no wakeup.
DisownSilently(g) ==
  /\ owner' = [owner EXCEPT ![g] = None]
  /\ UNCHANGED asleep

\* Gives up ownership of g and broadcasts static_changed.
Disown(g) ==
  /\ owner' = [owner EXCEPT ![g] = None]
  /\ asleep' = {}

\* posix_memalign fails: the guard is aborted and <alloc-fail> raised.
ReserveFails(t) ==
  /\ pc[t] = "reserve"
  /\ ~payload[Top(t)]
  /\ Disown(Top(t))
  /\ running' = [running EXCEPT ![t] = Tail(@)]
  /\ pc' = [pc EXCEPT ![t] = "unwind"]
  /\ UNCHANGED <<ready, payload, bytes, values, waiting, want, holds, calls>>

\* The initializer expression ends and its value is copied into the storage.
Copy(t) ==
  /\ pc[t] = "run"
  /\ running[t] # <<>>
  /\ bytes' = [bytes EXCEPT ![Top(t)] = "whole"]
  /\ pc' = [pc EXCEPT ![t] = "copied"]
  /\ UNCHANGED <<ready, owner, payload, values, waitVars, want, running,
                 holds, calls>>

Commit(t) ==
  /\ pc[t] = "copied"
  /\ Disown(Top(t))
  /\ ready' = [ready EXCEPT ![Top(t)] = TRUE]
  /\ pc' = [pc EXCEPT ![t] = "committed"]
  /\ UNCHANGED <<payload, bytes, values, waiting, want, running, holds, calls>>

\* x2c_static_abort as a cleanup callback: a published guard is left alone.
Abort(g) ==
  IF ready[g] THEN UNCHANGED <<owner, asleep>> ELSE Disown(g)

\* The cleanup record leaves after the commit and runs the abort callback.
Leave(t) ==
  /\ pc[t] = "committed"
  /\ Abort(Top(t))
  /\ running' = [running EXCEPT ![t] = Tail(@)]
  /\ holds' = [holds EXCEPT ![t] = @ \cup {Top(t)}]
  /\ pc' = [pc EXCEPT ![t] = "run"]
  /\ UNCHANGED <<ready, payload, bytes, values, waiting, want, calls>>

\* The initializer expression raises.
Fail(t) ==
  /\ pc[t] = "run"
  /\ running[t] # <<>>
  /\ pc' = [pc EXCEPT ![t] = "unwind"]
  /\ UNCHANGED <<guardVars, waitVars, want, running, holds, calls>>

\* The transfer drains the innermost cleanup record.
Unwind(t) ==
  /\ pc[t] = "unwind"
  /\ running[t] # <<>>
  /\ Abort(Top(t))
  /\ running' = [running EXCEPT ![t] = Tail(@)]
  /\ UNCHANGED <<ready, payload, bytes, values, waiting, pc, want, holds, calls>>

\* A handler at this depth takes the error: the code around it goes on.
Catch(t) ==
  /\ pc[t] = "unwind"
  /\ pc' = [pc EXCEPT ![t] = "run"]
  /\ UNCHANGED <<guardVars, waitVars, want, running, holds, calls>>

-----------------------------------------------------------------------------
(* The scheduler and the end.                                              *)

\* pthread_cond_wait may return without a broadcast.
SpuriousWakeup(t) ==
  /\ t \in asleep
  /\ asleep' = asleep \ {t}
  /\ UNCHANGED <<guardVars, waiting, pc, want, running, holds, calls>>

InSeq(g, s) == \E i \in DOMAIN s : s[i] = g

\* _release(values[h]): forget the storage of every guard of the chain.
Release(h) ==
  LET gone(g) == InSeq(g, values[h])
  IN  /\ payload' = [g \in Guards |-> payload[g] /\ ~gone(g)]
      /\ ready' = [g \in Guards |-> ready[g] /\ ~gone(g)]
      /\ bytes' = [g \in Guards |-> IF gone(g) THEN "none" ELSE bytes[g]]
      /\ values' = [values EXCEPT ![h] = <<>>]
      /\ UNCHANGED owner

\* x2c_static_thread_release, at the end of a thread's entry function.
Exit(t) ==
  /\ pc[t] = "run"
  /\ running[t] = <<>>
  /\ pc' = [pc EXCEPT ![t] = "exit"]
  /\ holds' = [holds EXCEPT ![t] = {}]
  /\ Release(t)
  /\ UNCHANGED <<waitVars, want, running, calls>>

\* x2c_static_shutdown; thread.x refuses it while a worker is live.
Shutdown ==
  /\ \A t \in Threads : pc[t] = "exit"
  /\ Release(None)
  /\ UNCHANGED <<waitVars, pc, want, running, holds, calls>>

\* What thread t does on its own.
Step(t) ==
  \/ \E g \in Guards : AcquireFast(t, g) \/ AcquireSlow(t, g)
  \/ ReturnZero(t) \/ Wait(t) \/ Refuse(t) \/ Own(t)
  \/ Reserve(t) \/ ReserveFails(t)
  \/ Copy(t) \/ Commit(t) \/ Leave(t)
  \/ Fail(t) \/ Unwind(t) \/ Catch(t)
  \/ Exit(t)

Next ==
  \/ \E t \in Threads : Step(t) \/ SpuriousWakeup(t)
  \/ Shutdown

Spec == Init /\ [][Next]_vars

\* Every thread keeps running and the mutex is always released again: each
\* thread takes the steps it can.  A user initializer does not raise and catch
\* for ever: it ends, with a value or with an error that leaves it.
FairSpec ==
  Spec /\ \A t \in Threads : /\ WF_vars(Step(t))
                             /\ SF_vars(Copy(t) \/ Unwind(t))

-----------------------------------------------------------------------------
(* Correctness.                                                            *)

\* Initializers that wait for each other, over any number of guards and
\* threads, are refused by _cycle before the last of them goes to sleep: no
\* set of threads is ever asleep with each waiting for a guard that another
\* member of the set owns.
NoDeadlock ==
  \A S \in SUBSET Threads :
    S # {} => \E t \in S : ~(t \in asleep /\ owner[want[t]] \in S)

\* One condition variable serves every guard.  A thread is asleep only while
\* some thread still owes it a broadcast: the guard it wants is unpublished
\* and has an owner, whatever commits, aborts and failed reservations of this
\* and of other guards happened since it went to sleep.
NoLostWakeup ==
  \A t \in asleep : owner[want[t]] # None /\ ~ready[want[t]]

\* The release chains hold each reserved guard exactly once and on the chain
\* of the thread or process it belongs to, although `payload` is tested and
\* set outside the lock and survives failed attempts.
ReservedOnce ==
  \A g \in Guards :
    {p \in UNION {{h} \X DOMAIN values[h] : h \in DOMAIN values} :
       values[p[1]][p[2]] = g}
      = IF payload[g] THEN {<<Home[g], CHOOSE i \in DOMAIN values[Home[g]] :
                                         values[Home[g]][i] = g>>}
        ELSE {}

\* Storage a caller was given, by acquire returning zero or by running the
\* initializer itself, is reserved and holds the complete value, also when the
\* caller never took the lock.
VisibleIsWhole ==
  \A t \in Threads : \A g \in holds[t] : payload[g] /\ bytes[g] = "whole"

\* A wait by t would never end: t is in a set of threads inside acquire each
\* of which wants a guard owned by a member of the set.
WouldDeadlock(t) ==
  \E S \in SUBSET Threads :
    /\ t \in S
    /\ \A u \in S : pc[u] = "lock" /\ owner[want[u]] \in S

\* <bad-state> is raised only for a recursion or a cycle that is really there,
\* although wait edges outlive the broadcast that ends the wait.
RefusalIsReal ==
  [][\A t \in Threads :
       (pc[t] = "lock" /\ pc'[t] = "unwind") => WouldDeadlock(t)]_vars

\* The initializers of t that have not committed.
Uncommitted(t) ==
  {running[t][i] : i \in (IF pc[t] = "committed" THEN 2 ELSE 1)..Len(running[t])}

Once == INSTANCE StaticOnce WITH
  initializing <- [g \in Guards |-> {t \in Threads : g \in Uncommitted(t)}],
  published <- {g \in Guards : ready[g]},
  visible <- holds

\* The guards implement StaticOnce: one initializer at a time, visible only
\* once published, withdrawn only when no other thread can see them.
ImplementsOnce == Once!Spec

\* Every call of x2c_static_acquire returns or raises, when initializers end.
AcquireReturns ==
  \A t \in Threads : pc[t] = "lock" ~> pc[t] # "lock"
=============================================================================
