------------------------------- MODULE Thread -------------------------------
(***************************************************************************)
(* Worker threads: lib/thread.x, with the registration lock of             *)
(* lib/dispatch.x that a start holds.                                      *)
(*                                                                         *)
(* An actor is the process thread Main or the worker of a handle; every    *)
(* actor may start, join and free workers and declare Var classes.  Each   *)
(* step of an actor reads or writes shared state once, as the code does    *)
(* with an atomic operation, a lock or a pthread call.                     *)
(***************************************************************************)
EXTENDS Integers, FiniteSets

CONSTANTS
  Handles,    \* the worker handles; h also names the worker thread itself
  Main,       \* the process thread
  None,
  HookFails   \* whether registering the shutdown hook may raise

ASSUME ThreadAssumption ==
  /\ Main \notin Handles
  /\ None \notin Handles \cup {Main}
  /\ HookFails \in BOOLEAN
  /\ IsFiniteSet(Handles)

Actors == Handles \cup {Main}

VARIABLES
  state,      \* state[h]: the state field of the handle
  policies,   \* the handles that hold a captured Error policy
  store,      \* store[h]: the result scope and pool of the handle
  ended,      \* ended[h]: how the callback ended, the result and errors fields
  got,        \* got[h]: what the join of h exported
  live,       \* thread_live_count
  once,       \* thread_shutdown_once; "stuck" after a raise out of its routine
  frozen,     \* descriptor_registration_frozen
  lock,       \* the holder of descriptor_mutex
  pc,         \* pc[a]: where the actor is; "none" before its native start
  arg,        \* arg[a]: the handle of a's start or join
  process     \* "up", "down" after a clean exit, "aborted" by _shutdown

handleVars == <<state, policies, store, ended, got>>
registryVars == <<once, frozen, lock>>
vars == <<handleVars, live, registryVars, pc, arg, process>>

StartPC == {"once", "count", "lock", "create", "created", "unlock", "undo"}
JoinPC == {"join", "wait", "export", "finish"}
PC == {"none", "boot", "user", "register", "seal", "ended"} \cup StartPC \cup JoinPC

TypeOK ==
  /\ state \in [Handles -> {"none", "running", "joining", "joined", "freed", "lost"}]
  /\ policies \subseteq Handles
  /\ store \in [Handles -> {"none", "open", "sealed", "released"}]
  /\ ended \in [Handles -> {"none", "value", "error"}]
  /\ got \in [Handles -> {"none", "value", "error", "lost"}]
  /\ live \in 0..Cardinality(Handles)
  /\ once \in {"new", "done", "stuck"}
  /\ frozen \in BOOLEAN
  /\ lock \in Actors \cup {None}
  /\ pc \in [Actors -> PC]
  /\ arg \in [Actors -> Handles \cup {None}]
  /\ process \in {"up", "down", "aborted"}

Init ==
  /\ state = [h \in Handles |-> "none"]
  /\ policies = {}
  /\ store = [h \in Handles |-> "none"]
  /\ ended = [h \in Handles |-> "none"]
  /\ got = [h \in Handles |-> "none"]
  /\ live = 0
  /\ once = "new"
  /\ frozen = FALSE
  /\ lock = None
  /\ pc = [a \in Actors |-> IF a = Main THEN "user" ELSE "none"]
  /\ arg = [a \in Actors |-> None]
  /\ process = "up"

\* Actor a, at `from`, goes on to `to`.
Goto(a, from, to) ==
  /\ process = "up"
  /\ pc[a] = from
  /\ pc' = [pc EXCEPT ![a] = to]

-----------------------------------------------------------------------------
(* Thread.start                                                            *)

\* _new_handle: a handle that holds this thread's policy.
StartNew(a, h) ==
  /\ Goto(a, "user", "once")
  /\ state[h] = "none"
  /\ state' = [state EXCEPT ![h] = "running"]
  /\ policies' = policies \cup {h}
  /\ arg' = [arg EXCEPT ![a] = h]
  /\ UNCHANGED <<store, ended, got, live, registryVars, process>>

\* pthread_once has run _register_shutdown, or runs it now.
StartOnce(a) ==
  /\ Goto(a, "once", "count")
  /\ once \in {"new", "done"}
  /\ once' = "done"
  /\ UNCHANGED <<handleVars, live, frozen, lock, arg, process>>

\* Scope.shutdown_hook raises inside the once routine.  The transfer leaves
\* pthread_once without completing it, so later calls wait for ever, and the
\* handle and its policy are left behind.
StartOnceRaises(a) ==
  /\ HookFails
  /\ Goto(a, "once", "user")
  /\ once = "new"
  /\ once' = "stuck"
  /\ state' = [state EXCEPT ![arg[a]] = "lost"]
  /\ arg' = [arg EXCEPT ![a] = None]
  /\ UNCHANGED <<policies, store, ended, got, live, frozen, lock, process>>

StartCount(a) ==
  /\ Goto(a, "count", "lock")
  /\ live' = live + 1
  /\ UNCHANGED <<handleVars, registryVars, arg, process>>

\* x2c_descriptor_thread_start_begin
StartLock(a) ==
  /\ Goto(a, "lock", "create")
  /\ lock = None
  /\ lock' = a
  /\ UNCHANGED <<handleVars, live, once, frozen, arg, process>>

\* pthread_create succeeds: the worker runs from now on.
StartCreate(a) ==
  /\ process = "up"
  /\ pc[a] = "create"
  /\ pc' = [pc EXCEPT ![a] = "created", ![arg[a]] = "boot"]
  /\ UNCHANGED <<handleVars, live, registryVars, arg, process>>

\* Mutant of StartEnd: the lock is released without freezing.
StartEndUnfrozen(a) ==
  /\ Goto(a, "created", "user")
  /\ lock' = None
  /\ arg' = [arg EXCEPT ![a] = None]
  /\ UNCHANGED <<handleVars, live, once, frozen, process>>

\* x2c_descriptor_thread_start_end(1); the caller has the handle.
StartEnd(a) ==
  /\ Goto(a, "created", "user")
  /\ frozen' = TRUE
  /\ lock' = None
  /\ arg' = [arg EXCEPT ![a] = None]
  /\ UNCHANGED <<handleVars, live, once, process>>

\* Mutant of CreateFails: returns with the lock held.
CreateFailsLocked(a) ==
  /\ Goto(a, "create", "undo")
  /\ UNCHANGED <<handleVars, live, registryVars, arg, process>>

\* pthread_create fails: x2c_descriptor_thread_start_end(0).
CreateFails(a) ==
  /\ Goto(a, "create", "undo")
  /\ lock' = None
  /\ UNCHANGED <<handleVars, live, once, frozen, arg, process>>

\* The count, the policy and the handle are given back; <io-fail> is raised.
StartUndo(a) ==
  /\ Goto(a, "undo", "user")
  /\ live' = live - 1
  /\ policies' = policies \ {arg[a]}
  /\ state' = [state EXCEPT ![arg[a]] = "freed"]
  /\ arg' = [arg EXCEPT ![a] = None]
  /\ UNCHANGED <<store, ended, got, registryVars, process>>

-----------------------------------------------------------------------------
(* Declaring a Var class, under the same lock.                             *)

\* Locks the registry; a frozen one raises <bad-state>.
RegisterBegin(a) ==
  /\ Goto(a, "user", "register")
  /\ lock = None
  /\ ~frozen
  /\ lock' = a
  /\ UNCHANGED <<handleVars, live, once, frozen, arg, process>>

RegisterEnd(a) ==
  /\ Goto(a, "register", "user")
  /\ lock' = None
  /\ UNCHANGED <<handleVars, live, once, frozen, arg, process>>

-----------------------------------------------------------------------------
(* The worker: _run, _work and _call                                       *)

\* The worker adopts its policy and opens the result stores.
Boot(h) ==
  /\ Goto(h, "boot", "user")
  /\ policies' = policies \ {h}
  /\ store' = [store EXCEPT ![h] = "open"]
  /\ UNCHANGED <<state, ended, got, live, registryVars, arg, process>>

\* The callback returns and its result is exported, or a cause that its policy
\* does not resolve leaves the callback or the export and is snapshot.
CallbackEnds(h) ==
  /\ Goto(h, "user", "seal")
  /\ \E how \in {"value", "error"} : ended' = [ended EXCEPT ![h] = how]
  /\ UNCHANGED <<state, policies, store, got, live, registryVars, arg, process>>

\* The result pool is detached and the result scope popped.
Seal(h) ==
  /\ Goto(h, "seal", "ended")
  /\ store' = [store EXCEPT ![h] = "sealed"]
  /\ UNCHANGED <<state, policies, ended, got, live, registryVars, arg, process>>

-----------------------------------------------------------------------------
(* Thread.join                                                             *)

\* A handle its starter has returned from Thread.start and nobody has freed.
Usable(h) ==
  /\ state[h] \in {"running", "joining", "joined"}
  /\ ~\E a \in Actors : pc[a] \in StartPC /\ arg[a] = h

\* Mutant of JoinClaim: a handle that is being joined may be claimed.
JoinClaimActive(a, h) ==
  /\ Goto(a, "user", "join")
  /\ Usable(h)
  /\ state[h] # "joined"
  /\ state' = [state EXCEPT ![h] = "joining"]
  /\ arg' = [arg EXCEPT ![a] = h]
  /\ UNCHANGED <<policies, store, ended, got, live, registryVars, process>>

\* The compare-and-exchange of `state`; another state raises <bad-state>.
JoinClaim(a, h) ==
  /\ Goto(a, "user", "join")
  /\ Usable(h)
  /\ state[h] = "running"
  /\ state' = [state EXCEPT ![h] = "joining"]
  /\ arg' = [arg EXCEPT ![a] = h]
  /\ UNCHANGED <<policies, store, ended, got, live, registryVars, process>>

\* pthread_join refuses a thread that joins itself or that is being joined by
\* the thread it names; longer rings are not found and block.
JoinRefused(a) ==
  \/ arg[a] = a
  \/ pc[arg[a]] = "wait" /\ arg[arg[a]] = a

JoinWait(a) ==
  /\ Goto(a, "join", "wait")
  /\ ~JoinRefused(a)
  /\ UNCHANGED <<handleVars, live, registryVars, arg, process>>

\* Mutant of JoinFails: a failed native join counts as a join.
JoinFailsCounted(a) ==
  /\ Goto(a, "join", "user")
  /\ JoinRefused(a)
  /\ state' = [state EXCEPT ![arg[a]] = "running"]
  /\ live' = live - 1
  /\ arg' = [arg EXCEPT ![a] = None]
  /\ UNCHANGED <<policies, store, ended, got, registryVars, process>>

\* The native join fails: the handle stays joinable and <io-fail> is raised.
JoinFails(a) ==
  /\ Goto(a, "join", "user")
  /\ JoinRefused(a)
  /\ state' = [state EXCEPT ![arg[a]] = "running"]
  /\ arg' = [arg EXCEPT ![a] = None]
  /\ UNCHANGED <<policies, store, ended, got, live, registryVars, process>>

Joined(a) ==
  /\ Goto(a, "wait", "export")
  /\ pc[arg[a]] = "ended"
  /\ live' = live - 1
  /\ UNCHANGED <<handleVars, registryVars, arg, process>>

\* The result, or the error snapshot that <join-fail> carries, is exported;
\* the export itself may raise.
Export(a) ==
  /\ Goto(a, "export", "finish")
  /\ \E what \in {ended[arg[a]], "lost"} : got' = [got EXCEPT ![arg[a]] = what]
  /\ UNCHANGED <<state, policies, store, ended, live, registryVars, arg, process>>

\* Mutant of Finish: a failed export leaves the handle joinable.
FinishRetries(a) ==
  /\ Goto(a, "finish", "user")
  /\ store' = [store EXCEPT ![arg[a]] = "released"]
  /\ state' = [state EXCEPT ![arg[a]] =
                 IF got[arg[a]] = "lost" THEN "running" ELSE "joined"]
  /\ arg' = [arg EXCEPT ![a] = None]
  /\ UNCHANGED <<policies, ended, got, live, registryVars, process>>

\* _finish_join, on every way out.
Finish(a) ==
  /\ Goto(a, "finish", "user")
  /\ store' = [store EXCEPT ![arg[a]] = "released"]
  /\ state' = [state EXCEPT ![arg[a]] = "joined"]
  /\ arg' = [arg EXCEPT ![a] = None]
  /\ UNCHANGED <<policies, ended, got, live, registryVars, process>>

\* Thread.free; any other state raises <bad-state>.
Free(a, h) ==
  /\ process = "up"
  /\ pc[a] = "user"
  /\ Usable(h)
  /\ state[h] = "joined"
  /\ state' = [state EXCEPT ![h] = "freed"]
  /\ UNCHANGED <<policies, store, ended, got, live, registryVars, pc, arg, process>>

-----------------------------------------------------------------------------

\* Process exit runs the shutdown hook, if it was registered.
Shutdown ==
  /\ process = "up"
  /\ pc[Main] = "user"
  /\ process' = IF once = "done" /\ live # 0 THEN "aborted" ELSE "down"
  /\ UNCHANGED <<handleVars, live, registryVars, pc, arg>>

\* The process has ended.
Ended == process # "up" /\ UNCHANGED vars

Step(a) ==
  \/ \E h \in Handles : StartNew(a, h) \/ JoinClaim(a, h) \/ Free(a, h)
  \/ StartOnce(a) \/ StartOnceRaises(a) \/ StartCount(a) \/ StartLock(a)
  \/ StartCreate(a) \/ StartEnd(a) \/ CreateFails(a) \/ StartUndo(a)
  \/ RegisterBegin(a) \/ RegisterEnd(a)
  \/ JoinWait(a) \/ JoinFails(a) \/ Joined(a) \/ Export(a) \/ Finish(a)

WorkerStep(h) == Step(h) \/ Boot(h) \/ CallbackEnds(h) \/ Seal(h)

Next ==
  \/ Step(Main) \/ Shutdown \/ Ended
  \/ \E h \in Handles : WorkerStep(h)

Spec == Init /\ [][Next]_vars

\* The operating system runs every thread, and every callback that keeps
\* getting back to its own code ends.
FairSpec ==
  /\ Spec
  /\ WF_vars(Step(Main))
  /\ \A h \in Handles : WF_vars(WorkerStep(h)) /\ SF_vars(CallbackEnds(h))

-----------------------------------------------------------------------------
(* Correctness.                                                            *)

\* The sealed result stores have one owner at a time: a join exports from them
\* and releases them only after the worker that filled them has ended, while
\* they still exist, and while no other join of the handle is under way,
\* however failed joins, retries and concurrent joins are mixed.
OneOwner ==
  \A a \in Actors : pc[a] \in {"export", "finish"} =>
    /\ pc[arg[a]] = "ended"
    /\ store[arg[a]] = "sealed"
    /\ \A b \in Actors \ {a} : ~(pc[b] \in JoinPC /\ arg[b] = arg[a])

\* The shutdown hook lets the process go only when no worker runs any more and
\* every result store and captured policy has been given back, those of a
\* start whose hook registration raised excepted, and it aborts only for a
\* worker that really was started and not joined: the count is one atomic
\* integer that failed starts and failed joins must leave exact.
ExitIsReal ==
  /\ process = "down" =>
       /\ \A h \in Handles : /\ pc[h] \in {"none", "ended"}
                             /\ store[h] \in {"none", "released"}
       /\ \A h \in policies : state[h] = "lost"
  /\ process = "aborted" =>
       \E h \in Handles : state[h] \in {"running", "joining"} /\ pc[h] # "none"

\* Descriptor lookups take no lock, so the registry never changes while a
\* worker may look something up: not between pthread_create and the freeze
\* that only the starting thread sets afterwards, and never again later.
RegistryStable ==
  \A a \in Actors : pc[a] = "register" =>
    \A h \in Handles : pc[h] = "none"

HandleStatus(h) ==
  CASE state[h] = "freed" /\ got[h] # "none" -> "gone"
    [] state[h] # "freed" /\ got[h] # "none" -> "taken"
    [] got[h] = "none" /\ pc[h] = "ended"    -> "settled"
    [] pc[h] = "none"                        -> "new"
    [] OTHER                                 -> "pending"

Promise == INSTANCE Future WITH
  status <- [h \in Handles |-> HandleStatus(h)],
  outcome <- [h \in Handles |-> IF pc[h] = "ended" THEN ended[h] ELSE "none"],
  received <- got

\* A handle is a future: one join receives what its callback ended in.
ImplementsFuture == Promise!Spec

\* Workers that join each other in a ring.
Ring ==
  \E S \in SUBSET Handles :
    S # {} /\ \A h \in S : pc[h] = "wait" /\ arg[h] \in S

\* A join that waits comes back, or the process ends first, when callbacks end:
\* failed starts, refused joins and retries leave nothing behind that blocks
\* it, except that workers may join each other in a ring pthread_join does not
\* find.
JoinReturns ==
  \A a \in Actors : pc[a] = "wait" ~> pc[a] # "wait" \/ process # "up" \/ Ring

=============================================================================
