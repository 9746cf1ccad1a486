---------------------------- MODULE Thread_proofs ----------------------------
(***************************************************************************)
(* Proofs about lib/thread.x for any finite number of handles: the count   *)
(* of unjoined workers, the owner of a result, the registry that is frozen *)
(* at the first start, and a handle as a future.                           *)
(***************************************************************************)
EXTENDS Thread, FiniteSetTheorems, TLAPS

-----------------------------------------------------------------------------
(* The inductive invariant *)

Working == StartPC \cup JoinPC
Starter(a, h) == pc[a] \in StartPC /\ arg[a] = h
Joiner(a, h) == pc[a] \in JoinPC /\ arg[a] = h

TInv ==
  /\ state \in [Handles -> {"none", "running", "joining", "joined", "freed", "lost"}]
  /\ policies \subseteq Handles
  /\ store \in [Handles -> {"none", "open", "sealed", "released"}]
  /\ ended \in [Handles -> {"none", "value", "error"}]
  /\ got \in [Handles -> {"none", "value", "error", "lost"}]
  /\ live \in Int
  /\ once \in {"new", "done", "stuck"} /\ frozen \in BOOLEAN
  /\ lock \in Actors \cup {None}
  /\ pc \in [Actors -> PC]
  /\ arg \in [Actors -> Handles \cup {None}]
  /\ process \in {"up", "down", "aborted"}

(* An operation on a handle is the only one on it, and knows its state. *)
Operating ==
  /\ \A a \in Actors : pc[a] \in Working => arg[a] \in Handles
  /\ \A a, b \in Actors : pc[a] \in Working /\ pc[b] \in Working /\ arg[a] = arg[b] => a = b
  /\ \A a \in Actors : pc[a] \in StartPC =>
       state[arg[a]] = "running" /\ (pc[arg[a]] = "none" <=> pc[a] # "created")
  /\ \A a \in Actors : pc[a] \in JoinPC =>
       /\ state[arg[a]] = "joining" /\ pc[arg[a]] # "none"
       /\ pc[a] \in {"export", "finish"} => pc[arg[a]] = "ended"
       /\ got[arg[a]] # "none" <=> pc[a] = "finish"

(* The state of a handle and how far its worker has come. *)
Handle(h) ==
  /\ state[h] \in {"none", "lost"} => pc[h] = "none"
  /\ pc[h] = "none" => /\ got[h] = "none" /\ state[h] \notin {"joining", "joined"}
                       /\ state[h] = "running" => \E a \in Actors : Starter(a, h)
  /\ pc[h] \notin {"none", "ended"} => state[h] \in {"running", "joining"}
  /\ store[h] = CASE pc[h] \in {"none", "boot"} -> "none"
                  [] pc[h] = "ended" /\ state[h] \in {"joined", "freed"} -> "released"
                  [] pc[h] = "ended" /\ state[h] \notin {"joined", "freed"} -> "sealed"
                  [] OTHER -> "open"
  /\ h \in policies => pc[h] = "boot" \/ (pc[h] = "none" /\ state[h] \in {"lost", "running"})
  /\ ended[h] # "none" <=> pc[h] \in {"seal", "ended"}
  /\ state[h] = "running" => got[h] = "none"
  /\ state[h] = "joining" => \E a \in Actors : Joiner(a, h)
  /\ state[h] = "joined" => got[h] # "none"
  /\ state[h] = "freed" => (got[h] # "none" <=> pc[h] = "ended")

(* No worker exists before the hook is registered. *)
Hooked == once # "done" => /\ \A h \in Handles : pc[h] = "none"
                           /\ pc[Main] \notin Working \ {"once"}

(* The handles that thread_live_count counts. *)
Counted == {h \in Handles : /\ state[h] \in {"running", "joining"}
                            /\ \A a \in Actors : arg[a] = h =>
                                 pc[a] \notin {"once", "count", "export", "finish"}}

(* Between the first pthread_create and the freeze the starter has the lock. *)
Frozen ==
  /\ \A a \in Actors : pc[a] \in {"create", "created", "register"} => lock = a
  /\ \A a \in Actors : pc[a] = "register" => ~frozen
  /\ ~frozen => \A h \in Handles : pc[h] # "none" => \E a \in Actors : pc[a] = "created"

IInv == Operating /\ (\A h \in Handles : Handle(h)) /\ Hooked
CInv == live = Cardinality(Counted)

-----------------------------------------------------------------------------
LEMMA TStep == ASSUME TInv, IInv, [Next]_vars PROVE TInv'
<1> USE ThreadAssumption DEF TInv, IInv, Operating, handleVars, registryVars, Goto
<1>1. ASSUME NEW a \in Actors, NEW h \in Handles, StartNew(a, h) PROVE TInv'
  BY <1>1 DEF StartNew, PC, StartPC, JoinPC, Working, Actors
<1>2. ASSUME NEW a \in Actors, NEW h \in Handles, JoinClaim(a, h) PROVE TInv'
  BY <1>2 DEF JoinClaim, Usable, PC, StartPC, JoinPC, Working, Actors
<1>3. ASSUME NEW a \in Actors, NEW h \in Handles, Free(a, h) PROVE TInv'
  BY <1>3 DEF Free, PC, StartPC, JoinPC, Working, Actors
<1>4. ASSUME NEW a \in Actors, StartOnce(a) PROVE TInv'
  BY <1>4 DEF StartOnce, PC, StartPC, JoinPC, Working, Actors
<1>5. ASSUME NEW a \in Actors, StartOnceRaises(a) PROVE TInv'
  BY <1>5 DEF StartOnceRaises, PC, StartPC, JoinPC, Working, Actors
<1>6. ASSUME NEW a \in Actors, StartCount(a) PROVE TInv'
  BY <1>6 DEF StartCount, PC, StartPC, JoinPC, Working, Actors
<1>7. ASSUME NEW a \in Actors, StartLock(a) PROVE TInv'
  BY <1>7 DEF StartLock, PC, StartPC, JoinPC, Working, Actors
<1>8. ASSUME NEW a \in Actors, StartCreate(a) PROVE TInv'
  BY <1>8 DEF StartCreate, PC, StartPC, JoinPC, Working, Actors
<1>9. ASSUME NEW a \in Actors, StartEnd(a) PROVE TInv'
  BY <1>9 DEF StartEnd, PC, StartPC, JoinPC, Working, Actors
<1>10. ASSUME NEW a \in Actors, CreateFails(a) PROVE TInv'
  BY <1>10 DEF CreateFails, PC, StartPC, JoinPC, Working, Actors
<1>11. ASSUME NEW a \in Actors, StartUndo(a) PROVE TInv'
  BY <1>11 DEF StartUndo, PC, StartPC, JoinPC, Working, Actors
<1>12. ASSUME NEW a \in Actors, RegisterBegin(a) PROVE TInv'
  BY <1>12 DEF RegisterBegin, PC, StartPC, JoinPC, Working, Actors
<1>13. ASSUME NEW a \in Actors, RegisterEnd(a) PROVE TInv'
  BY <1>13 DEF RegisterEnd, PC, StartPC, JoinPC, Working, Actors
<1>14. ASSUME NEW a \in Actors, JoinWait(a) PROVE TInv'
  BY <1>14 DEF JoinWait, PC, StartPC, JoinPC, Working, Actors
<1>15. ASSUME NEW a \in Actors, JoinFails(a) PROVE TInv'
  BY <1>15 DEF JoinFails, PC, StartPC, JoinPC, Working, Actors
<1>16. ASSUME NEW a \in Actors, Joined(a) PROVE TInv'
  BY <1>16 DEF Joined, PC, StartPC, JoinPC, Working, Actors
<1>17. ASSUME NEW a \in Actors, Export(a) PROVE TInv'
  BY <1>17 DEF Export, PC, StartPC, JoinPC, Working, Actors
<1>18. ASSUME NEW a \in Actors, Finish(a) PROVE TInv'
  BY <1>18 DEF Finish, PC, StartPC, JoinPC, Working, Actors
<1>19. ASSUME NEW h \in Handles, Boot(h) PROVE TInv'
  BY <1>19 DEF Boot, PC, StartPC, JoinPC, Working, Actors
<1>20. ASSUME NEW h \in Handles, CallbackEnds(h) PROVE TInv'
  BY <1>20 DEF CallbackEnds, PC, StartPC, JoinPC, Working, Actors
<1>21. ASSUME NEW h \in Handles, Seal(h) PROVE TInv'
  BY <1>21 DEF Seal, PC, StartPC, JoinPC, Working, Actors
<1>22. CASE Shutdown
  BY <1>22 DEF Shutdown, PC, StartPC, JoinPC, Working, Actors
<1>23. CASE UNCHANGED vars
  BY <1>23 DEF vars, PC, StartPC, JoinPC, Working, Actors
<1> QED BY <1>1, <1>2, <1>3, <1>4, <1>5, <1>6, <1>7, <1>8, <1>9, <1>10, <1>11, <1>12, <1>13, <1>14, <1>15, <1>16, <1>17, <1>18, <1>19, <1>20, <1>21, <1>22, <1>23 DEF Next, Step, WorkerStep, Ended, Actors

LEMMA OperatingStep == ASSUME TInv, IInv, [Next]_vars PROVE Operating'
<1> USE ThreadAssumption DEF TInv, IInv, Operating, handleVars, registryVars, Goto
<1>1. ASSUME NEW a \in Actors, NEW h \in Handles, StartNew(a, h) PROVE Operating'
  BY <1>1 DEF StartNew, StartPC, JoinPC, Working, Actors, Handle
<1>2. ASSUME NEW a \in Actors, NEW h \in Handles, JoinClaim(a, h) PROVE Operating'
  BY <1>2 DEF JoinClaim, Usable, StartPC, JoinPC, Working, Actors, Handle, Starter
<1>3. ASSUME NEW a \in Actors, NEW h \in Handles, Free(a, h) PROVE Operating'
  BY <1>3 DEF Free, StartPC, JoinPC, Working, Actors, Handle
<1>4. ASSUME NEW a \in Actors, StartOnce(a) PROVE Operating'
  BY <1>4 DEF StartOnce, StartPC, JoinPC, Working, Actors, Handle
<1>5. ASSUME NEW a \in Actors, StartOnceRaises(a) PROVE Operating'
  BY <1>5 DEF StartOnceRaises, StartPC, JoinPC, Working, Actors, Handle
<1>6. ASSUME NEW a \in Actors, StartCount(a) PROVE Operating'
  BY <1>6 DEF StartCount, StartPC, JoinPC, Working, Actors, Handle
<1>7. ASSUME NEW a \in Actors, StartLock(a) PROVE Operating'
  BY <1>7 DEF StartLock, StartPC, JoinPC, Working, Actors, Handle
<1>8. ASSUME NEW a \in Actors, StartCreate(a) PROVE Operating'
  BY <1>8 DEF StartCreate, StartPC, JoinPC, Working, Actors, Handle
<1>9. ASSUME NEW a \in Actors, StartEnd(a) PROVE Operating'
  BY <1>9 DEF StartEnd, StartPC, JoinPC, Working, Actors, Handle
<1>10. ASSUME NEW a \in Actors, CreateFails(a) PROVE Operating'
  BY <1>10 DEF CreateFails, StartPC, JoinPC, Working, Actors, Handle
<1>11. ASSUME NEW a \in Actors, StartUndo(a) PROVE Operating'
  BY <1>11 DEF StartUndo, StartPC, JoinPC, Working, Actors, Handle
<1>12. ASSUME NEW a \in Actors, RegisterBegin(a) PROVE Operating'
  BY <1>12 DEF RegisterBegin, StartPC, JoinPC, Working, Actors, Handle
<1>13. ASSUME NEW a \in Actors, RegisterEnd(a) PROVE Operating'
  BY <1>13 DEF RegisterEnd, StartPC, JoinPC, Working, Actors, Handle
<1>14. ASSUME NEW a \in Actors, JoinWait(a) PROVE Operating'
  BY <1>14 DEF JoinWait, StartPC, JoinPC, Working, Actors, Handle
<1>15. ASSUME NEW a \in Actors, JoinFails(a) PROVE Operating'
  BY <1>15 DEF JoinFails, StartPC, JoinPC, Working, Actors, Handle
<1>16. ASSUME NEW a \in Actors, Joined(a) PROVE Operating'
  BY <1>16 DEF Joined, StartPC, JoinPC, Working, Actors, Handle
<1>17. ASSUME NEW a \in Actors, Export(a) PROVE Operating'
  BY <1>17 DEF Export, StartPC, JoinPC, Working, Actors, Handle
<1>18. ASSUME NEW a \in Actors, Finish(a) PROVE Operating'
  BY <1>18 DEF Finish, StartPC, JoinPC, Working, Actors, Handle
<1>19. ASSUME NEW h \in Handles, Boot(h) PROVE Operating'
  BY <1>19 DEF Boot, StartPC, JoinPC, Working, Actors, Handle
<1>20. ASSUME NEW h \in Handles, CallbackEnds(h) PROVE Operating'
  BY <1>20 DEF CallbackEnds, StartPC, JoinPC, Working, Actors, Handle
<1>21. ASSUME NEW h \in Handles, Seal(h) PROVE Operating'
  BY <1>21 DEF Seal, StartPC, JoinPC, Working, Actors, Handle
<1>22. CASE Shutdown
  BY <1>22 DEF Shutdown, StartPC, JoinPC, Working, Actors, Handle
<1>23. CASE UNCHANGED vars
  BY <1>23 DEF vars, StartPC, JoinPC, Working, Actors, Handle
<1> QED BY <1>1, <1>2, <1>3, <1>4, <1>5, <1>6, <1>7, <1>8, <1>9, <1>10, <1>11, <1>12, <1>13, <1>14, <1>15, <1>16, <1>17, <1>18, <1>19, <1>20, <1>21, <1>22, <1>23 DEF Next, Step, WorkerStep, Ended, Actors

LEMMA HandleStep == ASSUME TInv, IInv, [Next]_vars, NEW k \in Handles PROVE Handle(k)'
<1> USE ThreadAssumption DEF TInv, IInv, Operating, handleVars, registryVars, Goto
<1>1. ASSUME NEW a \in Actors, NEW h \in Handles, StartNew(a, h) PROVE Handle(k)'
  BY <1>1 DEF StartNew, StartPC, JoinPC, Working, Actors, Handle, Starter, Joiner
<1>2. ASSUME NEW a \in Actors, NEW h \in Handles, JoinClaim(a, h) PROVE Handle(k)'
  BY <1>2 DEF JoinClaim, Usable, StartPC, JoinPC, Working, Actors, Handle, Starter, Joiner
<1>3. ASSUME NEW a \in Actors, NEW h \in Handles, Free(a, h) PROVE Handle(k)'
  BY <1>3 DEF Free, StartPC, JoinPC, Working, Actors, Handle, Starter, Joiner
<1>4. ASSUME NEW a \in Actors, StartOnce(a) PROVE Handle(k)'
  BY <1>4 DEF StartOnce, StartPC, JoinPC, Working, Actors, Handle, Starter, Joiner
<1>5. ASSUME NEW a \in Actors, StartOnceRaises(a) PROVE Handle(k)'
  BY <1>5 DEF StartOnceRaises, StartPC, JoinPC, Working, Actors, Handle, Starter, Joiner
<1>6. ASSUME NEW a \in Actors, StartCount(a) PROVE Handle(k)'
  BY <1>6 DEF StartCount, StartPC, JoinPC, Working, Actors, Handle, Starter, Joiner
<1>7. ASSUME NEW a \in Actors, StartLock(a) PROVE Handle(k)'
  BY <1>7 DEF StartLock, StartPC, JoinPC, Working, Actors, Handle, Starter, Joiner
<1>8. ASSUME NEW a \in Actors, StartCreate(a) PROVE Handle(k)'
  BY <1>8 DEF StartCreate, StartPC, JoinPC, Working, Actors, Handle, Starter, Joiner
<1>9. ASSUME NEW a \in Actors, StartEnd(a) PROVE Handle(k)'
  BY <1>9 DEF StartEnd, StartPC, JoinPC, Working, Actors, Handle, Starter, Joiner
<1>10. ASSUME NEW a \in Actors, CreateFails(a) PROVE Handle(k)'
  BY <1>10 DEF CreateFails, StartPC, JoinPC, Working, Actors, Handle, Starter, Joiner
<1>11. ASSUME NEW a \in Actors, StartUndo(a) PROVE Handle(k)'
  BY <1>11 DEF StartUndo, StartPC, JoinPC, Working, Actors, Handle, Starter, Joiner
<1>12. ASSUME NEW a \in Actors, RegisterBegin(a) PROVE Handle(k)'
  BY <1>12 DEF RegisterBegin, StartPC, JoinPC, Working, Actors, Handle, Starter, Joiner
<1>13. ASSUME NEW a \in Actors, RegisterEnd(a) PROVE Handle(k)'
  BY <1>13 DEF RegisterEnd, StartPC, JoinPC, Working, Actors, Handle, Starter, Joiner
<1>14. ASSUME NEW a \in Actors, JoinWait(a) PROVE Handle(k)'
  BY <1>14 DEF JoinWait, StartPC, JoinPC, Working, Actors, Handle, Starter, Joiner
<1>15. ASSUME NEW a \in Actors, JoinFails(a) PROVE Handle(k)'
  BY <1>15 DEF JoinFails, StartPC, JoinPC, Working, Actors, Handle, Starter, Joiner
<1>16. ASSUME NEW a \in Actors, Joined(a) PROVE Handle(k)'
  BY <1>16 DEF Joined, StartPC, JoinPC, Working, Actors, Handle, Starter, Joiner
<1>17. ASSUME NEW a \in Actors, Export(a) PROVE Handle(k)'
  BY <1>17 DEF Export, StartPC, JoinPC, Working, Actors, Handle, Starter, Joiner
<1>18. ASSUME NEW a \in Actors, Finish(a) PROVE Handle(k)'
  BY <1>18 DEF Finish, StartPC, JoinPC, Working, Actors, Handle, Starter, Joiner
<1>19. ASSUME NEW h \in Handles, Boot(h) PROVE Handle(k)'
  BY <1>19 DEF Boot, StartPC, JoinPC, Working, Actors, Handle, Starter, Joiner
<1>20. ASSUME NEW h \in Handles, CallbackEnds(h) PROVE Handle(k)'
  BY <1>20 DEF CallbackEnds, StartPC, JoinPC, Working, Actors, Handle, Starter, Joiner
<1>21. ASSUME NEW h \in Handles, Seal(h) PROVE Handle(k)'
  BY <1>21 DEF Seal, StartPC, JoinPC, Working, Actors, Handle, Starter, Joiner
<1>22. CASE Shutdown
  BY <1>22 DEF Shutdown, StartPC, JoinPC, Working, Actors, Handle, Starter, Joiner
<1>23. CASE UNCHANGED vars
  BY <1>23 DEF vars, StartPC, JoinPC, Working, Actors, Handle, Starter, Joiner
<1> QED BY <1>1, <1>2, <1>3, <1>4, <1>5, <1>6, <1>7, <1>8, <1>9, <1>10, <1>11, <1>12, <1>13, <1>14, <1>15, <1>16, <1>17, <1>18, <1>19, <1>20, <1>21, <1>22, <1>23 DEF Next, Step, WorkerStep, Ended, Actors

LEMMA HookedStep == ASSUME TInv, IInv, [Next]_vars PROVE Hooked'
<1> USE ThreadAssumption DEF TInv, IInv, Operating, Hooked, handleVars, registryVars, Goto
<1>1. ASSUME NEW a \in Actors, NEW h \in Handles, StartNew(a, h) PROVE Hooked'
  BY <1>1 DEF StartNew, StartPC, JoinPC, Working, Actors, Handle
<1>2. ASSUME NEW a \in Actors, NEW h \in Handles, JoinClaim(a, h) PROVE Hooked'
  BY <1>2 DEF JoinClaim, Usable, StartPC, JoinPC, Working, Actors, Handle, Starter
<1>3. ASSUME NEW a \in Actors, NEW h \in Handles, Free(a, h) PROVE Hooked'
  BY <1>3 DEF Free, StartPC, JoinPC, Working, Actors, Handle
<1>4. ASSUME NEW a \in Actors, StartOnce(a) PROVE Hooked'
  BY <1>4 DEF StartOnce, StartPC, JoinPC, Working, Actors, Handle
<1>5. ASSUME NEW a \in Actors, StartOnceRaises(a) PROVE Hooked'
  BY <1>5 DEF StartOnceRaises, StartPC, JoinPC, Working, Actors, Handle
<1>6. ASSUME NEW a \in Actors, StartCount(a) PROVE Hooked'
  BY <1>6 DEF StartCount, StartPC, JoinPC, Working, Actors, Handle
<1>7. ASSUME NEW a \in Actors, StartLock(a) PROVE Hooked'
  BY <1>7 DEF StartLock, StartPC, JoinPC, Working, Actors, Handle
<1>8. ASSUME NEW a \in Actors, StartCreate(a) PROVE Hooked'
  BY <1>8 DEF StartCreate, StartPC, JoinPC, Working, Actors, Handle
<1>9. ASSUME NEW a \in Actors, StartEnd(a) PROVE Hooked'
  BY <1>9 DEF StartEnd, StartPC, JoinPC, Working, Actors, Handle
<1>10. ASSUME NEW a \in Actors, CreateFails(a) PROVE Hooked'
  BY <1>10 DEF CreateFails, StartPC, JoinPC, Working, Actors, Handle
<1>11. ASSUME NEW a \in Actors, StartUndo(a) PROVE Hooked'
  BY <1>11 DEF StartUndo, StartPC, JoinPC, Working, Actors, Handle
<1>12. ASSUME NEW a \in Actors, RegisterBegin(a) PROVE Hooked'
  BY <1>12 DEF RegisterBegin, StartPC, JoinPC, Working, Actors, Handle
<1>13. ASSUME NEW a \in Actors, RegisterEnd(a) PROVE Hooked'
  BY <1>13 DEF RegisterEnd, StartPC, JoinPC, Working, Actors, Handle
<1>14. ASSUME NEW a \in Actors, JoinWait(a) PROVE Hooked'
  BY <1>14 DEF JoinWait, StartPC, JoinPC, Working, Actors, Handle
<1>15. ASSUME NEW a \in Actors, JoinFails(a) PROVE Hooked'
  BY <1>15 DEF JoinFails, StartPC, JoinPC, Working, Actors, Handle
<1>16. ASSUME NEW a \in Actors, Joined(a) PROVE Hooked'
  BY <1>16 DEF Joined, StartPC, JoinPC, Working, Actors, Handle
<1>17. ASSUME NEW a \in Actors, Export(a) PROVE Hooked'
  BY <1>17 DEF Export, StartPC, JoinPC, Working, Actors, Handle
<1>18. ASSUME NEW a \in Actors, Finish(a) PROVE Hooked'
  BY <1>18 DEF Finish, StartPC, JoinPC, Working, Actors, Handle
<1>19. ASSUME NEW h \in Handles, Boot(h) PROVE Hooked'
  BY <1>19 DEF Boot, StartPC, JoinPC, Working, Actors, Handle
<1>20. ASSUME NEW h \in Handles, CallbackEnds(h) PROVE Hooked'
  BY <1>20 DEF CallbackEnds, StartPC, JoinPC, Working, Actors, Handle
<1>21. ASSUME NEW h \in Handles, Seal(h) PROVE Hooked'
  BY <1>21 DEF Seal, StartPC, JoinPC, Working, Actors, Handle
<1>22. CASE Shutdown
  BY <1>22 DEF Shutdown, StartPC, JoinPC, Working, Actors, Handle
<1>23. CASE UNCHANGED vars
  BY <1>23 DEF vars, StartPC, JoinPC, Working, Actors, Handle
<1> QED BY <1>1, <1>2, <1>3, <1>4, <1>5, <1>6, <1>7, <1>8, <1>9, <1>10, <1>11, <1>12, <1>13, <1>14, <1>15, <1>16, <1>17, <1>18, <1>19, <1>20, <1>21, <1>22, <1>23 DEF Next, Step, WorkerStep, Ended, Actors

LEMMA FrozenStep == ASSUME TInv, IInv, Frozen, [Next]_vars PROVE Frozen'
<1> USE ThreadAssumption DEF TInv, IInv, Operating, Frozen, handleVars, registryVars, Goto
<1>1. ASSUME NEW a \in Actors, NEW h \in Handles, StartNew(a, h) PROVE Frozen'
  BY <1>1 DEF StartNew, StartPC, JoinPC, Working, Actors, Handle
<1>2. ASSUME NEW a \in Actors, NEW h \in Handles, JoinClaim(a, h) PROVE Frozen'
  BY <1>2 DEF JoinClaim, Usable, StartPC, JoinPC, Working, Actors, Handle
<1>3. ASSUME NEW a \in Actors, NEW h \in Handles, Free(a, h) PROVE Frozen'
  BY <1>3 DEF Free, StartPC, JoinPC, Working, Actors, Handle
<1>4. ASSUME NEW a \in Actors, StartOnce(a) PROVE Frozen'
  BY <1>4 DEF StartOnce, StartPC, JoinPC, Working, Actors, Handle
<1>5. ASSUME NEW a \in Actors, StartOnceRaises(a) PROVE Frozen'
  BY <1>5 DEF StartOnceRaises, StartPC, JoinPC, Working, Actors, Handle
<1>6. ASSUME NEW a \in Actors, StartCount(a) PROVE Frozen'
  BY <1>6 DEF StartCount, StartPC, JoinPC, Working, Actors, Handle
<1>7. ASSUME NEW a \in Actors, StartLock(a) PROVE Frozen'
  BY <1>7 DEF StartLock, StartPC, JoinPC, Working, Actors, Handle
<1>8. ASSUME NEW a \in Actors, StartCreate(a) PROVE Frozen'
  BY <1>8 DEF StartCreate, StartPC, JoinPC, Working, Actors, Handle
<1>9. ASSUME NEW a \in Actors, StartEnd(a) PROVE Frozen'
  BY <1>9 DEF StartEnd, StartPC, JoinPC, Working, Actors, Handle
<1>10. ASSUME NEW a \in Actors, CreateFails(a) PROVE Frozen'
  BY <1>10 DEF CreateFails, StartPC, JoinPC, Working, Actors, Handle
<1>11. ASSUME NEW a \in Actors, StartUndo(a) PROVE Frozen'
  BY <1>11 DEF StartUndo, StartPC, JoinPC, Working, Actors, Handle
<1>12. ASSUME NEW a \in Actors, RegisterBegin(a) PROVE Frozen'
  BY <1>12 DEF RegisterBegin, StartPC, JoinPC, Working, Actors, Handle
<1>13. ASSUME NEW a \in Actors, RegisterEnd(a) PROVE Frozen'
  BY <1>13 DEF RegisterEnd, StartPC, JoinPC, Working, Actors, Handle
<1>14. ASSUME NEW a \in Actors, JoinWait(a) PROVE Frozen'
  BY <1>14 DEF JoinWait, StartPC, JoinPC, Working, Actors, Handle
<1>15. ASSUME NEW a \in Actors, JoinFails(a) PROVE Frozen'
  BY <1>15 DEF JoinFails, StartPC, JoinPC, Working, Actors, Handle
<1>16. ASSUME NEW a \in Actors, Joined(a) PROVE Frozen'
  BY <1>16 DEF Joined, StartPC, JoinPC, Working, Actors, Handle
<1>17. ASSUME NEW a \in Actors, Export(a) PROVE Frozen'
  BY <1>17 DEF Export, StartPC, JoinPC, Working, Actors, Handle
<1>18. ASSUME NEW a \in Actors, Finish(a) PROVE Frozen'
  BY <1>18 DEF Finish, StartPC, JoinPC, Working, Actors, Handle
<1>19. ASSUME NEW h \in Handles, Boot(h) PROVE Frozen'
  BY <1>19 DEF Boot, StartPC, JoinPC, Working, Actors, Handle
<1>20. ASSUME NEW h \in Handles, CallbackEnds(h) PROVE Frozen'
  BY <1>20 DEF CallbackEnds, StartPC, JoinPC, Working, Actors, Handle
<1>21. ASSUME NEW h \in Handles, Seal(h) PROVE Frozen'
  BY <1>21 DEF Seal, StartPC, JoinPC, Working, Actors, Handle
<1>22. CASE Shutdown
  BY <1>22 DEF Shutdown, StartPC, JoinPC, Working, Actors, Handle
<1>23. CASE UNCHANGED vars
  BY <1>23 DEF vars, StartPC, JoinPC, Working, Actors, Handle
<1> QED BY <1>1, <1>2, <1>3, <1>4, <1>5, <1>6, <1>7, <1>8, <1>9, <1>10, <1>11, <1>12, <1>13, <1>14, <1>15, <1>16, <1>17, <1>18, <1>19, <1>20, <1>21, <1>22, <1>23 DEF Next, Step, WorkerStep, Ended, Actors

-----------------------------------------------------------------------------
(* The count *)

LEMMA CountedFinite == IsFiniteSet(Counted) /\ Cardinality(Counted) \in Nat
BY ThreadAssumption, FS_Subset, FS_CardinalityType DEF Counted

\* Only a counted start, its undo and a native join change the handles that
\* are counted, each by the handle of the actor.
LEMMA CountStep == ASSUME TInv, IInv, CInv, [Next]_vars PROVE CInv'
<1> DEFINE Same == Counted' = Counted /\ live' = live
<1> USE ThreadAssumption DEF TInv, IInv, Operating, handleVars, registryVars, Goto
<1>0. IsFiniteSet(Counted) /\ Cardinality(Counted) \in Nat
  BY CountedFinite
<1>same. Same => CInv'
  BY DEF CInv
<1>1. ASSUME NEW a \in Actors, NEW h \in Handles, StartNew(a, h) PROVE CInv'
  <2>1. Same BY <1>1 DEF Counted, StartNew, StartPC, JoinPC, Working, Actors, Handle, Starter, Joiner
  <2> QED BY <1>same, <2>1 DEF Same
<1>2. ASSUME NEW a \in Actors, NEW h \in Handles, JoinClaim(a, h) PROVE CInv'
  <2>1. Same BY <1>2 DEF Counted, JoinClaim, Usable, StartPC, JoinPC, Working, Actors, Handle, Starter, Joiner
  <2> QED BY <1>same, <2>1 DEF Same
<1>3. ASSUME NEW a \in Actors, NEW h \in Handles, Free(a, h) PROVE CInv'
  <2>1. Same BY <1>3 DEF Counted, Free, StartPC, JoinPC, Working, Actors, Handle, Starter, Joiner
  <2> QED BY <1>same, <2>1 DEF Same
<1>4. ASSUME NEW a \in Actors, StartOnce(a) PROVE CInv'
  <2>1. Same BY <1>4 DEF Counted, StartOnce, StartPC, JoinPC, Working, Actors, Handle, Starter, Joiner
  <2> QED BY <1>same, <2>1 DEF Same
<1>5. ASSUME NEW a \in Actors, StartOnceRaises(a) PROVE CInv'
  <2>1. Same BY <1>5 DEF Counted, StartOnceRaises, StartPC, JoinPC, Working, Actors, Handle, Starter, Joiner
  <2> QED BY <1>same, <2>1 DEF Same
<1>6. ASSUME NEW a \in Actors, StartCount(a) PROVE CInv'
  <2>1. arg[a] \in Handles \ Counted /\ live' = live + 1
    BY <1>6 DEF StartCount, Counted, StartPC, JoinPC, Working, Actors, Handle, Starter, Joiner
  <2>2. Counted' = Counted \cup {arg[a]}
    BY <1>6 DEF StartCount, Counted, StartPC, JoinPC, Working, Actors, Handle, Starter, Joiner
  <2> HIDE DEF IInv, Operating
  <2> QED BY <1>0, <2>1, <2>2, FS_AddElement DEF CInv
<1>7. ASSUME NEW a \in Actors, StartLock(a) PROVE CInv'
  <2>1. Same BY <1>7 DEF Counted, StartLock, StartPC, JoinPC, Working, Actors, Handle, Starter, Joiner
  <2> QED BY <1>same, <2>1 DEF Same
<1>8. ASSUME NEW a \in Actors, StartCreate(a) PROVE CInv'
  <2>1. Same BY <1>8 DEF Counted, StartCreate, StartPC, JoinPC, Working, Actors, Handle, Starter, Joiner
  <2> QED BY <1>same, <2>1 DEF Same
<1>9. ASSUME NEW a \in Actors, StartEnd(a) PROVE CInv'
  <2>1. Same BY <1>9 DEF Counted, StartEnd, StartPC, JoinPC, Working, Actors, Handle, Starter, Joiner
  <2> QED BY <1>same, <2>1 DEF Same
<1>10. ASSUME NEW a \in Actors, CreateFails(a) PROVE CInv'
  <2>1. Same BY <1>10 DEF Counted, CreateFails, StartPC, JoinPC, Working, Actors, Handle, Starter, Joiner
  <2> QED BY <1>same, <2>1 DEF Same
<1>11. ASSUME NEW a \in Actors, StartUndo(a) PROVE CInv'
  <2>1. arg[a] \in Counted /\ live' = live - 1
    BY <1>11 DEF StartUndo, Counted, StartPC, JoinPC, Working, Actors, Handle, Starter, Joiner
  <2>2. Counted' = Counted \ {arg[a]}
    BY <1>11 DEF StartUndo, Counted, StartPC, JoinPC, Working, Actors, Handle, Starter, Joiner
  <2> HIDE DEF IInv, Operating
  <2> QED BY <1>0, <2>1, <2>2, FS_RemoveElement DEF CInv
<1>12. ASSUME NEW a \in Actors, RegisterBegin(a) PROVE CInv'
  <2>1. Same BY <1>12 DEF Counted, RegisterBegin, StartPC, JoinPC, Working, Actors, Handle, Starter, Joiner
  <2> QED BY <1>same, <2>1 DEF Same
<1>13. ASSUME NEW a \in Actors, RegisterEnd(a) PROVE CInv'
  <2>1. Same BY <1>13 DEF Counted, RegisterEnd, StartPC, JoinPC, Working, Actors, Handle, Starter, Joiner
  <2> QED BY <1>same, <2>1 DEF Same
<1>14. ASSUME NEW a \in Actors, JoinWait(a) PROVE CInv'
  <2>1. Same BY <1>14 DEF Counted, JoinWait, StartPC, JoinPC, Working, Actors, Handle, Starter, Joiner
  <2> QED BY <1>same, <2>1 DEF Same
<1>15. ASSUME NEW a \in Actors, JoinFails(a) PROVE CInv'
  <2>1. Same BY <1>15 DEF Counted, JoinFails, StartPC, JoinPC, Working, Actors, Handle, Starter, Joiner
  <2> QED BY <1>same, <2>1 DEF Same
<1>16. ASSUME NEW a \in Actors, Joined(a) PROVE CInv'
  <2>1. arg[a] \in Counted /\ live' = live - 1
    BY <1>16 DEF Joined, Counted, StartPC, JoinPC, Working, Actors, Handle, Starter, Joiner
  <2>2. Counted' = Counted \ {arg[a]}
    BY <1>16 DEF Joined, Counted, StartPC, JoinPC, Working, Actors, Handle, Starter, Joiner
  <2> HIDE DEF IInv, Operating
  <2> QED BY <1>0, <2>1, <2>2, FS_RemoveElement DEF CInv
<1>17. ASSUME NEW a \in Actors, Export(a) PROVE CInv'
  <2>1. Same BY <1>17 DEF Counted, Export, StartPC, JoinPC, Working, Actors, Handle, Starter, Joiner
  <2> QED BY <1>same, <2>1 DEF Same
<1>18. ASSUME NEW a \in Actors, Finish(a) PROVE CInv'
  <2>1. Same BY <1>18 DEF Counted, Finish, StartPC, JoinPC, Working, Actors, Handle, Starter, Joiner
  <2> QED BY <1>same, <2>1 DEF Same
<1>19. ASSUME NEW h \in Handles, Boot(h) PROVE CInv'
  <2>1. Same BY <1>19 DEF Counted, Counted, Boot, StartPC, JoinPC, Working, Actors, Handle, Starter, Joiner
  <2> QED BY <1>same, <2>1 DEF Same
<1>20. ASSUME NEW h \in Handles, CallbackEnds(h) PROVE CInv'
  <2>1. Same BY <1>20 DEF Counted, CallbackEnds, StartPC, JoinPC, Working, Actors, Handle, Starter, Joiner
  <2> QED BY <1>same, <2>1 DEF Same
<1>21. ASSUME NEW h \in Handles, Seal(h) PROVE CInv'
  <2>1. Same BY <1>21 DEF Counted, Seal, StartPC, JoinPC, Working, Actors, Handle, Starter, Joiner
  <2> QED BY <1>same, <2>1 DEF Same
<1>22. CASE Shutdown
  <2>1. Same BY <1>22 DEF Shutdown, Counted
  <2> QED BY <1>same, <2>1 DEF Same
<1>23. CASE UNCHANGED vars
  <2>1. Same BY <1>23 DEF vars, Counted
  <2> QED BY <1>same, <2>1 DEF Same
<1> QED BY <1>1, <1>2, <1>3, <1>4, <1>5, <1>6, <1>7, <1>8, <1>9, <1>10, <1>11, <1>12, <1>13, <1>14, <1>15, <1>16, <1>17, <1>18, <1>19, <1>20, <1>21, <1>22, <1>23 DEF Next, Step, WorkerStep, Ended, Actors

-----------------------------------------------------------------------------
(* The theorems *)

Inv == TInv /\ IInv /\ Frozen /\ CInv

LEMMA InvInit == Init => Inv
<1> SUFFICES ASSUME Init PROVE Inv OBVIOUS
<1> USE ThreadAssumption DEF Init, Actors
<1>1. TInv
  <2>1. "none" \in PC /\ "user" \in PC BY DEF PC
  <2>2. pc \in [Actors -> PC] BY <2>1
  <2>3. arg \in [Actors -> Handles \cup {None}] OBVIOUS
  <2>4. /\ state \in [Handles -> {"none", "running", "joining", "joined", "freed", "lost"}]
        /\ store \in [Handles -> {"none", "open", "sealed", "released"}]
        /\ ended \in [Handles -> {"none", "value", "error"}]
        /\ got \in [Handles -> {"none", "value", "error", "lost"}]
    OBVIOUS
  <2>5. policies \subseteq Handles /\ live \in Int /\ once \in {"new", "done", "stuck"}
    OBVIOUS
  <2>6. frozen \in BOOLEAN /\ lock \in Actors \cup {None} /\ process \in {"up", "down", "aborted"}
    OBVIOUS
  <2> QED BY ONLY <2>2, <2>3, <2>4, <2>5, <2>6 DEF TInv
<1>2. Operating BY DEF Operating, Working, StartPC, JoinPC
<1>3. ASSUME NEW h \in Handles PROVE Handle(h) BY DEF Handle
<1>4. Hooked BY DEF Hooked, Working, StartPC, JoinPC
<1>5. Frozen BY DEF Frozen
<1>6. CInv
  <2>1. Counted = {} BY DEF Counted
  <2> QED BY <2>1, FS_EmptySet DEF CInv
<1> QED BY <1>1, <1>2, <1>3, <1>4, <1>5, <1>6 DEF Inv, IInv

LEMMA InvStep == Inv /\ [Next]_vars => Inv'
BY TStep, OperatingStep, HandleStep, HookedStep, FrozenStep, CountStep DEF Inv, IInv

LEMMA Invariant == Spec => []Inv
BY InvInit, InvStep, PTL DEF Spec

\* What the state variables of the handles, the threads and the process hold.
THEOREM TypesHold == Spec => []TypeOK
<1>1. Inv => TypeOK
  <2> SUFFICES ASSUME Inv PROVE TypeOK OBVIOUS
  <2>1. Counted \subseteq Handles BY DEF Counted
  <2>2. live \in Nat /\ live <= Cardinality(Handles) /\ Cardinality(Handles) \in Nat
    BY <2>1, ThreadAssumption, FS_Subset, FS_CardinalityType DEF Inv, CInv
  <2>3. live \in 0..Cardinality(Handles) BY <2>2
  <2> QED BY <2>3 DEF Inv, TInv, TypeOK
<1> QED BY <1>1, Invariant, PTL

\* A join exports from stores that the worker has sealed, that exist, and
\* that no other join touches.
THEOREM OneOwnerHolds == Spec => []OneOwner
<1>1. Inv => OneOwner
  BY DEF Inv, TInv, IInv, Operating, Handle, Working, JoinPC, OneOwner
<1> QED BY <1>1, Invariant, PTL

\* No declaration of a class is under way once a worker may look one up.
THEOREM RegistryIsStable == Spec => []RegistryStable
<1>1. Inv => RegistryStable
  BY DEF Inv, TInv, Frozen, RegistryStable
<1> QED BY <1>1, Invariant, PTL

\* A process that leaves has no worker, store or policy left; one that aborts
\* has a worker that was started and not joined.
THEOREM ExitsAreReal == Spec => []ExitIsReal
<1>1. ASSUME Inv, Shutdown PROVE ExitIsReal'
  <2> USE <1>1 DEF Inv, TInv
  <2>1. pc[Main] = "user" /\ pc' = pc /\ state' = state /\ store' = store /\ policies' = policies
    BY <1>1 DEF Shutdown, handleVars
  <2>2. \A a \in Actors : pc[a] \in Working => a \in Handles
    BY <2>1 DEF Actors, Working, StartPC, JoinPC
  <2>3. \A h \in Handles : pc[h] \notin {"none", "ended"} => state[h] \in {"running", "joining"}
    BY DEF IInv, Handle
  <2>4. CASE process' = "down" /\ once = "done"
    <3>1. Counted = {}
      BY <1>1, <2>4, CountedFinite, FS_EmptySet DEF Shutdown, CInv
    <3>2. ASSUME NEW h \in Handles, pc[h] \notin {"none", "ended"} PROVE FALSE
      BY <2>3, <3>1, <3>2 DEF Counted, IInv, Operating, Working, StartPC, JoinPC
    <3>3. \A a \in Actors : pc[a] \notin Working
      BY <2>2, <3>2 DEF Working, StartPC, JoinPC
    <3>4. ASSUME NEW h \in Handles PROVE store[h] \in {"none", "released"}
      <4>1. CASE pc[h] = "ended"
        <5>1. state[h] \notin {"none", "lost"} BY <4>1 DEF IInv, Handle
        <5>2. state[h] \notin {"running", "joining"}
          BY <3>1, <3>3 DEF Counted, Working, StartPC, JoinPC
        <5> QED BY <4>1, <5>1, <5>2 DEF IInv, Handle
      <4>2. CASE pc[h] = "none" BY <4>2 DEF IInv, Handle
      <4> QED BY <3>2, <4>1, <4>2
    <3>5. ASSUME NEW h \in policies PROVE state[h] = "lost"
      <4>1. pc[h] = "none" BY <3>2 DEF IInv, Handle
      <4>2. \A a \in Actors : ~Starter(a, h) BY <3>3 DEF Starter, Working
      <4> QED BY <4>1, <4>2 DEF IInv, Handle
    <3> QED BY <2>1, <2>4, <3>2, <3>4, <3>5 DEF ExitIsReal
  <2>5. CASE process' = "down" /\ once # "done"
    <3>1. \A h \in Handles : pc[h] = "none" BY <2>5 DEF IInv, Hooked
    <3>2. \A a \in Actors : pc[a] \notin Working BY <2>2, <3>1 DEF Working, StartPC, JoinPC
    <3>3. ASSUME NEW h \in policies PROVE state[h] = "lost"
      BY <3>1, <3>2 DEF IInv, Handle, Starter, Working
    <3> QED BY <2>1, <2>5, <3>1, <3>3 DEF ExitIsReal, IInv, Handle
  <2>6. CASE process' = "aborted"
    <3>1. live # 0 BY <1>1, <2>6 DEF Shutdown
    <3>2. Counted # {} BY <3>1, FS_EmptySet DEF CInv
    <3>3. PICK h \in Handles : state[h] \in {"running", "joining"} BY <3>2 DEF Counted
    <3>4. CASE pc[h] # "none" BY <2>1, <2>6, <3>3, <3>4 DEF ExitIsReal
    <3>5. CASE pc[h] = "none"
      <4>1. PICK a \in Actors : Starter(a, h) BY <3>3, <3>5 DEF IInv, Handle
      <4>2. a \in Handles /\ pc[a] # "none" /\ pc[a] # "ended"
        BY <2>2, <4>1 DEF Starter, Working, StartPC
      <4> QED BY <2>1, <2>3, <2>6, <4>2 DEF ExitIsReal
    <3> QED BY <3>4, <3>5
  <2>7. process' \in {"down", "aborted"} BY <1>1 DEF Shutdown
  <2> QED BY <2>4, <2>5, <2>6, <2>7
<1>2. ASSUME ExitIsReal, UNCHANGED vars PROVE ExitIsReal'
  BY <1>2 DEF ExitIsReal, vars, handleVars
<1>3. ASSUME process' = "up" PROVE ExitIsReal'
  BY <1>3 DEF ExitIsReal
<1>4. ASSUME NEW a \in Actors, Step(a) PROVE process' = "up"
  BY <1>4 DEF Step, StartNew, JoinClaim, Free, StartOnce, StartOnceRaises, StartCount, StartLock,
              StartCreate, StartEnd, CreateFails, StartUndo, RegisterBegin, RegisterEnd,
              JoinWait, JoinFails, Joined, Export, Finish, Goto
<1>5. ASSUME NEW h \in Handles, Boot(h) \/ CallbackEnds(h) \/ Seal(h) PROVE process' = "up"
  BY <1>5 DEF Boot, CallbackEnds, Seal, Goto
<1>6. Inv /\ ExitIsReal /\ [Next]_vars => ExitIsReal'
  BY <1>1, <1>2, <1>3, <1>4, <1>5 DEF Next, WorkerStep, Ended, Actors
<1>7. Init => ExitIsReal
  BY DEF Init, ExitIsReal
<1> QED BY <1>6, <1>7, Invariant, PTL DEF Spec

-----------------------------------------------------------------------------
(* A handle is a future                                                    *)

StatusOf(s, g, p) ==
  CASE s = "freed" /\ g # "none" -> "gone"
    [] s # "freed" /\ g # "none" -> "taken"
    [] g = "none" /\ p = "ended" -> "settled"
    [] p = "none"                -> "new"
    [] OTHER                     -> "pending"
StatusBar == [h \in Handles |-> StatusOf(state[h], got[h], pc[h])]
OutcomeBar == [h \in Handles |-> IF pc[h] = "ended" THEN ended[h] ELSE "none"]

LEMMA StatusTaken ==
  \A s, g, p : g # "none" /\ p # "none" => StatusOf(s, g, p) = IF s = "freed" THEN "gone" ELSE "taken"
BY DEF StatusOf

LEMMA StatusNow ==
  /\ [h \in Handles |-> HandleStatus(h)] = StatusBar
  /\ [h \in Handles |-> HandleStatus(h)]' = StatusBar'
  /\ [h \in Handles |-> IF pc[h] = "ended" THEN ended[h] ELSE "none"] = OutcomeBar
  /\ [h \in Handles |-> IF pc[h] = "ended" THEN ended[h] ELSE "none"]' = OutcomeBar'
BY DEF HandleStatus, StatusBar, StatusOf, OutcomeBar

\* The steps that a future does not see.
LEMMA FutureStutters ==
  ASSUME \A h \in Handles : /\ pc'[h] = "none" <=> pc[h] = "none"
                            /\ pc'[h] = "ended" <=> pc[h] = "ended"
                            /\ pc[h] = "ended" => ended'[h] = ended[h]
                            /\ got[h] # "none" => (state'[h] = "freed" <=> state[h] = "freed"),
         got' = got
  PROVE  UNCHANGED <<StatusBar, OutcomeBar, got>>
<1>1. \A h \in Handles : StatusOf(state'[h], got'[h], pc'[h]) = StatusOf(state[h], got[h], pc[h])
  BY DEF StatusOf
<1>2. StatusBar' = StatusBar BY <1>1 DEF StatusBar
<1>3. OutcomeBar' = OutcomeBar BY DEF OutcomeBar
<1> QED BY <1>2, <1>3

\* The worker of k has begun or ended iff it had.
SamePlace(k) == (pc'[k] = "none" <=> pc[k] = "none") /\ (pc'[k] = "ended" <=> pc[k] = "ended")

\* A step that a future sees concerns one handle.
LEMMA BarChanges ==
  ASSUME NEW h \in Handles,
         \A k \in Handles \ {h} : SamePlace(k) /\ UNCHANGED <<ended[k], got[k], state[k]>>
  PROVE  /\ StatusBar' = [StatusBar EXCEPT ![h] = StatusOf(state'[h], got'[h], pc'[h])]
         /\ OutcomeBar' = [OutcomeBar EXCEPT ![h] = IF pc'[h] = "ended" THEN ended'[h] ELSE "none"]
<1>1. \A k \in Handles \ {h} :
        StatusOf(state'[k], got'[k], pc'[k]) = StatusOf(state[k], got[k], pc[k])
  BY DEF StatusOf, SamePlace
<1>2. StatusBar' = [StatusBar EXCEPT ![h] = StatusOf(state'[h], got'[h], pc'[h])]
  BY <1>1 DEF StatusBar
<1>3. \A k \in Handles \ {h} : (IF pc'[k] = "ended" THEN ended'[k] ELSE "none") =
                               IF pc[k] = "ended" THEN ended[k] ELSE "none"
  BY DEF SamePlace
<1>4. OutcomeBar' = [OutcomeBar EXCEPT ![h] = IF pc'[h] = "ended" THEN ended'[h] ELSE "none"]
  BY <1>3 DEF OutcomeBar
<1> QED BY <1>2, <1>4

\* What the actions of Future mean for the state of a handle.
LEMMA FutureActions ==
  ASSUME NEW h \in Handles
  PROVE  /\ StatusBar[h] = "new" /\ StatusBar' = [StatusBar EXCEPT ![h] = "pending"]
            /\ UNCHANGED <<OutcomeBar, got>> => Promise!Begin(h)
         /\ \A how \in {"value", "error"} :
              StatusBar[h] = "pending" /\ StatusBar' = [StatusBar EXCEPT ![h] = "settled"]
              /\ OutcomeBar' = [OutcomeBar EXCEPT ![h] = how] /\ got' = got
              => Promise!Settle(h, how)
         /\ \A what \in {OutcomeBar[h], "lost"} :
              StatusBar[h] = "settled" /\ StatusBar' = [StatusBar EXCEPT ![h] = "taken"]
              /\ OutcomeBar' = OutcomeBar /\ got' = [got EXCEPT ![h] = what]
              => Promise!Deliver(h)
         /\ StatusBar[h] = "taken" /\ StatusBar' = [StatusBar EXCEPT ![h] = "gone"]
            /\ UNCHANGED <<OutcomeBar, got>> => Promise!Discard(h)
<1>1. StatusBar[h] = "new" /\ StatusBar' = [StatusBar EXCEPT ![h] = "pending"]
      /\ UNCHANGED <<OutcomeBar, got>> => Promise!Begin(h)
  BY StatusNow DEF Promise!Begin
<1>2. ASSUME NEW how \in {"value", "error"},
             StatusBar[h] = "pending", StatusBar' = [StatusBar EXCEPT ![h] = "settled"],
             OutcomeBar' = [OutcomeBar EXCEPT ![h] = how], got' = got
      PROVE  Promise!Settle(h, how)
  BY <1>2, StatusNow DEF Promise!Settle
<1>3. ASSUME NEW what \in {OutcomeBar[h], "lost"},
             StatusBar[h] = "settled", StatusBar' = [StatusBar EXCEPT ![h] = "taken"],
             OutcomeBar' = OutcomeBar, got' = [got EXCEPT ![h] = what]
      PROVE  Promise!Deliver(h)
  BY <1>3, StatusNow DEF Promise!Deliver
<1>4. StatusBar[h] = "taken" /\ StatusBar' = [StatusBar EXCEPT ![h] = "gone"]
      /\ UNCHANGED <<OutcomeBar, got>> => Promise!Discard(h)
  BY StatusNow DEF Promise!Discard
<1> QED BY <1>1, <1>2, <1>3, <1>4

LEMMA FutureBegins ==
  ASSUME TInv, NEW h \in Handles, pc[h] = "none", got[h] = "none", pc'[h] = "boot",
         \A k \in Handles \ {h} : SamePlace(k),
         UNCHANGED handleVars
  PROVE  Promise!Begin(h)
<1>1. UNCHANGED <<state, ended, got>> BY DEF handleVars
<1>2. StatusBar[h] = "new" BY DEF StatusBar, StatusOf
<1>3. StatusOf(state'[h], got'[h], pc'[h]) = "pending" BY <1>1 DEF StatusOf
<1>4. OutcomeBar[h] = "none" BY DEF OutcomeBar
<1>5. OutcomeBar' = OutcomeBar BY <1>1, <1>4, BarChanges DEF OutcomeBar
<1>6. StatusBar' = [StatusBar EXCEPT ![h] = "pending"] BY <1>1, <1>3, BarChanges
<1> QED BY ONLY <1>1, <1>2, <1>5, <1>6, FutureActions, h \in Handles

LEMMA FutureSettles ==
  ASSUME TInv, NEW h \in Handles, pc[h] = "seal", got[h] = "none", pc' = [pc EXCEPT ![h] = "ended"],
         ended[h] \in {"value", "error"}, UNCHANGED <<state, ended, got>>
  PROVE  \E how \in {"value", "error"} : Promise!Settle(h, how)
<1>0. pc'[h] = "ended" /\ \A k \in Handles \ {h} : pc'[k] = pc[k] BY DEF TInv, Actors
<1>5. \A k \in Handles \ {h} : SamePlace(k) BY <1>0 DEF SamePlace
<1>1. StatusBar[h] = "pending" BY DEF StatusBar, StatusOf
<1>2. StatusOf(state'[h], got'[h], pc'[h]) = "settled" BY <1>0 DEF StatusOf
<1>3. StatusBar' = [StatusBar EXCEPT ![h] = "settled"] BY <1>2, <1>5, BarChanges
<1>4. OutcomeBar' = [OutcomeBar EXCEPT ![h] = ended[h]] BY <1>0, <1>5, BarChanges
<1> QED BY <1>1, <1>3, <1>4, FutureActions

LEMMA FutureDelivers ==
  ASSUME TInv, NEW h \in Handles, pc[h] = "ended", got[h] = "none",
         \A k \in Handles : SamePlace(k),
         NEW what \in {ended[h], "lost"}, got' = [got EXCEPT ![h] = what], what # "none",
         state[h] # "freed", UNCHANGED <<state, ended>>
  PROVE  Promise!Deliver(h)
<1>0. got'[h] = what /\ \A k \in Handles \ {h} : got'[k] = got[k] BY DEF TInv
<1>1. StatusBar[h] = "settled" /\ OutcomeBar[h] = ended[h] BY DEF StatusBar, StatusOf, OutcomeBar
<1>2. StatusOf(state'[h], got'[h], pc'[h]) = "taken"
  <2>1. pc'[h] = "ended" BY DEF SamePlace
  <2> QED BY ONLY <1>0, <2>1, StatusTaken, what # "none", state[h] # "freed", state' = state
<1>3. StatusBar' = [StatusBar EXCEPT ![h] = "taken"] BY <1>0, <1>2, BarChanges
<1>4. OutcomeBar' = OutcomeBar BY DEF OutcomeBar, SamePlace
<1> QED BY ONLY <1>1, <1>3, <1>4, FutureActions, h \in Handles, what \in {ended[h], "lost"},
                got' = [got EXCEPT ![h] = what]

LEMMA FutureDiscards ==
  ASSUME TInv, NEW h \in Handles, got[h] # "none", pc[h] # "none", state[h] # "freed",
         state' = [state EXCEPT ![h] = "freed"], UNCHANGED <<pc, ended, got>>
  PROVE  Promise!Discard(h)
<1>0. state'[h] = "freed" /\ \A k \in Handles \ {h} : state'[k] = state[k] BY DEF TInv
<1>5. \A k \in Handles : SamePlace(k) BY DEF SamePlace
<1>1. StatusBar[h] = "taken" BY StatusTaken DEF StatusBar
<1>2. StatusOf(state'[h], got'[h], pc'[h]) = "gone" BY <1>0, StatusTaken
<1>3. StatusBar' = [StatusBar EXCEPT ![h] = "gone"] BY <1>0, <1>2, <1>5, BarChanges
<1>4. OutcomeBar' = OutcomeBar BY DEF OutcomeBar
<1> QED BY ONLY <1>1, <1>3, <1>4, FutureActions, h \in Handles, got' = got

LEMMA FutureStep ==
  ASSUME TInv, IInv, [Next]_vars
  PROVE  [Promise!Next]_(Promise!vars)
<1> DEFINE Stutter == /\ got' = got
                      /\ \A h \in Handles :
                           /\ pc'[h] = "none" <=> pc[h] = "none"
                           /\ pc'[h] = "ended" <=> pc[h] = "ended"
                           /\ pc[h] = "ended" => ended'[h] = ended[h]
                           /\ got[h] # "none" => (state'[h] = "freed" <=> state[h] = "freed")
<1> USE ThreadAssumption DEF TInv, IInv, Operating, handleVars, registryVars, Goto
<1>0. \A h \in Handles : pc[h] # "ended" => got[h] = "none"
  BY DEF Handle, Joiner, Working
<1>1. ASSUME NEW a \in Actors, NEW h \in Handles, StartNew(a, h) PROVE Stutter
  BY <1>1, <1>0 DEF StartNew, StartPC, JoinPC, Working, Actors, Handle
<1>2. ASSUME NEW a \in Actors, NEW h \in Handles, JoinClaim(a, h) PROVE Stutter
  BY <1>2, <1>0 DEF JoinClaim, Usable, StartPC, JoinPC, Working, Actors, Handle
<1>3. ASSUME NEW a \in Actors, StartOnce(a) PROVE Stutter
  BY <1>3, <1>0 DEF StartOnce, StartPC, JoinPC, Working, Actors, Handle
<1>4. ASSUME NEW a \in Actors, StartOnceRaises(a) PROVE Stutter
  BY <1>4, <1>0 DEF StartOnceRaises, StartPC, JoinPC, Working, Actors, Handle
<1>5. ASSUME NEW a \in Actors, StartCount(a) PROVE Stutter
  BY <1>5, <1>0 DEF StartCount, StartPC, JoinPC, Working, Actors, Handle
<1>6. ASSUME NEW a \in Actors, StartLock(a) PROVE Stutter
  BY <1>6, <1>0 DEF StartLock, StartPC, JoinPC, Working, Actors, Handle
<1>7. ASSUME NEW a \in Actors, StartEnd(a) PROVE Stutter
  BY <1>7, <1>0 DEF StartEnd, StartPC, JoinPC, Working, Actors, Handle
<1>8. ASSUME NEW a \in Actors, CreateFails(a) PROVE Stutter
  BY <1>8, <1>0 DEF CreateFails, StartPC, JoinPC, Working, Actors, Handle
<1>9. ASSUME NEW a \in Actors, StartUndo(a) PROVE Stutter
  BY <1>9, <1>0 DEF StartUndo, StartPC, JoinPC, Working, Actors, Handle
<1>10. ASSUME NEW a \in Actors, RegisterBegin(a) PROVE Stutter
  BY <1>10, <1>0 DEF RegisterBegin, StartPC, JoinPC, Working, Actors, Handle
<1>11. ASSUME NEW a \in Actors, RegisterEnd(a) PROVE Stutter
  BY <1>11, <1>0 DEF RegisterEnd, StartPC, JoinPC, Working, Actors, Handle
<1>12. ASSUME NEW a \in Actors, JoinWait(a) PROVE Stutter
  BY <1>12, <1>0 DEF JoinWait, StartPC, JoinPC, Working, Actors, Handle
<1>13. ASSUME NEW a \in Actors, JoinFails(a) PROVE Stutter
  BY <1>13, <1>0 DEF JoinFails, StartPC, JoinPC, Working, Actors, Handle
<1>14. ASSUME NEW a \in Actors, Joined(a) PROVE Stutter
  BY <1>14, <1>0 DEF Joined, StartPC, JoinPC, Working, Actors, Handle
<1>15. ASSUME NEW a \in Actors, Finish(a) PROVE Stutter
  BY <1>15, <1>0 DEF Finish, StartPC, JoinPC, Working, Actors, Handle
<1>16. ASSUME NEW h \in Handles, Boot(h) PROVE Stutter
  BY <1>16, <1>0 DEF Boot, StartPC, JoinPC, Working, Actors, Handle
<1>17. ASSUME NEW h \in Handles, CallbackEnds(h) PROVE Stutter
  BY <1>17, <1>0 DEF CallbackEnds, StartPC, JoinPC, Working, Actors, Handle
<1>18. ASSUME Shutdown \/ UNCHANGED vars PROVE Stutter
  BY <1>18 DEF Shutdown, vars
<1>19. Stutter => UNCHANGED Promise!vars
  BY FutureStutters, StatusNow DEF Promise!vars, OutcomeBar
<1>20. ASSUME NEW a \in Actors, StartCreate(a) PROVE Promise!Next
  <2>1. arg[a] \in Handles /\ pc[arg[a]] = "none" /\ got[arg[a]] = "none"
    BY <1>20 DEF StartCreate, StartPC, Working, Handle
  <2>2. /\ UNCHANGED handleVars /\ pc'[arg[a]] = "boot"
        /\ pc' = [pc EXCEPT ![a] = "created", ![arg[a]] = "boot"] /\ pc[a] = "create"
    BY <1>20, <2>1 DEF StartCreate, Actors
  <2>3. \A k \in Handles \ {arg[a]} : SamePlace(k) BY <2>1, <2>2 DEF Actors, SamePlace
  <2> QED BY ONLY <2>1, <2>2, <2>3, TInv, FutureBegins DEF Promise!Next
<1>21. ASSUME NEW h \in Handles, Seal(h) PROVE Promise!Next
  <2>1. /\ pc[h] = "seal" /\ pc' = [pc EXCEPT ![h] = "ended"] /\ UNCHANGED <<state, ended, got>>
        /\ got[h] = "none" /\ ended[h] \in {"value", "error"}
    BY <1>21, <1>0 DEF Seal, Handle
  <2> QED BY ONLY <2>1, h \in Handles, TInv, FutureSettles DEF Promise!Next
<1>22. ASSUME NEW a \in Actors, Export(a) PROVE Promise!Next
  <2>1. /\ arg[a] \in Handles /\ pc[arg[a]] = "ended" /\ got[arg[a]] = "none"
        /\ state[arg[a]] = "joining" /\ ended[arg[a]] \in {"value", "error"}
    BY <1>22 DEF Export, JoinPC, Working, Handle
  <2>2. PICK what \in {ended[arg[a]], "lost"} : got' = [got EXCEPT ![arg[a]] = what]
    BY <1>22 DEF Export
  <2>3. UNCHANGED <<state, ended>> BY <1>22 DEF Export
  <2>4. \A k \in Handles : SamePlace(k) BY <1>22 DEF Export, Actors, SamePlace
  <2> QED BY ONLY <2>1, <2>2, <2>3, <2>4, TInv, FutureDelivers DEF Promise!Next
<1>23. ASSUME NEW a \in Actors, NEW h \in Handles, Free(a, h) PROVE Promise!Next
  <2>1. state[h] = "joined" /\ state' = [state EXCEPT ![h] = "freed"] /\ UNCHANGED <<pc, ended, got>>
    BY <1>23 DEF Free
  <2>2. got[h] # "none" /\ pc[h] # "none" BY <2>1 DEF Handle
  <2> QED BY ONLY <2>1, <2>2, h \in Handles, TInv, FutureDiscards DEF Promise!Next
<1> QED BY <1>1, <1>2, <1>3, <1>4, <1>5, <1>6, <1>7, <1>8, <1>9, <1>10, <1>11, <1>12, <1>13, <1>14, <1>15, <1>16, <1>17, <1>18, <1>19, <1>20, <1>21, <1>22, <1>23 DEF Next, Step, WorkerStep, Ended, Actors

\* A handle is a future: one join receives what its callback ended in.
THEOREM HandleIsFuture == Spec => ImplementsFuture
<1>1. Init => Promise!Init
  <2> SUFFICES ASSUME Init PROVE Promise!Init OBVIOUS
  <2>1. \A h \in Handles : pc[h] = "none" /\ got[h] = "none" /\ state[h] = "none"
    BY ThreadAssumption DEF Init, Actors
  <2>2. StatusBar = [h \in Handles |-> "new"] BY <2>1 DEF StatusBar, StatusOf
  <2>3. OutcomeBar = [h \in Handles |-> "none"] BY <2>1 DEF OutcomeBar
  <2> QED BY <2>2, <2>3, StatusNow DEF Init, Promise!Init, OutcomeBar
<1>2. Inv /\ [Next]_vars => [Promise!Next]_(Promise!vars)
  BY FutureStep DEF Inv
<1> QED BY <1>1, <1>2, Invariant, PTL DEF Spec, ImplementsFuture, Promise!Spec
=============================================================================
