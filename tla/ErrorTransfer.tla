--------------------------- MODULE ErrorTransfer ---------------------------
(***************************************************************************)
(* One thread's errors: lib/exception.x, lib/error/dispatch.x,             *)
(* lib/error/handlers.x and the code the compiler emits for try, catch,    *)
(* finally and defer (src/src/components/try-catch.x).                     *)
(*                                                                         *)
(* The program is any structured one: from wherever its code runs it may   *)
(* open a try, a defer or an observing handler (Error.push with a deferred *)
(* Error.pop), raise, or end the innermost region.  `stack' is the C stack,*)
(* so a region is named by its position; the chains the runtime keeps      *)
(* beside it are the module's other variables.  A pointer into a chain is  *)
(* the path from the chain's root to the object, so prev is Front, NULL is *)
(* <<>>, and "is in the chain" is IsPrefix.                                *)
(***************************************************************************)
EXTENDS Naturals, Sequences, FiniteSets, SequencesExt

CONSTANTS MaxOpen,        \* bound: regions open at once
          ERROR_BOUND,    \* Error.bound: a record beyond it ends the process
          ERROR_MAX_DEPTH,
          CallbackOpens,  \* what an observing handler's callback may open
          CleanupOpens    \* what a finally or defer body may open

Kinds == {"catch", "finally", "both", "defer", "watch"}

ASSUME BoundsAssumption == /\ MaxOpen \in Nat /\ ERROR_BOUND \in Nat
                           /\ ERROR_MAX_DEPTH \in Nat \ {0}
                           /\ CallbackOpens \subseteq Kinds /\ CleanupOpens \subseteq Kinds

VARIABLES
  stack,     \* activations, outermost first
  handlers,  \* handler_top
  saved,     \* dispatch_saved: the chain at the outermost dispatch
  running,   \* dispatch_running: the handler whose callback runs
  arms,      \* running_top: the detached catches, by region
  cleanups,  \* cleanup_top
  frames,    \* exception_top
  errs,      \* Error.count
  depth,     \* Error.depth
  floor      \* why the process ended, or "none"

vars == <<stack, handlers, saved, running, arms, cleanups, frames, errs, depth, floor>>
chains == <<handlers, saved, running, arms>>

Top == Len(stack)
Now == stack[Top]
Below == Front(stack)

(* The program's own code runs in these phases; elsewhere the runtime does. *)
Coding == floor = "none" /\ Now.phase \in {"body", "arm", "finally"}

(* A transfer abandons what lies between its landing frame and itself. *)
Live(p) == \A q \in p + 1 .. Top : stack[q].phase = "drain" => p <= stack[q].frame

InCallback == \E p \in 1..Top : Live(p) /\ stack[p].kind = "callback"
InCleanup == \E p \in 1..Top : Live(p) /\ (stack[p].kind = "thunk" \/ stack[p].phase = "finally")

Regions == {p \in 1..Top : stack[p].kind \in {"try", "defer", "watch"}}

MayOpen(k) == /\ Coding /\ Cardinality(Regions) < MaxOpen
              /\ InCallback => k \in CallbackOpens
              /\ InCleanup => k \in CleanupOpens

Init == /\ stack = <<[kind |-> "main", phase |-> "body"]>>
        /\ handlers = <<>> /\ saved = <<>> /\ running = <<>> /\ arms = <<>>
        /\ cleanups = <<>> /\ frames = <<>>
        /\ errs = 0 /\ depth = 0 /\ floor = "none"

Fatal(why) == floor' = why /\ UNCHANGED <<stack, chains, cleanups, frames, errs, depth>>

-----------------------------------------------------------------------------
(* Registration *)

Handler(kind) == [at |-> Top + 1, kind |-> kind, mark |-> errs]

(* The count once the handlers of chain beyond its first n are freed and   *)
(* the records cut to `height'.                                            *)
CutTo(chain, n, height) ==
  Min({errs, height} \cup {chain[i].mark : i \in n + 1 .. Len(chain)})

(* x2c_error_catch_site_push, with no arm fenced. *)
PushedCatch == Append(handlers, Handler("catch"))

OpenTry(k) ==
  LET hasCatch == k \in {"catch", "both"}
      handle == IF hasCatch THEN PushedCatch ELSE <<>>
  IN /\ MayOpen(k)
     /\ handlers' = IF hasCatch THEN handle ELSE handlers
     /\ stack' = Append(stack,
          [kind |-> "try", phase |-> "body", handle |-> handle, fin |-> k # "catch",
           state |-> "active", target |-> 0, claimed |-> FALSE, runs |-> 0,
           prev |-> frames, watermark |-> cleanups, head |-> handlers',
           depth |-> depth, height |-> errs])
     /\ frames' = Append(frames, Top + 1)
     /\ UNCHANGED <<saved, running, arms, cleanups, errs, depth, floor>>

OpenDefer == /\ MayOpen("defer")
             /\ stack' = Append(stack, [kind |-> "defer", phase |-> "body", runs |-> 0])
             /\ cleanups' = Append(cleanups, Top + 1)
             /\ UNCHANGED <<chains, frames, errs, depth, floor>>

OpenWatch == /\ MayOpen("watch")
             /\ handlers' = Append(handlers, Handler("watch"))
             /\ stack' = Append(stack, [kind |-> "watch", phase |-> "body", runs |-> 0,
                                        handle |-> handlers'])
             /\ cleanups' = Append(cleanups, Top + 1)
             /\ UNCHANGED <<saved, running, arms, frames, errs, depth, floor>>

-----------------------------------------------------------------------------
(* Raising and dispatch *)

(* _record and _record_n: one record more, or the floor at the bound. *)
Recorded(rest) == IF errs >= ERROR_BOUND THEN Fatal("error stack exceeded its bound")
                  ELSE errs' = errs + 1 /\ rest

(* _dispatch, up to the first handler it offers the record to. *)
Dispatched(code) ==
  /\ saved' = IF saved = <<>> THEN handlers ELSE saved
  /\ stack' = Append(stack,
       [kind |-> "dispatch", phase |-> "offer", code |-> code, raisedAt |-> errs,
        chain |-> handlers, outer |-> saved, outerRunning |-> running, offer |-> handlers])
  /\ UNCHANGED <<handlers, running, arms, cleanups, frames, floor>>

(* "hard": a shared non-returning cause; "soft": any other. *)
Raise(code) ==
  /\ Coding
  /\ IF depth >= ERROR_MAX_DEPTH THEN Fatal("raise re-entered")
     ELSE Recorded(depth' = depth + 1 /\ Dispatched(code))

Offering(kind) == /\ floor = "none" /\ Now.phase = "offer" /\ Now.offer # <<>>
                  /\ Last(Now.offer).kind = kind

Decline == stack' = [stack EXCEPT ![Top].offer = Front(@)]

(* A catch whose arms do not match, or whose slice was already consumed. *)
CatchDeclines == /\ Offering("catch")
                 /\ Decline
                 /\ running' = Now.offer /\ handlers' = Front(Now.offer)
                 /\ UNCHANGED <<saved, arms, cleanups, frames, errs, depth, floor>>

CatchSelectsHidden == /\ Offering("catch")   \* mutant: the hidden chain stays in force
                      /\ errs > Last(Now.offer).mark
                      /\ errs' = Last(Now.offer).mark
                      /\ handlers' = Now.offer
                      /\ saved' = <<>> /\ running' = <<>>
                      /\ depth' = depth - 1
                      /\ stack' = Append(stack, [kind |-> "unwind", phase |-> "transfer",
                                                 target |-> Last(Now.offer).at])
                      /\ UNCHANGED <<arms, cleanups, frames, floor>>

(* _catch_retain: the slice moves from the record stack to the handle. *)
Retain(handle) == errs > Last(handle).mark /\ errs' = Last(handle).mark

(* The slice is retained, _transfer hands the saved chain back, and the    *)
(* unwind starts.                                                          *)
CatchSelects == /\ Offering("catch")
                /\ Retain(Now.offer)
                /\ handlers' = saved
                /\ saved' = <<>> /\ running' = <<>>
                /\ depth' = depth - 1
                /\ stack' = Append(stack, [kind |-> "unwind", phase |-> "transfer",
                                           target |-> Last(Now.offer).at])
                /\ UNCHANGED <<arms, cleanups, frames, floor>>

(* The callback's view is destroyed by a cleanup record of _observe. *)
Observe == /\ Offering("watch")
           /\ running' = Now.offer /\ handlers' = Front(Now.offer)
           /\ stack' = Append(stack, [kind |-> "callback", phase |-> "body", runs |-> 0])
           /\ cleanups' = Append(cleanups, Top + 1)
           /\ UNCHANGED <<saved, arms, frames, errs, depth, floor>>

EndDispatchClears ==   \* mutant: a nested dispatch forgets the outer one
  /\ stack' = Below
  /\ handlers' = Now.chain /\ saved' = <<>> /\ running' = Now.outerRunning
  /\ depth' = depth - 1

EndDispatch ==
  /\ stack' = Below
  /\ handlers' = Now.chain /\ saved' = Now.outer /\ running' = Now.outerRunning
  /\ depth' = depth - 1

CallbackReturnsRegistered(disposition) ==   \* mutant: the view's record stays linked
  /\ Coding /\ Now.kind = "callback"
  /\ stack' = [Below EXCEPT ![Top - 1].phase = disposition,
                           ![Top - 1].offer = IF disposition = "offer" THEN Front(@) ELSE @]
  /\ UNCHANGED <<chains, cleanups, frames, errs, depth, floor>>

CallbackReturns(disposition) ==
  /\ Coding /\ Now.kind = "callback"
  /\ IF cleanups = <<>> \/ Last(cleanups) # Top THEN Fatal("cleanup chain imbalance")
     ELSE /\ cleanups' = Front(cleanups)
          /\ stack' = [Below EXCEPT ![Top - 1].phase = disposition,
                                   ![Top - 1].offer = IF disposition = "offer" THEN Front(@) ELSE @]
          /\ UNCHANGED <<chains, frames, errs, depth, floor>>

(* <handled> consumes the handler's slice; it cannot consume a hard error. *)
Handled ==
  /\ floor = "none" /\ Now.phase = "handled"
  /\ IF Now.code = "hard" THEN Fatal("uncaught")
     ELSE /\ errs' = CutTo(<<>>, 0, Last(Now.offer).mark)
          /\ EndDispatch
          /\ UNCHANGED <<arms, cleanups, frames, floor>>

(* Everyone declined: the policy keeps or drops the records, or ends it all. *)
ApplyPolicy(policy) ==
  /\ floor = "none" /\ Now.phase = "offer" /\ Now.offer = <<>>
  /\ IF Now.code = "hard" \/ policy = "abort" THEN Fatal("uncaught")
     ELSE /\ errs' = IF policy = "collect" THEN errs ELSE CutTo(<<>>, 0, Now.raisedAt)
          /\ EndDispatch
          /\ UNCHANGED <<arms, cleanups, frames, floor>>

-----------------------------------------------------------------------------
(* ExceptionFrame.unwind *)

(* _unwind_to, down to the handler that leaves n registered. *)
UnwoundTo(n) == SubSeq(handlers, 1, Min({n, Len(handlers)}))

(* Error.trim: free the handlers registered inside the frame. *)
TrimmedHandlers(f) == IF IsPrefix(f.head, handlers) THEN UnwoundTo(Len(f.head)) ELSE handlers
TrimmedErrs(f, unwinding) ==
  CutTo(handlers, Len(TrimmedHandlers(f)), IF unwinding THEN f.height ELSE errs)

Transferring == floor = "none" /\ Now.phase = "transfer"
Landable == frames # <<>> /\ ~stack[Last(frames)].claimed

(* A frame running its own finalizer has landed already: it is skipped. *)
Abandon == LET f == stack[Last(frames)] IN
           /\ Transferring /\ frames # <<>> /\ f.claimed
           /\ frames' = f.prev
           /\ handlers' = TrimmedHandlers(f)
           /\ errs' = TrimmedErrs(f, f.state = "unwind")
           /\ UNCHANGED <<stack, saved, running, arms, cleanups, depth, floor>>

Unwind ==
  /\ Transferring /\ (frames = <<>> \/ Landable)
  /\ IF Now.target \notin ToSet(frames) THEN Fatal("invalid unwind target")
     ELSE /\ stack' = [stack EXCEPT ![Last(frames)].state = "unwind",
                                    ![Last(frames)].target = Now.target,
                                    ![Top] = [kind |-> "unwind", phase |-> "drain",
                                              frame |-> Last(frames),
                                              height |-> errs]]  \* history only
          /\ UNCHANGED <<chains, cleanups, frames, errs, depth, floor>>

(* Drain the records newer than the landing frame's watermark; a watermark  *)
(* that is not found empties the chain and is fatal.                       *)
Draining == /\ floor = "none" /\ Now.phase = "drain"
            /\ cleanups # <<>> /\ cleanups # stack[Now.frame].watermark
Owner == stack[Last(cleanups)]
Ran(s, p) == [s EXCEPT ![p].runs = @ + 1]

(* A defer body runs above the unwind that called it. *)
DrainDefer == /\ Draining /\ Owner.kind = "defer"
              /\ cleanups' = Front(cleanups)
              /\ stack' = Append(Ran(stack, Last(cleanups)),
                   [kind |-> "thunk", phase |-> "body", drain |-> TRUE,
                    depth |-> Len(handlers), height |-> errs])
              /\ UNCHANGED <<chains, frames, errs, depth, floor>>

DrainView == /\ Draining /\ Owner.kind = "callback"
             /\ cleanups' = Front(cleanups)
             /\ stack' = Ran(stack, Last(cleanups))
             /\ UNCHANGED <<chains, frames, errs, depth, floor>>

(* Error.pop of an observer: in chain order, or the process ends. *)
Pop(handle) == /\ handlers' = Front(handlers)
               /\ errs' = CutTo(<<>>, 0, Last(handle).mark)

DrainWatch ==
  /\ Draining /\ Owner.kind = "watch"
  /\ IF handlers # Owner.handle THEN Fatal("Error.pop out of order")
     ELSE /\ Pop(Owner.handle)
          /\ cleanups' = Front(cleanups)
          /\ stack' = Ran(stack, Last(cleanups))
          /\ UNCHANGED <<saved, running, arms, frames, depth, floor>>

(* Error.restore drops what the callback registered and recorded. *)
DrainedDefer ==
  /\ Coding /\ Now.kind = "thunk" /\ Now.drain
  /\ handlers' = UnwoundTo(Now.depth)
  /\ errs' = CutTo(handlers, Now.depth, Now.height)
  /\ stack' = Below
  /\ UNCHANGED <<saved, running, arms, cleanups, frames, depth, floor>>

(* Error.unwind_head, which the unwind stores in the landing frame. *)
UnwindHead == IF saved # <<>> THEN saved ELSE handlers

(* siglongjmp, then x2c_exception_landed. *)
Land ==
  LET f == Now.frame IN
     /\ floor = "none" /\ Now.phase = "drain" /\ cleanups \in {<<>>, stack[f].watermark}
     /\ floor' = IF cleanups = stack[f].watermark THEN "none" ELSE "cleanup watermark not found"
     /\ stack' = [SubSeq(stack, 1, f) EXCEPT ![f].phase = "landed"]
     /\ handlers' = IF IsPrefix(handlers, UnwindHead) THEN UnwindHead ELSE handlers
     /\ saved' = <<>> /\ running' = <<>>
     /\ depth' = stack[f].depth
     /\ UNCHANGED <<arms, cleanups, frames, errs>>

-----------------------------------------------------------------------------
(* The emitted try: landing, arms, exits and leave *)

Landed == floor = "none" /\ Now.phase = "landed"
HasCatch == Now.handle # <<>>
IsTarget == Now.state = "unwind" /\ Now.target = Top

SelectArm ==
  /\ Landed /\ HasCatch /\ IsTarget
  /\ IF handlers # Now.handle THEN Fatal("catch detach out of order")
     ELSE /\ handlers' = Front(handlers)
          /\ arms' = Append(arms, Top)
          /\ stack' = [stack EXCEPT ![Top].phase = "arm", ![Top].state = "handled"]
          /\ UNCHANGED <<saved, running, cleanups, frames, errs, depth, floor>>

LandElsewhere == /\ Landed /\ ~(HasCatch /\ IsTarget)
                 /\ stack' = [stack EXCEPT ![Top].phase = "exits"]
                 /\ UNCHANGED <<chains, cleanups, frames, errs, depth, floor>>

EndBody == /\ Coding /\ Now.kind = "try" /\ Now.phase \in {"body", "arm"}
           /\ stack' = [stack EXCEPT ![Top].phase = "exits"]
           /\ UNCHANGED <<chains, cleanups, frames, errs, depth, floor>>

(* The exits of a try: the claim of a finalizer, x2c_error_catch_close of a *)
(* registered or a running catch, then the finalizer or the leave.         *)
Detached == Top \in ToSet(arms)
AfterCloseUnclaimed ==   \* mutant: the landing is not retired
  [Now EXCEPT !.handle = <<>>,
              !.runs = IF Now.fin THEN @ + 1 ELSE @,
              !.phase = IF Now.fin THEN "finally" ELSE "leave"]
AfterClose == [Now EXCEPT !.handle = <<>>, !.claimed = Now.fin,
                          !.runs = IF Now.fin THEN @ + 1 ELSE @,
                          !.phase = IF Now.fin THEN "finally" ELSE "leave"]

Exits ==
  /\ floor = "none" /\ Now.phase = "exits"
  /\ IF Now.claimed
     THEN /\ stack' = [stack EXCEPT ![Top].phase = "leave"]
          /\ UNCHANGED <<chains, cleanups, frames, errs, depth, floor>>
     ELSE IF HasCatch /\ (IF Detached THEN Last(arms) # Top ELSE handlers # Now.handle)
     THEN Fatal("catch close out of order")
     ELSE /\ arms' = IF HasCatch /\ Detached THEN Front(arms) ELSE arms
          /\ IF HasCatch /\ ~Detached THEN Pop(Now.handle) ELSE UNCHANGED <<handlers, errs>>
          /\ stack' = Append(Below, AfterClose)
          /\ UNCHANGED <<saved, running, cleanups, frames, depth, floor>>

EndFinally == /\ Coding /\ Now.phase = "finally"
              /\ stack' = [stack EXCEPT ![Top].phase = "leave"]
              /\ UNCHANGED <<chains, cleanups, frames, errs, depth, floor>>

(* A return, break or continue out of the finalizer discards the error. *)
DepartFinally == /\ Coding /\ Now.phase = "finally" /\ Now.state = "unwind"
                 /\ stack' = [stack EXCEPT ![Top].phase = "leave", ![Top].state = "handled"]
                 /\ UNCHANGED <<chains, cleanups, frames, errs, depth, floor>>

LeaveLinked ==   \* mutant: exception_top keeps naming the frame
  /\ floor = "none" /\ Now.phase = "leave"
  /\ handlers' = TrimmedHandlers(Now)
  /\ errs' = TrimmedErrs(Now, Now.state = "unwind")
  /\ stack' = IF Now.state = "unwind"
              THEN Append(Below, [kind |-> "unwind", phase |-> "transfer", target |-> Now.target])
              ELSE Below
  /\ UNCHANGED <<saved, running, arms, cleanups, frames, depth, floor>>

Leave ==
  /\ floor = "none" /\ Now.phase = "leave"
  /\ IF cleanups # Now.watermark THEN Fatal("exception frame cleanup imbalance")
     ELSE /\ handlers' = TrimmedHandlers(Now)
          /\ errs' = TrimmedErrs(Now, Now.state = "unwind")
          /\ frames' = Now.prev
          /\ stack' = IF Now.state = "unwind"
                      THEN Append(Below, [kind |-> "unwind", phase |-> "transfer",
                                          target |-> Now.target])
                      ELSE Below
          /\ UNCHANGED <<saved, running, arms, cleanups, depth, floor>>

-----------------------------------------------------------------------------
(* x2c_cleanup_leave, where a defer's region ends *)

EndDefer ==
  /\ Coding /\ Now.kind = "defer"
  /\ IF cleanups = <<>> \/ Last(cleanups) # Top THEN Fatal("cleanup chain imbalance")
     ELSE /\ cleanups' = Front(cleanups)
          /\ stack' = Append(Ran(stack, Top), [kind |-> "thunk", phase |-> "body", drain |-> FALSE])
          /\ UNCHANGED <<chains, frames, errs, depth, floor>>

DeferLeft == /\ Coding /\ Now.kind = "thunk" /\ ~Now.drain
             /\ stack' = Front(Below)
             /\ UNCHANGED <<chains, cleanups, frames, errs, depth, floor>>

EndWatch ==
  /\ Coding /\ Now.kind = "watch"
  /\ IF cleanups = <<>> \/ Last(cleanups) # Top THEN Fatal("cleanup chain imbalance")
     ELSE IF handlers # Now.handle THEN Fatal("Error.pop out of order")
     ELSE /\ Pop(Now.handle)
          /\ cleanups' = Front(cleanups)
          /\ stack' = Below
          /\ UNCHANGED <<saved, running, arms, frames, depth, floor>>

Next == \/ \E k \in {"catch", "finally", "both"} : OpenTry(k)
        \/ OpenDefer \/ OpenWatch
        \/ \E code \in {"hard", "soft"} : Raise(code)
        \/ CatchDeclines \/ CatchSelects \/ Observe \/ Handled
        \/ \E disposition \in {"offer", "handled"} : CallbackReturns(disposition)
        \/ \E policy \in {"abort", "ignore", "collect"} : ApplyPolicy(policy)
        \/ Abandon \/ Unwind
        \/ DrainDefer \/ DrainView \/ DrainWatch \/ DrainedDefer \/ Land
        \/ SelectArm \/ LandElsewhere \/ EndBody \/ Exits
        \/ EndFinally \/ DepartFinally \/ Leave
        \/ EndDefer \/ DeferLeft \/ EndWatch

Spec == Init /\ [][Next]_vars

-----------------------------------------------------------------------------
(* Properties *)

Ids(chain) == {chain[i].at : i \in DOMAIN chain}
Ascending(seq) == \A i, j \in DOMAIN seq : i < j => seq[i] < seq[j]

(* Every chain names activations of the C stack, innermost last, and the   *)
(* counts stay in their ranges: the depth that dispatch and a landing set, *)
(* and the records that catches, observers and frames cut.                 *)
TypeOK == /\ \A chain \in {handlers, saved, running} :
               Ascending([i \in DOMAIN chain |-> chain[i].at]) /\ Ids(chain) \subseteq 1..Top
          /\ \A chain \in {arms, cleanups, frames} :
               Ascending(chain) /\ ToSet(chain) \subseteq 1..Top
          /\ errs \in 0..ERROR_BOUND /\ depth \in 0..ERROR_MAX_DEPTH

(* What lives on the C stack: observers not yet popped, catches whose try  *)
(* body runs, and so on.                                                   *)
At(P(_)) == {p \in 1..Top : P(stack[p])}
Registered == At(LAMBDA b : \/ b.kind = "watch" /\ b.runs = 0
                            \/ b.kind = "try" /\ b.phase = "body" /\ b.handle # <<>>)
Owed == At(LAMBDA b : b.kind \in {"defer", "watch", "callback"} /\ b.runs = 0)
Entered == {p \in At(LAMBDA b : b.kind = "try") : Live(p)}
InArm == At(LAMBDA b : b.phase = "arm")

(* The span _reclaim_hidden frees when the process exits here.             *)
Hidden == IF running = <<>> THEN {}
          ELSE {saved[i].at : i \in {j \in DOMAIN saved : saved[j].at >= Last(running).at}}

(* error/runtime.x:87-93, "both chains stay disjoint from the visible one  *)
(* and nothing is reclaimed twice": wherever program code runs and could   *)
(* call exit(), every registration is in exactly one of the visible chain, *)
(* the hidden span and the running arms, and none of them names a          *)
(* registration that is gone.                                              *)
ChainsExact == Coding => /\ Ids(handlers) \cup Hidden = Registered
                         /\ Ids(handlers) \cap Hidden = {}
                         /\ ToSet(arms) = InArm

(* Outside every cleanup the transfer frames are those of the trys around  *)
(* the running code, so no raise can select a frame whose function has     *)
(* returned, and the cleanup chain holds every cleanup still owed.         *)
FramesExact == Coding => ToSet(frames) = Entered /\ ToSet(cleanups) = Owed

(* A region that is left, normally or by a transfer, has run its deferred  *)
(* body or its finalizer, and has run it once; its record, that of an      *)
(* Error.pop included, is off the cleanup chain.  That the handler an      *)
(* Error.pop removes is gone once is ChainsExact.                          *)
Cleans(b) == b.kind = "defer" \/ (b.kind = "try" /\ b.fin)
IsLeft(p) == p \notin DOMAIN stack' \/ stack'[p].kind # stack[p].kind
CleanupOnce == [][\A p \in DOMAIN stack : IsLeft(p) =>
                    /\ p \notin ToSet(cleanups')
                    /\ Cleans(stack[p]) => stack[p].runs = 1]_vars

(* A program that closes its regions in order never dies of the runtime's  *)
(* own order checks.                                                       *)
NoImbalance == floor \in {"none", "uncaught", "raise re-entered", "error stack exceeded its bound"}
=============================================================================
