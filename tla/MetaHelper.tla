----------------------------- MODULE MetaHelper -----------------------------
(***************************************************************************)
(* The compiler's side of the project meta helper                          *)
(* (src/src/meta-helper-client.x) and the helper itself                    *)
(* (src/etc/meta-helper.x): processes, the two pipes between them, one     *)
(* call at a time with queries answered while it waits, deadlines, and     *)
(* helpers that crash, hang or lose their compiler.                        *)
(*                                                                         *)
(* A pipe holds whole frames.  A helper has the number of the call that    *)
(* started it.  No frame names its call: the `call' field of an answer and *)
(* the `val' field of a value are what the body and the compiler meant by  *)
(* them, for the properties.  A deadline may pass at any wait.             *)
(***************************************************************************)
EXTENDS Naturals, Sequences, FiniteSets, SequencesExt

CONSTANTS Main,       \* the process that translates, and forks the workers
          Workers,    \* translation workers
          Mortal,     \* the processes that may be killed
          MaxCalls,   \* bound: calls in a behaviour, and so helpers
          MaxUnits,   \* bound: units a process translates
          MaxAsks,    \* bound: queries one body makes
          ForkCalls   \* bound: a worker is forked after so many calls

ASSUME MetaAssumption == /\ Main \notin Workers /\ Mortal \subseteq {Main} \cup Workers
                         /\ MaxCalls \in Nat /\ MaxUnits \in Nat \ {0} /\ MaxAsks \in Nat
                         /\ ForkCalls \in 0..MaxCalls

Procs == {Main} \cup Workers
Calls == 1..MaxCalls
None == 0

VARIABLES
  proc,     \* each compiler process: its `active' helper, its calls, its pipe ends
  helper,   \* each helper process, with the frames in its two pipes
  call      \* each call: its unit, and how it and its body stand

vars == <<proc, helper, call>>

-----------------------------------------------------------------------------
(* State *)

NoProc == [life |-> "unborn", unit |-> 1, stack |-> <<>>,
           pid |-> None, reset |-> FALSE, input |-> <<>>, ends |-> {}]
NoHelper == [state |-> "none", starter |-> Main, watched |-> FALSE, stack |-> <<>>,
             fresh |-> None, left |-> FALSE, req |-> <<>>, rep |-> <<>>]
NoCall == [state |-> "unused", got |-> None, body |-> "no", unit |-> None]

Init == /\ proc = [p \in Procs |-> IF p = Main THEN [NoProc EXCEPT !.life = "up"] ELSE NoProc]
        /\ helper = [h \in Calls |-> NoHelper]
        /\ call = [c \in Calls |-> NoCall]

Dead(p) == proc[p].life \in {"gone", "killed"}
(* The process that forked workers only waits for them (_run_workers). *)
Waiting(p) == p = Main /\ \E w \in Workers : proc[w].life # "unborn" /\ ~Dead(w)
Idle(p) == proc[p].life = "up" /\ proc[p].stack = <<>> /\ ~Waiting(p)
Top(p) == Last(proc[p].stack)
In(p, phases) == proc[p].life = "up" /\ proc[p].stack # <<>> /\ Top(p).phase \in phases

Pushed(r, x) == [r EXCEPT !.stack = Append(r.stack, x)]
Popped(r) == [r EXCEPT !.stack = Front(r.stack)]
WithTop(r, x) == [r EXCEPT !.stack = [r.stack EXCEPT ![Len(r.stack)] = x]]
Goto(p, phase) == WithTop(proc[p], [Top(p) EXCEPT !.phase = phase])

(* _running *)
RunningAny(p) == proc[p].pid # None   \* mutant: a worker takes its parent's helper for its own
Running(p) == proc[p].pid # None /\ helper[proc[p].pid].starter = p

(* What a write or a read meets: no descriptor, or no process behind it.   *)
Alive(h) == h # None /\ helper[h].state \in {"forked", "up"}
Gone(p) == ~Alive(proc[p].pid)

(* A process holds the compiler's ends of h's pipes. *)
Open(h) == \E p \in Procs : h \in proc[p].ends

Bodies(h) == {helper[h].stack[i].call : i \in DOMAIN helper[h].stack}

(* The calls after the bodies `halted' ended and the calls of `over' became `how'. *)
CallsAfter(halted, over, how) ==
  [c \in Calls |-> [call[c] EXCEPT
     !.body = IF c \in halted /\ @ = "running" THEN "stopped" ELSE @,
     !.state = IF c \in over THEN how ELSE @]]

-----------------------------------------------------------------------------
(* _stop: the helper this process runs ends, is waited for, and its group  *)
(* is killed; a helper some other process runs is only forgotten.          *)

Reaped(h) == [helper[h] EXCEPT !.state = "reaped", !.stack = <<>>, !.left = FALSE,
                               !.req = <<>>, !.rep = <<>>]
Stop(p) == IF Running(p) THEN [helper EXCEPT ![proc[p].pid] = Reaped(proc[p].pid)] ELSE helper
Stopping(p) == IF Running(p) THEN Bodies(proc[p].pid) ELSE {}
Forgotten(p) == [proc[p] EXCEPT !.pid = None, !.input = <<>>,
                                !.ends = IF Running(p) THEN @ \ {proc[p].pid} ELSE @]

(* _stop(SIGKILL), or _stop(0) once the helper has ended; then the call    *)
(* fails, and the operation of the compiler that made it goes on.          *)
GiveUp(p) == /\ helper' = Stop(p)
             /\ call' = CallsAfter(Stopping(p), {Top(p).call}, "failed")
             /\ proc' = [proc EXCEPT ![p] = Popped(Forgotten(p))]

-----------------------------------------------------------------------------
(* The compiler *)

FreshCall == CHOOSE c \in Calls : call[c].state = "unused" /\ \A d \in 1..c - 1 : call[d].state # "unused"
MayCall(p) == /\ Idle(p) \/ In(p, {"answer"})
              /\ \E c \in Calls : call[c].state = "unused"

BeginUnitStale(p) == /\ Idle(p) /\ proc[p].unit < MaxUnits   \* mutant: no reset
                     /\ \E c \in Calls : call[c].unit = proc[p].unit
                     /\ proc' = [proc EXCEPT ![p].unit = @ + 1]
                     /\ UNCHANGED <<helper, call>>

(* begin_meta_unit; a unit without a call differs from none in nothing. *)
BeginUnit(p) == /\ Idle(p) /\ proc[p].unit < MaxUnits
                /\ \E c \in Calls : call[c].unit = proc[p].unit
                /\ proc' = [proc EXCEPT ![p].unit = @ + 1, ![p].reset = TRUE]
                /\ UNCHANGED <<helper, call>>

(* _call_helper up to _send: a call of the unit, or one the compiler makes *)
(* while it answers a query, in the helper this process runs or a new one. *)
Call(p) ==
  /\ MayCall(p)
  /\ LET c == FreshCall
         q == Pushed(proc[p], [call |-> c, phase |-> "send"])
     IN /\ call' = [call EXCEPT ![c].state = "pending", ![c].unit = proc[p].unit]
        /\ \/ /\ Running(p)
              /\ proc' = [proc EXCEPT ![p] = q]
              /\ UNCHANGED helper
           \/ /\ ~Running(p)
              /\ proc' = [proc EXCEPT ![p] = [q EXCEPT !.pid = c, !.reset = TRUE, !.input = <<>>,
                                                       !.ends = q.ends \cup {c}]]
              /\ helper' = [helper EXCEPT ![c] = [NoHelper EXCEPT !.state = "forked", !.starter = p]]

(* No pipe or no process for a new helper. *)
CallRefused(p) == /\ MayCall(p) /\ ~Running(p)
                  /\ call' = [call EXCEPT ![FreshCall].state = "failed", ![FreshCall].unit = proc[p].unit]
                  /\ proc' = [proc EXCEPT ![p].pid = None]
                  /\ UNCHANGED helper

Send(p) == /\ In(p, {"send"}) /\ ~Gone(p)
           /\ helper' = [helper EXCEPT ![proc[p].pid].req =
                @ \o (IF proc[p].reset THEN <<[kind |-> "reset"]>> ELSE <<>>)
                  \o <<[kind |-> "call", call |-> Top(p).call]>>]
           /\ proc' = [proc EXCEPT ![p] = [Goto(p, "wait") EXCEPT !.reset = FALSE]]
           /\ UNCHANGED call

(* _read_input: one read takes any number of the frames written so far. *)
Read(p) == /\ In(p, {"wait"}) /\ proc[p].input = <<>> /\ proc[p].pid # None
           /\ LET rep == helper[proc[p].pid].rep
              IN \E n \in DOMAIN rep :
                   /\ proc' = [proc EXCEPT ![p].input = SubSeq(rep, 1, n)]
                   /\ helper' = [helper EXCEPT ![proc[p].pid].rep = SubSeq(rep, n + 1, Len(rep))]
           /\ UNCHANGED call

(* _take_frame and the reply's case in _call_helper. *)
Reply(p) == Head(proc[p].input)
Rest(p) == [proc[p] EXCEPT !.input = Tail(@)]
Ready(p, kinds) == In(p, {"wait"}) /\ proc[p].input # <<>> /\ Reply(p).kind \in kinds

TakeNotice(p) == /\ Ready(p, {"notice"})
                 /\ proc' = [proc EXCEPT ![p] = Rest(p)]
                 /\ UNCHANGED <<helper, call>>

TakeResult(p) == /\ Ready(p, {"value", "error"})
                 /\ call' = IF Reply(p).kind = "value"
                             THEN [call EXCEPT ![Top(p).call].state = "returned",
                                               ![Top(p).call].got = Reply(p).val]
                             ELSE [call EXCEPT ![Top(p).call].state = "failed"]
                 /\ proc' = [proc EXCEPT ![p] = Popped(Rest(p))]
                 /\ UNCHANGED helper

TakeQuery(p) == /\ Ready(p, {"query"})
                /\ proc' = [proc EXCEPT ![p] = [Goto(p, "answer") EXCEPT !.input = Tail(proc[p].input)]]
                /\ UNCHANGED <<helper, call>>

(* _answer *)
Answer(p) == /\ In(p, {"answer"}) /\ ~Gone(p)
             /\ helper' = [helper EXCEPT ![proc[p].pid].req =
                             Append(@, [kind |-> "answer", call |-> Top(p).call])]
             /\ proc' = [proc EXCEPT ![p] = Goto(p, "wait")]
             /\ UNCHANGED call

AnswerRaises(p) == /\ In(p, {"answer"})   \* mutant: the helper is left waiting for its answer
                   /\ call' = CallsAfter({}, {Top(p).call}, "failed")
                   /\ proc' = [proc EXCEPT ![p].stack = Front(@)]
                   /\ UNCHANGED helper

AnswerFails(p) == In(p, {"answer"}) /\ GiveUp(p)

(* _overdue: with X2C_META_TIMEOUT above zero this may happen at any wait. *)
Overdue(p) == In(p, {"send", "wait"}) /\ GiveUp(p)

(* _stopped: a write that meets no reader, the end of the replies, or a    *)
(* wait that finds the helper reaped, which may precede the last replies.  *)
Stopped(p) == /\ \/ In(p, {"send", "answer"})
                 \/ In(p, {"wait"}) /\ proc[p].input = <<>>
              /\ Gone(p)
              /\ GiveUp(p)

(* _stop(0) of MetaHelper.restart, stop_meta_helper and close; an error    *)
(* reported where nothing recovers ends the process inside an answer.      *)
Quit(p, life) ==
  /\ life \in {"stopping", "exiting"}
  /\ Idle(p) \/ (life = "exiting" /\ In(p, {"answer"}))
  /\ proc' = [proc EXCEPT ![p].life = life]
  /\ helper' = IF Running(p) /\ ~Gone(p)
               THEN [helper EXCEPT ![proc[p].pid].req = Append(@, [kind |-> "quit"])] ELSE helper
  /\ UNCHANGED call

Pending(p) == {proc[p].stack[i].call : i \in DOMAIN proc[p].stack}
Ended(p, life) == [NoProc EXCEPT !.life = life, !.unit = proc[p].unit]

Quitted(p) ==
  /\ proc[p].life \in {"stopping", "exiting"}
  /\ Running(p) => Gone(p)
  /\ helper' = Stop(p)
  /\ \/ /\ proc[p].life = "stopping"
        /\ proc' = [proc EXCEPT ![p] = [Forgotten(p) EXCEPT !.life = "up"]]
        /\ UNCHANGED call
     \/ /\ proc[p].life = "exiting"
        /\ proc' = [proc EXCEPT ![p] = Ended(p, "gone")]
        /\ call' = CallsAfter({}, Pending(p), "lost")

(* A worker starts as a copy of the process that forks it. *)
Fork(w) == /\ w \in Workers /\ Idle(Main) /\ proc[w].life = "unborn"
           /\ Cardinality({c \in Calls : call[c].state # "unused"}) = ForkCalls
           /\ proc' = [proc EXCEPT ![w] = proc[Main]]
           /\ UNCHANGED <<helper, call>>

Killed(p) == /\ p \in Mortal /\ proc[p].life # "unborn" /\ ~Dead(p)
             /\ proc' = [proc EXCEPT ![p] = Ended(p, "killed")]
             /\ call' = CallsAfter({}, Pending(p), "lost")
             /\ UNCHANGED helper

-----------------------------------------------------------------------------
(* The helper *)

Up(h) == helper[h].state = "up"
Active(h) == Last(helper[h].stack)
Serving(h) == Up(h) /\ (helper[h].stack # <<>> => Active(h).phase = "ask")
Body(h) == Up(h) /\ helper[h].stack # <<>> /\ Active(h).phase = "run"

(* The helper ends itself, or is ended by a signal. *)
Exits(h) == /\ helper' = [helper EXCEPT ![h].state = "ended", ![h].stack = <<>>, ![h].req = <<>>]
            /\ call' = CallsAfter(Bodies(h), {}, "lost")
            /\ UNCHANGED proc

(* main: the watcher learns which process to watch here, not at the fork. *)
Boot(h) == /\ helper[h].state = "forked"
           /\ helper' = [helper EXCEPT ![h].state = "up", ![h].watched = ~Dead(helper[h].starter)]
           /\ UNCHANGED <<proc, call>>

ExecFails(h) == helper[h].state = "forked" /\ Exits(h)

Request(h) == Head(helper[h].req)
Taken(h) == [helper[h] EXCEPT !.req = Tail(@)]
Asked(h, kinds) == Serving(h) /\ helper[h].req # <<>> /\ Request(h).kind \in kinds

(* _reset *)
ServeReset(h) == /\ Asked(h, {"reset"})
                 /\ helper' = [helper EXCEPT ![h] = [Taken(h) EXCEPT !.fresh = None]]
                 /\ UNCHANGED <<proc, call>>

(* _start and the body: the statics are initialized by a unit's first call. *)
ServeCall(h) ==
  /\ Asked(h, {"call"})
  /\ LET c == Request(h).call
         body == [call |-> c, phase |-> "run", asks |-> 0, own |-> TRUE]
         unit == IF helper[h].fresh = None THEN call[c].unit ELSE helper[h].fresh
     IN /\ helper' = [helper EXCEPT ![h] = [Pushed(Taken(h), body) EXCEPT !.fresh = unit]]
        /\ call' = [call EXCEPT ![c].body = "running"]
  /\ UNCHANGED proc

(* _ask takes the answer it waits for; one at any other place ends the helper. *)
ServeAnswer(h) ==
  /\ Asked(h, {"answer"})
  /\ IF helper[h].stack = <<>> THEN Exits(h)
     ELSE /\ LET own == Active(h).own /\ Request(h).call = Active(h).call
             IN helper' = [helper EXCEPT ![h] =
                  WithTop(Taken(h), [Active(h) EXCEPT !.phase = "run", !.own = own])]
          /\ UNCHANGED <<proc, call>>

IgnoreQuit(h) == /\ Asked(h, {"quit"})   \* mutant: a body that waits for an answer hears no quit
                 /\ IF helper[h].stack = <<>> THEN Exits(h)
                    ELSE /\ helper' = [helper EXCEPT ![h] = Taken(h)]
                         /\ UNCHANGED <<proc, call>>
ServeQuit(h) == Asked(h, {"quit"}) /\ Exits(h)

(* The end of the requests: no process can write them any more. *)
Hangup(h) == Serving(h) /\ helper[h].req = <<>> /\ ~Open(h) /\ Exits(h)

(* A frame written to a pipe nobody reads ends the helper by SIGPIPE. *)
Writes(h, frames, rest) == /\ Open(h)
                           /\ helper' = [helper EXCEPT ![h] = [rest EXCEPT !.rep = rest.rep \o frames]]
                           /\ UNCHANGED proc

(* _apply: the body's notices, then one terminal reply. *)
BodyReturns(h) ==
  /\ Body(h)
  /\ LET a == Active(h)
     IN \/ ~Open(h) /\ Exits(h)
        \/ /\ \E notices \in {<<>>, <<[kind |-> "notice"]>>},
                 result \in {[kind |-> "value", val |-> IF a.own THEN a.call ELSE None],
                             [kind |-> "error"]} :
                Writes(h, Append(notices, result), Popped(helper[h]))
           /\ call' = [call EXCEPT ![a.call].body = "done"]

BodyAsks(h) ==
  /\ Body(h) /\ Active(h).asks < MaxAsks
  /\ \/ ~Open(h) /\ Exits(h)
     \/ /\ Writes(h, <<[kind |-> "query"]>>,
                  WithTop(helper[h], [Active(h) EXCEPT !.phase = "ask", !.asks = Active(h).asks + 1]))
        /\ UNCHANGED call

BodyCrashes(h) == Body(h) /\ Exits(h)

(* The body starts a process that it does not end. *)
BodyLeaves(h) == /\ Body(h) /\ ~helper[h].left
                 /\ helper' = [helper EXCEPT ![h].left = TRUE]
                 /\ UNCHANGED <<proc, call>>

(* _watch: the process that started the helper has gone. *)
Watch(h) == /\ Up(h) /\ helper[h].watched /\ Dead(helper[h].starter)
            /\ helper' = [helper EXCEPT ![h] = Reaped(h)]
            /\ call' = CallsAfter(Bodies(h), {}, "lost")
            /\ UNCHANGED proc

-----------------------------------------------------------------------------
Wait(p) == \/ Send(p) \/ Read(p) \/ TakeNotice(p) \/ TakeResult(p) \/ TakeQuery(p)
           \/ Answer(p) \/ AnswerFails(p) \/ Stopped(p) \/ Quitted(p)

Compiler(p) == \/ BeginUnit(p) \/ Call(p) \/ CallRefused(p) \/ Wait(p) \/ Overdue(p)
               \/ \E life \in {"stopping", "exiting"} : Quit(p, life)
               \/ Fork(p) \/ Killed(p)

Serve(h) == ServeReset(h) \/ ServeCall(h) \/ ServeAnswer(h) \/ ServeQuit(h) \/ Hangup(h)

Helper(h) == \/ Boot(h) \/ ExecFails(h) \/ Serve(h) \/ Watch(h)
             \/ BodyReturns(h) \/ BodyAsks(h) \/ BodyCrashes(h) \/ BodyLeaves(h)

Next == (\E p \in Procs : Compiler(p)) \/ (\E h \in Calls : Helper(h))

Spec == Init /\ [][Next]_vars

(* Both sides run: a wait that may go on does, a helper starts and serves  *)
(* what it can read, and its watcher polls.  A body may run for ever, and  *)
(* no deadline need be set.                                                *)
FairSpec == /\ Spec
            /\ \A p \in Procs : WF_vars(Wait(p))
            /\ \A h \in Calls : /\ WF_vars(Boot(h) \/ ExecFails(h)) /\ WF_vars(Serve(h))
                                /\ WF_vars(Watch(h))

-----------------------------------------------------------------------------
(* Properties *)

TypeOK ==
  /\ proc \in [Procs -> [life : {"unborn", "up", "stopping", "exiting", "gone", "killed"},
                         unit : 1..MaxUnits, pid : Calls \cup {None}, reset : BOOLEAN,
                         ends : SUBSET Calls,
                         stack : Seq([call : Calls, phase : {"send", "wait", "answer"}]),
                         input : Seq([kind : {"notice", "query", "error"}]
                                     \cup [kind : {"value"}, val : Calls \cup {None}])]]
  /\ \A h \in Calls : /\ helper[h].state \in {"none", "forked", "up", "ended", "reaped"}
                      /\ helper[h].starter \in Procs /\ helper[h].fresh \in 0..MaxUnits
                      /\ Bodies(h) \subseteq Calls
  /\ call \in [Calls -> [state : {"unused", "pending", "returned", "failed", "lost"},
                         got : Calls \cup {None}, unit : 0..MaxUnits,
                         body : {"no", "running", "done", "stopped"}]]

(* src/src/meta-helper-client.x:89-97: a call takes the value its own body *)
(* computed, with its own queries answered, or fails; its body runs at     *)
(* most once and is not left running by a call that failed.                *)
Seen == [c \in Calls |-> [state |-> call[c].state, got |-> call[c].got, body |-> call[c].body]]
Remote == INSTANCE RemoteCall WITH call <- Seen
ImplementsRemoteCall == Remote!Spec

(* unittest/probes/run-meta-helper.sh:6-8: a helper, and a process its     *)
(* bodies left, belongs to the process that started it, which has it in    *)
(* hand until it has ended both and waited for the helper, and never ends  *)
(* before.                                                                 *)
HelpersInHand ==
  \A h \in Calls : LET s == proc[helper[h].starter] IN
    s.life # "killed" => ((helper[h].left \/ helper[h].state \notin {"none", "reaped"}) =
                            (s.life \in {"up", "stopping", "exiting"} /\ s.pid = h))

(* docs/src/guide/meta-functions.md:739: the `meta static' values a body   *)
(* sees were initialized for the unit whose call runs it.                  *)
OwnStatics == \A h \in Calls : \A c \in Bodies(h) : helper[h].fresh = call[c].unit

(* src/src/meta-helper-client.x:373-402: with no deadline to rescue it, a  *)
(* call waits only while a body runs: the end of the helper is noticed at  *)
(* every wait, and the `quit' of _stop, sent with no deadline, is heard.   *)
NoWaitForNothing ==
  /\ \A c \in Calls : []<>(call[c].state = "pending" => \E d \in Calls : call[d].body = "running")
  /\ \A p \in Procs : proc[p].life \in {"stopping", "exiting"} ~>
                        proc[p].life \notin {"stopping", "exiting"}
=============================================================================
