-------------------------- MODULE MetaHelper_proofs --------------------------
(***************************************************************************)
(* Proofs about the meta helper's protocol, for any number of translation  *)
(* workers, calls, units and queries: a helper stays in the hand of its    *)
(* process, a body sees its own unit's statics, and a call is a remote     *)
(* call of RemoteCall.                                                     *)
(***************************************************************************)
EXTENDS MetaHelper, FiniteSetTheorems, SequenceTheorems,
        WellFoundedInduction, TLAPS

-----------------------------------------------------------------------------
(* Types *)

Lives == {"up", "stopping", "exiting"}
Acts == [call : Calls, phase : {"run", "ask"}, asks : Nat, own : BOOLEAN]
Entries == [call : Calls, phase : {"send", "wait", "answer"}]
Requests == [kind : {"reset", "quit"}] \cup [kind : {"call", "answer"}, call : Calls]
Replies == [kind : {"notice", "query", "error"}] \cup [kind : {"value"}, val : Calls \cup {None}]

ProcType == [life : {"unborn", "gone", "killed"} \cup Lives, unit : 1..MaxUnits,
             stack : Seq(Entries), pid : Calls \cup {None}, reset : BOOLEAN,
             input : Seq(Replies), ends : SUBSET Calls]
HelperType == [state : {"none", "forked", "up", "ended", "reaped"}, starter : Procs,
               watched : BOOLEAN, stack : Seq(Acts), fresh : 0..MaxUnits, left : BOOLEAN,
               req : Seq(Requests), rep : Seq(Replies)]
CallType == [state : {"unused", "pending", "returned", "failed", "lost"},
             got : Calls \cup {None}, unit : 0..MaxUnits,
             body : {"no", "running", "done", "stopped"}]

TInv == /\ proc \in [Procs -> ProcType]
        /\ helper \in [Calls -> HelperType]
        /\ call \in [Calls -> CallType]

-----------------------------------------------------------------------------
(* The inductive invariant.  In the predicates q is the record of a        *)
(* process, r that of a helper and k the calls.                            *)

CallsIn(s) == {s[i].call : i \in 1..Len(s)}
Distinct(s) == \A i, j \in 1..Len(s) : s[i].call = s[j].call => i = j
AsksIn(s) == {s[i].call : i \in {j \in 1..Len(s) : s[j].kind = "call"}}

(* No body of the helper runs: the innermost waits for an answer. *)
Quiet(r) == r.stack # <<>> => Last(r.stack).phase = "ask"

(* A call whose body was not started yet. *)
Callable(c, k) == k[c].state \in {"pending", "lost"} /\ k[c].body = "no" /\ k[c].unit # None

(* The requests a helper has not read: at most one exchange. *)
RequestsOK(r, k) ==
  \/ r.req = <<>>
  \/ Len(r.req) = 1 /\ r.req[1].kind = "quit"
  \/ /\ Len(r.req) = 1 /\ r.req[1].kind = "answer"
     /\ r.stack # <<>> => Last(r.stack).call = r.req[1].call
  \/ /\ Len(r.req) = 1 /\ r.req[1].kind = "call" /\ Callable(r.req[1].call, k)
     /\ r.fresh \in {None, k[r.req[1].call].unit}
  \/ /\ Len(r.req) = 2 /\ r.req[1].kind = "reset" /\ r.req[2].kind = "call"
     /\ Callable(r.req[2].call, k) /\ r.stack = <<>>

(* The bodies of a helper run for calls of the unit whose statics it has. *)
BodiesOK(r, k) ==
  /\ \A i \in 1..Len(r.stack) : /\ k[r.stack[i].call].body = "running" /\ r.stack[i].own
                                /\ k[r.stack[i].call].unit = r.fresh /\ r.fresh # None
                                /\ i < Len(r.stack) => r.stack[i].phase = "ask"
  /\ Distinct(r.stack)

HelperOK(r, k) ==
  /\ r.state \notin {"forked", "up"} => r.stack = <<>> /\ r.req = <<>>
  /\ r.state = "forked" => r.stack = <<>> /\ r.fresh = None
  /\ BodiesOK(r, k)
  /\ r.req # <<>> => Quiet(r)
  /\ RequestsOK(r, k)

(* The calls a process waits for: it answers queries of all but the last. *)
StackOK(q, k) ==
  /\ \A i \in 1..Len(q.stack) : /\ k[q.stack[i].call].state = "pending"
                                /\ k[q.stack[i].call].unit = q.unit
                                /\ i < Len(q.stack) => q.stack[i].phase = "answer"
  /\ Distinct(q.stack)
  /\ q.life \notin {"up", "exiting"} => q.stack = <<>>
  /\ q.life = "exiting" /\ q.stack # <<>> => Last(q.stack).phase = "answer"

(* The bodies of a helper (its stack t) belong to the calls its process     *)
(* waits for (its stack s), innermost last, except the x innermost ones.    *)
Aligned(s, t, x) ==
  /\ Len(t) + x <= Len(s)
  /\ \A i \in 1..Len(t) : t[i].call = s[Len(s) - x - Len(t) + i].call

(* The replies on their way, and where the innermost call of q stands. *)
Coming(q, r) == q.input \o r.rep
Quitting(r) == Len(r.req) = 1 /\ r.req[1].kind = "quit"
AtPhase(q, phase) == q.stack # <<>> /\ Last(q.stack).phase = phase
Mine(q) == Last(q.stack).call

Resting(q, r)   == /\ q.stack = <<>> /\ Coming(q, r) = <<>> /\ r.stack = <<>>
                   /\ r.req = <<>> \/ (q.life # "up" /\ Quitting(r))
Sending(q, r, k) == /\ AtPhase(q, "send") /\ Coming(q, r) = <<>> /\ r.req = <<>>
                    /\ Quiet(r) /\ Aligned(q.stack, r.stack, 1) /\ k[Mine(q)].body = "no"
Calling(q, r)   == /\ AtPhase(q, "wait") /\ Coming(q, r) = <<>> /\ r.req # <<>>
                   /\ Last(r.req).kind = "call" /\ Last(r.req).call = Mine(q)
                   /\ Aligned(q.stack, r.stack, 1)
Working(q, r)   == /\ AtPhase(q, "wait") /\ Coming(q, r) = <<>> /\ r.req = <<>>
                   /\ Aligned(q.stack, r.stack, 0)
                   /\ r.state \in {"forked", "up"} => r.stack # <<>> /\ ~Quiet(r)
Asking(q, r)    == /\ AtPhase(q, "wait") /\ r.req = <<>> /\ Quiet(r) /\ Aligned(q.stack, r.stack, 0)
                   /\ Len(Coming(q, r)) = 1 /\ Coming(q, r)[1].kind = "query"
Answering(q, r) == /\ AtPhase(q, "answer") /\ Coming(q, r) = <<>> /\ Quiet(r) /\ Aligned(q.stack, r.stack, 0)
                   /\ r.req = <<>> \/ (q.life = "exiting" /\ Quitting(r))
Answered(q, r)  == /\ AtPhase(q, "wait") /\ Coming(q, r) = <<>> /\ Aligned(q.stack, r.stack, 0)
                   /\ Len(r.req) = 1 /\ r.req[1].kind = "answer" /\ r.req[1].call = Mine(q)
Replied(q, r, k) ==
  LET R == Coming(q, r)
  IN /\ AtPhase(q, "wait") /\ r.req = <<>> /\ Quiet(r) /\ Aligned(q.stack, r.stack, 1)
     /\ Len(R) = 1 \/ (Len(R) = 2 /\ R[1].kind = "notice")
     /\ Last(R).kind \in {"value", "error"} /\ k[Mine(q)].body = "done"
     /\ Last(R).kind = "value" => Last(R).val = Mine(q)

(* The statics of the helper, and the reset its process owes it. *)
Fresh(q, r) ==
  /\ q.reset => r.stack = <<>> /\ AsksIn(r.req) = {}
  /\ ~q.reset /\ ~(r.req # <<>> /\ r.req[1].kind = "reset") => r.fresh \in {None, q.unit}

Link(q, r, k) ==
  /\ Fresh(q, r)
  /\ \/ Resting(q, r) \/ Sending(q, r, k) \/ Calling(q, r) \/ Working(q, r)
     \/ Asking(q, r) \/ Answering(q, r) \/ Answered(q, r) \/ Replied(q, r, k)

ProcOK(p) ==
  /\ StackOK(proc[p], call)
  /\ Running(p) => Link(proc[p], helper[proc[p].pid], call)
  /\ ~Running(p) /\ proc[p].stack # <<>> => proc[p].pid = None /\ AtPhase(proc[p], "answer")

LInv == /\ \A h \in Calls : HelperOK(helper[h], call)
        /\ \A p \in Procs : ProcOK(p)

(* A call is in one place: one process waits for it, and one helper was     *)
(* asked for it or runs its body.                                           *)
Held(r) == AsksIn(r.req) \cup CallsIn(r.stack)

UInv ==
  /\ \A p1, p2 \in Procs : \A c \in CallsIn(proc[p1].stack) \cap CallsIn(proc[p2].stack) : p1 = p2
  /\ \A h1, h2 \in Calls : \A c \in Held(helper[h1]) \cap Held(helper[h2]) : h1 = h2
  /\ \A p \in Procs, h \in Calls :
       CallsIn(proc[p].stack) \cap Held(helper[h]) # {} =>
         proc[p].pid = h /\ helper[h].starter = p
  /\ \A c \in Calls : call[c].body = "running" => \E h \in Calls : c \in CallsIn(helper[h].stack)
  /\ \A c \in Calls : call[c].state = "unused" => call[c].body = "no"

(* A helper is in hand of the process that started it; a helper whose call *)
(* is unused was not started, and no process has it for its own.           *)
Hand(h) == LET s == proc[helper[h].starter]
           IN /\ s.life # "unborn"
              /\ s.life # "killed" => (helper[h].state \notin {"none", "reaped"} <=> s.pid = h)
HInv ==
  /\ \A h \in Calls : Hand(h) /\ (helper[h].left => helper[h].state \in {"up", "ended"})
  /\ \A p \in Procs : proc[p].life \notin Lives => proc[p].pid = None
  /\ \A c \in Calls : call[c].state = "unused" =>
       helper[c].state = "none" /\ \A p \in Procs : proc[p].pid # c

-----------------------------------------------------------------------------
(* Sequences *)

LEMMA LastFront ==
  ASSUME NEW S, NEW s \in Seq(S), s # <<>>
  PROVE  /\ Len(s) \in Nat \ {0} /\ Last(s) \in S /\ Last(s) = s[Len(s)]
         /\ Front(s) \in Seq(S) /\ Len(Front(s)) = Len(s) - 1
         /\ \A i \in 1 .. Len(s) - 1 : Front(s)[i] = s[i]
<1>1. Len(s) \in Nat \ {0} /\ Len(s) - 1 \in Nat /\ Last(s) = s[Len(s)]
  BY DEF Last
<1>2. Front(s) = [i \in 1 .. Len(s) - 1 |-> s[i]] BY <1>1 DEF Front
<1>3. \A i \in 1..Len(s) : s[i] \in S OBVIOUS
<1> QED BY <1>1, <1>2, <1>3

LEMMA Appended ==
  ASSUME NEW S, NEW s \in Seq(S), NEW x \in S
  PROVE  /\ Append(s, x) \in Seq(S) /\ Len(Append(s, x)) = Len(s) + 1
         /\ Append(s, x)[Len(s) + 1] = x /\ \A i \in 1..Len(s) : Append(s, x)[i] = s[i]
         /\ Append(s, x) # <<>> /\ Last(Append(s, x)) = x
BY DEF Last

LEMMA TopReplaced ==
  ASSUME NEW S, NEW s \in Seq(S), s # <<>>, NEW x \in S
  PROVE  LET t == [s EXCEPT ![Len(s)] = x]
         IN /\ t \in Seq(S) /\ Len(t) = Len(s) /\ t # <<>> /\ Last(t) = x /\ t[Len(s)] = x
            /\ \A i \in 1 .. Len(s) - 1 : t[i] = s[i]
BY DEF Last

LEMMA SplitSeq ==
  ASSUME NEW S, NEW s \in Seq(S), NEW n \in 1..Len(s)
  PROVE  /\ SubSeq(s, 1, n) \in Seq(S) /\ SubSeq(s, n + 1, Len(s)) \in Seq(S)
         /\ SubSeq(s, 1, n) \o SubSeq(s, n + 1, Len(s)) = s
OBVIOUS

LEMMA TailOfBoth ==
  ASSUME NEW S, NEW s \in Seq(S), NEW t \in Seq(S), s # <<>>
  PROVE  /\ s \o t # <<>> /\ (s \o t)[1] = Head(s) /\ Tail(s) \o t = Tail(s \o t)
OBVIOUS

-----------------------------------------------------------------------------
(* Types *)

LEMMA EntryTypes ==
  ASSUME TInv, NEW p \in Procs, proc[p].stack # <<>>
  PROVE  /\ Top(p) \in Entries /\ Top(p).call \in Calls
         /\ proc[p] \in ProcType /\ Front(proc[p].stack) \in Seq(Entries)
         /\ \A e \in Entries : [proc[p].stack EXCEPT ![Len(proc[p].stack)] = e] \in Seq(Entries)
<1>1. proc[p] \in ProcType BY DEF TInv
<1>2. proc[p].stack \in Seq(Entries) BY <1>1 DEF ProcType
<1>3. Top(p) \in Entries /\ Front(proc[p].stack) \in Seq(Entries)
  BY <1>2, LastFront DEF Top
<1>4. Top(p).call \in Calls BY <1>3 DEF Entries
<1>5. ASSUME NEW e \in Entries
      PROVE  [proc[p].stack EXCEPT ![Len(proc[p].stack)] = e] \in Seq(Entries)
  <2>1. LET t == [proc[p].stack EXCEPT ![Len(proc[p].stack)] = e] IN t \in Seq(Entries)
    BY <1>2, <1>5, TopReplaced
  <2> QED BY <2>1
<1> QED BY <1>1, <1>3, <1>4, <1>5

LEMMA ActTypes ==
  ASSUME TInv, NEW h \in Calls, helper[h].stack # <<>>
  PROVE  /\ Active(h) \in Acts
         /\ helper[h] \in HelperType /\ Front(helper[h].stack) \in Seq(Acts)
         /\ \A a \in Acts : [helper[h].stack EXCEPT ![Len(helper[h].stack)] = a] \in Seq(Acts)
<1>1. helper[h] \in HelperType BY DEF TInv
<1>2. helper[h].stack \in Seq(Acts) BY <1>1 DEF HelperType
<1>3. Active(h) \in Acts /\ Front(helper[h].stack) \in Seq(Acts)
  BY <1>2, LastFront DEF Active
<1>5. ASSUME NEW a \in Acts
      PROVE  [helper[h].stack EXCEPT ![Len(helper[h].stack)] = a] \in Seq(Acts)
  <2>1. LET t == [helper[h].stack EXCEPT ![Len(helper[h].stack)] = a] IN t \in Seq(Acts)
    BY <1>2, <1>5, TopReplaced
  <2> QED BY <2>1
<1> QED BY <1>1, <1>3, <1>5

(* How the calls look after some bodies stopped and some calls were over. *)
LEMMA CallsAfterType ==
  ASSUME TInv, NEW H, NEW O, NEW how \in {"failed", "lost"}
  PROVE  /\ CallsAfter(H, O, how) \in [Calls -> CallType]
         /\ \A c \in Calls : LET d == CallsAfter(H, O, how)[c]
              IN /\ c \notin H /\ c \notin O => d = call[c]
                 /\ d.got = call[c].got /\ d.unit = call[c].unit
                 /\ d.state = IF c \in O THEN how ELSE call[c].state
                 /\ d.body = IF c \in H /\ call[c].body = "running" THEN "stopped" ELSE call[c].body
<1>1. \A c \in Calls : call[c] \in CallType BY DEF TInv
<1> QED BY <1>1 DEF CallsAfter, CallType

\* A nonempty set of calls has a first one.
LEMMA FirstCall ==
  ASSUME NEW n \in Nat, NEW S, S \subseteq 1..n, S # {}
  PROVE  \E x \in S : \A y \in S : x <= y
<1> DEFINE Down(x) == {y \in S : y <= x}
           T == {Down(x) : x \in S}
           R == StrictSubsetOrdering(1..n)
<1>1. IsWellFoundedOn(R, FiniteSubsetsOf(1..n))
  <2>1. IsFiniteSet(1..n) BY FS_Interval
  <2> QED BY <2>1, FS_StrictSubsetOrderingWellFounded
<1>2. T \subseteq FiniteSubsetsOf(1..n) /\ T # {}
  <2>1. \A x \in S : Down(x) \subseteq 1..n
    OBVIOUS
  <2>2. \A x \in S : IsFiniteSet(Down(x))
    <3> HIDE DEF Down
    <3>1. IsFiniteSet(1..n) BY FS_Interval
    <3> QED BY <2>1, <3>1, FS_Subset
  <2> QED BY <2>1, <2>2 DEF FiniteSubsetsOf
<1>3. PICK U \in T : \A V \in T : ~(<<V, U>> \in R)
  <2> HIDE DEF T, R
  <2> QED BY <1>1, <1>2, WFMin
<1>4. PICK x \in S : U = Down(x)
  OBVIOUS
<1>5. ASSUME NEW z \in S, z < x PROVE FALSE
  <2>0. S \subseteq Nat OBVIOUS
  <2>1. x \in Nat /\ z \in Nat BY <2>0
  <2>2. Down(z) \subseteq Down(x) /\ x \in Down(x) /\ x \notin Down(z)
    <3> HIDE DEF T, R
    <3>1. \A y \in S : y <= z => y <= x BY <1>5, <2>0, <2>1
    <3>2. x <= x /\ ~(x <= z) BY <1>5, <2>1
    <3> QED BY <3>1, <3>2
  <2>3. Down(x) \subseteq 1..n /\ Down(z) \subseteq 1..n /\ Down(z) \in T OBVIOUS
  <2>4. <<Down(z), Down(x)>> \in R
    <3> HIDE DEF Down
    <3> QED BY <1>4, <1>2, <2>2, <2>3 DEF StrictSubsetOrdering, FiniteSubsetsOf
  <2> QED BY <1>3, <1>4, <2>3, <2>4
<1>6. \A y \in S : y \in Nat OBVIOUS
<1> QED BY <1>5, <1>6

LEMMA FreshCallFresh ==
  ASSUME TInv, NEW c \in Calls, call[c].state = "unused"
  PROVE  FreshCall \in Calls /\ call[FreshCall].state = "unused"
<1> USE MetaAssumption
<1> DEFINE S == {x \in Calls : call[x].state = "unused"}
<1>1. \E x \in S : \A y \in S : x <= y
  <2>1. S \subseteq 1..MaxCalls /\ S # {} BY DEF Calls
  <2> HIDE DEF S
  <2> QED BY <2>1, FirstCall
<1>2. PICK n \in S : \A y \in S : n <= y BY <1>1
<1>3. n \in Calls /\ n \in Nat /\ call[n].state = "unused" BY DEF Calls
<1>4. \A d \in 1..n - 1 : d \in Calls /\ ~(n <= d) BY <1>3 DEF Calls
<1>5. \A d \in 1..n - 1 : call[d].state # "unused" BY <1>2, <1>4
<1> QED BY <1>3, <1>5 DEF FreshCall

LEMMA InitTypes == Init => TInv
<1> SUFFICES ASSUME Init PROVE TInv OBVIOUS
<1> USE MetaAssumption DEF None
<1>1. <<>> \in Seq(Entries) /\ <<>> \in Seq(Acts) /\ <<>> \in Seq(Requests) /\ <<>> \in Seq(Replies)
  OBVIOUS
<1>2. Main \in Procs BY DEF Procs
<1>0. 1 \in 1..MaxUnits /\ 0 \in 0..MaxUnits OBVIOUS
<1>3. NoProc \in ProcType BY <1>1, <1>0 DEF NoProc, ProcType
<1>4. [NoProc EXCEPT !.life = "up"] \in ProcType BY <1>1, <1>0 DEF NoProc, ProcType, Lives
<1>5. NoHelper \in HelperType BY <1>1, <1>2 DEF NoHelper, HelperType
<1>6. NoCall \in CallType BY DEF NoCall, CallType
<1> QED BY <1>3, <1>4, <1>5, <1>6 DEF Init, TInv

LEMMA ReplyTypes ==
  ASSUME TInv, NEW p \in Procs, proc[p].input # <<>>
  PROVE  /\ Reply(p) \in Replies /\ Tail(proc[p].input) \in Seq(Replies)
         /\ Reply(p).kind = "value" => Reply(p).val \in Calls \cup {None}
<1>1. proc[p].input \in Seq(Replies) BY DEF TInv, ProcType
<1>2. Reply(p) \in Replies /\ Tail(proc[p].input) \in Seq(Replies) BY <1>1 DEF Reply
<1> QED BY <1>2 DEF Replies

LEMMA RequestTypes ==
  ASSUME TInv, NEW h \in Calls, helper[h].req # <<>>
  PROVE  /\ Request(h) \in Requests /\ Tail(helper[h].req) \in Seq(Requests)
         /\ Request(h).kind \in {"call", "answer"} => Request(h).call \in Calls
<1>1. helper[h].req \in Seq(Requests) BY DEF TInv, HelperType
<1>2. Request(h) \in Requests /\ Tail(helper[h].req) \in Seq(Requests) BY <1>1 DEF Request
<1> QED BY <1>2 DEF Requests

LEMMA ReapedTypes ==
  ASSUME TInv, NEW h \in Calls
  PROVE  Reaped(h) \in HelperType
<1>1. helper[h] \in HelperType BY DEF TInv
<1>2. <<>> \in Seq(Acts) /\ <<>> \in Seq(Requests) /\ <<>> \in Seq(Replies) OBVIOUS
<1> QED BY <1>1, <1>2 DEF Reaped, HelperType

LEMMA StopTypes ==
  ASSUME TInv, NEW p \in Procs
  PROVE  /\ Stop(p) \in [Calls -> HelperType]
         /\ Forgotten(p) \in ProcType
         /\ Forgotten(p).stack = proc[p].stack
<1>1. proc[p] \in ProcType BY DEF TInv
<1> DEFINE E == IF Running(p) THEN proc[p].ends \ {proc[p].pid} ELSE proc[p].ends
<1>a. E \in SUBSET Calls /\ <<>> \in Seq(Replies) /\ None \in Calls \cup {None}
  BY <1>1 DEF ProcType
<1>b. Forgotten(p) = [proc[p] EXCEPT !.pid = None, !.input = <<>>, !.ends = E]
  BY DEF Forgotten
<1>2. Forgotten(p) \in ProcType /\ Forgotten(p).stack = proc[p].stack
  <2> HIDE DEF E
  <2> QED BY <1>1, <1>a, <1>b DEF ProcType
<1>3. \A h \in Calls : Reaped(h) \in HelperType BY ReapedTypes
<1>4. proc[p].pid # None => proc[p].pid \in Calls BY <1>1 DEF ProcType
<1>5. Stop(p) \in [Calls -> HelperType] BY <1>3, <1>4 DEF TInv, Stop, Running
<1> QED BY <1>2, <1>5

LEMMA GiveUpTypes ==
  ASSUME TInv, NEW p \in Procs, GiveUp(p), proc[p].stack # <<>>
  PROVE  TInv'
<1>1. Popped(Forgotten(p)) \in ProcType
  BY StopTypes, EntryTypes DEF ProcType, Popped
<1> QED BY <1>1, StopTypes, CallsAfterType DEF TInv, GiveUp

LEMMA ExitsTypes ==
  ASSUME TInv, NEW h \in Calls, Exits(h)
  PROVE  TInv'
<1>1. helper[h] \in HelperType BY DEF TInv
<1>2. <<>> \in Seq(Acts) /\ <<>> \in Seq(Requests) OBVIOUS
<1>3. [helper[h] EXCEPT !.state = "ended", !.stack = <<>>, !.req = <<>>] \in HelperType
  BY <1>1, <1>2 DEF HelperType
<1>4. helper' = [helper EXCEPT ![h] = [helper[h] EXCEPT !.state = "ended", !.stack = <<>>, !.req = <<>>]]
  BY DEF Exits, TInv
<1> QED BY <1>3, <1>4, CallsAfterType DEF TInv, Exits

LEMMA GotoTypes ==
  ASSUME TInv, NEW p \in Procs, proc[p].stack # <<>>, NEW phase \in {"send", "wait", "answer"}
  PROVE  Goto(p, phase) \in ProcType
<1>1. [Top(p) EXCEPT !.phase = phase] \in Entries BY EntryTypes DEF Entries
<1> QED BY <1>1, EntryTypes DEF Goto, WithTop, ProcType

LEMMA EndedTypes ==
  ASSUME TInv, NEW p \in Procs, NEW life \in {"gone", "killed"}
  PROVE  Ended(p, life) \in ProcType
<1>1. proc[p].unit \in 1..MaxUnits BY DEF TInv, ProcType
<1>2. <<>> \in Seq(Entries) /\ <<>> \in Seq(Replies) OBVIOUS
<1> QED BY <1>1, <1>2 DEF Ended, NoProc, ProcType

LEMMA CompilerTypes ==
  ASSUME TInv, NEW p \in Procs, Compiler(p)
  PROVE  TInv'
<1> USE DEF In
<1>0. proc[p] \in ProcType BY DEF TInv
<1>1. CASE BeginUnit(p)
  <2>1. proc[p].unit + 1 \in 1..MaxUnits BY <1>1, <1>0, MetaAssumption DEF BeginUnit, ProcType
  <2>2. [proc[p] EXCEPT !.unit = proc[p].unit + 1, !.reset = TRUE] \in ProcType
    BY <2>1, <1>0 DEF ProcType
  <2>3. proc' = [proc EXCEPT ![p] = [proc[p] EXCEPT !.unit = proc[p].unit + 1, !.reset = TRUE]]
    BY <1>1 DEF BeginUnit, TInv
  <2> QED BY <1>1, <2>2, <2>3 DEF TInv, BeginUnit
<1>2. CASE Call(p)
  <2> DEFINE c == FreshCall
             q == Pushed(proc[p], [call |-> c, phase |-> "send"])
  <2>1. c \in Calls BY <1>2, FreshCallFresh DEF Call, MayCall
  <2>2. [call |-> c, phase |-> "send"] \in Entries BY <2>1 DEF Entries
  <2>3. Append(proc[p].stack, [call |-> c, phase |-> "send"]) \in Seq(Entries)
    BY <2>2, <1>0, Appended DEF ProcType
  <2>4. q \in ProcType BY <2>3, <1>0 DEF Pushed, ProcType
  <2>5. proc[p].unit \in 0..MaxUnits BY <1>0, MetaAssumption DEF ProcType
  <2> HIDE DEF c, q
  <2>6. call' = [call EXCEPT ![c].state = "pending", ![c].unit = proc[p].unit]
    BY <1>2 DEF Call, c
  <2>7. call' \in [Calls -> CallType] BY <2>1, <2>5, <2>6 DEF TInv, CallType
  <2>8. CASE /\ proc' = [proc EXCEPT ![p] = q]
             /\ UNCHANGED helper
    BY <2>4, <2>7, <2>8 DEF TInv
  <2>9. CASE /\ proc' = [proc EXCEPT ![p] = [q EXCEPT !.pid = c, !.reset = TRUE, !.input = <<>>,
                                                      !.ends = q.ends \cup {c}]]
             /\ helper' = [helper EXCEPT ![c] = [NoHelper EXCEPT !.state = "forked", !.starter = p]]
    <3>1. <<>> \in Seq(Acts) /\ <<>> \in Seq(Requests) /\ <<>> \in Seq(Replies)
      OBVIOUS
    <3>2. q.ends \cup {c} \in SUBSET Calls /\ c \in Calls \cup {None} BY <2>1, <2>4 DEF ProcType
    <3>3. [q EXCEPT !.pid = c, !.reset = TRUE, !.input = <<>>, !.ends = q.ends \cup {c}] \in ProcType
      BY <2>4, <3>1, <3>2 DEF ProcType
    <3>4. [NoHelper EXCEPT !.state = "forked", !.starter = p] \in HelperType
      <4>1. 0 \in 0..MaxUnits BY MetaAssumption
      <4> QED BY <3>1, <4>1 DEF NoHelper, HelperType, None
    <3> QED BY <2>7, <2>9, <3>3, <3>4 DEF TInv
  <2> QED BY <1>2, <2>8, <2>9 DEF Call, c, q
<1>3. CASE CallRefused(p)
  <2>1. FreshCall \in Calls BY <1>3, FreshCallFresh DEF CallRefused, MayCall
  <2>2. proc[p].unit \in 0..MaxUnits BY <1>0, MetaAssumption DEF ProcType
  <2>3. call' \in [Calls -> CallType] BY <1>3, <2>1, <2>2 DEF CallRefused, TInv, CallType
  <2>4. [proc[p] EXCEPT !.pid = None] \in ProcType BY <1>0 DEF ProcType
  <2>5. proc' = [proc EXCEPT ![p] = [proc[p] EXCEPT !.pid = None]]
    BY <1>3 DEF CallRefused, TInv
  <2> QED BY <1>3, <2>3, <2>4, <2>5 DEF CallRefused, TInv
<1>4. CASE Send(p)
  <2>1. Goto(p, "wait") \in ProcType BY <1>4, GotoTypes DEF Send
  <2>2. [Goto(p, "wait") EXCEPT !.reset = FALSE] \in ProcType BY <2>1 DEF ProcType
  <2>3. helper[proc[p].pid].req \o (IF proc[p].reset THEN <<[kind |-> "reset"]>> ELSE <<>>)
          \o <<[kind |-> "call", call |-> Top(p).call]>> \in Seq(Requests)
    <3>1. helper[proc[p].pid].req \in Seq(Requests)
      BY <1>4, <1>0 DEF Send, Gone, Alive, TInv, HelperType, ProcType
    <3>2. [kind |-> "call", call |-> Top(p).call] \in Requests
      BY <1>4, EntryTypes DEF Send, Requests
    <3>3. [kind |-> "reset"] \in Requests BY DEF Requests
    <3>4. (IF proc[p].reset THEN <<[kind |-> "reset"]>> ELSE <<>>) \in Seq(Requests)
      BY <3>3
    <3> QED BY <3>1, <3>2, <3>4
  <2>4. helper' \in [Calls -> HelperType]
    <3> DEFINE X == helper[proc[p].pid].req
                      \o (IF proc[p].reset THEN <<[kind |-> "reset"]>> ELSE <<>>)
                      \o <<[kind |-> "call", call |-> Top(p).call]>>
    <3>1. helper' = [helper EXCEPT ![proc[p].pid].req = X] BY <1>4 DEF Send
    <3>2. X \in Seq(Requests) BY <2>3
    <3> HIDE DEF X
    <3> QED BY <3>1, <3>2 DEF TInv, HelperType
  <2> QED BY <1>4, <2>2, <2>4 DEF Send, TInv
<1>5. CASE Read(p)
  <2> DEFINE rep == helper[proc[p].pid].rep
  <2>1. proc[p].pid \in Calls /\ rep \in Seq(Replies)
    BY <1>5, <1>0 DEF Read, TInv, HelperType, ProcType
  <2>2. PICK n \in 1..Len(rep) :
          /\ proc' = [proc EXCEPT ![p].input = SubSeq(rep, 1, n)]
          /\ helper' = [helper EXCEPT ![proc[p].pid].rep = SubSeq(rep, n + 1, Len(rep))]
    <3>1. DOMAIN rep = 1..Len(rep) BY <2>1
    <3> QED BY <1>5, <3>1 DEF Read
  <2>3. SubSeq(rep, 1, n) \in Seq(Replies) /\ SubSeq(rep, n + 1, Len(rep)) \in Seq(Replies)
    BY <2>1, SplitSeq
  <2> HIDE DEF rep
  <2>4. proc' \in [Procs -> ProcType] BY <2>2, <2>3 DEF TInv, ProcType
  <2>5. helper' \in [Calls -> HelperType] BY <2>2, <2>3 DEF TInv, HelperType
  <2> QED BY <1>5, <2>4, <2>5 DEF TInv, Read
<1>6. CASE TakeNotice(p)
  <2>1. Rest(p) \in ProcType BY <1>6, <1>0, ReplyTypes DEF TakeNotice, Ready, Rest, ProcType
  <2> QED BY <1>6, <2>1 DEF TakeNotice, TInv
<1>7. CASE TakeResult(p)
  <2>1. Popped(Rest(p)) \in ProcType
    BY <1>7, <1>0, ReplyTypes, EntryTypes DEF TakeResult, Ready, Rest, Popped, ProcType
  <2>2. call' \in [Calls -> CallType]
    <3>1. Top(p).call \in Calls BY <1>7, EntryTypes DEF TakeResult, Ready
    <3>2. CASE Reply(p).kind = "value"
      <4>1. Reply(p).val \in Calls \cup {None} BY <1>7, <3>2, ReplyTypes DEF TakeResult, Ready
      <4>2. call' = [call EXCEPT ![Top(p).call].state = "returned", ![Top(p).call].got = Reply(p).val]
        BY <1>7, <3>2 DEF TakeResult
      <4> QED BY <3>1, <4>1, <4>2 DEF TInv, CallType
    <3>3. CASE Reply(p).kind # "value"
      BY <1>7, <3>1, <3>3 DEF TakeResult, TInv, CallType
    <3> QED BY <3>2, <3>3
  <2> QED BY <1>7, <2>1, <2>2 DEF TakeResult, TInv
<1>8. CASE TakeQuery(p)
  <2>1. Goto(p, "answer") \in ProcType /\ Tail(proc[p].input) \in Seq(Replies)
    BY <1>8, GotoTypes, ReplyTypes DEF TakeQuery, Ready
  <2>2. [Goto(p, "answer") EXCEPT !.input = Tail(proc[p].input)] \in ProcType
    BY <2>1 DEF ProcType
  <2> QED BY <1>8, <2>2 DEF TakeQuery, TInv
<1>9. CASE Answer(p)
  <2>1. Goto(p, "wait") \in ProcType BY <1>9, GotoTypes DEF Answer
  <2>2. helper[proc[p].pid].req \in Seq(Requests)
    BY <1>9, <1>0 DEF Answer, Gone, Alive, TInv, HelperType, ProcType
  <2>3. [kind |-> "answer", call |-> Top(p).call] \in Requests
    BY <1>9, EntryTypes DEF Answer, Requests
  <2>4. Append(helper[proc[p].pid].req, [kind |-> "answer", call |-> Top(p).call]) \in Seq(Requests)
    BY <2>2, <2>3, Appended
  <2>5. helper' \in [Calls -> HelperType] BY <1>9, <2>4 DEF Answer, TInv, HelperType
  <2> QED BY <1>9, <2>1, <2>5 DEF Answer, TInv
<1>10. CASE AnswerFails(p) BY <1>10, GiveUpTypes DEF AnswerFails
<1>11. CASE Stopped(p) BY <1>11, GiveUpTypes DEF Stopped
<1>12. CASE Quitted(p)
  <2>1. Stop(p) \in [Calls -> HelperType] /\ Forgotten(p) \in ProcType BY StopTypes
  <2>2. [Forgotten(p) EXCEPT !.life = "up"] \in ProcType BY <2>1 DEF ProcType, Lives
  <2>3. Ended(p, "gone") \in ProcType BY EndedTypes
  <2>4. CASE proc[p].life = "stopping" BY <1>12, <2>1, <2>2, <2>4 DEF Quitted, TInv
  <2>5. CASE proc[p].life = "exiting"
    BY <1>12, <2>1, <2>3, <2>5, CallsAfterType DEF Quitted, TInv
  <2> QED BY <1>12, <2>4, <2>5 DEF Quitted
<1>13. CASE Overdue(p) BY <1>13, GiveUpTypes DEF Overdue
<1>14. ASSUME NEW life \in {"stopping", "exiting"}, Quit(p, life) PROVE TInv'
  <2>1. proc' \in [Procs -> ProcType] BY <1>14, <1>0 DEF Quit, TInv, ProcType, Lives
  <2>2. CASE Running(p)
    <3>1. proc[p].pid \in Calls BY <2>2, <1>0 DEF Running, ProcType
    <3>2. helper[proc[p].pid].req \in Seq(Requests) BY <3>1 DEF TInv, HelperType
    <3>3. [kind |-> "quit"] \in Requests BY DEF Requests
    <3>4. Append(helper[proc[p].pid].req, [kind |-> "quit"]) \in Seq(Requests)
      BY <3>2, <3>3, Appended
    <3>5. helper' \in [Calls -> HelperType]
      <4> DEFINE X == Append(helper[proc[p].pid].req, [kind |-> "quit"])
      <4>1. helper' = helper \/ helper' = [helper EXCEPT ![proc[p].pid].req = X] BY <1>14 DEF Quit
      <4>2. X \in Seq(Requests) BY <3>4
      <4> HIDE DEF X
      <4>3. [helper EXCEPT ![proc[p].pid].req = X] \in [Calls -> HelperType]
        BY <4>2 DEF TInv, HelperType
      <4> QED BY <4>1, <4>3 DEF TInv
    <3> QED BY <1>14, <2>1, <3>5 DEF Quit, TInv
  <2>3. CASE ~Running(p) BY <1>14, <2>1, <2>3 DEF Quit, TInv
  <2> QED BY <2>2, <2>3
<1>15. CASE Fork(p) BY <1>15, MetaAssumption DEF Fork, TInv, Procs
<1>16. CASE Killed(p) BY <1>16, EndedTypes, CallsAfterType DEF Killed, TInv
<1> QED
  BY <1>1, <1>2, <1>3, <1>4, <1>5, <1>6, <1>7, <1>8, <1>9, <1>10, <1>11, <1>12, <1>13, <1>14,
     <1>15, <1>16 DEF Compiler, Wait

LEMMA WritesTypes ==
  ASSUME TInv, NEW h \in Calls, NEW frames \in Seq(Replies), NEW rest \in HelperType,
         Writes(h, frames, rest)
  PROVE  helper' \in [Calls -> HelperType]
<1>1. rest.rep \o frames \in Seq(Replies) BY DEF HelperType
<1>2. [rest EXCEPT !.rep = rest.rep \o frames] \in HelperType BY <1>1 DEF HelperType
<1> QED BY <1>2 DEF Writes, TInv

LEMMA HelperTypes ==
  ASSUME TInv, NEW h \in Calls, Helper(h)
  PROVE  TInv'
<1>0. helper[h] \in HelperType BY DEF TInv
<1>t. ASSUME Asked(h, {"reset", "call", "answer", "quit"})
      PROVE  Taken(h) \in HelperType /\ Taken(h).stack = helper[h].stack
  BY <1>t, <1>0, RequestTypes DEF Asked, Taken, HelperType
<1>1. CASE Boot(h) BY <1>1, <1>0 DEF Boot, TInv, HelperType
<1>2. CASE ExecFails(h) BY <1>2, ExitsTypes DEF ExecFails
<1>3. CASE ServeReset(h)
  <2>1. Taken(h) \in HelperType BY <1>3, <1>t DEF ServeReset, Asked
  <2>2. [Taken(h) EXCEPT !.fresh = None] \in HelperType
    <3>1. None \in 0..MaxUnits BY MetaAssumption DEF None
    <3> QED BY <2>1, <3>1 DEF HelperType
  <2> QED BY <1>3, <2>2 DEF ServeReset, TInv
<1>4. CASE ServeCall(h)
  <2> DEFINE c == Request(h).call
             body == [call |-> c, phase |-> "run", asks |-> 0, own |-> TRUE]
             unit == IF helper[h].fresh = None THEN call[c].unit ELSE helper[h].fresh
  <2>1. Taken(h) \in HelperType BY <1>4, <1>t DEF ServeCall, Asked
  <2>2. c \in Calls BY <1>4, RequestTypes DEF ServeCall, Asked
  <2>3. unit \in 0..MaxUnits BY <2>2, <1>0 DEF TInv, CallType, HelperType
  <2>4. body \in Acts BY <2>2 DEF Acts
  <2>5. /\ helper' = [helper EXCEPT ![h] = [Pushed(Taken(h), body) EXCEPT !.fresh = unit]]
        /\ call' = [call EXCEPT ![c].body = "running"]
        /\ UNCHANGED proc
    BY <1>4 DEF ServeCall
  <2> HIDE DEF c, body, unit
  <2>6. Append(Taken(h).stack, body) \in Seq(Acts) BY <2>1, <2>4, Appended DEF HelperType
  <2>7. [Pushed(Taken(h), body) EXCEPT !.fresh = unit] \in HelperType
    BY <2>1, <2>3, <2>6 DEF Pushed, HelperType
  <2>8. call' \in [Calls -> CallType] BY <2>2, <2>5 DEF TInv, CallType
  <2> QED BY <2>5, <2>7, <2>8 DEF TInv
<1>5. CASE ServeAnswer(h)
  <2>1. CASE helper[h].stack = <<>> BY <1>5, <2>1, ExitsTypes DEF ServeAnswer
  <2>2. CASE helper[h].stack # <<>>
    <3> DEFINE own == Active(h).own /\ Request(h).call = Active(h).call
               a == [Active(h) EXCEPT !.phase = "run", !.own = own]
    <3>1. Taken(h) \in HelperType /\ Taken(h).stack = helper[h].stack
      BY <1>5, <1>t DEF ServeAnswer, Asked
    <3>2. a \in Acts BY <2>2, ActTypes DEF Acts
    <3>3. helper' = [helper EXCEPT ![h] = WithTop(Taken(h), a)] /\ UNCHANGED <<proc, call>>
      BY <1>5, <2>2 DEF ServeAnswer
    <3> HIDE DEF a
    <3>4. WithTop(Taken(h), a) \in HelperType
      BY <2>2, <3>1, <3>2, ActTypes DEF WithTop, HelperType
    <3> QED BY <3>3, <3>4 DEF TInv
  <2> QED BY <2>1, <2>2
<1>6. CASE ServeQuit(h) BY <1>6, ExitsTypes DEF ServeQuit
<1>7. CASE Hangup(h) BY <1>7, ExitsTypes DEF Hangup
<1>8. CASE Watch(h) BY <1>8, ReapedTypes, CallsAfterType DEF Watch, TInv
<1>9. CASE BodyReturns(h)
  <2>1. CASE Exits(h) BY <2>1, ExitsTypes
  <2>2. CASE ~Exits(h)
    <3> DEFINE a == Active(h)
    <3>1. PICK notices \in {<<>>, <<[kind |-> "notice"]>>},
               result \in {[kind |-> "value", val |-> IF a.own THEN a.call ELSE None],
                           [kind |-> "error"]} :
            Writes(h, Append(notices, result), Popped(helper[h]))
      BY <1>9, <2>2 DEF BodyReturns
    <3>2. call' = [call EXCEPT ![a.call].body = "done"] BY <1>9, <2>2 DEF BodyReturns
    <3>3. a \in Acts /\ Front(helper[h].stack) \in Seq(Acts)
      BY <1>9, ActTypes DEF BodyReturns, Body
    <3> HIDE DEF a
    <3>4. result \in Replies BY <3>3 DEF Acts, Replies
    <3>5. notices \in Seq(Replies)
      <4>1. [kind |-> "notice"] \in Replies BY DEF Replies
      <4>2. <<>> \in Seq(Replies) OBVIOUS
      <4>3. <<[kind |-> "notice"]>> \in Seq(Replies) BY <4>1
      <4> QED BY <4>2, <4>3
    <3>6. Append(notices, result) \in Seq(Replies) BY <3>4, <3>5, Appended
    <3>7. Popped(helper[h]) \in HelperType BY <3>3, <1>0 DEF Popped, HelperType
    <3>8. helper' \in [Calls -> HelperType] BY <3>1, <3>6, <3>7, WritesTypes DEF Writes
    <3>9. call' \in [Calls -> CallType] BY <3>2, <3>3 DEF TInv, CallType, Acts
    <3> QED BY <3>1, <3>8, <3>9 DEF TInv, Writes
  <2> QED BY <2>1, <2>2
<1>10. CASE BodyAsks(h)
  <2>1. CASE Exits(h) BY <2>1, ExitsTypes
  <2>2. CASE ~Exits(h)
    <3> DEFINE a == [Active(h) EXCEPT !.phase = "ask", !.asks = Active(h).asks + 1]
    <3>1. Writes(h, <<[kind |-> "query"]>>, WithTop(helper[h], a)) /\ UNCHANGED call
      BY <1>10, <2>2 DEF BodyAsks
    <3>2. a \in Acts
      <4>1. Active(h) \in Acts BY <1>10, ActTypes DEF BodyAsks, Body
      <4>2. Active(h).asks + 1 \in Nat BY <4>1 DEF Acts
      <4> QED BY <4>1, <4>2 DEF Acts
    <3> HIDE DEF a
    <3>3. WithTop(helper[h], a) \in HelperType
      BY <1>10, <3>2, <1>0, ActTypes DEF BodyAsks, Body, WithTop, HelperType
    <3>4. <<[kind |-> "query"]>> \in Seq(Replies)
      <4>1. [kind |-> "query"] \in Replies BY DEF Replies
      <4> QED BY <4>1
    <3> QED BY <3>1, <3>3, <3>4, WritesTypes DEF Writes, TInv
  <2> QED BY <2>1, <2>2
<1>11. CASE BodyCrashes(h) BY <1>11, ExitsTypes DEF BodyCrashes
<1>12. CASE BodyLeaves(h) BY <1>12, <1>0 DEF BodyLeaves, TInv, HelperType
<1> QED
  BY <1>1, <1>2, <1>3, <1>4, <1>5, <1>6, <1>7, <1>8, <1>9, <1>10, <1>11, <1>12 DEF Helper, Serve

LEMMA TypesStep == TInv /\ [Next]_vars => TInv'
<1> SUFFICES ASSUME TInv, [Next]_vars PROVE TInv' OBVIOUS
<1>1. CASE Next BY <1>1, CompilerTypes, HelperTypes DEF Next
<1>2. CASE UNCHANGED vars BY <1>2 DEF vars, TInv
<1> QED BY <1>1, <1>2

LEMMA TypesInvariant == Spec => []TInv
<1> QED BY InitTypes, TypesStep, PTL DEF Spec

-----------------------------------------------------------------------------
(* A helper is in hand *)

LEMMA InitHand == Init => HInv
<1> SUFFICES ASSUME Init PROVE HInv OBVIOUS
<1>1. Main \in Procs BY DEF Procs
<1> QED BY <1>1 DEF Init, HInv, Hand, NoProc, NoHelper, NoCall, None, Calls, Lives

\* A process that is let go of the helper it ran ends it.
LEMMA LetGo ==
  ASSUME TInv, HInv, NEW p \in Procs, helper' = Stop(p),
         \A o \in Procs \ {p} : proc'[o] = proc[o],
         proc[p].life \in Lives, proc'[p].life \in {"up", "gone"}, proc'[p].pid = None,
         \A c \in Calls : call'[c].state = "unused" => call[c].state = "unused"
  PROVE  HInv'
<1>1. \A h \in Calls : helper[h].starter \in Procs BY DEF TInv, HelperType
<1>2. None \notin Calls BY DEF None, Calls
<1>3. \A o \in Procs : proc'[o].life \notin Lives => proc'[o].pid = None
  BY DEF HInv
<1>4. CASE ~Running(p)
  <2>1. helper' = helper BY <1>4 DEF Stop
  <2>2. \A h \in Calls : helper[h].starter = p => proc[p].pid # h
    BY <1>2, <1>4 DEF Running
  <2>3. \A h \in Calls : Hand(h)' /\ (helper'[h].left => helper'[h].state \in {"up", "ended"})
    BY <1>1, <1>2, <2>1, <2>2 DEF HInv, Hand, Lives
  <2> QED BY <1>2, <1>3, <2>1, <2>3 DEF HInv
<1>5. CASE Running(p)
  <2>1. helper' = [helper EXCEPT ![proc[p].pid] = Reaped(proc[p].pid)] BY <1>5 DEF Stop
  <2>2. proc[p].pid \in Calls BY <1>5 DEF Running, TInv, ProcType
  <2>3. /\ helper'[proc[p].pid].state = "reaped" /\ helper'[proc[p].pid].starter = p
        /\ ~helper'[proc[p].pid].left
        /\ \A h \in Calls \ {proc[p].pid} : helper'[h] = helper[h]
    BY <2>1, <2>2, <1>5 DEF Running, TInv, HelperType, Reaped
  <2>4. proc[p].pid # None /\ helper[proc[p].pid].starter = p BY <1>5 DEF Running
  <2>5. \A h \in Calls : Hand(h)' /\ (helper'[h].left => helper'[h].state \in {"up", "ended"})
    BY <1>1, <1>2, <2>2, <2>3, <2>4 DEF HInv, Hand, Lives
  <2>6. \A c \in Calls : call'[c].state = "unused" =>
          helper'[c].state = "none" /\ \A o \in Procs : proc'[o].pid # c
    BY <1>2, <2>2, <2>3 DEF HInv
  <2> QED BY <1>3, <2>5, <2>6 DEF HInv
<1> QED BY <1>4, <1>5

LEMMA GiveUpHand ==
  ASSUME TInv, HInv, NEW p \in Procs, GiveUp(p), proc[p].life = "up"
  PROVE  HInv'
<1>1. /\ \A o \in Procs \ {p} : proc'[o] = proc[o]
      /\ proc'[p].life = "up" /\ proc'[p].pid = None
  BY DEF GiveUp, TInv, Popped, Forgotten, ProcType
<1>2. \A c \in Calls : call'[c].state = "unused" => call[c].state = "unused"
  BY CallsAfterType DEF GiveUp
<1> QED BY <1>1, <1>2, LetGo DEF GiveUp, Lives

LEMMA ExitsHand ==
  ASSUME TInv, HInv, NEW h \in Calls, Exits(h), helper[h].state \in {"forked", "up"}
  PROVE  HInv'
<1>1. \A c \in Calls : call'[c].state = "unused" => call[c].state = "unused"
  BY CallsAfterType DEF Exits
<1>2. /\ helper'[h].state = "ended" /\ helper'[h].starter = helper[h].starter
      /\ \A g \in Calls \ {h} : helper'[g] = helper[g]
      /\ proc' = proc
  BY DEF Exits, TInv, HelperType
<1>3. \A g \in Calls : Hand(g)' /\ (helper'[g].left => helper'[g].state \in {"up", "ended"})
  BY <1>2 DEF HInv, Hand
<1>4. call[h].state # "unused" BY DEF HInv
<1> QED BY <1>1, <1>2, <1>3, <1>4 DEF HInv

\* A step that leaves the processes' lives and helpers, and the helpers' states,
\* leaves the helpers in hand.
LEMMA SameHand ==
  ASSUME HInv,
         \A p \in Procs : proc'[p].life = proc[p].life /\ proc'[p].pid = proc[p].pid,
         \A h \in Calls : /\ helper'[h].state = helper[h].state /\ helper'[h].left = helper[h].left
                          /\ helper'[h].starter = helper[h].starter,
         \A h \in Calls : helper[h].starter \in Procs,
         \A c \in Calls : call'[c].state = "unused" => call[c].state = "unused"
  PROVE  HInv'
BY DEF HInv, Hand

LEMMA CompilerHand ==
  ASSUME TInv, HInv, NEW p \in Procs, Compiler(p)
  PROVE  HInv'
<1> USE DEF In
<1>0. \A h \in Calls : helper[h].starter \in Procs BY DEF TInv, HelperType
<1>p. proc[p] \in ProcType BY DEF TInv
<1>1. CASE BeginUnit(p) BY <1>1, <1>0, <1>p, SameHand DEF BeginUnit, TInv, ProcType
<1>2. CASE Call(p)
  <2> DEFINE c == FreshCall
             q == Pushed(proc[p], [call |-> c, phase |-> "send"])
  <2>1. c \in Calls /\ call[c].state = "unused" BY <1>2, FreshCallFresh DEF Call, MayCall
  <2>2. q.life = proc[p].life /\ q.pid = proc[p].pid /\ proc[p].life = "up"
    BY <1>2, <1>p DEF Call, MayCall, Idle, Pushed, ProcType
  <2>3. \A d \in Calls : call'[d].state = "unused" => call[d].state = "unused" /\ d # c
    BY <1>2, <2>1 DEF Call, TInv, CallType
  <2> HIDE DEF c
  <2>4. CASE Running(p)
    <3>1. proc' = [proc EXCEPT ![p] = q] /\ UNCHANGED helper BY <1>2, <2>4 DEF Call, c
    <3> QED BY <2>2, <2>3, <3>1, <1>0, SameHand DEF TInv
  <2>5. CASE ~Running(p)
    <3>1. /\ proc' = [proc EXCEPT ![p] = [q EXCEPT !.pid = c, !.reset = TRUE, !.input = <<>>,
                                                   !.ends = q.ends \cup {c}]]
          /\ helper' = [helper EXCEPT ![c] = [NoHelper EXCEPT !.state = "forked", !.starter = p]]
      BY <1>2, <2>5 DEF Call, c
    <3>2. /\ proc'[p].life = "up" /\ proc'[p].pid = c
          /\ \A o \in Procs \ {p} : proc'[o] = proc[o]
      BY <3>1, <2>2, <1>p DEF TInv, Pushed, ProcType
    <3>3. /\ helper'[c].state = "forked" /\ helper'[c].starter = p /\ ~helper'[c].left
          /\ \A h \in Calls \ {c} : helper'[h] = helper[h]
      BY <3>1, <2>1 DEF TInv, NoHelper
    <3>4. \A h \in Calls : helper[h].starter = p => proc[p].pid # h
      BY <2>5 DEF Running, None, Calls
    <3>5. \A h \in Calls : Hand(h)' /\ (helper'[h].left => helper'[h].state \in {"up", "ended"})
      BY <1>0, <2>2, <3>2, <3>3, <3>4 DEF HInv, Hand
    <3>6. \A d \in Calls : call'[d].state = "unused" =>
            helper'[d].state = "none" /\ \A o \in Procs : proc'[o].pid # d
      BY <2>3, <3>2, <3>3 DEF HInv
    <3>7. \A o \in Procs : proc'[o].life \notin Lives => proc'[o].pid = None
      BY <3>2 DEF HInv, Lives
    <3> QED BY <3>5, <3>6, <3>7 DEF HInv
  <2> QED BY <2>4, <2>5
<1>3. CASE CallRefused(p)
  <2>1. FreshCall \in Calls BY <1>3, FreshCallFresh DEF CallRefused, MayCall
  <2>2. /\ proc'[p].life = proc[p].life /\ proc'[p].pid = None /\ proc[p].life = "up"
        /\ \A o \in Procs \ {p} : proc'[o] = proc[o]
        /\ helper' = helper
    BY <1>3, <1>p DEF CallRefused, MayCall, Idle, TInv, ProcType
  <2>3. \A h \in Calls : helper[h].starter = p => proc[p].pid # h
    BY <1>3 DEF CallRefused, Running, None, Calls
  <2>4. \A d \in Calls : call'[d].state = "unused" => call[d].state = "unused"
    BY <1>3, <2>1 DEF CallRefused, TInv, CallType
  <2>5. None \notin Calls BY DEF None, Calls
  <2>6. \A h \in Calls : Hand(h)' /\ (helper'[h].left => helper'[h].state \in {"up", "ended"})
    BY <1>0, <2>2, <2>3, <2>5 DEF HInv, Hand
  <2> QED BY <2>2, <2>4, <2>5, <2>6 DEF HInv
<1>g. ASSUME NEW phase \in {"send", "wait", "answer"}, In(p, {"send", "wait", "answer"})
      PROVE  Goto(p, phase).life = proc[p].life /\ Goto(p, phase).pid = proc[p].pid
  BY <1>p DEF Goto, WithTop, ProcType
<1>4. CASE Send(p)
  <2>1. Goto(p, "wait") \in ProcType BY <1>4, GotoTypes DEF Send
  <2>2. \A o \in Procs : proc'[o].life = proc[o].life /\ proc'[o].pid = proc[o].pid
    BY <1>4, <1>g, <2>1 DEF Send, TInv, ProcType
  <2>3. \A h \in Calls : /\ helper'[h].state = helper[h].state /\ helper'[h].left = helper[h].left
                         /\ helper'[h].starter = helper[h].starter
    <3> DEFINE X == helper[proc[p].pid].req
                      \o (IF proc[p].reset THEN <<[kind |-> "reset"]>> ELSE <<>>)
                      \o <<[kind |-> "call", call |-> Top(p).call]>>
    <3>1. helper' = [helper EXCEPT ![proc[p].pid].req = X] BY <1>4 DEF Send
    <3> HIDE DEF X
    <3> QED BY <3>1 DEF TInv, HelperType
  <2> QED BY <1>4, <1>0, <2>2, <2>3, SameHand DEF Send
<1>5. CASE Read(p)
  <2> DEFINE rep == helper[proc[p].pid].rep
  <2>1. PICK n \in DOMAIN rep :
          /\ proc' = [proc EXCEPT ![p].input = SubSeq(rep, 1, n)]
          /\ helper' = [helper EXCEPT ![proc[p].pid].rep = SubSeq(rep, n + 1, Len(rep))]
    BY <1>5 DEF Read
  <2> HIDE DEF rep
  <2>2. \A o \in Procs : proc'[o].life = proc[o].life /\ proc'[o].pid = proc[o].pid
    BY <2>1 DEF TInv, ProcType
  <2>3. \A h \in Calls : /\ helper'[h].state = helper[h].state /\ helper'[h].left = helper[h].left
                         /\ helper'[h].starter = helper[h].starter
    BY <2>1 DEF TInv, HelperType
  <2> QED BY <1>5, <1>0, <2>2, <2>3, SameHand DEF Read
<1>6. CASE TakeNotice(p)
  <2>1. \A o \in Procs : proc'[o].life = proc[o].life /\ proc'[o].pid = proc[o].pid
    BY <1>6 DEF TakeNotice, Rest, TInv, ProcType
  <2> QED BY <1>6, <1>0, <2>1, SameHand DEF TakeNotice
<1>7. CASE TakeResult(p)
  <2>1. \A o \in Procs : proc'[o].life = proc[o].life /\ proc'[o].pid = proc[o].pid
    BY <1>7 DEF TakeResult, Popped, Rest, TInv, ProcType
  <2>2. Top(p).call \in Calls BY <1>7, EntryTypes DEF TakeResult, Ready
  <2>3. \A c \in Calls : call'[c].state = "unused" => call[c].state = "unused"
    BY <1>7, <2>2 DEF TakeResult, TInv, CallType
  <2> QED BY <1>7, <1>0, <2>1, <2>3, SameHand DEF TakeResult
<1>8. CASE TakeQuery(p)
  <2>1. \A o \in Procs : proc'[o].life = proc[o].life /\ proc'[o].pid = proc[o].pid
    <3>1. Goto(p, "answer") \in ProcType BY <1>8, GotoTypes DEF TakeQuery, Ready
    <3> QED BY <1>8, <1>g, <3>1 DEF TakeQuery, Ready, TInv, ProcType
  <2> QED BY <1>8, <1>0, <2>1, SameHand DEF TakeQuery
<1>9. CASE Answer(p)
  <2>1. \A o \in Procs : proc'[o].life = proc[o].life /\ proc'[o].pid = proc[o].pid
    BY <1>9, <1>g DEF Answer, TInv
  <2>2. \A h \in Calls : /\ helper'[h].state = helper[h].state /\ helper'[h].left = helper[h].left
                         /\ helper'[h].starter = helper[h].starter
    BY <1>9 DEF Answer, TInv, HelperType
  <2> QED BY <1>9, <1>0, <2>1, <2>2, SameHand DEF Answer
<1>10. CASE AnswerFails(p) BY <1>10, GiveUpHand DEF AnswerFails
<1>11. CASE Stopped(p) BY <1>11, GiveUpHand DEF Stopped
<1>12. CASE Quitted(p)
  <2>1. /\ \A o \in Procs \ {p} : proc'[o] = proc[o]
        /\ proc'[p].life \in {"up", "gone"} /\ proc'[p].pid = None
        /\ proc[p].life \in Lives
    <3>1. [Forgotten(p) EXCEPT !.life = "up"].pid = None /\ [Forgotten(p) EXCEPT !.life = "up"].life = "up"
      BY <1>p, StopTypes DEF Forgotten, ProcType
    <3>2. Ended(p, "gone").pid = None /\ Ended(p, "gone").life = "gone" BY DEF Ended, NoProc
    <3>3. \/ proc' = [proc EXCEPT ![p] = [Forgotten(p) EXCEPT !.life = "up"]]
          \/ proc' = [proc EXCEPT ![p] = Ended(p, "gone")]
      BY <1>12 DEF Quitted
    <3>4. proc[p].life \in Lives BY <1>12 DEF Quitted, Lives
    <3> QED BY <3>1, <3>2, <3>3, <3>4 DEF TInv
  <2>2. \A c \in Calls : call'[c].state = "unused" => call[c].state = "unused"
    BY <1>12, CallsAfterType DEF Quitted
  <2> QED BY <1>12, <2>1, <2>2, LetGo DEF Quitted, Lives
<1>13. CASE Overdue(p) BY <1>13, GiveUpHand DEF Overdue
<1>14. ASSUME NEW life \in {"stopping", "exiting"}, Quit(p, life) PROVE HInv'
  <2>1. /\ \A o \in Procs : proc'[o].pid = proc[o].pid
        /\ \A o \in Procs \ {p} : proc'[o].life = proc[o].life
        /\ proc'[p].life \in Lives /\ proc[p].life = "up"
        /\ call' = call
    BY <1>14 DEF Quit, Idle, TInv, ProcType, Lives
  <2>2. \A h \in Calls : /\ helper'[h].state = helper[h].state /\ helper'[h].left = helper[h].left
                         /\ helper'[h].starter = helper[h].starter
    BY <1>14 DEF Quit, TInv, HelperType
  <2>3. \A o \in Procs : /\ proc'[o].life = "unborn" <=> proc[o].life = "unborn"
                         /\ proc'[o].life = "killed" <=> proc[o].life = "killed"
    BY <2>1 DEF Lives
  <2> QED BY <1>0, <2>1, <2>2, <2>3 DEF HInv, Hand
<1>15. CASE Fork(p)
  <2>1. Main \in Procs BY DEF Procs
  <2>2. /\ proc[p].life = "unborn" /\ helper' = helper /\ call' = call
        /\ \A o \in Procs \ {p} : proc'[o] = proc[o]
        /\ proc'[p] = proc[Main] /\ proc[Main].life = "up"
    BY <1>15 DEF Fork, Idle, TInv
  <2> QED BY <1>0, <2>1, <2>2 DEF HInv, Hand, Lives
<1>16. CASE Killed(p)
  <2>1. /\ \A o \in Procs \ {p} : proc'[o] = proc[o]
        /\ proc'[p].life = "killed" /\ proc'[p].pid = None /\ helper' = helper
    BY <1>16 DEF Killed, TInv, Ended, NoProc
  <2>2. \A c \in Calls : call'[c].state = "unused" => call[c].state = "unused"
    BY <1>16, CallsAfterType DEF Killed
  <2> QED BY <1>0, <2>1, <2>2 DEF HInv, Hand, Lives, None, Calls
<1> QED
  BY <1>1, <1>2, <1>3, <1>4, <1>5, <1>6, <1>7, <1>8, <1>9, <1>10, <1>11, <1>12, <1>13, <1>14,
     <1>15, <1>16 DEF Compiler, Wait

LEMMA HelperHand ==
  ASSUME TInv, HInv, NEW h \in Calls, Helper(h)
  PROVE  HInv'
<1>0. \A g \in Calls : helper[g].starter \in Procs BY DEF TInv, HelperType
<1>h. helper[h] \in HelperType BY DEF TInv
<1> DEFINE Same(r) == /\ r.state = helper[h].state /\ r.left = helper[h].left
                      /\ r.starter = helper[h].starter
<1>s. ASSUME NEW r, helper' = [helper EXCEPT ![h] = r], Same(r), UNCHANGED proc,
             \A c \in Calls : call'[c].state = "unused" => call[c].state = "unused"
      PROVE  HInv'
  <2>2. \A g \in Calls : /\ helper'[g].state = helper[g].state /\ helper'[g].left = helper[g].left
                         /\ helper'[g].starter = helper[g].starter
    BY <1>s DEF TInv
  <2> QED BY <1>0, <1>s, <2>2, SameHand
<1> HIDE DEF Same
<1>t. Taken(h).state = helper[h].state /\ Taken(h).left = helper[h].left
      /\ Taken(h).starter = helper[h].starter
  BY <1>h DEF Taken, HelperType
<1>1. CASE Boot(h)
  <2>1. /\ helper'[h].state = "up" /\ helper'[h].starter = helper[h].starter
        /\ helper'[h].left = helper[h].left
        /\ \A g \in Calls \ {h} : helper'[g] = helper[g]
        /\ proc' = proc /\ call' = call /\ helper[h].state = "forked"
    BY <1>1, <1>h DEF Boot, TInv, HelperType
  <2>2. \A g \in Calls : Hand(g)' /\ (helper'[g].left => helper'[g].state \in {"up", "ended"})
    BY <2>1 DEF HInv, Hand
  <2> QED BY <2>1, <2>2 DEF HInv
<1>2. CASE ExecFails(h) BY <1>2, ExitsHand DEF ExecFails
<1>3. CASE ServeReset(h)
  <2>1. Same([Taken(h) EXCEPT !.fresh = None]) BY <1>h DEF Same, Taken, HelperType
  <2> QED BY <1>3, <1>s, <2>1 DEF ServeReset
<1>4. CASE ServeCall(h)
  <2> DEFINE c == Request(h).call
             body == [call |-> c, phase |-> "run", asks |-> 0, own |-> TRUE]
             unit == IF helper[h].fresh = None THEN call[c].unit ELSE helper[h].fresh
  <2>1. /\ helper' = [helper EXCEPT ![h] = [Pushed(Taken(h), body) EXCEPT !.fresh = unit]]
        /\ call' = [call EXCEPT ![c].body = "running"]
        /\ UNCHANGED proc
    BY <1>4 DEF ServeCall
  <2> HIDE DEF c, body, unit
  <2>2. Same([Pushed(Taken(h), body) EXCEPT !.fresh = unit])
    BY <1>h DEF Same, Taken, Pushed, HelperType
  <2>3. \A d \in Calls : call'[d].state = call[d].state BY <2>1 DEF TInv, CallType
  <2> QED BY <1>s, <2>1, <2>2, <2>3
<1>5. CASE ServeAnswer(h)
  <2>1. CASE helper[h].stack = <<>> BY <1>5, <2>1, ExitsHand DEF ServeAnswer, Asked, Serving, Up
  <2>2. CASE helper[h].stack # <<>>
    <3> DEFINE own == Active(h).own /\ Request(h).call = Active(h).call
               a == [Active(h) EXCEPT !.phase = "run", !.own = own]
    <3>1. helper' = [helper EXCEPT ![h] = WithTop(Taken(h), a)] /\ UNCHANGED <<proc, call>>
      BY <1>5, <2>2 DEF ServeAnswer
    <3> HIDE DEF a
    <3>2. Same(WithTop(Taken(h), a)) BY <1>h DEF Same, Taken, WithTop, HelperType
    <3> QED BY <1>s, <3>1, <3>2
  <2> QED BY <2>1, <2>2
<1>6. CASE ServeQuit(h) BY <1>6, ExitsHand DEF ServeQuit, Asked, Serving, Up
<1>7. CASE Hangup(h) BY <1>7, ExitsHand DEF Hangup, Serving, Up
<1>8. CASE Watch(h)
  <2>1. /\ helper'[h].state = "reaped" /\ helper'[h].starter = helper[h].starter
        /\ ~helper'[h].left /\ \A g \in Calls \ {h} : helper'[g] = helper[g]
        /\ proc' = proc
        /\ helper[h].state = "up" /\ proc[helper[h].starter].life \in {"gone", "killed"}
    BY <1>8, <1>h DEF Watch, Up, Dead, TInv, Reaped, HelperType
  <2>2. \A c \in Calls : call'[c].state = "unused" => call[c].state = "unused"
    BY <1>8, CallsAfterType DEF Watch
  <2>3. proc[helper[h].starter].life = "killed"
    <3>1. helper[h].starter \in Procs BY <1>0
    <3>2. proc[helper[h].starter].life = "gone" => proc[helper[h].starter].pid = None
      BY <3>1 DEF HInv, Lives
    <3>3. None # h BY DEF None, Calls
    <3> QED BY <2>1, <3>2, <3>3 DEF HInv, Hand
  <2>4. \A g \in Calls : Hand(g)' /\ (helper'[g].left => helper'[g].state \in {"up", "ended"})
    BY <2>1, <2>3 DEF HInv, Hand
  <2>5. call[h].state # "unused" BY <2>1 DEF HInv
  <2> QED BY <2>1, <2>2, <2>4, <2>5 DEF HInv
<1>w. ASSUME NEW frames, NEW r, Same(r), r.state = helper[h].state, Writes(h, frames, r),
             r \in HelperType,
             \A c \in Calls : call'[c].state = "unused" => call[c].state = "unused"
      PROVE  HInv'
  <2> DEFINE x == [r EXCEPT !.rep = r.rep \o frames]
  <2>1. helper' = [helper EXCEPT ![h] = x] /\ UNCHANGED proc BY <1>w DEF Writes
  <2>2. Same(x) BY <1>w DEF Same, HelperType
  <2> HIDE DEF x
  <2> QED BY <1>s, <1>w, <2>1, <2>2
<1>9. CASE BodyReturns(h)
  <2>1. CASE Exits(h) BY <1>9, <2>1, ExitsHand DEF BodyReturns, Body, Up
  <2>2. CASE ~Exits(h)
    <3>1. PICK frames : Writes(h, frames, Popped(helper[h])) BY <1>9, <2>2 DEF BodyReturns
    <3>2. \A c \in Calls : call'[c].state = call[c].state
      BY <1>9, <2>2 DEF BodyReturns, TInv, CallType
    <3>3. Popped(helper[h]) \in HelperType
      BY <1>9, <1>h, ActTypes DEF BodyReturns, Body, Popped, HelperType
    <3>4. Same(Popped(helper[h])) BY <1>h DEF Same, Popped, HelperType
    <3> QED BY <1>w, <3>1, <3>2, <3>3, <3>4 DEF Same
  <2> QED BY <2>1, <2>2
<1>10. CASE BodyAsks(h)
  <2>1. CASE Exits(h) BY <1>10, <2>1, ExitsHand DEF BodyAsks, Body, Up
  <2>2. CASE ~Exits(h)
    <3> DEFINE a == [Active(h) EXCEPT !.phase = "ask", !.asks = Active(h).asks + 1]
    <3>1. Writes(h, <<[kind |-> "query"]>>, WithTop(helper[h], a)) /\ UNCHANGED call
      BY <1>10, <2>2 DEF BodyAsks
    <3>2. a \in Acts
      <4>1. Active(h) \in Acts BY <1>10, ActTypes DEF BodyAsks, Body
      <4>2. Active(h).asks + 1 \in Nat BY <4>1 DEF Acts
      <4> QED BY <4>1, <4>2 DEF Acts
    <3> HIDE DEF a
    <3>3. WithTop(helper[h], a) \in HelperType
      BY <1>10, <3>2, <1>h, ActTypes DEF BodyAsks, Body, WithTop, HelperType
    <3>4. Same(WithTop(helper[h], a)) BY <1>h DEF Same, WithTop, HelperType
    <3> QED BY <1>w, <3>1, <3>3, <3>4 DEF Same
  <2> QED BY <2>1, <2>2
<1>11. CASE BodyCrashes(h) BY <1>11, ExitsHand DEF BodyCrashes, Body, Up
<1>12. CASE BodyLeaves(h)
  <2>1. /\ helper'[h].state = "up" /\ helper'[h].starter = helper[h].starter
        /\ \A g \in Calls \ {h} : helper'[g] = helper[g]
        /\ proc' = proc /\ call' = call /\ helper[h].state = "up"
    BY <1>12, <1>h DEF BodyLeaves, Body, Up, TInv, HelperType
  <2>2. \A g \in Calls : Hand(g)' /\ (helper'[g].left => helper'[g].state \in {"up", "ended"})
    BY <2>1 DEF HInv, Hand
  <2> QED BY <2>1, <2>2 DEF HInv
<1> QED
  BY <1>1, <1>2, <1>3, <1>4, <1>5, <1>6, <1>7, <1>8, <1>9, <1>10, <1>11, <1>12 DEF Helper, Serve

LEMMA HandStep == TInv /\ HInv /\ [Next]_vars => HInv'
<1> SUFFICES ASSUME TInv, HInv, [Next]_vars PROVE HInv' OBVIOUS
<1>1. CASE Next BY <1>1, CompilerHand, HelperHand DEF Next
<1>2. CASE UNCHANGED vars BY <1>2 DEF vars, HInv, Hand
<1> QED BY <1>1, <1>2

(* A helper, and a process its bodies left behind, stays in hand of the    *)
(* process that started it until that process ended and waited for it: the *)
(* bookkeeping of `active' in src/src/meta-helper-client.x, which a forked *)
(* worker inherits and must not take for its own.                          *)
THEOREM HelpersStayInHand == Spec => []HelpersInHand
<1>1. TInv /\ HInv => HelpersInHand
  <2> SUFFICES ASSUME TInv, HInv, NEW h \in Calls,
                      proc[helper[h].starter].life # "killed"
               PROVE  (helper[h].left \/ helper[h].state \notin {"none", "reaped"}) =
                        (/\ proc[helper[h].starter].life \in Lives
                         /\ proc[helper[h].starter].pid = h)
    BY DEF HelpersInHand, Lives
  <2>1. helper[h].starter \in Procs /\ helper[h].left \in BOOLEAN BY DEF TInv, HelperType
  <2>2. None # h BY DEF None, Calls
  <2>3. Hand(h) /\ (helper[h].left => helper[h].state \in {"up", "ended"}) BY DEF HInv
  <2>4. proc[helper[h].starter].life \notin Lives => proc[helper[h].starter].pid = None
    BY <2>1 DEF HInv
  <2> QED BY <2>1, <2>2, <2>3, <2>4 DEF Hand
<1> QED BY InitTypes, InitHand, TypesStep, HandStep, <1>1, PTL DEF Spec

(* The records of processes, helpers and calls keep their types.            *)
THEOREM TypesHold == Spec => []TypeOK
<1>1. TInv => TypeOK
  <2> SUFFICES ASSUME TInv PROVE TypeOK OBVIOUS
  <2>1. proc \in [Procs -> [life : {"unborn", "up", "stopping", "exiting", "gone", "killed"},
                         unit : 1..MaxUnits, pid : Calls \cup {None}, reset : BOOLEAN,
                         ends : SUBSET Calls,
                         stack : Seq([call : Calls, phase : {"send", "wait", "answer"}]),
                         input : Seq([kind : {"notice", "query", "error"}]
                                     \cup [kind : {"value"}, val : Calls \cup {None}])]]
    BY DEF TInv, ProcType, Entries, Replies, Lives
  <2>2. ASSUME NEW h \in Calls
        PROVE  /\ helper[h].state \in {"none", "forked", "up", "ended", "reaped"}
               /\ helper[h].starter \in Procs /\ helper[h].fresh \in 0..MaxUnits
               /\ Bodies(h) \subseteq Calls
    <3>1. helper[h] \in HelperType BY DEF TInv
    <3>2. \A i \in DOMAIN helper[h].stack : helper[h].stack[i].call \in Calls
      <4>1. helper[h].stack \in Seq(Acts) BY <3>1 DEF HelperType
      <4>2. \A i \in DOMAIN helper[h].stack : helper[h].stack[i] \in Acts BY <4>1
      <4> QED BY <4>2 DEF Acts
    <3> QED BY <3>1, <3>2 DEF HelperType, Bodies
  <2>3. call \in [Calls -> [state : {"unused", "pending", "returned", "failed", "lost"},
                         got : Calls \cup {None}, unit : 0..MaxUnits,
                         body : {"no", "running", "done", "stopped"}]]
    BY DEF TInv, CallType
  <2> QED BY <2>1, <2>2, <2>3 DEF TypeOK
<1> QED BY TypesInvariant, <1>1, PTL

-----------------------------------------------------------------------------
(* What is left alone *)

\* The predicates look at the calls of a helper's requests and bodies, and at
\* those a process waits for, and at no other.
LEMMA HelperFrame ==
  ASSUME NEW r \in HelperType, NEW k, NEW k2, HelperOK(r, k),
         \A c \in Held(r) : k2[c] = k[c]
  PROVE  HelperOK(r, k2)
<1>1. r.stack \in Seq(Acts) /\ r.req \in Seq(Requests) BY DEF HelperType
<1>2. \A i \in 1..Len(r.stack) : k2[r.stack[i].call] = k[r.stack[i].call]
  BY DEF Held, CallsIn
<1>3. \A i \in 1..Len(r.req) : r.req[i].kind = "call" => k2[r.req[i].call] = k[r.req[i].call]
  BY DEF Held, AsksIn
<1>4. BodiesOK(r, k2) BY <1>2 DEF HelperOK, BodiesOK
<1>5. RequestsOK(r, k2)
  <2>1. Len(r.req) = 1 => 1 \in 1..Len(r.req) OBVIOUS
  <2>2. Len(r.req) = 2 => 2 \in 1..Len(r.req) OBVIOUS
  <2> QED BY <1>3, <2>1, <2>2 DEF HelperOK, RequestsOK, Callable
<1> QED BY <1>4, <1>5 DEF HelperOK

LEMMA StackFrame ==
  ASSUME NEW q, NEW k, NEW k2, StackOK(q, k), \A c \in CallsIn(q.stack) : k2[c] = k[c]
  PROVE  StackOK(q, k2)
BY DEF StackOK, CallsIn

LEMMA MineIn ==
  ASSUME NEW S, NEW s \in Seq(S), s # <<>>
  PROVE  Last(s).call \in CallsIn(s)
<1>1. Len(s) \in 1..Len(s) OBVIOUS
<1> QED BY <1>1 DEF CallsIn, Last

LEMMA LinkFrame ==
  ASSUME NEW q \in ProcType, NEW r, NEW k, NEW k2, Link(q, r, k),
         \A c \in CallsIn(q.stack) : k2[c] = k[c]
  PROVE  Link(q, r, k2)
<1>1. q.stack # <<>> => k2[Mine(q)] = k[Mine(q)]
  BY MineIn DEF Mine, ProcType
<1> QED BY <1>1 DEF Link, Sending, Replied, AtPhase

LEMMA PidTypes ==
  ASSUME TInv, NEW p \in Procs, Running(p)
  PROVE  /\ proc[p].pid \in Calls /\ proc[p] \in ProcType /\ helper[proc[p].pid] \in HelperType
         /\ helper[proc[p].pid].starter = p
BY DEF TInv, ProcType, Running

\* The calls a process waits for are pending, those asked of a helper have not
\* started, and those a helper runs have: none of them is unused.
LEMMA NoneUnused ==
  ASSUME TInv, LInv, UInv
  PROVE  /\ \A p \in Procs : \A c \in CallsIn(proc[p].stack) : call[c].state = "pending"
         /\ \A h \in Calls : \A c \in Held(helper[h]) : call[c].state # "unused"
         /\ \A h \in Calls : CallsIn(helper[h].stack) \subseteq Calls
         /\ \A h \in Calls : AsksIn(helper[h].req) \subseteq Calls
<1>1. \A p \in Procs : \A c \in CallsIn(proc[p].stack) : call[c].state = "pending"
  BY DEF LInv, ProcOK, StackOK, CallsIn
<1>2. ASSUME NEW h \in Calls
      PROVE  /\ \A c \in Held(helper[h]) : call[c].state # "unused"
             /\ CallsIn(helper[h].stack) \subseteq Calls /\ AsksIn(helper[h].req) \subseteq Calls
  <2>1. /\ helper[h].stack \in Seq(Acts) /\ helper[h].req \in Seq(Requests)
        /\ HelperOK(helper[h], call)
    BY DEF TInv, HelperType, LInv
  <2>2. \A i \in 1..Len(helper[h].stack) : helper[h].stack[i] \in Acts BY <2>1
  <2>3. CallsIn(helper[h].stack) \subseteq Calls BY <2>2 DEF CallsIn, Acts
  <2>4. \A c \in CallsIn(helper[h].stack) : call[c].state # "unused"
    <3>1. \A c \in CallsIn(helper[h].stack) : call[c].body = "running"
      BY <2>1 DEF HelperOK, BodiesOK, CallsIn
    <3> QED BY <2>3, <3>1 DEF UInv
  <2>5. \A i \in 1..Len(helper[h].req) : helper[h].req[i] \in Requests BY <2>1
  <2>6. AsksIn(helper[h].req) \subseteq Calls BY <2>5 DEF AsksIn, Requests
  <2>7. \A c \in AsksIn(helper[h].req) : call[c].state # "unused"
    BY <2>1 DEF HelperOK, RequestsOK, Callable, AsksIn
  <2> QED BY <2>3, <2>4, <2>6, <2>7 DEF Held
<1> QED BY <1>1, <1>2

(* A step of one process p and of the one helper h that p runs, or no helper. *)
Alone(p, h) ==
  /\ \A o \in Procs \ {p} : proc'[o] = proc[o]
  /\ \A g \in Calls \ {h} : helper'[g] = helper[g]
  /\ h # None => \A o \in Procs \ {p} : proc[o].pid = h =>
       helper[h].starter # o /\ helper'[h].starter # o
  /\ Running(p) => proc[p].pid = h
  /\ \A c \in Calls : call'[c] # call[c] =>
       \/ c \in CallsIn(proc[p].stack) \/ call[c].state = "unused"
       \/ h # None /\ c \in Held(helper[h])

LEMMA OthersApart ==
  ASSUME TInv, LInv, UInv, NEW p \in Procs, NEW h \in Calls \cup {None}, Alone(p, h)
  PROVE  /\ \A o \in Procs \ {p} : \A c \in CallsIn(proc[o].stack) : call'[c] = call[c]
         /\ \A g \in Calls \ {h} : \A c \in Held(helper[g]) : call'[c] = call[c]
<1>1. ASSUME NEW o \in Procs \ {p}, NEW c \in CallsIn(proc[o].stack)
      PROVE  call'[c] = call[c]
  <2>1. c \in Calls
    <3>1. proc[o].stack \in Seq(Entries) BY DEF TInv, ProcType
    <3>2. \A i \in 1..Len(proc[o].stack) : proc[o].stack[i] \in Entries BY <3>1
    <3> QED BY <1>1, <3>2 DEF CallsIn, Entries
  <2>2. c \notin CallsIn(proc[p].stack) BY <1>1 DEF UInv
  <2>3. call[c].state # "unused" BY <1>1, NoneUnused
  <2>4. h # None => c \notin Held(helper[h]) BY <1>1 DEF UInv, Alone
  <2> QED BY <2>1, <2>2, <2>3, <2>4 DEF Alone
<1>2. ASSUME NEW g \in Calls \ {h}, NEW c \in Held(helper[g])
      PROVE  call'[c] = call[c]
  <2>1. c \in Calls /\ call[c].state # "unused" BY <1>2, NoneUnused DEF Held
  <2>2. c \notin CallsIn(proc[p].stack)
    <3>1. None # g BY DEF None, Calls
    <3> QED BY <1>2, <3>1 DEF UInv, Alone, Running
  <2>3. h # None => c \notin Held(helper[h]) BY <1>2 DEF UInv
  <2> QED BY <2>1, <2>2, <2>3 DEF Alone
<1> QED BY <1>1, <1>2

LEMMA LinksFrame ==
  ASSUME TInv, LInv, UInv, NEW p \in Procs, NEW h \in Calls \cup {None}, Alone(p, h),
         h # None => HelperOK(helper'[h], call'), ProcOK(p)'
  PROVE  LInv'
<1>1. ASSUME NEW g \in Calls PROVE HelperOK(helper'[g], call')
  <2>1. CASE g = h BY <2>1 DEF None, Calls
  <2>2. CASE g # h
    <3>1. helper'[g] = helper[g] /\ helper[g] \in HelperType /\ HelperOK(helper[g], call)
      BY <2>2 DEF Alone, TInv, LInv
    <3>2. \A c \in Held(helper[g]) : call'[c] = call[c] BY <2>2, OthersApart
    <3> QED BY <3>1, <3>2, HelperFrame
  <2> QED BY <2>1, <2>2
<1>2. ASSUME NEW o \in Procs \ {p} PROVE ProcOK(o)'
  <2>1. proc'[o] = proc[o] /\ proc[o] \in ProcType BY DEF Alone, TInv
  <2>2. \A c \in CallsIn(proc[o].stack) : call'[c] = call[c] BY OthersApart
  <2>3. StackOK(proc'[o], call')
    <3>1. StackOK(proc[o], call) BY DEF LInv, ProcOK
    <3> QED BY <2>1, <2>2, <3>1, StackFrame
  <2>4. /\ Running(o)' <=> Running(o)
        /\ Running(o) => helper'[proc[o].pid] = helper[proc[o].pid]
    <3>1. proc[o].pid \in Calls \cup {None} BY <2>1 DEF ProcType
    <3>2. CASE proc[o].pid = h BY <2>1, <3>2 DEF Running, Alone
    <3>3. CASE proc[o].pid # h BY <2>1, <3>1, <3>3 DEF Running, Alone
    <3> QED BY <3>2, <3>3
  <2>5. Running(o) => Link(proc[o], helper[proc[o].pid], call')
    BY <2>1, <2>2, LinkFrame DEF LInv, ProcOK
  <2>6. ~Running(o) /\ proc[o].stack # <<>> => proc[o].pid = None /\ AtPhase(proc[o], "answer")
    BY DEF LInv, ProcOK
  <2> QED BY <2>1, <2>3, <2>4, <2>5, <2>6 DEF ProcOK
<1> QED BY <1>1, <1>2 DEF LInv

LEMMA CallsFrame ==
  ASSUME TInv, LInv, UInv, NEW p \in Procs, NEW h \in Calls \cup {None}, Alone(p, h),
         \A c \in CallsIn(proc'[p].stack) :
           c \in CallsIn(proc[p].stack) \/ call[c].state = "unused",
         h # None =>
           /\ \A c \in Held(helper'[h]) :
                c \in Held(helper[h]) \/ (Running(p) /\ c \in CallsIn(proc[p].stack))
           /\ helper'[h].starter = helper[h].starter \/ Held(helper'[h]) = {}
           /\ CallsIn(proc'[p].stack) \cap Held(helper'[h]) # {} =>
                proc'[p].pid = h /\ helper'[h].starter = p,
         \A c \in Calls :
           /\ call'[c].body = "running" =>
                \/ h # None /\ c \in CallsIn(helper'[h].stack)
                \/ call[c].body = "running" /\ (h # None => c \notin CallsIn(helper[h].stack))
           /\ call'[c].state = "unused" => call[c].state = "unused" /\ call'[c].body = "no"
  PROVE  UInv'
<1>n. None \notin Calls BY DEF None, Calls
<1>1. ASSUME NEW o \in Procs \ {p}
      PROVE  CallsIn(proc'[p].stack) \cap CallsIn(proc[o].stack) = {}
  BY NoneUnused DEF UInv
<1>2. \A p1, p2 \in Procs : \A c \in CallsIn(proc'[p1].stack) \cap CallsIn(proc'[p2].stack) : p1 = p2
  BY <1>1 DEF UInv, Alone
<1>3. ASSUME NEW g \in Calls \ {h}, h # None
      PROVE  Held(helper'[h]) \cap Held(helper[g]) = {}
  <2> SUFFICES ASSUME NEW c \in Held(helper'[h]) \cap Held(helper[g]) PROVE FALSE OBVIOUS
  <2>1. CASE c \in Held(helper[h]) BY <1>3, <2>1 DEF UInv
  <2>2. CASE Running(p) /\ c \in CallsIn(proc[p].stack) BY <1>3, <2>2 DEF UInv, Alone
  <2> QED BY <1>3, <2>1, <2>2
<1>4. \A h1, h2 \in Calls : \A c \in Held(helper'[h1]) \cap Held(helper'[h2]) : h1 = h2
  BY <1>3, <1>n DEF UInv, Alone
<1>5. ASSUME NEW o \in Procs, NEW g \in Calls, CallsIn(proc'[o].stack) \cap Held(helper'[g]) # {}
      PROVE  proc'[o].pid = g /\ helper'[g].starter = o
  <2>1. PICK c : c \in CallsIn(proc'[o].stack) /\ c \in Held(helper'[g]) BY <1>5
  <2>2. CASE o = p /\ g = h BY <1>5, <1>n, <2>2
  <2>3. CASE o = p /\ g # h
    <3>1. c \in Held(helper[g]) BY <2>1, <2>3 DEF Alone
    <3>2. c \in CallsIn(proc[p].stack) BY <2>1, <2>3, <3>1, NoneUnused
    <3>3. proc[p].pid = g /\ helper[g].starter = p BY <3>1, <3>2 DEF UInv
    <3> QED BY <2>3, <3>3, <1>n DEF Alone, Running
  <2>4. CASE o # p /\ g = h
    <3>1. c \in CallsIn(proc[o].stack) BY <2>1, <2>4 DEF Alone
    <3>2. c \in Held(helper[h]) BY <2>1, <2>4, <3>1, <1>n DEF UInv
    <3>3. proc[o].pid = h /\ helper[h].starter = o BY <2>4, <3>1, <3>2, <1>n DEF UInv
    <3> QED BY <2>4, <3>3, <1>n DEF Alone
  <2>5. CASE o # p /\ g # h BY <1>5, <2>5 DEF UInv, Alone
  <2> QED BY <2>2, <2>3, <2>4, <2>5
<1>6. ASSUME NEW c \in Calls, call'[c].body = "running"
      PROVE  \E g \in Calls : c \in CallsIn(helper'[g].stack)
  <2>1. CASE h # None /\ c \in CallsIn(helper'[h].stack) BY <2>1
  <2>2. CASE call[c].body = "running" /\ (h # None => c \notin CallsIn(helper[h].stack))
    <3>1. PICK g \in Calls : c \in CallsIn(helper[g].stack) BY <2>2 DEF UInv
    <3> QED BY <2>2, <3>1, <1>n DEF Alone
  <2> QED BY <1>6, <2>1, <2>2
<1> QED BY <1>2, <1>4, <1>5, <1>6 DEF UInv

-----------------------------------------------------------------------------
(* Stacks that go together *)

LEMMA AlignedTypes ==
  ASSUME NEW S, NEW T, NEW s \in Seq(S), NEW t \in Seq(T), NEW x \in {0, 1}, Aligned(s, t, x)
  PROVE  /\ Len(s) \in Nat /\ Len(t) \in Nat
         /\ \A i \in 1..Len(t) : Len(s) - x - Len(t) + i \in 1..Len(s)
BY DEF Aligned

LEMMA AlignedPush ==
  ASSUME NEW S, NEW T, NEW s \in Seq(S), NEW t \in Seq(T), NEW e \in S, Aligned(s, t, 0)
  PROVE  Aligned(Append(s, e), t, 1)
<1>1. /\ Len(s) \in Nat /\ Len(t) \in Nat
      /\ \A i \in 1..Len(t) : Len(s) - 0 - Len(t) + i \in 1..Len(s)
  BY AlignedTypes
<1> DEFINE u == Append(s, e)
<1>2. Len(u) = Len(s) + 1 /\ \A i \in 1..Len(s) : u[i] = s[i] OBVIOUS
<1> HIDE DEF u
<1>3. \A i \in 1..Len(t) : Len(u) - 1 - Len(t) + i = Len(s) - 0 - Len(t) + i BY <1>1, <1>2
<1>4. Aligned(u, t, 1) BY <1>1, <1>2, <1>3 DEF Aligned
<1> QED BY <1>4 DEF u

LEMMA AlignedServe ==
  ASSUME NEW S, NEW T, NEW s \in Seq(S), NEW t \in Seq(T), NEW b \in T, Aligned(s, t, 1),
         Last(s).call = b.call
  PROVE  Aligned(s, Append(t, b), 0)
<1>1. /\ Len(s) \in Nat /\ Len(t) \in Nat /\ Len(t) + 1 <= Len(s)
      /\ \A i \in 1..Len(t) : t[i].call = s[Len(s) - 1 - Len(t) + i].call
  BY DEF Aligned
<1> DEFINE u == Append(t, b)
<1>2. Len(u) = Len(t) + 1 /\ (\A i \in 1..Len(t) : u[i] = t[i]) /\ u[Len(t) + 1] = b OBVIOUS
<1> HIDE DEF u
<1>3. ASSUME NEW i \in 1..Len(u) PROVE u[i].call = s[Len(s) - 0 - Len(u) + i].call
  <2>1. CASE i = Len(t) + 1
    <3>1. Len(s) - 0 - Len(u) + i = Len(s) BY <1>1, <1>2, <2>1
    <3>2. s[Len(s)].call = b.call BY DEF Last
    <3> QED BY <1>2, <2>1, <3>1, <3>2
  <2>2. CASE i # Len(t) + 1
    <3>1. i \in 1..Len(t) BY <1>1, <1>2, <2>2
    <3>2. Len(s) - 0 - Len(u) + i = Len(s) - 1 - Len(t) + i BY <1>1, <1>2, <3>1
    <3> QED BY <1>1, <1>2, <3>1, <3>2
  <2> QED BY <2>1, <2>2
<1>4. Len(u) + 0 <= Len(s) BY <1>1, <1>2
<1>5. Aligned(s, u, 0) BY <1>3, <1>4 DEF Aligned
<1> QED BY <1>5 DEF u

LEMMA AlignedReturn ==
  ASSUME NEW S, NEW T, NEW s \in Seq(S), NEW t \in Seq(T), Aligned(s, t, 0), t # <<>>
  PROVE  Aligned(s, Front(t), 1) /\ s # <<>> /\ Last(t).call = Last(s).call
<1>1. /\ Len(s) \in Nat /\ Len(t) \in Nat \ {0} /\ Len(t) <= Len(s)
      /\ \A i \in 1..Len(t) : t[i].call = s[Len(s) - 0 - Len(t) + i].call
  BY DEF Aligned
<1> DEFINE u == Front(t)
<1>2. Len(u) = Len(t) - 1 /\ (\A i \in 1 .. Len(t) - 1 : u[i] = t[i]) BY LastFront
<1> HIDE DEF u
<1>3. ASSUME NEW i \in 1..Len(u) PROVE u[i].call = s[Len(s) - 1 - Len(u) + i].call
  <2>1. i \in 1..Len(t) /\ i \in 1..Len(t) - 1 BY <1>1, <1>2
  <2>2. Len(s) - 1 - Len(u) + i = Len(s) - 0 - Len(t) + i BY <1>1, <1>2, <2>1
  <2> QED BY <1>1, <1>2, <2>1, <2>2
<1>4. Len(u) + 1 <= Len(s) BY <1>1, <1>2
<1>5. Aligned(s, u, 1) BY <1>3, <1>4 DEF Aligned
<1>6. Last(t).call = Last(s).call
  <2>1. Len(t) \in 1..Len(t) /\ Len(s) - 0 - Len(t) + Len(t) = Len(s) BY <1>1
  <2>2. t[Len(t)].call = s[Len(s)].call BY <1>1, <2>1
  <2> QED BY <2>2 DEF Last
<1>7. s # <<>> BY <1>1
<1> QED BY <1>5, <1>6, <1>7 DEF u

LEMMA AlignedPop ==
  ASSUME NEW S, NEW T, NEW s \in Seq(S), NEW t \in Seq(T), Aligned(s, t, 1)
  PROVE  Aligned(Front(s), t, 0)
<1>0. Len(s) \in Nat /\ Len(t) \in Nat /\ Len(t) + 1 <= Len(s) BY DEF Aligned
<1>1. s # <<>> BY <1>0
<1> DEFINE u == Front(s)
<1>2. Len(u) = Len(s) - 1 /\ (\A i \in 1 .. Len(s) - 1 : u[i] = s[i]) BY <1>1, LastFront
<1> HIDE DEF u
<1>3. ASSUME NEW i \in 1..Len(t) PROVE t[i].call = u[Len(u) - 0 - Len(t) + i].call
  <2>1. Len(u) - 0 - Len(t) + i = Len(s) - 1 - Len(t) + i
        /\ Len(s) - 1 - Len(t) + i \in 1 .. Len(s) - 1
    BY <1>0, <1>2
  <2> QED BY <1>2, <2>1 DEF Aligned
<1>4. Len(t) + 0 <= Len(u) BY <1>0, <1>2
<1>5. Aligned(u, t, 0) BY <1>3, <1>4 DEF Aligned
<1> QED BY <1>5 DEF u

\* Only the calls of the entries count.
LEMMA AlignedSame ==
  ASSUME NEW S, NEW T, NEW s \in Seq(S), NEW t \in Seq(T), NEW x \in {0, 1}, Aligned(s, t, x),
         NEW s2 \in Seq(S), NEW t2 \in Seq(T), Len(s2) = Len(s), Len(t2) = Len(t),
         \A i \in 1..Len(s) : s2[i].call = s[i].call,
         \A i \in 1..Len(t) : t2[i].call = t[i].call
  PROVE  Aligned(s2, t2, x)
<1>1. \A i \in 1..Len(t) : Len(s) - x - Len(t) + i \in 1..Len(s) BY AlignedTypes
<1> QED BY <1>1 DEF Aligned

LEMMA AlignedEmpty ==
  ASSUME NEW S, NEW s \in Seq(S), NEW x \in {0, 1}, x <= Len(s)
  PROVE  Aligned(s, <<>>, x)
BY DEF Aligned

LEMMA CallsPush ==
  ASSUME NEW S, NEW s \in Seq(S), NEW e \in S
  PROVE  /\ CallsIn(Append(s, e)) = CallsIn(s) \cup {e.call}
         /\ Distinct(s) /\ e.call \notin CallsIn(s) => Distinct(Append(s, e))
<1> DEFINE u == Append(s, e)
<1>1. /\ Len(s) \in Nat /\ Len(u) = Len(s) + 1 /\ u[Len(s) + 1] = e
      /\ \A i \in 1..Len(s) : u[i] = s[i]
  OBVIOUS
<1> HIDE DEF u
<1>2. 1..Len(u) = (1..Len(s)) \cup {Len(s) + 1} BY <1>1
<1>3. CallsIn(u) = CallsIn(s) \cup {e.call} BY <1>1, <1>2 DEF CallsIn
<1>4. ASSUME Distinct(s), e.call \notin CallsIn(s) PROVE Distinct(u)
  BY <1>1, <1>2, <1>4 DEF Distinct, CallsIn
<1> QED BY <1>3, <1>4 DEF u

LEMMA CallsPop ==
  ASSUME NEW S, NEW s \in Seq(S), s # <<>>
  PROVE  /\ CallsIn(s) = CallsIn(Front(s)) \cup {Last(s).call}
         /\ Distinct(s) => Distinct(Front(s)) /\ Last(s).call \notin CallsIn(Front(s))
<1> DEFINE u == Front(s)
<1>1. /\ Len(s) \in Nat \ {0} /\ Len(u) = Len(s) - 1 /\ Last(s) = s[Len(s)]
      /\ \A i \in 1 .. Len(s) - 1 : u[i] = s[i]
  BY LastFront
<1> HIDE DEF u
<1>2. 1..Len(s) = (1..Len(u)) \cup {Len(s)} /\ Len(s) \notin 1..Len(u) BY <1>1
<1>3. CallsIn(s) = CallsIn(u) \cup {Last(s).call} BY <1>1, <1>2 DEF CallsIn
<1>4. ASSUME Distinct(s) PROVE Distinct(u) /\ Last(s).call \notin CallsIn(u)
  BY <1>1, <1>2, <1>4 DEF Distinct, CallsIn
<1> QED BY <1>3, <1>4 DEF u

LEMMA CallsTop ==
  ASSUME NEW S, NEW s \in Seq(S), s # <<>>, NEW e \in S, e.call = Last(s).call
  PROVE  LET t == [s EXCEPT ![Len(s)] = e]
         IN /\ \A i \in 1..Len(s) : t[i].call = s[i].call
            /\ CallsIn(t) = CallsIn(s) /\ (Distinct(s) => Distinct(t))
<1> DEFINE t == [s EXCEPT ![Len(s)] = e]
<1>1. Len(t) = Len(s) /\ Last(s) = s[Len(s)] /\ t[Len(s)] = e
      /\ \A i \in 1 .. Len(s) - 1 : t[i] = s[i]
  BY TopReplaced, LastFront
<1>2. Len(s) \in Nat \ {0} OBVIOUS
<1> HIDE DEF t
<1>3. \A i \in 1..Len(s) : t[i].call = s[i].call
  <2> SUFFICES ASSUME NEW i \in 1..Len(s) PROVE t[i].call = s[i].call OBVIOUS
  <2>1. CASE i = Len(s) BY <2>1, <1>1
  <2>2. CASE i # Len(s)
    <3>1. i \in 1 .. Len(s) - 1 BY <1>2, <2>2
    <3> QED BY <3>1, <1>1
  <2> QED BY <2>1, <2>2
<1>4. CallsIn(t) = CallsIn(s) /\ (Distinct(s) => Distinct(t))
  BY <1>1, <1>3 DEF CallsIn, Distinct
<1> QED BY <1>3, <1>4 DEF t

-----------------------------------------------------------------------------
(* The steps of a helper *)

LEMMA HelperLocal ==
  ASSUME TInv, LInv, UInv, HInv, NEW h \in Calls, helper[h].state \in {"forked", "up"},
         UNCHANGED proc, NEW r, helper' = [helper EXCEPT ![h] = r],
         r.starter = helper[h].starter, Held(r) \subseteq Held(helper[h]),
         \A c \in Calls :
           /\ call'[c].state = call[c].state /\ call'[c].unit = call[c].unit
           /\ call'[c] # call[c] => c \in Held(helper[h])
           /\ call'[c].body = "running" =>
                \/ c \in CallsIn(r.stack)
                \/ call[c].body = "running" /\ c \notin CallsIn(helper[h].stack),
         HelperOK(r, call'),
         \A p \in Procs : Running(p) /\ proc[p].pid = h => Link(proc[p], r, call')
  PROVE  LInv' /\ UInv'
<1> DEFINE p == helper[h].starter
<1>1. p \in Procs /\ proc[p] \in ProcType BY DEF TInv, HelperType
<1>2. helper'[h] = r /\ \A g \in Calls \ {h} : helper'[g] = helper[g] BY DEF TInv
<1>3. h # None BY DEF None, Calls
<1>4. /\ Running(p) => proc[p].pid = h
      /\ ~Running(p) => proc[p].stack = <<>>
  <2>1. proc[p].life # "killed" => proc[p].pid = h BY DEF HInv, Hand
  <2>2. proc[p].life = "killed" => proc[p].pid = None BY <1>1 DEF HInv, Lives
  <2>3. proc[p].life = "killed" => proc[p].stack = <<>>
    BY <1>1 DEF LInv, ProcOK, StackOK
  <2>4. CASE proc[p].life = "killed" BY <2>2, <2>3, <2>4 DEF Running
  <2>5. CASE proc[p].life # "killed"
    <3>1. Running(p) BY <1>3, <2>1, <2>5 DEF Running
    <3> QED BY <2>1, <2>5, <3>1
  <2> QED BY <2>4, <2>5
<1>5. Alone(p, h) BY <1>2, <1>3, <1>4 DEF Alone
<1>6. \A c \in CallsIn(proc[p].stack) : c \in Calls
  <2>1. \A i \in 1..Len(proc[p].stack) : proc[p].stack[i] \in Entries BY <1>1 DEF ProcType
  <2> QED BY <2>1 DEF CallsIn, Entries
<1>7. ProcOK(p)'
  <2>1. Running(p)' <=> Running(p) BY <1>2, <1>3 DEF Running
  <2>2. StackOK(proc[p], call')
    <3>1. StackOK(proc[p], call) BY <1>1 DEF LInv, ProcOK
    <3> QED BY <1>6, <3>1 DEF StackOK, CallsIn
  <2> QED BY <1>1, <1>2, <1>4, <2>1, <2>2 DEF ProcOK
<1>8. LInv' BY <1>1, <1>2, <1>3, <1>5, <1>7, LinksFrame
<1>9. UInv'
  <2>1. \A c \in CallsIn(proc'[p].stack) : c \in CallsIn(proc[p].stack) OBVIOUS
  <2>2. CallsIn(proc[p].stack) \cap Held(r) # {} => proc[p].pid = h
    BY <1>1 DEF UInv
  <2>3. \A c \in Calls : call'[c].state = "unused" => call[c].state = "unused" /\ call'[c].body = "no"
    BY NoneUnused DEF UInv
  <2> QED BY <1>1, <1>2, <1>3, <1>5, <2>1, <2>2, <2>3, CallsFrame
<1> QED BY <1>8, <1>9

\* What HelperOK and the modes say of a helper that stopped or ended.
LEMMA ExitsLinks ==
  ASSUME TInv, LInv, UInv, HInv, NEW h \in Calls, helper[h].state \in {"forked", "up"}, Exits(h),
         helper[h].req # <<>> /\ helper[h].req[1].kind = "reset" => helper[h].fresh = None
  PROVE  LInv' /\ UInv'
<1> DEFINE r == [helper[h] EXCEPT !.state = "ended", !.stack = <<>>, !.req = <<>>]
<1>1. helper[h] \in HelperType BY DEF TInv
<1>2. /\ r.state = "ended" /\ r.stack = <<>> /\ r.req = <<>> /\ r.rep = helper[h].rep
      /\ r.starter = helper[h].starter /\ r.fresh = helper[h].fresh
  BY <1>1 DEF HelperType
<1>3. helper' = [helper EXCEPT ![h] = r] /\ UNCHANGED proc BY DEF Exits, TInv
<1> HIDE DEF r
<1>4. Held(r) = {} BY <1>2 DEF Held, AsksIn, CallsIn
<1>5. Bodies(h) = CallsIn(helper[h].stack)
  <2>1. DOMAIN helper[h].stack = 1..Len(helper[h].stack) BY <1>1 DEF HelperType
  <2> QED BY <2>1 DEF Bodies, CallsIn
<1>6. \A c \in Calls :
        /\ call'[c].state = call[c].state /\ call'[c].unit = call[c].unit
        /\ call'[c].got = call[c].got
        /\ call'[c].body = IF c \in CallsIn(helper[h].stack) /\ call[c].body = "running"
                           THEN "stopped" ELSE call[c].body
  BY <1>5, CallsAfterType DEF Exits
<1>7. \A c \in Calls : call'[c] # call[c] => c \in CallsIn(helper[h].stack)
  BY <1>5 DEF Exits, CallsAfter, TInv, CallType
<1>8. HelperOK(r, call') BY <1>2 DEF HelperOK, BodiesOK, Distinct, RequestsOK
<1>9. ASSUME NEW p \in Procs, Running(p), proc[p].pid = h
      PROVE  Link(proc[p], r, call')
  <2>1. Link(proc[p], helper[h], call) /\ HelperOK(helper[h], call) BY <1>9 DEF LInv, ProcOK
  <2>2. proc[p] \in ProcType BY DEF TInv
  <2>3. Coming(proc[p], r) = Coming(proc[p], helper[h]) BY <1>2 DEF Coming
  <2>4. Quiet(r) BY <1>2 DEF Quiet
  <2>5. AsksIn(r.req) = {} BY <1>2 DEF AsksIn
  <2>6. Fresh(proc[p], r) BY <1>2, <2>1, <2>5 DEF Link, Fresh
  <2>7. ASSUME proc[p].stack # <<>>
        PROVE  /\ Aligned(proc[p].stack, r.stack, 0) /\ Aligned(proc[p].stack, r.stack, 1)
               /\ Mine(proc[p]) \in Calls
    <3>1. proc[p].stack \in Seq(Entries) BY <2>2 DEF ProcType
    <3>2. Len(proc[p].stack) \in Nat \ {0} /\ Last(proc[p].stack) \in Entries
      BY <2>7, <3>1, LastFront
    <3> QED BY <1>2, <3>1, <3>2, AlignedEmpty DEF Mine, Entries
  <2>8. CASE Resting(proc[p], helper[h]) BY <1>2, <2>3, <2>6, <2>8 DEF Link, Resting
  <2>9. CASE Sending(proc[p], helper[h], call)
    BY <1>2, <1>6, <2>3, <2>4, <2>6, <2>7, <2>9 DEF Link, Sending, AtPhase
  <2>10. CASE \/ Calling(proc[p], helper[h]) \/ Working(proc[p], helper[h])
              \/ Answered(proc[p], helper[h])
    <3>1. Working(proc[p], r)
      BY <1>2, <2>3, <2>7, <2>10 DEF Calling, Working, Answered, AtPhase
    <3> QED BY <2>6, <3>1 DEF Link
  <2>11. CASE Asking(proc[p], helper[h])
    BY <1>2, <2>3, <2>4, <2>6, <2>7, <2>11 DEF Link, Asking, AtPhase
  <2>12. CASE Answering(proc[p], helper[h])
    BY <1>2, <2>3, <2>4, <2>6, <2>7, <2>12 DEF Link, Answering, AtPhase
  <2>13. CASE Replied(proc[p], helper[h], call)
    BY <1>2, <1>6, <2>3, <2>4, <2>6, <2>7, <2>13 DEF Link, Replied, AtPhase
  <2> QED BY <2>1, <2>8, <2>9, <2>10, <2>11, <2>12, <2>13 DEF Link
<1>10. Held(r) \subseteq Held(helper[h]) BY <1>4
<1>11. \A c \in Calls :
         /\ call'[c].state = call[c].state /\ call'[c].unit = call[c].unit
         /\ call'[c] # call[c] => c \in Held(helper[h])
         /\ call'[c].body = "running" =>
              \/ c \in CallsIn(r.stack)
              \/ call[c].body = "running" /\ c \notin CallsIn(helper[h].stack)
  BY <1>6, <1>7 DEF Held
<1> QED BY <1>2, <1>3, <1>8, <1>9, <1>10, <1>11, HelperLocal

LEMMA BootLinks ==
  ASSUME TInv, LInv, UInv, HInv, NEW h \in Calls, Boot(h)
  PROVE  LInv' /\ UInv'
<1> DEFINE r == [helper[h] EXCEPT !.state = "up", !.watched = ~Dead(helper[h].starter)]
<1>1. helper[h] \in HelperType /\ HelperOK(helper[h], call) BY DEF TInv, LInv
<1>2. /\ r.state = "up" /\ r.stack = <<>> /\ r.req = helper[h].req /\ r.rep = helper[h].rep
      /\ r.starter = helper[h].starter /\ r.fresh = helper[h].fresh
      /\ helper[h].stack = <<>> /\ helper[h].state = "forked"
  BY <1>1 DEF Boot, HelperType, HelperOK
<1>3. helper' = [helper EXCEPT ![h] = r] /\ UNCHANGED <<proc, call>>
  BY DEF Boot, TInv
<1> HIDE DEF r
<1>4. Held(r) = Held(helper[h]) BY <1>2 DEF Held
<1>5. HelperOK(r, call) BY <1>1, <1>2 DEF HelperOK, BodiesOK, RequestsOK, Quiet
<1>6. ASSUME NEW p \in Procs, Running(p), proc[p].pid = h
      PROVE  Link(proc[p], r, call)
  <2>1. Link(proc[p], helper[h], call) BY <1>6 DEF LInv, ProcOK
  <2>2. ~Working(proc[p], helper[h]) BY <1>2 DEF Working
  <2>3. Coming(proc[p], r) = Coming(proc[p], helper[h]) /\ Quiet(r) /\ Quiet(helper[h])
        /\ (Quitting(r) <=> Quitting(helper[h]))
    BY <1>2 DEF Coming, Quiet, Quitting
  <2> QED BY <1>2, <2>1, <2>2, <2>3 DEF Link, Fresh, Resting, Sending, Calling, Asking,
                                        Answering, Answered, Replied
<1>7. helper[h].stack = r.stack BY <1>2
<1> QED BY <1>2, <1>3, <1>4, <1>5, <1>6, <1>7, HelperLocal

LEMMA LeavesLinks ==
  ASSUME TInv, LInv, UInv, HInv, NEW h \in Calls, BodyLeaves(h)
  PROVE  LInv' /\ UInv'
<1> DEFINE r == [helper[h] EXCEPT !.left = TRUE]
<1>1. helper[h] \in HelperType /\ HelperOK(helper[h], call) BY DEF TInv, LInv
<1>2. /\ r.state = helper[h].state /\ r.stack = helper[h].stack /\ r.req = helper[h].req
      /\ r.rep = helper[h].rep /\ r.starter = helper[h].starter /\ r.fresh = helper[h].fresh
      /\ helper[h].state = "up"
  BY <1>1 DEF BodyLeaves, Body, Up, HelperType
<1>3. helper' = [helper EXCEPT ![h] = r] /\ UNCHANGED <<proc, call>>
  BY DEF BodyLeaves, TInv
<1> HIDE DEF r
<1>4. Held(r) = Held(helper[h]) BY <1>2 DEF Held
<1>5. HelperOK(r, call) BY <1>1, <1>2 DEF HelperOK, BodiesOK, RequestsOK, Quiet
<1>6. ASSUME NEW p \in Procs, Running(p), proc[p].pid = h
      PROVE  Link(proc[p], r, call)
  <2>1. Link(proc[p], helper[h], call) BY <1>6 DEF LInv, ProcOK
  <2>2. Coming(proc[p], r) = Coming(proc[p], helper[h]) /\ (Quiet(r) <=> Quiet(helper[h]))
        /\ (Quitting(r) <=> Quitting(helper[h]))
    BY <1>2 DEF Coming, Quiet, Quitting
  <2> QED BY <1>2, <2>1, <2>2 DEF Link, Fresh, Resting, Sending, Calling, Working, Asking,
                                  Answering, Answered, Replied
<1>7. helper[h].stack = r.stack BY <1>2
<1> QED BY <1>2, <1>3, <1>4, <1>5, <1>6, <1>7, HelperLocal

LEMMA ShortTails ==
  ASSUME NEW S, NEW s \in Seq(S)
  PROVE  /\ Len(s) = 1 => Tail(s) = <<>>
         /\ Len(s) = 2 => Tail(s) = <<s[2]>>
<1>1. ASSUME Len(s) = 1 PROVE Tail(s) = <<>>
  <2>1. s # <<>> BY <1>1
  <2>2. Tail(s) \in Seq(S) /\ Len(Tail(s)) = 0 BY <1>1, <2>1, HeadTailProperties
  <2> QED BY <2>2, EmptySeq
<1>2. ASSUME Len(s) = 2 PROVE Tail(s) = <<s[2]>>
  <2> DEFINE u == Tail(s)
             v == <<s[2]>>
  <2>1. s # <<>> /\ s[2] \in S BY <1>2
  <2>2. u \in Seq(S) /\ Len(u) = 1 /\ \A i \in 1..Len(u) : u[i] = s[i + 1]
    BY <1>2, <2>1, HeadTailProperties
  <2>3. v \in Seq(S) /\ Len(v) = 1 /\ v[1] = s[2] BY <2>1
  <2> HIDE DEF u, v
  <2>4. u[1] = s[2] BY <2>2
  <2>5. \A i \in 1..Len(u) : u[i] = v[i] BY <2>2, <2>3, <2>4
  <2>6. u = v BY <2>2, <2>3, <2>5, SeqEqual
  <2> QED BY <2>6 DEF u, v
<1> QED BY <1>1, <1>2

\* The shape of the first request.
LEMMA FirstRequest ==
  ASSUME TInv, LInv, NEW h \in Calls, helper[h].req # <<>>
  PROVE  /\ helper[h].req \in Seq(Requests) /\ Request(h) = helper[h].req[1]
         /\ HelperOK(helper[h], call) /\ Quiet(helper[h])
         /\ Request(h).kind # "reset" =>
              Len(helper[h].req) = 1 /\ Tail(helper[h].req) = <<>>
         /\ Request(h).kind = "reset" =>
              /\ Len(helper[h].req) = 2 /\ Tail(helper[h].req) = <<helper[h].req[2]>>
              /\ helper[h].req[2].kind = "call" /\ Callable(helper[h].req[2].call, call)
              /\ helper[h].stack = <<>>
         /\ Request(h).kind = "call" =>
              /\ Callable(Request(h).call, call)
              /\ helper[h].fresh \in {None, call[Request(h).call].unit}
         /\ Request(h).kind = "answer" =>
              (helper[h].stack # <<>> => Last(helper[h].stack).call = Request(h).call)
<1>1. /\ helper[h].req \in Seq(Requests) /\ HelperOK(helper[h], call)
      /\ Request(h) = helper[h].req[1]
  BY DEF TInv, HelperType, LInv, Request
<1>2. Quiet(helper[h]) /\ RequestsOK(helper[h], call) BY <1>1 DEF HelperOK
<1>3. /\ Len(helper[h].req) = 1 => Tail(helper[h].req) = <<>>
      /\ Len(helper[h].req) = 2 => Tail(helper[h].req) = <<helper[h].req[2]>>
  BY <1>1, ShortTails
<1> QED BY <1>1, <1>2, <1>3 DEF RequestsOK

LEMMA ResetLinks ==
  ASSUME TInv, LInv, UInv, HInv, NEW h \in Calls, ServeReset(h)
  PROVE  LInv' /\ UInv'
<1> DEFINE r == [Taken(h) EXCEPT !.fresh = None]
           x == helper[h].req[2]
<1>1. helper[h] \in HelperType /\ HelperOK(helper[h], call) BY DEF TInv, LInv
<1>2. /\ helper[h].req # <<>> /\ Request(h).kind = "reset" /\ helper[h].state = "up"
  BY DEF ServeReset, Asked, Serving, Up
<1>3. /\ r.state = "up" /\ r.stack = <<>> /\ r.req = <<x>>
      /\ r.rep = helper[h].rep /\ r.starter = helper[h].starter /\ r.fresh = None
      /\ helper[h].stack = <<>> /\ Len(helper[h].req) = 2 /\ helper[h].req[1].kind = "reset"
      /\ x.kind = "call" /\ Callable(x.call, call)
  BY <1>1, <1>2, FirstRequest DEF Taken, HelperType
<1>4. helper' = [helper EXCEPT ![h] = r] /\ UNCHANGED <<proc, call>>
  BY DEF ServeReset, TInv
<1>5. AsksIn(r.req) \subseteq AsksIn(helper[h].req) /\ Last(r.req) = Last(helper[h].req)
  <2>1. 2 \in 1..Len(helper[h].req) BY <1>3
  <2>2. Len(<<x>>) = 1 /\ <<x>>[1] = x OBVIOUS
  <2> HIDE DEF r
  <2>3. \A i \in 1..Len(r.req) : r.req[i] = x BY <1>3, <2>2
  <2> QED BY <1>3, <2>1, <2>2, <2>3 DEF AsksIn, Last
<1> HIDE DEF r
<1>6. Held(r) \subseteq Held(helper[h]) BY <1>3, <1>5 DEF Held
<1>7. HelperOK(r, call)
  <2>1. Len(r.req) = 1 /\ r.req[1] = x BY <1>3
  <2> HIDE DEF x
  <2> QED BY <1>3, <2>1 DEF HelperOK, BodiesOK, RequestsOK, Quiet, Distinct
<1>8. ASSUME NEW p \in Procs, Running(p), proc[p].pid = h
      PROVE  Link(proc[p], r, call)
  <2>1. Link(proc[p], helper[h], call) BY <1>8 DEF LInv, ProcOK
  <2>2. Calling(proc[p], helper[h])
    BY <1>2, <1>3, <2>1 DEF Link, Resting, Sending, Working, Asking, Answering, Answered,
                            Replied, Quitting
  <2>3. Coming(proc[p], r) = Coming(proc[p], helper[h]) /\ r.req # <<>> BY <1>3 DEF Coming
  <2>4. Fresh(proc[p], r)
    <3>1. AsksIn(helper[h].req) = {} => AsksIn(r.req) = {} BY <1>5
    <3> QED BY <1>3, <2>1, <3>1 DEF Link, Fresh
  <2> QED BY <1>3, <1>5, <2>2, <2>3, <2>4 DEF Link, Calling
<1>9. helper[h].stack = r.stack BY <1>3
<1> QED BY <1>2, <1>3, <1>4, <1>6, <1>7, <1>8, <1>9, HelperLocal

LEMMA ServeCallLinks ==
  ASSUME TInv, LInv, UInv, HInv, NEW h \in Calls, ServeCall(h)
  PROVE  LInv' /\ UInv'
<1> DEFINE c == Request(h).call
           b == [call |-> c, phase |-> "run", asks |-> 0, own |-> TRUE]
           unit == IF helper[h].fresh = None THEN call[c].unit ELSE helper[h].fresh
           r == [Pushed(Taken(h), b) EXCEPT !.fresh = unit]
           t == helper[h].stack
<1>1. helper[h] \in HelperType /\ HelperOK(helper[h], call) /\ t \in Seq(Acts)
  BY DEF TInv, LInv, HelperType
<1>2. /\ helper[h].req # <<>> /\ Request(h).kind = "call" /\ helper[h].state = "up"
      /\ t # <<>> => Last(t).phase = "ask"
  BY DEF ServeCall, Asked, Serving, Up, Active
<1>3. /\ c \in Calls /\ Callable(c, call) /\ helper[h].fresh \in {None, call[c].unit}
      /\ Len(helper[h].req) = 1 /\ Tail(helper[h].req) = <<>>
      /\ helper[h].req[1] = Request(h)
  BY <1>2, FirstRequest, RequestTypes
<1>4. /\ helper' = [helper EXCEPT ![h] = r]
      /\ call' = [call EXCEPT ![c].body = "running"]
      /\ UNCHANGED proc
  BY DEF ServeCall
<1>5. b \in Acts /\ b.call = c /\ b.phase = "run" /\ b.own BY <1>3 DEF Acts
<1>6. unit = call[c].unit /\ unit # None BY <1>3 DEF Callable
<1>7. /\ r.state = "up" /\ r.stack = Append(t, b) /\ r.req = <<>>
      /\ r.rep = helper[h].rep /\ r.starter = helper[h].starter /\ r.fresh = unit
  BY <1>1, <1>2, <1>3 DEF Pushed, Taken, HelperType
<1> HIDE DEF b, unit, r
<1>8. /\ r.stack \in Seq(Acts) /\ Len(r.stack) = Len(t) + 1 /\ r.stack[Len(t) + 1] = b
      /\ \A i \in 1..Len(t) : r.stack[i] = t[i]
      /\ r.stack # <<>> /\ Last(r.stack) = b /\ Len(t) \in Nat
  BY <1>1, <1>5, <1>7, Appended
<1>9. /\ CallsIn(r.stack) = CallsIn(t) \cup {c}
      /\ Distinct(t) /\ c \notin CallsIn(t) => Distinct(r.stack)
  BY <1>1, <1>5, <1>7, CallsPush
<1>10. c \in AsksIn(helper[h].req)
  <2>1. 1 \in 1..Len(helper[h].req) BY <1>3
  <2> QED BY <1>2, <1>3, <2>1 DEF AsksIn
<1>11. AsksIn(r.req) = {} BY <1>7 DEF AsksIn
<1>12. Held(r) \subseteq Held(helper[h]) BY <1>9, <1>10, <1>11 DEF Held
<1>13. \A d \in Calls : /\ call'[d].state = call[d].state /\ call'[d].unit = call[d].unit
                        /\ d # c => call'[d] = call[d]
                        /\ d = c => call'[d].body = "running"
  BY <1>4 DEF TInv, CallType
<1>14. /\ BodiesOK(helper[h], call) /\ c \notin CallsIn(t) /\ CallsIn(t) \subseteq Calls
  <2>1. BodiesOK(helper[h], call) BY <1>1 DEF HelperOK
  <2>2. \A d \in CallsIn(t) : call[d].body = "running" BY <2>1 DEF BodiesOK, CallsIn
  <2> QED BY <1>3, <2>1, <2>2, NoneUnused DEF Callable
<1>15. BodiesOK(r, call')
  <2>1. ASSUME NEW i \in 1..Len(r.stack)
        PROVE  /\ call'[r.stack[i].call].body = "running" /\ r.stack[i].own
               /\ call'[r.stack[i].call].unit = r.fresh /\ r.fresh # None
               /\ i < Len(r.stack) => r.stack[i].phase = "ask"
    <3>1. CASE i = Len(t) + 1 BY <1>3, <1>5, <1>6, <1>7, <1>8, <1>13, <3>1
    <3>2. CASE i # Len(t) + 1
      <4>1. i \in 1..Len(t) /\ r.stack[i] = t[i] /\ t[i].call \in CallsIn(t)
        BY <1>8, <3>2 DEF CallsIn
      <4>2. /\ call[t[i].call].body = "running" /\ t[i].own
            /\ call[t[i].call].unit = helper[h].fresh /\ helper[h].fresh # None
            /\ i < Len(t) => t[i].phase = "ask"
        BY <1>14, <4>1 DEF BodiesOK
      <4>3. t[i].phase = "ask"
        <5>1. CASE i < Len(t) BY <4>2, <5>1
        <5>2. CASE ~(i < Len(t))
          <6>1. i = Len(t) /\ t # <<>> BY <1>8, <4>1, <5>2
          <6> QED BY <1>2, <6>1 DEF Last
        <5> QED BY <5>1, <5>2
      <4>4. t[i].call \in Calls /\ t[i].call # c BY <1>14, <4>1
      <4>5. unit = helper[h].fresh BY <4>2 DEF unit
      <4> QED BY <1>7, <1>13, <4>1, <4>2, <4>3, <4>4, <4>5
    <3> QED BY <3>1, <3>2
  <2>2. Distinct(r.stack) BY <1>9, <1>14 DEF BodiesOK
  <2> QED BY <2>1, <2>2 DEF BodiesOK
<1>16. HelperOK(r, call') BY <1>7, <1>15 DEF HelperOK, RequestsOK
<1>17. ASSUME NEW p \in Procs, Running(p), proc[p].pid = h
       PROVE  Link(proc[p], r, call')
  <2>1. Link(proc[p], helper[h], call) /\ StackOK(proc[p], call) BY <1>17 DEF LInv, ProcOK
  <2>2. Calling(proc[p], helper[h])
    BY <1>2, <1>3, <2>1 DEF Link, Resting, Sending, Working, Asking, Answering, Answered,
                            Replied, Quitting
  <2>3. proc[p].stack \in Seq(Entries) /\ proc[p].stack # <<>>
    BY <2>2 DEF TInv, ProcType, Calling, AtPhase
  <2>4. Last(helper[h].req) = Request(h) /\ Mine(proc[p]) = c
    <3>1. Last(helper[h].req) = Request(h) BY <1>3 DEF Last
    <3> QED BY <2>2, <3>1 DEF Calling
  <2>5. Aligned(proc[p].stack, r.stack, 0)
    BY <1>1, <1>5, <1>7, <2>2, <2>3, <2>4, AlignedServe DEF Calling, Mine
  <2>6. call[c].unit = proc[p].unit
    <3>1. Len(proc[p].stack) \in 1..Len(proc[p].stack) BY <2>3
    <3>2. c = proc[p].stack[Len(proc[p].stack)].call BY <2>4 DEF Mine, Last
    <3> QED BY <2>1, <3>1, <3>2 DEF StackOK
  <2>7. ~proc[p].reset BY <1>10, <2>1 DEF Link, Fresh
  <2>8. Fresh(proc[p], r) BY <1>6, <1>7, <2>6, <2>7 DEF Fresh
  <2>9. Coming(proc[p], r) = Coming(proc[p], helper[h]) /\ ~Quiet(r)
    BY <1>5, <1>7, <1>8 DEF Coming, Quiet
  <2> QED BY <1>7, <1>8, <2>2, <2>5, <2>8, <2>9 DEF Link, Working, Calling
<1>18. \A d \in Calls :
         /\ call'[d].state = call[d].state /\ call'[d].unit = call[d].unit
         /\ call'[d] # call[d] => d \in Held(helper[h])
         /\ call'[d].body = "running" =>
              \/ d \in CallsIn(r.stack)
              \/ call[d].body = "running" /\ d \notin CallsIn(helper[h].stack)
  BY <1>9, <1>10, <1>13 DEF Held
<1> QED BY <1>2, <1>4, <1>7, <1>12, <1>16, <1>17, <1>18, HelperLocal

\* A helper that answers, and whose stack's top is replaced.
LEMMA TopOfBodies ==
  ASSUME TInv, LInv, NEW h \in Calls, helper[h].stack # <<>>, NEW a \in Acts,
         a.call = Active(h).call, a.own, NEW t, t = [helper[h].stack EXCEPT ![Len(helper[h].stack)] = a]
  PROVE  /\ t \in Seq(Acts) /\ t # <<>> /\ Last(t) = a
         /\ CallsIn(t) = CallsIn(helper[h].stack)
         /\ \A s \in Seq(Entries) : Aligned(s, helper[h].stack, 0) => Aligned(s, t, 0)
         /\ \A r : r.stack = t /\ r.fresh = helper[h].fresh => BodiesOK(r, call)
<1> DEFINE s == helper[h].stack
<1>1. s \in Seq(Acts) /\ s # <<>> /\ HelperOK(helper[h], call) BY DEF TInv, HelperType, LInv
<1>2. /\ t \in Seq(Acts) /\ Len(t) = Len(s) /\ t # <<>> /\ Last(t) = a /\ t[Len(s)] = a
      /\ \A i \in 1 .. Len(s) - 1 : t[i] = s[i]
  BY <1>1, TopReplaced
<1>3. /\ \A i \in 1..Len(s) : t[i].call = s[i].call
      /\ CallsIn(t) = CallsIn(s) /\ (Distinct(s) => Distinct(t))
  BY <1>1, CallsTop DEF Active
<1>4. ASSUME NEW e \in Seq(Entries), Aligned(e, s, 0) PROVE Aligned(e, t, 0)
  BY <1>2, <1>3, <1>4 DEF Aligned
<1>5. ASSUME NEW r, r.stack = t, r.fresh = helper[h].fresh PROVE BodiesOK(r, call)
  <2>1. BodiesOK(helper[h], call) BY <1>1 DEF HelperOK
  <2>2. ASSUME NEW i \in 1..Len(t)
        PROVE  /\ call[t[i].call].body = "running" /\ t[i].own
               /\ call[t[i].call].unit = r.fresh /\ r.fresh # None
               /\ i < Len(t) => t[i].phase = "ask"
    <3>1. i \in 1..Len(s) /\ t[i].call = s[i].call BY <1>2, <1>3
    <3>2. /\ call[s[i].call].body = "running" /\ s[i].own
          /\ call[s[i].call].unit = helper[h].fresh /\ helper[h].fresh # None
          /\ i < Len(s) => s[i].phase = "ask"
      BY <2>1, <3>1 DEF BodiesOK
    <3>3. CASE i = Len(s) BY <1>2, <1>5, <3>1, <3>2, <3>3
    <3>4. CASE i # Len(s)
      <4>1. i \in 1 .. Len(s) - 1 BY <1>1, <3>1, <3>4
      <4>2. t[i] = s[i] BY <1>2, <4>1
      <4> QED BY <1>2, <1>5, <3>1, <3>2, <4>2
    <3> QED BY <3>3, <3>4
  <2> QED BY <1>3, <1>5, <2>1, <2>2 DEF BodiesOK
<1> QED BY <1>2, <1>3, <1>4, <1>5

LEMMA ServeAnswerLinks ==
  ASSUME TInv, LInv, UInv, HInv, NEW h \in Calls, ServeAnswer(h)
  PROVE  LInv' /\ UInv'
<1>1. helper[h] \in HelperType /\ HelperOK(helper[h], call) BY DEF TInv, LInv
<1>2. /\ helper[h].req # <<>> /\ Request(h).kind = "answer" /\ helper[h].state = "up"
  BY DEF ServeAnswer, Asked, Serving, Up
<1>3. /\ Len(helper[h].req) = 1 /\ Tail(helper[h].req) = <<>> /\ helper[h].req[1] = Request(h)
      /\ helper[h].stack # <<>> => Active(h).call = Request(h).call
  BY <1>2, FirstRequest DEF Active
<1>4. CASE helper[h].stack = <<>> BY <1>2, <1>3, <1>4, ExitsLinks DEF ServeAnswer
<1>5. CASE helper[h].stack # <<>>
  <2> DEFINE a == [Active(h) EXCEPT !.phase = "run",
                                    !.own = Active(h).own /\ Request(h).call = Active(h).call]
             r == WithTop(Taken(h), a)
             t == [helper[h].stack EXCEPT ![Len(helper[h].stack)] = a]
  <2>1. helper' = [helper EXCEPT ![h] = r] /\ UNCHANGED <<proc, call>>
    BY <1>5 DEF ServeAnswer
  <2>2. Active(h) \in Acts /\ Active(h).own
    <3>1. helper[h].stack \in Seq(Acts) BY <1>1 DEF HelperType
    <3>2. Len(helper[h].stack) \in 1..Len(helper[h].stack) BY <1>5, <3>1
    <3> QED BY <1>1, <1>5, <3>2, ActTypes DEF HelperOK, BodiesOK, Active, Last
  <2>3. a \in Acts /\ a.call = Active(h).call /\ a.own /\ a.phase = "run"
    BY <1>3, <1>5, <2>2 DEF Acts
  <2>4. /\ r.state = "up" /\ r.stack = t /\ r.req = <<>> /\ r.rep = helper[h].rep
        /\ r.starter = helper[h].starter /\ r.fresh = helper[h].fresh
    BY <1>1, <1>2, <1>3 DEF WithTop, Taken, HelperType
  <2> HIDE DEF a, r, t
  <2>5. /\ t \in Seq(Acts) /\ t # <<>> /\ Last(t) = a /\ CallsIn(t) = CallsIn(helper[h].stack)
        /\ \A s \in Seq(Entries) : Aligned(s, helper[h].stack, 0) => Aligned(s, t, 0)
        /\ \A x : x.stack = t /\ x.fresh = helper[h].fresh => BodiesOK(x, call)
    BY <1>5, <2>3, TopOfBodies DEF t
  <2>6. HelperOK(r, call) BY <2>4, <2>5 DEF HelperOK, RequestsOK
  <2>7. Held(r) \subseteq Held(helper[h]) BY <2>4, <2>5 DEF Held, AsksIn
  <2>8. ASSUME NEW p \in Procs, Running(p), proc[p].pid = h
        PROVE  Link(proc[p], r, call)
    <3>1. Link(proc[p], helper[h], call) BY <2>8 DEF LInv, ProcOK
    <3>2. Answered(proc[p], helper[h])
      BY <1>2, <1>3, <1>5, <3>1 DEF Link, Resting, Sending, Calling, Working, Asking, Answering,
                                    Replied, Quitting, Last
    <3>3. proc[p].stack \in Seq(Entries) BY DEF TInv, ProcType
    <3>4. Aligned(proc[p].stack, r.stack, 0) BY <2>4, <2>5, <3>2, <3>3 DEF Answered
    <3>5. Coming(proc[p], r) = Coming(proc[p], helper[h]) /\ ~Quiet(r)
      BY <2>3, <2>4, <2>5 DEF Coming, Quiet
    <3>6. Fresh(proc[p], r)
      <4>1. ~proc[p].reset BY <1>5, <3>1 DEF Link, Fresh
      <4> QED BY <1>2, <1>3, <2>4, <3>1, <4>1 DEF Link, Fresh
    <3> QED BY <2>4, <2>5, <3>2, <3>4, <3>5, <3>6 DEF Link, Working, Answered
  <2>9. CallsIn(r.stack) = CallsIn(helper[h].stack) BY <2>4, <2>5
  <2> QED BY <1>2, <2>1, <2>4, <2>6, <2>7, <2>8, <2>9, HelperLocal
<1> QED BY <1>4, <1>5

LEMMA WatchLinks ==
  ASSUME TInv, LInv, UInv, HInv, NEW h \in Calls, Watch(h)
  PROVE  LInv' /\ UInv'
<1> DEFINE r == Reaped(h)
<1>1. helper[h] \in HelperType BY DEF TInv
<1>2. /\ r.state = "reaped" /\ r.stack = <<>> /\ r.req = <<>> /\ r.starter = helper[h].starter
      /\ helper[h].state = "up" /\ Dead(helper[h].starter)
  BY <1>1 DEF Watch, Up, Reaped, HelperType
<1>3. helper' = [helper EXCEPT ![h] = r] /\ UNCHANGED proc BY DEF Watch
<1> HIDE DEF r
<1>4. Held(r) = {} BY <1>2 DEF Held, AsksIn, CallsIn
<1>5. Bodies(h) = CallsIn(helper[h].stack)
  <2>1. DOMAIN helper[h].stack = 1..Len(helper[h].stack) BY <1>1 DEF HelperType
  <2> QED BY <2>1 DEF Bodies, CallsIn
<1>6. \A c \in Calls :
        /\ call'[c].state = call[c].state /\ call'[c].unit = call[c].unit
        /\ call'[c].body = IF c \in CallsIn(helper[h].stack) /\ call[c].body = "running"
                           THEN "stopped" ELSE call[c].body
  BY <1>5, CallsAfterType DEF Watch
<1>7. \A c \in Calls : call'[c] # call[c] => c \in CallsIn(helper[h].stack)
  BY <1>5 DEF Watch, CallsAfter, TInv, CallType
<1>8. HelperOK(r, call') BY <1>2 DEF HelperOK, BodiesOK, Distinct, RequestsOK
<1>9. ASSUME NEW p \in Procs, Running(p), proc[p].pid = h PROVE FALSE
  <2>1. helper[h].starter = p /\ proc[p].pid # None BY <1>9 DEF Running
  <2> QED BY <1>2, <2>1 DEF HInv, Dead, Lives
<1>10. Held(r) \subseteq Held(helper[h]) BY <1>4
<1>11. \A c \in Calls :
         /\ call'[c].state = call[c].state /\ call'[c].unit = call[c].unit
         /\ call'[c] # call[c] => c \in Held(helper[h])
         /\ call'[c].body = "running" =>
              \/ c \in CallsIn(r.stack)
              \/ call[c].body = "running" /\ c \notin CallsIn(helper[h].stack)
  BY <1>6, <1>7 DEF Held
<1> QED BY <1>2, <1>3, <1>8, <1>9, <1>10, <1>11, HelperLocal

LEMMA NothingComing ==
  ASSUME NEW S, NEW s \in Seq(S), NEW t \in Seq(S), s \o t = <<>>
  PROVE  s = <<>> /\ t = <<>>
<1>1. Len(s \o t) = Len(s) + Len(t) /\ Len(s) \in Nat /\ Len(t) \in Nat BY ConcatProperties
<1>2. Len(s) = 0 /\ Len(t) = 0 BY <1>1
<1> QED BY <1>2, EmptySeq

LEMMA BodyAsksLinks ==
  ASSUME TInv, LInv, UInv, HInv, NEW h \in Calls, BodyAsks(h), ~Exits(h)
  PROVE  LInv' /\ UInv'
<1>1. helper[h] \in HelperType /\ HelperOK(helper[h], call) BY DEF TInv, LInv
<1>2. /\ helper[h].stack # <<>> /\ Active(h).phase = "run" /\ helper[h].state = "up"
  BY DEF BodyAsks, Body, Up
<1> DEFINE a == [Active(h) EXCEPT !.phase = "ask", !.asks = Active(h).asks + 1]
           r0 == WithTop(helper[h], a)
           r == [r0 EXCEPT !.rep = r0.rep \o <<[kind |-> "query"]>>]
           t == [helper[h].stack EXCEPT ![Len(helper[h].stack)] = a]
<1>3. helper' = [helper EXCEPT ![h] = r] /\ UNCHANGED <<proc, call>>
  BY DEF BodyAsks, Writes
<1>4. Active(h) \in Acts /\ Active(h).own
  <2>1. helper[h].stack \in Seq(Acts) BY <1>1 DEF HelperType
  <2>2. Len(helper[h].stack) \in 1..Len(helper[h].stack) BY <1>2, <2>1
  <2> QED BY <1>1, <1>2, <2>2, ActTypes DEF HelperOK, BodiesOK, Active, Last
<1>5. a \in Acts /\ a.call = Active(h).call /\ a.own /\ a.phase = "ask"
  <2>1. Active(h).asks + 1 \in Nat BY <1>4 DEF Acts
  <2> QED BY <1>4, <2>1 DEF Acts
<1>6. /\ r.state = "up" /\ r.stack = t /\ r.req = helper[h].req
      /\ r.rep = helper[h].rep \o <<[kind |-> "query"]>>
      /\ r.starter = helper[h].starter /\ r.fresh = helper[h].fresh
  BY <1>1, <1>2 DEF WithTop, HelperType
<1> HIDE DEF a, r, t
<1>7. /\ t \in Seq(Acts) /\ t # <<>> /\ Last(t) = a /\ CallsIn(t) = CallsIn(helper[h].stack)
      /\ \A s \in Seq(Entries) : Aligned(s, helper[h].stack, 0) => Aligned(s, t, 0)
      /\ \A x : x.stack = t /\ x.fresh = helper[h].fresh => BodiesOK(x, call)
  BY <1>2, <1>5, TopOfBodies DEF t
<1>8. helper[h].req = <<>> BY <1>1, <1>2 DEF HelperOK, Quiet, Active
<1>9. HelperOK(r, call) BY <1>6, <1>7, <1>8 DEF HelperOK, RequestsOK
<1>10. Held(r) = Held(helper[h]) BY <1>6, <1>7 DEF Held
<1>11. ASSUME NEW p \in Procs, Running(p), proc[p].pid = h
       PROVE  Link(proc[p], r, call)
  <2>1. Link(proc[p], helper[h], call) BY <1>11 DEF LInv, ProcOK
  <2>2. Working(proc[p], helper[h])
    BY <1>2, <1>8, <2>1 DEF Link, Resting, Sending, Calling, Asking, Answering, Answered,
                            Replied, Quiet, Active
  <2>3. proc[p].stack \in Seq(Entries) BY DEF TInv, ProcType
  <2>4. Aligned(proc[p].stack, r.stack, 0) BY <1>6, <1>7, <2>2, <2>3 DEF Working
  <2>5. Len(Coming(proc[p], r)) = 1 /\ Coming(proc[p], r)[1].kind = "query"
    <3>1. proc[p].input = <<>> /\ helper[h].rep = <<>>
      <4>1. proc[p].input \in Seq(Replies) /\ helper[h].rep \in Seq(Replies)
        BY <1>1 DEF TInv, ProcType, HelperType
      <4>2. proc[p].input \o helper[h].rep = <<>> BY <2>2 DEF Working, Coming
      <4> QED BY <4>1, <4>2, NothingComing
    <3>2. Coming(proc[p], r) = <<[kind |-> "query"]>> BY <1>6, <3>1 DEF Coming
    <3> QED BY <3>2
  <2>6. Quiet(r) BY <1>5, <1>6, <1>7 DEF Quiet
  <2>7. Fresh(proc[p], r)
    <3>1. ~proc[p].reset BY <1>2, <2>1 DEF Link, Fresh
    <3> QED BY <1>6, <1>8, <2>1, <3>1 DEF Link, Fresh
  <2> QED BY <1>6, <1>8, <2>2, <2>4, <2>5, <2>6, <2>7 DEF Link, Asking, Working
<1>12. CallsIn(r.stack) = CallsIn(helper[h].stack) BY <1>6, <1>7
<1> QED BY <1>2, <1>3, <1>6, <1>9, <1>10, <1>11, <1>12, HelperLocal

LEMMA BodyReturnsLinks ==
  ASSUME TInv, LInv, UInv, HInv, NEW h \in Calls, BodyReturns(h), ~Exits(h)
  PROVE  LInv' /\ UInv'
<1> DEFINE s == helper[h].stack
           c == Active(h).call
<1>1. helper[h] \in HelperType /\ HelperOK(helper[h], call) /\ s \in Seq(Acts)
  BY DEF TInv, LInv, HelperType
<1>2. /\ s # <<>> /\ Active(h).phase = "run" /\ helper[h].state = "up"
  BY DEF BodyReturns, Body, Up
<1>3. /\ Active(h) \in Acts /\ Active(h).own /\ c \in Calls /\ c \in CallsIn(s)
      /\ call[c].body = "running"
  <2>1. Len(s) \in 1..Len(s) /\ Active(h) = s[Len(s)] BY <1>1, <1>2 DEF Active, Last
  <2>2. Active(h) \in Acts BY <1>2, ActTypes
  <2> QED BY <1>1, <2>1, <2>2 DEF HelperOK, BodiesOK, CallsIn, Acts
<1>4. PICK notices \in {<<>>, <<[kind |-> "notice"]>>},
           result \in {[kind |-> "value", val |-> IF Active(h).own THEN c ELSE None],
                       [kind |-> "error"]} :
        /\ Writes(h, Append(notices, result), Popped(helper[h]))
        /\ call' = [call EXCEPT ![c].body = "done"]
  BY DEF BodyReturns
<1> DEFINE r0 == Popped(helper[h])
           R == Append(notices, result)
           r == [r0 EXCEPT !.rep = r0.rep \o R]
           t == Front(s)
<1>5. helper' = [helper EXCEPT ![h] = r] /\ UNCHANGED proc BY <1>4 DEF Writes
<1>6. /\ r.state = "up" /\ r.stack = t /\ r.req = helper[h].req
      /\ r.rep = helper[h].rep \o R
      /\ r.starter = helper[h].starter /\ r.fresh = helper[h].fresh
  BY <1>1, <1>2 DEF Popped, HelperType
<1>7. /\ Len(R) = 1 \/ (Len(R) = 2 /\ R[1].kind = "notice")
      /\ Last(R).kind \in {"value", "error"} /\ (Last(R).kind = "value" => Last(R).val = c)
  <2>1. \/ result.kind = "value" /\ result.val = c
        \/ result.kind = "error"
    BY <1>3
  <2>2. CASE notices = <<>> BY <2>1, <2>2 DEF Last
  <2>3. CASE notices = <<[kind |-> "notice"]>> BY <2>1, <2>3 DEF Last
  <2> QED BY <2>2, <2>3
<1>8. helper[h].req = <<>> BY <1>1, <1>2 DEF HelperOK, Quiet, Active
<1>9. /\ t \in Seq(Acts) /\ Len(t) = Len(s) - 1 /\ Len(s) \in Nat \ {0}
      /\ \A i \in 1 .. Len(s) - 1 : t[i] = s[i]
      /\ BodiesOK(helper[h], call) /\ CallsIn(s) = CallsIn(t) \cup {c}
      /\ Distinct(t) /\ c \notin CallsIn(t) /\ CallsIn(s) \subseteq Calls
  <2>1. /\ t \in Seq(Acts) /\ Len(t) = Len(s) - 1 /\ Len(s) \in Nat \ {0}
        /\ \A i \in 1 .. Len(s) - 1 : t[i] = s[i]
    BY <1>1, <1>2, LastFront
  <2>2. BodiesOK(helper[h], call) /\ Distinct(s) BY <1>1 DEF HelperOK, BodiesOK
  <2>3. /\ CallsIn(s) = CallsIn(t) \cup {c}
        /\ Distinct(s) => Distinct(t) /\ c \notin CallsIn(t)
    BY <1>1, <1>2, CallsPop DEF Active
  <2>4. CallsIn(s) \subseteq Calls BY NoneUnused
  <2> QED BY <2>1, <2>2, <2>3, <2>4
<1> HIDE DEF r, R, t, c
<1>10. \A d \in Calls : /\ call'[d].state = call[d].state /\ call'[d].unit = call[d].unit
                        /\ d # c => call'[d] = call[d]
                        /\ d = c => call'[d].body = "done"
  BY <1>4 DEF TInv, CallType
<1>11. BodiesOK(r, call')
  <2>1. ASSUME NEW i \in 1..Len(t)
        PROVE  /\ call'[t[i].call].body = "running" /\ t[i].own
               /\ call'[t[i].call].unit = r.fresh /\ r.fresh # None
               /\ i < Len(t) => t[i].phase = "ask"
    <3>1. i \in 1..Len(s) /\ t[i] = s[i] /\ (i < Len(t) => i < Len(s)) BY <1>9
    <3>2. t[i].call \in CallsIn(t) BY DEF CallsIn
    <3>3. t[i].call \in Calls /\ t[i].call # c BY <1>9, <3>2
    <3>4. call'[t[i].call] = call[t[i].call] BY <1>10, <3>3
    <3>5. /\ call[s[i].call].body = "running" /\ s[i].own
          /\ call[s[i].call].unit = helper[h].fresh /\ helper[h].fresh # None
          /\ i < Len(s) => s[i].phase = "ask"
      BY <1>9, <3>1 DEF BodiesOK
    <3> QED BY <1>6, <3>1, <3>4, <3>5
  <2> QED BY <1>6, <1>9, <2>1 DEF BodiesOK
<1>12. t # <<>> => Last(t).phase = "ask"
  <2> SUFFICES ASSUME t # <<>> PROVE Last(t).phase = "ask" OBVIOUS
  <2>1. Len(t) \in 1 .. Len(s) - 1 /\ Len(t) \in 1..Len(s) /\ Len(t) < Len(s) BY <1>9
  <2>2. t[Len(t)] = s[Len(t)] /\ s[Len(t)].phase = "ask" BY <1>9, <2>1 DEF BodiesOK
  <2> QED BY <2>2 DEF Last
<1>13. HelperOK(r, call') BY <1>6, <1>8, <1>11 DEF HelperOK, RequestsOK
<1>14. Held(r) \subseteq Held(helper[h]) BY <1>6, <1>9 DEF Held
<1>15. ASSUME NEW p \in Procs, Running(p), proc[p].pid = h
       PROVE  Link(proc[p], r, call')
  <2>1. Link(proc[p], helper[h], call) BY <1>15 DEF LInv, ProcOK
  <2>2. Working(proc[p], helper[h])
    BY <1>2, <1>8, <2>1 DEF Link, Resting, Sending, Calling, Asking, Answering, Answered,
                            Replied, Quiet, Active
  <2>3. proc[p].stack \in Seq(Entries) BY DEF TInv, ProcType
  <2>4. Aligned(proc[p].stack, t, 1) /\ Mine(proc[p]) = c
    BY <1>1, <1>2, <2>2, <2>3, AlignedReturn DEF Working, t, c, Active, Mine
  <2>5. Coming(proc[p], r) = R
    <3>1. proc[p].input \in Seq(Replies) /\ helper[h].rep \in Seq(Replies)
      BY <1>1 DEF TInv, ProcType, HelperType
    <3>2. proc[p].input \o helper[h].rep = <<>> BY <2>2 DEF Working, Coming
    <3>3. proc[p].input = <<>> /\ helper[h].rep = <<>> BY <3>1, <3>2, NothingComing
    <3>4. R \in Seq({[kind |-> "notice"], result})
      <4>1. CASE notices = <<>> BY <4>1 DEF R
      <4>2. CASE notices = <<[kind |-> "notice"]>> BY <4>2 DEF R
      <4> QED BY <4>1, <4>2
    <3>5. <<>> \o (<<>> \o R) = R BY <3>4
    <3> QED BY <1>6, <3>3, <3>5 DEF Coming
  <2>6. Quiet(r) BY <1>6, <1>12 DEF Quiet
  <2>7. Fresh(proc[p], r)
    <3>1. ~proc[p].reset BY <1>2, <2>1 DEF Link, Fresh
    <3> QED BY <1>6, <1>8, <2>1, <3>1 DEF Link, Fresh
  <2>8. call'[Mine(proc[p])].body = "done" BY <1>3, <1>10, <2>4 DEF c
  <2>9. Replied(proc[p], r, call')
    BY <1>6, <1>7, <1>8, <2>2, <2>4, <2>5, <2>6, <2>8 DEF Replied, Working
  <2> QED BY <2>7, <2>9 DEF Link
<1>16. \A d \in Calls :
         /\ call'[d].state = call[d].state /\ call'[d].unit = call[d].unit
         /\ call'[d] # call[d] => d \in Held(helper[h])
         /\ call'[d].body = "running" =>
              \/ d \in CallsIn(r.stack)
              \/ call[d].body = "running" /\ d \notin CallsIn(helper[h].stack)
  BY <1>6, <1>9, <1>10 DEF Held
<1> QED BY <1>2, <1>5, <1>6, <1>13, <1>14, <1>15, <1>16, HelperLocal

LEMMA HelperLinks ==
  ASSUME TInv, LInv, UInv, HInv, NEW h \in Calls, Helper(h)
  PROVE  LInv' /\ UInv'
<1>1. HelperOK(helper[h], call) /\ helper[h].req \in Seq(Requests)
  BY DEF LInv, TInv, HelperType
<1>2. CASE Boot(h) BY <1>2, BootLinks
<1>3. CASE ExecFails(h) BY <1>1, <1>3, ExitsLinks DEF ExecFails, HelperOK
<1>4. CASE ServeReset(h) BY <1>4, ResetLinks
<1>5. CASE ServeCall(h) BY <1>5, ServeCallLinks
<1>6. CASE ServeAnswer(h) BY <1>6, ServeAnswerLinks
<1>7. CASE ServeQuit(h)
  <2>1. helper[h].req # <<>> /\ Request(h).kind = "quit" /\ helper[h].state = "up"
    BY <1>7 DEF ServeQuit, Asked, Serving, Up
  <2> QED BY <1>7, <2>1, FirstRequest, ExitsLinks DEF ServeQuit
<1>8. CASE Hangup(h) BY <1>8, ExitsLinks DEF Hangup, Serving, Up
<1>9. CASE Watch(h) BY <1>9, WatchLinks
<1>10. ASSUME Body(h), Exits(h) PROVE LInv' /\ UInv'
  <2>1. helper[h].stack # <<>> /\ helper[h].state = "up" BY <1>10 DEF Body, Up
  <2> QED BY <1>10, <2>1, FirstRequest, ExitsLinks
<1>11. CASE BodyReturns(h) BY <1>10, <1>11, BodyReturnsLinks DEF BodyReturns
<1>12. CASE BodyAsks(h) BY <1>10, <1>12, BodyAsksLinks DEF BodyAsks
<1>13. CASE BodyCrashes(h) BY <1>10, <1>13 DEF BodyCrashes
<1>14. CASE BodyLeaves(h) BY <1>14, LeavesLinks
<1> QED
  BY <1>2, <1>3, <1>4, <1>5, <1>6, <1>7, <1>8, <1>9, <1>11, <1>12, <1>13, <1>14 DEF Helper, Serve

-----------------------------------------------------------------------------
(* The steps of a compiler process *)

\* A step of a process that runs its helper before and after.
LEMMA RunningLocal ==
  ASSUME TInv, LInv, UInv, HInv, NEW p \in Procs, Running(p),
         NEW q, proc' = [proc EXCEPT ![p] = q], q.pid = proc[p].pid,
         NEW r, helper'[proc[p].pid] = r,
         \A g \in Calls \ {proc[p].pid} : helper'[g] = helper[g],
         r.starter = helper[proc[p].pid].starter, r.stack = helper[proc[p].pid].stack,
         \A c \in Calls :
           /\ call'[c].body = call[c].body
           /\ call'[c].state = "unused" => call[c].state = "unused"
           /\ call'[c] # call[c] => c \in CallsIn(proc[p].stack) \/ call[c].state = "unused",
         \A c \in CallsIn(q.stack) : c \in CallsIn(proc[p].stack) \/ call[c].state = "unused",
         \A c \in AsksIn(r.req) :
           c \in AsksIn(helper[proc[p].pid].req) \/ c \in CallsIn(proc[p].stack),
         HelperOK(r, call'), StackOK(q, call'), Link(q, r, call')
  PROVE  LInv' /\ UInv'
<1> DEFINE h == proc[p].pid
<1>1. h \in Calls /\ h # None /\ helper[h].starter = p
  BY PidTypes DEF Running
<1>2. proc'[p] = q /\ \A o \in Procs \ {p} : proc'[o] = proc[o] BY DEF TInv
<1>3. Running(p)' BY <1>1, <1>2 DEF Running
<1>4. Alone(p, h) BY <1>1, <1>2 DEF Alone
<1>5. ProcOK(p)' BY <1>2, <1>3 DEF ProcOK
<1> HIDE DEF h
<1>6. helper'[h] = r /\ h = proc[p].pid BY DEF h
<1>7. LInv' BY <1>1, <1>4, <1>5, <1>6, LinksFrame
<1>8. \A c \in CallsIn(proc'[p].stack) : c \in CallsIn(proc[p].stack) \/ call[c].state = "unused"
  BY <1>2
<1>9. /\ \A c \in Held(helper'[h]) :
           c \in Held(helper[h]) \/ (Running(p) /\ c \in CallsIn(proc[p].stack))
      /\ helper'[h].starter = helper[h].starter
      /\ proc'[p].pid = h /\ helper'[h].starter = p
  BY <1>1, <1>2, <1>6 DEF Held
<1>10. \A c \in Calls :
         /\ call'[c].body = "running" =>
              \/ h # None /\ c \in CallsIn(helper'[h].stack)
              \/ call[c].body = "running" /\ (h # None => c \notin CallsIn(helper[h].stack))
         /\ call'[c].state = "unused" => call[c].state = "unused" /\ call'[c].body = "no"
  BY <1>6 DEF UInv
<1>11. UInv' BY <1>1, <1>4, <1>8, <1>9, <1>10, CallsFrame
<1> QED BY <1>7, <1>11

\* A process that answers a query of its helper, or works alone: a step that keeps
\* its calls, and its helper as it was.
LEMMA AloneLocal ==
  ASSUME TInv, LInv, UInv, HInv, NEW p \in Procs, ~Running(p),
         NEW q, proc' = [proc EXCEPT ![p] = q], UNCHANGED helper,
         q.pid # None => helper[q.pid].starter # p,
         q.stack # <<>> => q.pid = None /\ AtPhase(q, "answer"),
         \A c \in Calls :
           /\ call'[c].body = call[c].body
           /\ call'[c].state = "unused" => call[c].state = "unused"
           /\ call'[c] # call[c] => c \in CallsIn(proc[p].stack) \/ call[c].state = "unused",
         \A c \in CallsIn(q.stack) : c \in CallsIn(proc[p].stack),
         StackOK(q, call')
  PROVE  LInv' /\ UInv'
<1>1. proc'[p] = q /\ \A o \in Procs \ {p} : proc'[o] = proc[o] BY DEF TInv
<1>2. ~Running(p)' BY <1>1 DEF Running
<1>3. Alone(p, None) BY <1>1 DEF Alone
<1>4. ProcOK(p)' BY <1>1, <1>2 DEF ProcOK
<1>5. LInv' BY <1>3, <1>4, LinksFrame
<1>6. \A c \in CallsIn(proc'[p].stack) : c \in CallsIn(proc[p].stack) \/ call[c].state = "unused"
  BY <1>1
<1>7. \A c \in Calls : call'[c].state = "unused" => call[c].state = "unused" /\ call'[c].body = "no"
  BY DEF UInv
<1>8. UInv' BY <1>3, <1>6, <1>7, CallsFrame
<1> QED BY <1>5, <1>8

LEMMA BeginUnitLinks ==
  ASSUME TInv, LInv, UInv, HInv, NEW p \in Procs, BeginUnit(p)
  PROVE  LInv' /\ UInv'
<1> DEFINE q == [proc[p] EXCEPT !.unit = proc[p].unit + 1, !.reset = TRUE]
<1>1. proc[p] \in ProcType BY DEF TInv
<1>2. proc' = [proc EXCEPT ![p] = q] /\ UNCHANGED <<helper, call>> BY DEF BeginUnit, TInv
<1>3. /\ q.life = "up" /\ q.stack = <<>> /\ q.pid = proc[p].pid /\ q.reset
      /\ q.input = proc[p].input /\ proc[p].stack = <<>> /\ proc[p].life = "up"
  BY <1>1 DEF BeginUnit, Idle, ProcType
<1> HIDE DEF q
<1>4. StackOK(q, call) /\ CallsIn(q.stack) = {} BY <1>3 DEF StackOK, Distinct, CallsIn
<1>5. CASE ~Running(p)
  <2>1. q.pid # None => helper[q.pid].starter # p BY <1>3, <1>5 DEF Running
  <2> QED BY <1>2, <1>3, <1>4, <1>5, <2>1, AloneLocal
<1>6. CASE Running(p)
  <2> DEFINE r == helper[proc[p].pid]
  <2>1. Link(proc[p], r, call) /\ HelperOK(r, call) BY <1>6, PidTypes DEF LInv, ProcOK
  <2>2. Resting(proc[p], r)
    BY <1>3, <2>1 DEF Link, Sending, Calling, Working, Asking, Answering, Answered, Replied, AtPhase
  <2>3. Resting(q, r) BY <1>3, <2>2 DEF Resting, Coming
  <2>4. Fresh(q, r) BY <1>3, <2>2 DEF Fresh, Resting, AsksIn
  <2>5. Link(q, r, call) BY <2>3, <2>4 DEF Link
  <2> HIDE DEF r
  <2>6. helper'[proc[p].pid] = r BY <1>2 DEF r
  <2>7. r.starter = helper[proc[p].pid].starter /\ r.stack = helper[proc[p].pid].stack
        /\ AsksIn(r.req) = AsksIn(helper[proc[p].pid].req)
    BY DEF r
  <2> QED BY <1>2, <1>3, <1>4, <1>6, <2>1, <2>5, <2>6, <2>7, RunningLocal
<1> QED BY <1>5, <1>6

LEMMA TopOfCalls ==
  ASSUME TInv, LInv, NEW p \in Procs, proc[p].stack # <<>>, NEW e \in Entries,
         e.call = Top(p).call, NEW t, t = [proc[p].stack EXCEPT ![Len(proc[p].stack)] = e]
  PROVE  /\ t \in Seq(Entries) /\ t # <<>> /\ Last(t) = e
         /\ CallsIn(t) = CallsIn(proc[p].stack)
         /\ \A u \in Seq(Acts), x \in {0, 1} : Aligned(proc[p].stack, u, x) => Aligned(t, u, x)
         /\ \A q : q.stack = t /\ q.unit = proc[p].unit /\ q.life = "up" => StackOK(q, call)
<1> DEFINE s == proc[p].stack
<1>1. s \in Seq(Entries) /\ s # <<>> /\ StackOK(proc[p], call)
  BY DEF TInv, ProcType, LInv, ProcOK
<1>2. /\ t \in Seq(Entries) /\ Len(t) = Len(s) /\ t # <<>> /\ Last(t) = e /\ t[Len(s)] = e
      /\ \A i \in 1 .. Len(s) - 1 : t[i] = s[i]
  BY <1>1, TopReplaced
<1>3. /\ \A i \in 1..Len(s) : t[i].call = s[i].call
      /\ CallsIn(t) = CallsIn(s) /\ (Distinct(s) => Distinct(t))
  BY <1>1, CallsTop DEF Top
<1>4. ASSUME NEW u \in Seq(Acts), NEW x \in {0, 1}, Aligned(s, u, x) PROVE Aligned(t, u, x)
  <2>1. \A i \in 1..Len(u) : i \in 1..Len(u) OBVIOUS
  <2> HIDE DEF s
  <2>2. s \in Seq(Entries) BY <1>1
  <2>3. \A i \in 1..Len(u) : Len(s) - x - Len(u) + i \in 1..Len(s) BY <1>4, <2>2, AlignedTypes
  <2> QED BY <1>2, <1>3, <1>4, <2>3 DEF Aligned
<1>5. ASSUME NEW q, q.stack = t, q.unit = proc[p].unit, q.life = "up" PROVE StackOK(q, call)
  <2>1. ASSUME NEW i \in 1..Len(t)
        PROVE  /\ call[t[i].call].state = "pending" /\ call[t[i].call].unit = q.unit
               /\ i < Len(t) => t[i].phase = "answer"
    <3>1. i \in 1..Len(s) /\ t[i].call = s[i].call BY <1>2, <1>3
    <3>2. ASSUME i < Len(t) PROVE t[i].phase = "answer"
      <4>1. i \in 1 .. Len(s) - 1 /\ i < Len(s) BY <1>1, <1>2, <3>1, <3>2
      <4>2. t[i] = s[i] BY <1>2, <4>1
      <4> QED BY <1>1, <3>1, <4>1, <4>2 DEF StackOK
    <3> QED BY <1>1, <1>5, <3>1, <3>2 DEF StackOK
  <2> QED BY <1>1, <1>3, <1>5, <2>1 DEF StackOK
<1> QED BY <1>2, <1>3, <1>4, <1>5

LEMMA QuitLinks ==
  ASSUME TInv, LInv, UInv, HInv, NEW p \in Procs, NEW life \in {"stopping", "exiting"},
         Quit(p, life)
  PROVE  LInv' /\ UInv'
<1> DEFINE q == [proc[p] EXCEPT !.life = life]
<1>1. proc[p] \in ProcType BY DEF TInv
<1>2. proc' = [proc EXCEPT ![p] = q] /\ UNCHANGED call BY DEF Quit, TInv
<1>3. /\ q.life = life /\ q.stack = proc[p].stack /\ q.pid = proc[p].pid
      /\ q.reset = proc[p].reset /\ q.input = proc[p].input /\ q.unit = proc[p].unit
      /\ proc[p].life = "up"
      /\ proc[p].stack = <<>> \/ (life = "exiting" /\ AtPhase(proc[p], "answer"))
  BY <1>1 DEF Quit, Idle, In, AtPhase, Top, ProcType
<1> HIDE DEF q
<1>4. StackOK(q, call)
  <2>1. StackOK(proc[p], call) BY DEF LInv, ProcOK
  <2> QED BY <1>3, <2>1 DEF StackOK, AtPhase
<1>5. CASE ~Running(p)
  <2>1. q.pid # None => helper[q.pid].starter # p BY <1>3, <1>5 DEF Running
  <2>2. q.stack # <<>> => q.pid = None /\ AtPhase(q, "answer")
    BY <1>3, <1>5 DEF LInv, ProcOK, AtPhase
  <2>3. UNCHANGED helper BY <1>5 DEF Quit
  <2> QED BY <1>2, <1>3, <1>4, <1>5, <2>1, <2>2, <2>3, AloneLocal
<1>6. CASE Running(p)
  <2> DEFINE h == proc[p].pid
             r == helper'[h]
  <2>1. /\ Link(proc[p], helper[h], call) /\ HelperOK(helper[h], call)
        /\ h \in Calls /\ helper[h] \in HelperType
    BY <1>6, PidTypes DEF LInv, ProcOK
  <2>2. Resting(proc[p], helper[h]) \/ Answering(proc[p], helper[h])
    BY <1>3, <2>1 DEF Link, Sending, Calling, Working, Asking, Answered, Replied, AtPhase
  <2>3. helper[h].req = <<>> /\ Quiet(helper[h]) /\ Coming(proc[p], helper[h]) = <<>>
    BY <1>3, <2>2 DEF Resting, Answering, Quiet
  <2>4. /\ \A g \in Calls \ {h} : helper'[g] = helper[g]
        /\ r.starter = helper[h].starter /\ r.stack = helper[h].stack /\ r.fresh = helper[h].fresh
        /\ r.state = helper[h].state /\ r.rep = helper[h].rep
        /\ r.req = <<>> \/ (r.req = <<[kind |-> "quit"]>> /\ Alive(h))
    <3>1. CASE Gone(p) BY <2>3, <3>1 DEF Quit
    <3>2. CASE ~Gone(p)
      <4>1. helper' = [helper EXCEPT ![h].req = Append(@, [kind |-> "quit"])]
        BY <1>6, <3>2 DEF Quit
      <4>2. helper'[h].req = Append(<<>>, [kind |-> "quit"]) BY <2>1, <2>3, <4>1 DEF TInv, HelperType
      <4>3. helper'[h].req = <<[kind |-> "quit"]>> BY <4>2
      <4> QED BY <2>1, <3>2, <4>1, <4>3 DEF TInv, HelperType, Gone
    <3> QED BY <3>1, <3>2
  <2> HIDE DEF r
  <2>5. AsksIn(r.req) = {} /\ (r.req # <<>> => Quitting(r) /\ r.req[1].kind = "quit")
    <3>1. CASE r.req = <<>> BY <3>1 DEF AsksIn
    <3>2. CASE r.req = <<[kind |-> "quit"]>>
      <4>1. Len(r.req) = 1 /\ r.req[1].kind = "quit" /\ r.req[1].kind # "call" BY <3>2
      <4>2. \A j \in 1..Len(r.req) : j = 1 BY <4>1
      <4> QED BY <4>1, <4>2 DEF AsksIn, Quitting
    <3> QED BY <2>4, <3>1, <3>2
  <2>6. Quiet(r) BY <2>3, <2>4 DEF Quiet
  <2>7. HelperOK(r, call)
    <3>1. BodiesOK(r, call) BY <2>1, <2>4 DEF HelperOK, BodiesOK
    <3>2. RequestsOK(r, call) BY <2>5 DEF RequestsOK, Quitting
    <3> QED BY <2>1, <2>4, <2>6, <3>1, <3>2 DEF HelperOK, Alive
  <2>8. Fresh(q, r)
    <3>1. proc[p].reset => r.stack = <<>> BY <2>1, <2>4 DEF Link, Fresh
    <3>2. ~proc[p].reset => r.fresh \in {None, proc[p].unit} BY <2>1, <2>3, <2>4 DEF Link, Fresh
    <3> QED BY <1>3, <2>5, <3>1, <3>2 DEF Fresh
  <2>9. Coming(q, r) = <<>> BY <1>3, <2>3, <2>4 DEF Coming
  <2>10. CASE Resting(proc[p], helper[h])
    <3>1. Resting(q, r) BY <1>3, <2>4, <2>5, <2>9, <2>10 DEF Resting
    <3>2. Link(q, r, call) BY <2>8, <3>1 DEF Link
    <3> QED BY <1>2, <1>3, <1>4, <1>6, <2>4, <2>5, <2>7, <3>2, RunningLocal DEF r
  <2>11. CASE Answering(proc[p], helper[h])
    <3>0. life = "exiting" BY <1>3, <2>11 DEF Answering, AtPhase
    <3>1. Answering(q, r)
      BY <1>3, <2>4, <2>5, <2>6, <2>9, <2>11, <3>0 DEF Answering, AtPhase
    <3>2. Link(q, r, call) BY <2>8, <3>1 DEF Link
    <3> QED BY <1>2, <1>3, <1>4, <1>6, <2>4, <2>5, <2>7, <3>2, RunningLocal DEF r
  <2> QED BY <2>2, <2>10, <2>11
<1> QED BY <1>5, <1>6

LEMMA TwoFrames ==
  ASSUME NEW a, NEW b
  PROVE  <<a>> \o <<b>> = <<a, b>>
<1> DEFINE u == <<a>> \o <<b>>
           v == <<a, b>>
           S == {a, b}
<1>1. <<a>> \in Seq(S) /\ <<b>> \in Seq(S) /\ v \in Seq(S) /\ Len(v) = 2 /\ v[1] = a /\ v[2] = b
  OBVIOUS
<1>2. u \in Seq(S) /\ Len(u) = 2 /\ u[1] = a /\ u[2] = b BY <1>1
<1> HIDE DEF u, v, S
<1>3. \A i \in 1..Len(u) : u[i] = v[i]
  <2>1. \A i \in 1..Len(u) : i = 1 \/ i = 2 BY <1>2
  <2> QED BY <1>1, <1>2, <2>1
<1>4. u = v BY <1>1, <1>2, <1>3, SeqEqual
<1> QED BY <1>4 DEF u, v

LEMMA SendLinks ==
  ASSUME TInv, LInv, UInv, HInv, NEW p \in Procs, Send(p)
  PROVE  LInv' /\ UInv'
<1> DEFINE h == proc[p].pid
           c == Top(p).call
           e == [Top(p) EXCEPT !.phase = "wait"]
           t == [proc[p].stack EXCEPT ![Len(proc[p].stack)] = e]
           q == [Goto(p, "wait") EXCEPT !.reset = FALSE]
           ask == [kind |-> "call", call |-> c]
           R == (IF proc[p].reset THEN <<[kind |-> "reset"]>> ELSE <<>>) \o <<ask>>
           r == helper'[h]
<1>1. proc[p] \in ProcType /\ StackOK(proc[p], call) BY DEF TInv, LInv, ProcOK
<1>2. AtPhase(proc[p], "send") /\ proc[p].life = "up" /\ ~Gone(p)
  BY DEF Send, In, Top, AtPhase
<1>3. Running(p)
  <2>1. ~AtPhase(proc[p], "answer") BY <1>2 DEF AtPhase
  <2> QED BY <1>2, <2>1 DEF LInv, ProcOK, AtPhase
<1>4. /\ Link(proc[p], helper[h], call) /\ HelperOK(helper[h], call)
      /\ h \in Calls /\ helper[h] \in HelperType
  BY <1>3, PidTypes DEF LInv, ProcOK
<1>5. Sending(proc[p], helper[h], call)
  BY <1>2, <1>4 DEF Link, Resting, Calling, Working, Asking, Answering, Answered, Replied, AtPhase
<1>6. /\ Top(p) \in Entries /\ c \in Calls /\ c = Mine(proc[p])
      /\ c \in CallsIn(proc[p].stack)
  BY <1>1, <1>2, EntryTypes, MineIn DEF AtPhase, Mine, Top, ProcType
<1>7. e \in Entries /\ e.call = Top(p).call /\ e.phase = "wait" BY <1>6 DEF Entries
<1>8. /\ q.life = "up" /\ q.stack = t /\ q.pid = h /\ q.unit = proc[p].unit /\ ~q.reset
      /\ q.input = proc[p].input
  BY <1>1, <1>2 DEF Goto, WithTop, ProcType
<1>9. helper[h].req = <<>> BY <1>5 DEF Sending
<1>10. R = IF proc[p].reset THEN <<[kind |-> "reset"], ask>> ELSE <<ask>>
  <2> HIDE DEF ask
  <2>1. CASE proc[p].reset BY <2>1, TwoFrames
  <2>2. CASE ~proc[p].reset BY <2>2
  <2> QED BY <2>1, <2>2
<1>11. /\ helper'[h].req = R /\ \A g \in Calls \ {h} : helper'[g] = helper[g]
       /\ r.starter = helper[h].starter /\ r.stack = helper[h].stack /\ r.fresh = helper[h].fresh
       /\ r.state = helper[h].state /\ r.rep = helper[h].rep
  <2> DEFINE X == helper[h].req \o (IF proc[p].reset THEN <<[kind |-> "reset"]>> ELSE <<>>) \o <<ask>>
  <2>1. helper' = [helper EXCEPT ![h].req = X] BY DEF Send
  <2>2. X = R BY <1>9
  <2> HIDE DEF X, R
  <2> QED BY <1>4, <2>1, <2>2 DEF TInv, HelperType
<1>12. proc' = [proc EXCEPT ![p] = q] /\ UNCHANGED call BY DEF Send
<1>13. ask.kind = "call" /\ ask.call = c OBVIOUS
<1> HIDE DEF e, t, q, ask, R, r
<1>14. /\ t \in Seq(Entries) /\ t # <<>> /\ Last(t) = e /\ CallsIn(t) = CallsIn(proc[p].stack)
       /\ \A u \in Seq(Acts), x \in {0, 1} : Aligned(proc[p].stack, u, x) => Aligned(t, u, x)
       /\ StackOK(q, call)
  BY <1>2, <1>7, <1>8, TopOfCalls DEF t, AtPhase
<1>15. r.req = R BY <1>11 DEF r
<1>16. /\ R # <<>> /\ Last(R) = ask /\ AsksIn(R) \subseteq {c}
       /\ proc[p].reset => Len(R) = 2 /\ R[1].kind = "reset" /\ R[2] = ask
       /\ ~proc[p].reset => Len(R) = 1 /\ R[1] = ask
  <2>1. CASE proc[p].reset
    <3>1. Len(R) = 2 /\ R[1].kind = "reset" /\ R[2] = ask /\ R # <<>> BY <1>10, <2>1
    <3>2. \A j \in 1..Len(R) : R[j].kind = "call" => R[j].call = c
      BY <1>13, <3>1
    <3> QED BY <2>1, <3>1, <3>2 DEF AsksIn, Last
  <2>2. CASE ~proc[p].reset
    <3>1. Len(R) = 1 /\ R[1] = ask /\ R # <<>> BY <1>10, <2>2
    <3>2. \A j \in 1..Len(R) : R[j].call = c BY <1>13, <3>1
    <3> QED BY <2>2, <3>1, <3>2 DEF AsksIn, Last
  <2> QED BY <2>1, <2>2
<1>17. call[c].state = "pending" /\ call[c].unit = proc[p].unit /\ call[c].body = "no"
  <2>1. c = proc[p].stack[Len(proc[p].stack)].call BY DEF Top, Last
  <2>2. Len(proc[p].stack) \in 1..Len(proc[p].stack) BY <1>1, <1>2 DEF ProcType, AtPhase
  <2> QED BY <1>1, <1>5, <1>6, <2>1, <2>2 DEF StackOK, Sending
<1>18. Callable(c, call) BY <1>1, <1>17 DEF Callable, ProcType, None
<1>19. RequestsOK(r, call)
  <2>1. CASE proc[p].reset
    <3>1. r.stack = <<>> BY <1>4, <1>11, <2>1 DEF Link, Fresh
    <3> QED BY <1>13, <1>15, <1>16, <1>18, <2>1, <3>1 DEF RequestsOK
  <2>2. CASE ~proc[p].reset
    <3>1. r.fresh \in {None, call[c].unit}
      BY <1>4, <1>9, <1>11, <1>17, <2>2 DEF Link, Fresh
    <3> QED BY <1>13, <1>15, <1>16, <1>18, <2>2, <3>1 DEF RequestsOK
  <2> QED BY <2>1, <2>2
<1>20. Quiet(r) BY <1>5, <1>11 DEF Sending, Quiet
<1>21. HelperOK(r, call)
  <2>0. r.stack = helper[h].stack /\ r.fresh = helper[h].fresh BY <1>11
  <2>1. BodiesOK(r, call)
    <3>1. BodiesOK(helper[h], call) BY <1>4 DEF HelperOK
    <3> QED BY ONLY <2>0, <3>1 DEF BodiesOK
  <2>2. r.state \in {"forked", "up"} BY <1>2, <1>11 DEF Gone, Alive
  <2>3. r.state = "forked" => r.stack = <<>> /\ r.fresh = None BY <1>4, <1>11 DEF HelperOK
  <2> QED BY <1>19, <1>20, <2>1, <2>2, <2>3 DEF HelperOK
<1>22. Fresh(q, r)
  BY <1>4, <1>8, <1>9, <1>11, <1>13, <1>15, <1>16 DEF Link, Fresh
<1>23. Calling(q, r)
  <2>1. r.stack \in Seq(Acts) BY <1>4, <1>11 DEF HelperType
  <2>2. Aligned(q.stack, r.stack, 1) BY <1>5, <1>8, <1>11, <1>14, <2>1 DEF Sending
  <2>3. Coming(q, r) = <<>> BY <1>5, <1>8, <1>11 DEF Sending, Coming
  <2>4. Mine(q) = c BY <1>7, <1>8, <1>14 DEF Mine
  <2> QED BY <1>7, <1>8, <1>13, <1>14, <1>15, <1>16, <2>2, <2>3, <2>4 DEF Calling, AtPhase
<1>24. Link(q, r, call) BY <1>22, <1>23 DEF Link
<1>25. /\ \A d \in CallsIn(q.stack) : d \in CallsIn(proc[p].stack)
       /\ \A d \in AsksIn(r.req) : d \in CallsIn(proc[p].stack)
  BY <1>6, <1>8, <1>14, <1>15, <1>16
<1> QED BY <1>3, <1>8, <1>11, <1>12, <1>14, <1>21, <1>24, <1>25, RunningLocal DEF r

LEMMA ReadLinks ==
  ASSUME TInv, LInv, UInv, HInv, NEW p \in Procs, Read(p)
  PROVE  LInv' /\ UInv'
<1> DEFINE h == proc[p].pid
           rep == helper[h].rep
           r == helper'[h]
<1>1. proc[p] \in ProcType /\ StackOK(proc[p], call) BY DEF TInv, LInv, ProcOK
<1>2. /\ proc[p].stack # <<>> /\ Last(proc[p].stack).phase = "wait" /\ proc[p].life = "up"
      /\ proc[p].input = <<>>
  BY DEF Read, In, Top
<1>3. Running(p) BY <1>2 DEF LInv, ProcOK, AtPhase
<1>4. /\ Link(proc[p], helper[h], call) /\ HelperOK(helper[h], call)
      /\ h \in Calls /\ helper[h] \in HelperType
  BY <1>3, PidTypes DEF LInv, ProcOK
<1>5. rep \in Seq(Replies) BY <1>4 DEF HelperType
<1>6. PICK n \in 1..Len(rep) :
        /\ proc' = [proc EXCEPT ![p].input = SubSeq(rep, 1, n)]
        /\ helper' = [helper EXCEPT ![h].rep = SubSeq(rep, n + 1, Len(rep))]
  <2>1. DOMAIN rep = 1..Len(rep) BY <1>5
  <2> QED BY <2>1 DEF Read
<1>7. SubSeq(rep, 1, n) \o SubSeq(rep, n + 1, Len(rep)) = rep BY <1>5, SplitSeq
<1> DEFINE q == [proc[p] EXCEPT !.input = SubSeq(rep, 1, n)]
<1>8. proc' = [proc EXCEPT ![p] = q] BY <1>6 DEF TInv
<1>9. /\ q.life = "up" /\ q.stack = proc[p].stack /\ q.pid = h /\ q.unit = proc[p].unit
      /\ q.reset = proc[p].reset /\ q.input = SubSeq(rep, 1, n)
  BY <1>1, <1>2 DEF ProcType
<1>10. /\ \A g \in Calls \ {h} : helper'[g] = helper[g]
       /\ r.starter = helper[h].starter /\ r.stack = helper[h].stack /\ r.fresh = helper[h].fresh
       /\ r.state = helper[h].state /\ r.req = helper[h].req
       /\ r.rep = SubSeq(rep, n + 1, Len(rep))
  BY <1>4, <1>6 DEF TInv, HelperType
<1>11. Coming(q, r) = Coming(proc[p], helper[h])
  <2>1. Coming(proc[p], helper[h]) = rep BY <1>2, <1>5 DEF Coming
  <2> HIDE DEF q, r, rep
  <2> QED BY <1>7, <1>9, <1>10, <2>1 DEF Coming
<1>12. UNCHANGED call BY DEF Read
<1> HIDE DEF q, r, rep
<1>13. StackOK(q, call) BY <1>1, <1>2, <1>9 DEF StackOK
<1>14. HelperOK(r, call) BY ONLY <1>4, <1>10 DEF HelperOK, BodiesOK, RequestsOK, Quiet
<1>15. Link(q, r, call)
  <2>1. /\ Quiet(r) <=> Quiet(helper[h])
        /\ Mine(q) = Mine(proc[p])
        /\ \A phase : AtPhase(q, phase) <=> AtPhase(proc[p], phase)
    BY <1>9, <1>10 DEF Quiet, Mine, AtPhase
  <2>2. Fresh(q, r) BY <1>4, <1>9, <1>10 DEF Link, Fresh
  <2>3. ~AtPhase(proc[p], "answer") /\ ~AtPhase(proc[p], "send") /\ proc[p].stack # <<>>
    BY <1>2 DEF AtPhase
  <2> QED BY <1>4, <1>9, <1>10, <1>11, <2>1, <2>2, <2>3
          DEF Link, Resting, Sending, Calling, Working, Asking, Answering, Answered, Replied
<1> QED BY <1>3, <1>8, <1>9, <1>10, <1>12, <1>13, <1>14, <1>15, RunningLocal DEF r

\* What a process that waits, and has a reply, has of its helper.
LEMMA ReplyIs ==
  ASSUME TInv, LInv, NEW p \in Procs, Ready(p, {"notice", "value", "error", "query"})
  PROVE  LET h == proc[p].pid
             C == Coming(proc[p], helper[h])
         IN /\ Running(p) /\ h \in Calls /\ helper[h] \in HelperType
            /\ proc[p] \in ProcType /\ StackOK(proc[p], call) /\ proc[p].life = "up"
            /\ AtPhase(proc[p], "wait") /\ Top(p) \in Entries /\ Top(p) = Last(proc[p].stack)
            /\ Link(proc[p], helper[h], call) /\ HelperOK(helper[h], call)
            /\ helper[h].req = <<>> /\ Quiet(helper[h])
            /\ C \in Seq(Replies) /\ C # <<>> /\ C[1] = Reply(p)
            /\ Tail(proc[p].input) \o helper[h].rep = Tail(C)
            /\ IF Reply(p).kind = "query"
               THEN Asking(proc[p], helper[h]) /\ Tail(C) = <<>>
               ELSE /\ Replied(proc[p], helper[h], call)
                    /\ IF Reply(p).kind = "notice" THEN Tail(C) = <<C[2]>> /\ Len(C) = 2
                       ELSE Tail(C) = <<>> /\ Len(C) = 1
<1> DEFINE h == proc[p].pid
           C == Coming(proc[p], helper[h])
<1>1. proc[p] \in ProcType /\ StackOK(proc[p], call) BY DEF TInv, LInv, ProcOK
<1>2. /\ proc[p].stack # <<>> /\ Last(proc[p].stack).phase = "wait" /\ proc[p].life = "up"
      /\ proc[p].input # <<>>
  BY DEF Ready, In, Top
<1>3. Running(p) BY <1>2 DEF LInv, ProcOK, AtPhase
<1>4. /\ Link(proc[p], helper[h], call) /\ HelperOK(helper[h], call)
      /\ h \in Calls /\ helper[h] \in HelperType
  BY <1>3, PidTypes DEF LInv, ProcOK
<1>5. proc[p].input \in Seq(Replies) /\ helper[h].rep \in Seq(Replies)
  BY <1>1, <1>4 DEF ProcType, HelperType
<1>6. /\ C \in Seq(Replies) /\ C # <<>> /\ C[1] = Reply(p)
      /\ Tail(proc[p].input) \o helper[h].rep = Tail(C)
  <2>1. C = proc[p].input \o helper[h].rep BY DEF Coming
  <2>2. C \in Seq(Replies) BY <1>5, <2>1, ConcatProperties
  <2> HIDE DEF C
  <2> QED BY <1>2, <1>5, <2>1, <2>2, TailOfBoth DEF Reply
<1>7. Asking(proc[p], helper[h]) \/ Replied(proc[p], helper[h], call)
  BY <1>2, <1>4, <1>6 DEF Link, Resting, Sending, Calling, Working, Answering, Answered, AtPhase
<1>8. /\ Len(C) = 1 => Tail(C) = <<>> /\ Last(C) = C[1]
      /\ Len(C) = 2 => Tail(C) = <<C[2]>>
  BY <1>6, ShortTails DEF Last
<1>9. CASE Asking(proc[p], helper[h])
  <2>1. Reply(p).kind = "query" /\ Tail(C) = <<>> /\ helper[h].req = <<>> /\ Quiet(helper[h])
    BY <1>6, <1>8, <1>9 DEF Asking
  <2> QED BY <1>1, <1>2, <1>3, <1>4, <1>6, <1>9, <2>1, EntryTypes DEF AtPhase, Top
<1>10. CASE Replied(proc[p], helper[h], call)
  <2>1. /\ Len(C) = 1 \/ (Len(C) = 2 /\ C[1].kind = "notice")
        /\ Last(C).kind \in {"value", "error"} /\ helper[h].req = <<>> /\ Quiet(helper[h])
    BY <1>10 DEF Replied
  <2> HIDE DEF C
  <2>2. Reply(p).kind # "query" BY <1>6, <1>8, <2>1
  <2>3. IF Reply(p).kind = "notice" THEN Tail(C) = <<C[2]>> /\ Len(C) = 2
        ELSE Tail(C) = <<>> /\ Len(C) = 1
    BY <1>6, <1>8, <2>1
  <2> QED BY <1>1, <1>2, <1>3, <1>4, <1>6, <1>10, <2>1, <2>2, <2>3, EntryTypes
          DEF AtPhase, Top, C
<1> QED BY <1>7, <1>9, <1>10

LEMMA NoticeLinks ==
  ASSUME TInv, LInv, UInv, HInv, NEW p \in Procs, TakeNotice(p)
  PROVE  LInv' /\ UInv'
<1> DEFINE h == proc[p].pid
           C == Coming(proc[p], helper[h])
           q == Rest(p)
           r == helper[h]
<1>0. Ready(p, {"notice", "value", "error", "query"}) /\ Reply(p).kind = "notice"
  BY DEF TakeNotice, Ready
<1>1. /\ Running(p) /\ h \in Calls /\ r \in HelperType
      /\ proc[p] \in ProcType /\ StackOK(proc[p], call) /\ proc[p].life = "up"
      /\ Link(proc[p], r, call) /\ HelperOK(r, call)
      /\ C \in Seq(Replies) /\ Tail(proc[p].input) \o r.rep = Tail(C)
      /\ Replied(proc[p], r, call) /\ Tail(C) = <<C[2]>> /\ Len(C) = 2
  BY <1>0, ReplyIs
<1>2. proc' = [proc EXCEPT ![p] = q] /\ UNCHANGED <<helper, call>> BY DEF TakeNotice
<1>3. /\ q.life = "up" /\ q.stack = proc[p].stack /\ q.pid = h /\ q.unit = proc[p].unit
      /\ q.reset = proc[p].reset /\ q.input = Tail(proc[p].input)
  BY <1>1 DEF Rest, ProcType
<1> HIDE DEF q
<1>4. StackOK(q, call) BY <1>1, <1>3 DEF StackOK
<1>5. Fresh(q, r) BY <1>1, <1>3 DEF Link, Fresh
<1>6. Coming(q, r) = <<C[2]>> BY <1>1, <1>3 DEF Coming
<1>7. Last(C) = C[2] /\ Last(<<C[2]>>) = C[2] /\ Len(<<C[2]>>) = 1
  <2> HIDE DEF C
  <2> QED BY <1>1 DEF Last
<1>8. Replied(q, r, call) BY <1>1, <1>3, <1>6, <1>7 DEF Replied, AtPhase, Mine
<1>9. Link(q, r, call) BY <1>5, <1>8 DEF Link
<1>10. helper'[h] = r /\ \A g \in Calls \ {h} : helper'[g] = helper[g] BY <1>2
<1> QED BY <1>1, <1>2, <1>3, <1>4, <1>9, <1>10, RunningLocal

LEMMA TakeQueryLinks ==
  ASSUME TInv, LInv, UInv, HInv, NEW p \in Procs, TakeQuery(p)
  PROVE  LInv' /\ UInv'
<1> DEFINE h == proc[p].pid
           C == Coming(proc[p], helper[h])
           e == [Top(p) EXCEPT !.phase = "answer"]
           t == [proc[p].stack EXCEPT ![Len(proc[p].stack)] = e]
           q == [Goto(p, "answer") EXCEPT !.input = Tail(proc[p].input)]
           r == helper[h]
<1>0. Ready(p, {"notice", "value", "error", "query"}) /\ Reply(p).kind = "query"
  BY DEF TakeQuery, Ready
<1>1. /\ Running(p) /\ h \in Calls /\ r \in HelperType
      /\ proc[p] \in ProcType /\ proc[p].life = "up" /\ proc[p].stack # <<>>
      /\ Top(p) \in Entries
      /\ Link(proc[p], r, call) /\ HelperOK(r, call)
      /\ Tail(proc[p].input) \o r.rep = <<>>
      /\ Asking(proc[p], r)
  BY <1>0, ReplyIs DEF AtPhase
<1>2. proc' = [proc EXCEPT ![p] = q] /\ UNCHANGED <<helper, call>> BY DEF TakeQuery
<1>3. e \in Entries /\ e.call = Top(p).call /\ e.phase = "answer" BY <1>1 DEF Entries
<1>4. /\ q.life = "up" /\ q.stack = t /\ q.pid = h /\ q.unit = proc[p].unit
      /\ q.reset = proc[p].reset /\ q.input = Tail(proc[p].input)
  BY <1>1 DEF Goto, WithTop, ProcType
<1> HIDE DEF q, e, t
<1>5. /\ t \in Seq(Entries) /\ t # <<>> /\ Last(t) = e /\ CallsIn(t) = CallsIn(proc[p].stack)
      /\ \A u \in Seq(Acts), x \in {0, 1} : Aligned(proc[p].stack, u, x) => Aligned(t, u, x)
      /\ StackOK(q, call)
  BY <1>1, <1>3, <1>4, TopOfCalls DEF t
<1>6. Fresh(q, r) BY <1>1, <1>4 DEF Link, Fresh
<1>7. Aligned(q.stack, r.stack, 0)
  <2>1. r.stack \in Seq(Acts) BY <1>1 DEF HelperType
  <2> QED BY <1>1, <1>4, <1>5, <2>1 DEF Asking
<1>8. Answering(q, r) BY <1>1, <1>3, <1>4, <1>5, <1>7 DEF Answering, Asking, AtPhase, Coming
<1>9. Link(q, r, call) BY <1>6, <1>8 DEF Link
<1>10. helper'[h] = r /\ \A g \in Calls \ {h} : helper'[g] = helper[g] BY <1>2
<1>11. \A d \in CallsIn(q.stack) : d \in CallsIn(proc[p].stack) BY <1>4, <1>5
<1> QED BY <1>1, <1>2, <1>4, <1>5, <1>9, <1>10, <1>11, RunningLocal

LEMMA AnswerLinks ==
  ASSUME TInv, LInv, UInv, HInv, NEW p \in Procs, Answer(p)
  PROVE  LInv' /\ UInv'
<1> DEFINE h == proc[p].pid
           c == Top(p).call
           e == [Top(p) EXCEPT !.phase = "wait"]
           t == [proc[p].stack EXCEPT ![Len(proc[p].stack)] = e]
           q == Goto(p, "wait")
           f == [kind |-> "answer", call |-> c]
           r == helper'[h]
<1>1. proc[p] \in ProcType /\ StackOK(proc[p], call) BY DEF TInv, LInv, ProcOK
<1>2. AtPhase(proc[p], "answer") /\ proc[p].life = "up" /\ ~Gone(p)
  BY DEF Answer, In, Top, AtPhase
<1>3. Running(p)
  <2>1. proc[p].pid # None BY <1>2 DEF Gone, Alive
  <2> QED BY <1>2, <2>1 DEF LInv, ProcOK, AtPhase
<1>4. /\ Link(proc[p], helper[h], call) /\ HelperOK(helper[h], call)
      /\ h \in Calls /\ helper[h] \in HelperType
  BY <1>3, PidTypes DEF LInv, ProcOK
<1>5. Answering(proc[p], helper[h]) /\ helper[h].req = <<>>
  BY <1>2, <1>4 DEF Link, Resting, Sending, Calling, Working, Asking, Answering, Answered,
                    Replied, AtPhase
<1>6. Top(p) \in Entries /\ c \in Calls BY <1>2, EntryTypes DEF AtPhase
<1>7. e \in Entries /\ e.call = Top(p).call /\ e.phase = "wait" BY <1>6 DEF Entries
<1>8. /\ q.life = "up" /\ q.stack = t /\ q.pid = h /\ q.unit = proc[p].unit
      /\ q.reset = proc[p].reset /\ q.input = proc[p].input
  BY <1>1, <1>2 DEF Goto, WithTop, ProcType
<1>9. /\ helper'[h].req = <<f>> /\ \A g \in Calls \ {h} : helper'[g] = helper[g]
      /\ r.starter = helper[h].starter /\ r.stack = helper[h].stack /\ r.fresh = helper[h].fresh
      /\ r.state = helper[h].state /\ r.rep = helper[h].rep
  <2>1. helper' = [helper EXCEPT ![h].req = Append(helper[h].req, f)] BY DEF Answer
  <2>2. Append(<<>>, f) = <<f>> OBVIOUS
  <2> HIDE DEF f
  <2> QED BY <1>4, <1>5, <2>1, <2>2 DEF TInv, HelperType
<1>10. proc' = [proc EXCEPT ![p] = q] /\ UNCHANGED call BY DEF Answer
<1>11. f.kind = "answer" /\ f.call = c OBVIOUS
<1> HIDE DEF e, t, q, f, r
<1>12. /\ t \in Seq(Entries) /\ t # <<>> /\ Last(t) = e /\ CallsIn(t) = CallsIn(proc[p].stack)
       /\ \A u \in Seq(Acts), x \in {0, 1} : Aligned(proc[p].stack, u, x) => Aligned(t, u, x)
       /\ StackOK(q, call)
  BY <1>2, <1>7, <1>8, TopOfCalls DEF t, AtPhase
<1>13. r.req = <<f>> /\ Len(r.req) = 1 /\ r.req[1] = f /\ r.req # <<>> /\ AsksIn(r.req) = {}
  <2>1. r.req = <<f>> BY <1>9 DEF r
  <2>2. Len(r.req) = 1 /\ r.req[1] = f /\ r.req # <<>> BY <2>1
  <2>3. \A j \in 1..Len(r.req) : r.req[j].kind # "call" BY <1>11, <2>2
  <2> QED BY <2>1, <2>2, <2>3 DEF AsksIn
<1>14. r.stack \in Seq(Acts) BY <1>4, <1>9 DEF HelperType
<1>15. r.stack # <<>> => Last(r.stack).call = c
  <2>1. proc[p].stack \in Seq(Entries) BY <1>1 DEF ProcType
  <2>2. Aligned(proc[p].stack, r.stack, 0) BY <1>5, <1>9 DEF Answering
  <2> QED BY <1>14, <2>1, <2>2, AlignedReturn DEF Top
<1>16. HelperOK(r, call)
  <2>0. r.stack = helper[h].stack /\ r.fresh = helper[h].fresh BY <1>9
  <2>1. BodiesOK(r, call)
    <3>1. BodiesOK(helper[h], call) BY <1>4 DEF HelperOK
    <3> QED BY ONLY <2>0, <3>1 DEF BodiesOK
  <2>2. r.state \in {"forked", "up"} BY <1>2, <1>9 DEF Gone, Alive
  <2>3. r.state = "forked" => r.stack = <<>> /\ r.fresh = None BY <1>4, <1>9 DEF HelperOK
  <2>4. RequestsOK(r, call) BY <1>11, <1>13, <1>15 DEF RequestsOK
  <2>5. Quiet(r) BY <1>5, <1>9 DEF Answering, Quiet
  <2> QED BY <2>1, <2>2, <2>3, <2>4, <2>5 DEF HelperOK
<1>17. Fresh(q, r)
  <2>1. proc[p].reset => r.stack = <<>> BY <1>4, <1>9 DEF Link, Fresh
  <2>2. ~proc[p].reset => r.fresh \in {None, proc[p].unit} BY <1>4, <1>5, <1>9 DEF Link, Fresh
  <2> QED BY <1>8, <1>13, <2>1, <2>2 DEF Fresh
<1>18. Answered(q, r)
  <2>1. Aligned(q.stack, r.stack, 0) BY <1>5, <1>8, <1>9, <1>12, <1>14 DEF Answering
  <2>2. Coming(q, r) = <<>> BY <1>5, <1>8, <1>9 DEF Answering, Coming
  <2>3. Mine(q) = c BY <1>7, <1>8, <1>12 DEF Mine
  <2> QED BY <1>7, <1>8, <1>11, <1>12, <1>13, <2>1, <2>2, <2>3 DEF Answered, AtPhase
<1>19. Link(q, r, call) BY <1>17, <1>18 DEF Link
<1>20. /\ \A d \in CallsIn(q.stack) : d \in CallsIn(proc[p].stack)
       /\ \A d \in AsksIn(r.req) : d \in CallsIn(proc[p].stack)
  BY <1>8, <1>12, <1>13
<1> QED BY <1>3, <1>8, <1>9, <1>10, <1>12, <1>16, <1>19, <1>20, RunningLocal DEF r

\* The innermost call of a process is over: those it waits for outside stay.
LEMMA StackPopped ==
  ASSUME TInv, LInv, NEW p \in Procs, proc[p].stack # <<>>,
         NEW q, q.stack = Front(proc[p].stack), q.unit = proc[p].unit, q.life = "up",
         \A c \in Calls \ {Top(p).call} :
           call'[c].state = call[c].state /\ call'[c].unit = call[c].unit
  PROVE  /\ StackOK(q, call') /\ q.stack \in Seq(Entries)
         /\ q.stack # <<>> => AtPhase(q, "answer")
         /\ CallsIn(q.stack) \subseteq CallsIn(proc[p].stack)
         /\ Top(p).call \in CallsIn(proc[p].stack) \ CallsIn(q.stack)
<1> DEFINE s == proc[p].stack
           u == Front(s)
<1>1. s \in Seq(Entries) /\ s # <<>> /\ StackOK(proc[p], call)
  BY DEF TInv, ProcType, LInv, ProcOK
<1>2. /\ u \in Seq(Entries) /\ Len(s) \in Nat \ {0} /\ Len(u) = Len(s) - 1
      /\ \A i \in 1 .. Len(s) - 1 : u[i] = s[i]
  BY <1>1, LastFront
<1>3. /\ CallsIn(s) = CallsIn(u) \cup {Top(p).call} /\ Distinct(u)
      /\ Top(p).call \notin CallsIn(u)
  BY <1>1, CallsPop DEF Top, StackOK
<1>4. \A c \in CallsIn(u) : call'[c].state = call[c].state /\ call'[c].unit = call[c].unit
  <2>1. \A i \in 1..Len(u) : u[i] \in Entries BY <1>2
  <2>2. \A c \in CallsIn(u) : c \in Calls BY <2>1 DEF CallsIn, Entries
  <2> QED BY <1>3, <2>2
<1> HIDE DEF u
<1>5. ASSUME NEW i \in 1..Len(u)
      PROVE  /\ call'[u[i].call].state = "pending" /\ call'[u[i].call].unit = q.unit
             /\ u[i].phase = "answer"
  <2>1. i \in 1 .. Len(s) - 1 /\ i \in 1..Len(s) /\ i < Len(s) BY <1>2
  <2>2. u[i] = s[i] BY <1>2, <2>1
  <2>3. u[i].call \in CallsIn(u) BY DEF CallsIn
  <2> QED BY <1>1, <1>4, <2>1, <2>2, <2>3 DEF StackOK
<1>6. q.stack = u BY DEF u
<1>7. StackOK(q, call') BY <1>3, <1>5, <1>6 DEF StackOK
<1>8. u # <<>> => AtPhase(q, "answer")
  <2>1. u # <<>> => Len(u) \in 1..Len(u) BY <1>2
  <2> QED BY <1>5, <1>6, <2>1 DEF AtPhase, Last
<1> QED BY <1>2, <1>3, <1>6, <1>7, <1>8

LEMMA TakeResultLinks ==
  ASSUME TInv, LInv, UInv, HInv, NEW p \in Procs, TakeResult(p)
  PROVE  LInv' /\ UInv'
<1> DEFINE h == proc[p].pid
           C == Coming(proc[p], helper[h])
           q == Popped(Rest(p))
           r == helper[h]
           c == Top(p).call
<1>0. Ready(p, {"notice", "value", "error", "query"}) /\ Reply(p).kind \in {"value", "error"}
  BY DEF TakeResult, Ready
<1>1. /\ Running(p) /\ h \in Calls /\ r \in HelperType
      /\ proc[p] \in ProcType /\ proc[p].life = "up" /\ proc[p].stack # <<>>
      /\ Top(p) \in Entries /\ Top(p) = Last(proc[p].stack)
      /\ Link(proc[p], r, call) /\ HelperOK(r, call)
      /\ Tail(proc[p].input) \o r.rep = <<>>
      /\ r.req = <<>> /\ Quiet(r) /\ Replied(proc[p], r, call)
  BY <1>0, ReplyIs DEF AtPhase
<1>2. proc' = [proc EXCEPT ![p] = q] /\ UNCHANGED helper BY DEF TakeResult
<1>3. /\ q.life = "up" /\ q.stack = Front(proc[p].stack) /\ q.pid = h
      /\ q.unit = proc[p].unit /\ q.reset = proc[p].reset /\ q.input = Tail(proc[p].input)
  BY <1>1 DEF Popped, Rest, ProcType
<1>4. c \in Calls BY <1>1 DEF Entries
<1>5. \A d \in Calls :
        /\ call'[d].body = call[d].body /\ call'[d].unit = call[d].unit
        /\ call'[d].state = "unused" => call[d].state = "unused"
        /\ d # c => call'[d] = call[d]
  BY <1>4 DEF TakeResult, TInv, CallType
<1> HIDE DEF q
<1>6. /\ StackOK(q, call') /\ q.stack \in Seq(Entries)
      /\ q.stack # <<>> => AtPhase(q, "answer")
      /\ CallsIn(q.stack) \subseteq CallsIn(proc[p].stack)
      /\ c \in CallsIn(proc[p].stack)
  BY <1>1, <1>3, <1>5, StackPopped
<1>7. Fresh(q, r) BY <1>1, <1>3 DEF Link, Fresh
<1>8. Aligned(q.stack, r.stack, 0)
  <2>1. r.stack \in Seq(Acts) /\ proc[p].stack \in Seq(Entries)
    BY <1>1 DEF HelperType, ProcType
  <2>2. Aligned(proc[p].stack, r.stack, 1) BY <1>1 DEF Replied
  <2> QED BY <1>3, <2>1, <2>2, AlignedPop
<1>9. Coming(q, r) = <<>> BY <1>1, <1>3 DEF Coming
<1>10. Link(q, r, call')
  <2>1. CASE q.stack = <<>>
    <3>1. r.stack = <<>>
      <4>1. r.stack \in Seq(Acts) /\ Len(r.stack) <= 0 BY <1>1, <1>8, <2>1 DEF HelperType, Aligned
      <4> QED BY <4>1
    <3>2. Resting(q, r) BY <1>1, <1>9, <2>1, <3>1 DEF Resting
    <3> QED BY <1>7, <3>2 DEF Link
  <2>2. CASE q.stack # <<>>
    <3>1. Answering(q, r) BY <1>1, <1>6, <1>8, <1>9, <2>2 DEF Answering
    <3> QED BY <1>7, <3>1 DEF Link
  <2> QED BY <2>1, <2>2
<1>11. HelperOK(r, call')
  <2>1. c \notin Held(r)
    <3>1. call[c].body = "done" BY <1>1 DEF Replied, Mine
    <3>2. \A i \in 1..Len(r.stack) : call[r.stack[i].call].body = "running"
      BY <1>1 DEF HelperOK, BodiesOK
    <3>3. AsksIn(r.req) = {} BY <1>1 DEF AsksIn
    <3> QED BY <3>1, <3>2, <3>3 DEF Held, CallsIn
  <2>2. Held(r) \subseteq Calls BY <1>1, NoneUnused DEF Held
  <2>3. \A d \in Held(r) : call'[d] = call[d] BY <1>5, <2>1, <2>2
  <2> QED BY <1>1, <2>3, HelperFrame
<1>12. helper'[h] = r /\ \A g \in Calls \ {h} : helper'[g] = helper[g] BY <1>2
<1>13. \A d \in Calls :
         /\ call'[d].body = call[d].body
         /\ call'[d].state = "unused" => call[d].state = "unused"
         /\ call'[d] # call[d] => d \in CallsIn(proc[p].stack) \/ call[d].state = "unused"
  BY <1>5, <1>6
<1>14. \A d \in CallsIn(q.stack) : d \in CallsIn(proc[p].stack) BY <1>6
<1> HIDE DEF r
<1>15. r.starter = helper[h].starter /\ r.stack = helper[h].stack /\ AsksIn(r.req) = AsksIn(helper[h].req)
  BY DEF r
<1> QED BY <1>1, <1>2, <1>3, <1>6, <1>10, <1>11, <1>12, <1>13, <1>14, <1>15, RunningLocal

LEMMA BodiesAre ==
  ASSUME TInv, NEW h \in Calls
  PROVE  Bodies(h) = CallsIn(helper[h].stack)
<1>1. helper[h].stack \in Seq(Acts) BY DEF TInv, HelperType
<1>2. DOMAIN helper[h].stack = 1..Len(helper[h].stack) BY <1>1
<1> QED BY <1>2 DEF Bodies, CallsIn

LEMMA PendingAre ==
  ASSUME TInv, NEW p \in Procs
  PROVE  Pending(p) = CallsIn(proc[p].stack)
<1>1. proc[p].stack \in Seq(Entries) BY DEF TInv, ProcType
<1>2. DOMAIN proc[p].stack = 1..Len(proc[p].stack) BY <1>1
<1> QED BY <1>2 DEF Pending, CallsIn

\* A process that stops its helper, or forgets one that it does not run.
LEMMA StopLinks ==
  ASSUME TInv, LInv, UInv, HInv, NEW p \in Procs, helper' = Stop(p),
         NEW q, proc' = [proc EXCEPT ![p] = q], q.pid = None, StackOK(q, call'),
         q.stack # <<>> => AtPhase(q, "answer"),
         CallsIn(q.stack) \subseteq CallsIn(proc[p].stack),
         \A c \in Calls :
           /\ call'[c].body = "running" => call[c].body = "running" /\ c \notin Stopping(p)
           /\ call'[c].state = "unused" => call[c].state = "unused"
           /\ call[c].body = "no" => call'[c].body = "no"
           /\ call'[c] # call[c] => c \in CallsIn(proc[p].stack) \/ c \in Stopping(p)
  PROVE  LInv' /\ UInv'
<1>1. proc'[p] = q /\ \A o \in Procs \ {p} : proc'[o] = proc[o] BY DEF TInv
<1>2. ~Running(p)' /\ ProcOK(p)'
  <2>1. ~Running(p)' BY <1>1 DEF Running
  <2> QED BY <1>1, <2>1 DEF ProcOK
<1>3. \A c \in CallsIn(proc'[p].stack) :
        c \in CallsIn(proc[p].stack) \/ call[c].state = "unused"
  BY <1>1
<1>4. CASE ~Running(p)
  <2>1. helper' = helper /\ Stopping(p) = {} BY <1>4 DEF Stop, Stopping
  <2>2. Alone(p, None) BY <1>1, <1>4, <2>1 DEF Alone
  <2>3. LInv' BY <1>2, <2>2, LinksFrame
  <2>4. \A c \in Calls : call'[c].state = "unused" => call[c].state = "unused" /\ call'[c].body = "no"
    BY DEF UInv
  <2>5. UInv' BY <1>3, <2>1, <2>2, <2>4, CallsFrame
  <2> QED BY <2>3, <2>5
<1>5. CASE Running(p)
  <2> DEFINE h == proc[p].pid
             r == Reaped(h)
  <2>1. h \in Calls /\ h # None /\ helper[h] \in HelperType /\ helper[h].starter = p
    BY <1>5, PidTypes DEF Running
  <2>2. /\ r.state = "reaped" /\ r.stack = <<>> /\ r.req = <<>> /\ r.starter = p
        /\ helper'[h] = r /\ \A g \in Calls \ {h} : helper'[g] = helper[g]
    BY <1>5, <2>1 DEF Stop, Reaped, HelperType, TInv
  <2> HIDE DEF r
  <2>3. Held(r) = {} BY <2>2 DEF Held, AsksIn, CallsIn
  <2>4. Stopping(p) = CallsIn(helper[h].stack) BY <1>5, <2>1, BodiesAre DEF Stopping
  <2>5. Alone(p, h) BY <1>1, <2>1, <2>2, <2>4 DEF Alone, Held
  <2>6. HelperOK(r, call') BY <2>2 DEF HelperOK, BodiesOK, Distinct, RequestsOK
  <2>7. LInv' BY <1>2, <2>1, <2>2, <2>5, <2>6, LinksFrame
  <2>8. \A c \in Calls :
          /\ call'[c].body = "running" =>
               call[c].body = "running" /\ (h # None => c \notin CallsIn(helper[h].stack))
          /\ call'[c].state = "unused" => call[c].state = "unused" /\ call'[c].body = "no"
    BY <2>4 DEF UInv
  <2>9. /\ \A c \in Held(helper'[h]) :
             c \in Held(helper[h]) \/ (Running(p) /\ c \in CallsIn(proc[p].stack))
        /\ Held(helper'[h]) = {} /\ CallsIn(proc'[p].stack) \cap Held(helper'[h]) = {}
    BY <2>2, <2>3
  <2> HIDE DEF h
  <2>10. UInv' BY <1>3, <2>1, <2>5, <2>8, <2>9, CallsFrame
  <2> QED BY <2>7, <2>10
<1> QED BY <1>4, <1>5

LEMMA GiveUpLinks ==
  ASSUME TInv, LInv, UInv, HInv, NEW p \in Procs, GiveUp(p), proc[p].life = "up",
         proc[p].stack # <<>>
  PROVE  LInv' /\ UInv'
<1> DEFINE q == Popped(Forgotten(p))
           c == Top(p).call
<1>1. proc[p] \in ProcType /\ c \in Calls BY EntryTypes DEF TInv
<1>2. /\ helper' = Stop(p) /\ proc' = [proc EXCEPT ![p] = q]
      /\ call' = CallsAfter(Stopping(p), {c}, "failed")
  BY DEF GiveUp
<1>3. /\ q.life = "up" /\ q.stack = Front(proc[p].stack) /\ q.pid = None
      /\ q.unit = proc[p].unit
  BY <1>1 DEF Popped, Forgotten, ProcType
<1>4. \A d \in Calls :
        /\ call'[d].state = IF d = c THEN "failed" ELSE call[d].state
        /\ call'[d].unit = call[d].unit /\ call'[d].got = call[d].got
        /\ call'[d].body = IF d \in Stopping(p) /\ call[d].body = "running"
                           THEN "stopped" ELSE call[d].body
        /\ d # c /\ d \notin Stopping(p) => call'[d] = call[d]
  <2> HIDE DEF c
  <2> QED BY <1>2, CallsAfterType
<1> HIDE DEF q
<1>5. /\ StackOK(q, call') /\ (q.stack # <<>> => AtPhase(q, "answer"))
      /\ CallsIn(q.stack) \subseteq CallsIn(proc[p].stack)
      /\ c \in CallsIn(proc[p].stack)
  BY <1>3, <1>4, StackPopped
<1>6. \A d \in Calls :
        /\ call'[d].body = "running" => call[d].body = "running" /\ d \notin Stopping(p)
        /\ call'[d].state = "unused" => call[d].state = "unused"
        /\ call[d].body = "no" => call'[d].body = "no"
        /\ call'[d] # call[d] => d \in CallsIn(proc[p].stack) \/ d \in Stopping(p)
  <2> HIDE DEF c
  <2> QED BY <1>4, <1>5
<1> QED BY <1>2, <1>3, <1>5, <1>6, StopLinks

LEMMA QuittedLinks ==
  ASSUME TInv, LInv, UInv, HInv, NEW p \in Procs, Quitted(p)
  PROVE  LInv' /\ UInv'
<1>1. proc[p] \in ProcType /\ StackOK(proc[p], call) BY DEF TInv, LInv, ProcOK
<1>2. proc[p].life \in {"stopping", "exiting"} /\ (Running(p) => Gone(p)) /\ helper' = Stop(p)
  BY DEF Quitted
<1>3. Stopping(p) = {}
  <2>1. CASE ~Running(p) BY <2>1 DEF Stopping
  <2>2. CASE Running(p)
    <3>1. proc[p].pid \in Calls /\ HelperOK(helper[proc[p].pid], call)
      BY <2>2, PidTypes DEF LInv
    <3>2. helper[proc[p].pid].stack = <<>>
      BY <1>2, <2>2, <3>1 DEF Gone, Alive, Running, HelperOK
    <3> QED BY <2>2, <3>1, <3>2, BodiesAre DEF Stopping, CallsIn
  <2> QED BY <2>1, <2>2
<1>4. CASE /\ proc[p].life = "stopping"
           /\ proc' = [proc EXCEPT ![p] = [Forgotten(p) EXCEPT !.life = "up"]]
           /\ UNCHANGED call
  <2> DEFINE q == [Forgotten(p) EXCEPT !.life = "up"]
  <2>1. q.life = "up" /\ q.stack = proc[p].stack /\ q.pid = None /\ proc[p].stack = <<>>
    BY <1>1, <1>4 DEF Forgotten, ProcType, StackOK
  <2>2. proc' = [proc EXCEPT ![p] = q] BY <1>4
  <2> HIDE DEF q
  <2>3. StackOK(q, call') BY <2>1 DEF StackOK, Distinct
  <2>4. CallsIn(q.stack) \subseteq CallsIn(proc[p].stack) BY <2>1
  <2> QED BY <1>2, <1>3, <1>4, <2>1, <2>2, <2>3, <2>4, StopLinks
<1>5. CASE /\ proc[p].life = "exiting"
           /\ proc' = [proc EXCEPT ![p] = Ended(p, "gone")]
           /\ call' = CallsAfter({}, Pending(p), "lost")
  <2> DEFINE q == Ended(p, "gone")
  <2>1. q.life = "gone" /\ q.stack = <<>> /\ q.pid = None
    BY DEF Ended, NoProc
  <2>2. proc' = [proc EXCEPT ![p] = q] BY <1>5
  <2> HIDE DEF q
  <2>3. StackOK(q, call') BY <2>1 DEF StackOK, Distinct
  <2>4. CallsIn(q.stack) \subseteq CallsIn(proc[p].stack) BY <2>1 DEF CallsIn
  <2>5. Pending(p) = CallsIn(proc[p].stack) BY <1>1, PendingAre
  <2>6. \A d \in Calls :
          /\ call'[d].body = call[d].body
          /\ call'[d].state = IF d \in Pending(p) THEN "lost" ELSE call[d].state
          /\ d \notin Pending(p) => call'[d] = call[d]
    BY <1>5, CallsAfterType
  <2>7. \A d \in Calls :
          /\ call'[d].body = "running" => call[d].body = "running" /\ d \notin Stopping(p)
          /\ call'[d].state = "unused" => call[d].state = "unused"
          /\ call[d].body = "no" => call'[d].body = "no"
          /\ call'[d] # call[d] => d \in CallsIn(proc[p].stack) \/ d \in Stopping(p)
    BY <1>3, <2>5, <2>6
  <2> QED BY <1>2, <2>1, <2>2, <2>3, <2>4, <2>7, StopLinks
<1> QED BY <1>4, <1>5 DEF Quitted

\* The helper of a process that was killed runs on, until its watcher sees it.
LEMMA KilledLinks ==
  ASSUME TInv, LInv, UInv, HInv, NEW p \in Procs, Killed(p)
  PROVE  LInv' /\ UInv'
<1> DEFINE q == Ended(p, "killed")
           h == IF Running(p) THEN proc[p].pid ELSE None
<1>1. proc[p] \in ProcType /\ StackOK(proc[p], call) BY DEF TInv, LInv, ProcOK
<1>2. q.life = "killed" /\ q.stack = <<>> /\ q.pid = None BY DEF Ended, NoProc
<1>3. proc' = [proc EXCEPT ![p] = q] /\ helper' = helper BY DEF Killed
<1> HIDE DEF q
<1>4. proc'[p] = q /\ \A o \in Procs \ {p} : proc'[o] = proc[o] BY <1>3 DEF TInv
<1>5. Pending(p) = CallsIn(proc[p].stack) BY <1>1, PendingAre
<1>6. \A d \in Calls :
        /\ call'[d].body = call[d].body /\ call'[d].unit = call[d].unit
        /\ call'[d].state = IF d \in Pending(p) THEN "lost" ELSE call[d].state
        /\ d \notin Pending(p) => call'[d] = call[d]
  BY CallsAfterType DEF Killed
<1>7. h \in Calls \cup {None} /\ (h # None => helper[h].starter = p /\ helper[h] \in HelperType)
  BY PidTypes
<1>8. Alone(p, h) BY <1>3, <1>4, <1>5, <1>6, <1>7 DEF Alone
<1>9. ProcOK(p)'
  <2>1. ~Running(p)' BY <1>2, <1>4 DEF Running
  <2>2. StackOK(q, call') BY <1>2 DEF StackOK, Distinct
  <2> QED BY <1>2, <1>4, <2>1, <2>2 DEF ProcOK
<1>10. ASSUME h # None PROVE HelperOK(helper'[h], call')
  <2> DEFINE r == helper[h]
  <2>1. HelperOK(r, call) /\ helper'[h] = r /\ r \in HelperType /\ h \in Calls
    BY <1>3, <1>7, <1>10 DEF LInv
  <2>2. Held(r) \subseteq Calls BY <2>1, NoneUnused DEF Held
  <2> HIDE DEF r, h
  <2>3. \A c \in Held(r) : /\ call'[c].body = call[c].body /\ call'[c].unit = call[c].unit
                           /\ call'[c].state \in {call[c].state, "lost"}
    BY <1>6, <2>2
  <2>4. \A i \in 1..Len(r.stack) : r.stack[i].call \in Held(r) BY DEF Held, CallsIn
  <2>5. \A i \in 1..Len(r.req) : r.req[i].kind = "call" => r.req[i].call \in Held(r)
    BY DEF Held, AsksIn
  <2>6. BodiesOK(r, call') BY ONLY <2>1, <2>3, <2>4 DEF HelperOK, BodiesOK
  <2>7. RequestsOK(r, call')
    <3>1. Len(r.req) = 1 => 1 \in 1..Len(r.req) OBVIOUS
    <3>2. Len(r.req) = 2 => 2 \in 1..Len(r.req) OBVIOUS
    <3> QED BY ONLY <2>1, <2>3, <2>5, <3>1, <3>2 DEF HelperOK, RequestsOK, Callable
  <2> QED BY <2>1, <2>6, <2>7 DEF HelperOK
<1> HIDE DEF h
<1>11. LInv' BY <1>7, <1>8, <1>9, <1>10, LinksFrame
<1>12. CallsIn(proc'[p].stack) = {} BY <1>2, <1>4 DEF CallsIn
<1>13. \A c \in Calls :
         /\ call'[c].body = "running" =>
              \/ h # None /\ c \in CallsIn(helper'[h].stack)
              \/ call[c].body = "running" /\ (h # None => c \notin CallsIn(helper[h].stack))
         /\ call'[c].state = "unused" => call[c].state = "unused" /\ call'[c].body = "no"
  BY <1>3, <1>6 DEF UInv
<1>14. h # None =>
         /\ \A c \in Held(helper'[h]) :
              c \in Held(helper[h]) \/ (Running(p) /\ c \in CallsIn(proc[p].stack))
         /\ helper'[h].starter = helper[h].starter
  BY <1>3
<1>15. UInv' BY <1>7, <1>8, <1>12, <1>13, <1>14, CallsFrame
<1> QED BY <1>11, <1>15

\* A process makes a new call, of its unit or of the answer to a query.
LEMMA StackPushed ==
  ASSUME TInv, LInv, NEW p \in Procs, proc[p].stack = <<>> \/ AtPhase(proc[p], "answer"),
         NEW e \in Entries, e.call \notin CallsIn(proc[p].stack),
         NEW q, q.stack = Append(proc[p].stack, e), q.unit = proc[p].unit, q.life = "up",
         call'[e.call].state = "pending", call'[e.call].unit = proc[p].unit,
         \A d \in Calls \ {e.call} : call'[d] = call[d]
  PROVE  /\ StackOK(q, call') /\ CallsIn(q.stack) = CallsIn(proc[p].stack) \cup {e.call}
         /\ q.stack # <<>> /\ Last(q.stack) = e
<1> DEFINE s == proc[p].stack
           u == Append(s, e)
<1>1. s \in Seq(Entries) /\ StackOK(proc[p], call) BY DEF TInv, ProcType, LInv, ProcOK
<1>2. /\ Len(u) = Len(s) + 1 /\ u[Len(s) + 1] = e /\ u # <<>> /\ Last(u) = e
      /\ \A i \in 1..Len(s) : u[i] = s[i]
  BY <1>1, Appended
<1>3. CallsIn(u) = CallsIn(s) \cup {e.call} /\ Distinct(u) BY <1>1, CallsPush DEF StackOK
<1>4. Len(s) \in Nat /\ (s # <<>> => s[Len(s)].phase = "answer") BY <1>1 DEF AtPhase, Last
<1>5. \A i \in 1..Len(s) : s[i].call \in Calls \ {e.call}
  <2>1. \A i \in 1..Len(s) : s[i] \in Entries BY <1>1
  <2> QED BY <2>1 DEF CallsIn, Entries
<1> HIDE DEF u
<1>6. ASSUME NEW i \in 1..Len(u)
      PROVE  /\ call'[u[i].call].state = "pending" /\ call'[u[i].call].unit = q.unit
             /\ i < Len(u) => u[i].phase = "answer"
  <2>1. CASE i = Len(s) + 1 BY <1>2, <2>1
  <2>2. CASE i # Len(s) + 1
    <3>1. i \in 1..Len(s) /\ s # <<>> BY <1>2, <1>4, <2>2
    <3>2. s[i].phase = "answer"
      <4>1. CASE i = Len(s) BY <1>4, <3>1, <4>1
      <4>2. CASE i # Len(s)
        <5>1. i < Len(s) BY <1>4, <3>1, <4>2
        <5> QED BY <1>1, <3>1, <5>1 DEF StackOK
      <4> QED BY <4>1, <4>2
    <3> QED BY <1>1, <1>2, <1>5, <3>1, <3>2 DEF StackOK
  <2> QED BY <2>1, <2>2
<1>7. q.stack = u BY DEF u
<1> QED BY <1>2, <1>3, <1>6, <1>7 DEF StackOK

LEMMA CallLinks ==
  ASSUME TInv, LInv, UInv, HInv, NEW p \in Procs, Call(p)
  PROVE  LInv' /\ UInv'
<1> DEFINE c == FreshCall
           e == [call |-> c, phase |-> "send"]
           q0 == Pushed(proc[p], e)
<1>1. c \in Calls /\ call[c].state = "unused" BY FreshCallFresh DEF Call, MayCall
<1>2. proc[p] \in ProcType /\ StackOK(proc[p], call) BY DEF TInv, LInv, ProcOK
<1>3. /\ call' = [call EXCEPT ![c].state = "pending", ![c].unit = proc[p].unit]
      /\ \/ /\ Running(p)
            /\ proc' = [proc EXCEPT ![p] = q0]
            /\ UNCHANGED helper
         \/ /\ ~Running(p)
            /\ proc' = [proc EXCEPT ![p] = [q0 EXCEPT !.pid = c, !.reset = TRUE, !.input = <<>>,
                                                      !.ends = q0.ends \cup {c}]]
            /\ helper' = [helper EXCEPT ![c] = [NoHelper EXCEPT !.state = "forked", !.starter = p]]
  BY DEF Call
<1> HIDE DEF c
<1>4. /\ proc[p].life = "up" /\ (proc[p].stack = <<>> \/ AtPhase(proc[p], "answer"))
  BY DEF Call, MayCall, Idle, In, AtPhase, Top
<1>5. /\ call'[c].state = "pending" /\ call'[c].unit = proc[p].unit /\ call'[c].body = "no"
      /\ \A d \in Calls \ {c} : call'[d] = call[d]
      /\ \A d \in Calls : call'[d].body = call[d].body
  BY <1>1, <1>3 DEF TInv, CallType, UInv
<1>6. e \in Entries /\ e.call = c /\ e.phase = "send" BY <1>1 DEF Entries
<1>7. c \notin CallsIn(proc[p].stack) /\ \A g \in Calls : c \notin Held(helper[g])
  BY <1>1, NoneUnused
<1> HIDE DEF e
<1>8. /\ q0.life = "up" /\ q0.stack = Append(proc[p].stack, e) /\ q0.pid = proc[p].pid
      /\ q0.unit = proc[p].unit /\ q0.reset = proc[p].reset /\ q0.input = proc[p].input
  BY <1>2, <1>4 DEF Pushed, ProcType
<1>9. \A d \in Calls : call'[d].state = "unused" => call[d].state = "unused"
  BY <1>5
<1>s. ASSUME NEW q, q.stack = Append(proc[p].stack, e), q.unit = proc[p].unit, q.life = "up"
      PROVE  /\ StackOK(q, call') /\ CallsIn(q.stack) = CallsIn(proc[p].stack) \cup {c}
             /\ q.stack # <<>> /\ Last(q.stack) = e
  <2>1. \A d \in Calls \ {e.call} : call'[d] = call[d] BY <1>5, <1>6
  <2>2. call'[e.call].state = "pending" /\ call'[e.call].unit = proc[p].unit BY <1>5, <1>6
  <2>3. e.call \notin CallsIn(proc[p].stack) /\ e \in Entries BY <1>6, <1>7
  <2>4. /\ StackOK(q, call') /\ CallsIn(q.stack) = CallsIn(proc[p].stack) \cup {e.call}
        /\ q.stack # <<>> /\ Last(q.stack) = e
    BY <1>4, <1>s, <2>1, <2>2, <2>3, StackPushed
  <2> QED BY <1>6, <2>4
<1>10. CASE Running(p)
  <2> DEFINE h == proc[p].pid
             q == q0
             r == helper[h]
  <2>1. /\ Link(proc[p], r, call) /\ HelperOK(r, call) /\ h \in Calls /\ r \in HelperType
    BY <1>10, PidTypes DEF LInv, ProcOK
  <2>2. proc' = [proc EXCEPT ![p] = q] /\ UNCHANGED helper BY <1>3, <1>10
  <2>3. Resting(proc[p], r) \/ Answering(proc[p], r)
    BY <1>4, <2>1 DEF Link, Sending, Calling, Working, Asking, Answered, Replied, AtPhase
  <2> HIDE DEF q, r
  <2>4. /\ q.life = "up" /\ q.stack = Append(proc[p].stack, e) /\ q.pid = proc[p].pid
        /\ q.unit = proc[p].unit /\ q.reset = proc[p].reset /\ q.input = proc[p].input
    BY <1>8 DEF q
  <2>5. /\ StackOK(q, call') /\ CallsIn(q.stack) = CallsIn(proc[p].stack) \cup {c}
        /\ q.stack # <<>> /\ Last(q.stack) = e
    BY <2>4, <1>s
  <2>6. r.req = <<>> /\ Quiet(r) /\ Coming(q, r) = <<>>
    BY <1>4, <2>3, <2>4 DEF Resting, Answering, Quiet, Coming
  <2>7. Aligned(q.stack, r.stack, 1)
    <3>1. proc[p].stack \in Seq(Entries) /\ r.stack \in Seq(Acts)
      BY <1>2, <2>1 DEF ProcType, HelperType
    <3>2. Aligned(proc[p].stack, r.stack, 0)
      <4>1. CASE Resting(proc[p], r)
        <5>1. Aligned(proc[p].stack, <<>>, 0) BY <3>1, AlignedEmpty
        <5> QED BY <4>1, <5>1 DEF Resting
      <4>2. CASE Answering(proc[p], r) BY <4>2 DEF Answering
      <4> QED BY <2>3, <4>1, <4>2
    <3> QED BY <1>6, <2>4, <3>1, <3>2, AlignedPush
  <2>8. Sending(q, r, call')
    BY <1>5, <1>6, <2>5, <2>6, <2>7 DEF Sending, AtPhase, Mine
  <2>9. Fresh(q, r) BY <2>1, <2>4 DEF Link, Fresh
  <2>10. Link(q, r, call') BY <2>8, <2>9 DEF Link
  <2>11. HelperOK(r, call')
    <3>1. Held(r) \subseteq Calls BY <2>1, NoneUnused DEF Held, r
    <3>2. \A d \in Held(r) : call'[d] = call[d] BY <1>5, <1>7, <2>1, <3>1 DEF r
    <3> QED BY <2>1, <3>2, HelperFrame
  <2>12. /\ helper'[h] = r /\ \A g \in Calls \ {h} : helper'[g] = helper[g]
         /\ r.starter = helper[h].starter /\ r.stack = helper[h].stack
         /\ AsksIn(r.req) = AsksIn(helper[h].req)
    BY <2>2 DEF r
  <2>13. \A d \in CallsIn(q.stack) : d \in CallsIn(proc[p].stack) \/ call[d].state = "unused"
    BY <1>1, <2>5
  <2>14. \A d \in Calls :
           /\ call'[d].body = call[d].body
           /\ call'[d].state = "unused" => call[d].state = "unused"
           /\ call'[d] # call[d] => d \in CallsIn(proc[p].stack) \/ call[d].state = "unused"
    BY <1>1, <1>5, <1>9
  <2> QED BY <1>10, <2>2, <2>4, <2>5, <2>10, <2>11, <2>12, <2>13, <2>14, RunningLocal
<1>11. CASE ~Running(p)
  <2> DEFINE q == [q0 EXCEPT !.pid = c, !.reset = TRUE, !.input = <<>>, !.ends = q0.ends \cup {c}]
             r == [NoHelper EXCEPT !.state = "forked", !.starter = p]
  <2>1. proc' = [proc EXCEPT ![p] = q] /\ helper' = [helper EXCEPT ![c] = r] BY <1>3, <1>11
  <2>2. /\ q.life = "up" /\ q.stack = Append(proc[p].stack, e) /\ q.pid = c
        /\ q.unit = proc[p].unit /\ q.reset /\ q.input = <<>>
    BY <1>2, <1>8 DEF Pushed, ProcType
  <2>3. /\ r.state = "forked" /\ r.starter = p /\ r.stack = <<>> /\ r.req = <<>> /\ r.rep = <<>>
        /\ r.fresh = None
    BY DEF NoHelper
  <2> HIDE DEF q, r
  <2>4. /\ proc'[p] = q /\ \A o \in Procs \ {p} : proc'[o] = proc[o]
        /\ helper'[c] = r /\ \A g \in Calls \ {c} : helper'[g] = helper[g]
    BY <1>1, <2>1 DEF TInv
  <2>5. /\ StackOK(q, call') /\ CallsIn(q.stack) = CallsIn(proc[p].stack) \cup {c}
        /\ q.stack # <<>> /\ Last(q.stack) = e
    BY <2>2, <1>s
  <2>6. c # None BY <1>1 DEF None, Calls
  <2>7. Alone(p, c)
    <3>1. \A o \in Procs : proc[o].pid # c BY <1>1 DEF HInv
    <3>2. \A d \in Calls : call'[d] # call[d] => call[d].state = "unused" BY <1>1, <1>5
    <3> QED BY <1>11, <2>4, <3>1, <3>2 DEF Alone
  <2>8. Held(r) = {} /\ AsksIn(r.req) = {} BY <2>3 DEF Held, AsksIn, CallsIn
  <2>9. HelperOK(r, call') BY <2>3 DEF HelperOK, BodiesOK, Distinct, RequestsOK
  <2>10. Link(q, r, call')
    <3>1. Fresh(q, r) BY <2>2, <2>3, <2>8 DEF Fresh
    <3>2. Aligned(q.stack, r.stack, 1)
      <4>1. /\ q.stack \in Seq(Entries) /\ Len(q.stack) = Len(proc[p].stack) + 1
            /\ Len(proc[p].stack) \in Nat
        BY <1>2, <1>6, <2>2, Appended DEF ProcType
      <4>2. 1 <= Len(q.stack) BY <4>1
      <4>3. Aligned(q.stack, <<>>, 1) BY <4>1, <4>2, AlignedEmpty
      <4> QED BY <2>3, <4>3
    <3>3. Coming(q, r) = <<>> BY <2>2, <2>3 DEF Coming
    <3>4. Sending(q, r, call')
      BY <1>5, <1>6, <2>3, <2>5, <3>2, <3>3 DEF Sending, AtPhase, Mine, Quiet
    <3> QED BY <3>1, <3>4 DEF Link
  <2>11. ProcOK(p)'
    <3>1. Running(p)' BY <2>2, <2>3, <2>4, <2>6 DEF Running
    <3> QED BY <2>2, <2>4, <2>5, <2>10, <3>1 DEF ProcOK
  <2>12. LInv' BY <1>1, <2>4, <2>7, <2>9, <2>11, LinksFrame
  <2>13. CallsIn(helper[c].stack) = {}
    <3>1. helper[c].state = "none" /\ HelperOK(helper[c], call) BY <1>1 DEF HInv, LInv
    <3> QED BY <3>1 DEF HelperOK, CallsIn
  <2>14. \A d \in Calls :
           /\ call'[d].body = "running" =>
                call[d].body = "running" /\ (c # None => d \notin CallsIn(helper[c].stack))
           /\ call'[d].state = "unused" => call[d].state = "unused" /\ call'[d].body = "no"
    BY <1>5, <1>9, <2>13 DEF UInv
  <2>15. \A d \in CallsIn(proc'[p].stack) :
           d \in CallsIn(proc[p].stack) \/ call[d].state = "unused"
    BY <1>1, <2>4, <2>5
  <2>16. /\ \A d \in Held(helper'[c]) : d \in Held(helper[c])
         /\ Held(helper'[c]) = {} /\ CallsIn(proc'[p].stack) \cap Held(helper'[c]) = {}
    BY <2>4, <2>8
  <2>17. UInv' BY <1>1, <2>7, <2>14, <2>15, <2>16, CallsFrame
  <2> QED BY <2>12, <2>17
<1> QED BY <1>10, <1>11

LEMMA CallRefusedLinks ==
  ASSUME TInv, LInv, UInv, HInv, NEW p \in Procs, CallRefused(p)
  PROVE  LInv' /\ UInv'
<1> DEFINE c == FreshCall
           q == [proc[p] EXCEPT !.pid = None]
<1>1. c \in Calls /\ call[c].state = "unused" BY FreshCallFresh DEF CallRefused, MayCall
<1>2. proc[p] \in ProcType /\ StackOK(proc[p], call) BY DEF TInv, LInv, ProcOK
<1>3. /\ call' = [call EXCEPT ![c].state = "failed", ![c].unit = proc[p].unit]
      /\ ~Running(p) /\ UNCHANGED helper /\ proc' = [proc EXCEPT ![p] = q]
  BY DEF CallRefused, TInv
<1> HIDE DEF c
<1>4. /\ \A d \in Calls \ {c} : call'[d] = call[d]
      /\ \A d \in Calls : call'[d].body = call[d].body
      /\ call'[c].state = "failed"
  BY <1>1, <1>3 DEF TInv, CallType
<1>5. /\ q.life = proc[p].life /\ q.stack = proc[p].stack /\ q.pid = None
      /\ q.unit = proc[p].unit
  BY <1>2 DEF ProcType
<1> HIDE DEF q
<1>6. c \notin CallsIn(proc[p].stack) /\ CallsIn(proc[p].stack) \subseteq Calls
  <2>1. \A i \in 1..Len(proc[p].stack) : proc[p].stack[i] \in Entries BY <1>2 DEF ProcType
  <2> QED BY <1>1, <2>1, NoneUnused DEF CallsIn, Entries
<1>7. StackOK(q, call')
  <2>1. StackOK(proc[p], call')
    <3>1. \A d \in CallsIn(proc[p].stack) : call'[d] = call[d] BY <1>4, <1>6
    <3> QED BY <1>2, <3>1, StackFrame
  <2> QED BY <1>5, <2>1 DEF StackOK
<1>8. q.stack # <<>> => AtPhase(q, "answer")
  BY <1>3, <1>5 DEF LInv, ProcOK, AtPhase
<1>9. \A d \in Calls :
        /\ call'[d].body = call[d].body
        /\ call'[d].state = "unused" => call[d].state = "unused"
        /\ call'[d] # call[d] => d \in CallsIn(proc[p].stack) \/ call[d].state = "unused"
  BY <1>1, <1>4
<1>10. \A d \in CallsIn(q.stack) : d \in CallsIn(proc[p].stack) BY <1>5
<1> QED BY <1>3, <1>5, <1>7, <1>8, <1>9, <1>10, AloneLocal

\* A worker inherits the number of its parent's helper, and does not run it.
LEMMA ForkLinks ==
  ASSUME TInv, LInv, UInv, HInv, NEW w \in Procs, Fork(w)
  PROVE  LInv' /\ UInv'
<1> DEFINE q == proc[Main]
<1>1. Main \in Procs BY DEF Procs
<1>2. /\ proc[w].life = "unborn" /\ q.stack = <<>> /\ q.life = "up"
      /\ proc' = [proc EXCEPT ![w] = q] /\ UNCHANGED <<helper, call>>
  BY DEF Fork, Idle
<1>3. q.pid \in Calls \cup {None} BY <1>1 DEF TInv, ProcType
<1> HIDE DEF q
<1>4. ~Running(w)
  <2>1. proc[w].pid = None BY <1>2 DEF HInv, Lives
  <2> QED BY <2>1 DEF Running
<1>5. q.pid # None => helper[q.pid].starter # w BY <1>2, <1>3 DEF HInv, Hand
<1>6. StackOK(q, call) /\ CallsIn(q.stack) = {} BY <1>2 DEF StackOK, Distinct, CallsIn
<1> QED BY <1>2, <1>4, <1>5, <1>6, AloneLocal

LEMMA CompilerLinks ==
  ASSUME TInv, LInv, UInv, HInv, NEW p \in Procs, Compiler(p)
  PROVE  LInv' /\ UInv'
<1>1. CASE BeginUnit(p) BY <1>1, BeginUnitLinks
<1>2. CASE Call(p) BY <1>2, CallLinks
<1>3. CASE CallRefused(p) BY <1>3, CallRefusedLinks
<1>4. CASE Send(p) BY <1>4, SendLinks
<1>5. CASE Read(p) BY <1>5, ReadLinks
<1>6. CASE TakeNotice(p) BY <1>6, NoticeLinks
<1>7. CASE TakeResult(p) BY <1>7, TakeResultLinks
<1>8. CASE TakeQuery(p) BY <1>8, TakeQueryLinks
<1>9. CASE Answer(p) BY <1>9, AnswerLinks
<1>10. CASE AnswerFails(p) BY <1>10, GiveUpLinks DEF AnswerFails, In
<1>11. CASE Stopped(p) BY <1>11, GiveUpLinks DEF Stopped, In
<1>12. CASE Quitted(p) BY <1>12, QuittedLinks
<1>13. CASE Overdue(p) BY <1>13, GiveUpLinks DEF Overdue, In
<1>14. CASE \E life \in {"stopping", "exiting"} : Quit(p, life) BY <1>14, QuitLinks
<1>15. CASE Fork(p) BY <1>15, ForkLinks
<1>16. CASE Killed(p) BY <1>16, KilledLinks
<1> QED
  BY <1>1, <1>2, <1>3, <1>4, <1>5, <1>6, <1>7, <1>8, <1>9, <1>10, <1>11, <1>12, <1>13, <1>14,
     <1>15, <1>16 DEF Compiler, Wait

-----------------------------------------------------------------------------
(* The invariant, and the statics *)

LEMMA InitLinks == Init => LInv /\ UInv
<1> SUFFICES ASSUME Init PROVE LInv /\ UInv OBVIOUS
<1>1. \A p \in Procs : proc[p].stack = <<>> /\ proc[p].pid = None BY DEF Init, NoProc
<1>2. \A h \in Calls : /\ helper[h].state = "none" /\ helper[h].stack = <<>>
                       /\ helper[h].req = <<>>
  BY DEF Init, NoHelper
<1>3. \A c \in Calls : call[c].body = "no" BY DEF Init, NoCall
<1>4. \A p \in Procs : CallsIn(proc[p].stack) = {} BY <1>1 DEF CallsIn
<1>5. \A h \in Calls : Held(helper[h]) = {} BY <1>2 DEF Held, CallsIn, AsksIn
<1>6. \A p \in Procs : ProcOK(p) BY <1>1 DEF ProcOK, StackOK, Running, Distinct
<1>7. \A h \in Calls : HelperOK(helper[h], call)
  BY <1>2 DEF HelperOK, BodiesOK, RequestsOK, Distinct
<1> QED BY <1>3, <1>4, <1>5, <1>6, <1>7 DEF LInv, UInv

LEMMA LinksStep == TInv /\ LInv /\ UInv /\ HInv /\ [Next]_vars => LInv' /\ UInv'
<1> SUFFICES ASSUME TInv, LInv, UInv, HInv, [Next]_vars PROVE LInv' /\ UInv' OBVIOUS
<1>1. CASE Next BY <1>1, CompilerLinks, HelperLinks DEF Next
<1>2. CASE UNCHANGED vars
  BY <1>2 DEF vars, LInv, UInv, ProcOK, Running
<1> QED BY <1>1, <1>2

Inv == TInv /\ HInv /\ LInv /\ UInv

LEMMA Invariant == Spec => []Inv
<1>1. Init => Inv BY InitTypes, InitHand, InitLinks DEF Inv
<1>2. Inv /\ [Next]_vars => Inv' BY TypesStep, HandStep, LinksStep DEF Inv
<1> QED BY <1>1, <1>2, PTL DEF Spec

(* The `meta static' values a body sees were initialized for the unit of   *)
(* the call that runs it, whatever resets, crashes, new helpers and forked *)
(* workers came between (docs/src/guide/meta-functions.md:739).            *)
THEOREM OwnStaticsHold == Spec => []OwnStatics
<1>1. Inv => OwnStatics
  <2> SUFFICES ASSUME Inv, NEW h \in Calls, NEW c \in Bodies(h)
               PROVE  helper[h].fresh = call[c].unit
    BY DEF OwnStatics
  <2>1. c \in CallsIn(helper[h].stack) /\ HelperOK(helper[h], call)
    BY BodiesAre DEF Inv, LInv
  <2> QED BY <2>1 DEF HelperOK, BodiesOK, CallsIn
<1> QED BY Invariant, <1>1, PTL


-----------------------------------------------------------------------------
(* A call is a remote call: every step is one of RemoteCall's or stutters. *)

RecordSeen(k) == [state |-> k.state, got |-> k.got, body |-> k.body]

LEMMA SeenNow ==
  \A c \in Calls : /\ Seen[c] = RecordSeen(call[c]) /\ Seen[c].state = call[c].state
                    /\ Seen[c].got = call[c].got /\ Seen[c].body = call[c].body
BY DEF Seen, RecordSeen

LEMMA SeenExcept ==
  ASSUME NEW c \in Calls
  PROVE  /\ \A b : [Seen[c] EXCEPT !.body = b] = [state |-> call[c].state, got |-> call[c].got, body |-> b]
         /\ \A s : [Seen[c] EXCEPT !.state = s] = [state |-> s, got |-> call[c].got, body |-> call[c].body]
<1> DEFINE r == Seen[c]
<1>1. r = [state |-> call[c].state, got |-> call[c].got, body |-> call[c].body]
  BY DEF Seen
<1> HIDE DEF r
<1>2. ASSUME NEW b
      PROVE  [r EXCEPT !.body = b] = [state |-> call[c].state, got |-> call[c].got, body |-> b]
  BY <1>1
<1>3. ASSUME NEW s
      PROVE  [r EXCEPT !.state = s] = [state |-> s, got |-> call[c].got, body |-> call[c].body]
  BY <1>1
<1> QED BY <1>2, <1>3 DEF r

LEMMA SeenHalted ==
  ASSUME NEW c \in Calls, NEW H
  PROVE  (IF c \in H /\ Seen[c].body = "running" THEN [Seen[c] EXCEPT !.body = "stopped"] ELSE Seen[c])
           = [state |-> call[c].state, got |-> call[c].got,
              body |-> IF c \in H /\ call[c].body = "running" THEN "stopped" ELSE call[c].body]
<1>1. CASE c \in H /\ call[c].body = "running"
  <2>1. [Seen[c] EXCEPT !.body = "stopped"] =
          [state |-> call[c].state, got |-> call[c].got, body |-> "stopped"]
    BY SeenExcept
  <2> QED BY <1>1, <2>1, SeenNow
<1>2. CASE ~(c \in H /\ call[c].body = "running")
  BY <1>2, SeenNow DEF RecordSeen
<1> QED BY <1>1, <1>2

\* Some bodies end, and with them no call.
LEMMA HaltStep ==
  ASSUME TInv, NEW H \in SUBSET Calls, call' = CallsAfter(H, {}, "lost")
  PROVE  Remote!Next
<1>1. Remote!Halt(H)
  <2>1. \A c \in Calls :
          /\ c \notin H => call'[c] = call[c]
          /\ call'[c].got = call[c].got /\ call'[c].state = call[c].state
          /\ call'[c].body = IF c \in H /\ call[c].body = "running" THEN "stopped" ELSE call[c].body
    BY CallsAfterType
  <2>2. \A c \in Calls : RecordSeen(call'[c]) =
          IF c \in H /\ Seen[c].body = "running" THEN [Seen[c] EXCEPT !.body = "stopped"] ELSE Seen[c]
    BY <2>1, SeenHalted DEF RecordSeen
  <2>3. Seen' = [c \in Calls |-> RecordSeen(call'[c])] BY DEF Seen, RecordSeen
  <2> QED BY <2>2, <2>3 DEF Remote!Halt, Remote!Halted
<1> QED BY <1>1 DEF Remote!Next

\* The calls of a process that ended are lost, and their bodies go on.
LEMMA LoseStep ==
  ASSUME TInv, LInv, NEW p \in Procs, call' = CallsAfter({}, Pending(p), "lost")
  PROVE  Remote!Next
<1>1. Pending(p) = CallsIn(proc[p].stack) BY PendingAre
<1>2. Pending(p) \in SUBSET Calls
  <2>1. \A i \in 1..Len(proc[p].stack) : proc[p].stack[i] \in Entries BY DEF TInv, ProcType
  <2> QED BY <1>1, <2>1 DEF CallsIn, Entries
<1>3. \A c \in Pending(p) : call[c].state = "pending"
  BY <1>1 DEF LInv, ProcOK, StackOK, CallsIn
<1>4. \A c \in Calls :
        /\ call'[c].got = call[c].got /\ call'[c].body = call[c].body
        /\ call'[c].state = IF c \in Pending(p) THEN "lost" ELSE call[c].state
  BY CallsAfterType
<1>5. Remote!Lose(Pending(p))
  <2>1. \A c \in Calls : RecordSeen(call'[c]) =
          IF c \in Pending(p) THEN [Seen[c] EXCEPT !.state = "lost"] ELSE Seen[c]
    BY <1>4, SeenNow, SeenExcept DEF RecordSeen
  <2>2. Seen' = [c \in Calls |-> RecordSeen(call'[c])] BY DEF Seen, RecordSeen
  <2>3. \A c \in Pending(p) : Seen[c].state = "pending" BY <1>2, <1>3, SeenNow DEF RecordSeen
  <2> QED BY <2>1, <2>2, <2>3 DEF Remote!Lose
<1> QED BY <1>2, <1>5 DEF Remote!Next

\* A call that fails leaves no body running: the helper that may run it was stopped.
LEMMA GiveUpStep ==
  ASSUME TInv, LInv, UInv, NEW p \in Procs, GiveUp(p), proc[p].stack # <<>>
  PROVE  Remote!Next
<1> DEFINE c == Top(p).call
           H == Stopping(p)
<1>1. c \in Calls /\ c \in CallsIn(proc[p].stack)
  <2>1. proc[p].stack \in Seq(Entries) BY DEF TInv, ProcType
  <2> QED BY <2>1, EntryTypes, MineIn DEF Top
<1>2. call[c].state = "pending" BY <1>1, NoneUnused
<1>3. H \in SUBSET Calls
  <2>1. CASE ~Running(p) BY <2>1 DEF Stopping
  <2>2. CASE Running(p)
    <3>1. proc[p].pid \in Calls BY <2>2, PidTypes
    <3> QED BY <2>2, <3>1, BodiesAre, NoneUnused DEF Stopping
  <2> QED BY <2>1, <2>2
<1>4. call[c].body = "running" => c \in H
  <2> SUFFICES ASSUME call[c].body = "running" PROVE c \in H OBVIOUS
  <2> HIDE DEF c
  <2>1. PICK h \in Calls : c \in CallsIn(helper[h].stack) BY <1>1 DEF UInv
  <2>2. proc[p].pid = h /\ helper[h].starter = p BY <1>1, <2>1 DEF UInv, Held
  <2>3. Running(p)
    <3>1. h # None BY DEF None, Calls
    <3> QED BY <2>2, <3>1 DEF Running
  <2> QED BY <2>1, <2>2, <2>3, BodiesAre DEF Stopping
<1> HIDE DEF c, H
<1>5. call' = CallsAfter(H, {c}, "failed") BY DEF GiveUp, c, H
<1>6. \A d \in Calls :
        /\ call'[d].got = call[d].got
        /\ call'[d].state = IF d = c THEN "failed" ELSE call[d].state
        /\ call'[d].body = IF d \in H /\ call[d].body = "running" THEN "stopped" ELSE call[d].body
  BY <1>5, CallsAfterType
<1>7. Remote!Fail(c, H)
  <2> DEFINE G == [d \in Calls |-> IF d \in H \cup {c} /\ Seen[d].body = "running"
                                   THEN [Seen[d] EXCEPT !.body = "stopped"] ELSE Seen[d]]
             F == [G EXCEPT ![c].state = "failed"]
  <2>0. \A d \in Calls : G[d] =
          [state |-> call[d].state, got |-> call[d].got,
           body |-> IF d \in H \cup {c} /\ call[d].body = "running" THEN "stopped" ELSE call[d].body]
    BY SeenHalted
  <2>1. \A d \in Calls \ {c} : F[d] = RecordSeen(call'[d])
    <3>1. \A d \in Calls \ {c} : F[d] = G[d] OBVIOUS
    <3> HIDE DEF F, G
    <3> QED BY <1>6, <2>0, <3>1 DEF RecordSeen
  <2>2. F[c] = RecordSeen(call'[c])
    <3>1. c \in DOMAIN G BY <1>1
    <3>2. G[c] = [state |-> call[c].state, got |-> call[c].got, body |-> call'[c].body]
      <4> HIDE DEF G
      <4> QED BY <1>1, <1>4, <1>6, <2>0
    <3> HIDE DEF G
    <3>3. F[c] = [G[c] EXCEPT !.state = "failed"] BY <3>1
    <3>4. F[c] = [state |-> "failed", got |-> call[c].got, body |-> call'[c].body]
      BY <3>2, <3>3
    <3> QED BY <1>1, <1>6, <3>4 DEF RecordSeen
  <2>3. Seen' = [d \in Calls |-> RecordSeen(call'[d])] BY DEF Seen, RecordSeen
  <2>4. F = [d \in Calls |-> F[d]] OBVIOUS
  <2>5. Seen' = F
    <3> HIDE DEF F
    <3> QED BY <2>1, <2>2, <2>3, <2>4
  <2>6. Seen[c].state = "pending" BY <1>1, <1>2, SeenNow DEF RecordSeen
  <2> QED BY <2>5, <2>6 DEF Remote!Fail, Remote!Halted
<1> QED BY <1>1, <1>3, <1>7 DEF Remote!Next

\* One call changes.
LEMMA OneSeen ==
  ASSUME NEW c \in Calls, \A d \in Calls \ {c} : call'[d] = call[d],
         NEW s, NEW g, NEW b, call'[c].state = s, call'[c].got = g, call'[c].body = b
  PROVE  Seen' = [Seen EXCEPT ![c] = [state |-> s, got |-> g, body |-> b]]
<1> DEFINE F == [Seen EXCEPT ![c] = [state |-> s, got |-> g, body |-> b]]
<1>1. \A d \in Calls : F[d] = RecordSeen(call'[d]) BY SeenNow DEF RecordSeen, Seen
<1>2. F = [d \in Calls |-> F[d]] BY DEF Seen
<1>3. Seen' = [d \in Calls |-> RecordSeen(call'[d])] BY DEF Seen, RecordSeen
<1> HIDE DEF F
<1>4. Seen' = F BY <1>1, <1>2, <1>3
<1> QED BY <1>4 DEF F

LEMMA ReturnStep ==
  ASSUME TInv, LInv, NEW p \in Procs, TakeResult(p)
  PROVE  Remote!Next
<1> DEFINE h == proc[p].pid
           C == Coming(proc[p], helper[h])
           c == Top(p).call
<1>0. Ready(p, {"notice", "value", "error", "query"}) /\ Reply(p).kind \in {"value", "error"}
  BY DEF TakeResult, Ready
<1>1. /\ AtPhase(proc[p], "wait") /\ Top(p) \in Entries /\ Top(p) = Last(proc[p].stack)
      /\ Replied(proc[p], helper[h], call) /\ Len(C) = 1 /\ C[1] = Reply(p)
  BY <1>0, ReplyIs
<1>2. c \in Calls /\ c = Mine(proc[p]) BY <1>1 DEF Entries, Mine
<1>3. call[c].body = "done" /\ (Reply(p).kind = "value" => Reply(p).val = c)
  <2>1. Last(C) = Reply(p) BY <1>1 DEF Last
  <2> QED BY <1>1, <1>2, <2>1 DEF Replied
<1>4. call[c].state = "pending"
  <2>1. proc[p].stack \in Seq(Entries) /\ proc[p].stack # <<>>
    BY <1>1 DEF TInv, ProcType, AtPhase
  <2>2. c \in CallsIn(proc[p].stack) BY <2>1, <1>1, MineIn
  <2> QED BY <2>2 DEF LInv, ProcOK, StackOK, CallsIn
<1>5. Seen[c] = [state |-> "pending", got |-> call[c].got, body |-> "done"]
  BY <1>2, <1>3, <1>4, SeenNow DEF RecordSeen
<1> HIDE DEF c
<1>6. CASE Reply(p).kind = "value"
  <2>1. call' = [call EXCEPT ![c].state = "returned", ![c].got = c]
    BY <1>3, <1>6 DEF TakeResult, c
  <2>2. /\ \A d \in Calls \ {c} : call'[d] = call[d]
        /\ call'[c].state = "returned" /\ call'[c].got = c /\ call'[c].body = "done"
    BY <1>2, <1>3, <2>1 DEF TInv, CallType
  <2>3. Seen' = [Seen EXCEPT ![c] = [state |-> "returned", got |-> c, body |-> "done"]]
    BY <1>2, <2>2, OneSeen
  <2>4. Remote!Return(c) BY <1>2, <1>5, <2>3 DEF Remote!Return, Seen
  <2> QED BY <1>2, <2>4 DEF Remote!Next
<1>7. CASE Reply(p).kind = "error"
  <2>1. call' = [call EXCEPT ![c].state = "failed"]
    BY <1>7 DEF TakeResult, c
  <2>2. /\ \A d \in Calls \ {c} : call'[d] = call[d]
        /\ call'[c].state = "failed" /\ call'[c].got = call[c].got /\ call'[c].body = "done"
    BY <1>2, <1>3, <2>1 DEF TInv, CallType
  <2>3. Seen' = [Seen EXCEPT ![c] = [state |-> "failed", got |-> call[c].got, body |-> "done"]]
    BY <1>2, <2>2, OneSeen
  <2>4. Remote!Fail(c, {})
    <3> DEFINE G == [d \in Calls |-> IF d \in {} \cup {c} /\ Seen[d].body = "running"
                                     THEN [Seen[d] EXCEPT !.body = "stopped"] ELSE Seen[d]]
    <3>1. G = Seen BY <1>5 DEF Seen
    <3>2. Seen' = [G EXCEPT ![c].state = "failed"]
      <4> HIDE DEF G
      <4>1. [Seen EXCEPT ![c].state = "failed"] =
              [Seen EXCEPT ![c] = [state |-> "failed", got |-> call[c].got, body |-> "done"]]
        <5>1. [Seen[c] EXCEPT !.state = "failed"] =
                [state |-> "failed", got |-> call[c].got, body |-> "done"]
          BY <1>2, <1>3, SeenExcept
        <5> QED BY <5>1
      <4> QED BY <2>3, <3>1, <4>1
    <3> QED BY <1>5, <3>2 DEF Remote!Fail, Remote!Halted
  <2> QED BY <1>2, <2>4 DEF Remote!Next
<1> QED BY <1>0, <1>6, <1>7

LEMMA RemoteStep == Inv /\ [Next]_vars => [Remote!Next]_Seen
<1> SUFFICES ASSUME Inv, Next PROVE Remote!Next \/ UNCHANGED Seen
  <2>1. UNCHANGED vars => UNCHANGED Seen BY DEF vars, Seen
  <2> QED BY <2>1
<1> USE DEF Inv
<1>0. UNCHANGED call => UNCHANGED Seen BY DEF Seen
<1>1. ASSUME NEW p \in Procs, Compiler(p) PROVE Remote!Next \/ UNCHANGED Seen
  <2>1. CASE BeginUnit(p) BY <2>1, <1>0 DEF BeginUnit
  <2>2. ASSUME NEW how \in {"pending", "failed"}, MayCall(p),
               call' = [call EXCEPT ![FreshCall].state = how, ![FreshCall].unit = proc[p].unit]
        PROVE  Remote!Next
    <3> DEFINE c == FreshCall
    <3>1. c \in Calls /\ call[c].state = "unused" BY <2>2, FreshCallFresh DEF MayCall
    <3> HIDE DEF c
    <3>2. call' = [call EXCEPT ![c].state = how, ![c].unit = proc[p].unit] BY <2>2 DEF c
    <3>3. /\ \A d \in Calls \ {c} : call'[d] = call[d]
          /\ call'[c].state = how /\ call'[c].got = call[c].got /\ call'[c].body = call[c].body
      BY <3>1, <3>2 DEF TInv, CallType
    <3>4. Seen' = [Seen EXCEPT ![c] = [state |-> how, got |-> call[c].got, body |-> call[c].body]]
      BY <3>1, <3>3, OneSeen
    <3>5. Seen[c] = [state |-> "unused", got |-> call[c].got, body |-> call[c].body]
      BY <3>1, SeenNow DEF RecordSeen
    <3>6. Remote!Begin(c) \/ Remote!Refuse(c)
      BY <2>2, <3>1, <3>4, <3>5 DEF Remote!Begin, Remote!Refuse, Seen
    <3> QED BY <3>1, <3>6 DEF Remote!Next
  <2>3. CASE Call(p) BY <2>2, <2>3 DEF Call
  <2>4. CASE CallRefused(p) BY <2>2, <2>4 DEF CallRefused
  <2>5. CASE Send(p) BY <2>5, <1>0 DEF Send
  <2>6. CASE Read(p) BY <2>6, <1>0 DEF Read
  <2>7. CASE TakeNotice(p) BY <2>7, <1>0 DEF TakeNotice
  <2>8. CASE TakeResult(p) BY <2>8, ReturnStep
  <2>9. CASE TakeQuery(p) BY <2>9, <1>0 DEF TakeQuery
  <2>10. CASE Answer(p) BY <2>10, <1>0 DEF Answer
  <2>11. CASE AnswerFails(p) BY <2>11, GiveUpStep DEF AnswerFails, In
  <2>12. CASE Stopped(p) BY <2>12, GiveUpStep DEF Stopped, In
  <2>13. CASE Quitted(p) BY <2>13, <1>0, LoseStep DEF Quitted
  <2>14. CASE Overdue(p) BY <2>14, GiveUpStep DEF Overdue, In
  <2>15. CASE \E life \in {"stopping", "exiting"} : Quit(p, life) BY <2>15, <1>0 DEF Quit
  <2>16. CASE Fork(p) BY <2>16, <1>0 DEF Fork
  <2>17. CASE Killed(p) BY <2>17, LoseStep DEF Killed
  <2> QED
    BY <1>1, <2>1, <2>3, <2>4, <2>5, <2>6, <2>7, <2>8, <2>9, <2>10, <2>11, <2>12, <2>13, <2>14,
       <2>15, <2>16, <2>17 DEF Compiler, Wait
<1>2. ASSUME NEW h \in Calls, Helper(h) PROVE Remote!Next \/ UNCHANGED Seen
  <2>0. /\ HelperOK(helper[h], call) /\ helper[h] \in HelperType
        /\ Bodies(h) \in SUBSET Calls
    BY BodiesAre, NoneUnused DEF LInv, TInv
  <2>1. ASSUME Exits(h) PROVE Remote!Next BY <2>0, <2>1, HaltStep DEF Exits
  <2>2. CASE Boot(h) BY <2>2, <1>0 DEF Boot
  <2>3. CASE ExecFails(h) BY <2>1, <2>3 DEF ExecFails
  <2>4. CASE ServeReset(h) BY <2>4, <1>0 DEF ServeReset
  <2>5. CASE ServeCall(h)
    <3> DEFINE c == Request(h).call
    <3>1. helper[h].req # <<>> /\ Request(h).kind = "call" BY <2>5 DEF ServeCall, Asked
    <3>2. c \in Calls BY <3>1, RequestTypes
    <3>3. call[c].state \in {"pending", "lost"} /\ call[c].body = "no"
      BY <3>1, FirstRequest DEF Callable
    <3>4. call' = [call EXCEPT ![c].body = "running"] BY <2>5 DEF ServeCall
    <3> HIDE DEF c
    <3>5. /\ \A d \in Calls \ {c} : call'[d] = call[d]
          /\ call'[c].state = call[c].state /\ call'[c].got = call[c].got
          /\ call'[c].body = "running"
      BY <3>2, <3>4 DEF TInv, CallType
    <3>6. Seen' = [Seen EXCEPT ![c] = [state |-> call[c].state, got |-> call[c].got,
                                       body |-> "running"]]
      BY <3>2, <3>5, OneSeen
    <3>7. Seen[c] = [state |-> call[c].state, got |-> call[c].got, body |-> "no"]
      BY <3>2, <3>3, SeenNow DEF RecordSeen
    <3>8. Remote!Start(c) BY <3>2, <3>3, <3>6, <3>7 DEF Remote!Start, Seen
    <3> QED BY <3>2, <3>8 DEF Remote!Next
  <2>6. CASE ServeAnswer(h) BY <2>1, <2>6, <1>0 DEF ServeAnswer
  <2>7. CASE ServeQuit(h) BY <2>1, <2>7 DEF ServeQuit
  <2>8. CASE Hangup(h) BY <2>1, <2>8 DEF Hangup
  <2>9. CASE Watch(h) BY <2>0, <2>9, HaltStep DEF Watch
  <2>10. CASE BodyReturns(h)
    <3> DEFINE c == Active(h).call
    <3>1. c \in Calls /\ call[c].body = "running"
      <4>1. helper[h].stack # <<>> BY <2>10 DEF BodyReturns, Body
      <4>2. helper[h].stack \in Seq(Acts) BY <2>0 DEF HelperType
      <4>3. c \in CallsIn(helper[h].stack) BY <4>1, <4>2, MineIn DEF Active
      <4>4. \A d \in CallsIn(helper[h].stack) : call[d].body = "running"
        BY <2>0 DEF HelperOK, BodiesOK, CallsIn
      <4> QED BY <2>0, <4>3, <4>4, BodiesAre
    <3>2. Exits(h) \/ call' = [call EXCEPT ![c].body = "done"] BY <2>10 DEF BodyReturns
    <3> HIDE DEF c
    <3>3. CASE call' = [call EXCEPT ![c].body = "done"]
      <4>1. /\ \A d \in Calls \ {c} : call'[d] = call[d]
            /\ call'[c].state = call[c].state /\ call'[c].got = call[c].got
            /\ call'[c].body = "done"
        BY <3>1, <3>3 DEF TInv, CallType
      <4>2. Seen' = [Seen EXCEPT ![c] = [state |-> call[c].state, got |-> call[c].got,
                                         body |-> "done"]]
        BY <3>1, <4>1, OneSeen
      <4>3. Seen[c] = [state |-> call[c].state, got |-> call[c].got, body |-> "running"]
        BY <3>1, SeenNow DEF RecordSeen
      <4>4. Remote!Complete(c) BY <3>1, <4>2, <4>3 DEF Remote!Complete, Seen
      <4> QED BY <3>1, <4>4 DEF Remote!Next
    <3> QED BY <2>1, <3>2, <3>3
  <2>11. CASE BodyAsks(h) BY <2>1, <2>11, <1>0 DEF BodyAsks
  <2>12. CASE BodyCrashes(h) BY <2>1, <2>12 DEF BodyCrashes
  <2>13. CASE BodyLeaves(h) BY <2>13, <1>0 DEF BodyLeaves
  <2> QED
    BY <1>2, <2>2, <2>3, <2>4, <2>5, <2>6, <2>7, <2>8, <2>9, <2>10, <2>11, <2>12, <2>13
       DEF Helper, Serve
<1> QED BY <1>1, <1>2 DEF Next

(* The whole protocol, with its queries, restarts, deadlines and deaths,   *)
(* is a remote call: a body runs at most once, a call returns its own      *)
(* body's value or fails and leaves no body running, and only a process    *)
(* that ended loses its calls (src/src/meta-helper-client.x:89-97).        *)
THEOREM CallsAreRemote == Spec => ImplementsRemoteCall
<1>1. Init => Remote!Init
  <2> SUFFICES ASSUME Init PROVE Seen = [c \in Calls |-> Remote!Unused] BY DEF Remote!Init
  <2> QED BY DEF Init, NoCall, Seen, Remote!Unused, None
<1>2. Inv /\ [Next]_vars => [Remote!Next]_Seen BY RemoteStep
<1> QED BY <1>1, <1>2, Invariant, PTL DEF Spec, ImplementsRemoteCall, Remote!Spec

=============================================================================
