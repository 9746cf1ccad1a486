------------------------ MODULE ErrorTransfer_proofs ------------------------
(***************************************************************************)
(* Proofs about error transfer for programs of any size: any number of     *)
(* open regions, records and nested raises, as long as a callback opens    *)
(* only deferred bodies and a cleanup opens no observer (OnlyDefers).      *)
(*                                                                         *)
(* The invariant speaks of positions of the C stack.  The frames, the      *)
(* cleanup records, the running arms and the handler chain are ascending   *)
(* sequences of positions, so each is determined by the set of positions   *)
(* it names, and a step that pushes, pops or cuts one is a step on sets.   *)
(* The parts of the invariant are operators of the state they relate, and  *)
(* most of the lemmas say how a part goes from one stack s to another one, *)
(* t, that differs from it at the top.                                     *)
(***************************************************************************)
EXTENDS ErrorTransfer, FiniteSetTheorems, WellFoundedInduction, TLAPS

(* The activations of each kind, as the actions leave them. *)
EntryType == [at : Nat, kind : {"catch", "watch"}, mark : 0..ERROR_BOUND]
Chain == Seq(EntryType)
Path == Seq(Nat)

MainType == [kind : {"main"}, phase : {"body"}]
TryType == [kind : {"try"}, phase : {"body", "landed", "arm", "exits", "finally", "leave"},
            handle : Chain, fin : BOOLEAN, state : {"active", "unwind", "handled"}, target : Nat,
            claimed : BOOLEAN, runs : {0, 1}, prev : Path, watermark : Path, head : Chain,
            depth : 0..ERROR_MAX_DEPTH, height : 0..ERROR_BOUND]
DeferType == [kind : {"defer"}, phase : {"body"}, runs : {0, 1}]
WatchType == [kind : {"watch"}, phase : {"body"}, runs : {0, 1}, handle : Chain]
DispatchType == {b \in [kind : {"dispatch"}, phase : {"offer", "handled"}, code : {"hard", "soft"},
                        raisedAt : 0..ERROR_BOUND, chain : Chain, outer : Chain,
                        outerRunning : Chain, offer : Chain] : b.phase = "handled" => b.offer # <<>>}
CallbackType == [kind : {"callback"}, phase : {"body"}, runs : {0, 1}]
TransferType == [kind : {"unwind"}, phase : {"transfer"}, target : Nat]
DrainType == [kind : {"unwind"}, phase : {"drain"}, frame : Nat, height : 0..ERROR_BOUND]
BodyType == [kind : {"thunk"}, phase : {"body"}, drain : {FALSE}]
DrainedType == [kind : {"thunk"}, phase : {"body"}, drain : {TRUE}, depth : Nat,
                height : 0..ERROR_BOUND]

Activation == MainType \cup TryType \cup DeferType \cup WatchType \cup DispatchType
                \cup CallbackType \cup TransferType \cup DrainType \cup BodyType \cup DrainedType

LEMMA KindOf ==
  ASSUME NEW a \in Activation
  PROVE  /\ a.kind = "try" <=> a \in TryType
         /\ a.kind = "defer" <=> a \in DeferType
         /\ a.kind = "watch" <=> a \in WatchType
         /\ a.kind = "dispatch" <=> a \in DispatchType
         /\ a.kind = "callback" <=> a \in CallbackType
         /\ a.phase = "transfer" <=> a \in TransferType
         /\ a.phase = "drain" <=> a \in DrainType
         /\ a.kind = "main" <=> a \in MainType
         /\ a.kind = "unwind" <=> (a.phase = "transfer" \/ a.phase = "drain")
         /\ a.kind = "thunk" /\ ~ a.drain => a \in BodyType
         /\ a.kind = "thunk" /\ a.drain => a \in DrainedType
<1>1. a \in MainType => a.kind = "main" /\ a.phase = "body" BY DEF MainType
<1>2. a \in TryType => a.kind = "try" /\ a.phase \notin {"transfer", "drain"} BY DEF TryType
<1>3. a \in DeferType => a.kind = "defer" /\ a.phase = "body" BY DEF DeferType
<1>4. a \in WatchType => a.kind = "watch" /\ a.phase = "body" BY DEF WatchType
<1>5. a \in DispatchType => a.kind = "dispatch" /\ a.phase \notin {"transfer", "drain"} BY DEF DispatchType
<1>6. a \in CallbackType => a.kind = "callback" /\ a.phase = "body" BY DEF CallbackType
<1>7. a \in TransferType => a.kind = "unwind" /\ a.phase = "transfer" BY DEF TransferType
<1>8. a \in DrainType => a.kind = "unwind" /\ a.phase = "drain" BY DEF DrainType
<1>9. a \in BodyType => a.kind = "thunk" /\ a.phase = "body" /\ a.drain = FALSE BY DEF BodyType
<1>10. a \in DrainedType => a.kind = "thunk" /\ a.phase = "body" /\ a.drain = TRUE BY DEF DrainedType
<1> QED BY <1>1, <1>2, <1>3, <1>4, <1>5, <1>6, <1>7, <1>8, <1>9, <1>10 DEF Activation

-----------------------------------------------------------------------------
(* The vocabulary of the invariant *)

(* One path or chain is a prefix of another; a chain's positions rise; and *)
(* the first n entries of a path or a chain are those below position p.    *)
Pre(a, b) == Len(a) <= Len(b) /\ \A i \in 1..Len(a) : a[i] = b[i]
Rising(q) == \A i, j \in 1..Len(q) : i < j => q[i].at < q[j].at
Cut(q, n, p) == n \in 0..Len(q) /\ \A i \in 1..Len(q) : q[i] < p <=> i <= n
CutAt(q, n, p) == n \in 0..Len(q) /\ \A i \in 1..Len(q) : q[i].at < p <=> i <= n

(* Position p belongs to what a drain above it is abandoning: the C stack  *)
(* still holds it, and no transfer will return to it.                      *)
Dead(s, p) == \E q \in p + 1 .. Len(s) : s[q].phase = "drain" /\ s[q].frame < p

(* Which activation may stand on which.  An observer is pushed by program  *)
(* code outside every callback, finalizer and deferred body.               *)
Sits(s, p) ==
  /\ s[p].kind = "main" <=> p = 1
  /\ p > 1 =>
       /\ s[p - 1].phase \in {"body", "arm", "finally", "offer", "drain"}
       /\ s[p - 1].kind = "dispatch" => s[p].kind \in {"callback", "unwind"}
       /\ s[p - 1].kind = "unwind" => s[p].kind = "thunk"
       /\ s[p].kind = "callback" => s[p - 1].kind = "dispatch"
       /\ s[p].kind = "thunk" => s[p - 1].kind = IF s[p].drain THEN "unwind" ELSE "defer"
  /\ s[p].phase = "drain" => LET f == s[p].frame IN
       f \in 1 .. p - 1 /\ s[f].kind = "try" /\ s[f].phase \in {"body", "arm"}
  /\ s[p].kind = "watch" => \A o \in 1 .. p - 1 :
       s[o].kind \in {"main", "try", "defer", "watch"} /\ s[o].phase # "finally"
Shape(s) == Len(s) \in Nat \ {0} /\ \A p \in 1..Len(s) : Sits(s, p)

(* The claim of a finalizer, and the phases an arm goes through. *)
TryOK(a, inArm) ==
  /\ a.claimed => a.fin /\ a.runs = 1 /\ a.handle = <<>> /\ a.phase \in {"finally", "leave"}
  /\ ~ a.claimed /\ a.phase # "leave" => a.runs = 0 /\ a.phase # "finally"
  /\ ~ a.claimed /\ a.phase = "leave" => ~ a.fin /\ a.handle = <<>>
  /\ a.phase = "arm" => inArm
Tries(s, A) == \A p \in 1..Len(s) : s[p].kind = "try" => TryOK(s[p], p \in A)

(* The frames F are the trys that no transfer has abandoned; one that is   *)
(* off the chain has been claimed.  No frame has a live callback below it, *)
(* since callbacks open no try, so a transfer never lands inside one.      *)
Frames(s, F) ==
  /\ \A p \in F : /\ p \in 1..Len(s) /\ s[p].kind = "try" /\ ~ Dead(s, p)
                   /\ \A c \in 1 .. p - 1 : s[c].kind = "callback" => Dead(s, c)
  /\ \A p \in 1..Len(s) : s[p].kind = "try" /\ p \notin F =>
       /\ s[p].claimed
       /\ Dead(s, p) \/ (s[Len(s)].phase = "transfer" /\ \A f \in F : f < p)
  /\ \A q \in 1..Len(s) : s[q].phase = "drain" /\ ~ Dead(s, q) =>
       s[q].frame \in F /\ s[s[q].frame].state = "unwind"

(* Where a transfer is going: a frame with a catch that no arm has taken,  *)
(* at or below every frame on the way.                                     *)
Caught(s, F, A, t) == t \in F /\ t \notin A /\ s[t].handle # <<>>
Targets(s, F, A) ==
  /\ \A p \in F : s[p].state = "unwind" =>
       /\ s[p].target <= p /\ Caught(s, F, A, s[p].target)
       /\ s[p].target = p => s[p].phase \in {"body", "landed"}
       /\ s[p].phase \in {"body", "arm"} =>
            \E q \in p + 1 .. Len(s) : s[q].phase = "drain" /\ s[q].frame = p
  /\ s[Len(s)].phase = "transfer" => Caught(s, F, A, s[Len(s)].target)

(* The arms A that run are those of frames whose catch was detached. *)
Arms(s, F, A) ==
  \A p \in A : p \in F /\ s[p].handle # <<>> /\ s[p].phase \in {"arm", "landed", "exits"}

(* The cleanup chain C holds the cleanups still owed, exactly; one that    *)
(* was paid is running its deferred body or belongs to what is abandoned.  *)
Cleaner(a) == a.kind \in {"defer", "watch", "callback"}
Owing(s) == {p \in 1..Len(s) : Cleaner(s[p]) /\ s[p].runs = 0}
Owes(s, C) ==
  /\ C = Owing(s)
  /\ \A p \in 1..Len(s) : Cleaner(s[p]) /\ s[p].runs # 0 =>
       Dead(s, p) \/ (p < Len(s) /\ s[p].kind = "defer" /\ s[p + 1].kind = "thunk")
  /\ \A p \in 2..Len(s) : s[p].kind = "thunk" /\ ~ s[p].drain => s[p - 1].runs = 1

(* The marks a frame took when it was pushed still cut the two chains      *)
(* below its position.                                                     *)
Marks(s, F, fr, cl) ==
  \A p \in F : /\ Pre(s[p].prev, fr) /\ Cut(fr, Len(s[p].prev), p)
               /\ Pre(s[p].watermark, cl) /\ Cut(cl, Len(s[p].watermark), p)

(* The whole chain, hidden span included, names the regions that are       *)
(* registered, and each holds the path that ends at its own entry.         *)
Reg(s, A) == {p \in 1..Len(s) : \/ s[p].kind = "watch" /\ s[p].runs = 0
                                \/ s[p].kind = "try" /\ s[p].handle # <<>> /\ p \notin A}
PathTo(h, full, p) == h # <<>> /\ Last(h).at = p /\ Pre(h, full)
Registers(s, full, F, A) ==
  /\ Ids(full) = Reg(s, A)
  /\ \A i \in 1..Len(full) : full[i].kind = "catch" <=> s[full[i].at].kind = "try"
  /\ \A p \in Reg(s, A) : PathTo(s[p].handle, full, p) /\ (s[p].kind = "try" => p \in F)
(* The heads that frames and drained bodies will restore cut the whole     *)
(* chain at their position.                                                *)
Heads(s, full, F) ==
  /\ \A p \in F : LET h == s[p].head IN
       (h # <<>> /\ Last(h).at = p) \/ (Pre(h, full) /\ CutAt(full, Len(h), p))
  /\ \A p \in 1..Len(s) : s[p].kind = "thunk" /\ s[p].drain /\ ~ Dead(s, p) => CutAt(full, s[p].depth, p)

(* c is the innermost callback below e. *)
Inner(s, c, e) == c \in 1 .. e - 1 /\ s[c].kind = "callback" /\ \A o \in c + 1 .. e - 1 : s[o].kind # "callback"
(* While a chain sv is saved, d is the outermost live dispatch, and each   *)
(* dispatch above it offers within the span that its callback was given.   *)
Dispatching(s, d, sv, rn, hs) ==
  /\ d \in 1..Len(s) /\ s[d].kind = "dispatch"
  /\ s[d].outer = <<>> /\ s[d].outerRunning = <<>> /\ s[d].chain = sv
  /\ \A c \in 1 .. d - 1 : s[c].kind = "callback" => Dead(s, c)
  /\ \A p \in d + 1 .. Len(s) : /\ s[p].kind \in {"dispatch", "callback", "defer", "thunk"}
                                /\ s[p].kind = "thunk" => ~ s[p].drain
                                /\ s[p].kind = "callback" => s[p - 1].offer # <<>>
  /\ \A e \in d .. Len(s) : s[e].kind = "dispatch" => Pre(s[e].offer, sv)
  /\ \A e \in d + 1 .. Len(s) : s[e].kind = "dispatch" =>
       /\ s[e].outer = sv
       /\ \E c \in d + 1 .. e - 1 : /\ Inner(s, c, e) /\ s[e].outerRunning = s[c - 1].offer
                                    /\ s[e].chain = Front(s[c - 1].offer)
  /\ s[Len(s)].kind # "dispatch" =>
       \E c \in d + 1 .. Len(s) : /\ Inner(s, c, Len(s) + 1) /\ rn = s[c - 1].offer
                                  /\ hs = Front(rn)
Dispatches(s, sv, rn, hs) ==
  /\ sv # <<>> => /\ Pre(hs, sv) /\ Pre(rn, sv)
                  /\ \E d \in 1..Len(s) : Dispatching(s, d, sv, rn, hs)
  /\ sv = <<>> => /\ rn = <<>>
                  /\ s[Len(s)].phase # "transfer" => \A c \in 1..Len(s) : s[c].kind = "callback" => Dead(s, c)
                  /\ s[Len(s)].kind = "dispatch" => LET n == s[Len(s)] IN
                       n.chain = hs /\ n.offer = <<>> /\ n.outer = <<>> /\ n.outerRunning = <<>>

(* The raises under way that depth counts. *)
Active(s) == {e \in 1..Len(s) : s[e].kind = "dispatch" /\ ~ Dead(s, e)}
Depths(s, d) == s[Len(s)].phase # "transfer" => Cardinality(Active(s)) <= d

-----------------------------------------------------------------------------
(* The inductive invariant.  The chain it relates to the regions is        *)
(* UnwindHead: the saved one while a dispatch hides it, else the visible   *)
(* one.                                                                    *)
IInv == /\ Ascending(frames) /\ Ascending(cleanups) /\ Ascending(arms) /\ Rising(UnwindHead)
        /\ Shape(stack) /\ Tries(stack, ToSet(arms))
        /\ Frames(stack, ToSet(frames)) /\ Targets(stack, ToSet(frames), ToSet(arms))
        /\ Arms(stack, ToSet(frames), ToSet(arms)) /\ Owes(stack, ToSet(cleanups))
        /\ Marks(stack, ToSet(frames), frames, cleanups)
        /\ Registers(stack, UnwindHead, ToSet(frames), ToSet(arms))
        /\ Heads(stack, UnwindHead, ToSet(frames))
        /\ Dispatches(stack, saved, running, handlers) /\ Depths(stack, depth)

Types == /\ stack \in Seq(Activation) /\ handlers \in Chain /\ saved \in Chain /\ running \in Chain
         /\ arms \in Path /\ cleanups \in Path /\ frames \in Path
         /\ errs \in 0..ERROR_BOUND /\ depth \in 0..ERROR_MAX_DEPTH

-----------------------------------------------------------------------------
(* Paths and chains *)

LEMMA PrefixIsPre ==
  ASSUME NEW S, NEW a \in Seq(S), NEW b \in Seq(S)
  PROVE  IsPrefix(a, b) <=> Pre(a, b)
<1>1. Len(a) \in Nat /\ Len(b) \in Nat OBVIOUS
<1>2. ASSUME Len(a) <= Len(b)
      PROVE  SubSeq(a, 1, Len(a)) = SubSeq(b, 1, Len(a)) <=> \A i \in 1..Len(a) : a[i] = b[i]
  <2>1. SubSeq(a, 1, Len(a)) = [i \in 1..Len(a) |-> a[i]] BY <1>1
  <2>2. SubSeq(b, 1, Len(a)) = [i \in 1..Len(a) |-> b[i]] BY <1>1, <1>2
  <2> QED BY <2>1, <2>2
<1> QED BY <1>1, <1>2 DEF IsPrefix, Pre

LEMMA PreTakes ==
  ASSUME NEW S, NEW a \in Seq(S), NEW b \in Seq(S), Pre(a, b)
  PROVE  a = SubSeq(b, 1, Len(a)) /\ (Len(a) = Len(b) => a = b)
BY DEF Pre

LEMMA FrontFacts ==
  ASSUME NEW S, NEW q \in Seq(S), q # <<>>
  PROVE  /\ Front(q) \in Seq(S) /\ Len(Front(q)) = Len(q) - 1 /\ Len(q) \in Nat \ {0}
         /\ \A i \in 1 .. Len(q) - 1 : Front(q)[i] = q[i]
         /\ Last(q) \in S /\ Last(q) = q[Len(q)]
<1> DEFINE n == Len(q) - 1
<1>1. Len(q) \in Nat \ {0} /\ n \in 0..Len(q) /\ n \in Nat /\ Len(q) \in 1..Len(q) OBVIOUS
<1>2. \A i \in 1..Len(q) : q[i] \in S OBVIOUS
<1>3. Last(q) = q[Len(q)] BY DEF Last
<1>4. Front(q) = SubSeq(q, 1, n) BY DEF Front
<1> HIDE DEF n
<1>5. \A i \in 1..n : i \in 1..Len(q) BY <1>1
<1>6. SubSeq(q, 1, n) \in Seq(S) /\ Len(SubSeq(q, 1, n)) = n /\ \A i \in 1..n : SubSeq(q, 1, n)[i] = q[i]
  BY <1>1, <1>5
<1>7. Front(q) \in Seq(S) /\ Len(Front(q)) = n /\ \A i \in 1..n : Front(q)[i] = q[i] BY <1>4, <1>6
<1> QED BY <1>1, <1>2, <1>3, <1>7 DEF n

LEMMA PreFront ==
  ASSUME NEW q \in Chain, NEW r, q # <<>>, Pre(q, r), Len(r) \in Nat
  PROVE  Pre(Front(q), r)
<1>1. /\ Len(Front(q)) = Len(q) - 1 /\ Len(q) \in Nat \ {0}
      /\ \A i \in 1 .. Len(q) - 1 : Front(q)[i] = q[i]
  BY FrontFacts DEF Chain
<1> HIDE DEF Front
<1> QED BY <1>1 DEF Pre

LEMMA AppendPath ==
  ASSUME NEW q \in Path, NEW x \in Nat, Ascending(q), \A y \in ToSet(q) : y < x
  PROVE  /\ Append(q, x) \in Path /\ Ascending(Append(q, x))
         /\ ToSet(Append(q, x)) = ToSet(q) \cup {x}
         /\ Len(Append(q, x)) = Len(q) + 1 /\ Append(q, x)[Len(q) + 1] = x
         /\ \A i \in 1..Len(q) : Append(q, x)[i] = q[i]
<1> DEFINE r == Append(q, x)
<1>1. /\ r \in Path /\ Len(r) = Len(q) + 1 /\ r[Len(q) + 1] = x /\ Len(q) \in Nat
      /\ \A i \in 1..Len(q) : r[i] = q[i]
  BY DEF Path
<1>2. DOMAIN r = 1 .. Len(q) + 1 /\ DOMAIN q = 1..Len(q) /\ \A i \in 1..Len(q) : q[i] \in Nat
  BY <1>1 DEF Path
<1> HIDE DEF r
<1>3. ToSet(r) = ToSet(q) \cup {x} BY <1>1, <1>2 DEF ToSet
<1>4. Ascending(r) BY <1>1, <1>2 DEF Ascending, ToSet
<1> QED BY <1>1, <1>3, <1>4 DEF r

LEMMA FrontPath ==
  ASSUME NEW q \in Path, q # <<>>, Ascending(q)
  PROVE  /\ Front(q) \in Path /\ Ascending(Front(q)) /\ ToSet(Front(q)) = ToSet(q) \ {Last(q)}
         /\ Last(q) \in ToSet(q) /\ \A y \in ToSet(q) : y <= Last(q)
<1> DEFINE r == Front(q)
<1>1. /\ r \in Path /\ Len(r) = Len(q) - 1 /\ Len(q) \in Nat \ {0}
      /\ \A i \in 1 .. Len(q) - 1 : r[i] = q[i]
      /\ Last(q) = q[Len(q)]
  BY FrontFacts DEF Path
<1>2. DOMAIN r = 1 .. Len(q) - 1 /\ DOMAIN q = 1..Len(q) /\ \A i \in 1..Len(q) : q[i] \in Nat
  BY <1>1 DEF Path
<1> HIDE DEF r
<1>3. \A i, j \in 1..Len(q) : i < j => q[i] < q[j] BY <1>2 DEF Ascending
<1>4. ToSet(r) = ToSet(q) \ {Last(q)}
  <2>1. ASSUME NEW y \in ToSet(r) PROVE y \in ToSet(q) \ {Last(q)}
    BY <1>1, <1>2, <1>3, <2>1 DEF ToSet
  <2>2. ASSUME NEW y \in ToSet(q) \ {Last(q)} PROVE y \in ToSet(r)
    <3>1. PICK i \in 1..Len(q) : q[i] = y BY <1>2, <2>2 DEF ToSet
    <3>2. i \in 1 .. Len(q) - 1 BY <1>1, <2>2, <3>1
    <3> QED BY <1>1, <1>2, <3>1, <3>2 DEF ToSet
  <2> QED BY <2>1, <2>2
<1>5. Ascending(r) BY <1>1, <1>2, <1>3 DEF Ascending
<1>6. Last(q) \in ToSet(q) /\ \A y \in ToSet(q) : y <= Last(q) BY <1>1, <1>2, <1>3 DEF ToSet
<1> QED BY <1>1, <1>4, <1>5, <1>6 DEF r

LEMMA ChainElements ==
  ASSUME NEW q \in Chain
  PROVE  /\ Len(q) \in Nat /\ DOMAIN q = 1..Len(q)
         /\ \A i \in 1..Len(q) : q[i] \in EntryType /\ q[i].at \in Nat
<1>0. q \in Seq(EntryType) BY DEF Chain
<1>1. Len(q) \in Nat /\ DOMAIN q = 1..Len(q) /\ \A i \in 1..Len(q) : q[i] \in EntryType BY <1>0
<1>2. \A e \in EntryType : e.at \in Nat BY DEF EntryType
<1> QED BY <1>1, <1>2

LEMMA AppendChain ==
  ASSUME NEW q \in Chain, NEW x \in EntryType, Rising(q), \A y \in Ids(q) : y < x.at
  PROVE  /\ Append(q, x) \in Chain /\ Rising(Append(q, x)) /\ Append(q, x) # <<>>
         /\ Ids(Append(q, x)) = Ids(q) \cup {x.at}
         /\ Len(Append(q, x)) = Len(q) + 1 /\ Append(q, x)[Len(q) + 1] = x
         /\ \A i \in 1..Len(q) : Append(q, x)[i] = q[i]
         /\ Last(Append(q, x)) = x /\ Front(Append(q, x)) = q
<1> DEFINE r == Append(q, x)
<1>1. /\ r \in Chain /\ Len(r) = Len(q) + 1 /\ r[Len(q) + 1] = x /\ Len(q) \in Nat /\ r # <<>>
      /\ \A i \in 1..Len(q) : r[i] = q[i]
  BY DEF Chain
<1>2. DOMAIN r = 1 .. Len(q) + 1 /\ DOMAIN q = 1..Len(q) BY <1>1 DEF Chain
<1>3. \A i \in 1..Len(q) : q[i].at \in Nat BY ChainElements
<1>4. x.at \in Nat BY DEF EntryType
<1>5. Last(r) = x BY <1>1 DEF Last
<1>6. Front(r) = q BY DEF Chain, Front
<1> HIDE DEF r
<1>7. Ids(r) = Ids(q) \cup {x.at} BY <1>1, <1>2 DEF Ids
<1>8. Rising(r) BY <1>1, <1>2, <1>3, <1>4 DEF Rising, Ids
<1> QED BY <1>1, <1>5, <1>6, <1>7, <1>8 DEF r

LEMMA FrontChain ==
  ASSUME NEW q \in Chain, q # <<>>, Rising(q)
  PROVE  /\ Front(q) \in Chain /\ Rising(Front(q)) /\ Ids(Front(q)) = Ids(q) \ {Last(q).at}
         /\ Last(q).at \in Ids(q) /\ \A y \in Ids(q) : y <= Last(q).at
         /\ Pre(Front(q), q)
<1> DEFINE r == Front(q)
<1>1. /\ r \in Chain /\ Len(r) = Len(q) - 1 /\ Len(q) \in Nat \ {0}
      /\ \A i \in 1 .. Len(q) - 1 : r[i] = q[i]
      /\ Last(q) = q[Len(q)]
  BY FrontFacts DEF Chain
<1>2. DOMAIN r = 1 .. Len(q) - 1 /\ DOMAIN q = 1..Len(q) BY <1>1 DEF Chain
<1>3. \A i \in 1..Len(q) : q[i].at \in Nat BY ChainElements
<1> HIDE DEF r
<1>4. Ids(r) = Ids(q) \ {Last(q).at}
  <2>1. ASSUME NEW y \in Ids(r) PROVE y \in Ids(q) \ {Last(q).at}
    <3>1. PICK i \in 1 .. Len(q) - 1 : r[i].at = y BY <1>2, <2>1 DEF Ids
    <3>2. q[i].at = y /\ q[i].at < q[Len(q)].at BY <1>1, <3>1 DEF Rising
    <3> QED BY <1>1, <1>2, <1>3, <3>2 DEF Ids
  <2>2. ASSUME NEW y \in Ids(q) \ {Last(q).at} PROVE y \in Ids(r)
    <3>1. PICK i \in 1..Len(q) : q[i].at = y BY <1>2, <2>2 DEF Ids
    <3>2. i \in 1 .. Len(q) - 1 BY <1>1, <2>2, <3>1
    <3> QED BY <1>1, <1>2, <3>1, <3>2 DEF Ids
  <2> QED BY <2>1, <2>2
<1>5. Rising(r) BY <1>1 DEF Rising
<1>6. Last(q).at \in Ids(q) /\ \A y \in Ids(q) : y <= Last(q).at
  BY <1>1, <1>2, <1>3 DEF Ids, Rising
<1>7. Pre(r, q) BY <1>1 DEF Pre
<1> QED BY <1>1, <1>4, <1>5, <1>6, <1>7 DEF r

(* The path to the newest registration is the whole chain. *)
LEMMA WholeChain ==
  ASSUME NEW q \in Chain, NEW h \in Chain, Rising(q), Pre(h, q), h # <<>>,
         \A y \in Ids(q) : y <= Last(h).at
  PROVE  h = q
<1>1. Len(h) \in Nat \ {0} /\ Len(q) \in Nat /\ Last(h) = q[Len(h)] /\ Len(h) <= Len(q)
  BY DEF Chain, Pre, Last
<1>2. \A i \in 1..Len(q) : q[i].at \in Nat /\ q[i].at \in Ids(q) BY ChainElements DEF Ids
<1>3. ~ (Len(h) < Len(q)) BY <1>1, <1>2 DEF Rising
<1>4. Len(h) = Len(q) BY <1>1, <1>3
<1> QED BY <1>4, PreTakes DEF Chain

LEMMA PushKeepsCut ==
  ASSUME NEW S, NEW q \in Seq(S), NEW x, NEW w, NEW n \in Nat, NEW p \in Nat, NEW r,
         Len(r) = Len(q) + 1, \A i \in 1..Len(q) : r[i] = q[i], r[Len(q) + 1] = x
  PROVE  /\ Pre(w, q) /\ Len(w) \in Nat => Pre(w, r)
         /\ Cut(q, n, p) /\ ~ (x < p) => Cut(r, n, p)
         /\ CutAt(q, n, p) /\ ~ (x.at < p) => CutAt(r, n, p)
<1>1. Len(q) \in Nat OBVIOUS
<1>2. Pre(w, q) /\ Len(w) \in Nat => Pre(w, r) BY <1>1 DEF Pre
<1>3. Cut(q, n, p) /\ ~ (x < p) => Cut(r, n, p) BY <1>1 DEF Cut
<1>4. CutAt(q, n, p) /\ ~ (x.at < p) => CutAt(r, n, p) BY <1>1 DEF CutAt
<1> QED BY <1>2, <1>3, <1>4

LEMMA PopKeepsCut ==
  ASSUME NEW S, NEW q \in Seq(S), q # <<>>, NEW n \in Nat, NEW p \in Nat
  PROVE  /\ Cut(q, n, p) /\ ~ (Last(q) < p) => n < Len(q) /\ Cut(Front(q), n, p)
         /\ CutAt(q, n, p) /\ ~ (Last(q).at < p) => n < Len(q) /\ CutAt(Front(q), n, p)
         /\ \A w : Pre(w, q) /\ Len(w) \in Nat /\ Len(w) < Len(q) => Pre(w, Front(q))
<1> DEFINE r == Front(q)
<1>1. /\ Len(r) = Len(q) - 1 /\ Len(q) \in Nat \ {0}
      /\ \A i \in 1 .. Len(q) - 1 : r[i] = q[i]
      /\ Last(q) = q[Len(q)]
  BY FrontFacts
<1> HIDE DEF r
<1>2. Cut(q, n, p) /\ ~ (Last(q) < p) => n < Len(q) /\ Cut(r, n, p) BY <1>1 DEF Cut
<1>3. CutAt(q, n, p) /\ ~ (Last(q).at < p) => n < Len(q) /\ CutAt(r, n, p) BY <1>1 DEF CutAt
<1>4. \A w : Pre(w, q) /\ Len(w) \in Nat /\ Len(w) < Len(q) => Pre(w, r) BY <1>1 DEF Pre
<1> QED BY <1>2, <1>3, <1>4 DEF r

-----------------------------------------------------------------------------
(* The stack *)

(* A catch or a finalizer opened in a callback, or an observer in a        *)
(* cleanup, lets an order check fire or leaves a chain stale; under this   *)
(* neither happens.                                                        *)
OnlyDefers == CallbackOpens \subseteq {"defer"} /\ "watch" \notin CleanupOpens

(* The top of the stack. *)
LEMMA Stacked ==
  ASSUME Types, Shape(stack)
  PROVE  /\ Top \in Nat \ {0} /\ Top = Len(stack) /\ DOMAIN stack = 1..Top /\ stack # <<>>
         /\ \A p \in 1..Top : stack[p] \in Activation
         /\ Now = stack[Top]
<1>1. stack \in Seq(Activation) BY DEF Types
<1>2. Len(stack) \in Nat /\ DOMAIN stack = 1..Len(stack) /\ \A p \in 1..Len(stack) : stack[p] \in Activation
  BY <1>1
<1> QED BY <1>1, <1>2 DEF Shape, Top, Now

LEMMA DeadKept ==
  ASSUME NEW s, NEW t, Len(s) \in Nat, Len(t) \in Nat,
         \A q \in 1..Len(s) : s[q].phase = "drain" =>
           q \in 1..Len(t) /\ t[q].phase = "drain" /\ t[q].frame = s[q].frame,
         \A q \in 1..Len(t) : t[q].phase = "drain" => q \in 1..Len(s) /\ s[q].phase = "drain"
  PROVE  \A p \in Nat : Dead(s, p) <=> Dead(t, p)
BY DEF Dead

LEMMA LiveIs ==
  ASSUME Types, Shape(stack)
  PROVE  \A p \in 1..Top : Live(p) <=> ~ Dead(stack, p)
<1>1. \A q \in 1..Top : stack[q].phase = "drain" => stack[q].frame \in Nat
  BY Stacked, KindOf DEF DrainType
<1> QED BY <1>1, Stacked DEF Live, Dead

-----------------------------------------------------------------------------
(* A step leaves most of the stack as it was. *)

SameForm(a, b) == /\ b.kind = a.kind /\ b.phase = a.phase
                  /\ a.phase = "drain" => b.frame = a.frame
                  /\ a.kind = "thunk" => b.drain = a.drain

LEMMA SitsKept ==
  ASSUME NEW s, NEW t, NEW p \in Nat \ {0}, \A o \in 1..p : SameForm(s[o], t[o]), Sits(s, p)
  PROVE  Sits(t, p)
<1>1. \A o \in 1..p : t[o].kind = s[o].kind /\ t[o].phase = s[o].phase BY DEF SameForm
<1>2. s[p].phase = "drain" => t[p].frame = s[p].frame BY DEF SameForm
<1>3. s[p].kind = "thunk" => t[p].drain = s[p].drain BY DEF SameForm
<1>4. p \in 1..p /\ (p > 1 => p - 1 \in 1..p) /\ \A f \in 1 .. p - 1 : f \in 1..p OBVIOUS
<1>5. t[p].kind = s[p].kind /\ t[p].phase = s[p].phase
      /\ (p > 1 => t[p - 1].kind = s[p - 1].kind /\ t[p - 1].phase = s[p - 1].phase)
  BY <1>1, <1>4
<1>6. \A f \in 1 .. p - 1 : t[f].kind = s[f].kind /\ t[f].phase = s[f].phase BY <1>1, <1>4
<1> QED BY <1>2, <1>3, <1>5, <1>6 DEF Sits

Pushed(s, t) == /\ Len(s) \in Nat \ {0} /\ Len(t) = Len(s) + 1
                /\ \A p \in 1..Len(s) : t[p] = s[p]

LEMMA PushDead ==
  ASSUME NEW s, NEW t, Pushed(s, t), t[Len(t)].phase # "drain"
  PROVE  \A p \in Nat : Dead(s, p) <=> Dead(t, p)
BY DeadKept DEF Pushed

LEMMA PushShape ==
  ASSUME NEW s, NEW t, Pushed(s, t), Shape(s), Sits(t, Len(t))
  PROVE  Shape(t)
<1>1. ASSUME NEW p \in 1..Len(s) PROVE Sits(t, p)
  <2>1. \A o \in 1..p : SameForm(s[o], t[o]) BY DEF Pushed, SameForm
  <2>2. Sits(s, p) BY DEF Shape
  <2> QED BY <2>1, <2>2, SitsKept DEF Pushed
<1>2. Len(t) \in Nat \ {0} /\ \A p \in 1..Len(t) : p \in 1..Len(s) \/ p = Len(t) BY DEF Pushed
<1> QED BY <1>1, <1>2 DEF Shape

LEMMA PushRest ==
  ASSUME NEW s, NEW t, NEW F, NEW A, Pushed(s, t), t[Len(t)].phase # "drain",
         s[Len(s)].phase # "transfer",
         Tries(s, A), Frames(s, F), Targets(s, F, A), Arms(s, F, A)
  PROVE  /\ t[Len(t)].kind # "try" => Tries(t, A) /\ Frames(t, F)
         /\ t[Len(t)].phase # "transfer" => Targets(t, F, A)
         /\ t[Len(t)].phase = "transfer" /\ Caught(s, F, A, t[Len(t)].target) => Targets(t, F, A)
         /\ Arms(t, F, A)
<1>1. \A p \in Nat : Dead(s, p) <=> Dead(t, p) BY PushDead
<1>2. /\ Len(s) \in Nat \ {0} /\ Len(t) = Len(s) + 1 /\ \A p \in 1..Len(s) : t[p] = s[p]
      /\ \A p \in 1..Len(t) : p \in 1..Len(s) \/ p = Len(t)
  BY DEF Pushed
<1>3. \A p \in F : p \in 1..Len(s) BY DEF Frames
<1>4. ASSUME t[Len(t)].kind # "try" PROVE Tries(t, A) BY <1>2, <1>4 DEF Tries
<1>5. ASSUME t[Len(t)].kind # "try" PROVE Frames(t, F)
  <2>1. \A p \in F : /\ p \in 1..Len(t) /\ t[p].kind = "try" /\ ~ Dead(t, p)
                     /\ \A c \in 1 .. p - 1 : t[c].kind = "callback" => Dead(t, c)
    BY <1>1, <1>2, <1>3 DEF Frames
  <2>2. \A p \in 1..Len(t) : t[p].kind = "try" /\ p \notin F => t[p].claimed /\ Dead(t, p)
    BY <1>1, <1>2, <1>5 DEF Frames
  <2>3. \A q \in 1..Len(t) : t[q].phase = "drain" /\ ~ Dead(t, q) =>
          t[q].frame \in F /\ t[t[q].frame].state = "unwind"
    BY <1>1, <1>2, <1>3 DEF Frames
  <2> QED BY <2>1, <2>2, <2>3 DEF Frames
<1>6. \A u : Caught(s, F, A, u) => Caught(t, F, A, u) BY <1>2, <1>3 DEF Caught
<1>7. \A p \in F : t[p].state = "unwind" =>
       /\ t[p].target <= p /\ Caught(t, F, A, t[p].target)
       /\ t[p].target = p => t[p].phase \in {"body", "landed"}
       /\ t[p].phase \in {"body", "arm"} =>
            \E q \in p + 1 .. Len(t) : t[q].phase = "drain" /\ t[q].frame = p
  <2> TAKE p \in F
  <2> HAVE t[p].state = "unwind"
  <2>1. t[p] = s[p] /\ p \in 1..Len(s) BY <1>2, <1>3
  <2>2. /\ t[p].target <= p /\ Caught(t, F, A, t[p].target)
        /\ t[p].target = p => t[p].phase \in {"body", "landed"}
    BY <1>6, <2>1 DEF Targets
  <2>3. ASSUME t[p].phase \in {"body", "arm"}
        PROVE  \E q \in p + 1 .. Len(t) : t[q].phase = "drain" /\ t[q].frame = p
    <3>1. PICK q \in p + 1 .. Len(s) : s[q].phase = "drain" /\ s[q].frame = p
      BY <2>1, <2>3 DEF Targets
    <3>2. q \in p + 1 .. Len(t) /\ t[q] = s[q] BY <1>2, <2>1
    <3> QED BY <3>1, <3>2
  <2> QED BY <2>2, <2>3
<1>8. t[Len(t)].phase # "transfer" => Targets(t, F, A) BY <1>7 DEF Targets
<1>9. t[Len(t)].phase = "transfer" /\ Caught(s, F, A, t[Len(t)].target) => Targets(t, F, A)
  BY <1>6, <1>7 DEF Targets
<1>10. Arms(t, F, A) BY <1>2, <1>3 DEF Arms
<1> QED BY <1>4, <1>5, <1>8, <1>9, <1>10

LEMMA PushOwes ==
  ASSUME NEW s, NEW t, NEW C, NEW D, Pushed(s, t), t[Len(t)].phase # "drain", Owes(s, C),
         Cleaner(t[Len(t)]) => t[Len(t)].runs = 0 /\ D = C \cup {Len(t)},
         ~ Cleaner(t[Len(t)]) => D = C,
         t[Len(t)].kind = "thunk" /\ ~ t[Len(t)].drain => s[Len(s)].runs = 1
  PROVE  Owes(t, D)
<1>1. \A p \in Nat : Dead(s, p) <=> Dead(t, p) BY PushDead
<1>2. /\ Len(s) \in Nat \ {0} /\ Len(t) = Len(s) + 1 /\ \A p \in 1..Len(s) : t[p] = s[p]
      /\ \A p \in 1..Len(t) : p \in 1..Len(s) \/ p = Len(t)
  BY DEF Pushed
<1>3. D = Owing(t) BY <1>2 DEF Owes, Owing
<1>4. \A p \in 1..Len(t) : Cleaner(t[p]) /\ t[p].runs # 0 =>
        Dead(t, p) \/ (p < Len(t) /\ t[p].kind = "defer" /\ t[p + 1].kind = "thunk")
  BY <1>1, <1>2 DEF Owes
<1>5. ASSUME NEW p \in 2..Len(t), t[p].kind = "thunk", ~ t[p].drain PROVE t[p - 1].runs = 1
  <2>1. CASE p = Len(t) BY <1>2, <1>5, <2>1
  <2>2. CASE p # Len(t)
    <3>1. p \in 2..Len(s) /\ t[p] = s[p] /\ t[p - 1] = s[p - 1] BY <1>2, <2>2
    <3> QED BY <1>5, <3>1 DEF Owes
  <2> QED BY <2>1, <2>2
<1> QED BY <1>3, <1>4, <1>5 DEF Owes

(* No callback is running. *)
Silent(s) == \A c \in 1..Len(s) : s[c].kind = "callback" => Dead(s, c)

LEMMA PushTry ==
  ASSUME NEW s, NEW t, NEW F, NEW A, Pushed(s, t), s[Len(s)].phase # "transfer",
         Tries(s, A), Frames(s, F), Targets(s, F, A), Arms(s, F, A),
         t[Len(t)].kind = "try", t[Len(t)].phase = "body", t[Len(t)].state = "active",
         ~ t[Len(t)].claimed, t[Len(t)].runs = 0,
         Silent(s), NEW G, G = F \cup {Len(t)}
  PROVE  Tries(t, A) /\ Frames(t, G) /\ Targets(t, G, A) /\ Arms(t, G, A)
<1> USE DEF Silent
<1>1. \A p \in Nat : Dead(s, p) <=> Dead(t, p) BY PushDead
<1>2. /\ Len(s) \in Nat \ {0} /\ Len(t) = Len(s) + 1 /\ \A p \in 1..Len(s) : t[p] = s[p]
      /\ \A p \in 1..Len(t) : p \in 1..Len(s) \/ p = Len(t)
  BY DEF Pushed
<1>3. \A p \in F : p \in 1..Len(s) BY DEF Frames
<1>4. Tries(t, A) BY <1>2 DEF Tries, TryOK
<1>5. Frames(t, G)
  <2>1. ~ Dead(t, Len(t)) BY <1>2 DEF Dead
  <2>2. ASSUME NEW p \in G
        PROVE  /\ p \in 1..Len(t) /\ t[p].kind = "try" /\ ~ Dead(t, p)
               /\ \A c \in 1 .. p - 1 : t[c].kind = "callback" => Dead(t, c)
    <3>1. CASE p \in F BY <1>1, <1>2, <1>3, <3>1 DEF Frames
    <3>2. CASE p = Len(t) BY <1>1, <1>2, <2>1, <3>2
    <3> QED BY <3>1, <3>2
  <2>3. \A p \in 1..Len(t) : t[p].kind = "try" /\ p \notin G => t[p].claimed /\ Dead(t, p)
    BY <1>1, <1>2 DEF Frames
  <2>4. \A q \in 1..Len(t) : t[q].phase = "drain" /\ ~ Dead(t, q) =>
          t[q].frame \in G /\ t[t[q].frame].state = "unwind"
    BY <1>1, <1>2, <1>3 DEF Frames
  <2> QED BY <2>2, <2>3, <2>4 DEF Frames
<1>6. \A u : Caught(s, F, A, u) => Caught(t, G, A, u) BY <1>2, <1>3 DEF Caught
<1>7. \A p \in G : t[p].state = "unwind" =>
       /\ t[p].target <= p /\ Caught(t, G, A, t[p].target)
       /\ t[p].target = p => t[p].phase \in {"body", "landed"}
       /\ t[p].phase \in {"body", "arm"} =>
            \E q \in p + 1 .. Len(t) : t[q].phase = "drain" /\ t[q].frame = p
  <2> TAKE p \in G
  <2> HAVE t[p].state = "unwind"
  <2>1. t[p] = s[p] /\ p \in 1..Len(s) /\ p \in F BY <1>2, <1>3
  <2>4. s[p].target <= p /\ Caught(s, F, A, s[p].target)
        /\ (s[p].target = p => s[p].phase \in {"body", "landed"})
    BY <2>1 DEF Targets
  <2>2. /\ t[p].target <= p /\ Caught(t, G, A, t[p].target)
        /\ t[p].target = p => t[p].phase \in {"body", "landed"}
    BY <1>6, <2>1, <2>4
  <2>3. ASSUME t[p].phase \in {"body", "arm"}
        PROVE  \E q \in p + 1 .. Len(t) : t[q].phase = "drain" /\ t[q].frame = p
    <3>1. PICK q \in p + 1 .. Len(s) : s[q].phase = "drain" /\ s[q].frame = p
      BY <2>1, <2>3 DEF Targets
    <3>2. q \in p + 1 .. Len(t) /\ t[q] = s[q] BY <1>2, <2>1
    <3> QED BY <3>1, <3>2
  <2> QED BY <2>2, <2>3
<1>8. Targets(t, G, A) BY <1>7 DEF Targets
<1>9. Arms(t, G, A) BY <1>2, <1>3 DEF Arms
<1> QED BY <1>4, <1>5, <1>8, <1>9

(* r is q, or q and one element more, which is x. *)
Extends(q, r, x) ==
  \/ r = q
  \/ /\ Len(q) \in Nat /\ Len(r) = Len(q) + 1 /\ r[Len(r)] = x
     /\ \A i \in 1..Len(q) : r[i] = q[i]

LEMMA ExtendKeeps ==
  ASSUME NEW q, NEW r, NEW x, NEW p \in Nat, Extends(q, r, x), Len(q) \in Nat
  PROVE  /\ \A w : Len(w) \in Nat /\ Pre(w, q) => Pre(w, r)
         /\ \A n : Cut(q, n, p) /\ ~ (x < p) => Cut(r, n, p)
         /\ \A n : CutAt(q, n, p) /\ ~ (x.at < p) => CutAt(r, n, p)
<1>1. \A w : Len(w) \in Nat /\ Pre(w, q) => Pre(w, r) BY DEF Extends, Pre
<1>2. ASSUME NEW n, Cut(q, n, p), ~ (x < p) PROVE Cut(r, n, p)
  <2>1. CASE r = q BY <1>2, <2>1
  <2>2. CASE r # q BY <1>2, <2>2 DEF Extends, Cut
  <2> QED BY <2>1, <2>2
<1>3. ASSUME NEW n, CutAt(q, n, p), ~ (x.at < p) PROVE CutAt(r, n, p)
  <2>1. CASE r = q BY <1>3, <2>1
  <2>2. CASE r # q BY <1>3, <2>2 DEF Extends, CutAt
  <2> QED BY <2>1, <2>2
<1> QED BY <1>1, <1>2, <1>3

LEMMA PushMarks ==
  ASSUME NEW s, NEW t, NEW F, NEW fr, NEW cl, NEW fs, NEW cs, Pushed(s, t), Marks(s, F, fr, cl),
         Len(fr) \in Nat, Len(cl) \in Nat,
         \A p \in F : p \in 1..Len(s), Extends(fr, fs, Len(t)), Extends(cl, cs, Len(t))
  PROVE  Marks(t, F, fs, cs)
<1> SUFFICES ASSUME NEW p \in F
             PROVE  /\ Pre(t[p].prev, fs) /\ Cut(fs, Len(t[p].prev), p)
                    /\ Pre(t[p].watermark, cs) /\ Cut(cs, Len(t[p].watermark), p)
  BY DEF Marks
<1>1. t[p] = s[p] /\ p \in Nat /\ ~ (Len(t) < p) BY DEF Pushed
<1>2. /\ Pre(s[p].prev, fr) /\ Cut(fr, Len(s[p].prev), p)
      /\ Pre(s[p].watermark, cl) /\ Cut(cl, Len(s[p].watermark), p)
  BY DEF Marks
<1>3. Len(s[p].prev) \in Nat /\ Len(s[p].watermark) \in Nat BY <1>2 DEF Cut
<1>6. /\ \A w : Len(w) \in Nat /\ Pre(w, fr) => Pre(w, fs)
      /\ \A n : Cut(fr, n, p) => Cut(fs, n, p)
  BY <1>1, ExtendKeeps
<1>7. /\ \A w : Len(w) \in Nat /\ Pre(w, cl) => Pre(w, cs)
      /\ \A n : Cut(cl, n, p) => Cut(cs, n, p)
  BY <1>1, ExtendKeeps
<1>4. Pre(t[p].prev, fs) /\ Cut(fs, Len(t[p].prev), p) BY <1>1, <1>2, <1>3, <1>6
<1>5. Pre(t[p].watermark, cs) /\ Cut(cs, Len(t[p].watermark), p) BY <1>1, <1>2, <1>3, <1>7
<1> QED BY <1>4, <1>5

LEMMA PushHeads ==
  ASSUME NEW s, NEW t, NEW F, NEW full, NEW ext, NEW e, Pushed(s, t), Heads(s, full, F),
         t[Len(t)].phase # "drain", Len(full) \in Nat,
         \A p \in F : p \in 1..Len(s), Extends(full, ext, e), e.at = Len(t),
         t[Len(t)].kind = "thunk" => ~ t[Len(t)].drain
  PROVE  Heads(t, ext, F)
<1>1. ASSUME NEW p \in F, LET h == t[p].head IN ~ (h # <<>> /\ Last(h).at = p)
      PROVE  LET h == t[p].head IN Pre(h, ext) /\ CutAt(ext, Len(h), p)
  <2>1. t[p] = s[p] /\ p \in Nat /\ ~ (e.at < p) BY DEF Pushed
  <2>2. Pre(s[p].head, full) /\ CutAt(full, Len(s[p].head), p) BY <1>1, <2>1 DEF Heads
  <2>3. Len(s[p].head) \in Nat BY <2>2 DEF CutAt
  <2> QED BY <2>1, <2>2, <2>3, ExtendKeeps
<1>2. ASSUME NEW p \in 1..Len(t), t[p].kind = "thunk", t[p].drain, ~ Dead(t, p)
      PROVE  CutAt(ext, t[p].depth, p)
  <2>1. p \in 1..Len(s) /\ p \in Nat /\ t[p] = s[p] /\ ~ (e.at < p) BY <1>2 DEF Pushed
  <2>2. ~ Dead(s, p) BY <1>2, <2>1, PushDead
  <2>3. CutAt(full, t[p].depth, p) BY <1>2, <2>1, <2>2 DEF Heads
  <2> QED BY <2>1, <2>3, ExtendKeeps
<1> QED BY <1>1, <1>2 DEF Heads

(* ext ends in the registration e of the activation on top of t. *)
Newest(t, ext, e) == /\ DOMAIN ext = 1..Len(ext) /\ ext # <<>> /\ Last(ext).at = Len(t) /\ e.at = Len(t)
                     /\ e.kind = "catch" <=> t[Len(t)].kind = "try"
                     /\ t[Len(t)].handle = ext

LEMMA PushRegisters ==
  ASSUME NEW s, NEW t, NEW F, NEW A, NEW G, NEW full, Pushed(s, t), Registers(s, full, F, A),
         F \subseteq G, Len(full) \in Nat, DOMAIN full = 1..Len(full)
  PROVE  /\ Len(t) \notin Reg(t, A) => Registers(t, full, G, A)
         /\ \A ext, e : /\ Len(t) \in Reg(t, A) /\ Extends(full, ext, e) /\ ext # full
                        /\ Newest(t, ext, e) /\ (t[Len(t)].kind = "try" => Len(t) \in G)
                        => Registers(t, ext, G, A)
<1>1. /\ Len(s) \in Nat \ {0} /\ Len(t) = Len(s) + 1 /\ \A p \in 1..Len(s) : t[p] = s[p]
      /\ \A p \in 1..Len(t) : p \in 1..Len(s) \/ p = Len(t)
  BY DEF Pushed
<1>2. Reg(t, A) = IF Len(t) \in Reg(t, A) THEN Reg(s, A) \cup {Len(t)} ELSE Reg(s, A)
  BY <1>1 DEF Reg
<1>3. Reg(s, A) \subseteq 1..Len(s) BY DEF Reg
<1>4. \A i \in 1..Len(full) : full[i].at \in 1..Len(s) BY <1>3 DEF Registers, Ids
<1>5. ASSUME Len(t) \notin Reg(t, A) PROVE Registers(t, full, G, A)
  <2>1. Reg(t, A) = Reg(s, A) BY <1>2, <1>5
  <2> QED BY <1>1, <1>3, <1>4, <2>1 DEF Registers
<1>6. ASSUME NEW ext, NEW e, Len(t) \in Reg(t, A), Extends(full, ext, e), ext # full, Newest(t, ext, e),
             t[Len(t)].kind = "try" => Len(t) \in G
      PROVE  Registers(t, ext, G, A)
  <2> USE DEF Newest
  <2>1. /\ Len(ext) = Len(full) + 1 /\ ext[Len(ext)] = e /\ \A i \in 1..Len(full) : ext[i] = full[i]
    BY <1>6 DEF Extends
  <2>2. Reg(t, A) = Reg(s, A) \cup {Len(t)} BY <1>2, <1>6
  <2>3. Ids(ext) = Reg(t, A) BY <1>6, <2>1, <2>2 DEF Ids, Registers
  <2>4. \A i \in 1..Len(ext) : ext[i].kind = "catch" <=> t[ext[i].at].kind = "try"
    BY <1>1, <1>4, <1>6, <2>1 DEF Registers
  <2>5. ASSUME NEW p \in Reg(t, A)
        PROVE  PathTo(t[p].handle, ext, p) /\ (t[p].kind = "try" => p \in G)
    <3>1. CASE p = Len(t)
      <4>1. Pre(ext, ext) BY <2>1 DEF Pre
      <4> QED BY <1>6, <3>1, <4>1 DEF PathTo
    <3>2. CASE p # Len(t)
      <4>1. p \in Reg(s, A) /\ t[p] = s[p] BY <1>1, <1>3, <2>2, <3>2
      <4>2. PathTo(s[p].handle, full, p) /\ (s[p].kind = "try" => p \in G) BY <4>1 DEF Registers
      <4>3. Pre(s[p].handle, ext) BY <2>1, <4>2 DEF PathTo, Pre
      <4> QED BY <4>1, <4>2, <4>3 DEF PathTo
    <3> QED BY <3>1, <3>2
  <2> QED BY <2>3, <2>4, <2>5 DEF Registers
<1> QED BY <1>5, <1>6

LEMMA Coded ==
  ASSUME Types, IInv, Coding
  PROVE  /\ Now.phase \in {"body", "arm", "finally"} /\ Now.kind \notin {"dispatch", "unwind"}
         /\ \A p \in 1..Top : stack[p].kind = "try" /\ p \notin ToSet(frames) => Dead(stack, p)
         /\ saved # <<>> => \E p \in 1..Top : stack[p].kind = "callback" /\ ~ Dead(stack, p)
         /\ saved = <<>> => Silent(stack)
<1>0. Shape(stack) /\ Frames(stack, ToSet(frames)) /\ Dispatches(stack, saved, running, handlers)
  BY DEF IInv
<1>1. Now.phase \in {"body", "arm", "finally"} BY DEF Coding
<1>2. Now \in Activation BY <1>0, Stacked
<1>3. Now.kind \notin {"dispatch", "unwind"} BY <1>1, <1>2, KindOf DEF DispatchType
<1>4. \A p \in 1..Top : stack[p].kind = "try" /\ p \notin ToSet(frames) => Dead(stack, p)
  BY <1>0, <1>1, Stacked DEF Frames
<1>5. ASSUME saved # <<>>
      PROVE  \E p \in 1..Top : stack[p].kind = "callback" /\ ~ Dead(stack, p)
  <2>1. PICK d \in 1..Top : Dispatching(stack, d, saved, running, handlers)
    BY <1>0, <1>5, Stacked DEF Dispatches
  <2>2. PICK c \in d + 1 .. Top : Inner(stack, c, Top + 1)
    BY <1>0, <2>1, <1>3, Stacked DEF Dispatching
  <2>3. c \in 1..Top /\ stack[c].kind = "callback" BY <1>0, <2>2, Stacked DEF Inner
  <2>4. \A q \in c + 1 .. Top : stack[q].phase # "drain"
    <3>1. \A q \in c + 1 .. Top : q \in 1..Top /\ stack[q].kind # "unwind"
      BY <1>0, <2>1, <2>2, Stacked DEF Dispatching
    <3> QED BY <1>0, <3>1, KindOf, Stacked DEF DrainType
  <2> QED BY <1>0, <2>3, <2>4, Stacked DEF Dead
<1>6. saved = <<>> => Silent(stack) BY <1>0, <1>1, Stacked DEF Dispatches, Silent
<1> QED BY <1>1, <1>3, <1>4, <1>5, <1>6

LEMMA PushQuiet ==
  ASSUME NEW s, NEW t, NEW sv, NEW rn, NEW hs, NEW gs, Pushed(s, t), Dispatches(s, sv, rn, hs),
         t[Len(t)].phase \notin {"drain", "transfer"}, t[Len(t)].kind \notin {"dispatch", "callback"},
         s[Len(s)].phase # "transfer", sv = <<>>
  PROVE  Dispatches(t, sv, rn, gs)
<1>1. \A p \in Nat : Dead(s, p) <=> Dead(t, p) BY PushDead
<1> QED BY <1>1 DEF Dispatches, Pushed

LEMMA PushDispatching ==
  ASSUME NEW s, NEW t, NEW d, NEW sv, NEW rn, NEW hs, Pushed(s, t), Dispatching(s, d, sv, rn, hs),
         t[Len(t)].phase # "drain", s[Len(s)].kind # "dispatch",
         t[Len(t)].kind \in {"defer", "thunk", "dispatch"}, t[Len(t)].kind = "thunk" => ~ t[Len(t)].drain,
         t[Len(t)].kind = "dispatch" =>
           /\ t[Len(t)].outer = sv /\ t[Len(t)].outerRunning = rn
           /\ t[Len(t)].chain = hs /\ Pre(t[Len(t)].offer, sv)
  PROVE  Dispatching(t, d, sv, rn, hs)
<1>1. \A p \in Nat : Dead(s, p) <=> Dead(t, p) BY PushDead
<1>2. /\ Len(s) \in Nat \ {0} /\ Len(t) = Len(s) + 1 /\ \A p \in 1..Len(s) : t[p] = s[p]
      /\ \A p \in 1..Len(t) : p \in 1..Len(s) \/ p = Len(t)
  BY DEF Pushed
<1>3. d \in 1..Len(s) /\ d \in Nat BY DEF Dispatching
<1>4. PICK c \in d + 1 .. Len(s) : Inner(s, c, Len(s) + 1) /\ rn = s[c - 1].offer /\ hs = Front(rn)
  BY DEF Dispatching
<1>5. Inner(t, c, Len(t)) /\ rn = t[c - 1].offer /\ hs = Front(rn) /\ c \in d + 1 .. Len(t) - 1
  BY <1>2, <1>3, <1>4 DEF Inner
<1>6. /\ d \in 1..Len(t) /\ t[d].kind = "dispatch"
      /\ t[d].outer = <<>> /\ t[d].outerRunning = <<>> /\ t[d].chain = sv
      /\ \A o \in 1 .. d - 1 : t[o].kind = "callback" => Dead(t, o)
  BY <1>1, <1>2, <1>3 DEF Dispatching
<1>7. \A p \in d + 1 .. Len(t) : /\ t[p].kind \in {"dispatch", "callback", "defer", "thunk"}
                                 /\ t[p].kind = "thunk" => ~ t[p].drain
                                 /\ t[p].kind = "callback" => t[p - 1].offer # <<>>
  <2> TAKE p \in d + 1 .. Len(t)
  <2>1. CASE p = Len(t) BY <2>1
  <2>2. CASE p # Len(t)
    <3>1. p \in d + 1 .. Len(s) /\ t[p] = s[p] /\ t[p - 1] = s[p - 1] BY <1>2, <1>3, <2>2
    <3> QED BY <3>1 DEF Dispatching
  <2> QED BY <2>1, <2>2
<1>8. \A e \in d .. Len(t) : t[e].kind = "dispatch" => Pre(t[e].offer, sv)
  BY <1>2, <1>3 DEF Dispatching
<1>9. ASSUME NEW e \in d + 1 .. Len(t), t[e].kind = "dispatch"
      PROVE  /\ t[e].outer = sv
             /\ \E o \in d + 1 .. e - 1 : /\ Inner(t, o, e) /\ t[e].outerRunning = t[o - 1].offer
                                          /\ t[e].chain = Front(t[o - 1].offer)
  <2>1. CASE e = Len(t) BY <1>5, <1>9, <2>1
  <2>2. CASE e # Len(t)
    <3>1. e \in d + 1 .. Len(s) /\ t[e] = s[e] BY <1>2, <1>3, <2>2
    <3>2. PICK o \in d + 1 .. e - 1 : /\ Inner(s, o, e) /\ s[e].outerRunning = s[o - 1].offer
                                      /\ s[e].chain = Front(s[o - 1].offer)
      BY <1>9, <3>1 DEF Dispatching
    <3>3. Inner(t, o, e)
      <4>1. \A i \in o..e : i \in 1..Len(s) BY <1>2, <1>3, <3>1, <3>2
      <4>2. \A i \in o..e : t[i] = s[i] BY <1>2, <4>1
      <4>3. o \in o..e /\ \A i \in o + 1 .. e - 1 : i \in o..e BY <1>3, <3>1, <3>2
      <4> QED BY <3>2, <4>2, <4>3 DEF Inner
    <3>4. t[e].outer = sv BY <1>9, <3>1 DEF Dispatching
    <3>5. t[o - 1] = s[o - 1]
      <4>1. o \in Nat /\ o - 1 \in 1..Len(s) BY <1>2, <1>3, <3>1, <3>2
      <4> QED BY <1>2, <4>1
    <3> QED BY <3>1, <3>2, <3>3, <3>4, <3>5
  <2> QED BY <2>1, <2>2
<1>10. t[Len(t)].kind # "dispatch" => Inner(t, c, Len(t) + 1) BY <1>2, <1>3, <1>5 DEF Inner
<1>11. c \in d + 1 .. Len(t) BY <1>2, <1>3, <1>5
<1> QED BY <1>5, <1>6, <1>7, <1>8, <1>9, <1>10, <1>11 DEF Dispatching

LEMMA ActiveFinite ==
  ASSUME NEW s, Len(s) \in Nat
  PROVE  IsFiniteSet(Active(s)) /\ Cardinality(Active(s)) \in Nat
<1>1. IsFiniteSet(1..Len(s)) BY FS_Interval
<1>2. Active(s) \subseteq 1..Len(s) BY DEF Active
<1>3. IsFiniteSet(Active(s)) BY <1>1, <1>2, FS_Subset
<1> QED BY <1>3, FS_CardinalityType

LEMMA PushDepths ==
  ASSUME NEW s, NEW t, NEW d, Pushed(s, t), Depths(s, d), t[Len(t)].phase # "drain", d \in Nat,
         s[Len(s)].phase # "transfer"
  PROVE  /\ t[Len(t)].kind # "dispatch" => Depths(t, d)
         /\ Depths(t, d + 1)
<1>1. \A p \in Nat : Dead(s, p) <=> Dead(t, p) BY PushDead
<1>2. /\ Len(s) \in Nat \ {0} /\ Len(t) = Len(s) + 1 /\ \A p \in 1..Len(s) : t[p] = s[p]
      /\ \A p \in 1..Len(t) : p \in 1..Len(s) \/ p = Len(t)
  BY DEF Pushed
<1>3. IsFiniteSet(Active(s)) /\ Cardinality(Active(s)) \in Nat BY <1>2, ActiveFinite
<1>4. t[Len(t)].kind # "dispatch" => Active(t) = Active(s) BY <1>1, <1>2 DEF Active
<1>5. t[Len(t)].kind = "dispatch" => Active(t) \subseteq Active(s) \cup {Len(t)}
  BY <1>1, <1>2 DEF Active
<1>6. Cardinality(Active(s) \cup {Len(t)}) <= Cardinality(Active(s)) + 1
      /\ IsFiniteSet(Active(s) \cup {Len(t)})
  <2>1. /\ IsFiniteSet(Active(s) \cup {Len(t)})
        /\ Cardinality(Active(s) \cup {Len(t)})
             = IF Len(t) \in Active(s) THEN Cardinality(Active(s)) ELSE Cardinality(Active(s)) + 1
    BY <1>3, FS_AddElement, Zenon
  <2> QED BY <1>3, <2>1
<1>7. Cardinality(Active(s)) <= d BY DEF Depths
<1>8. Cardinality(Active(t)) <= Cardinality(Active(s)) + 1
  <2>1. CASE t[Len(t)].kind # "dispatch" BY <1>3, <1>4, <2>1
  <2>2. CASE t[Len(t)].kind = "dispatch"
    <3>1. Cardinality(Active(t)) <= Cardinality(Active(s) \cup {Len(t)})
          /\ Cardinality(Active(t)) \in Nat /\ Cardinality(Active(s) \cup {Len(t)}) \in Nat
      BY <1>5, <1>6, <2>2, FS_Subset, FS_CardinalityType
    <3> QED BY <1>3, <1>6, <3>1
  <2> QED BY <2>1, <2>2
<1>9. Cardinality(Active(t)) \in Nat BY <1>2, ActiveFinite
<1> QED BY <1>3, <1>4, <1>7, <1>8, <1>9 DEF Depths

LEMMA Within ==
  ASSUME Types, IInv
  PROVE  /\ \A i \in 1..Len(frames) : frames[i] \in ToSet(frames) /\ frames[i] \in 1..Top
         /\ \A i \in 1..Len(cleanups) : cleanups[i] \in ToSet(cleanups) /\ cleanups[i] \in 1..Top
         /\ \A i \in 1..Len(arms) : arms[i] \in ToSet(arms) /\ arms[i] \in ToSet(frames)
         /\ \A p \in ToSet(frames) : p \in 1..Top /\ stack[p].kind = "try"
         /\ \A p \in ToSet(cleanups) : p \in 1..Top
         /\ \A y \in Ids(UnwindHead) : y \in 1..Top
         /\ \A i \in 1..Len(UnwindHead) : UnwindHead[i].at \in 1..Top
         /\ UnwindHead \in Chain
<1>1. /\ \A i \in 1..Len(frames) : frames[i] \in ToSet(frames)
      /\ \A i \in 1..Len(cleanups) : cleanups[i] \in ToSet(cleanups)
      /\ \A i \in 1..Len(arms) : arms[i] \in ToSet(arms)
  BY DEF Types, Path, ToSet
<1>2. \A p \in ToSet(frames) : p \in 1..Top /\ stack[p].kind = "try" BY DEF IInv, Frames, Top
<1>3. \A p \in ToSet(arms) : p \in ToSet(frames) BY DEF IInv, Arms
<1>4. \A p \in ToSet(cleanups) : p \in 1..Top BY DEF IInv, Owes, Owing, Top
<1>5. \A y \in Ids(UnwindHead) : y \in 1..Top BY DEF IInv, Registers, Reg, Top
<1>6. UnwindHead \in Chain BY DEF Types, UnwindHead
<1>7. \A i \in 1..Len(UnwindHead) : UnwindHead[i].at \in Ids(UnwindHead)
  BY <1>6, ChainElements DEF Ids
<1> QED BY <1>1, <1>2, <1>3, <1>4, <1>5, <1>6, <1>7

LEMMA StackPush ==
  ASSUME Types, Shape(stack), NEW a \in Activation, stack' = Append(stack, a)
  PROVE  /\ stack' \in Seq(Activation) /\ Pushed(stack, stack') /\ Len(stack') = Top + 1
         /\ stack'[Len(stack')] = a /\ Top \in Nat \ {0} /\ Top = Len(stack)
BY Stacked DEF Types, Pushed

LEMMA OpenTryStep ==
  ASSUME Types, IInv, OnlyDefers, NEW k \in {"catch", "finally", "both"}, OpenTry(k)
  PROVE  Types' /\ IInv'
<1> DEFINE n == Top + 1
           hc == k \in {"catch", "both"}
           ch == IF hc THEN PushedCatch ELSE <<>>
           a == [kind |-> "try", phase |-> "body", handle |-> ch, fin |-> k # "catch",
                 state |-> "active", target |-> 0, claimed |-> FALSE, runs |-> 0,
                 prev |-> frames, watermark |-> cleanups, head |-> handlers',
                 depth |-> depth, height |-> errs]
<1>0. /\ Shape(stack) /\ Tries(stack, ToSet(arms)) /\ Frames(stack, ToSet(frames))
      /\ Targets(stack, ToSet(frames), ToSet(arms)) /\ Arms(stack, ToSet(frames), ToSet(arms))
      /\ Owes(stack, ToSet(cleanups)) /\ Marks(stack, ToSet(frames), frames, cleanups)
      /\ Registers(stack, UnwindHead, ToSet(frames), ToSet(arms))
      /\ Heads(stack, UnwindHead, ToSet(frames)) /\ Dispatches(stack, saved, running, handlers)
      /\ Depths(stack, depth) /\ Rising(UnwindHead) /\ Ascending(frames) /\ Ascending(cleanups)
      /\ Ascending(arms)
  BY DEF IInv
<1>1. Coding /\ ~ InCallback BY DEF OpenTry, MayOpen, OnlyDefers
<1>2. saved = <<>> /\ UnwindHead = handlers /\ Silent(stack)
  BY <1>0, <1>1, Coded, LiveIs DEF InCallback, UnwindHead
<1>3. Now.phase \in {"body", "arm", "finally"} /\ Now.kind \notin {"dispatch", "unwind"} /\ Now = stack[Top]
  BY <1>0, <1>1, Coded, Stacked
<1>4. /\ handlers \in Chain /\ errs \in 0..ERROR_BOUND /\ frames \in Path /\ cleanups \in Path
      /\ depth \in 0..ERROR_MAX_DEPTH /\ arms \in Path /\ saved \in Chain /\ running \in Chain
  BY DEF Types
<1>5. /\ Handler("catch") \in EntryType /\ Handler("catch").at = n /\ Handler("catch").kind = "catch"
  BY <1>0, <1>4, Stacked DEF Handler, EntryType
<1>6. \A y \in Ids(handlers) : y \in 1..Top BY <1>2, Within
<1>7. /\ PushedCatch \in Chain /\ Rising(PushedCatch) /\ PushedCatch # <<>>
      /\ Len(PushedCatch) = Len(handlers) + 1 /\ PushedCatch[Len(handlers) + 1] = Handler("catch")
      /\ \A i \in 1..Len(handlers) : PushedCatch[i] = handlers[i]
      /\ Last(PushedCatch) = Handler("catch")
  <2>1. Rising(handlers) /\ \A y \in Ids(handlers) : y < Handler("catch").at
    BY <1>0, <1>2, <1>5, <1>6, Stacked
  <2> QED BY <1>4, <1>5, <2>1, AppendChain DEF PushedCatch
<1>8. /\ handlers' = (IF hc THEN PushedCatch ELSE handlers) /\ frames' = Append(frames, n)
      /\ stack' = Append(stack, a)
      /\ saved' = saved /\ running' = running /\ arms' = arms /\ cleanups' = cleanups
      /\ errs' = errs /\ depth' = depth
  BY DEF OpenTry
<1>9. handlers' \in Chain /\ Rising(handlers') /\ UnwindHead' = handlers'
  BY <1>0, <1>2, <1>4, <1>7, <1>8 DEF UnwindHead
<1>10. ch \in Chain /\ (k # "catch") \in BOOLEAN BY <1>7 DEF Chain
<1>11. a \in TryType BY <1>4, <1>9, <1>10, BoundsAssumption DEF TryType
<1>12. a \in Activation BY <1>11 DEF Activation
<1>13. /\ a.kind = "try" /\ a.phase = "body" /\ a.handle = ch /\ a.state = "active"
       /\ ~ a.claimed /\ a.runs = 0 /\ a.prev = frames /\ a.watermark = cleanups /\ a.head = handlers'
  OBVIOUS
<1> HIDE DEF a
<1>14. /\ stack' \in Seq(Activation) /\ Pushed(stack, stack') /\ Len(stack') = n
       /\ stack'[n] = a /\ Top \in Nat \ {0} /\ Top = Len(stack)
  BY <1>0, <1>8, <1>12, StackPush
<1>15. /\ frames' \in Path /\ Ascending(frames') /\ ToSet(frames') = ToSet(frames) \cup {n}
       /\ Len(frames') = Len(frames) + 1 /\ frames'[Len(frames) + 1] = n
       /\ \A i \in 1..Len(frames) : frames'[i] = frames[i]
  <2>1. \A y \in ToSet(frames) : y < n BY <1>14, Within
  <2> QED BY <1>0, <1>4, <1>8, <1>14, <2>1, AppendPath
<1>16. Types' BY <1>4, <1>8, <1>9, <1>14, <1>15 DEF Types
<1>17. Sits(stack', n) BY <1>3, <1>13, <1>14 DEF Sits, Pushed
<1>18. Shape(stack') BY <1>0, <1>14, <1>17, PushShape
<1>19. /\ Tries(stack', ToSet(arms')) /\ Frames(stack', ToSet(frames'))
       /\ Targets(stack', ToSet(frames'), ToSet(arms')) /\ Arms(stack', ToSet(frames'), ToSet(arms'))
  <2>1. /\ stack'[Len(stack')].kind = "try" /\ stack'[Len(stack')].phase = "body"
        /\ stack'[Len(stack')].state = "active" /\ ~ stack'[Len(stack')].claimed
        /\ stack'[Len(stack')].runs = 0 /\ stack[Len(stack)].phase # "transfer"
        /\ Silent(stack) /\ ToSet(frames') = ToSet(frames) \cup {Len(stack')}
    BY <1>2, <1>3, <1>13, <1>14, <1>15
  <2> QED BY <1>0, <1>8, <1>14, <2>1, PushTry
<1>20. Owes(stack', ToSet(cleanups')) BY <1>0, <1>8, <1>13, <1>14, PushOwes DEF Cleaner
<1>21. \A p \in ToSet(frames) : p \in 1..Len(stack) BY <1>14, Within
<1>22. Len(frames) \in Nat /\ Len(cleanups) \in Nat /\ Len(handlers) \in Nat
       /\ DOMAIN handlers = 1..Len(handlers) /\ DOMAIN handlers' = 1..Len(handlers')
  BY <1>4, <1>9, ChainElements DEF Path
<1>23. Marks(stack', ToSet(frames'), frames', cleanups')
  <2>1. Extends(frames, frames', n) /\ Extends(cleanups, cleanups', n)
    BY <1>8, <1>15, <1>22 DEF Extends
  <2>2. Marks(stack', ToSet(frames), frames', cleanups')
    BY <1>0, <1>14, <1>21, <1>22, <2>1, PushMarks
  <2>5. \A i \in 1..Len(frames) : frames[i] \in Nat /\ frames[i] < n BY <1>14, Within
  <2>3. Pre(frames, frames') /\ Cut(frames', Len(frames), n)
    BY <1>14, <1>15, <1>22, <2>5 DEF Pre, Cut
  <2>4. Pre(cleanups, cleanups') /\ Cut(cleanups', Len(cleanups), n)
    BY <1>8, <1>14, <1>22, Within DEF Pre, Cut
  <2> QED BY <1>13, <1>14, <1>15, <2>2, <2>3, <2>4 DEF Marks
<1>24. Extends(handlers, handlers', Handler("catch"))
  BY <1>7, <1>8, <1>22 DEF Extends
<1>25. Registers(stack', UnwindHead', ToSet(frames'), ToSet(arms'))
  <2>1. n \notin ToSet(arms') BY <1>8, <1>14, Within DEF IInv, Arms
  <2>2. n \in Reg(stack', ToSet(arms')) <=> hc BY <1>7, <1>13, <1>14, <2>1 DEF Reg
  <2>3. CASE hc
    <3>1. /\ handlers' = PushedCatch /\ Len(handlers') = Len(handlers) + 1 /\ stack'[n].handle = handlers'
          /\ handlers' # <<>> /\ Last(handlers').at = n
      BY <1>5, <1>7, <1>8, <1>13, <1>14, <2>3
    <3>2. handlers' # handlers BY <1>22, <3>1
    <3>3. Newest(stack', handlers', Handler("catch")) BY <1>5, <1>13, <1>14, <1>22, <3>1 DEF Newest
    <3> QED BY <1>0, <1>2, <1>8, <1>9, <1>14, <1>15, <1>22, <1>24, <2>2, <2>3, <3>2, <3>3, PushRegisters
  <2>4. CASE ~ hc
    BY <1>0, <1>2, <1>8, <1>9, <1>14, <1>15, <1>22, <2>2, <2>4, PushRegisters
  <2> QED BY <2>3, <2>4
<1>26. Heads(stack', UnwindHead', ToSet(frames'))
  <2>1. Heads(stack', handlers', ToSet(frames))
    BY <1>0, <1>2, <1>5, <1>13, <1>14, <1>21, <1>22, <1>24, PushHeads
  <2>2. (handlers' # <<>> /\ Last(handlers').at = n)
         \/ (Pre(handlers', handlers') /\ CutAt(handlers', Len(handlers'), n))
    <3>1. CASE hc BY <1>5, <1>7, <1>8, <3>1
    <3>2. CASE ~ hc BY <1>2, <1>8, <1>14, <1>22, <3>2, Within DEF Pre, CutAt
    <3> QED BY <3>1, <3>2
  <2> QED BY <1>9, <1>13, <1>14, <1>15, <2>1, <2>2 DEF Heads
<1>27. Dispatches(stack', saved', running', handlers')
  BY <1>0, <1>2, <1>3, <1>8, <1>13, <1>14, PushQuiet
<1>28. Depths(stack', depth')
  <2>1. depth \in Nat /\ stack[Len(stack)].phase # "transfer" BY <1>3, <1>4, <1>14, BoundsAssumption
  <2> QED BY <1>0, <1>8, <1>13, <1>14, <2>1, PushDepths
<1> QED BY <1>0, <1>8, <1>9, <1>15, <1>16, <1>18, <1>19, <1>20, <1>23, <1>25, <1>26, <1>27, <1>28 DEF IInv

LEMMA Sizes ==
  ASSUME Types
  PROVE  /\ Len(frames) \in Nat /\ Len(cleanups) \in Nat /\ Len(arms) \in Nat
         /\ Len(handlers) \in Nat /\ DOMAIN handlers = 1..Len(handlers)
         /\ UnwindHead \in Chain /\ Len(UnwindHead) \in Nat /\ DOMAIN UnwindHead = 1..Len(UnwindHead)
         /\ depth \in Nat /\ errs \in Nat
<1>1. Len(frames) \in Nat /\ Len(cleanups) \in Nat /\ Len(arms) \in Nat BY DEF Types, Path
<1>2. handlers \in Chain /\ UnwindHead \in Chain BY DEF Types, UnwindHead
<1>3. depth \in Nat /\ errs \in Nat BY BoundsAssumption DEF Types
<1> QED BY <1>1, <1>2, <1>3, ChainElements

LEMMA Greatest ==
  ASSUME NEW n \in Nat, NEW S, S \subseteq 1..n, S # {}
  PROVE  \E x \in S : \A y \in S : y <= x
<1> DEFINE Up(x) == {y \in S : y >= x}
           T == {Up(x) : x \in S}
           R == StrictSubsetOrdering(1..n)
<1>1. IsWellFoundedOn(R, FiniteSubsetsOf(1..n)) BY FS_StrictSubsetOrderingWellFounded
<1>2. T \subseteq FiniteSubsetsOf(1..n) /\ T # {}
  <2>1. \A x \in S : Up(x) \subseteq 1..n OBVIOUS
  <2>2. \A x \in S : IsFiniteSet(Up(x))
    <3> HIDE DEF Up
    <3>1. IsFiniteSet(1..n) BY FS_Interval
    <3> QED BY <2>1, <3>1, FS_Subset
  <2> QED BY <2>1, <2>2 DEF FiniteSubsetsOf
<1>3. PICK U \in T : \A V \in T : ~(<<V, U>> \in R)
  <2> HIDE DEF T, R
  <2> QED BY <1>1, <1>2, WFMin
<1>4. PICK x \in S : U = Up(x) OBVIOUS
<1>5. ASSUME NEW y \in S, y > x PROVE FALSE
  <2>0. S \subseteq Nat OBVIOUS
  <2>1. Up(y) \subseteq Up(x) /\ x \in Up(x) /\ x \notin Up(y)
    <3> HIDE DEF T, R
    <3>1. x \in Nat /\ y \in Nat /\ y > x BY <1>5, <2>0
    <3>2. \A z \in S : z >= y => z >= x BY <2>0, <3>1
    <3>3. x >= x /\ ~(x >= y) BY <3>1
    <3> QED BY <3>2, <3>3
  <2>2. Up(x) \subseteq 1..n OBVIOUS
  <2>3. <<Up(y), Up(x)>> \in R BY <2>1, <2>2 DEF StrictSubsetOrdering
  <2> QED BY <1>3, <1>4, <1>5, <2>3
<1> QED BY <1>4, <1>5

(* Program code outside every cleanup runs above no transfer. *)
LEMMA NoCleanup ==
  ASSUME Types, Shape(stack), Coding, ~ InCallback, ~ InCleanup
  PROVE  \A o \in 1..Top : /\ stack[o].kind \in {"main", "try", "defer", "watch"}
                           /\ stack[o].phase # "finally"
<1>0. /\ Top \in Nat \ {0} /\ Top = Len(stack) /\ \A p \in 1..Top : stack[p] \in Activation
      /\ Now = stack[Top] /\ Now.phase \in {"body", "arm", "finally"}
  BY Stacked DEF Coding
<1>1. \A q \in 1..Top : stack[q].phase # "drain"
  <2> DEFINE D == {q \in 1..Top : stack[q].phase = "drain"}
  <2>1. SUFFICES ASSUME D # {} PROVE FALSE OBVIOUS
  <2>2. PICK q \in D : \A r \in D : r <= q BY <1>0, <2>1, Greatest
  <2>3. q + 1 \in 1..Top /\ stack[q].kind = "unwind" BY <1>0, <2>2, KindOf
  <2>4. stack[q + 1].kind = "thunk"
    <3>1. Sits(stack, q + 1) /\ q + 1 > 1 /\ (q + 1) - 1 = q BY <1>0, <2>2, <2>3 DEF Shape
    <3> QED BY <2>3, <3>1 DEF Sits
  <2>5. ~ Dead(stack, q + 1) BY <1>0, <2>2, <2>3 DEF Dead
  <2> QED BY <2>3, <2>4, <2>5, LiveIs DEF InCleanup
<1>2. \A p \in Nat : ~ Dead(stack, p) BY <1>0, <1>1 DEF Dead
<1>3. \A o \in 1..Top : stack[o].kind \notin {"callback", "thunk"} /\ stack[o].phase # "finally"
  BY <1>2, LiveIs DEF InCallback, InCleanup
<1>4. \A o \in 1..Top : stack[o].phase # "transfer"
  <2> SUFFICES ASSUME NEW o \in 1..Top, stack[o].phase = "transfer" PROVE FALSE OBVIOUS
  <2>1. o + 1 \in 1..Top BY <1>0
  <2>2. Sits(stack, o + 1) /\ o + 1 > 1 /\ (o + 1) - 1 = o BY <1>0, <2>1 DEF Shape
  <2> QED BY <2>2 DEF Sits
<1>5. \A o \in 1..Top : stack[o].kind # "dispatch"
  <2> SUFFICES ASSUME NEW o \in 1..Top, stack[o].kind = "dispatch" PROVE FALSE OBVIOUS
  <2>0. stack[o].phase \notin {"body", "arm", "finally"} BY <1>0, KindOf DEF DispatchType
  <2>1. o + 1 \in 1..Top BY <1>0, <2>0
  <2>2. Sits(stack, o + 1) /\ o + 1 > 1 /\ (o + 1) - 1 = o BY <1>0, <2>1 DEF Shape
  <2>3. stack[o + 1].kind = "unwind" BY <1>3, <2>1, <2>2 DEF Sits
  <2> QED BY <1>0, <1>1, <1>4, <2>1, <2>3, KindOf
<1>6. \A o \in 1..Top : stack[o].kind \in
        {"main", "try", "defer", "watch", "dispatch", "callback", "unwind", "thunk"}
  <2> TAKE o \in 1..Top
  <2>1. stack[o] \in Activation BY <1>0
  <2> QED BY <2>1 DEF Activation, MainType, TryType, DeferType, WatchType, DispatchType,
                      CallbackType, TransferType, DrainType, BodyType, DrainedType
<1>7. \A o \in 1..Top : stack[o].kind # "unwind" BY <1>0, <1>1, <1>4, KindOf
<1> QED BY <1>3, <1>5, <1>6, <1>7

LEMMA PushPlain ==
  ASSUME NEW s, NEW t, NEW sv, NEW rn, NEW hs, Pushed(s, t), Dispatches(s, sv, rn, hs),
         t[Len(t)].phase = "body", t[Len(t)].kind \in {"defer", "thunk"},
         t[Len(t)].kind = "thunk" => ~ t[Len(t)].drain,
         s[Len(s)].phase # "transfer", s[Len(s)].kind # "dispatch"
  PROVE  Dispatches(t, sv, rn, hs)
<1>1. CASE sv = <<>> BY <1>1, PushQuiet
<1>2. CASE sv # <<>>
  <2>1. PICK d \in 1..Len(s) : Dispatching(s, d, sv, rn, hs) BY <1>2 DEF Dispatches
  <2>2. Dispatching(t, d, sv, rn, hs) BY <2>1, PushDispatching
  <2>3. d \in 1..Len(t) BY DEF Pushed
  <2> QED BY <1>2, <2>2, <2>3 DEF Dispatches
<1> QED BY <1>1, <1>2

LEMMA PushHeadless ==
  ASSUME NEW s, NEW t, NEW F, NEW full, Pushed(s, t), Heads(s, full, F), t[Len(t)].phase # "drain",
         Len(full) \in Nat, \A p \in F : p \in 1..Len(s), t[Len(t)].kind = "thunk" => ~ t[Len(t)].drain
  PROVE  Heads(t, full, F)
<1>1. Extends(full, full, [at |-> Len(t)]) /\ [at |-> Len(t)].at = Len(t) BY DEF Extends
<1> QED BY <1>1, PushHeads

LEMMA OpenDeferStep ==
  ASSUME Types, IInv, OpenDefer
  PROVE  Types' /\ IInv'
<1> DEFINE n == Top + 1
           a == [kind |-> "defer", phase |-> "body", runs |-> 0]
<1>0. /\ Shape(stack) /\ Tries(stack, ToSet(arms)) /\ Frames(stack, ToSet(frames))
      /\ Targets(stack, ToSet(frames), ToSet(arms)) /\ Arms(stack, ToSet(frames), ToSet(arms))
      /\ Owes(stack, ToSet(cleanups)) /\ Marks(stack, ToSet(frames), frames, cleanups)
      /\ Registers(stack, UnwindHead, ToSet(frames), ToSet(arms))
      /\ Heads(stack, UnwindHead, ToSet(frames)) /\ Dispatches(stack, saved, running, handlers)
      /\ Depths(stack, depth) /\ Rising(UnwindHead) /\ Ascending(frames) /\ Ascending(cleanups)
      /\ Ascending(arms)
  BY DEF IInv
<1>1. Coding BY DEF OpenDefer, MayOpen
<1>2. Now.phase \in {"body", "arm", "finally"} /\ Now.kind \notin {"dispatch", "unwind"} /\ Now = stack[Top]
  BY <1>0, <1>1, Coded, Stacked
<1>3. /\ stack' = Append(stack, a) /\ cleanups' = Append(cleanups, n)
      /\ handlers' = handlers /\ saved' = saved /\ running' = running /\ arms' = arms
      /\ frames' = frames /\ errs' = errs /\ depth' = depth
  BY DEF OpenDefer, chains
<1>4. /\ handlers \in Chain /\ errs \in 0..ERROR_BOUND /\ frames \in Path /\ cleanups \in Path
      /\ depth \in 0..ERROR_MAX_DEPTH /\ arms \in Path /\ saved \in Chain /\ running \in Chain
  BY DEF Types
<1>5. a \in Activation BY DEF Activation, DeferType
<1>6. a.kind = "defer" /\ a.phase = "body" /\ a.runs = 0 OBVIOUS
<1> HIDE DEF a
<1>7. /\ stack' \in Seq(Activation) /\ Pushed(stack, stack') /\ Len(stack') = n
      /\ stack'[n] = a /\ Top \in Nat \ {0} /\ Top = Len(stack)
  BY <1>0, <1>3, <1>5, StackPush
<1>8. /\ cleanups' \in Path /\ Ascending(cleanups') /\ ToSet(cleanups') = ToSet(cleanups) \cup {n}
      /\ Len(cleanups') = Len(cleanups) + 1 /\ cleanups'[Len(cleanups) + 1] = n
      /\ \A i \in 1..Len(cleanups) : cleanups'[i] = cleanups[i]
  <2>1. \A y \in ToSet(cleanups) : y < n BY <1>7, Within
  <2> QED BY <1>0, <1>3, <1>4, <1>7, <2>1, AppendPath
<1>9. Types' BY <1>3, <1>4, <1>7, <1>8 DEF Types
<1>10. UnwindHead' = UnwindHead BY <1>3 DEF UnwindHead
<1>11. Shape(stack')
  <2>1. Sits(stack', n) BY <1>2, <1>6, <1>7 DEF Sits, Pushed
  <2> QED BY <1>0, <1>7, <2>1, PushShape
<1>12. /\ stack'[Len(stack')].kind = "defer" /\ stack'[Len(stack')].phase = "body"
       /\ stack'[Len(stack')].runs = 0 /\ stack[Len(stack)].phase # "transfer"
       /\ stack[Len(stack)].kind # "dispatch" /\ ToSet(cleanups') = ToSet(cleanups) \cup {Len(stack')}
  BY <1>2, <1>6, <1>7, <1>8
<1>13. /\ Tries(stack', ToSet(arms')) /\ Frames(stack', ToSet(frames'))
       /\ Targets(stack', ToSet(frames'), ToSet(arms')) /\ Arms(stack', ToSet(frames'), ToSet(arms'))
  BY <1>0, <1>3, <1>7, <1>12, PushRest
<1>14. Owes(stack', ToSet(cleanups')) BY <1>0, <1>7, <1>12, PushOwes DEF Cleaner
<1>15. \A p \in ToSet(frames) : p \in 1..Len(stack) BY <1>7, Within
<1>16. Marks(stack', ToSet(frames'), frames', cleanups')
  <2>1. Extends(frames, frames', Len(stack')) /\ Extends(cleanups, cleanups', Len(stack'))
    BY <1>3, <1>7, <1>8, Sizes DEF Extends
  <2> QED BY <1>0, <1>3, <1>7, <1>15, <2>1, Sizes, PushMarks
<1>17. Registers(stack', UnwindHead', ToSet(frames'), ToSet(arms'))
  <2>1. Len(stack') \notin Reg(stack', ToSet(arms')) BY <1>12 DEF Reg
  <2> QED BY <1>0, <1>3, <1>7, <1>10, <2>1, Sizes, PushRegisters
<1>18. Heads(stack', UnwindHead', ToSet(frames'))
  BY <1>0, <1>3, <1>7, <1>10, <1>12, <1>15, Sizes, PushHeadless
<1>19. Dispatches(stack', saved', running', handlers') BY <1>0, <1>3, <1>7, <1>12, PushPlain
<1>20. Depths(stack', depth') BY <1>0, <1>3, <1>7, <1>12, Sizes, PushDepths
<1> QED BY <1>0, <1>3, <1>8, <1>9, <1>10, <1>11, <1>13, <1>14, <1>16, <1>17, <1>18, <1>19, <1>20 DEF IInv

LEMMA OpenWatchStep ==
  ASSUME Types, IInv, OnlyDefers, OpenWatch
  PROVE  Types' /\ IInv'
<1> DEFINE n == Top + 1
           a == [kind |-> "watch", phase |-> "body", runs |-> 0, handle |-> handlers']
           e == Handler("watch")
<1>0. /\ Shape(stack) /\ Tries(stack, ToSet(arms)) /\ Frames(stack, ToSet(frames))
      /\ Targets(stack, ToSet(frames), ToSet(arms)) /\ Arms(stack, ToSet(frames), ToSet(arms))
      /\ Owes(stack, ToSet(cleanups)) /\ Marks(stack, ToSet(frames), frames, cleanups)
      /\ Registers(stack, UnwindHead, ToSet(frames), ToSet(arms))
      /\ Heads(stack, UnwindHead, ToSet(frames)) /\ Dispatches(stack, saved, running, handlers)
      /\ Depths(stack, depth) /\ Rising(UnwindHead) /\ Ascending(frames) /\ Ascending(cleanups)
      /\ Ascending(arms)
  BY DEF IInv
<1>1. Coding /\ ~ InCallback /\ ~ InCleanup BY DEF OpenWatch, MayOpen, OnlyDefers
<1>2. /\ Now.phase \in {"body", "arm", "finally"} /\ Now.kind \notin {"dispatch", "unwind"}
      /\ Now = stack[Top] /\ saved = <<>> /\ UnwindHead = handlers
  BY <1>0, <1>1, Coded, Stacked, LiveIs DEF InCallback, UnwindHead
<1>3. /\ stack' = Append(stack, a) /\ cleanups' = Append(cleanups, n) /\ handlers' = Append(handlers, e)
      /\ saved' = saved /\ running' = running /\ arms' = arms
      /\ frames' = frames /\ errs' = errs /\ depth' = depth
  BY DEF OpenWatch
<1>4. /\ handlers \in Chain /\ errs \in 0..ERROR_BOUND /\ frames \in Path /\ cleanups \in Path
      /\ depth \in 0..ERROR_MAX_DEPTH /\ arms \in Path /\ saved \in Chain /\ running \in Chain
  BY DEF Types
<1>5. e \in EntryType /\ e.at = n /\ e.kind = "watch"
  BY <1>0, <1>4, Stacked DEF Handler, EntryType
<1> HIDE DEF e
<1>6. \A y \in Ids(handlers) : y \in 1..Top BY <1>2, Within
<1>7. /\ handlers' \in Chain /\ Rising(handlers') /\ handlers' # <<>>
      /\ Len(handlers') = Len(handlers) + 1 /\ handlers'[Len(handlers) + 1] = e
      /\ \A i \in 1..Len(handlers) : handlers'[i] = handlers[i]
      /\ Last(handlers') = e
  <2>1. Rising(handlers) /\ \A y \in Ids(handlers) : y < e.at BY <1>0, <1>2, <1>5, <1>6, Stacked
  <2> QED BY <1>3, <1>4, <1>5, <2>1, AppendChain
<1>8. a \in Activation
  <2>1. a \in WatchType BY <1>7 DEF WatchType
  <2> QED BY <2>1 DEF Activation
<1>9. a.kind = "watch" /\ a.phase = "body" /\ a.runs = 0 /\ a.handle = handlers' OBVIOUS
<1> HIDE DEF a
<1>10. /\ stack' \in Seq(Activation) /\ Pushed(stack, stack') /\ Len(stack') = n
       /\ stack'[n] = a /\ Top \in Nat \ {0} /\ Top = Len(stack)
  BY <1>0, <1>3, <1>8, StackPush
<1>11. /\ cleanups' \in Path /\ Ascending(cleanups') /\ ToSet(cleanups') = ToSet(cleanups) \cup {n}
       /\ Len(cleanups') = Len(cleanups) + 1 /\ cleanups'[Len(cleanups) + 1] = n
       /\ \A i \in 1..Len(cleanups) : cleanups'[i] = cleanups[i]
  <2>1. \A y \in ToSet(cleanups) : y < n BY <1>10, Within
  <2> QED BY <1>0, <1>3, <1>4, <1>10, <2>1, AppendPath
<1>12. Types' BY <1>3, <1>4, <1>7, <1>10, <1>11 DEF Types
<1>13. UnwindHead' = handlers' BY <1>2, <1>3 DEF UnwindHead
<1>14. Shape(stack')
  <2>1. \A o \in 1 .. n - 1 : /\ stack[o].kind \in {"main", "try", "defer", "watch"}
                              /\ stack[o].phase # "finally"
    BY <1>0, <1>1, <1>10, NoCleanup
  <2>2. Sits(stack', n) BY <1>2, <1>9, <1>10, <2>1 DEF Sits, Pushed
  <2> QED BY <1>0, <1>10, <2>2, PushShape
<1>15. /\ stack'[Len(stack')].kind = "watch" /\ stack'[Len(stack')].phase = "body"
       /\ stack'[Len(stack')].runs = 0 /\ stack[Len(stack)].phase # "transfer"
       /\ stack[Len(stack)].kind # "dispatch" /\ ToSet(cleanups') = ToSet(cleanups) \cup {Len(stack')}
  BY <1>2, <1>9, <1>10, <1>11
<1>16. /\ Tries(stack', ToSet(arms')) /\ Frames(stack', ToSet(frames'))
       /\ Targets(stack', ToSet(frames'), ToSet(arms')) /\ Arms(stack', ToSet(frames'), ToSet(arms'))
  BY <1>0, <1>3, <1>10, <1>15, PushRest
<1>17. Owes(stack', ToSet(cleanups')) BY <1>0, <1>10, <1>15, PushOwes DEF Cleaner
<1>18. \A p \in ToSet(frames) : p \in 1..Len(stack) BY <1>10, Within
<1>19. Marks(stack', ToSet(frames'), frames', cleanups')
  <2>1. Extends(frames, frames', Len(stack')) /\ Extends(cleanups, cleanups', Len(stack'))
    BY <1>3, <1>10, <1>11, Sizes DEF Extends
  <2> QED BY <1>0, <1>3, <1>10, <1>18, <2>1, Sizes, PushMarks
<1>20. Extends(handlers, handlers', e) BY <1>7, Sizes DEF Extends
<1>21. Registers(stack', UnwindHead', ToSet(frames'), ToSet(arms'))
  <2>1. Len(stack') \in Reg(stack', ToSet(arms')) BY <1>10, <1>15 DEF Reg
  <2>2. handlers' # handlers BY <1>7, Sizes
  <2>3. Newest(stack', handlers', e)
    BY <1>5, <1>7, <1>9, <1>10, <1>15, ChainElements DEF Newest
  <2> QED BY <1>0, <1>2, <1>3, <1>10, <1>13, <1>15, <1>20, <2>1, <2>2, <2>3, Sizes, PushRegisters
<1>22. Heads(stack', UnwindHead', ToSet(frames'))
  <2>1. e.at = Len(stack') /\ stack'[Len(stack')].phase # "drain" /\ stack'[Len(stack')].kind # "thunk"
    BY <1>5, <1>10, <1>15
  <2> QED BY <1>0, <1>2, <1>3, <1>10, <1>13, <1>18, <1>20, <2>1, Sizes, PushHeads
<1>23. Dispatches(stack', saved', running', handlers')
  <2>1. stack'[Len(stack')].phase \notin {"drain", "transfer"}
        /\ stack'[Len(stack')].kind \notin {"dispatch", "callback"}
    BY <1>15
  <2> QED BY <1>0, <1>2, <1>3, <1>10, <1>15, <2>1, PushQuiet
<1>24. Depths(stack', depth') BY <1>0, <1>3, <1>10, <1>15, Sizes, PushDepths
<1> QED BY <1>0, <1>3, <1>7, <1>11, <1>12, <1>13, <1>14, <1>16, <1>17, <1>19, <1>21, <1>22, <1>23, <1>24 DEF IInv

LEMMA Unmoved ==
  ASSUME Types, IInv, UNCHANGED <<stack, chains, cleanups, frames, errs, depth>>
  PROVE  Types' /\ IInv'
<1>1. /\ stack' = stack /\ handlers' = handlers /\ saved' = saved /\ running' = running /\ arms' = arms
      /\ cleanups' = cleanups /\ frames' = frames /\ errs' = errs /\ depth' = depth
  BY DEF chains
<1>2. UnwindHead' = UnwindHead BY <1>1 DEF UnwindHead
<1> QED BY <1>1, <1>2 DEF Types, IInv

LEMMA RaiseStep ==
  ASSUME Types, IInv, NEW code \in {"hard", "soft"}, Raise(code)
  PROVE  Types' /\ IInv'
<1> DEFINE n == Top + 1
           a == [kind |-> "dispatch", phase |-> "offer", code |-> code, raisedAt |-> errs,
                 chain |-> handlers, outer |-> saved, outerRunning |-> running, offer |-> handlers]
<1>0. /\ Shape(stack) /\ Tries(stack, ToSet(arms)) /\ Frames(stack, ToSet(frames))
      /\ Targets(stack, ToSet(frames), ToSet(arms)) /\ Arms(stack, ToSet(frames), ToSet(arms))
      /\ Owes(stack, ToSet(cleanups)) /\ Marks(stack, ToSet(frames), frames, cleanups)
      /\ Registers(stack, UnwindHead, ToSet(frames), ToSet(arms))
      /\ Heads(stack, UnwindHead, ToSet(frames)) /\ Dispatches(stack, saved, running, handlers)
      /\ Depths(stack, depth) /\ Rising(UnwindHead) /\ Ascending(frames) /\ Ascending(cleanups)
      /\ Ascending(arms)
  BY DEF IInv
<1>1. Coding BY DEF Raise
<1>a. CASE depth >= ERROR_MAX_DEPTH \/ errs >= ERROR_BOUND
  <2>1. UNCHANGED <<stack, chains, cleanups, frames, errs, depth>>
    BY <1>a DEF Raise, Recorded, Fatal
  <2> QED BY <2>1, Unmoved
<1>b. CASE ~ (depth >= ERROR_MAX_DEPTH \/ errs >= ERROR_BOUND)
  <2>2. Now.phase \in {"body", "arm", "finally"} /\ Now.kind \notin {"dispatch", "unwind"} /\ Now = stack[Top]
    BY <1>0, <1>1, Coded, Stacked
  <2>3. /\ stack' = Append(stack, a) /\ cleanups' = cleanups
        /\ handlers' = handlers /\ saved' = (IF saved = <<>> THEN handlers ELSE saved)
        /\ running' = running /\ arms' = arms
        /\ frames' = frames /\ errs' = errs + 1 /\ depth' = depth + 1
    BY <1>b DEF Raise, Recorded, Dispatched
  <2>4. /\ handlers \in Chain /\ errs \in 0..ERROR_BOUND /\ frames \in Path /\ cleanups \in Path
        /\ depth \in 0..ERROR_MAX_DEPTH /\ arms \in Path /\ saved \in Chain /\ running \in Chain
    BY DEF Types
  <2>5. a \in Activation
    <3>1. a \in DispatchType BY <2>4 DEF DispatchType
    <3> QED BY <3>1 DEF Activation
  <2>6. /\ a.kind = "dispatch" /\ a.phase = "offer" /\ a.chain = handlers /\ a.outer = saved
        /\ a.outerRunning = running /\ a.offer = handlers
    OBVIOUS
  <2> HIDE DEF a
  <2>7. /\ stack' \in Seq(Activation) /\ Pushed(stack, stack') /\ Len(stack') = n
        /\ stack'[n] = a /\ Top \in Nat \ {0} /\ Top = Len(stack)
    BY <1>0, <2>3, <2>5, StackPush
  <2>8. errs' \in 0..ERROR_BOUND /\ depth' \in 0..ERROR_MAX_DEPTH
    BY <1>b, <2>3, <2>4, BoundsAssumption
  <2>9. Types' BY <2>3, <2>4, <2>7, <2>8 DEF Types
  <2>10. UnwindHead' = UnwindHead BY <2>3 DEF UnwindHead
  <2>11. Shape(stack')
    <3>1. Sits(stack', n) BY <2>2, <2>6, <2>7 DEF Sits, Pushed
    <3> QED BY <1>0, <2>7, <3>1, PushShape
  <2>12. /\ stack'[Len(stack')].kind = "dispatch" /\ stack'[Len(stack')].phase = "offer"
         /\ stack[Len(stack)].phase # "transfer" /\ stack[Len(stack)].kind # "dispatch"
         /\ stack'[Len(stack')] = a
    BY <2>2, <2>6, <2>7
  <2>13. /\ Tries(stack', ToSet(arms')) /\ Frames(stack', ToSet(frames'))
         /\ Targets(stack', ToSet(frames'), ToSet(arms')) /\ Arms(stack', ToSet(frames'), ToSet(arms'))
    BY <1>0, <2>3, <2>7, <2>12, PushRest
  <2>14. Owes(stack', ToSet(cleanups')) BY <1>0, <2>3, <2>7, <2>12, PushOwes DEF Cleaner
  <2>15. \A p \in ToSet(frames) : p \in 1..Len(stack) BY <2>7, Within
  <2>16. Marks(stack', ToSet(frames'), frames', cleanups')
    <3>1. Extends(frames, frames', Len(stack')) /\ Extends(cleanups, cleanups', Len(stack'))
      BY <2>3 DEF Extends
    <3> QED BY <1>0, <2>3, <2>7, <2>15, <3>1, Sizes, PushMarks
  <2>17. Registers(stack', UnwindHead', ToSet(frames'), ToSet(arms'))
    <3>1. Len(stack') \notin Reg(stack', ToSet(arms')) BY <2>12 DEF Reg
    <3> QED BY <1>0, <2>3, <2>7, <2>10, <3>1, Sizes, PushRegisters
  <2>18. Heads(stack', UnwindHead', ToSet(frames'))
    BY <1>0, <2>3, <2>7, <2>10, <2>12, <2>15, Sizes, PushHeadless
  <2>19. Dispatches(stack', saved', running', handlers')
    <3>1. CASE saved # <<>>
      <4>1. PICK d \in 1..Len(stack) : Dispatching(stack, d, saved, running, handlers)
        BY <1>0, <3>1 DEF Dispatches
      <4>2. Pre(handlers, saved) /\ Pre(running, saved) BY <1>0, <3>1 DEF Dispatches
      <4>3. Dispatching(stack', d, saved, running, handlers)
        BY <2>6, <2>7, <2>12, <4>1, <4>2, PushDispatching
      <4>4. d \in 1..Len(stack') BY <2>7
      <4> QED BY <2>3, <3>1, <4>2, <4>3, <4>4 DEF Dispatches
    <3>2. CASE saved = <<>>
      <4>1. running = <<>> /\ Silent(stack) BY <1>0, <1>1, <3>2, Coded DEF Dispatches
      <4>2. \A p \in Nat : Dead(stack, p) <=> Dead(stack', p) BY <2>7, <2>12, PushDead
      <4>3. \A c \in 1..Len(stack') : stack'[c].kind = "callback" => c \in 1..Len(stack) /\ Dead(stack', c)
        BY <2>7, <2>12, <4>1, <4>2 DEF Pushed, Silent
      <4>4. saved' = handlers /\ running' = <<>> /\ handlers' = handlers BY <2>3, <3>2, <4>1
      <4>5. CASE handlers = <<>>
        BY <2>6, <2>12, <3>2, <4>1, <4>3, <4>4, <4>5 DEF Dispatches
      <4>6. CASE handlers # <<>>
        <5>1. Pre(handlers, handlers) /\ Pre(<<>>, handlers)
          BY Sizes DEF Pre
        <5>2. Dispatching(stack', n, handlers, <<>>, handlers)
          BY <2>6, <2>7, <2>12, <3>2, <4>1, <4>3, <5>1 DEF Dispatching
        <5>3. n \in 1..Len(stack') BY <2>7
        <5> QED BY <4>4, <4>6, <5>1, <5>2, <5>3 DEF Dispatches
      <4> QED BY <4>5, <4>6
    <3> QED BY <3>1, <3>2
  <2>20. Depths(stack', depth') BY <1>0, <2>3, <2>7, <2>12, Sizes, PushDepths
  <2> QED BY <1>0, <2>3, <2>9, <2>10, <2>11, <2>13, <2>14, <2>16, <2>17, <2>18, <2>19, <2>20 DEF IInv
<1> QED BY <1>a, <1>b

LEMMA PushCallback ==
  ASSUME NEW s, NEW t, NEW d, NEW sv, NEW rn, NEW hs, Pushed(s, t), Dispatching(s, d, sv, rn, hs),
         t[Len(t)].phase = "body", s[Len(s)].kind = "dispatch", s[Len(s)].offer # <<>>,
         t[Len(t)].kind = "callback", NEW rr, rr = s[Len(s)].offer
  PROVE  Dispatching(t, d, sv, rr, Front(rr))
<1>1. \A p \in Nat : Dead(s, p) <=> Dead(t, p) BY PushDead
<1>2. /\ Len(s) \in Nat \ {0} /\ Len(t) = Len(s) + 1 /\ \A p \in 1..Len(s) : t[p] = s[p]
      /\ \A p \in 1..Len(t) : p \in 1..Len(s) \/ p = Len(t)
  BY DEF Pushed
<1>3. d \in 1..Len(s) /\ d \in Nat BY DEF Dispatching
<1>5. Inner(t, Len(t), Len(t) + 1) /\ rr = t[Len(t) - 1].offer /\ Len(t) \in d + 1 .. Len(t)
      /\ t[Len(t) - 1] = s[Len(s)]
  BY <1>2, <1>3 DEF Inner
<1>6. /\ d \in 1..Len(t) /\ t[d].kind = "dispatch"
      /\ t[d].outer = <<>> /\ t[d].outerRunning = <<>> /\ t[d].chain = sv
      /\ \A o \in 1 .. d - 1 : t[o].kind = "callback" => Dead(t, o)
  BY <1>1, <1>2, <1>3 DEF Dispatching
<1>7. \A p \in d + 1 .. Len(t) : /\ t[p].kind \in {"dispatch", "callback", "defer", "thunk"}
                                 /\ t[p].kind = "thunk" => ~ t[p].drain
                                 /\ t[p].kind = "callback" => t[p - 1].offer # <<>>
  <2> TAKE p \in d + 1 .. Len(t)
  <2>1. CASE p = Len(t) BY <1>5, <2>1
  <2>2. CASE p # Len(t)
    <3>1. p \in d + 1 .. Len(s) /\ t[p] = s[p] /\ t[p - 1] = s[p - 1] BY <1>2, <1>3, <2>2
    <3> QED BY <3>1 DEF Dispatching
  <2> QED BY <2>1, <2>2
<1>8. \A e \in d .. Len(t) : t[e].kind = "dispatch" => Pre(t[e].offer, sv)
  BY <1>2, <1>3 DEF Dispatching
<1>9. ASSUME NEW e \in d + 1 .. Len(t), t[e].kind = "dispatch"
      PROVE  /\ t[e].outer = sv
             /\ \E o \in d + 1 .. e - 1 : /\ Inner(t, o, e) /\ t[e].outerRunning = t[o - 1].offer
                                          /\ t[e].chain = Front(t[o - 1].offer)
  <2>1. e \in d + 1 .. Len(s) /\ t[e] = s[e] BY <1>2, <1>3, <1>9
  <2>2. PICK o \in d + 1 .. e - 1 : /\ Inner(s, o, e) /\ s[e].outerRunning = s[o - 1].offer
                                    /\ s[e].chain = Front(s[o - 1].offer)
    BY <1>9, <2>1 DEF Dispatching
  <2>6. \A c \in 1 .. e - 1 : t[c] = s[c] BY <1>2, <1>3, <2>1
  <2>7. Inner(s, o, e) /\ e \in Nat /\ o \in Nat BY <1>2, <1>3, <2>1, <2>2
  <2>3. Inner(t, o, e) BY <2>6, <2>7 DEF Inner
  <2>5. t[o - 1] = s[o - 1]
    <3>1. o \in Nat /\ o - 1 \in 1..Len(s) BY <1>2, <1>3, <2>1, <2>2
    <3> QED BY <1>2, <3>1
  <2>4. t[e].outer = sv BY <1>9, <2>1 DEF Dispatching
  <2> QED BY <2>1, <2>2, <2>3, <2>4, <2>5
<1> QED BY <1>5, <1>6, <1>7, <1>8, <1>9 DEF Dispatching

(* What a dispatch on top of the stack knows. *)
LEMMA Offers ==
  ASSUME Types, IInv, Now.kind = "dispatch"
  PROVE  /\ Now = stack[Len(stack)] /\ Now \in DispatchType /\ stack[Len(stack)].kind = "dispatch"
         /\ stack[Len(stack)].phase \in {"offer", "handled"}
         /\ depth - 1 \in 0..ERROR_MAX_DEPTH /\ depth - 1 \in Nat
         /\ ~ Dead(stack, Len(stack))
         /\ Now.offer # <<>> =>
              /\ saved # <<>> /\ UnwindHead = saved /\ Pre(Now.offer, saved)
              /\ \E d \in 1..Len(stack) : Dispatching(stack, d, saved, running, handlers)
              /\ Last(Now.offer) \in EntryType /\ Last(Now.offer).at \in Reg(stack, ToSet(arms))
              /\ Last(Now.offer).kind = "catch" <=> stack[Last(Now.offer).at].kind = "try"
              /\ Pre(Front(Now.offer), saved)
<1>0. /\ Shape(stack) /\ Depths(stack, depth) /\ Dispatches(stack, saved, running, handlers)
      /\ Registers(stack, UnwindHead, ToSet(frames), ToSet(arms))
  BY DEF IInv
<1>1. /\ Top \in Nat \ {0} /\ Top = Len(stack) /\ \A p \in 1..Top : stack[p] \in Activation
      /\ Now = stack[Top]
  BY <1>0, Stacked
<1>2. Now \in DispatchType BY <1>1, KindOf
<1>3. Now.phase \in {"offer", "handled"} /\ Now.offer \in Chain BY <1>2 DEF DispatchType
<1>4. ~ Dead(stack, Top) BY <1>1 DEF Dead
<1>5. Top \in Active(stack) BY <1>1, <1>4 DEF Active
<1>6. Cardinality(Active(stack)) # 0 /\ Cardinality(Active(stack)) \in Nat
  BY <1>1, <1>5, ActiveFinite, FS_EmptySet
<1>7. Cardinality(Active(stack)) <= depth BY <1>0, <1>1, <1>3 DEF Depths
<1>8. depth \in 0..ERROR_MAX_DEPTH /\ depth - 1 \in 0..ERROR_MAX_DEPTH /\ depth - 1 \in Nat
  BY <1>6, <1>7, BoundsAssumption DEF Types
<1>9. ASSUME Now.offer # <<>>
      PROVE  /\ saved # <<>> /\ UnwindHead = saved /\ Pre(Now.offer, saved)
             /\ \E d \in 1..Len(stack) : Dispatching(stack, d, saved, running, handlers)
             /\ Last(Now.offer) \in EntryType /\ Last(Now.offer).at \in Reg(stack, ToSet(arms))
             /\ Last(Now.offer).kind = "catch" <=> stack[Last(Now.offer).at].kind = "try"
             /\ Pre(Front(Now.offer), saved)
  <2>1. saved # <<>> BY <1>0, <1>1, <1>9 DEF Dispatches
  <2>2. PICK d \in 1..Len(stack) : Dispatching(stack, d, saved, running, handlers)
    BY <1>0, <2>1 DEF Dispatches
  <2>3. Pre(Now.offer, saved) BY <1>1, <2>2 DEF Dispatching
  <2>4. UnwindHead = saved BY <2>1 DEF UnwindHead
  <2>5. /\ Front(Now.offer) \in Chain /\ Len(Front(Now.offer)) = Len(Now.offer) - 1
        /\ Len(Now.offer) \in Nat \ {0} /\ Last(Now.offer) \in EntryType
        /\ Last(Now.offer) = Now.offer[Len(Now.offer)]
        /\ \A i \in 1 .. Len(Now.offer) - 1 : Front(Now.offer)[i] = Now.offer[i]
    BY <1>3, <1>9, FrontFacts DEF Chain
  <2>6. saved \in Chain BY DEF Types
  <2>7. Len(saved) \in Nat /\ DOMAIN saved = 1..Len(saved) BY <2>6, ChainElements
  <2>8. Len(Now.offer) \in 1..Len(saved) /\ Last(Now.offer) = saved[Len(Now.offer)]
    BY <2>3, <2>5, <2>7 DEF Pre
  <2>9. Pre(Front(Now.offer), saved) BY <2>3, <2>5, <2>7 DEF Pre
  <2>10. Last(Now.offer).at \in Ids(saved) BY <2>7, <2>8 DEF Ids
  <2>11. Ids(saved) = Reg(stack, ToSet(arms)) BY <1>0, <2>4 DEF Registers
  <2>12. Last(Now.offer).kind = "catch" <=> stack[Last(Now.offer).at].kind = "try"
    BY <1>0, <2>4, <2>8 DEF Registers
  <2> QED BY <2>1, <2>2, <2>3, <2>4, <2>5, <2>9, <2>10, <2>11, <2>12
<1> QED BY <1>1, <1>2, <1>3, <1>4, <1>8, <1>9

LEMMA ObserveStep ==
  ASSUME Types, IInv, Observe
  PROVE  Types' /\ IInv'
<1> DEFINE n == Top + 1
           a == [kind |-> "callback", phase |-> "body", runs |-> 0]
<1>0. /\ Shape(stack) /\ Tries(stack, ToSet(arms)) /\ Frames(stack, ToSet(frames))
      /\ Targets(stack, ToSet(frames), ToSet(arms)) /\ Arms(stack, ToSet(frames), ToSet(arms))
      /\ Owes(stack, ToSet(cleanups)) /\ Marks(stack, ToSet(frames), frames, cleanups)
      /\ Registers(stack, UnwindHead, ToSet(frames), ToSet(arms))
      /\ Heads(stack, UnwindHead, ToSet(frames)) /\ Dispatches(stack, saved, running, handlers)
      /\ Depths(stack, depth) /\ Rising(UnwindHead) /\ Ascending(frames) /\ Ascending(cleanups)
      /\ Ascending(arms)
  BY DEF IInv
<1>1. Now.phase = "offer" /\ Now.offer # <<>> BY DEF Observe, Offering
<1>2. /\ Now.kind = "dispatch" /\ Now = stack[Top] /\ Now.offer \in Chain
  <2>1. Now \in Activation /\ Now = stack[Top] BY <1>0, Stacked
  <2>2. \A b \in Activation : b.phase = "offer" => b \in DispatchType
    BY DEF Activation, MainType, TryType, DeferType, WatchType, DispatchType,
           CallbackType, TransferType, DrainType, BodyType, DrainedType
  <2> QED BY <1>1, <2>1, <2>2 DEF DispatchType
<1>3. /\ stack' = Append(stack, a) /\ cleanups' = Append(cleanups, n) /\ handlers' = Front(Now.offer)
      /\ saved' = saved /\ running' = Now.offer /\ arms' = arms
      /\ frames' = frames /\ errs' = errs /\ depth' = depth
  BY DEF Observe
<1>4. /\ handlers \in Chain /\ errs \in 0..ERROR_BOUND /\ frames \in Path /\ cleanups \in Path
      /\ depth \in 0..ERROR_MAX_DEPTH /\ arms \in Path /\ saved \in Chain /\ running \in Chain
  BY DEF Types
<1>5. a \in Activation BY DEF Activation, CallbackType
<1>6. a.kind = "callback" /\ a.phase = "body" /\ a.runs = 0 OBVIOUS
<1> HIDE DEF a
<1>7. /\ stack' \in Seq(Activation) /\ Pushed(stack, stack') /\ Len(stack') = n
      /\ stack'[n] = a /\ Top \in Nat \ {0} /\ Top = Len(stack)
  BY <1>0, <1>3, <1>5, StackPush
<1>8. /\ cleanups' \in Path /\ Ascending(cleanups') /\ ToSet(cleanups') = ToSet(cleanups) \cup {n}
      /\ Len(cleanups') = Len(cleanups) + 1 /\ cleanups'[Len(cleanups) + 1] = n
      /\ \A i \in 1..Len(cleanups) : cleanups'[i] = cleanups[i]
  <2>1. \A y \in ToSet(cleanups) : y < n BY <1>7, Within
  <2> QED BY <1>0, <1>3, <1>4, <1>7, <2>1, AppendPath
<1>9. Types'
  <2>1. Front(Now.offer) \in Chain BY <1>1, <1>2, FrontFacts DEF Chain
  <2> QED BY <1>2, <1>3, <1>4, <1>7, <1>8, <2>1 DEF Types
<1>10. UnwindHead' = UnwindHead BY <1>1, <1>2, <1>3, Offers DEF UnwindHead
<1>11. Shape(stack')
  <2>1. Sits(stack', n) BY <1>1, <1>2, <1>6, <1>7 DEF Sits, Pushed
  <2> QED BY <1>0, <1>7, <2>1, PushShape
<1>12. /\ stack'[Len(stack')].kind = "callback" /\ stack'[Len(stack')].phase = "body"
       /\ stack'[Len(stack')].runs = 0 /\ stack[Len(stack)].phase # "transfer"
       /\ stack[Len(stack)].kind = "dispatch" /\ ToSet(cleanups') = ToSet(cleanups) \cup {Len(stack')}
  BY <1>1, <1>2, <1>6, <1>7, <1>8
<1>13. /\ Tries(stack', ToSet(arms')) /\ Frames(stack', ToSet(frames'))
       /\ Targets(stack', ToSet(frames'), ToSet(arms')) /\ Arms(stack', ToSet(frames'), ToSet(arms'))
  BY <1>0, <1>3, <1>7, <1>12, PushRest
<1>14. Owes(stack', ToSet(cleanups')) BY <1>0, <1>7, <1>12, PushOwes DEF Cleaner
<1>15. \A p \in ToSet(frames) : p \in 1..Len(stack) BY <1>7, Within
<1>16. Marks(stack', ToSet(frames'), frames', cleanups')
  <2>1. Extends(frames, frames', Len(stack')) /\ Extends(cleanups, cleanups', Len(stack'))
    BY <1>3, <1>7, <1>8, Sizes DEF Extends
  <2> QED BY <1>0, <1>3, <1>7, <1>15, <2>1, Sizes, PushMarks
<1>17. Registers(stack', UnwindHead', ToSet(frames'), ToSet(arms'))
  <2>1. Len(stack') \notin Reg(stack', ToSet(arms')) BY <1>12 DEF Reg
  <2> QED BY <1>0, <1>3, <1>7, <1>10, <2>1, Sizes, PushRegisters
<1>18. Heads(stack', UnwindHead', ToSet(frames'))
  BY <1>0, <1>3, <1>7, <1>10, <1>12, <1>15, Sizes, PushHeadless
<1>19. Dispatches(stack', saved', running', handlers')
  <2>1. saved # <<>> /\ Pre(Now.offer, saved) /\ Pre(Front(Now.offer), saved)
    BY <1>1, <1>2, Offers
  <2>2. PICK d \in 1..Len(stack) : Dispatching(stack, d, saved, running, handlers)
    BY <1>1, <1>2, Offers
  <2>3. stack[Len(stack)] = Now BY <1>2, <1>7
  <2>4. Dispatching(stack', d, saved, Now.offer, Front(Now.offer))
    BY <1>1, <1>7, <1>12, <2>2, <2>3, PushCallback
  <2>5. d \in 1..Len(stack') BY <1>7
  <2> QED BY <1>3, <2>1, <2>4, <2>5 DEF Dispatches
<1>20. Depths(stack', depth') BY <1>0, <1>3, <1>7, <1>12, Sizes, PushDepths
<1> QED BY <1>0, <1>3, <1>8, <1>9, <1>10, <1>11, <1>13, <1>14, <1>16, <1>17, <1>18, <1>19, <1>20 DEF IInv

LEMMA CatchSelectsStep ==
  ASSUME Types, IInv, CatchSelects
  PROVE  Types' /\ IInv'
<1> DEFINE n == Top + 1
           a == [kind |-> "unwind", phase |-> "transfer", target |-> Last(Now.offer).at]
<1>0. /\ Shape(stack) /\ Tries(stack, ToSet(arms)) /\ Frames(stack, ToSet(frames))
      /\ Targets(stack, ToSet(frames), ToSet(arms)) /\ Arms(stack, ToSet(frames), ToSet(arms))
      /\ Owes(stack, ToSet(cleanups)) /\ Marks(stack, ToSet(frames), frames, cleanups)
      /\ Registers(stack, UnwindHead, ToSet(frames), ToSet(arms))
      /\ Heads(stack, UnwindHead, ToSet(frames)) /\ Dispatches(stack, saved, running, handlers)
      /\ Depths(stack, depth) /\ Rising(UnwindHead) /\ Ascending(frames) /\ Ascending(cleanups)
      /\ Ascending(arms)
  BY DEF IInv
<1>1. Now.phase = "offer" /\ Now.offer # <<>> /\ Last(Now.offer).kind = "catch"
  BY DEF CatchSelects, Offering
<1>2. Now.kind = "dispatch" /\ Now = stack[Top] /\ Now.offer \in Chain
  <2>1. Now \in Activation /\ Now = stack[Top] BY <1>0, Stacked
  <2>2. \A b \in Activation : b.phase = "offer" => b \in DispatchType
    BY DEF Activation, MainType, TryType, DeferType, WatchType, DispatchType,
           CallbackType, TransferType, DrainType, BodyType, DrainedType
  <2> QED BY <1>1, <2>1, <2>2 DEF DispatchType
<1>3. /\ stack' = Append(stack, a) /\ cleanups' = cleanups /\ handlers' = saved
      /\ saved' = <<>> /\ running' = <<>> /\ arms' = arms
      /\ frames' = frames /\ errs' = Last(Now.offer).mark /\ depth' = depth - 1
  BY DEF CatchSelects, Retain
<1>4. /\ handlers \in Chain /\ errs \in 0..ERROR_BOUND /\ frames \in Path /\ cleanups \in Path
      /\ depth \in 0..ERROR_MAX_DEPTH /\ arms \in Path /\ saved \in Chain /\ running \in Chain
  BY DEF Types
<1>5. /\ Last(Now.offer) \in EntryType /\ Last(Now.offer).at \in Reg(stack, ToSet(arms))
      /\ stack[Last(Now.offer).at].kind = "try" /\ saved # <<>> /\ UnwindHead = saved
      /\ depth - 1 \in 0..ERROR_MAX_DEPTH /\ stack[Len(stack)] = Now
  BY <1>1, <1>2, Offers
<1>6. a \in Activation
  <2>1. Last(Now.offer).at \in Nat BY <1>5 DEF EntryType
  <2>2. a \in TransferType BY <2>1 DEF TransferType
  <2> QED BY <2>2 DEF Activation
<1>7. a.kind = "unwind" /\ a.phase = "transfer" /\ a.target = Last(Now.offer).at OBVIOUS
<1> HIDE DEF a
<1>8. /\ stack' \in Seq(Activation) /\ Pushed(stack, stack') /\ Len(stack') = n
      /\ stack'[n] = a /\ Top \in Nat \ {0} /\ Top = Len(stack)
  BY <1>0, <1>3, <1>6, StackPush
<1>9. Types'
  <2>1. Last(Now.offer).mark \in 0..ERROR_BOUND /\ <<>> \in Chain BY <1>5 DEF EntryType, Chain
  <2> QED BY <1>3, <1>4, <1>5, <1>8, <2>1 DEF Types
<1>10. UnwindHead' = UnwindHead BY <1>3, <1>5 DEF UnwindHead
<1>11. Shape(stack')
  <2>1. Sits(stack', n) BY <1>1, <1>2, <1>7, <1>8 DEF Sits, Pushed
  <2> QED BY <1>0, <1>8, <2>1, PushShape
<1>12. /\ stack'[Len(stack')].kind = "unwind" /\ stack'[Len(stack')].phase = "transfer"
       /\ stack[Len(stack)].phase # "transfer" /\ stack'[Len(stack')].target = Last(Now.offer).at
  BY <1>1, <1>2, <1>7, <1>8
<1>13. /\ Tries(stack', ToSet(arms')) /\ Frames(stack', ToSet(frames'))
       /\ Targets(stack', ToSet(frames'), ToSet(arms')) /\ Arms(stack', ToSet(frames'), ToSet(arms'))
  <2>1. Caught(stack, ToSet(frames), ToSet(arms), Last(Now.offer).at)
    BY <1>0, <1>5 DEF Registers, Reg, Caught
  <2> QED BY <1>0, <1>3, <1>8, <1>12, <2>1, PushRest
<1>14. Owes(stack', ToSet(cleanups')) BY <1>0, <1>3, <1>8, <1>12, PushOwes DEF Cleaner
<1>15. \A p \in ToSet(frames) : p \in 1..Len(stack) BY <1>8, Within
<1>16. Marks(stack', ToSet(frames'), frames', cleanups')
  <2>1. Extends(frames, frames', Len(stack')) /\ Extends(cleanups, cleanups', Len(stack'))
    BY <1>3 DEF Extends
  <2> QED BY <1>0, <1>3, <1>8, <1>15, <2>1, Sizes, PushMarks
<1>17. Registers(stack', UnwindHead', ToSet(frames'), ToSet(arms'))
  <2>1. Len(stack') \notin Reg(stack', ToSet(arms')) BY <1>12 DEF Reg
  <2> QED BY <1>0, <1>3, <1>8, <1>10, <2>1, Sizes, PushRegisters
<1>18. Heads(stack', UnwindHead', ToSet(frames'))
  BY <1>0, <1>3, <1>8, <1>10, <1>12, <1>15, Sizes, PushHeadless
<1>19. Dispatches(stack', saved', running', handlers') BY <1>3, <1>12 DEF Dispatches
<1>20. Depths(stack', depth') BY <1>12 DEF Depths
<1> QED BY <1>0, <1>3, <1>9, <1>10, <1>11, <1>13, <1>14, <1>16, <1>17, <1>18, <1>19, <1>20 DEF IInv

(* A path not ended by the popped registration survives the pop. *)
LEMMA PathPops ==
  ASSUME NEW q \in Chain, q # <<>>, Rising(q), NEW h, NEW p, PathTo(h, q, p), p # Last(q).at, Len(h) \in Nat
  PROVE  PathTo(h, Front(q), p)
<1>1. /\ Len(Front(q)) = Len(q) - 1 /\ Len(q) \in Nat \ {0} /\ Last(q) = q[Len(q)]
      /\ \A i \in 1 .. Len(q) - 1 : Front(q)[i] = q[i]
  BY FrontFacts DEF Chain
<1>2. Pre(h, q) /\ Last(h).at = p /\ h # <<>> BY DEF PathTo
<1>3. Len(h) = Len(q) => h[Len(h)] = q[Len(q)] BY <1>1, <1>2 DEF Pre
<1>4. Len(h) # Len(q) BY <1>1, <1>2, <1>3 DEF Last
<1>5. Pre(h, Front(q)) BY <1>1, <1>2, <1>4 DEF Pre
<1> QED BY <1>2, <1>5 DEF PathTo

LEMMA HeadPops ==
  ASSUME NEW q \in Chain, NEW r, NEW p \in Nat,
         r = q \/ (q # <<>> /\ r = Front(q) /\ ~ (Last(q).at < p))
  PROVE  \A n : CutAt(q, n, p) => CutAt(r, n, p) /\ \A w : Len(w) = n /\ Pre(w, q) => Pre(w, r)
<1> SUFFICES ASSUME NEW n, CutAt(q, n, p)
             PROVE  CutAt(r, n, p) /\ \A w : Len(w) = n /\ Pre(w, q) => Pre(w, r)
  OBVIOUS
<1>1. n \in Nat BY ChainElements DEF CutAt
<1>2. CASE r = q BY <1>2
<1>3. CASE q # <<>> /\ r = Front(q) /\ ~ (Last(q).at < p)
  BY <1>1, <1>3, PopKeepsCut DEF Chain
<1> QED BY <1>2, <1>3

LEMMA Least ==
  ASSUME NEW n \in Nat, NEW S, S \subseteq 0..n, S # {}
  PROVE  Min(S) \in S /\ \A y \in S : Min(S) <= y
<1> DEFINE T == {n + 1 - x : x \in S}
<1>1. T \subseteq 1 .. n + 1 /\ T # {}
  <2>1. \A x \in S : x \in 0..n /\ n + 1 - x \in 1 .. n + 1 OBVIOUS
  <2> QED BY <2>1
<1>2. PICK z \in T : \A y \in T : y <= z
  <2>1. n + 1 \in Nat OBVIOUS
  <2> HIDE DEF T
  <2> QED BY <1>1, <2>1, Greatest
<1>3. PICK x \in S : z = n + 1 - x OBVIOUS
<1>4. \A y \in S : x <= y
  <2> TAKE y \in S
  <2>1. n + 1 - y <= n + 1 - x BY <1>2, <1>3
  <2> QED BY <2>1
<1> QED BY <1>4 DEF Min

(* What is left of the records is no more than there were. *)
LEMMA CutRange ==
  ASSUME Types, NEW chain \in Chain, NEW n \in Nat, NEW height \in 0..ERROR_BOUND
  PROVE  CutTo(chain, n, height) \in 0..ERROR_BOUND
<1> DEFINE S == {errs, height} \cup {chain[i].mark : i \in n + 1 .. Len(chain)}
<1>1. \A i \in n + 1 .. Len(chain) : chain[i].mark \in 0..ERROR_BOUND
  <2> TAKE i \in n + 1 .. Len(chain)
  <2>1. chain[i] \in EntryType BY ChainElements
  <2> QED BY <2>1 DEF EntryType
<1>2. S \subseteq 0..ERROR_BOUND /\ S # {} BY <1>1 DEF Types
<1>3. Min(S) \in S
  <2> HIDE DEF S
  <2> QED BY <1>2, Least, BoundsAssumption
<1> QED BY <1>2, <1>3 DEF CutTo

LEMMA StackSet ==
  ASSUME Types, Shape(stack), NEW a \in Activation, NEW p \in 1..Top, stack' = [stack EXCEPT ![p] = a]
  PROVE  /\ stack' \in Seq(Activation) /\ Len(stack') = Top /\ stack'[p] = a
         /\ \A o \in 1..Top : o # p => stack'[o] = stack[o]
BY Stacked DEF Types

(* A try on top of the stack is a transfer frame, and no dispatch runs. *)
LEMMA TopTry ==
  ASSUME Types, IInv, Now.kind = "try"
  PROVE  /\ Now = stack[Top] /\ Now \in TryType /\ Top \in Nat \ {0} /\ Top = Len(stack) /\ Top \in ToSet(frames)
         /\ saved = <<>> /\ running = <<>> /\ UnwindHead = handlers /\ Silent(stack)
         /\ TryOK(Now, Top \in ToSet(arms))
         /\ Now.state = "unwind" =>
              /\ Now.phase \notin {"body", "arm"} /\ Now.target <= Top
              /\ Caught(stack, ToSet(frames), ToSet(arms), Now.target)
              /\ Now.target = Top => Now.phase = "landed"
         /\ Now.handle # <<>> /\ Top \notin ToSet(arms) => PathTo(Now.handle, handlers, Top)
<1>0. /\ Shape(stack) /\ Tries(stack, ToSet(arms)) /\ Frames(stack, ToSet(frames))
      /\ Targets(stack, ToSet(frames), ToSet(arms)) /\ Dispatches(stack, saved, running, handlers)
      /\ Registers(stack, UnwindHead, ToSet(frames), ToSet(arms))
  BY DEF IInv
<1>1. /\ Now = stack[Top] /\ Top \in Nat \ {0} /\ Top = Len(stack) /\ Now \in Activation BY <1>0, Stacked
<1>2. Now \in TryType BY <1>1, KindOf
<1>3. Now.phase \notin {"drain", "transfer"} BY <1>2 DEF TryType
<1>4. ~ Dead(stack, Top) BY <1>1 DEF Dead
<1>5. Top \in ToSet(frames) BY <1>0, <1>1, <1>3, <1>4 DEF Frames
<1>6. saved = <<>>
  <2> SUFFICES ASSUME saved # <<>> PROVE FALSE OBVIOUS
  <2>1. PICK d \in 1..Len(stack) : Dispatching(stack, d, saved, running, handlers) BY <1>0 DEF Dispatches
  <2> QED BY <1>1, <2>1 DEF Dispatching
<1>7. running = <<>> /\ Silent(stack) BY <1>0, <1>1, <1>3, <1>6 DEF Dispatches, Silent
<1>8. UnwindHead = handlers BY <1>6 DEF UnwindHead
<1>9. TryOK(Now, Top \in ToSet(arms)) BY <1>0, <1>1 DEF Tries
<1>10. Now.state = "unwind" =>
         /\ Now.phase \notin {"body", "arm"} /\ Now.target <= Top
         /\ Caught(stack, ToSet(frames), ToSet(arms), Now.target)
         /\ Now.target = Top => Now.phase = "landed"
  BY <1>0, <1>1, <1>5 DEF Targets
<1>11. ASSUME Now.handle # <<>>, Top \notin ToSet(arms) PROVE PathTo(Now.handle, handlers, Top)
  <2>1. Top \in Reg(stack, ToSet(arms)) BY <1>1, <1>11 DEF Reg
  <2> QED BY <1>0, <1>1, <1>8, <2>1 DEF Registers
<1> QED BY <1>1, <1>2, <1>5, <1>6, <1>7, <1>8, <1>9, <1>10, <1>11

(* Only the try on top changes. *)
Retop(s, t) == /\ Len(s) \in Nat \ {0} /\ Len(t) = Len(s) /\ \A p \in 1 .. Len(s) - 1 : t[p] = s[p]
               /\ s[Len(s)].kind = "try" /\ t[Len(s)].kind = "try"
               /\ s[Len(s)].phase \notin {"drain", "transfer"} /\ t[Len(s)].phase \notin {"drain", "transfer"}

LEMMA RetopSame ==
  ASSUME NEW s, NEW t, Retop(s, t)
  PROVE  /\ \A p \in 1..Len(s) : p # Len(s) => p \in 1 .. Len(s) - 1 /\ t[p] = s[p]
         /\ \A p \in 1..Len(s) : t[p].kind = s[p].kind
         /\ \A p \in Nat : Dead(s, p) <=> Dead(t, p)
<1>1. \A p \in 1..Len(s) : p # Len(s) => p \in 1 .. Len(s) - 1 /\ t[p] = s[p] BY DEF Retop
<1>2. \A p \in 1..Len(s) : t[p].kind = s[p].kind BY <1>1 DEF Retop
<1>3. \A q \in 1..Len(s) : /\ s[q].phase = "drain" => t[q].phase = "drain" /\ t[q].frame = s[q].frame
                           /\ t[q].phase = "drain" => s[q].phase = "drain"
  <2> TAKE q \in 1..Len(s)
  <2>1. CASE q = Len(s) BY <2>1 DEF Retop
  <2>2. CASE q # Len(s) BY <1>1, <2>2
  <2> QED BY <2>1, <2>2
<1>4. \A p \in Nat : Dead(s, p) <=> Dead(t, p) BY <1>3, DeadKept DEF Retop
<1> QED BY <1>1, <1>2, <1>4

LEMMA RetopShape ==
  ASSUME NEW s, NEW t, Retop(s, t), Shape(s)
  PROVE  Shape(t)
<1>1. ASSUME NEW p \in 1..Len(s), p # Len(s) PROVE Sits(t, p)
  <2>1. \A o \in 1..p : o \in 1 .. Len(s) - 1 BY <1>1 DEF Retop
  <2>2. \A o \in 1..p : SameForm(s[o], t[o]) BY <2>1 DEF SameForm, Retop
  <2>3. Sits(s, p) /\ p \in Nat \ {0} BY DEF Shape
  <2> QED BY <2>2, <2>3, SitsKept
<1>2. Sits(t, Len(s))
  <2>1. Sits(s, Len(s)) BY DEF Shape, Retop
  <2>2. Len(s) > 1 => t[Len(s) - 1] = s[Len(s) - 1] BY DEF Retop
  <2> QED BY <2>1, <2>2 DEF Sits, Retop
<1> QED BY <1>1, <1>2 DEF Shape, Retop

LEMMA RetopFrames ==
  ASSUME NEW s, NEW t, NEW F, Retop(s, t), Shape(s), Frames(s, F), Len(s) \in F
  PROVE  Frames(t, F)
<1>0. Len(s) \in Nat \ {0} /\ Len(t) = Len(s) /\ t[Len(t)].phase \notin {"drain", "transfer"}
      /\ s[Len(s)].phase # "transfer"
  BY DEF Retop
<1>1. ASSUME NEW p \in F
      PROVE  /\ p \in 1..Len(t) /\ t[p].kind = "try" /\ ~ Dead(t, p)
             /\ \A c \in 1 .. p - 1 : t[c].kind = "callback" => Dead(t, c)
  <2>1. /\ p \in 1..Len(s) /\ s[p].kind = "try" /\ ~ Dead(s, p)
        /\ \A c \in 1 .. p - 1 : s[c].kind = "callback" => Dead(s, c)
    BY DEF Frames
  <2>2. \A c \in 1 .. p - 1 : c \in 1..Len(s) BY <1>0, <2>1
  <2> QED BY <1>0, <2>1, <2>2, RetopSame
<1>2. ASSUME NEW p \in 1..Len(t), t[p].kind = "try", p \notin F PROVE t[p].claimed /\ Dead(t, p)
  <2>1. p \in 1..Len(s) /\ p # Len(s) BY <1>0, <1>2
  <2>2. t[p] = s[p] BY <2>1, RetopSame
  <2> QED BY <1>0, <1>2, <2>1, <2>2, RetopSame DEF Frames
<1>3. ASSUME NEW q \in 1..Len(t), t[q].phase = "drain", ~ Dead(t, q)
      PROVE  t[q].frame \in F /\ t[t[q].frame].state = "unwind"
  <2>1. q # Len(s) /\ q \in 1..Len(s) BY <1>0, <1>3
  <2>2. t[q] = s[q] /\ ~ Dead(s, q) BY <1>3, <2>1, RetopSame
  <2>3. s[q].frame \in 1 .. q - 1 BY <1>3, <2>1, <2>2 DEF Shape, Sits
  <2>4. t[s[q].frame] = s[s[q].frame] BY <1>0, <2>1, <2>3, RetopSame
  <2> QED BY <1>3, <2>1, <2>2, <2>4 DEF Frames
<1> QED BY <1>1, <1>2, <1>3 DEF Frames

LEMMA RetopOwes ==
  ASSUME NEW s, NEW t, NEW C, Retop(s, t), Owes(s, C)
  PROVE  Owes(t, C)
<1>0. Len(s) \in Nat \ {0} /\ Len(t) = Len(s) /\ s[Len(s)].kind = "try" /\ t[Len(s)].kind = "try" BY DEF Retop
<1>1. \A p \in 1..Len(s) : Cleaner(t[p]) \/ Cleaner(s[p]) => t[p] = s[p]
  BY <1>0, RetopSame DEF Cleaner
<1>2. Owing(t) = Owing(s) BY <1>0, <1>1 DEF Owing
<1>3. ASSUME NEW p \in 1..Len(t), Cleaner(t[p]), t[p].runs # 0
      PROVE  Dead(t, p) \/ (p < Len(t) /\ t[p].kind = "defer" /\ t[p + 1].kind = "thunk")
  <2>1. p \in 1..Len(s) /\ t[p] = s[p] BY <1>0, <1>1, <1>3
  <2>2. Dead(s, p) \/ (p < Len(s) /\ s[p].kind = "defer" /\ s[p + 1].kind = "thunk")
    BY <1>3, <2>1 DEF Owes
  <2>3. p < Len(s) => p + 1 \in 1..Len(s) BY <1>0
  <2> QED BY <1>0, <2>1, <2>2, <2>3, RetopSame
<1>4. ASSUME NEW p \in 2..Len(t), t[p].kind = "thunk", ~ t[p].drain PROVE t[p - 1].runs = 1
  <2>1. p # Len(s) /\ p - 1 # Len(s) /\ p \in 1..Len(s) /\ p - 1 \in 1..Len(s) BY <1>0, <1>4
  <2>2. t[p] = s[p] /\ t[p - 1] = s[p - 1] BY <2>1, RetopSame
  <2> QED BY <1>0, <1>4, <2>2 DEF Owes
<1> QED BY <1>2, <1>3, <1>4 DEF Owes

LEMMA RetopRest ==
  ASSUME NEW s, NEW t, Retop(s, t), Silent(s), NEW hs, NEW d, Depths(s, d)
  PROVE  /\ Silent(t) /\ Depths(t, d) /\ Dispatches(t, <<>>, <<>>, hs)
<1>0. Len(s) \in Nat \ {0} /\ Len(t) = Len(s) /\ t[Len(t)].kind = "try" /\ s[Len(s)].phase # "transfer"
  BY DEF Retop
<1>1. Silent(t) BY <1>0, RetopSame DEF Silent
<1>2. Active(t) = Active(s) BY <1>0, RetopSame DEF Active
<1> QED BY <1>0, <1>1, <1>2 DEF Depths, Dispatches, Silent

LEMMA RetopRegisters ==
  ASSUME NEW s, NEW t, NEW F, NEW A, NEW B, NEW full \in Chain, NEW ext, Retop(s, t), Rising(full),
         Registers(s, full, F, A), \A p \in 1 .. Len(s) - 1 : p \in A <=> p \in B,
         \/ /\ ext = full /\ (Len(s) \in Reg(t, B) <=> Len(s) \in Reg(s, A))
            /\ Len(s) \in Reg(t, B) => t[Len(s)].handle = s[Len(s)].handle
         \/ full # <<>> /\ ext = Front(full) /\ Last(full).at = Len(s) /\ Len(s) \notin Reg(t, B),
         \A p \in Reg(s, A) : Len(s[p].handle) \in Nat
  PROVE  Registers(t, ext, F, B)
<1>0. Len(s) \in Nat \ {0} /\ Len(t) = Len(s) /\ Len(full) \in Nat /\ DOMAIN full = 1..Len(full)
  BY ChainElements DEF Retop
<1>1. \A p \in 1..Len(s) : p # Len(s) => (p \in Reg(t, B) <=> p \in Reg(s, A))
  BY <1>0, RetopSame DEF Reg
<1>2. Reg(t, B) \subseteq 1..Len(s) /\ Reg(s, A) \subseteq 1..Len(s) BY <1>0 DEF Reg
<1>3. /\ Ids(full) = Reg(s, A)
      /\ \A i \in 1..Len(full) : full[i].kind = "catch" <=> s[full[i].at].kind = "try"
      /\ \A p \in Reg(s, A) : PathTo(s[p].handle, full, p) /\ (s[p].kind = "try" => p \in F)
  BY DEF Registers
<1>4. \A i \in 1..Len(full) : full[i].at \in 1..Len(s) BY <1>0, <1>2, <1>3 DEF Ids
<1>5. CASE /\ ext = full /\ (Len(s) \in Reg(t, B) <=> Len(s) \in Reg(s, A))
           /\ Len(s) \in Reg(t, B) => t[Len(s)].handle = s[Len(s)].handle
  <2>1. \A p \in 1..Len(s) : p \in Reg(t, B) <=> p \in Reg(s, A)
    <3> TAKE p \in 1..Len(s)
    <3>1. CASE p = Len(s) BY <1>5, <3>1
    <3>2. CASE p # Len(s) BY <1>1, <3>2
    <3> QED BY <3>1, <3>2
  <2>2. Reg(t, B) = Reg(s, A) BY <1>2, <2>1
  <2>3. ASSUME NEW p \in Reg(t, B) PROVE t[p].handle = s[p].handle
    <3>1. CASE p = Len(s) BY <1>5, <2>3, <3>1
    <3>2. CASE p # Len(s)
      <4>1. p \in 1..Len(s) BY <1>2, <2>3
      <4>2. t[p] = s[p] BY <3>2, <4>1, RetopSame
      <4> QED BY <4>2
    <3> QED BY <3>1, <3>2
  <2>4. \A p \in 1..Len(s) : t[p].kind = s[p].kind BY RetopSame
  <2>5. \A i \in 1..Len(ext) : ext[i].kind = "catch" <=> t[ext[i].at].kind = "try"
    BY <1>3, <1>4, <1>5, <2>4
  <2>6. \A p \in Reg(t, B) : PathTo(t[p].handle, ext, p) /\ (t[p].kind = "try" => p \in F)
    BY <1>2, <1>3, <1>5, <2>2, <2>3, <2>4
  <2> QED BY <1>3, <1>5, <2>2, <2>5, <2>6 DEF Registers
<1>6. CASE full # <<>> /\ ext = Front(full) /\ Last(full).at = Len(s) /\ Len(s) \notin Reg(t, B)
  <2>1. /\ Ids(ext) = Ids(full) \ {Len(s)} /\ ext \in Chain
        /\ Len(ext) = Len(full) - 1 /\ \A i \in 1..Len(ext) : ext[i] = full[i]
    BY <1>6, FrontChain, FrontFacts DEF Chain
  <2>2. Reg(t, B) = Reg(s, A) \ {Len(s)} BY <1>0, <1>1, <1>2, <1>6
  <2>3. \A i \in 1..Len(ext) : i \in 1..Len(full) /\ ext[i] = full[i] BY <1>0, <2>1
  <2>4. \A i \in 1..Len(ext) : ext[i].kind = "catch" <=> t[ext[i].at].kind = "try"
    BY <1>3, <1>4, <2>3, RetopSame
  <2>5. ASSUME NEW p \in Reg(t, B)
        PROVE  PathTo(t[p].handle, ext, p) /\ (t[p].kind = "try" => p \in F)
    <3>1. p \in Reg(s, A) /\ p \in 1..Len(s) /\ p # Len(s) BY <1>2, <2>2
    <3>2. t[p] = s[p] BY <3>1, RetopSame
    <3>3. PathTo(s[p].handle, full, p) /\ (s[p].kind = "try" => p \in F) /\ Len(s[p].handle) \in Nat
      BY <1>3, <3>1
    <3>4. PathTo(s[p].handle, ext, p) BY <1>6, <3>1, <3>3, PathPops
    <3> QED BY <3>2, <3>3, <3>4
  <2>6. Ids(ext) = Reg(t, B) BY <1>3, <2>1, <2>2
  <2> QED BY <2>4, <2>5, <2>6 DEF Registers
<1> QED BY <1>5, <1>6

(* The catch of the try on top stays, is fenced or closed (its handle goes), *)
(* and handlers is the chain it leaves.                                      *)
Closes(b, arm) ==
  \/ /\ handlers' = handlers
     /\ \/ b.handle = Now.handle /\ (arm <=> Top \in ToSet(arms))
        \/ b.handle = <<>> /\ (Now.handle = <<>> \/ Top \in ToSet(arms))
  \/ /\ handlers' = Front(handlers) /\ handlers # <<>> /\ handlers = Now.handle
     /\ Top \notin ToSet(arms) /\ (arm \/ b.handle = <<>>)

LEMMA HandlesAre ==
  ASSUME Types, Shape(stack), NEW A
  PROVE  \A p \in Reg(stack, A) : Len(stack[p].handle) \in Nat /\ stack[p].handle \in Chain
<1> TAKE p \in Reg(stack, A)
<1>1. stack[p] \in Activation /\ stack[p].kind \in {"watch", "try"} BY Stacked DEF Reg
<1>2. stack[p].handle \in Chain BY <1>1, KindOf DEF WatchType, TryType
<1> QED BY <1>2, ChainElements

LEMMA TopTryStep ==
  ASSUME Types, IInv, Now.kind = "try", NEW b \in TryType, stack' = [stack EXCEPT ![Top] = b],
         b.prev = Now.prev, b.watermark = Now.watermark, b.head = Now.head,
         UNCHANGED <<saved, running, cleanups, frames, depth>>, errs' \in 0..ERROR_BOUND,
         TryOK(b, Top \in ToSet(arms')),
         arms' \in Path, Ascending(arms'), ToSet(arms') \ {Top} = ToSet(arms) \ {Top},
         b.state = "unwind" =>
           /\ Now.state = "unwind" /\ b.target = Now.target /\ b.phase \notin {"body", "arm"}
           /\ b.target = Top => b.phase = "landed" /\ Top \notin ToSet(arms') /\ b.handle # <<>>,
         Top \in ToSet(arms') => b.handle # <<>> /\ b.phase \in {"arm", "landed", "exits"},
         Closes(b, Top \in ToSet(arms'))
  PROVE  Types' /\ IInv'
<1> DEFINE F == ToSet(frames)
           A == ToSet(arms)
           B == ToSet(arms')
           t == stack'
<1>0. /\ Shape(stack) /\ Tries(stack, ToSet(arms)) /\ Frames(stack, ToSet(frames))
      /\ Targets(stack, ToSet(frames), ToSet(arms)) /\ Arms(stack, ToSet(frames), ToSet(arms))
      /\ Owes(stack, ToSet(cleanups)) /\ Marks(stack, ToSet(frames), frames, cleanups)
      /\ Registers(stack, UnwindHead, ToSet(frames), ToSet(arms))
      /\ Heads(stack, UnwindHead, ToSet(frames)) /\ Dispatches(stack, saved, running, handlers)
      /\ Depths(stack, depth) /\ Rising(UnwindHead) /\ Ascending(frames) /\ Ascending(cleanups)
      /\ Ascending(arms)
  BY DEF IInv
<1>1. /\ Now = stack[Top] /\ Top \in Nat \ {0} /\ Top = Len(stack) /\ Top \in F
      /\ saved = <<>> /\ running = <<>> /\ UnwindHead = handlers /\ Silent(stack)
      /\ (Now.state = "unwind" =>
            /\ Now.phase \notin {"body", "arm"} /\ Now.target <= Top
            /\ Caught(stack, F, A, Now.target))
      /\ (Now.handle # <<>> /\ Top \notin A => PathTo(Now.handle, handlers, Top))
      /\ Now \in TryType
  BY TopTry
<1>2. /\ b.kind = "try" /\ b.phase \notin {"drain", "transfer"} /\ Now.phase \notin {"drain", "transfer"}
  BY <1>1 DEF TryType
<1>3. b \in Activation BY DEF Activation
<1>4. /\ handlers \in Chain /\ errs \in 0..ERROR_BOUND /\ frames \in Path /\ cleanups \in Path
      /\ depth \in 0..ERROR_MAX_DEPTH /\ arms \in Path /\ saved \in Chain /\ running \in Chain
  BY DEF Types
<1>5. /\ t \in Seq(Activation) /\ Len(t) = Top /\ t[Top] = b
      /\ \A o \in 1..Top : o # Top => t[o] = stack[o]
  <2>1. Top \in 1..Top BY <1>1
  <2> QED BY <1>0, <1>3, <2>1, StackSet
<1>6. /\ saved' = saved /\ running' = running /\ cleanups' = cleanups /\ frames' = frames /\ depth' = depth
  OBVIOUS
<1>7. /\ handlers' \in Chain /\ Rising(handlers')
      /\ handlers' = handlers \/ (/\ handlers # <<>> /\ handlers' = Front(handlers)
                                  /\ Last(handlers).at = Top /\ Top \notin A)
  <2>1. handlers # <<>> /\ handlers = Now.handle /\ Top \notin A => Last(handlers).at = Top
    BY <1>1 DEF PathTo
  <2>2. handlers # <<>> => Front(handlers) \in Chain /\ Rising(Front(handlers))
    BY <1>0, <1>1, <1>4, FrontChain
  <2> QED BY <1>0, <1>1, <1>4, <2>1, <2>2 DEF Closes
<1>8. Types' BY <1>4, <1>5, <1>6, <1>7 DEF Types
<1>9. UnwindHead' = handlers' BY <1>1, <1>6 DEF UnwindHead
<1>10. Retop(stack, t)
  <2>1. \A p \in 1 .. Len(stack) - 1 : p \in 1..Top /\ p # Top BY <1>1
  <2> QED BY <1>1, <1>2, <1>5, <2>1 DEF Retop
<1>11. /\ \A p \in F : p \in 1..Top
       /\ \A p \in 1..Top : t[p].kind = stack[p].kind
       /\ \A p \in Nat : Dead(stack, p) <=> Dead(t, p)
  <2>1. \A p \in F : p \in 1..Top BY Within
  <2>2. \A p \in 1..Len(stack) : t[p].kind = stack[p].kind
    <3> HIDE DEF t
    <3> QED BY <1>10, RetopSame
  <2>3. \A p \in Nat : Dead(stack, p) <=> Dead(t, p)
    <3> HIDE DEF t
    <3> QED BY <1>10, RetopSame
  <2> QED BY <1>1, <2>1, <2>2, <2>3
<1>12. Shape(t) BY <1>0, <1>10, RetopShape
<1>13. Tries(t, B)
  <2> SUFFICES ASSUME NEW p \in 1..Top, t[p].kind = "try" PROVE TryOK(t[p], p \in B)
    BY <1>5 DEF Tries
  <2>1. CASE p = Top BY <1>5, <2>1
  <2>2. CASE p # Top
    <3>1. t[p] = stack[p] /\ (p \in B <=> p \in A) BY <1>5, <2>2
    <3> QED BY <1>0, <1>1, <3>1 DEF Tries
  <2> QED BY <2>1, <2>2
<1>14. Frames(t, F) BY <1>0, <1>1, <1>10, RetopFrames
<1>15. \A u : Caught(stack, F, A, u) /\ u # Top => Caught(t, F, B, u)
  BY <1>5, <1>11 DEF Caught
<1>16. Targets(t, F, B)
  <2>1. ASSUME NEW p \in F, t[p].state = "unwind"
        PROVE  /\ t[p].target <= p /\ Caught(t, F, B, t[p].target)
               /\ t[p].target = p => t[p].phase \in {"body", "landed"}
               /\ t[p].phase \in {"body", "arm"} =>
                    \E q \in p + 1 .. Len(t) : t[q].phase = "drain" /\ t[q].frame = p
    <3>1. CASE p = Top
      <4>1. t[p] = b /\ b.target = Now.target /\ Now.state = "unwind" BY <1>5, <2>1, <3>1
      <4>2. Caught(t, F, B, b.target)
        <5>1. CASE b.target = Top BY <1>1, <1>5, <2>1, <3>1, <4>1, <5>1 DEF Caught
        <5>2. CASE b.target # Top BY <1>1, <1>15, <4>1, <5>2
        <5> QED BY <5>1, <5>2
      <4> QED BY <1>1, <2>1, <3>1, <4>1, <4>2
    <3>2. CASE p # Top
      <4>1. t[p] = stack[p] /\ p \in 1..Top BY <1>5, <1>11, <3>2
      <4>2. /\ stack[p].target <= p /\ Caught(stack, F, A, stack[p].target)
            /\ stack[p].target = p => stack[p].phase \in {"body", "landed"}
        BY <1>0, <2>1, <4>1 DEF Targets
      <4>3. stack[p].target # Top
        <5>1. stack[p].target \in 1..Top BY <1>11, <4>2 DEF Caught
        <5> QED BY <1>1, <3>2, <4>1, <4>2, <5>1
      <4>4. ASSUME t[p].phase \in {"body", "arm"}
            PROVE  \E q \in p + 1 .. Len(t) : t[q].phase = "drain" /\ t[q].frame = p
        <5>1. PICK q \in p + 1 .. Len(stack) : stack[q].phase = "drain" /\ stack[q].frame = p
          BY <1>0, <2>1, <4>1, <4>4 DEF Targets
        <5>2. q \in 1..Top /\ q # Top BY <1>1, <1>2, <4>1, <5>1
        <5> QED BY <1>1, <1>5, <5>1, <5>2
      <4> QED BY <1>15, <4>1, <4>2, <4>3, <4>4
    <3> QED BY <3>1, <3>2
  <2>2. t[Len(t)].phase # "transfer" BY <1>2, <1>5
  <2> QED BY <2>1, <2>2 DEF Targets
<1>17. Arms(t, F, B)
  <2> SUFFICES ASSUME NEW p \in B
               PROVE  p \in F /\ t[p].handle # <<>> /\ t[p].phase \in {"arm", "landed", "exits"}
    BY DEF Arms
  <2>1. CASE p = Top BY <1>1, <1>5, <2>1
  <2>2. CASE p # Top
    <3>1. p \in A BY <2>2
    <3>2. p \in F /\ stack[p].handle # <<>> /\ stack[p].phase \in {"arm", "landed", "exits"}
      BY <1>0, <3>1 DEF Arms
    <3> QED BY <1>5, <1>11, <2>2, <3>2
  <2> QED BY <2>1, <2>2
<1>18. Owes(t, ToSet(cleanups)) BY <1>0, <1>10, RetopOwes
<1>19. Marks(t, F, frames, cleanups)
  <2>1. \A p \in F : t[p].prev = stack[p].prev /\ t[p].watermark = stack[p].watermark /\ t[p].head = stack[p].head
    BY <1>1, <1>5, <1>11
  <2> QED BY <1>0, <2>1 DEF Marks
<1>20. Registers(t, handlers', F, B)
  <2>1. Top \in Reg(t, B) <=> b.handle # <<>> /\ Top \notin B BY <1>1, <1>2, <1>5 DEF Reg
  <2>2. Top \in Reg(stack, A) <=> Now.handle # <<>> /\ Top \notin A BY <1>1 DEF Reg
  <2>3. \/ /\ handlers' = handlers /\ (Top \in Reg(t, B) <=> Top \in Reg(stack, A))
           /\ Top \in Reg(t, B) => b.handle = Now.handle
        \/ handlers # <<>> /\ handlers' = Front(handlers) /\ Last(handlers).at = Top /\ Top \notin Reg(t, B)
    BY <1>1, <2>1, <2>2 DEF Closes, PathTo
  <2>4. \A p \in 1 .. Len(stack) - 1 : p \in A <=> p \in B BY <1>1
  <2>5. \A p \in Reg(stack, A) : Len(stack[p].handle) \in Nat BY <1>0, <1>1, HandlesAre
  <2>6. /\ handlers \in Chain /\ Rising(handlers) /\ Registers(stack, handlers, F, A)
        /\ \/ /\ handlers' = handlers /\ (Len(stack) \in Reg(t, B) <=> Len(stack) \in Reg(stack, A))
              /\ Len(stack) \in Reg(t, B) => t[Len(stack)].handle = stack[Len(stack)].handle
           \/ /\ handlers # <<>> /\ handlers' = Front(handlers) /\ Last(handlers).at = Len(stack)
              /\ Len(stack) \notin Reg(t, B)
    BY <1>0, <1>1, <1>4, <1>5, <2>3
  <2> QED BY <1>10, <2>4, <2>5, <2>6, RetopRegisters
<1>21. Heads(t, handlers', F)
  <2>1. \A p \in F : t[p].head = stack[p].head BY <1>1, <1>5, <1>11
  <2>2. \A p \in 1..Top : \A m : CutAt(handlers, m, p) =>
          CutAt(handlers', m, p) /\ \A w : Len(w) = m /\ Pre(w, handlers) => Pre(w, handlers')
    <3> TAKE p \in 1..Top
    <3>1. \/ handlers' = handlers
          \/ handlers # <<>> /\ handlers' = Front(handlers) /\ ~ (Last(handlers).at < p)
      BY <1>1, <1>7
    <3> QED BY <1>1, <1>4, <3>1, HeadPops
  <2>3. ASSUME NEW p \in F, ~ (t[p].head # <<>> /\ Last(t[p].head).at = p)
        PROVE  Pre(t[p].head, handlers') /\ CutAt(handlers', Len(t[p].head), p)
    <3>1. Pre(t[p].head, handlers) /\ CutAt(handlers, Len(t[p].head), p)
      BY <1>0, <1>1, <2>1, <2>3 DEF Heads
    <3> QED BY <1>11, <2>2, <3>1
  <2>4. ASSUME NEW p \in 1..Len(t), t[p].kind = "thunk", t[p].drain, ~ Dead(t, p)
        PROVE  CutAt(handlers', t[p].depth, p)
    <3>1. p \in 1..Top /\ p # Top BY <1>2, <1>5, <2>4
    <3>2. t[p] = stack[p] /\ ~ Dead(stack, p) BY <1>5, <1>11, <2>4, <3>1
    <3>3. CutAt(handlers, t[p].depth, p) BY <1>0, <1>1, <2>4, <3>1, <3>2 DEF Heads
    <3> QED BY <2>2, <3>1, <3>3
  <2> QED BY <2>3, <2>4 DEF Heads
<1>22. Dispatches(t, saved, running, handlers') /\ Depths(t, depth) BY <1>0, <1>1, <1>10, RetopRest
<1> QED BY <1>0, <1>6, <1>7, <1>8, <1>9, <1>12, <1>13, <1>14, <1>16, <1>17, <1>18, <1>19, <1>20, <1>21, <1>22 DEF IInv

LEMMA TryPhases ==
  ASSUME Types, IInv
  PROVE  /\ Now.phase \in {"landed", "arm", "exits", "finally", "leave"} => Now.kind = "try"
         /\ Now.phase \in {"offer", "handled"} => Now.kind = "dispatch"
<1>1. Now \in Activation BY Stacked DEF IInv
<1>2. \A a \in Activation : /\ a.phase \in {"landed", "arm", "exits", "finally", "leave"} => a \in TryType
                            /\ a.phase \in {"offer", "handled"} => a \in DispatchType
  BY DEF Activation, MainType, TryType, DeferType, WatchType, DispatchType,
         CallbackType, TransferType, DrainType, BodyType, DrainedType
<1> QED BY <1>1, <1>2 DEF TryType, DispatchType
(* A try on top keeps what the region around it registered. *)
Rephased(b) == /\ b.prev = Now.prev /\ b.watermark = Now.watermark /\ b.head = Now.head
               /\ b.target = Now.target /\ b.fin = Now.fin

LEMMA EndBodyStep ==
  ASSUME Types, IInv, EndBody
  PROVE  Types' /\ IInv'
<1> DEFINE b == [Now EXCEPT !.phase = "exits"]
<1>1. Now.kind = "try" /\ Now.phase \in {"body", "arm"} BY DEF EndBody
<1>2. /\ Now \in TryType /\ TryOK(Now, Top \in ToSet(arms)) /\ Now.state # "unwind"
      /\ stack \in Seq(Activation) /\ Now = stack[Top] /\ errs \in 0..ERROR_BOUND /\ arms \in Path
  BY <1>1, TopTry DEF Types
<1>3. stack' = [stack EXCEPT ![Top] = b] BY <1>2 DEF EndBody
<1>4. /\ b \in TryType /\ b.phase = "exits" /\ b.state = Now.state /\ b.handle = Now.handle
      /\ b.claimed = Now.claimed /\ b.runs = Now.runs /\ Rephased(b)
  BY <1>2 DEF TryType, Rephased
<1> HIDE DEF b
<1>5. /\ UNCHANGED <<saved, running, cleanups, frames, depth>> /\ errs' = errs /\ arms' = arms
      /\ handlers' = handlers
  BY DEF EndBody, chains
<1>6. TryOK(b, Top \in ToSet(arms')) BY <1>1, <1>2, <1>4, <1>5 DEF TryOK
<1>7. Top \in ToSet(arms') => b.handle # <<>> /\ b.phase \in {"arm", "landed", "exits"}
  BY <1>2, <1>4, <1>5 DEF IInv, Arms
<1>8. Closes(b, Top \in ToSet(arms')) BY <1>4, <1>5 DEF Closes
<1>9. Ascending(arms') /\ errs' \in 0..ERROR_BOUND /\ arms' \in Path BY <1>2, <1>5 DEF IInv
<1> QED BY <1>1, <1>2, <1>3, <1>4, <1>5, <1>6, <1>7, <1>8, <1>9, TopTryStep DEF Rephased

LEMMA LandElsewhereStep ==
  ASSUME Types, IInv, LandElsewhere
  PROVE  Types' /\ IInv'
<1> DEFINE b == [Now EXCEPT !.phase = "exits"]
<1>0. Now.phase = "landed" /\ ~ (HasCatch /\ IsTarget) BY DEF LandElsewhere, Landed
<1>1. Now.kind = "try" BY <1>0, TryPhases
<1>2. /\ Now \in TryType /\ TryOK(Now, Top \in ToSet(arms))
      /\ Now.state = "unwind" => Caught(stack, ToSet(frames), ToSet(arms), Now.target)
      /\ stack \in Seq(Activation) /\ Now = stack[Top] /\ errs \in 0..ERROR_BOUND /\ arms \in Path
  BY <1>1, TopTry DEF Types
<1>3. stack' = [stack EXCEPT ![Top] = b] BY <1>2 DEF LandElsewhere
<1>4. /\ b \in TryType /\ b.phase = "exits" /\ b.state = Now.state /\ b.handle = Now.handle
      /\ b.claimed = Now.claimed /\ b.runs = Now.runs /\ Rephased(b)
  BY <1>2 DEF TryType, Rephased
<1> HIDE DEF b
<1>5. /\ UNCHANGED <<saved, running, cleanups, frames, depth>> /\ errs' = errs /\ arms' = arms
      /\ handlers' = handlers
  BY DEF LandElsewhere, chains
<1>6. TryOK(b, Top \in ToSet(arms')) BY <1>0, <1>2, <1>4, <1>5 DEF TryOK
<1>7. Top \in ToSet(arms') => b.handle # <<>> /\ b.phase \in {"arm", "landed", "exits"}
  BY <1>2, <1>4, <1>5 DEF IInv, Arms
<1>8. Closes(b, Top \in ToSet(arms')) BY <1>4, <1>5 DEF Closes
<1>9. Ascending(arms') /\ errs' \in 0..ERROR_BOUND /\ arms' \in Path BY <1>2, <1>5 DEF IInv
<1>10. b.state = "unwind" => b.target # Top
  BY <1>0, <1>2, <1>4 DEF Caught, HasCatch, IsTarget, Rephased
<1> QED BY <1>1, <1>2, <1>3, <1>4, <1>5, <1>6, <1>7, <1>8, <1>9, <1>10, TopTryStep DEF Rephased

LEMMA SelectArmStep ==
  ASSUME Types, IInv, SelectArm
  PROVE  Types' /\ IInv'
<1> DEFINE b == [Now EXCEPT !.phase = "arm", !.state = "handled"]
<1>0. Now.phase = "landed" /\ HasCatch /\ IsTarget BY DEF SelectArm, Landed
<1>1. Now.kind = "try" BY <1>0, TryPhases
<1>a. CASE handlers # Now.handle
  <2>1. UNCHANGED <<stack, chains, cleanups, frames, errs, depth>> BY <1>a DEF SelectArm, Fatal
  <2> QED BY <2>1, Unmoved
<1>b. CASE handlers = Now.handle
  <2>2. /\ Now \in TryType /\ TryOK(Now, Top \in ToSet(arms)) /\ Now.handle # <<>> /\ Top \notin ToSet(arms)
        /\ stack \in Seq(Activation) /\ Now = stack[Top] /\ errs \in 0..ERROR_BOUND /\ arms \in Path
        /\ Ascending(arms) /\ Top \in Nat \ {0}
    BY <1>0, <1>1, TopTry DEF Types, Caught, HasCatch, IsTarget, IInv
  <2>3. stack' = [stack EXCEPT ![Top] = b] BY <1>b, <2>2 DEF SelectArm
  <2>4. /\ b \in TryType /\ b.phase = "arm" /\ b.state = "handled" /\ b.handle = Now.handle
        /\ b.claimed = Now.claimed /\ b.runs = Now.runs /\ Rephased(b)
    BY <2>2 DEF TryType, Rephased
  <2> HIDE DEF b
  <2>5. /\ UNCHANGED <<saved, running, cleanups, frames, depth>> /\ errs' = errs /\ arms' = Append(arms, Top)
        /\ handlers' = Front(handlers)
    BY <1>b DEF SelectArm
  <2>6. /\ arms' \in Path /\ Ascending(arms') /\ ToSet(arms') = ToSet(arms) \cup {Top}
    <3>1. \A y \in ToSet(arms) : y \in 1..Top /\ y # Top BY <2>2, Within DEF IInv, Arms
    <3>2. \A y \in ToSet(arms) : y < Top BY <2>2, <3>1
    <3> QED BY <2>2, <2>5, <3>2, AppendPath
  <2>7. TryOK(b, Top \in ToSet(arms')) BY <1>0, <2>2, <2>4, <2>6 DEF TryOK
  <2>8. Closes(b, Top \in ToSet(arms')) BY <1>b, <2>2, <2>5, <2>6 DEF Closes
  <2>9. /\ errs' \in 0..ERROR_BOUND /\ ToSet(arms') \ {Top} = ToSet(arms) \ {Top}
        /\ b.handle # <<>>
    BY <2>2, <2>4, <2>5, <2>6
  <2> QED BY <1>1, <2>2, <2>3, <2>4, <2>5, <2>6, <2>7, <2>8, <2>9, TopTryStep DEF Rephased
<1> QED BY <1>a, <1>b

LEMMA EndFinallyStep ==
  ASSUME Types, IInv, EndFinally
  PROVE  Types' /\ IInv'
<1> DEFINE b == [Now EXCEPT !.phase = "leave"]
<1>0. Now.phase = "finally" BY DEF EndFinally
<1>1. Now.kind = "try" BY <1>0, TryPhases
<1>2. /\ Now \in TryType /\ TryOK(Now, Top \in ToSet(arms))
      /\ (Now.state = "unwind" => Now.target # Top) /\ Top = Len(stack) /\ Top \in Nat \ {0}
      /\ stack \in Seq(Activation) /\ Now = stack[Top] /\ errs \in 0..ERROR_BOUND /\ arms \in Path
  BY <1>0, <1>1, TopTry DEF Types
<1>3. stack' = [stack EXCEPT ![Top] = b] BY <1>2 DEF EndFinally
<1>4. /\ b \in TryType /\ b.phase = "leave" /\ b.state = Now.state /\ b.handle = Now.handle
      /\ b.claimed = Now.claimed /\ b.runs = Now.runs /\ Rephased(b)
  BY <1>2 DEF TryType, Rephased
<1> HIDE DEF b
<1>5. /\ UNCHANGED <<saved, running, cleanups, frames, depth>> /\ errs' = errs /\ arms' = arms
      /\ handlers' = handlers
  BY DEF EndFinally, chains
<1>6. TryOK(b, Top \in ToSet(arms')) BY <1>0, <1>2, <1>4, <1>5 DEF TryOK, Rephased
<1>7. Top \notin ToSet(arms') BY <1>0, <1>2, <1>5 DEF IInv, Arms
<1>8. Closes(b, Top \in ToSet(arms')) BY <1>4, <1>5 DEF Closes
<1>9. Ascending(arms') /\ errs' \in 0..ERROR_BOUND /\ arms' \in Path BY <1>2, <1>5 DEF IInv
<1> QED BY <1>1, <1>2, <1>3, <1>4, <1>5, <1>6, <1>7, <1>8, <1>9, TopTryStep DEF Rephased

LEMMA DepartFinallyStep ==
  ASSUME Types, IInv, DepartFinally
  PROVE  Types' /\ IInv'
<1> DEFINE b == [Now EXCEPT !.phase = "leave", !.state = "handled"]
<1>0. Now.phase = "finally" BY DEF DepartFinally
<1>1. Now.kind = "try" BY <1>0, TryPhases
<1>2. /\ Now \in TryType /\ TryOK(Now, Top \in ToSet(arms)) /\ Top = Len(stack) /\ Top \in Nat \ {0}
      /\ stack \in Seq(Activation) /\ Now = stack[Top] /\ errs \in 0..ERROR_BOUND /\ arms \in Path
  BY <1>0, <1>1, TopTry DEF Types
<1>3. stack' = [stack EXCEPT ![Top] = b] BY <1>2 DEF DepartFinally
<1>4. /\ b \in TryType /\ b.phase = "leave" /\ b.state = "handled" /\ b.handle = Now.handle
      /\ b.claimed = Now.claimed /\ b.runs = Now.runs /\ Rephased(b)
  BY <1>2 DEF TryType, Rephased
<1> HIDE DEF b
<1>5. /\ UNCHANGED <<saved, running, cleanups, frames, depth>> /\ errs' = errs /\ arms' = arms
      /\ handlers' = handlers
  BY DEF DepartFinally, chains
<1>6. TryOK(b, Top \in ToSet(arms')) BY <1>0, <1>2, <1>4, <1>5 DEF TryOK, Rephased
<1>7. Top \notin ToSet(arms') BY <1>0, <1>2, <1>5 DEF IInv, Arms
<1>8. Closes(b, Top \in ToSet(arms')) BY <1>4, <1>5 DEF Closes
<1>9. Ascending(arms') /\ errs' \in 0..ERROR_BOUND /\ arms' \in Path BY <1>2, <1>5 DEF IInv
<1> QED BY <1>1, <1>2, <1>3, <1>4, <1>5, <1>6, <1>7, <1>8, <1>9, TopTryStep DEF Rephased

LEMMA ExitsStep ==
  ASSUME Types, IInv, Exits
  PROVE  Types' /\ IInv'
<1> DEFINE b == AfterClose
<1>0. Now.phase = "exits" BY DEF Exits
<1>1. Now.kind = "try" BY <1>0, TryPhases
<1>2. /\ Now \in TryType /\ TryOK(Now, Top \in ToSet(arms)) /\ Top = Len(stack) /\ Top \in Nat \ {0}
      /\ (Now.state = "unwind" => Now.target # Top) /\ ~ Now.claimed /\ Now.runs = 0
      /\ stack \in Seq(Activation) /\ Now = stack[Top] /\ errs \in 0..ERROR_BOUND /\ arms \in Path
      /\ Ascending(arms) /\ handlers \in Chain
  BY <1>0, <1>1, TopTry DEF Types, TryOK, IInv
<1>a. CASE HasCatch /\ (IF Detached THEN Last(arms) # Top ELSE handlers # Now.handle)
  <2>1. UNCHANGED <<stack, chains, cleanups, frames, errs, depth>> BY <1>2, <1>a DEF Exits, Fatal
  <2> QED BY <2>1, Unmoved
<1>b. CASE ~ (HasCatch /\ (IF Detached THEN Last(arms) # Top ELSE handlers # Now.handle))
  <2>1. /\ arms' = IF HasCatch /\ Detached THEN Front(arms) ELSE arms
        /\ IF HasCatch /\ ~Detached THEN Pop(Now.handle) ELSE UNCHANGED <<handlers, errs>>
        /\ stack' = Append(Below, b)
        /\ UNCHANGED <<saved, running, cleanups, frames, depth>>
    BY <1>2, <1>b DEF Exits
  <2>2. stack' = [stack EXCEPT ![Top] = b] BY <1>2, <2>1 DEF Below, Front
  <2>3. /\ b \in TryType /\ b.phase = (IF Now.fin THEN "finally" ELSE "leave") /\ b.state = Now.state
        /\ b.handle = <<>> /\ b.claimed = Now.fin /\ b.runs = (IF Now.fin THEN 1 ELSE 0) /\ Rephased(b)
    <3>1. Now.fin \in BOOLEAN /\ Now.runs = 0 /\ <<>> \in Chain BY <1>2 DEF TryType, Chain
    <3>2. CASE Now.fin
      <4>1. b = [Now EXCEPT !.handle = <<>>, !.claimed = TRUE, !.runs = 1, !.phase = "finally"]
        BY <1>2, <3>1, <3>2 DEF AfterClose, TryType
      <4> HIDE DEF b
      <4> QED BY <1>2, <3>1, <3>2, <4>1 DEF TryType, Rephased
    <3>3. CASE ~ Now.fin
      <4>1. b = [Now EXCEPT !.handle = <<>>, !.claimed = FALSE, !.runs = 0, !.phase = "leave"]
        BY <1>2, <3>1, <3>3 DEF AfterClose, TryType
      <4> HIDE DEF b
      <4> QED BY <1>2, <3>1, <3>3, <4>1 DEF TryType, Rephased
    <3> QED BY <3>2, <3>3
  <2> HIDE DEF b
  <2>4. Now.fin \in BOOLEAN BY <1>2 DEF TryType
  <2>5. Top \in ToSet(arms) => Now.handle # <<>> BY <1>2 DEF IInv, Arms
  <2>6. /\ arms' \in Path /\ Ascending(arms') /\ ToSet(arms') = ToSet(arms) \ {Top}
    <3>1. CASE HasCatch /\ Detached
      <4>1. arms' = Front(arms) /\ Last(arms) = Top /\ arms # <<>>
        BY <1>b, <2>1, <3>1 DEF Detached, ToSet
      <4> QED BY <1>2, <4>1, FrontPath
    <3>2. CASE ~ (HasCatch /\ Detached)
      <4>1. arms' = arms /\ Top \notin ToSet(arms) BY <2>1, <2>5, <3>2 DEF HasCatch, Detached
      <4> QED BY <1>2, <4>1
    <3> QED BY <3>1, <3>2
  <2>7. TryOK(b, Top \in ToSet(arms')) BY <2>3, <2>4 DEF TryOK, Rephased
  <2>8. errs' \in 0..ERROR_BOUND /\ Closes(b, Top \in ToSet(arms'))
    <3>1. CASE HasCatch /\ ~ Detached
      <4>1. /\ handlers' = Front(handlers) /\ handlers = Now.handle /\ handlers # <<>>
            /\ errs' = CutTo(<<>>, 0, Last(handlers).mark)
        BY <1>b, <2>1, <3>1 DEF Pop, HasCatch
      <4>2. Last(handlers) \in EntryType BY <1>2, <4>1, FrontFacts DEF Chain
      <4>3. Last(handlers).mark \in 0..ERROR_BOUND /\ <<>> \in Chain BY <4>2 DEF EntryType, Chain
      <4>4. errs' \in 0..ERROR_BOUND BY <4>1, <4>3, CutRange
      <4> QED BY <2>3, <3>1, <4>1, <4>4 DEF Closes, Detached
    <3>2. CASE ~ (HasCatch /\ ~ Detached)
      BY <1>2, <2>1, <2>3, <3>2 DEF Closes, Detached, HasCatch
    <3> QED BY <3>1, <3>2
  <2>9. Top \notin ToSet(arms') /\ ToSet(arms') \ {Top} = ToSet(arms) \ {Top} BY <2>6
  <2>10. /\ (b.state = "unwind" => Now.state = "unwind" /\ b.target = Now.target
                                   /\ b.phase \notin {"body", "arm"} /\ b.target # Top)
    BY <1>2, <2>3, <2>4 DEF Rephased
  <2> QED BY <1>1, <1>2, <2>1, <2>2, <2>3, <2>6, <2>7, <2>8, <2>9, <2>10, TopTryStep DEF Rephased
<1> QED BY <1>a, <1>b
-----------------------------------------------------------------------------
(* A step that takes the activation on top away *)

Popped(s, t) == /\ Len(t) \in Nat \ {0} /\ Len(s) = Len(t) + 1
                /\ \A p \in 1..Len(t) : t[p] = s[p]
                /\ s[Len(s)].phase \notin {"drain", "transfer"}

LEMMA PopSame ==
  ASSUME NEW s, NEW t, Popped(s, t)
  PROVE  /\ Len(t) \in Nat \ {0} /\ Len(s) = Len(t) + 1 /\ Len(t) = Len(s) - 1
         /\ \A p \in 1..Len(t) : p \in 1..Len(s) /\ p # Len(s) /\ t[p] = s[p]
         /\ \A p \in 1..Len(s) : p # Len(s) => p \in 1..Len(t)
         /\ \A p \in Nat : Dead(s, p) <=> Dead(t, p)
<1>1. /\ Len(t) \in Nat \ {0} /\ Len(s) = Len(t) + 1 /\ Len(t) = Len(s) - 1
      /\ \A p \in 1..Len(t) : p \in 1..Len(s) /\ p # Len(s) /\ t[p] = s[p]
      /\ \A p \in 1..Len(s) : p # Len(s) => p \in 1..Len(t)
  BY DEF Popped
<1>2. /\ \A q \in 1..Len(s) : s[q].phase = "drain" =>
           q \in 1..Len(t) /\ t[q].phase = "drain" /\ t[q].frame = s[q].frame
      /\ \A q \in 1..Len(t) : t[q].phase = "drain" => q \in 1..Len(s) /\ s[q].phase = "drain"
  BY <1>1 DEF Popped
<1> QED BY <1>1, <1>2, DeadKept

LEMMA PopShape ==
  ASSUME NEW s, NEW t, Popped(s, t), Shape(s)
  PROVE  Shape(t)
<1>1. ASSUME NEW p \in 1..Len(t) PROVE Sits(t, p)
  <2>1. \A o \in 1..p : SameForm(s[o], t[o])
    <3> TAKE o \in 1..p
    <3>1. o \in 1..Len(t) BY <1>1, PopSame
    <3> QED BY <3>1, PopSame DEF SameForm
  <2>2. Sits(s, p) /\ p \in Nat \ {0} BY PopSame DEF Shape
  <2> QED BY <2>1, <2>2, SitsKept
<1> QED BY <1>1, PopSame DEF Shape

LEMMA PopRest ==
  ASSUME NEW s, NEW t, NEW F, NEW A, Popped(s, t), Shape(s), s[Len(s)].kind # "try",
         Tries(s, A), Frames(s, F), Targets(s, F, A), Arms(s, F, A)
  PROVE  /\ Tries(t, A) /\ Frames(t, F) /\ Targets(t, F, A) /\ Arms(t, F, A)
         /\ \A p \in F : p \in 1..Len(t)
<1>1. /\ Len(t) \in Nat \ {0} /\ Len(s) = Len(t) + 1
      /\ \A p \in 1..Len(t) : p \in 1..Len(s) /\ p # Len(s) /\ t[p] = s[p]
      /\ \A p \in 1..Len(s) : p # Len(s) => p \in 1..Len(t)
      /\ \A p \in Nat : Dead(s, p) <=> Dead(t, p)
  BY PopSame
<1>2. \A p \in F : p \in 1..Len(t) BY <1>1 DEF Frames
<1>3. s[Len(s)].phase # "transfer" /\ s[Len(s)].phase # "drain" BY DEF Popped
<1>4. t[Len(t)].phase # "transfer"
  <2>1. Sits(s, Len(s)) /\ Len(s) > 1 /\ Len(s) - 1 = Len(t) BY <1>1 DEF Shape
  <2>2. s[Len(t)].phase # "transfer" BY <2>1 DEF Sits
  <2> QED BY <1>1, <2>2
<1>5. Tries(t, A) BY <1>1 DEF Tries
<1>6. Frames(t, F)
  <2>1. ASSUME NEW p \in F
        PROVE  /\ p \in 1..Len(t) /\ t[p].kind = "try" /\ ~ Dead(t, p)
               /\ \A c \in 1 .. p - 1 : t[c].kind = "callback" => Dead(t, c)
    BY <1>1, <1>2 DEF Frames
  <2>2. \A p \in 1..Len(t) : t[p].kind = "try" /\ p \notin F => t[p].claimed /\ Dead(t, p)
    BY <1>1, <1>3 DEF Frames
  <2>3. \A q \in 1..Len(t) : t[q].phase = "drain" /\ ~ Dead(t, q) =>
          t[q].frame \in F /\ t[t[q].frame].state = "unwind"
    BY <1>1, <1>2 DEF Frames
  <2> QED BY <2>1, <2>2, <2>3 DEF Frames
<1>7. \A u : Caught(s, F, A, u) => Caught(t, F, A, u) BY <1>1, <1>2 DEF Caught
<1>8. ASSUME NEW p \in F, t[p].state = "unwind"
      PROVE  /\ t[p].target <= p /\ Caught(t, F, A, t[p].target)
             /\ t[p].target = p => t[p].phase \in {"body", "landed"}
             /\ t[p].phase \in {"body", "arm"} =>
                  \E q \in p + 1 .. Len(t) : t[q].phase = "drain" /\ t[q].frame = p
  <2>1. t[p] = s[p] /\ p \in 1..Len(t) BY <1>1, <1>2
  <2>2. /\ s[p].target <= p /\ Caught(s, F, A, s[p].target)
        /\ s[p].target = p => s[p].phase \in {"body", "landed"}
    BY <1>8, <2>1 DEF Targets
  <2>3. ASSUME t[p].phase \in {"body", "arm"}
        PROVE  \E q \in p + 1 .. Len(t) : t[q].phase = "drain" /\ t[q].frame = p
    <3>1. PICK q \in p + 1 .. Len(s) : s[q].phase = "drain" /\ s[q].frame = p
      BY <1>8, <2>1, <2>3 DEF Targets
    <3>2. q # Len(s) /\ q \in 1..Len(s) BY <1>1, <1>3, <2>1, <3>1
    <3>3. q \in 1..Len(t) /\ t[q] = s[q] BY <1>1, <3>2
    <3>4. q \in p + 1 .. Len(t) BY <1>1, <2>1, <3>1, <3>3
    <3> QED BY <3>1, <3>3, <3>4
  <2> QED BY <1>7, <2>1, <2>2, <2>3
<1>9. Targets(t, F, A) BY <1>4, <1>8 DEF Targets
<1>10. Arms(t, F, A) BY <1>1, <1>2 DEF Arms
<1> QED BY <1>2, <1>5, <1>6, <1>9, <1>10

LEMMA PopOwes ==
  ASSUME NEW s, NEW t, NEW C, NEW D, Popped(s, t), Owes(s, C), D = C \ {Len(s)},
         ~ (s[Len(s)].kind = "thunk" /\ s[Len(t)].kind = "defer")
  PROVE  Owes(t, D)
<1>1. /\ Len(t) \in Nat \ {0} /\ Len(s) = Len(t) + 1
      /\ \A p \in 1..Len(t) : p \in 1..Len(s) /\ p # Len(s) /\ t[p] = s[p]
      /\ \A p \in 1..Len(s) : p # Len(s) => p \in 1..Len(t)
      /\ \A p \in Nat : Dead(s, p) <=> Dead(t, p)
  BY PopSame
<1>2. D = Owing(t) BY <1>1 DEF Owes, Owing
<1>3. ASSUME NEW p \in 1..Len(t), Cleaner(t[p]), t[p].runs # 0
      PROVE  Dead(t, p) \/ (p < Len(t) /\ t[p].kind = "defer" /\ t[p + 1].kind = "thunk")
  <2>1. t[p] = s[p] /\ p \in 1..Len(s) BY <1>1
  <2>2. Dead(s, p) \/ (p < Len(s) /\ s[p].kind = "defer" /\ s[p + 1].kind = "thunk")
    BY <1>3, <2>1 DEF Owes
  <2>3. p < Len(t) => p + 1 \in 1..Len(t) BY <1>1
  <2>4. p = Len(t) \/ p < Len(t) BY <1>1
  <2> QED BY <1>1, <2>1, <2>2, <2>3, <2>4
<1>4. \A p \in 2..Len(t) : t[p].kind = "thunk" /\ ~ t[p].drain => t[p - 1].runs = 1
  <2> TAKE p \in 2..Len(t)
  <2>1. p \in 1..Len(t) /\ p - 1 \in 1..Len(t) /\ p \in 2..Len(s) BY <1>1
  <2> QED BY <1>1, <2>1 DEF Owes
<1> QED BY <1>2, <1>3, <1>4 DEF Owes

(* r is q, or q without its last element, which is no part of what is below e. *)
Shrinks(q, r, e) == \/ r = q
                    \/ q # <<>> /\ r = Front(q) /\ Last(q) = e
ShrinksAt(q, r, e) == \/ r = q
                      \/ q # <<>> /\ r = Front(q) /\ Last(q).at = e

LEMMA ShrinkKeeps ==
  ASSUME NEW S, NEW q \in Seq(S), NEW r, NEW e \in Nat, NEW p \in Nat, ~ (e < p)
  PROVE  /\ Shrinks(q, r, e) => \A w : Cut(q, Len(w), p) /\ Pre(w, q) => Cut(r, Len(w), p) /\ Pre(w, r)
         /\ ShrinksAt(q, r, e) => \A w : CutAt(q, Len(w), p) /\ Pre(w, q) => CutAt(r, Len(w), p) /\ Pre(w, r)
         /\ ShrinksAt(q, r, e) => \A n : CutAt(q, n, p) => CutAt(r, n, p)
<1>0. Len(q) \in Nat OBVIOUS
<1>1. ASSUME Shrinks(q, r, e), NEW w, Cut(q, Len(w), p), Pre(w, q) PROVE Cut(r, Len(w), p) /\ Pre(w, r)
  <2>1. Len(w) \in Nat BY <1>0, <1>1 DEF Cut
  <2>2. CASE r = q BY <1>1, <2>2
  <2>3. CASE r # q BY <1>1, <2>1, <2>3, PopKeepsCut DEF Shrinks
  <2> QED BY <2>2, <2>3
<1>2. ASSUME ShrinksAt(q, r, e), NEW w, CutAt(q, Len(w), p), Pre(w, q) PROVE CutAt(r, Len(w), p) /\ Pre(w, r)
  <2>1. Len(w) \in Nat BY <1>0, <1>2 DEF CutAt
  <2>2. CASE r = q BY <1>2, <2>2
  <2>3. CASE r # q BY <1>2, <2>1, <2>3, PopKeepsCut DEF ShrinksAt
  <2> QED BY <2>2, <2>3
<1>3. ASSUME ShrinksAt(q, r, e), NEW n, CutAt(q, n, p) PROVE CutAt(r, n, p)
  <2>1. n \in Nat BY <1>0, <1>3 DEF CutAt
  <2>2. CASE r = q BY <1>3, <2>2
  <2>3. CASE r # q BY <1>3, <2>1, <2>3, PopKeepsCut DEF ShrinksAt
  <2> QED BY <2>2, <2>3
<1> QED BY <1>1, <1>2, <1>3

(* For a stack that keeps its frames: those of F are as they were. *)
KeepsFrames(s, t, F) == \A p \in F : /\ p \in Nat /\ t[p].prev = s[p].prev
                                     /\ t[p].watermark = s[p].watermark /\ t[p].head = s[p].head

LEMMA ShrinkMarks ==
  ASSUME NEW s, NEW t, NEW F, NEW fr \in Path, NEW cl \in Path, NEW cs, NEW e \in Nat,
         Marks(s, F, fr, cl), KeepsFrames(s, t, F), Shrinks(cl, cs, e), \A p \in F : ~ (e < p)
  PROVE  Marks(t, F, fr, cs)
<1> SUFFICES ASSUME NEW p \in F
             PROVE  /\ Pre(t[p].prev, fr) /\ Cut(fr, Len(t[p].prev), p)
                    /\ Pre(t[p].watermark, cs) /\ Cut(cs, Len(t[p].watermark), p)
  BY DEF Marks
<1>1. p \in Nat /\ t[p].prev = s[p].prev /\ t[p].watermark = s[p].watermark BY DEF KeepsFrames
<1>2. /\ Pre(s[p].prev, fr) /\ Cut(fr, Len(s[p].prev), p)
      /\ Pre(s[p].watermark, cl) /\ Cut(cl, Len(s[p].watermark), p)
  BY DEF Marks
<1>3. \A w : Cut(cl, Len(w), p) /\ Pre(w, cl) => Cut(cs, Len(w), p) /\ Pre(w, cs)
  BY <1>1, ShrinkKeeps DEF Path
<1> QED BY <1>1, <1>2, <1>3

LEMMA ShrinkHeads ==
  ASSUME NEW s, NEW t, NEW F, NEW full \in Chain, NEW ext, NEW e \in Nat,
         Heads(s, full, F), KeepsFrames(s, t, F), ShrinksAt(full, ext, e), \A p \in F : ~ (e < p),
         \A p \in 1..Len(t) : t[p].kind = "thunk" /\ t[p].drain /\ ~ Dead(t, p) =>
           /\ p \in 1..Len(s) /\ s[p].kind = "thunk" /\ s[p].drain /\ ~ Dead(s, p)
           /\ t[p].depth = s[p].depth /\ ~ (e < p),
         Len(t) \in Nat
  PROVE  Heads(t, ext, F)
<1>1. ASSUME NEW p \in F, LET h == t[p].head IN ~ (h # <<>> /\ Last(h).at = p)
      PROVE  LET h == t[p].head IN Pre(h, ext) /\ CutAt(ext, Len(h), p)
  <2>1. p \in Nat /\ t[p].head = s[p].head BY DEF KeepsFrames
  <2>2. Pre(s[p].head, full) /\ CutAt(full, Len(s[p].head), p) BY <1>1, <2>1 DEF Heads
  <2>3. \A w : CutAt(full, Len(w), p) /\ Pre(w, full) => CutAt(ext, Len(w), p) /\ Pre(w, ext)
    BY <2>1, ShrinkKeeps DEF Chain
  <2> QED BY <2>1, <2>2, <2>3
<1>2. ASSUME NEW p \in 1..Len(t), t[p].kind = "thunk", t[p].drain, ~ Dead(t, p)
      PROVE  CutAt(ext, t[p].depth, p)
  <2>1. p \in Nat /\ ~ (e < p) BY <1>2
  <2>2. CutAt(full, t[p].depth, p) BY <1>2 DEF Heads
  <2>3. \A n : CutAt(full, n, p) => CutAt(ext, n, p) BY <2>1, ShrinkKeeps DEF Chain
  <2> QED BY <2>2, <2>3
<1> QED BY <1>1, <1>2 DEF Heads

(* The registrations of t are those of s without e, which full loses. *)
LEMMA ShrinkRegisters ==
  ASSUME NEW s, NEW t, NEW F, NEW A, NEW B, NEW G, NEW full \in Chain, NEW ext, NEW e \in Nat, Rising(full),
         Registers(s, full, F, A), ShrinksAt(full, ext, e), F \cap Reg(t, B) \subseteq G,
         \A p \in Reg(t, B) : t[p].kind = s[p].kind /\ t[p].handle = s[p].handle /\ Len(s[p].handle) \in Nat,
         ext = full => Reg(t, B) = Reg(s, A), ext # full => Reg(t, B) = Reg(s, A) \ {e}
  PROVE  Registers(t, ext, G, B)
<1>0. Len(full) \in Nat /\ DOMAIN full = 1..Len(full) BY ChainElements
<1>3. /\ Ids(full) = Reg(s, A)
      /\ \A i \in 1..Len(full) : full[i].kind = "catch" <=> s[full[i].at].kind = "try"
      /\ \A p \in Reg(s, A) : PathTo(s[p].handle, full, p) /\ (s[p].kind = "try" => p \in F)
  BY DEF Registers
<1>4. \A i \in 1..Len(full) : full[i].at \in Reg(s, A) BY <1>0, <1>3 DEF Ids
<1>5. CASE ext = full
  BY <1>3, <1>4, <1>5 DEF Registers
<1>6. CASE ext # full
  <2>0. full # <<>> /\ ext = Front(full) /\ Last(full).at = e BY <1>6 DEF ShrinksAt
  <2>1. /\ Ids(ext) = Ids(full) \ {e} /\ Len(ext) = Len(full) - 1 /\ \A i \in 1..Len(ext) : ext[i] = full[i]
    BY <2>0, FrontChain, FrontFacts DEF Chain
  <2>2. \A i \in 1..Len(ext) : i \in 1..Len(full) /\ ext[i] = full[i] BY <1>0, <2>1
  <2>7. \A i \in 1..Len(ext) : ext[i].at \in Reg(t, B)
    <3>1. Ids(ext) = Reg(t, B) BY <1>3, <1>6, <2>1
    <3>2. ext \in Chain BY <2>0, FrontChain
    <3> QED BY <3>1, <3>2, ChainElements DEF Ids
  <2>3. \A i \in 1..Len(ext) : ext[i].kind = "catch" <=> t[ext[i].at].kind = "try"
    BY <1>3, <2>2, <2>7
  <2>4. ASSUME NEW p \in Reg(t, B)
        PROVE  PathTo(t[p].handle, ext, p) /\ (t[p].kind = "try" => p \in G)
    <3>1. p \in Reg(s, A) /\ p # e BY <1>6
    <3>2. PathTo(s[p].handle, full, p) /\ (s[p].kind = "try" => p \in F) /\ Len(s[p].handle) \in Nat
      BY <1>3, <3>1
    <3>3. PathTo(s[p].handle, ext, p) BY <2>0, <3>1, <3>2, PathPops
    <3> QED BY <3>1, <3>2, <3>3
  <2>5. Ids(ext) = Reg(t, B) BY <1>3, <1>6, <2>1
  <2> QED BY <2>3, <2>4, <2>5 DEF Registers
<1> QED BY <1>5, <1>6

LEMMA PopDepths ==
  ASSUME NEW s, NEW t, NEW d \in Nat, Popped(s, t), Depths(s, d)
  PROVE  /\ s[Len(s)].kind # "dispatch" => Depths(t, d)
         /\ s[Len(s)].kind = "dispatch" => Depths(t, d - 1)
<1>1. /\ Len(t) \in Nat \ {0} /\ Len(s) = Len(t) + 1 /\ Len(s) \in Nat
      /\ \A p \in 1..Len(t) : p \in 1..Len(s) /\ p # Len(s) /\ t[p] = s[p]
      /\ \A p \in 1..Len(s) : p # Len(s) => p \in 1..Len(t)
      /\ \A p \in Nat : Dead(s, p) <=> Dead(t, p)
  BY PopSame
<1>2. Cardinality(Active(s)) <= d BY DEF Depths, Popped
<1>3. /\ IsFiniteSet(Active(s)) /\ Cardinality(Active(s)) \in Nat
      /\ IsFiniteSet(Active(t)) /\ Cardinality(Active(t)) \in Nat
  BY <1>1, ActiveFinite
<1>4. ASSUME s[Len(s)].kind # "dispatch" PROVE Depths(t, d)
  <2>1. Active(t) = Active(s) BY <1>1, <1>4 DEF Active
  <2> QED BY <1>2, <2>1 DEF Depths
<1>5. ASSUME s[Len(s)].kind = "dispatch" PROVE Depths(t, d - 1)
  <2>1. ~ Dead(s, Len(s)) BY <1>1 DEF Dead
  <2>2. Active(s) = Active(t) \cup {Len(s)} /\ Len(s) \notin Active(t) BY <1>1, <1>5, <2>1 DEF Active
  <2>3. Cardinality(Active(t) \cup {Len(s)}) = Cardinality(Active(t)) + 1
    BY <1>3, <2>2, FS_AddElement, Zenon
  <2> QED BY <1>2, <1>3, <2>2, <2>3 DEF Depths
<1> QED BY <1>4, <1>5

LEMMA PopQuiet ==
  ASSUME NEW s, NEW t, NEW hs, Popped(s, t), Silent(s), t[Len(t)].kind # "dispatch"
  PROVE  Silent(t) /\ Dispatches(t, <<>>, <<>>, hs)
<1>1. Silent(t) BY PopSame DEF Silent
<1> QED BY <1>1 DEF Silent, Dispatches

LEMMA PopDispatching ==
  ASSUME NEW s, NEW t, NEW d, NEW sv, NEW rn, NEW hs, Popped(s, t), Dispatching(s, d, sv, rn, hs),
         d # Len(s), NEW rr, NEW gs,
         t[Len(t)].kind # "dispatch" =>
           \E c \in d + 1 .. Len(t) : /\ Inner(s, c, Len(s)) /\ rr = s[c - 1].offer /\ gs = Front(rr)
  PROVE  Dispatching(t, d, sv, rr, gs)
<1>1. /\ Len(t) \in Nat \ {0} /\ Len(s) = Len(t) + 1 /\ Len(s) \in Nat
      /\ \A p \in 1..Len(t) : p \in 1..Len(s) /\ p # Len(s) /\ t[p] = s[p]
      /\ \A p \in 1..Len(s) : p # Len(s) => p \in 1..Len(t)
      /\ \A p \in Nat : Dead(s, p) <=> Dead(t, p)
  BY PopSame
<1>2. d \in 1..Len(t) /\ d \in Nat BY <1>1 DEF Dispatching
<1>3. /\ t[d].kind = "dispatch"
      /\ t[d].outer = <<>> /\ t[d].outerRunning = <<>> /\ t[d].chain = sv
      /\ \A o \in 1 .. d - 1 : t[o].kind = "callback" => Dead(t, o)
  BY <1>1, <1>2 DEF Dispatching
<1>4. \A p \in d + 1 .. Len(t) : /\ t[p].kind \in {"dispatch", "callback", "defer", "thunk"}
                                 /\ t[p].kind = "thunk" => ~ t[p].drain
                                 /\ t[p].kind = "callback" => t[p - 1].offer # <<>>
  <2> TAKE p \in d + 1 .. Len(t)
  <2>1. p \in d + 1 .. Len(s) /\ t[p] = s[p] /\ t[p - 1] = s[p - 1] BY <1>1, <1>2
  <2> QED BY <2>1 DEF Dispatching
<1>5. \A e \in d .. Len(t) : t[e].kind = "dispatch" => Pre(t[e].offer, sv)
  <2> TAKE e \in d .. Len(t)
  <2>1. e \in d .. Len(s) /\ t[e] = s[e] BY <1>1, <1>2
  <2> QED BY <2>1 DEF Dispatching
<1>6. ASSUME NEW e \in d + 1 .. Len(t), t[e].kind = "dispatch"
      PROVE  /\ t[e].outer = sv
             /\ \E o \in d + 1 .. e - 1 : /\ Inner(t, o, e) /\ t[e].outerRunning = t[o - 1].offer
                                          /\ t[e].chain = Front(t[o - 1].offer)
  <2>1. e \in d + 1 .. Len(s) /\ t[e] = s[e] BY <1>1, <1>2
  <2>2. PICK o \in d + 1 .. e - 1 : /\ Inner(s, o, e) /\ s[e].outerRunning = s[o - 1].offer
                                    /\ s[e].chain = Front(s[o - 1].offer)
    BY <1>6, <2>1 DEF Dispatching
  <2>3. \A c \in 1 .. e - 1 : t[c] = s[c] BY <1>1, <1>2, <2>1
  <2>4. Inner(s, o, e) /\ e \in Nat /\ o \in Nat BY <1>1, <1>2, <2>1, <2>2
  <2>5. Inner(t, o, e) BY <2>3, <2>4 DEF Inner
  <2>6. o - 1 \in 1 .. e - 1 BY <1>2, <2>1, <2>2
  <2>7. t[e].outer = sv BY <1>6, <2>1 DEF Dispatching
  <2> QED BY <2>1, <2>2, <2>3, <2>5, <2>6, <2>7
<1>7. ASSUME t[Len(t)].kind # "dispatch"
      PROVE  \E c \in d + 1 .. Len(t) : /\ Inner(t, c, Len(t) + 1) /\ rr = t[c - 1].offer /\ gs = Front(rr)
  <2>1. PICK c \in d + 1 .. Len(t) : /\ Inner(s, c, Len(s)) /\ rr = s[c - 1].offer /\ gs = Front(rr)
    BY <1>7
  <2>2. \A o \in 1..Len(t) : t[o] = s[o] BY <1>1
  <2>3. Inner(t, c, Len(t) + 1) BY <1>1, <1>2, <2>1, <2>2 DEF Inner
  <2>4. c - 1 \in 1..Len(t) BY <1>1, <1>2, <2>1
  <2> QED BY <2>1, <2>2, <2>3, <2>4
<1> QED BY <1>2, <1>3, <1>4, <1>5, <1>6, <1>7 DEF Dispatching

(* A defer or its body ends. *)
LEMMA PopPlain ==
  ASSUME NEW s, NEW t, NEW sv, NEW rn, NEW hs, Popped(s, t), Dispatches(s, sv, rn, hs),
         s[Len(s)].kind \in {"defer", "thunk"}, t[Len(t)].kind # "dispatch"
  PROVE  Dispatches(t, sv, rn, hs)
<1>0. Len(t) \in Nat \ {0} /\ Len(s) = Len(t) + 1 /\ s[Len(s)].phase # "transfer" BY PopSame DEF Popped
<1>1. CASE sv = <<>>
  <2>1. rn = <<>> /\ Silent(s) BY <1>0, <1>1 DEF Dispatches, Silent
  <2> QED BY <1>1, <2>1, PopQuiet
<1>2. CASE sv # <<>>
  <2>1. PICK d \in 1..Len(s) : Dispatching(s, d, sv, rn, hs) BY <1>2 DEF Dispatches
  <2>2. d # Len(s) BY <2>1 DEF Dispatching
  <2>3. PICK c \in d + 1 .. Len(s) : Inner(s, c, Len(s) + 1) /\ rn = s[c - 1].offer /\ hs = Front(rn)
    BY <2>1 DEF Dispatching
  <2>4. c # Len(s) BY <2>3 DEF Inner
  <2>5. c \in d + 1 .. Len(t) /\ Inner(s, c, Len(s)) BY <1>0, <2>3, <2>4 DEF Inner
  <2>6. Dispatching(t, d, sv, rn, hs) BY <2>1, <2>2, <2>3, <2>5, PopDispatching
  <2>7. d \in 1..Len(t) BY <1>0, <2>2
  <2> QED BY <1>2, <2>6, <2>7 DEF Dispatches
<1> QED BY <1>1, <1>2

LEMMA StackPop ==
  ASSUME Types, Shape(stack), Now.phase \notin {"drain", "transfer"}, Now.kind # "main"
  PROVE  /\ Popped(stack, Below) /\ Below \in Seq(Activation) /\ Len(Below) = Top - 1
         /\ Top \in Nat \ {0} /\ Top = Len(stack) /\ Now = stack[Top] /\ Top > 1
         /\ Sits(stack, Top)
<1>1. /\ stack \in Seq(Activation) /\ stack # <<>> /\ Top \in Nat \ {0} /\ Top = Len(stack)
      /\ Now = stack[Top]
  BY Stacked DEF Types
<1>2. Sits(stack, Top) BY <1>1 DEF Shape
<1>3. Top > 1 BY <1>1, <1>2 DEF Sits
<1>4. /\ Below \in Seq(Activation) /\ Len(Below) = Top - 1
      /\ \A i \in 1 .. Top - 1 : Below[i] = stack[i]
  BY <1>1, FrontFacts DEF Below
<1> QED BY <1>1, <1>2, <1>3, <1>4 DEF Popped

LEMMA FramesKept ==
  ASSUME Types, IInv, NEW t, \A p \in ToSet(frames) : t[p] = stack[p]
  PROVE  KeepsFrames(stack, t, ToSet(frames))
BY Within DEF KeepsFrames

LEMMA CleanupOnTop ==
  ASSUME Types, IInv, Top \in ToSet(cleanups)
  PROVE  /\ cleanups # <<>> /\ Last(cleanups) = Top /\ Front(cleanups) \in Path /\ Ascending(Front(cleanups))
         /\ ToSet(Front(cleanups)) = ToSet(cleanups) \ {Top}
<1>1. cleanups # <<>> BY DEF ToSet
<1>2. cleanups \in Path /\ Ascending(cleanups) BY DEF Types, IInv
<1>3. Last(cleanups) = Top
  <2>1. Last(cleanups) \in ToSet(cleanups) /\ Top <= Last(cleanups) BY <1>1, <1>2, FrontPath
  <2>2. Last(cleanups) \in 1..Top BY <2>1, Within
  <2> QED BY <2>1, <2>2, Stacked DEF IInv
<1> QED BY <1>1, <1>2, <1>3, FrontPath

(* Only dispatches, callbacks and deferred bodies run inside a dispatch. *)
LEMMA Undispatched ==
  ASSUME Types, IInv, \/ Now.kind \notin {"dispatch", "callback", "defer", "thunk"}
                      \/ Now.kind = "thunk" /\ Now.drain
  PROVE  /\ saved = <<>> /\ running = <<>> /\ UnwindHead = handlers
         /\ Now.phase # "transfer" => Silent(stack)
<1>0. Shape(stack) /\ Dispatches(stack, saved, running, handlers) BY DEF IInv
<1>1. Now = stack[Len(stack)] /\ Len(stack) \in Nat \ {0} BY <1>0, Stacked
<1>2. saved = <<>>
  <2> SUFFICES ASSUME saved # <<>> PROVE FALSE OBVIOUS
  <2>1. PICK d \in 1..Len(stack) : Dispatching(stack, d, saved, running, handlers) BY <1>0 DEF Dispatches
  <2>2. d # Len(stack) BY <1>1, <2>1 DEF Dispatching
  <2>3. Len(stack) \in d + 1 .. Len(stack) BY <1>1, <2>2
  <2> QED BY <1>1, <2>1, <2>3 DEF Dispatching
<1> QED BY <1>0, <1>1, <1>2 DEF Dispatches, Silent, UnwindHead

LEMMA EndWatchStep ==
  ASSUME Types, IInv, EndWatch
  PROVE  Types' /\ IInv'
<1> DEFINE F == ToSet(frames)
           A == ToSet(arms)
<1>0. /\ Shape(stack) /\ Tries(stack, ToSet(arms)) /\ Frames(stack, ToSet(frames))
      /\ Targets(stack, ToSet(frames), ToSet(arms)) /\ Arms(stack, ToSet(frames), ToSet(arms))
      /\ Owes(stack, ToSet(cleanups)) /\ Marks(stack, ToSet(frames), frames, cleanups)
      /\ Registers(stack, UnwindHead, ToSet(frames), ToSet(arms))
      /\ Heads(stack, UnwindHead, ToSet(frames)) /\ Dispatches(stack, saved, running, handlers)
      /\ Depths(stack, depth) /\ Rising(UnwindHead) /\ Ascending(frames) /\ Ascending(cleanups)
      /\ Ascending(arms)
  BY DEF IInv
<1>1. Coding /\ Now.kind = "watch" BY DEF EndWatch
<1>a. CASE cleanups = <<>> \/ Last(cleanups) # Top \/ handlers # Now.handle
  <2>1. UNCHANGED <<stack, chains, cleanups, frames, errs, depth>> BY <1>a DEF EndWatch, Fatal
  <2> QED BY <2>1, Unmoved
<1>b. CASE ~ (cleanups = <<>> \/ Last(cleanups) # Top \/ handlers # Now.handle)
  <2>1. /\ handlers = Now.handle /\ handlers' = Front(handlers) /\ errs' = CutTo(<<>>, 0, Last(handlers).mark)
        /\ cleanups' = Front(cleanups) /\ stack' = Below
        /\ saved' = saved /\ running' = running /\ arms' = arms /\ frames' = frames /\ depth' = depth
    BY <1>b DEF EndWatch, Pop
  <2>2. /\ saved = <<>> /\ running = <<>> /\ UnwindHead = handlers /\ Silent(stack)
        /\ Now.phase \in {"body", "arm", "finally"}
    BY <1>1, Undispatched, Coded
  <2>3. /\ Popped(stack, stack') /\ stack' \in Seq(Activation) /\ Top \in Nat \ {0} /\ Top = Len(stack)
        /\ Now = stack[Top] /\ Sits(stack, Top) /\ Len(stack') = Top - 1 /\ Top > 1
    BY <1>0, <1>1, <2>1, <2>2, StackPop
  <2>4. /\ handlers \in Chain /\ errs \in 0..ERROR_BOUND /\ frames \in Path /\ cleanups \in Path
        /\ depth \in 0..ERROR_MAX_DEPTH /\ arms \in Path /\ saved \in Chain /\ running \in Chain
        /\ depth \in Nat
    BY Sizes DEF Types
  <2>5. Now.runs = 0
    <3>1. ~ Dead(stack, Top) BY <2>3 DEF Dead
    <3> QED BY <1>0, <1>1, <2>3, <3>1 DEF Owes, Cleaner
  <2>6. Top \in ToSet(cleanups) BY <1>0, <1>1, <2>3, <2>5 DEF Owes, Owing, Cleaner
  <2>7. /\ cleanups' \in Path /\ Ascending(cleanups') /\ ToSet(cleanups') = ToSet(cleanups) \ {Top}
        /\ Shrinks(cleanups, cleanups', Top)
    BY <2>1, <2>6, CleanupOnTop DEF Shrinks
  <2>8. Top \in Reg(stack, A) BY <1>1, <2>3, <2>5 DEF Reg
  <2>9. handlers # <<>> /\ Last(handlers).at = Top BY <1>0, <2>1, <2>2, <2>3, <2>8 DEF Registers, PathTo
  <2>10. /\ handlers' \in Chain /\ Rising(handlers') /\ ShrinksAt(handlers, handlers', Top)
         /\ handlers' # handlers
    <3>1. Len(Front(handlers)) = Len(handlers) - 1 /\ Len(handlers) \in Nat
      BY <2>4, <2>9, FrontFacts, Sizes DEF Chain
    <3>2. Front(handlers) # handlers BY <3>1
    <3> QED BY <1>0, <2>1, <2>2, <2>4, <2>9, <3>2, FrontChain DEF ShrinksAt
  <2>11. errs' \in 0..ERROR_BOUND
    <3>1. Last(handlers) \in EntryType BY <2>4, <2>9, FrontFacts DEF Chain
    <3>2. Last(handlers).mark \in 0..ERROR_BOUND /\ <<>> \in Chain BY <3>1 DEF EntryType, Chain
    <3> QED BY <2>1, <3>2, CutRange
  <2>12. Types' BY <2>1, <2>3, <2>4, <2>7, <2>10, <2>11 DEF Types
  <2>13. UnwindHead' = handlers' BY <2>1, <2>2 DEF UnwindHead
  <2>14. Shape(stack') BY <1>0, <2>3, PopShape
  <2>15. stack[Len(stack)].kind = "watch" BY <1>1, <2>3
  <2>16. /\ Tries(stack', A) /\ Frames(stack', F) /\ Targets(stack', F, A) /\ Arms(stack', F, A)
         /\ \A p \in F : p \in 1..Len(stack')
    BY <1>0, <2>3, <2>15, PopRest
  <2>17. Owes(stack', ToSet(cleanups')) BY <1>0, <2>3, <2>7, <2>15, PopOwes
  <2>18. /\ \A p \in 1..Len(stack') : p # Top /\ p \in 1..Top /\ stack'[p] = stack[p]
         /\ \A p \in 1..Top : p # Top => p \in 1..Len(stack')
         /\ \A p \in Nat : Dead(stack, p) <=> Dead(stack', p)
    BY <2>3, PopSame
  <2>19. KeepsFrames(stack, stack', F) BY <2>16, <2>18, FramesKept
  <2>20. \A p \in F : ~ (Top < p) BY <2>3, <2>16
  <2>21. Marks(stack', F, frames, cleanups') BY <1>0, <2>3, <2>4, <2>7, <2>19, <2>20, ShrinkMarks
  <2>22. Registers(stack', handlers', F, A)
    <3>1. Reg(stack', A) = Reg(stack, A) \ {Top} BY <2>3, <2>18 DEF Reg
    <3>2. \A p \in Reg(stack, A) : Len(stack[p].handle) \in Nat BY <1>0, HandlesAre
    <3>3. \A p \in Reg(stack', A) : stack'[p] = stack[p] BY <2>18 DEF Reg
    <3> QED BY <1>0, <2>2, <2>3, <2>4, <2>10, <3>1, <3>2, <3>3, ShrinkRegisters
  <2>23. Heads(stack', handlers', F)
    <3>1. ASSUME NEW p \in 1..Len(stack'), stack'[p].kind = "thunk", stack'[p].drain, ~ Dead(stack', p)
          PROVE  /\ p \in 1..Len(stack) /\ stack[p].kind = "thunk" /\ stack[p].drain /\ ~ Dead(stack, p)
                 /\ stack'[p].depth = stack[p].depth /\ ~ (Top < p)
      BY <2>3, <2>18, <3>1
    <3> QED BY <1>0, <2>2, <2>3, <2>4, <2>10, <2>19, <2>20, <3>1, ShrinkHeads
  <2>24. Dispatches(stack', saved', running', handlers')
    <3>1. stack[Len(stack')].kind # "dispatch" BY <1>1, <2>3 DEF Sits
    <3>2. stack'[Len(stack')].kind # "dispatch" BY <2>3, <2>18, <3>1
    <3> QED BY <2>1, <2>2, <2>3, <3>2, PopQuiet
  <2>25. Depths(stack', depth) BY <1>0, <2>3, <2>4, <2>15, PopDepths
  <2> QED BY <1>0, <2>1, <2>7, <2>10, <2>12, <2>13, <2>14, <2>16, <2>17, <2>21, <2>22, <2>23, <2>24, <2>25 DEF IInv
<1> QED BY <1>a, <1>b

LEMMA DrainedDeferStep ==
  ASSUME Types, IInv, DrainedDefer
  PROVE  Types' /\ IInv' /\ handlers' = handlers
<1> DEFINE F == ToSet(frames)
           A == ToSet(arms)
<1>0. /\ Shape(stack) /\ Tries(stack, ToSet(arms)) /\ Frames(stack, ToSet(frames))
      /\ Targets(stack, ToSet(frames), ToSet(arms)) /\ Arms(stack, ToSet(frames), ToSet(arms))
      /\ Owes(stack, ToSet(cleanups)) /\ Marks(stack, ToSet(frames), frames, cleanups)
      /\ Registers(stack, UnwindHead, ToSet(frames), ToSet(arms))
      /\ Heads(stack, UnwindHead, ToSet(frames)) /\ Dispatches(stack, saved, running, handlers)
      /\ Depths(stack, depth) /\ Rising(UnwindHead) /\ Ascending(frames) /\ Ascending(cleanups)
      /\ Ascending(arms)
  BY DEF IInv
<1>1. Coding /\ Now.kind = "thunk" /\ Now.drain BY DEF DrainedDefer
<1>2. /\ handlers' = UnwoundTo(Now.depth) /\ errs' = CutTo(handlers, Now.depth, Now.height)
      /\ stack' = Below /\ saved' = saved /\ running' = running /\ arms' = arms /\ cleanups' = cleanups
      /\ frames' = frames /\ depth' = depth
  BY DEF DrainedDefer
<1>3. /\ saved = <<>> /\ running = <<>> /\ UnwindHead = handlers /\ Silent(stack)
      /\ Now.phase \in {"body", "arm", "finally"}
  BY <1>1, Undispatched, Coded
<1>4. /\ handlers \in Chain /\ errs \in 0..ERROR_BOUND /\ frames \in Path /\ cleanups \in Path
      /\ depth \in 0..ERROR_MAX_DEPTH /\ arms \in Path /\ saved \in Chain /\ running \in Chain
  BY DEF Types
<1>5. /\ Popped(stack, stack') /\ stack' \in Seq(Activation) /\ Top \in Nat \ {0} /\ Top = Len(stack)
      /\ Now = stack[Top] /\ Sits(stack, Top) /\ Len(stack') = Top - 1 /\ Top > 1
  BY <1>0, <1>1, <1>2, <1>3, StackPop
<1>6. Now \in DrainedType /\ Now.depth \in Nat /\ Now.height \in 0..ERROR_BOUND
  <2>1. Now \in Activation BY <1>0, <1>5, Stacked
  <2> QED BY <1>1, <2>1, KindOf DEF DrainedType
<1>7. Now.depth = Len(handlers)
  <2>1. ~ Dead(stack, Top) BY <1>5 DEF Dead
  <2>2. CutAt(handlers, Now.depth, Top) BY <1>0, <1>1, <1>3, <1>5, <2>1 DEF Heads
  <2>3. \A i \in 1..Len(handlers) : handlers[i].at < Top
    <3> TAKE i \in 1..Len(handlers)
    <3>1. handlers[i].at \in Reg(stack, A) /\ handlers[i].at \in 1..Top
      BY <1>0, <1>3, Sizes, Within DEF Registers, Ids
    <3>2. handlers[i].at # Top BY <1>1, <1>5, <3>1 DEF Reg
    <3> QED BY <1>5, <3>1, <3>2
  <2> QED BY <1>6, <2>2, <2>3, Sizes DEF CutAt
<1>8. handlers' = handlers
  <2>1. Min({Now.depth, Len(handlers)}) = Len(handlers)
    BY <1>7, Sizes DEF Min
  <2> QED BY <1>2, <1>4, <2>1 DEF UnwoundTo, Chain
<1>9. errs' \in 0..ERROR_BOUND BY <1>2, <1>4, <1>6, CutRange
<1>10. Types' BY <1>2, <1>4, <1>5, <1>8, <1>9 DEF Types
<1>11. UnwindHead' = UnwindHead BY <1>2, <1>8 DEF UnwindHead
<1>12. Shape(stack') BY <1>0, <1>5, PopShape
<1>13. stack[Len(stack)].kind = "thunk" /\ stack[Len(stack)].drain BY <1>1, <1>5
<1>14. /\ Tries(stack', A) /\ Frames(stack', F) /\ Targets(stack', F, A) /\ Arms(stack', F, A)
       /\ \A p \in F : p \in 1..Len(stack')
  BY <1>0, <1>5, <1>13, PopRest
<1>15. stack[Len(stack')].kind = "unwind" BY <1>5, <1>13 DEF Sits
<1>16. Owes(stack', ToSet(cleanups'))
  <2>1. ToSet(cleanups') = ToSet(cleanups) \ {Len(stack)}
    BY <1>0, <1>2, <1>13 DEF Owes, Owing, Cleaner
  <2> QED BY <1>0, <1>5, <1>15, <2>1, PopOwes
<1>17. /\ \A p \in 1..Len(stack') : p # Top /\ p \in 1..Top /\ stack'[p] = stack[p]
       /\ \A p \in 1..Top : p # Top => p \in 1..Len(stack')
       /\ \A p \in Nat : Dead(stack, p) <=> Dead(stack', p)
  BY <1>5, PopSame
<1>18. KeepsFrames(stack, stack', F) BY <1>14, <1>17, FramesKept
<1>19. \A p \in F : ~ (Top < p) BY <1>5, <1>14
<1>20. Shrinks(cleanups, cleanups', Top) /\ ShrinksAt(handlers, handlers', Top)
  BY <1>2, <1>8 DEF Shrinks, ShrinksAt
<1>21. Marks(stack', F, frames, cleanups') BY <1>0, <1>4, <1>5, <1>18, <1>19, <1>20, ShrinkMarks
<1>22. Registers(stack', handlers', F, A)
  <2>1. Reg(stack', A) = Reg(stack, A) BY <1>5, <1>13, <1>17 DEF Reg
  <2>2. \A p \in Reg(stack, A) : Len(stack[p].handle) \in Nat BY <1>0, HandlesAre
  <2>3. \A p \in Reg(stack, A) : stack'[p] = stack[p] BY <1>5, <1>13, <1>17 DEF Reg
  <2> QED BY <1>0, <1>3, <1>4, <1>5, <1>8, <1>20, <2>1, <2>2, <2>3, ShrinkRegisters
<1>23. Heads(stack', handlers', F)
  <2>1. ASSUME NEW p \in 1..Len(stack'), stack'[p].kind = "thunk", stack'[p].drain, ~ Dead(stack', p)
        PROVE  /\ p \in 1..Len(stack) /\ stack[p].kind = "thunk" /\ stack[p].drain /\ ~ Dead(stack, p)
               /\ stack'[p].depth = stack[p].depth /\ ~ (Top < p)
    BY <1>5, <1>17, <2>1
  <2> QED BY <1>0, <1>3, <1>4, <1>5, <1>18, <1>19, <1>20, <2>1, ShrinkHeads
<1>24. Dispatches(stack', saved', running', handlers')
  <2>1. stack'[Len(stack')].kind # "dispatch" BY <1>5, <1>15, <1>17
  <2> QED BY <1>2, <1>3, <1>5, <2>1, PopQuiet
<1>25. Depths(stack', depth) BY <1>0, <1>5, <1>13, Sizes, PopDepths
<1> QED BY <1>0, <1>2, <1>3, <1>8, <1>10, <1>11, <1>12, <1>14, <1>16, <1>21, <1>22, <1>23, <1>24, <1>25 DEF IInv

(* What is popped here registers nothing and is no frame. *)
LEMMA PopUnregistered ==
  ASSUME NEW s, NEW t, NEW F, NEW A, NEW full \in Chain, NEW fr \in Path, NEW cl \in Path, NEW cs,
         Popped(s, t), Shape(s), Tries(s, A), Frames(s, F), Targets(s, F, A), Arms(s, F, A),
         Marks(s, F, fr, cl), Registers(s, full, F, A), Heads(s, full, F), Rising(full),
         s[Len(s)].kind \in {"thunk", "defer", "callback", "dispatch"}, Shrinks(cl, cs, Len(s)),
         \A p \in Reg(s, A) : Len(s[p].handle) \in Nat
  PROVE  /\ Shape(t) /\ Tries(t, A) /\ Frames(t, F) /\ Targets(t, F, A) /\ Arms(t, F, A)
         /\ Marks(t, F, fr, cs) /\ Registers(t, full, F, A) /\ Heads(t, full, F)
         /\ \A p \in Reg(t, A) : Len(t[p].handle) \in Nat
<1>1. Shape(t) BY PopShape
<1>2. /\ Tries(t, A) /\ Frames(t, F) /\ Targets(t, F, A) /\ Arms(t, F, A)
      /\ \A p \in F : p \in 1..Len(t)
  BY PopRest
<1>3. /\ Len(t) \in Nat \ {0} /\ Len(s) = Len(t) + 1 /\ Len(s) \in Nat
      /\ \A p \in 1..Len(t) : p \in 1..Len(s) /\ p # Len(s) /\ t[p] = s[p]
      /\ \A p \in 1..Len(s) : p # Len(s) => p \in 1..Len(t)
      /\ \A p \in Nat : Dead(s, p) <=> Dead(t, p)
  BY PopSame
<1>4. KeepsFrames(s, t, F) /\ \A p \in F : ~ (Len(s) < p) BY <1>2, <1>3 DEF KeepsFrames
<1>5. Marks(t, F, fr, cs) BY <1>3, <1>4, ShrinkMarks
<1>6. Reg(t, A) = Reg(s, A) BY <1>3 DEF Reg
<1>7. \A p \in Reg(t, A) : t[p] = s[p] BY <1>3 DEF Reg
<1>8. ShrinksAt(full, full, Len(s)) BY DEF ShrinksAt
<1>9. Registers(t, full, F, A) BY <1>3, <1>6, <1>7, <1>8, ShrinkRegisters
<1>10. Heads(t, full, F)
  <2>1. ASSUME NEW p \in 1..Len(t), t[p].kind = "thunk", t[p].drain, ~ Dead(t, p)
        PROVE  /\ p \in 1..Len(s) /\ s[p].kind = "thunk" /\ s[p].drain /\ ~ Dead(s, p)
               /\ t[p].depth = s[p].depth /\ ~ (Len(s) < p)
    BY <1>3, <2>1
  <2> QED BY <1>3, <1>4, <1>8, <2>1, ShrinkHeads
<1> QED BY <1>1, <1>2, <1>5, <1>6, <1>7, <1>9, <1>10

LEMMA DeferLeftStep ==
  ASSUME Types, IInv, DeferLeft
  PROVE  Types' /\ IInv'
<1> DEFINE F == ToSet(frames)
           A == ToSet(arms)
           C == ToSet(cleanups)
           u == Below
<1>0. /\ Shape(stack) /\ Tries(stack, ToSet(arms)) /\ Frames(stack, ToSet(frames))
      /\ Targets(stack, ToSet(frames), ToSet(arms)) /\ Arms(stack, ToSet(frames), ToSet(arms))
      /\ Owes(stack, ToSet(cleanups)) /\ Marks(stack, ToSet(frames), frames, cleanups)
      /\ Registers(stack, UnwindHead, ToSet(frames), ToSet(arms))
      /\ Heads(stack, UnwindHead, ToSet(frames)) /\ Dispatches(stack, saved, running, handlers)
      /\ Depths(stack, depth) /\ Rising(UnwindHead) /\ Ascending(frames) /\ Ascending(cleanups)
      /\ Ascending(arms)
  BY DEF IInv
<1>1. Coding /\ Now.kind = "thunk" /\ ~ Now.drain BY DEF DeferLeft
<1>2. /\ stack' = Front(Below) /\ handlers' = handlers /\ saved' = saved /\ running' = running
      /\ arms' = arms /\ cleanups' = cleanups /\ frames' = frames /\ errs' = errs /\ depth' = depth
  BY DEF DeferLeft, chains
<1>4. /\ handlers \in Chain /\ errs \in 0..ERROR_BOUND /\ frames \in Path /\ cleanups \in Path
      /\ depth \in 0..ERROR_MAX_DEPTH /\ arms \in Path /\ saved \in Chain /\ running \in Chain
  BY DEF Types
<1>5. /\ Popped(stack, u) /\ u \in Seq(Activation) /\ Top \in Nat \ {0} /\ Top = Len(stack)
      /\ Now = stack[Top] /\ Sits(stack, Top) /\ Len(u) = Top - 1 /\ Top > 1
      /\ Now.phase \notin {"drain", "transfer"}
  BY <1>0, <1>1, StackPop, Coded
<1>6. /\ stack[Len(stack)].kind = "thunk" /\ ~ stack[Len(stack)].drain
      /\ stack[Len(u)].kind = "defer" /\ stack[Len(u)].runs = 1
  BY <1>0, <1>1, <1>5 DEF Sits, Owes
<1>7. /\ \A p \in 1..Len(u) : p # Top /\ p \in 1..Top /\ u[p] = stack[p]
      /\ \A p \in 1..Top : p # Top => p \in 1..Len(u)
      /\ \A p \in Nat : Dead(stack, p) <=> Dead(u, p)
      /\ Len(u) \in Nat \ {0}
  BY <1>5, PopSame
<1>8. u[Len(u)].kind = "defer" /\ u[Len(u)].phase = "body"
  <2>1. Len(u) \in 1..Len(u) BY <1>7
  <2>2. u[Len(u)] = stack[Len(u)] /\ u[Len(u)] \in Activation BY <1>5, <1>7, <2>1
  <2>3. u[Len(u)] \in DeferType BY <1>6, <2>2, KindOf
  <2> QED BY <2>3 DEF DeferType
<1>9. \A p \in Reg(stack, A) : Len(stack[p].handle) \in Nat BY <1>0, HandlesAre
<1>10. Shrinks(cleanups, cleanups, Len(stack)) /\ Shrinks(cleanups, cleanups, Len(u)) BY DEF Shrinks
<1>11. UnwindHead \in Chain BY Sizes
<1>12. /\ Shape(u) /\ Tries(u, A) /\ Frames(u, F) /\ Targets(u, F, A) /\ Arms(u, F, A)
       /\ Marks(u, F, frames, cleanups) /\ Registers(u, UnwindHead, F, A) /\ Heads(u, UnwindHead, F)
       /\ \A p \in Reg(u, A) : Len(u[p].handle) \in Nat
  <2> HIDE DEF u
  <2> QED BY <1>0, <1>4, <1>5, <1>6, <1>9, <1>10, <1>11, PopUnregistered
<1>13. Popped(u, stack') /\ stack' \in Seq(Activation)
  <2>4. stack' = Front(u) BY <1>2
  <2>3. u # <<>> BY <1>7
  <2> HIDE DEF u
  <2>1. Sits(u, Len(u)) BY <1>7, <1>12 DEF Shape
  <2>6. Len(u) # 1
    <3>1. u[Len(u)].kind = "main" <=> Len(u) = 1 BY <2>1, Zenon DEF Sits
    <3> QED BY <1>8, <3>1
  <2>7. Len(u) \in Nat \ {0} BY <1>7
  <2>8. \A n \in Nat \ {0} : n # 1 => n > 1 OBVIOUS
  <2>2. Len(u) > 1 BY <2>6, <2>7, <2>8, Zenon
  <2>5. /\ Front(u) \in Seq(Activation) /\ Len(Front(u)) = Len(u) - 1
        /\ \A i \in 1 .. Len(u) - 1 : Front(u)[i] = u[i]
    BY <1>5, <2>3, FrontFacts
  <2> QED BY <1>7, <1>8, <2>2, <2>4, <2>5 DEF Popped
<1>14. /\ Shape(stack') /\ Tries(stack', A) /\ Frames(stack', F) /\ Targets(stack', F, A) /\ Arms(stack', F, A)
       /\ Marks(stack', F, frames, cleanups) /\ Registers(stack', UnwindHead, F, A)
       /\ Heads(stack', UnwindHead, F)
  <2> HIDE DEF u
  <2> QED BY <1>0, <1>4, <1>8, <1>10, <1>11, <1>12, <1>13, PopUnregistered
<1>15. Types' BY <1>2, <1>4, <1>13 DEF Types
<1>16. UnwindHead' = UnwindHead BY <1>2 DEF UnwindHead
<1>17. /\ \A p \in 1..Len(stack') : p \in 1 .. Top - 2 /\ p \in 1..Top /\ stack'[p] = stack[p]
       /\ \A p \in 1..Top : p # Top /\ p # Top - 1 => p \in 1..Len(stack')
       /\ \A p \in Nat : Dead(stack, p) <=> Dead(stack', p)
       /\ Len(stack') = Top - 2 /\ Len(stack') \in Nat \ {0}
  <2> HIDE DEF u
  <2>1. /\ Len(stack') = Len(u) - 1 /\ Len(stack') \in Nat \ {0}
        /\ \A p \in 1..Len(stack') : p # Len(u) /\ p \in 1..Len(u) /\ stack'[p] = u[p]
        /\ \A p \in 1..Len(u) : p # Len(u) => p \in 1..Len(stack')
        /\ \A p \in Nat : Dead(u, p) <=> Dead(stack', p)
    BY <1>13, PopSame
  <2>2. \A p \in 1..Len(stack') : p \in 1 .. Top - 2 /\ p \in 1..Top BY <1>5, <2>1
  <2>3. \A p \in 1..Len(stack') : stack'[p] = stack[p] BY <1>7, <2>1
  <2>4. \A p \in 1..Top : p # Top /\ p # Top - 1 => p \in 1..Len(stack') BY <1>5, <2>1
  <2>5. \A p \in Nat : Dead(stack, p) <=> Dead(stack', p) BY <1>7, <2>1
  <2>6. Len(stack') = Top - 2 BY <1>5, <2>1
  <2> QED BY <2>1, <2>2, <2>3, <2>4, <2>5, <2>6
<1>18. Owes(stack', C)
  <2>1. C = Owing(stack') BY <1>0, <1>5, <1>6, <1>17 DEF Owes, Owing, Cleaner
  <2>2. ASSUME NEW p \in 1..Len(stack'), Cleaner(stack'[p]), stack'[p].runs # 0
        PROVE  Dead(stack', p) \/ (p < Len(stack') /\ stack'[p].kind = "defer" /\ stack'[p + 1].kind = "thunk")
    <3>1. stack'[p] = stack[p] /\ p \in 1..Top /\ p \in 1 .. Top - 2 BY <1>17
    <3>2. Dead(stack, p) \/ (p < Top /\ stack[p].kind = "defer" /\ stack[p + 1].kind = "thunk")
      BY <1>0, <1>5, <2>2, <3>1 DEF Owes
    <3>3. CASE p + 1 = Len(u) BY <1>5, <1>6, <1>17, <3>1, <3>2, <3>3
    <3>4. CASE p + 1 # Len(u)
      <4>1. p + 1 \in 1..Len(stack') /\ p < Len(stack') BY <1>5, <1>17, <3>1, <3>4
      <4> QED BY <1>17, <3>1, <3>2, <4>1
    <3> QED BY <3>3, <3>4
  <2>3. ASSUME NEW p \in 2..Len(stack'), stack'[p].kind = "thunk", ~ stack'[p].drain
        PROVE  stack'[p - 1].runs = 1
    <3>1. p \in 1..Len(stack') /\ p - 1 \in 1..Len(stack') /\ p \in 2..Top BY <1>5, <1>17
    <3> QED BY <1>0, <1>5, <1>17, <2>3, <3>1 DEF Owes
  <2> QED BY <2>1, <2>2, <2>3 DEF Owes
<1>19. Dispatches(stack', saved, running, handlers)
  <2> HIDE DEF u
  <2>1. Dispatches(u, saved, running, handlers) BY <1>0, <1>5, <1>6, <1>8, PopPlain
  <2>2. stack'[Len(stack')].kind # "dispatch"
    <3>1. Sits(u, Len(u)) /\ Len(stack') = Len(u) - 1 /\ Len(u) > 1
      BY <1>5, <1>7, <1>12, <1>17 DEF Shape
    <3>2. u[Len(stack')].kind # "dispatch" BY <1>8, <3>1 DEF Sits
    <3>3. stack'[Len(stack')] = u[Len(stack')] BY <1>13, PopSame
    <3> QED BY <3>2, <3>3
  <2> QED BY <1>8, <1>13, <2>1, <2>2, PopPlain
<1>20. Depths(stack', depth)
  <2> HIDE DEF u
  <2>1. Depths(u, depth) BY <1>0, <1>5, <1>6, Sizes, PopDepths
  <2> QED BY <1>8, <1>13, <2>1, Sizes, PopDepths
<1> QED BY <1>0, <1>2, <1>14, <1>15, <1>16, <1>18, <1>19, <1>20 DEF IInv

LEMMA EndDispatchStep ==
  ASSUME Types, IInv, Now.kind = "dispatch", EndDispatch, UNCHANGED <<arms, cleanups, frames>>,
         errs' \in 0..ERROR_BOUND
  PROVE  Types' /\ IInv'
<1> DEFINE F == ToSet(frames)
           A == ToSet(arms)
<1>0. /\ Shape(stack) /\ Tries(stack, ToSet(arms)) /\ Frames(stack, ToSet(frames))
      /\ Targets(stack, ToSet(frames), ToSet(arms)) /\ Arms(stack, ToSet(frames), ToSet(arms))
      /\ Owes(stack, ToSet(cleanups)) /\ Marks(stack, ToSet(frames), frames, cleanups)
      /\ Registers(stack, UnwindHead, ToSet(frames), ToSet(arms))
      /\ Heads(stack, UnwindHead, ToSet(frames)) /\ Dispatches(stack, saved, running, handlers)
      /\ Depths(stack, depth) /\ Rising(UnwindHead) /\ Ascending(frames) /\ Ascending(cleanups)
      /\ Ascending(arms)
  BY DEF IInv
<1>4. /\ handlers \in Chain /\ errs \in 0..ERROR_BOUND /\ frames \in Path /\ cleanups \in Path
      /\ depth \in 0..ERROR_MAX_DEPTH /\ arms \in Path /\ saved \in Chain /\ running \in Chain
  BY DEF Types
<1>1. /\ Now = stack[Len(stack)] /\ Now \in DispatchType /\ stack[Len(stack)].kind = "dispatch"
      /\ Now.phase \in {"offer", "handled"} /\ depth - 1 \in 0..ERROR_MAX_DEPTH
  BY Offers
<1>2. /\ stack' = Below /\ handlers' = Now.chain /\ saved' = Now.outer /\ running' = Now.outerRunning
      /\ depth' = depth - 1 /\ arms' = arms /\ cleanups' = cleanups /\ frames' = frames
  BY DEF EndDispatch
<1>3. Now.chain \in Chain /\ Now.outer \in Chain /\ Now.outerRunning \in Chain BY <1>1 DEF DispatchType
<1>5. /\ Popped(stack, stack') /\ stack' \in Seq(Activation) /\ Top \in Nat \ {0} /\ Top = Len(stack)
      /\ Sits(stack, Top) /\ Len(stack') = Top - 1 /\ Top > 1
  BY <1>0, <1>1, <1>2, StackPop
<1>6. Types' BY <1>1, <1>2, <1>3, <1>4, <1>5 DEF Types
<1>7. /\ \A p \in 1..Len(stack') : p # Top /\ p \in 1..Top /\ stack'[p] = stack[p]
      /\ \A p \in 1..Top : p # Top => p \in 1..Len(stack')
      /\ \A p \in Nat : Dead(stack, p) <=> Dead(stack', p)
      /\ Len(stack') \in Nat \ {0}
  BY <1>5, PopSame
<1>8. stack'[Len(stack')].kind # "dispatch"
  <2>1. stack[Len(stack')].kind # "dispatch" BY <1>1, <1>5 DEF Sits
  <2> QED BY <1>7, <2>1
<1>9. UnwindHead' = UnwindHead /\ Dispatches(stack', saved', running', handlers')
  <2>1. CASE saved = <<>>
    <3>1. /\ Now.chain = handlers /\ Now.outer = <<>> /\ Now.outerRunning = <<>> /\ Silent(stack)
      BY <1>0, <1>1, <2>1 DEF Dispatches, Silent
    <3> QED BY <1>2, <1>5, <1>8, <2>1, <3>1, PopQuiet DEF UnwindHead
  <2>2. CASE saved # <<>>
    <3>1. PICK d \in 1..Len(stack) : Dispatching(stack, d, saved, running, handlers)
      BY <1>0, <2>2 DEF Dispatches
    <3>2. CASE d = Len(stack)
      <4>1. Now.outer = <<>> /\ Now.outerRunning = <<>> /\ Now.chain = saved
        BY <1>1, <3>1, <3>2 DEF Dispatching
      <4>2. \A c \in 1..Len(stack') : stack'[c].kind = "callback" => Dead(stack', c)
        BY <1>5, <1>7, <3>1, <3>2 DEF Dispatching
      <4> QED BY <1>2, <1>8, <2>2, <4>1, <4>2 DEF UnwindHead, Dispatches
    <3>3. CASE d # Len(stack)
      <4>1. Len(stack) \in d + 1 .. Len(stack) BY <1>5, <3>1, <3>3
      <4>2. PICK c \in d + 1 .. Len(stack) - 1 :
               /\ Inner(stack, c, Len(stack)) /\ Now.outerRunning = stack[c - 1].offer
               /\ Now.chain = Front(stack[c - 1].offer)
        BY <1>1, <3>1, <4>1 DEF Dispatching
      <4>3. Now.outer = saved BY <1>1, <3>1, <4>1 DEF Dispatching
      <4>4. c \in d + 1 .. Len(stack') BY <1>5, <4>2
      <4>5. Dispatching(stack', d, saved, Now.outerRunning, Now.chain)
        BY <1>5, <3>1, <3>3, <4>2, <4>4, PopDispatching
      <4>6. Pre(Now.outerRunning, saved) /\ Pre(Now.chain, saved)
        <5>1. c \in 1..Top /\ c > 1 /\ stack[c].kind = "callback" /\ c - 1 \in d .. Len(stack)
          BY <1>5, <3>1, <4>2 DEF Inner
        <5>2. stack[c - 1].kind = "dispatch" BY <1>0, <1>5, <5>1 DEF Shape, Sits
        <5>3. Pre(stack[c - 1].offer, saved) BY <3>1, <5>1, <5>2 DEF Dispatching
        <5>4. stack[c - 1].offer # <<>> BY <3>1, <4>2, <5>1 DEF Dispatching
        <5>5. Now.outerRunning \in Chain /\ Now.outerRunning # <<>> BY <1>3, <4>2, <5>4
        <5>7. Len(saved) \in Nat BY <1>4 DEF Chain
        <5>8. Pre(Now.outerRunning, saved) BY <4>2, <5>3
        <5>9. Pre(Front(Now.outerRunning), saved) BY <5>5, <5>7, <5>8, PreFront
        <5> QED BY <4>2, <5>8, <5>9
      <4>7. d \in 1..Len(stack') BY <1>7, <3>1, <3>3, <1>5
      <4> QED BY <1>2, <2>2, <4>3, <4>5, <4>6, <4>7 DEF UnwindHead, Dispatches
    <3> QED BY <3>2, <3>3
  <2> QED BY <2>1, <2>2
<1>10. \A p \in Reg(stack, A) : Len(stack[p].handle) \in Nat BY <1>0, HandlesAre
<1>11. Shrinks(cleanups, cleanups, Len(stack)) BY DEF Shrinks
<1>12. UnwindHead \in Chain BY Sizes
<1>13. /\ Shape(stack') /\ Tries(stack', A) /\ Frames(stack', F) /\ Targets(stack', F, A) /\ Arms(stack', F, A)
       /\ Marks(stack', F, frames, cleanups) /\ Registers(stack', UnwindHead, F, A)
       /\ Heads(stack', UnwindHead, F)
  BY <1>0, <1>1, <1>4, <1>5, <1>10, <1>11, <1>12, PopUnregistered
<1>14. Owes(stack', ToSet(cleanups))
  <2>1. Len(stack) \notin ToSet(cleanups) BY <1>0, <1>1 DEF Owes, Owing, Cleaner
  <2> QED BY <1>0, <1>1, <1>5, <2>1, PopOwes
<1>15. Depths(stack', depth - 1) BY <1>0, <1>1, <1>5, Sizes, PopDepths
<1> QED BY <1>0, <1>2, <1>6, <1>9, <1>13, <1>14, <1>15 DEF IInv

LEMMA HandledStep ==
  ASSUME Types, IInv, Handled
  PROVE  Types' /\ IInv'
<1>1. Now.phase = "handled" /\ Now.kind = "dispatch" BY TryPhases DEF Handled
<1>a. CASE Now.code = "hard"
  <2>1. UNCHANGED <<stack, chains, cleanups, frames, errs, depth>> BY <1>a DEF Handled, Fatal
  <2> QED BY <2>1, Unmoved
<1>b. CASE Now.code # "hard"
  <2>1. /\ errs' = CutTo(<<>>, 0, Last(Now.offer).mark) /\ EndDispatch
        /\ UNCHANGED <<arms, cleanups, frames>>
    BY <1>b DEF Handled
  <2>2. Now \in DispatchType BY <1>1, Offers
  <2>3. Now.offer \in Chain /\ Now.offer # <<>> BY <1>1, <2>2 DEF DispatchType
  <2>4. Last(Now.offer) \in EntryType BY <2>3, FrontFacts DEF Chain
  <2>5. Last(Now.offer).mark \in 0..ERROR_BOUND /\ <<>> \in Chain BY <2>4 DEF EntryType, Chain
  <2>6. errs' \in 0..ERROR_BOUND BY <2>1, <2>5, CutRange
  <2> QED BY <1>1, <2>1, <2>6, EndDispatchStep
<1> QED BY <1>a, <1>b

LEMMA ApplyPolicyStep ==
  ASSUME Types, IInv, NEW policy \in {"abort", "ignore", "collect"}, ApplyPolicy(policy)
  PROVE  Types' /\ IInv'
<1>1. Now.phase = "offer" /\ Now.kind = "dispatch" BY TryPhases DEF ApplyPolicy
<1>a. CASE Now.code = "hard" \/ policy = "abort"
  <2>1. UNCHANGED <<stack, chains, cleanups, frames, errs, depth>> BY <1>a DEF ApplyPolicy, Fatal
  <2> QED BY <2>1, Unmoved
<1>b. CASE ~ (Now.code = "hard" \/ policy = "abort")
  <2>1. /\ errs' = IF policy = "collect" THEN errs ELSE CutTo(<<>>, 0, Now.raisedAt)
        /\ EndDispatch /\ UNCHANGED <<arms, cleanups, frames>>
    BY <1>b DEF ApplyPolicy
  <2>2. Now \in DispatchType BY <1>1, Offers
  <2>3. Now.raisedAt \in 0..ERROR_BOUND /\ <<>> \in Chain BY <2>2 DEF DispatchType, Chain
  <2>4. CutTo(<<>>, 0, Now.raisedAt) \in 0..ERROR_BOUND BY <2>3, CutRange
  <2>5. errs \in 0..ERROR_BOUND BY DEF Types
  <2>6. errs' \in 0..ERROR_BOUND BY <2>1, <2>4, <2>5
  <2> QED BY <1>1, <2>1, <2>6, EndDispatchStep
<1> QED BY <1>a, <1>b
-----------------------------------------------------------------------------
(* A step that only changes what the dispatch on top has left to offer *)

Redispatched(s, t) ==
  /\ Len(s) \in Nat \ {0} /\ Len(t) = Len(s) /\ \A p \in 1 .. Len(s) - 1 : t[p] = s[p]
  /\ s[Len(s)].kind = "dispatch" /\ t[Len(s)].kind = "dispatch"
  /\ s[Len(s)].phase \in {"offer", "handled"} /\ t[Len(s)].phase \in {"offer", "handled"}
  /\ t[Len(s)].chain = s[Len(s)].chain /\ t[Len(s)].outer = s[Len(s)].outer
  /\ t[Len(s)].outerRunning = s[Len(s)].outerRunning

LEMMA RedispatchSame ==
  ASSUME NEW s, NEW t, Redispatched(s, t)
  PROVE  /\ Len(s) \in Nat \ {0} /\ Len(t) = Len(s)
         /\ \A p \in 1..Len(s) : t[p].kind = s[p].kind
         /\ \A p \in 1..Len(s) : s[p].kind # "dispatch" => p # Len(s)
         /\ \A p \in 1..Len(s) : p # Len(s) => t[p] = s[p]
         /\ \A p \in Nat : Dead(s, p) <=> Dead(t, p)
<1>0. /\ Len(s) \in Nat \ {0} /\ Len(t) = Len(s)
      /\ s[Len(s)].phase # "drain" /\ t[Len(s)].phase # "drain"
      /\ s[Len(s)].kind = "dispatch" /\ t[Len(s)].kind = "dispatch"
  BY DEF Redispatched
<1>1. \A p \in 1..Len(s) : p # Len(s) => p \in 1 .. Len(s) - 1 BY <1>0
<1>2. \A p \in 1..Len(s) : p # Len(s) => t[p] = s[p] BY <1>1 DEF Redispatched
<1>3. \A p \in 1..Len(s) : t[p].kind = s[p].kind
  <2> TAKE p \in 1..Len(s)
  <2>1. CASE p = Len(s) BY <1>0, <2>1
  <2>2. CASE p # Len(s) BY <1>2, <2>2
  <2> QED BY <2>1, <2>2
<1>4. \A q \in 1..Len(s) : /\ s[q].phase = "drain" => t[q].phase = "drain" /\ t[q].frame = s[q].frame
                           /\ t[q].phase = "drain" => s[q].phase = "drain"
  <2> TAKE q \in 1..Len(s)
  <2>1. CASE q = Len(s) BY <1>0, <2>1
  <2>2. CASE q # Len(s) BY <1>2, <2>2
  <2> QED BY <2>1, <2>2
<1>5. \A p \in Nat : Dead(s, p) <=> Dead(t, p) BY <1>0, <1>4, DeadKept
<1>6. \A p \in 1..Len(s) : s[p].kind # "dispatch" => p # Len(s) BY <1>0
<1> QED BY <1>0, <1>2, <1>3, <1>5, <1>6

LEMMA RedispatchShape ==
  ASSUME NEW s, NEW t, Redispatched(s, t), Shape(s)
  PROVE  Shape(t)
<1>0. /\ Len(s) \in Nat \ {0} /\ Len(t) = Len(s)
      /\ \A p \in 1..Len(s) : p # Len(s) => t[p] = s[p]
  BY RedispatchSame
<1>1. ASSUME NEW p \in 1..Len(s), p # Len(s) PROVE Sits(t, p)
  <2>1. \A o \in 1..p : o \in 1..Len(s) /\ o # Len(s) BY <1>0, <1>1
  <2>2. \A o \in 1..p : SameForm(s[o], t[o]) BY <1>0, <2>1 DEF SameForm
  <2>3. Sits(s, p) /\ p \in Nat \ {0} BY DEF Shape
  <2> QED BY <2>2, <2>3, SitsKept
<1>2. Sits(t, Len(s))
  <2>1. Sits(s, Len(s)) BY <1>0 DEF Shape
  <2>2. Len(s) > 1 => t[Len(s) - 1] = s[Len(s) - 1] BY <1>0
  <2> QED BY <2>1, <2>2 DEF Sits, Redispatched
<1> QED BY <1>0, <1>1, <1>2 DEF Shape

LEMMA RedispatchRest ==
  ASSUME NEW s, NEW t, NEW F, NEW A, Redispatched(s, t), Shape(s),
         Tries(s, A), Frames(s, F), Targets(s, F, A), Arms(s, F, A)
  PROVE  Tries(t, A) /\ Frames(t, F) /\ Targets(t, F, A) /\ Arms(t, F, A)
<1>0. /\ Len(s) \in Nat \ {0} /\ Len(t) = Len(s)
      /\ \A p \in 1..Len(s) : t[p].kind = s[p].kind
      /\ \A p \in 1..Len(s) : s[p].kind # "dispatch" => p # Len(s)
      /\ \A p \in 1..Len(s) : p # Len(s) => t[p] = s[p]
      /\ \A p \in Nat : Dead(s, p) <=> Dead(t, p)
  BY RedispatchSame
<1>1. /\ s[Len(s)].phase \notin {"drain", "transfer"} /\ t[Len(s)].phase \notin {"drain", "transfer"}
  BY DEF Redispatched
<1>2. \A p \in F : p \in 1..Len(s) /\ t[p] = s[p] /\ s[p].kind = "try" BY <1>0 DEF Frames
<1>3. Tries(t, A)
  <2> SUFFICES ASSUME NEW p \in 1..Len(t), t[p].kind = "try" PROVE TryOK(t[p], p \in A) BY DEF Tries
  <2>1. p \in 1..Len(s) /\ t[p] = s[p] BY <1>0
  <2> QED BY <2>1 DEF Tries
<1>4. Frames(t, F)
  <2>1. ASSUME NEW p \in F
        PROVE  /\ p \in 1..Len(t) /\ t[p].kind = "try" /\ ~ Dead(t, p)
               /\ \A c \in 1 .. p - 1 : t[c].kind = "callback" => Dead(t, c)
    <3>1. /\ p \in 1..Len(s) /\ s[p].kind = "try" /\ ~ Dead(s, p)
          /\ \A c \in 1 .. p - 1 : s[c].kind = "callback" => Dead(s, c)
      BY DEF Frames
    <3>2. \A c \in 1 .. p - 1 : c \in 1..Len(s) BY <1>0, <3>1
    <3> QED BY <1>0, <3>1, <3>2
  <2>2. ASSUME NEW p \in 1..Len(t), t[p].kind = "try", p \notin F PROVE t[p].claimed /\ Dead(t, p)
    <3>1. p \in 1..Len(s) /\ t[p] = s[p] BY <1>0, <2>2
    <3> QED BY <1>0, <1>1, <2>2, <3>1 DEF Frames
  <2>3. ASSUME NEW q \in 1..Len(t), t[q].phase = "drain", ~ Dead(t, q)
        PROVE  t[q].frame \in F /\ t[t[q].frame].state = "unwind"
    <3>1. q \in 1..Len(s) /\ q # Len(s) BY <1>0, <1>1, <2>3
    <3>2. t[q] = s[q] /\ ~ Dead(s, q) BY <1>0, <2>3, <3>1
    <3>3. s[q].frame \in F /\ s[s[q].frame].state = "unwind" BY <2>3, <3>1, <3>2 DEF Frames
    <3> QED BY <1>2, <3>2, <3>3
  <2> QED BY <2>1, <2>2, <2>3 DEF Frames
<1>5. \A u : Caught(s, F, A, u) => Caught(t, F, A, u) BY <1>2 DEF Caught
<1>6. ASSUME NEW p \in F, t[p].state = "unwind"
      PROVE  /\ t[p].target <= p /\ Caught(t, F, A, t[p].target)
             /\ t[p].target = p => t[p].phase \in {"body", "landed"}
             /\ t[p].phase \in {"body", "arm"} =>
                  \E q \in p + 1 .. Len(t) : t[q].phase = "drain" /\ t[q].frame = p
  <2>1. t[p] = s[p] /\ p \in 1..Len(s) BY <1>2
  <2>2. /\ s[p].target <= p /\ Caught(s, F, A, s[p].target)
        /\ s[p].target = p => s[p].phase \in {"body", "landed"}
    BY <1>6, <2>1 DEF Targets
  <2>3. ASSUME t[p].phase \in {"body", "arm"}
        PROVE  \E q \in p + 1 .. Len(t) : t[q].phase = "drain" /\ t[q].frame = p
    <3>1. PICK q \in p + 1 .. Len(s) : s[q].phase = "drain" /\ s[q].frame = p
      BY <1>6, <2>1, <2>3 DEF Targets
    <3>2. q \in 1..Len(s) /\ q # Len(s) BY <1>0, <1>1, <2>1, <3>1
    <3> QED BY <1>0, <3>1, <3>2
  <2> QED BY <1>5, <2>1, <2>2, <2>3
<1>7. Targets(t, F, A) BY <1>0, <1>1, <1>6 DEF Targets
<1>8. Arms(t, F, A) BY <1>2 DEF Arms
<1> QED BY <1>3, <1>4, <1>7, <1>8

LEMMA RedispatchChains ==
  ASSUME NEW s, NEW t, NEW F, NEW A, NEW C, NEW fr, NEW cl, NEW full, NEW d, Redispatched(s, t),
         Frames(s, F), Owes(s, C), Marks(s, F, fr, cl), Registers(s, full, F, A), Heads(s, full, F),
         Depths(s, d)
  PROVE  /\ Owes(t, C) /\ Marks(t, F, fr, cl) /\ Registers(t, full, F, A) /\ Heads(t, full, F)
         /\ Depths(t, d)
<1>0. /\ Len(s) \in Nat \ {0} /\ Len(t) = Len(s)
      /\ \A p \in 1..Len(s) : t[p].kind = s[p].kind
      /\ \A p \in 1..Len(s) : s[p].kind # "dispatch" => p # Len(s)
      /\ \A p \in 1..Len(s) : p # Len(s) => t[p] = s[p]
      /\ \A p \in Nat : Dead(s, p) <=> Dead(t, p)
  BY RedispatchSame
<1>1. \A p \in F : t[p] = s[p] BY <1>0 DEF Frames
<1>9. \A p \in 1..Len(s) : s[p].kind # "dispatch" => t[p] = s[p] BY <1>0
<1>2. Owes(t, C)
  <2>1. \A p \in 1..Len(s) : Cleaner(t[p]) \/ Cleaner(s[p]) => t[p] = s[p] BY <1>0, <1>9 DEF Cleaner
  <2>2. Owing(t) = Owing(s) BY <1>0, <2>1 DEF Owing
  <2>3. ASSUME NEW p \in 1..Len(t), Cleaner(t[p]), t[p].runs # 0
        PROVE  Dead(t, p) \/ (p < Len(t) /\ t[p].kind = "defer" /\ t[p + 1].kind = "thunk")
    <3>1. p \in 1..Len(s) /\ t[p] = s[p] BY <1>0, <2>1, <2>3
    <3>2. Dead(s, p) \/ (p < Len(s) /\ s[p].kind = "defer" /\ s[p + 1].kind = "thunk")
      BY <2>3, <3>1 DEF Owes
    <3>3. p < Len(s) => p + 1 \in 1..Len(s) BY <1>0
    <3> QED BY <1>0, <3>1, <3>2, <3>3
  <2>4. ASSUME NEW p \in 2..Len(t), t[p].kind = "thunk", ~ t[p].drain PROVE t[p - 1].runs = 1
    <3>1. p \in 1..Len(s) /\ p - 1 \in 1..Len(s) /\ p - 1 # Len(s) BY <1>0
    <3>2. t[p] = s[p] /\ t[p - 1] = s[p - 1] BY <1>0, <1>9, <2>4, <3>1
    <3> QED BY <1>0, <2>4, <3>2 DEF Owes
  <2> QED BY <2>2, <2>3, <2>4 DEF Owes
<1>3. Marks(t, F, fr, cl) BY <1>1 DEF Marks
<1>4. Registers(t, full, F, A)
  <2>1. Reg(t, A) = Reg(s, A) BY <1>0, <1>9 DEF Reg
  <2>2. \A p \in Reg(s, A) : p \in 1..Len(s) /\ t[p] = s[p] BY <1>9 DEF Reg
  <2>3. \A i \in 1..Len(full) : full[i].kind = "catch" <=> t[full[i].at].kind = "try"
    <3> TAKE i \in 1..Len(full)
    <3>1. full[i].kind = "catch" <=> s[full[i].at].kind = "try" BY DEF Registers
    <3> QED BY <1>0, <2>2, <3>1 DEF Registers, Ids
  <2> QED BY <2>1, <2>2, <2>3 DEF Registers
<1>5. Heads(t, full, F)
  <2>1. \A p \in 1..Len(t) : t[p].kind = "thunk" /\ t[p].drain /\ ~ Dead(t, p) => CutAt(full, t[p].depth, p)
    <3> TAKE p \in 1..Len(t)
    <3> HAVE t[p].kind = "thunk" /\ t[p].drain /\ ~ Dead(t, p)
    <3>1. p \in 1..Len(s) /\ t[p] = s[p] /\ ~ Dead(s, p) BY <1>0
    <3> QED BY <3>1 DEF Heads
  <2> QED BY <1>1, <2>1 DEF Heads
<1>6. Depths(t, d)
  <2>1. Active(t) = Active(s) BY <1>0 DEF Active
  <2> QED BY <1>0, <2>1 DEF Depths, Redispatched
<1> QED BY <1>2, <1>3, <1>4, <1>5, <1>6

LEMMA RedispatchDispatching ==
  ASSUME NEW s, NEW t, NEW d, NEW sv, NEW rn, NEW hs, NEW rr, NEW gs, Redispatched(s, t),
         Dispatching(s, d, sv, rn, hs), Pre(t[Len(s)].offer, sv)
  PROVE  Dispatching(t, d, sv, rr, gs)
<1>0. /\ Len(s) \in Nat \ {0} /\ Len(t) = Len(s)
      /\ \A p \in 1..Len(s) : t[p].kind = s[p].kind
      /\ \A p \in 1..Len(s) : s[p].kind # "dispatch" => p # Len(s)
      /\ \A p \in 1..Len(s) : p # Len(s) => t[p] = s[p]
      /\ \A p \in Nat : Dead(s, p) <=> Dead(t, p)
  BY RedispatchSame
<1>1. /\ t[Len(s)].kind = "dispatch" /\ t[Len(s)].chain = s[Len(s)].chain
      /\ t[Len(s)].outer = s[Len(s)].outer /\ t[Len(s)].outerRunning = s[Len(s)].outerRunning
  BY DEF Redispatched
<1>2. \A p \in 1..Len(s) : /\ t[p].chain = s[p].chain /\ t[p].outer = s[p].outer
                           /\ t[p].outerRunning = s[p].outerRunning
  <2> TAKE p \in 1..Len(s)
  <2>1. CASE p = Len(s) BY <1>1, <2>1
  <2>2. CASE p # Len(s) BY <1>0, <2>2
  <2> QED BY <2>1, <2>2
<1>3. d \in 1..Len(s) /\ d \in Nat BY DEF Dispatching
<1>4. /\ d \in 1..Len(t) /\ t[d].kind = "dispatch"
      /\ t[d].outer = <<>> /\ t[d].outerRunning = <<>> /\ t[d].chain = sv
  BY <1>0, <1>2, <1>3 DEF Dispatching
<1>5. \A c \in 1 .. d - 1 : t[c].kind = "callback" => Dead(t, c)
  <2> TAKE c \in 1 .. d - 1
  <2>1. c \in 1..Len(s) /\ c \in Nat BY <1>0, <1>3
  <2> QED BY <1>0, <2>1 DEF Dispatching
<1>6. \A p \in d + 1 .. Len(t) : /\ t[p].kind \in {"dispatch", "callback", "defer", "thunk"}
                                 /\ t[p].kind = "thunk" => ~ t[p].drain
                                 /\ t[p].kind = "callback" => t[p - 1].offer # <<>>
  <2> TAKE p \in d + 1 .. Len(t)
  <2>1. p \in d + 1 .. Len(s) /\ p \in 1..Len(s) /\ p - 1 \in 1..Len(s) /\ p - 1 # Len(s) BY <1>0, <1>3
  <2>2. t[p - 1] = s[p - 1] /\ t[p].kind = s[p].kind /\ (s[p].kind # "dispatch" => t[p] = s[p])
    BY <1>0, <2>1
  <2>3. /\ s[p].kind \in {"dispatch", "callback", "defer", "thunk"}
        /\ s[p].kind = "thunk" => ~ s[p].drain
        /\ s[p].kind = "callback" => s[p - 1].offer # <<>>
    BY <2>1 DEF Dispatching
  <2> QED BY <2>2, <2>3
<1>7. \A e \in d .. Len(t) : t[e].kind = "dispatch" => Pre(t[e].offer, sv)
  <2> TAKE e \in d .. Len(t)
  <2>1. CASE e = Len(s) BY <2>1
  <2>2. CASE e # Len(s)
    <3>1. e \in d .. Len(s) /\ t[e] = s[e] BY <1>0, <1>3, <2>2
    <3> QED BY <3>1 DEF Dispatching
  <2> QED BY <2>1, <2>2
<1>8. ASSUME NEW e \in d + 1 .. Len(t), t[e].kind = "dispatch"
      PROVE  /\ t[e].outer = sv
             /\ \E o \in d + 1 .. e - 1 : /\ Inner(t, o, e) /\ t[e].outerRunning = t[o - 1].offer
                                          /\ t[e].chain = Front(t[o - 1].offer)
  <2>1. e \in d + 1 .. Len(s) /\ e \in 1..Len(s) /\ s[e].kind = "dispatch" BY <1>0, <1>3, <1>8
  <2>2. PICK o \in d + 1 .. e - 1 : /\ Inner(s, o, e) /\ s[e].outerRunning = s[o - 1].offer
                                    /\ s[e].chain = Front(s[o - 1].offer)
    BY <2>1 DEF Dispatching
  <2>3. s[e].outer = sv BY <2>1 DEF Dispatching
  <2>4. \A c \in 1 .. e - 1 : t[c] = s[c]
    <3> TAKE c \in 1 .. e - 1
    <3>1. c \in 1..Len(s) /\ c # Len(s) BY <1>0, <2>1
    <3> QED BY <1>0, <3>1
  <2>5. Inner(s, o, e) /\ e \in Nat /\ o \in Nat BY <1>3, <2>1, <2>2
  <2>6. Inner(t, o, e) BY <2>4, <2>5 DEF Inner
  <2>7. t[o - 1] = s[o - 1]
    <3>1. o - 1 \in 1 .. e - 1 BY <1>3, <2>1, <2>2
    <3> QED BY <2>4, <3>1
  <2> QED BY <1>2, <2>1, <2>2, <2>3, <2>6, <2>7
<1> QED BY <1>0, <1>1, <1>4, <1>5, <1>6, <1>7, <1>8 DEF Dispatching

LEMMA CatchDeclinesStep ==
  ASSUME Types, IInv, CatchDeclines
  PROVE  Types' /\ IInv'
<1> DEFINE b == [Now EXCEPT !.offer = Front(Now.offer)]
<1>0. /\ Shape(stack) /\ Tries(stack, ToSet(arms)) /\ Frames(stack, ToSet(frames))
      /\ Targets(stack, ToSet(frames), ToSet(arms)) /\ Arms(stack, ToSet(frames), ToSet(arms))
      /\ Owes(stack, ToSet(cleanups)) /\ Marks(stack, ToSet(frames), frames, cleanups)
      /\ Registers(stack, UnwindHead, ToSet(frames), ToSet(arms))
      /\ Heads(stack, UnwindHead, ToSet(frames)) /\ Dispatches(stack, saved, running, handlers)
      /\ Depths(stack, depth) /\ Rising(UnwindHead) /\ Ascending(frames) /\ Ascending(cleanups)
      /\ Ascending(arms)
  BY DEF IInv
<1>4. /\ handlers \in Chain /\ errs \in 0..ERROR_BOUND /\ frames \in Path /\ cleanups \in Path
      /\ depth \in 0..ERROR_MAX_DEPTH /\ arms \in Path /\ saved \in Chain /\ running \in Chain
  BY DEF Types
<1>1. Now.phase = "offer" /\ Now.offer # <<>> BY DEF CatchDeclines, Offering
<1>2. Now.kind = "dispatch" BY <1>1, TryPhases
<1>3. /\ Now = stack[Len(stack)] /\ Now \in DispatchType /\ saved # <<>> /\ Pre(Front(Now.offer), saved)
      /\ Pre(Now.offer, saved) /\ UnwindHead = saved
  BY <1>1, <1>2, Offers
<1>5. /\ handlers' = Front(Now.offer) /\ saved' = saved /\ running' = Now.offer
      /\ arms' = arms /\ cleanups' = cleanups /\ frames' = frames /\ errs' = errs /\ depth' = depth
  BY DEF CatchDeclines
<1>6. Now.offer \in Chain /\ Front(Now.offer) \in Chain
  <2>1. Now.offer \in Chain BY <1>3 DEF DispatchType
  <2> QED BY <1>1, <2>1, FrontFacts DEF Chain
<1>7. Top \in Nat \ {0} /\ Top = Len(stack) BY <1>0, Stacked
<1>8. stack' = [stack EXCEPT ![Top] = b] BY <1>3, <1>7 DEF CatchDeclines, Decline, Types
<1>9. /\ b \in DispatchType /\ b.kind = "dispatch" /\ b.phase = "offer" /\ b.offer = Front(Now.offer)
      /\ b.chain = Now.chain /\ b.outer = Now.outer /\ b.outerRunning = Now.outerRunning
  BY <1>1, <1>3, <1>6 DEF DispatchType
<1> HIDE DEF b
<1>10. /\ stack' \in Seq(Activation) /\ Len(stack') = Top /\ stack'[Top] = b
       /\ \A o \in 1..Top : o # Top => stack'[o] = stack[o]
  <2>1. b \in Activation /\ Top \in 1..Top BY <1>7, <1>9 DEF Activation
  <2> QED BY <1>0, <1>8, <2>1, StackSet
<1>11. Redispatched(stack, stack')
  <2>1. \A p \in 1 .. Len(stack) - 1 : p \in 1..Top /\ p # Top BY <1>7
  <2> QED BY <1>1, <1>2, <1>3, <1>7, <1>9, <1>10, <2>1 DEF Redispatched
<1>12. Types' BY <1>4, <1>5, <1>6, <1>10 DEF Types
<1>13. UnwindHead' = UnwindHead BY <1>3, <1>5 DEF UnwindHead
<1>14. Shape(stack') BY <1>0, <1>11, RedispatchShape
<1>15. /\ Tries(stack', ToSet(arms)) /\ Frames(stack', ToSet(frames))
       /\ Targets(stack', ToSet(frames), ToSet(arms)) /\ Arms(stack', ToSet(frames), ToSet(arms))
  BY <1>0, <1>11, RedispatchRest
<1>16. /\ Owes(stack', ToSet(cleanups)) /\ Marks(stack', ToSet(frames), frames, cleanups)
       /\ Registers(stack', UnwindHead, ToSet(frames), ToSet(arms))
       /\ Heads(stack', UnwindHead, ToSet(frames)) /\ Depths(stack', depth)
  BY <1>0, <1>11, RedispatchChains
<1>17. Dispatches(stack', saved', running', handlers')
  <2>1. PICK d \in 1..Len(stack) : Dispatching(stack, d, saved, running, handlers)
    BY <1>1, <1>2, Offers
  <2>2. Pre(stack'[Len(stack)].offer, saved) BY <1>3, <1>7, <1>9, <1>10
  <2>3. Dispatching(stack', d, saved, Now.offer, Front(Now.offer))
    BY <1>11, <2>1, <2>2, RedispatchDispatching
  <2> QED BY <1>3, <1>5, <1>7, <1>10, <2>3 DEF Dispatches
<1> QED BY <1>0, <1>5, <1>12, <1>13, <1>14, <1>15, <1>16, <1>17 DEF IInv

LEMMA CallbackReturnsStep ==
  ASSUME Types, IInv, NEW disposition \in {"offer", "handled"}, CallbackReturns(disposition)
  PROVE  Types' /\ IInv'
<1> DEFINE F == ToSet(frames)
           A == ToSet(arms)
           u == Below
           m == Top - 1
           a == stack[Top - 1]
           b == [a EXCEPT !.phase = disposition,
                          !.offer = IF disposition = "offer" THEN Front(a.offer) ELSE a.offer]
<1>0. /\ Shape(stack) /\ Tries(stack, ToSet(arms)) /\ Frames(stack, ToSet(frames))
      /\ Targets(stack, ToSet(frames), ToSet(arms)) /\ Arms(stack, ToSet(frames), ToSet(arms))
      /\ Owes(stack, ToSet(cleanups)) /\ Marks(stack, ToSet(frames), frames, cleanups)
      /\ Registers(stack, UnwindHead, ToSet(frames), ToSet(arms))
      /\ Heads(stack, UnwindHead, ToSet(frames)) /\ Dispatches(stack, saved, running, handlers)
      /\ Depths(stack, depth) /\ Rising(UnwindHead) /\ Ascending(frames) /\ Ascending(cleanups)
      /\ Ascending(arms)
  BY DEF IInv
<1>4. /\ handlers \in Chain /\ errs \in 0..ERROR_BOUND /\ frames \in Path /\ cleanups \in Path
      /\ depth \in 0..ERROR_MAX_DEPTH /\ arms \in Path /\ saved \in Chain /\ running \in Chain
  BY DEF Types
<1>1. Coding /\ Now.kind = "callback" BY DEF CallbackReturns
<1>a. CASE cleanups = <<>> \/ Last(cleanups) # Top
  <2>1. UNCHANGED <<stack, chains, cleanups, frames, errs, depth>> BY <1>a DEF CallbackReturns, Fatal
  <2> QED BY <2>1, Unmoved
<1>b. CASE ~ (cleanups = <<>> \/ Last(cleanups) # Top)
  <2>1. /\ cleanups' = Front(cleanups)
        /\ stack' = [u EXCEPT ![m].phase = disposition,
                              ![m].offer = IF disposition = "offer" THEN Front(@) ELSE @]
        /\ handlers' = handlers /\ saved' = saved /\ running' = running /\ arms' = arms
        /\ frames' = frames /\ errs' = errs /\ depth' = depth
    BY <1>b DEF CallbackReturns, chains
  <2>2. /\ Popped(stack, u) /\ u \in Seq(Activation) /\ Top \in Nat \ {0} /\ Top = Len(stack)
        /\ Now = stack[Top] /\ Sits(stack, Top) /\ Len(u) = m /\ m \in Nat \ {0} /\ Top > 1
        /\ Now.phase \notin {"drain", "transfer"}
    <3>1. Now.phase \notin {"drain", "transfer"} BY <1>1, Coded
    <3>2. /\ Popped(stack, u) /\ u \in Seq(Activation) /\ Top \in Nat \ {0} /\ Top = Len(stack)
          /\ Now = stack[Top] /\ Sits(stack, Top) /\ Len(u) = Top - 1 /\ Top > 1
      BY <1>0, <1>1, <3>1, StackPop
    <3> QED BY <3>1, <3>2
  <2>3. /\ cleanups' \in Path /\ Ascending(cleanups') /\ ToSet(cleanups') = ToSet(cleanups) \ {Top}
        /\ Shrinks(cleanups, cleanups', Top)
    BY <1>0, <1>4, <1>b, <2>1, FrontPath DEF Shrinks
  <2>4. saved # <<>>
    <3>1. ~ Dead(stack, Top) BY <2>2 DEF Dead
    <3> QED BY <1>1, <2>2, <3>1, Coded DEF Silent
  <2>5. PICK d \in 1..Len(stack) : Dispatching(stack, d, saved, running, handlers)
    BY <1>0, <2>4 DEF Dispatches
  <2>6. d # Len(stack) /\ d \in 1..m /\ Top \in d + 1 .. Len(stack)
    <3>1. d # Len(stack) BY <1>1, <2>2, <2>5 DEF Dispatching
    <3> QED BY <2>2, <2>5, <3>1
  <2>7. /\ a.kind = "dispatch" /\ a.offer # <<>> /\ Pre(a.offer, saved)
    <3>1. a.kind = "dispatch" BY <1>1, <2>2 DEF Sits
    <3>2. a.offer # <<>> BY <1>1, <2>2, <2>5, <2>6 DEF Dispatching
    <3>3. m \in d .. Len(stack) BY <2>2, <2>6
    <3> QED BY <2>5, <3>1, <3>2, <3>3 DEF Dispatching
  <2>8. /\ a \in DispatchType /\ a.phase \in {"offer", "handled"} /\ a.offer \in Chain
        /\ Front(a.offer) \in Chain
    <3>1. a \in Activation BY <1>0, <2>2, Stacked
    <3>2. a \in DispatchType BY <2>7, <3>1, KindOf
    <3>3. a.phase \in {"offer", "handled"} /\ a.offer \in Chain BY <3>2 DEF DispatchType
    <3> QED BY <2>7, <3>2, <3>3, FrontFacts DEF Chain
  <2>9. u[m] = a BY <2>2, PopSame
  <2>10. stack' = [u EXCEPT ![m] = b] BY <2>1, <2>2, <2>9
  <2>11. /\ b \in DispatchType /\ b.kind = "dispatch" /\ b.phase \in {"offer", "handled"}
         /\ b.chain = a.chain /\ b.outer = a.outer /\ b.outerRunning = a.outerRunning
         /\ b.offer = IF disposition = "offer" THEN Front(a.offer) ELSE a.offer
    <3> HIDE DEF a
    <3> QED BY <2>7, <2>8 DEF DispatchType
  <2>12. b.offer = Front(a.offer) \/ b.offer = a.offer BY <2>11
  <2>13. Pre(b.offer, saved)
    <3>1. Len(saved) \in Nat BY <1>4 DEF Chain
    <3>2. Pre(Front(a.offer), saved) BY <2>7, <2>8, <3>1, PreFront
    <3> QED BY <2>7, <2>12, <3>2
  <2>14. b \in Activation BY <2>11 DEF Activation
  <2> HIDE DEF a, b, u
  <2>15. /\ stack' \in Seq(Activation) /\ Len(stack') = m /\ stack'[m] = b
         /\ \A o \in 1..m : o # m => stack'[o] = u[o]
    BY <2>2, <2>10, <2>14
  <2>16. Redispatched(u, stack')
    <3>1. \A p \in 1 .. Len(u) - 1 : p \in 1..m /\ p # m BY <2>2
    <3>2. \A p \in 1 .. Len(u) - 1 : stack'[p] = u[p] BY <2>15, <3>1
    <3>3. Len(u) \in Nat \ {0} /\ Len(stack') = Len(u) /\ u[Len(u)] = a /\ stack'[Len(u)] = b
      BY <2>2, <2>9, <2>15
    <3> QED BY <2>7, <2>8, <2>11, <3>2, <3>3 DEF Redispatched
  <2>17. stack[Len(stack)].kind = "callback" BY <1>1, <2>2
  <2>18. /\ Shape(u) /\ Tries(u, A) /\ Frames(u, F) /\ Targets(u, F, A) /\ Arms(u, F, A)
         /\ Marks(u, F, frames, cleanups') /\ Registers(u, UnwindHead, F, A) /\ Heads(u, UnwindHead, F)
    <3>1. \A p \in Reg(stack, A) : Len(stack[p].handle) \in Nat BY <1>0, HandlesAre
    <3>2. UnwindHead \in Chain BY Sizes
    <3>3. Shrinks(cleanups, cleanups', Len(stack)) BY <2>2, <2>3
    <3> QED BY <1>0, <1>4, <2>2, <2>17, <3>1, <3>2, <3>3, PopUnregistered
  <2>19. Owes(u, ToSet(cleanups'))
    <3>1. ToSet(cleanups') = ToSet(cleanups) \ {Len(stack)} BY <2>2, <2>3
    <3> QED BY <1>0, <2>2, <2>17, <3>1, PopOwes
  <2>20. Depths(u, depth) BY <1>0, <2>2, <2>17, Sizes, PopDepths
  <2>21. Dispatching(u, d, saved, running, handlers)
    <3>1. u[Len(u)].kind = "dispatch" BY <2>2, <2>7, <2>9
    <3> QED BY <2>2, <2>5, <2>6, <3>1, PopDispatching
  <2>22. Types' BY <1>4, <2>1, <2>3, <2>15 DEF Types
  <2>23. UnwindHead' = UnwindHead BY <2>1 DEF UnwindHead
  <2>24. Shape(stack') BY <2>16, <2>18, RedispatchShape
  <2>25. Tries(stack', A) /\ Frames(stack', F) /\ Targets(stack', F, A) /\ Arms(stack', F, A)
    BY <2>16, <2>18, RedispatchRest
  <2>26. /\ Owes(stack', ToSet(cleanups')) /\ Marks(stack', F, frames, cleanups')
         /\ Registers(stack', UnwindHead, F, A) /\ Heads(stack', UnwindHead, F) /\ Depths(stack', depth)
    BY <2>16, <2>18, <2>19, <2>20, RedispatchChains
  <2>27. Dispatches(stack', saved, running, handlers)
    <3>1. Pre(stack'[Len(u)].offer, saved) BY <2>2, <2>13, <2>15
    <3>2. Dispatching(stack', d, saved, running, handlers)
      BY <2>16, <2>21, <3>1, RedispatchDispatching
    <3>3. Pre(handlers, saved) /\ Pre(running, saved) BY <1>0, <2>4 DEF Dispatches
    <3> QED BY <2>4, <2>6, <2>15, <3>2, <3>3 DEF Dispatches
  <2> QED BY <1>0, <2>1, <2>3, <2>22, <2>23, <2>24, <2>25, <2>26, <2>27 DEF IInv
<1> QED BY <1>a, <1>b
-----------------------------------------------------------------------------
(* What a transfer frame recorded, where nothing newer is left *)

LEMMA FrameIs ==
  ASSUME Types, IInv, NEW p \in ToSet(frames)
  PROVE  /\ p \in 1..Top /\ stack[p] \in TryType
         /\ stack[p].prev \in Path /\ stack[p].watermark \in Path /\ stack[p].head \in Chain
         /\ stack[p].height \in 0..ERROR_BOUND /\ stack[p].depth \in 0..ERROR_MAX_DEPTH
         /\ Pre(stack[p].prev, frames) /\ Cut(frames, Len(stack[p].prev), p)
         /\ Pre(stack[p].watermark, cleanups) /\ Cut(cleanups, Len(stack[p].watermark), p)
         /\ TryOK(stack[p], p \in ToSet(arms)) /\ ~ Dead(stack, p)
<1>1. p \in 1..Top /\ stack[p].kind = "try" BY Within
<1>2. stack[p] \in Activation BY <1>1, Stacked DEF IInv
<1>3. stack[p] \in TryType BY <1>1, <1>2, KindOf
<1>4. /\ stack[p].prev \in Path /\ stack[p].watermark \in Path /\ stack[p].head \in Chain
      /\ stack[p].height \in 0..ERROR_BOUND /\ stack[p].depth \in 0..ERROR_MAX_DEPTH
  BY <1>3 DEF TryType
<1>5. /\ Pre(stack[p].prev, frames) /\ Cut(frames, Len(stack[p].prev), p)
      /\ Pre(stack[p].watermark, cleanups) /\ Cut(cleanups, Len(stack[p].watermark), p)
  BY DEF IInv, Marks
<1>6. TryOK(stack[p], p \in ToSet(arms)) /\ ~ Dead(stack, p)
  BY <1>1 DEF IInv, Tries, Frames, Top
<1> QED BY <1>1, <1>3, <1>4, <1>5, <1>6

LEMMA WholePath ==
  ASSUME NEW q \in Path, NEW w \in Path, NEW p \in Nat, Pre(w, q), Cut(q, Len(w), p),
         \A i \in 1..Len(q) : q[i] < p
  PROVE  w = q
<1>1. Len(w) \in Nat /\ Len(q) \in Nat BY DEF Path
<1>2. Len(w) = Len(q) BY <1>1 DEF Cut
<1> QED BY <1>2, PreTakes DEF Path

LEMMA PrevIsFront ==
  ASSUME Types, IInv, frames # <<>>
  PROVE  /\ Last(frames) \in ToSet(frames) /\ \A f \in ToSet(frames) : f <= Last(frames)
         /\ stack[Last(frames)].prev = Front(frames)
         /\ Front(frames) \in Path /\ Ascending(Front(frames))
         /\ ToSet(Front(frames)) = ToSet(frames) \ {Last(frames)}
<1> DEFINE p == Last(frames)
           w == stack[p].prev
<1>0. frames \in Path /\ Ascending(frames) BY DEF Types, IInv
<1>1. /\ Front(frames) \in Path /\ Ascending(Front(frames))
      /\ ToSet(Front(frames)) = ToSet(frames) \ {p}
      /\ p \in ToSet(frames) /\ \A y \in ToSet(frames) : y <= p
  BY <1>0, FrontPath
<1>2. w \in Path /\ Pre(w, frames) /\ Cut(frames, Len(w), p) /\ p \in 1..Top BY <1>1, FrameIs
<1>3. /\ Len(Front(frames)) = Len(frames) - 1 /\ Len(frames) \in Nat \ {0} /\ p = frames[Len(frames)]
      /\ \A i \in 1 .. Len(frames) - 1 : Front(frames)[i] = frames[i]
  BY <1>0, FrontFacts DEF Path
<1>4. \A i \in 1..Len(frames) : frames[i] \in Nat BY <1>0 DEF Path
<1>5. \A i \in 1 .. Len(frames) - 1 : frames[i] < p
  <2>1. DOMAIN frames = 1..Len(frames) BY <1>0 DEF Path
  <2> QED BY <1>0, <1>3, <2>1 DEF Ascending
<1>6. p \in Nat /\ ~ (p < p) BY <1>2, Stacked DEF IInv
<1> HIDE DEF p, w
<1>7. Len(w) = Len(frames) - 1
  <2>1. Len(w) \in 0..Len(frames) /\ \A i \in 1..Len(frames) : frames[i] < p <=> i <= Len(w)
    BY <1>2 DEF Cut
  <2>2. ~ (Len(frames) <= Len(w)) BY <1>3, <1>6, <2>1
  <2>3. Len(frames) - 1 # 0 => Len(frames) - 1 <= Len(w) BY <1>3, <1>5, <2>1
  <2> QED BY <1>3, <2>1, <2>2, <2>3
<1>8. w = Front(frames)
  <2>1. Pre(w, Front(frames))
    BY <1>2, <1>3, <1>7 DEF Pre
  <2> QED BY <1>1, <1>2, <1>3, <1>7, <2>1, PreTakes DEF Path
<1> QED BY <1>1, <1>8 DEF p, w

(* Error.trim finds nothing to free: what was registered inside is gone. *)
LEMMA Trims ==
  ASSUME Types, IInv, saved = <<>>, NEW p \in ToSet(frames), \A y \in Ids(handlers) : y < p,
         NEW unwinding \in BOOLEAN
  PROVE  /\ TrimmedHandlers(stack[p]) = handlers
         /\ TrimmedErrs(stack[p], unwinding) \in 0..ERROR_BOUND
<1> DEFINE h == stack[p].head
<1>0. UnwindHead = handlers /\ handlers \in Chain /\ errs \in 0..ERROR_BOUND BY DEF UnwindHead, Types
<1>1. h \in Chain /\ p \in Nat /\ stack[p].height \in 0..ERROR_BOUND BY FrameIs
<1>2. (h # <<>> /\ Last(h).at = p) \/ (Pre(h, handlers) /\ CutAt(handlers, Len(h), p))
  BY <1>0 DEF IInv, Heads
<1>3. \A i \in 1..Len(handlers) : handlers[i].at < p BY Sizes DEF Ids
<1>4. Len(h) \in Nat /\ Len(handlers) \in Nat BY <1>1, Sizes, ChainElements
<1>5. IsPrefix(h, handlers) <=> Pre(h, handlers) BY <1>0, <1>1, PrefixIsPre DEF Chain
<1>6. TrimmedHandlers(stack[p]) = handlers
  <2>1. CASE h # <<>> /\ Last(h).at = p
    <3>1. Last(h) = h[Len(h)] /\ Len(h) \in Nat \ {0} BY <1>1, <2>1, FrontFacts DEF Chain
    <3>2. ~ Pre(h, handlers)
      <4> HIDE DEF h
      <4> SUFFICES ASSUME Pre(h, handlers) PROVE FALSE OBVIOUS
      <4>1. Len(h) \in 1..Len(handlers) /\ handlers[Len(h)] = h[Len(h)] BY <1>4, <3>1 DEF Pre
      <4>2. p < p BY <1>3, <2>1, <3>1, <4>1
      <4> QED BY <1>1, <4>2
    <3> QED BY <1>5, <3>2 DEF TrimmedHandlers
  <2>2. CASE Pre(h, handlers) /\ CutAt(handlers, Len(h), p)
    <3>1. Len(h) = Len(handlers)
      <4> HIDE DEF h
      <4> QED BY <1>3, <1>4, <2>2 DEF CutAt
    <3>2. Min({Len(h), Len(handlers)}) = Len(handlers) BY <1>4, <3>1 DEF Min
    <3>3. UnwoundTo(Len(h)) = handlers BY <1>0, <3>2 DEF UnwoundTo, Chain
    <3> QED BY <3>3 DEF TrimmedHandlers
  <2> QED BY <1>2, <2>1, <2>2
<1>7. TrimmedErrs(stack[p], unwinding) \in 0..ERROR_BOUND
  <2>1. Len(TrimmedHandlers(stack[p])) \in Nat BY <1>4, <1>6
  <2> QED BY <1>0, <1>1, <2>1, CutRange DEF TrimmedErrs
<1> QED BY <1>6, <1>7

LEMMA FewerMarks ==
  ASSUME NEW s, NEW F, NEW G, NEW fr \in Path, NEW cl, NEW e \in Nat, Marks(s, F, fr, cl),
         G \subseteq F, \A p \in G : p \in Nat /\ ~ (e < p), fr # <<>>, Last(fr) = e
  PROVE  Marks(s, G, Front(fr), cl)
<1> SUFFICES ASSUME NEW p \in G
             PROVE  /\ Pre(s[p].prev, Front(fr)) /\ Cut(Front(fr), Len(s[p].prev), p)
                    /\ Pre(s[p].watermark, cl) /\ Cut(cl, Len(s[p].watermark), p)
  BY DEF Marks
<1>1. /\ Pre(s[p].prev, fr) /\ Cut(fr, Len(s[p].prev), p)
      /\ Pre(s[p].watermark, cl) /\ Cut(cl, Len(s[p].watermark), p)
  BY DEF Marks
<1>2. Shrinks(fr, Front(fr), e) BY DEF Shrinks
<1>3. \A w : Cut(fr, Len(w), p) /\ Pre(w, fr) => Cut(Front(fr), Len(w), p) /\ Pre(w, Front(fr))
  BY <1>2, ShrinkKeeps DEF Path
<1> QED BY <1>1, <1>3

LEMMA AbandonStep ==
  ASSUME Types, IInv, Abandon
  PROVE  Types' /\ IInv'
<1> DEFINE F == ToSet(frames)
           A == ToSet(arms)
           p == Last(frames)
           G == F \ {p}
<1>0. /\ Shape(stack) /\ Tries(stack, ToSet(arms)) /\ Frames(stack, ToSet(frames))
      /\ Targets(stack, ToSet(frames), ToSet(arms)) /\ Arms(stack, ToSet(frames), ToSet(arms))
      /\ Owes(stack, ToSet(cleanups)) /\ Marks(stack, ToSet(frames), frames, cleanups)
      /\ Registers(stack, UnwindHead, ToSet(frames), ToSet(arms))
      /\ Heads(stack, UnwindHead, ToSet(frames)) /\ Dispatches(stack, saved, running, handlers)
      /\ Depths(stack, depth) /\ Rising(UnwindHead) /\ Ascending(frames) /\ Ascending(cleanups)
      /\ Ascending(arms)
  BY DEF IInv
<1>4. /\ handlers \in Chain /\ errs \in 0..ERROR_BOUND /\ frames \in Path /\ cleanups \in Path
      /\ depth \in 0..ERROR_MAX_DEPTH /\ arms \in Path /\ saved \in Chain /\ running \in Chain
  BY DEF Types
<1>1. Now.phase = "transfer" /\ frames # <<>> /\ stack[p].claimed BY DEF Abandon, Transferring
<1>2. /\ Now = stack[Top] /\ Top \in Nat \ {0} /\ Top = Len(stack) /\ Now.kind = "unwind"
      /\ \A o \in 1..Top : stack[o] \in Activation
  <2>1. Now = stack[Top] /\ Top \in Nat \ {0} /\ Top = Len(stack) /\ \A o \in 1..Top : stack[o] \in Activation
    BY <1>0, Stacked
  <2> QED BY <1>1, <2>1, KindOf
<1>3. saved = <<>> /\ running = <<>> /\ UnwindHead = handlers BY <1>2, Undispatched
<1>5. /\ p \in F /\ \A f \in F : f <= p
      /\ stack[p].prev = Front(frames) /\ Front(frames) \in Path /\ Ascending(Front(frames))
      /\ ToSet(Front(frames)) = G
  BY <1>1, PrevIsFront
<1>6. /\ p \in 1..Top /\ stack[p] \in TryType /\ TryOK(stack[p], p \in A) BY <1>5, FrameIs
<1>7. /\ stack[p].kind = "try" /\ stack[p].handle = <<>> /\ p # Top
      /\ stack[p].phase \in {"finally", "leave"}
  BY <1>1, <1>2, <1>6 DEF TryOK, TryType
<1>8. stack[p].phase = "finally"
  <2>1. p + 1 \in 1..Top /\ p + 1 > 1 /\ (p + 1) - 1 = p BY <1>2, <1>6, <1>7
  <2>2. Sits(stack, p + 1) BY <1>0, <1>2, <2>1 DEF Shape
  <2>3. stack[p].phase \in {"body", "arm", "finally", "offer", "drain"} BY <2>1, <2>2 DEF Sits
  <2> QED BY <1>7, <2>3
<1>9. \A y \in Reg(stack, A) : y < p
  <2> TAKE y \in Reg(stack, A)
  <2>1. /\ y \in 1..Top /\ (stack[y].kind = "watch" \/ (stack[y].kind = "try" /\ stack[y].handle # <<>>))
    BY <1>2 DEF Reg
  <2>2. CASE stack[y].kind = "watch"
    <3>1. Sits(stack, y) BY <1>0, <1>2, <2>1 DEF Shape
    <3>2. p \notin 1 .. y - 1 BY <1>8, <2>2, <3>1 DEF Sits
    <3>3. y # p BY <1>7, <2>2
    <3> QED BY <1>6, <2>1, <3>2, <3>3
  <2>3. CASE stack[y].kind = "try" /\ stack[y].handle # <<>>
    <3>1. y \in F BY <1>0, <2>3 DEF Registers
    <3> QED BY <1>5, <1>6, <1>7, <2>1, <2>3, <3>1
  <2> QED BY <2>1, <2>2, <2>3
<1>10. \A y \in Ids(handlers) : y < p BY <1>0, <1>3, <1>9 DEF Registers
<1>11. TrimmedHandlers(stack[p]) = handlers
       /\ TrimmedErrs(stack[p], stack[p].state = "unwind") \in 0..ERROR_BOUND
  BY <1>3, <1>5, <1>10, Trims
<1>12. /\ frames' = Front(frames) /\ handlers' = handlers /\ errs' \in 0..ERROR_BOUND
       /\ stack' = stack /\ saved' = saved /\ running' = running /\ arms' = arms
       /\ cleanups' = cleanups /\ depth' = depth
  BY <1>5, <1>11 DEF Abandon
<1>13. Types' BY <1>4, <1>5, <1>12 DEF Types
<1>14. UnwindHead' = UnwindHead BY <1>12 DEF UnwindHead
<1> HIDE DEF p
<1>15. Frames(stack, G)
  <2>1. \A f \in G : /\ f \in 1..Len(stack) /\ stack[f].kind = "try" /\ ~ Dead(stack, f)
                     /\ \A c \in 1 .. f - 1 : stack[c].kind = "callback" => Dead(stack, c)
    BY <1>0 DEF Frames
  <2>2. ASSUME NEW q \in 1..Len(stack), stack[q].kind = "try", q \notin G
        PROVE  /\ stack[q].claimed
               /\ Dead(stack, q) \/ (stack[Len(stack)].phase = "transfer" /\ \A f \in G : f < q)
    <3>1. CASE q = p
      <4>1. \A f \in G : f \in 1..Top /\ f <= p /\ f # p BY <1>5, Within
      <4>2. \A f \in G : f < p BY <1>6, <4>1
      <4> QED BY <1>1, <1>2, <3>1, <4>2 DEF p
    <3>2. CASE q # p BY <1>0, <2>2, <3>2 DEF Frames
    <3> QED BY <3>1, <3>2
  <2>3. ASSUME NEW q \in 1..Len(stack), stack[q].phase = "drain", ~ Dead(stack, q)
        PROVE  stack[q].frame \in G /\ stack[stack[q].frame].state = "unwind"
    <3>1. stack[q].frame \in F /\ stack[stack[q].frame].state = "unwind" BY <1>0, <2>3 DEF Frames
    <3>2. Sits(stack, q) BY <1>0 DEF Shape
    <3>3. stack[stack[q].frame].phase \in {"body", "arm"} BY <2>3, <3>2 DEF Sits
    <3>4. stack[q].frame # p BY <1>8, <3>3
    <3> QED BY <3>1, <3>4
  <2> QED BY <2>1, <2>2, <2>3 DEF Frames
<1>16. \A t : Caught(stack, F, A, t) => Caught(stack, G, A, t) BY <1>7 DEF Caught
<1>17. Targets(stack, G, A) BY <1>0, <1>16 DEF Targets
<1>18. Arms(stack, G, A) BY <1>0, <1>7 DEF Arms
<1>19. Marks(stack, G, Front(frames), cleanups)
  <2>1. \A f \in G : f \in Nat /\ ~ (p < f) /\ p \in Nat
    <3> TAKE f \in G
    <3>1. f \in 1..Top /\ f <= p BY <1>5, Within
    <3> QED BY <1>6, <3>1
  <2>2. G \subseteq F /\ Last(frames) = p /\ p \in Nat BY <1>6 DEF p
  <2> HIDE DEF G, F
  <2> QED BY <1>0, <1>1, <1>4, <2>1, <2>2, FewerMarks DEF F
<1>20. Registers(stack, UnwindHead, G, A)
  <2>1. \A y \in Reg(stack, A) : y # p BY <1>6, <1>9
  <2> QED BY <1>0, <2>1 DEF Registers
<1>21. Heads(stack, UnwindHead, G) BY <1>0 DEF Heads
<1>22. ToSet(frames') = G /\ Ascending(frames') BY <1>5, <1>12 DEF p
<1> QED BY <1>0, <1>12, <1>13, <1>14, <1>15, <1>17, <1>18, <1>19, <1>20, <1>21, <1>22 DEF IInv

(* The try on top of the stack that is left pops: the transfer frame goes  *)
(* with it.                                                                *)
LEMMA PopTry ==
  ASSUME NEW s, NEW t, NEW F, NEW A, NEW G, Popped(s, t), Shape(s), s[Len(s)].kind = "try",
         Len(s) \notin A, G = F \ {Len(s)},
         Tries(s, A), Frames(s, F), Targets(s, F, A), Arms(s, F, A)
  PROVE  /\ Tries(t, A) /\ Frames(t, G) /\ Targets(t, G, A) /\ Arms(t, G, A)
         /\ \A p \in G : p \in 1..Len(t)
<1>1. /\ Len(t) \in Nat \ {0} /\ Len(s) = Len(t) + 1
      /\ \A p \in 1..Len(t) : p \in 1..Len(s) /\ p # Len(s) /\ t[p] = s[p]
      /\ \A p \in 1..Len(s) : p # Len(s) => p \in 1..Len(t)
      /\ \A p \in Nat : Dead(s, p) <=> Dead(t, p)
  BY PopSame
<1>2. \A p \in G : p \in F /\ p \in 1..Len(t) /\ p < Len(s) BY <1>1 DEF Frames
<1>3. s[Len(s)].phase # "transfer" /\ s[Len(s)].phase # "drain" BY DEF Popped
<1>4. t[Len(t)].phase # "transfer"
  <2>1. Sits(s, Len(s)) /\ Len(s) > 1 /\ Len(s) - 1 = Len(t) BY <1>1 DEF Shape
  <2>2. s[Len(t)].phase # "transfer" BY <2>1 DEF Sits
  <2> QED BY <1>1, <2>2
<1>5. Tries(t, A) BY <1>1 DEF Tries
<1>6. Frames(t, G)
  <2>1. ASSUME NEW p \in G
        PROVE  /\ p \in 1..Len(t) /\ t[p].kind = "try" /\ ~ Dead(t, p)
               /\ \A c \in 1 .. p - 1 : t[c].kind = "callback" => Dead(t, c)
    BY <1>1, <1>2 DEF Frames
  <2>2. ASSUME NEW p \in 1..Len(t), t[p].kind = "try", p \notin G PROVE t[p].claimed /\ Dead(t, p)
    <3>1. p \in 1..Len(s) /\ p \notin F /\ t[p] = s[p] BY <1>1, <2>2
    <3> QED BY <1>1, <1>3, <2>2, <3>1 DEF Frames
  <2>3. ASSUME NEW q \in 1..Len(t), t[q].phase = "drain", ~ Dead(t, q)
        PROVE  t[q].frame \in G /\ t[t[q].frame].state = "unwind"
    <3>1. q \in 1..Len(s) /\ t[q] = s[q] /\ ~ Dead(s, q) BY <1>1, <2>3
    <3>2. s[q].frame \in F /\ s[s[q].frame].state = "unwind" BY <2>3, <3>1 DEF Frames
    <3>3. Sits(s, q) BY <3>1 DEF Shape
    <3>4. s[q].frame \in 1 .. q - 1 BY <2>3, <3>1, <3>3 DEF Sits
    <3>5. s[q].frame # Len(s) BY <1>1, <2>3, <3>4
    <3>6. s[q].frame \in G BY <3>2, <3>5
    <3>7. t[s[q].frame] = s[s[q].frame] BY <1>1, <1>2, <3>6
    <3> QED BY <3>1, <3>2, <3>6, <3>7
  <2> QED BY <2>1, <2>2, <2>3 DEF Frames
<1>7. \A u : u \in G /\ Caught(s, F, A, u) => Caught(t, G, A, u) BY <1>1, <1>2 DEF Caught
<1>8. ASSUME NEW p \in G, t[p].state = "unwind"
      PROVE  /\ t[p].target <= p /\ Caught(t, G, A, t[p].target)
             /\ t[p].target = p => t[p].phase \in {"body", "landed"}
             /\ t[p].phase \in {"body", "arm"} =>
                  \E q \in p + 1 .. Len(t) : t[q].phase = "drain" /\ t[q].frame = p
  <2>1. t[p] = s[p] /\ p \in 1..Len(t) /\ p \in F BY <1>1, <1>2
  <2>2. /\ s[p].target <= p /\ Caught(s, F, A, s[p].target)
        /\ s[p].target = p => s[p].phase \in {"body", "landed"}
    BY <1>8, <2>1 DEF Targets
  <2>3. ASSUME t[p].phase \in {"body", "arm"}
        PROVE  \E q \in p + 1 .. Len(t) : t[q].phase = "drain" /\ t[q].frame = p
    <3>1. PICK q \in p + 1 .. Len(s) : s[q].phase = "drain" /\ s[q].frame = p
      BY <1>8, <2>1, <2>3 DEF Targets
    <3>2. q # Len(s) /\ q \in 1..Len(s) BY <1>1, <1>3, <2>1, <3>1
    <3>3. q \in 1..Len(t) /\ t[q] = s[q] BY <1>1, <3>2
    <3>4. q \in p + 1 .. Len(t) BY <1>1, <2>1, <3>1, <3>3
    <3> QED BY <3>1, <3>3, <3>4
  <2>4. s[p].target \in G
    <3>1. s[p].target \in F /\ s[p].target \in 1..Len(s) BY <2>2 DEF Caught, Frames
    <3>2. s[p].target # Len(s) BY <1>1, <1>2, <2>1, <2>2, <3>1
    <3> QED BY <3>1, <3>2
  <2> QED BY <1>7, <2>1, <2>2, <2>3, <2>4
<1>9. Targets(t, G, A) BY <1>4, <1>8 DEF Targets
<1>10. Arms(t, G, A)
  <2>1. \A p \in A : p \in G BY DEF Arms
  <2> QED BY <1>1, <1>2, <2>1 DEF Arms
<1> QED BY <1>2, <1>5, <1>6, <1>9, <1>10

(* Where a try is left, it is the newest frame and nothing is newer than   *)
(* what it recorded.                                                       *)
LEMMA Leaving ==
  ASSUME Types, IInv, Now.phase = "leave"
  PROVE  /\ Now.kind = "try" /\ Now.handle = <<>> /\ Top \notin ToSet(arms) /\ Top \in ToSet(frames)
         /\ Top \notin Reg(stack, ToSet(arms))
         /\ frames # <<>> /\ Last(frames) = Top /\ Now.prev = Front(frames)
         /\ cleanups = Now.watermark /\ Top \notin ToSet(cleanups)
         /\ TrimmedHandlers(Now) = handlers
         /\ TrimmedErrs(Now, Now.state = "unwind") \in 0..ERROR_BOUND
<1>0. /\ Arms(stack, ToSet(frames), ToSet(arms)) /\ Owes(stack, ToSet(cleanups))
      /\ Registers(stack, UnwindHead, ToSet(frames), ToSet(arms)) /\ Tries(stack, ToSet(arms))
  BY DEF IInv
<1>1. Now.kind = "try" BY TryPhases
<1>2. /\ Now = stack[Top] /\ Now \in TryType /\ Top \in Nat \ {0} /\ Top = Len(stack) /\ Top \in ToSet(frames)
      /\ saved = <<>> /\ UnwindHead = handlers /\ TryOK(Now, Top \in ToSet(arms))
  BY <1>1, TopTry
<1>3. Now.handle = <<>> BY <1>2 DEF TryOK
<1>4. Top \notin ToSet(arms) BY <1>0, <1>2, <1>3 DEF Arms
<1>5. Top \notin Reg(stack, ToSet(arms)) BY <1>1, <1>2, <1>3 DEF Reg
<1>6. frames # <<>> BY <1>2 DEF ToSet
<1>7. Last(frames) = Top /\ Now.prev = Front(frames)
  <2>1. /\ Last(frames) \in ToSet(frames) /\ \A f \in ToSet(frames) : f <= Last(frames)
        /\ stack[Last(frames)].prev = Front(frames)
    BY <1>6, PrevIsFront
  <2>2. Last(frames) \in 1..Top BY <2>1, Within
  <2>3. Last(frames) = Top BY <1>2, <2>1, <2>2
  <2> QED BY <1>2, <2>1, <2>3
<1>8. Top \notin ToSet(cleanups) BY <1>0, <1>1, <1>2 DEF Owes, Owing, Cleaner
<1>9. cleanups = Now.watermark
  <2>1. cleanups \in Path /\ Now.watermark \in Path /\ Top \in Nat BY <1>2 DEF Types, TryType
  <2>2. Pre(Now.watermark, cleanups) /\ Cut(cleanups, Len(Now.watermark), Top) BY <1>2, FrameIs
  <2>3. \A i \in 1..Len(cleanups) : cleanups[i] < Top
    <3> TAKE i \in 1..Len(cleanups)
    <3>1. cleanups[i] \in ToSet(cleanups) /\ cleanups[i] \in 1..Top BY Within
    <3>2. cleanups[i] # Top BY <1>8, <3>1
    <3> QED BY <1>2, <3>1, <3>2
  <2> QED BY <2>1, <2>2, <2>3, WholePath
<1>10. \A y \in Ids(handlers) : y < Top
  <2> TAKE y \in Ids(handlers)
  <2>1. y \in Reg(stack, ToSet(arms)) BY <1>0, <1>2 DEF Registers
  <2>2. y \in 1..Top /\ y # Top BY <1>2, <1>5, <2>1 DEF Reg
  <2> QED BY <1>2, <2>2
<1>11. (Now.state = "unwind") \in BOOLEAN OBVIOUS
<1>12. TrimmedHandlers(Now) = handlers /\ TrimmedErrs(Now, Now.state = "unwind") \in 0..ERROR_BOUND
  BY <1>2, <1>10, <1>11, Trims
<1> QED BY <1>1, <1>2, <1>3, <1>4, <1>5, <1>6, <1>7, <1>8, <1>9, <1>12

LEMMA LeaveStep ==
  ASSUME Types, IInv, Leave
  PROVE  Types' /\ IInv'
<1> DEFINE F == ToSet(frames)
           A == ToSet(arms)
           G == F \ {Top}
           u == Below
           a == [kind |-> "unwind", phase |-> "transfer", target |-> Now.target]
<1>0. /\ Shape(stack) /\ Tries(stack, ToSet(arms)) /\ Frames(stack, ToSet(frames))
      /\ Targets(stack, ToSet(frames), ToSet(arms)) /\ Arms(stack, ToSet(frames), ToSet(arms))
      /\ Owes(stack, ToSet(cleanups)) /\ Marks(stack, ToSet(frames), frames, cleanups)
      /\ Registers(stack, UnwindHead, ToSet(frames), ToSet(arms))
      /\ Heads(stack, UnwindHead, ToSet(frames)) /\ Dispatches(stack, saved, running, handlers)
      /\ Depths(stack, depth) /\ Rising(UnwindHead) /\ Ascending(frames) /\ Ascending(cleanups)
      /\ Ascending(arms)
  BY DEF IInv
<1>4. /\ handlers \in Chain /\ errs \in 0..ERROR_BOUND /\ frames \in Path /\ cleanups \in Path
      /\ depth \in 0..ERROR_MAX_DEPTH /\ arms \in Path /\ saved \in Chain /\ running \in Chain
  BY DEF Types
<1>1. Now.phase = "leave" BY DEF Leave
<1>2. /\ Now.kind = "try" /\ Now.handle = <<>> /\ Top \notin A /\ Top \in F
      /\ Top \notin Reg(stack, A) /\ frames # <<>> /\ Last(frames) = Top /\ Now.prev = Front(frames)
      /\ cleanups = Now.watermark /\ Top \notin ToSet(cleanups)
      /\ TrimmedHandlers(Now) = handlers /\ TrimmedErrs(Now, Now.state = "unwind") \in 0..ERROR_BOUND
  BY <1>1, Leaving
<1>3. /\ handlers' = handlers /\ errs' \in 0..ERROR_BOUND /\ frames' = Front(frames)
      /\ saved' = saved /\ running' = running /\ arms' = arms /\ cleanups' = cleanups /\ depth' = depth
      /\ stack' = IF Now.state = "unwind" THEN Append(u, a) ELSE u
  BY <1>2 DEF Leave
<1>5. /\ Now = stack[Top] /\ Now \in TryType /\ Top \in Nat \ {0} /\ Top = Len(stack)
      /\ saved = <<>> /\ running = <<>> /\ UnwindHead = handlers /\ Silent(stack)
      /\ Now.state = "unwind" =>
           /\ Now.target <= Top /\ Caught(stack, F, A, Now.target) /\ Now.target # Top
  BY <1>1, <1>2, TopTry
<1>6. /\ Popped(stack, u) /\ u \in Seq(Activation) /\ Len(u) = Top - 1 /\ Top > 1 /\ Sits(stack, Top)
  BY <1>0, <1>1, <1>2, StackPop
<1>7. UnwindHead' = handlers BY <1>3, <1>5 DEF UnwindHead
<1>8. /\ Front(frames) \in Path /\ Ascending(Front(frames)) /\ ToSet(frames') = G
  BY <1>2, <1>3, PrevIsFront
<1>9. stack[Len(stack)].kind = "try" /\ Len(stack) \notin A /\ G = F \ {Len(stack)} BY <1>2, <1>5
<1> HIDE DEF u, a, F, A, G
<1>10. /\ Tries(u, A) /\ Frames(u, G) /\ Targets(u, G, A) /\ Arms(u, G, A)
       /\ \A p \in G : p \in 1..Len(u)
  BY <1>0, <1>6, <1>9, PopTry DEF F, A
<1>11. Shape(u) BY <1>0, <1>6, PopShape
<1>12. /\ \A p \in 1..Len(u) : p # Top /\ p \in 1..Top /\ u[p] = stack[p]
       /\ \A p \in 1..Top : p # Top => p \in 1..Len(u)
       /\ \A p \in Nat : Dead(stack, p) <=> Dead(u, p)
       /\ Len(u) \in Nat \ {0}
  BY <1>5, <1>6, PopSame
<1>13. Owes(u, ToSet(cleanups))
  <2>1. ToSet(cleanups) = ToSet(cleanups) \ {Len(stack)} BY <1>2, <1>5
  <2>2. ~ (stack[Len(stack)].kind = "thunk" /\ stack[Len(u)].kind = "defer") BY <1>9
  <2> QED BY <1>0, <1>6, <2>1, <2>2, PopOwes
<1>14. KeepsFrames(stack, u, G) BY <1>10, <1>12 DEF KeepsFrames
<1>15. \A p \in G : p \in Nat /\ ~ (Top < p) BY <1>5, <1>6, <1>10
<1>16. Marks(u, G, Front(frames), cleanups)
  <2>1. G \subseteq F BY DEF G
  <2>2. Marks(stack, G, Front(frames), cleanups) BY <1>0, <1>2, <1>4, <1>5, <1>15, <2>1, FewerMarks DEF F
  <2>3. Shrinks(cleanups, cleanups, Top) BY DEF Shrinks
  <2> QED BY <1>4, <1>5, <1>8, <1>14, <1>15, <2>2, <2>3, ShrinkMarks
<1>17. Registers(u, handlers, G, A)
  <2>1. Reg(u, A) = Reg(stack, A)
    <3>1. Top \notin Reg(stack, A) BY <1>2 DEF A
    <3> QED BY <1>5, <1>12, <3>1 DEF Reg
  <2>2. \A p \in Reg(stack, A) : Len(stack[p].handle) \in Nat BY <1>0, HandlesAre
  <2>3. \A p \in Reg(u, A) : u[p] = stack[p] /\ p # Top BY <1>12 DEF Reg
  <2>4. F \cap Reg(u, A) \subseteq G BY <2>3 DEF G
  <2>5. ShrinksAt(handlers, handlers, Top) BY DEF ShrinksAt
  <2>6. Registers(stack, handlers, F, A) /\ Rising(handlers) BY <1>0, <1>5 DEF F, A
  <2> QED BY <1>4, <1>5, <2>1, <2>2, <2>3, <2>4, <2>5, <2>6, ShrinkRegisters
<1>18. Heads(u, handlers, G)
  <2>1. ASSUME NEW p \in 1..Len(u), u[p].kind = "thunk", u[p].drain, ~ Dead(u, p)
        PROVE  /\ p \in 1..Len(stack) /\ stack[p].kind = "thunk" /\ stack[p].drain /\ ~ Dead(stack, p)
               /\ u[p].depth = stack[p].depth /\ ~ (Top < p)
    BY <1>5, <1>12, <2>1
  <2>2. ShrinksAt(handlers, handlers, Top) BY DEF ShrinksAt
  <2>3. Heads(stack, handlers, G) BY <1>0, <1>5 DEF Heads, G, F
  <2> QED BY <1>4, <1>5, <1>12, <1>14, <1>15, <2>1, <2>2, <2>3, ShrinkHeads
<1>19. u[Len(u)].kind \notin {"dispatch", "unwind"} /\ u[Len(u)].phase \notin {"transfer", "drain"}
       /\ u[Len(u)].phase \in {"body", "arm", "finally", "offer", "drain"}
  <2>0. \A n \in Nat \ {0} : n \in 1..n OBVIOUS
  <2>1. Top - 1 = Len(u) /\ Len(u) \in 1..Len(u)
    <3>1. Len(u) \in Nat \ {0} BY <1>12
    <3>2. Len(u) \in 1..Len(u) BY <2>0, <3>1, Zenon
    <3>3. Top - 1 = Len(u) BY <1>6
    <3> QED BY <3>2, <3>3
  <2>2. u[Len(u)] = stack[Top - 1] BY <1>12, <2>1
  <2>3. /\ stack[Top - 1].kind \notin {"dispatch", "unwind"}
        /\ stack[Top - 1].phase \in {"body", "arm", "finally", "offer", "drain"}
    BY <1>2, <1>5, <1>6 DEF Sits
  <2>4. u[Len(u)] \in Activation BY <1>6, <2>1
  <2>5. u[Len(u)].phase \notin {"transfer", "drain"} BY <2>2, <2>3, <2>4, KindOf
  <2> QED BY <2>2, <2>3, <2>5
<1>20. Silent(u) /\ Dispatches(u, <<>>, <<>>, handlers)
  BY <1>5, <1>6, <1>19, PopQuiet
<1>21. Depths(u, depth) /\ depth \in Nat BY <1>0, <1>4, <1>6, <1>9, Sizes, PopDepths
<1>a. CASE Now.state # "unwind"
  <2>1. stack' = u BY <1>3, <1>a
  <2>2. Types' BY <1>3, <1>4, <1>6, <1>8, <2>1 DEF Types
  <2> QED BY <1>0, <1>3, <1>5, <1>7, <1>8, <1>10, <1>11, <1>13, <1>16, <1>17, <1>18, <1>20, <1>21, <2>1, <2>2
          DEF IInv, A
<1>b. CASE Now.state = "unwind"
  <2>1. stack' = Append(u, a) BY <1>3, <1>b
  <2>2. a \in Activation /\ a.kind = "unwind" /\ a.phase = "transfer" /\ a.target = Now.target
    <3>1. Now.target \in Nat BY <1>5 DEF TryType
    <3>2. a \in TransferType BY <3>1 DEF TransferType, a
    <3> QED BY <3>2 DEF Activation, a
  <2>3. /\ stack' \in Seq(Activation) /\ Pushed(u, stack') /\ Len(stack') = Top
        /\ stack'[Len(stack')] = a
    <3>1. Len(stack') = Len(u) + 1 /\ stack'[Len(u) + 1] = a /\ \A p \in 1..Len(u) : stack'[p] = u[p]
      BY <1>6, <2>1, <2>2
    <3> QED BY <1>5, <1>6, <1>12, <2>1, <2>2, <3>1 DEF Pushed
  <2>4. Types' BY <1>3, <1>4, <1>8, <2>3 DEF Types
  <2>5. /\ stack'[Len(stack')].kind = "unwind" /\ stack'[Len(stack')].phase = "transfer"
        /\ stack'[Len(stack')].phase # "drain"
        /\ stack'[Len(stack')].target = Now.target
    BY <2>2, <2>3
  <2>6. Shape(stack')
    <3>1. Len(stack') - 1 = Len(u) /\ stack'[Len(u)] = u[Len(u)] /\ Len(stack') > 1
      BY <1>5, <1>6, <1>12, <2>3 DEF Pushed
    <3>2. Sits(stack', Len(stack'))  BY <1>19, <2>5, <3>1 DEF Sits
    <3> QED BY <1>11, <2>3, <3>2, PushShape
  <2>7. /\ Tries(stack', A) /\ Frames(stack', G) /\ Targets(stack', G, A) /\ Arms(stack', G, A)
    <3>1. Caught(u, G, A, Now.target)
      <4>1. Caught(stack, F, A, Now.target) /\ Now.target # Top BY <1>5, <1>b DEF F, A
      <4>2. Now.target \in G BY <4>1 DEF Caught, G
      <4>3. u[Now.target] = stack[Now.target] BY <1>10, <1>12, <4>2
      <4> QED BY <4>1, <4>2, <4>3 DEF Caught
    <3> QED BY <1>10, <1>19, <2>3, <2>5, <3>1, PushRest
  <2>8. Owes(stack', ToSet(cleanups)) BY <1>13, <2>3, <2>5, PushOwes DEF Cleaner
  <2>9. Marks(stack', G, Front(frames), cleanups)
    <3>1. Extends(Front(frames), Front(frames), Len(stack')) /\ Extends(cleanups, cleanups, Len(stack'))
      BY DEF Extends
    <3>2. Len(Front(frames)) \in Nat /\ Len(cleanups) \in Nat BY <1>8, Sizes DEF Path
    <3> QED BY <1>10, <1>16, <2>3, <3>1, <3>2, PushMarks
  <2>10. Registers(stack', handlers, G, A)
    <3>1. Len(stack') \notin Reg(stack', A) BY <2>5 DEF Reg
    <3> QED BY <1>17, <2>3, <3>1, Sizes, PushRegisters
  <2>11. Heads(stack', handlers, G) BY <1>10, <1>18, <2>3, <2>5, Sizes, PushHeadless
  <2>12. Dispatches(stack', <<>>, <<>>, handlers) BY <2>5 DEF Dispatches
  <2>13. Depths(stack', depth) BY <2>5 DEF Depths
  <2> QED BY <1>0, <1>3, <1>5, <1>7, <1>8, <2>4, <2>6, <2>7, <2>8, <2>9, <2>10, <2>11, <2>12, <2>13
          DEF IInv, A
<1> QED BY <1>a, <1>b
-----------------------------------------------------------------------------
(* The unwind that starts to drain towards the frame f, for the target x *)

Drains(s, t, f, x) ==
  /\ Len(s) \in Nat \ {0} /\ Len(t) = Len(s) /\ f \in 1 .. Len(s) - 1
  /\ \A p \in 1 .. Len(s) - 1 : p # f => t[p] = s[p]
  /\ s[Len(s)].kind = "unwind" /\ s[Len(s)].phase = "transfer"
  /\ t[Len(s)].kind = "unwind" /\ t[Len(s)].phase = "drain" /\ t[Len(s)].frame = f
  /\ s[f].kind = "try" /\ s[f].phase \in {"body", "arm"}
  /\ t[f].state = "unwind" /\ t[f].target = x
  /\ t[f].kind = s[f].kind /\ t[f].phase = s[f].phase /\ t[f].handle = s[f].handle
  /\ t[f].fin = s[f].fin /\ t[f].claimed = s[f].claimed /\ t[f].runs = s[f].runs
  /\ t[f].prev = s[f].prev /\ t[f].watermark = s[f].watermark /\ t[f].head = s[f].head

LEMMA DrainsSame ==
  ASSUME NEW s, NEW t, NEW f, NEW x, Drains(s, t, f, x)
  PROVE  /\ Len(s) \in Nat \ {0} /\ Len(t) = Len(s) /\ f \in 1..Len(s) /\ f \in Nat /\ f # Len(s)
         /\ \A p \in 1..Len(s) : p # f /\ p # Len(s) => t[p] = s[p]
         /\ \A p \in 1..Len(s) : p # Len(s) =>
              /\ t[p].phase = s[p].phase /\ t[p].handle = s[p].handle /\ t[p].runs = s[p].runs
         /\ \A p \in 1..Len(s) : t[p].kind = s[p].kind
         /\ \A p \in 1..Len(s) : s[p].kind \notin {"try", "unwind"} => t[p] = s[p]
         /\ \A p \in 1..Len(s) : s[p].phase = "drain" => t[p] = s[p]
         /\ \A p \in Nat : Dead(t, p) <=> Dead(s, p) \/ (f < p /\ p < Len(s))
<1>1. /\ Len(s) \in Nat \ {0} /\ Len(t) = Len(s) /\ f \in 1..Len(s) /\ f \in Nat /\ f # Len(s)
      /\ \A p \in 1..Len(s) : p # Len(s) => p \in 1 .. Len(s) - 1
  BY DEF Drains
<1>2. \A p \in 1..Len(s) : p # f /\ p # Len(s) => t[p] = s[p] BY <1>1 DEF Drains
<1>3. \A p \in 1..Len(s) : p # Len(s) =>
        /\ t[p].phase = s[p].phase /\ t[p].handle = s[p].handle /\ t[p].runs = s[p].runs
        /\ t[p].kind = s[p].kind
  <2> TAKE p \in 1..Len(s)
  <2>1. CASE p = f BY <2>1 DEF Drains
  <2>2. CASE p # f BY <1>2, <2>2
  <2> QED BY <2>1, <2>2
<1>4. \A p \in 1..Len(s) : t[p].kind = s[p].kind
  <2> TAKE p \in 1..Len(s)
  <2>1. CASE p = Len(s) BY <2>1 DEF Drains
  <2>2. CASE p # Len(s) BY <1>3, <2>2
  <2> QED BY <2>1, <2>2
<1>5. \A p \in 1..Len(s) : s[p].kind \notin {"try", "unwind"} => p # f /\ p # Len(s) BY DEF Drains
<1>6. \A p \in 1..Len(s) : s[p].phase = "drain" => p # f /\ p # Len(s) BY DEF Drains
<1>7. ASSUME NEW p \in Nat PROVE Dead(t, p) <=> Dead(s, p) \/ (f < p /\ p < Len(s))
  <2>1. ASSUME Dead(t, p) PROVE Dead(s, p) \/ (f < p /\ p < Len(s))
    <3>1. PICK q \in p + 1 .. Len(t) : t[q].phase = "drain" /\ t[q].frame < p BY <2>1 DEF Dead
    <3>2. q \in 1..Len(s) /\ q \in p + 1 .. Len(s) BY <1>1, <3>1
    <3>3. CASE q = Len(s)
      <4>1. t[q].frame = f BY <3>3 DEF Drains
      <4>2. p < Len(s) BY <1>1, <3>2, <3>3
      <4> QED BY <3>1, <4>1, <4>2
    <3>4. CASE q # Len(s)
      <4>1. s[q].phase = "drain" BY <1>3, <3>1, <3>2, <3>4
      <4>2. t[q] = s[q] BY <1>2, <1>6, <3>2, <4>1
      <4> QED BY <3>1, <3>2, <4>2 DEF Dead
    <3> QED BY <3>3, <3>4
  <2>2. ASSUME Dead(s, p) PROVE Dead(t, p)
    <3>1. PICK q \in p + 1 .. Len(s) : s[q].phase = "drain" /\ s[q].frame < p BY <2>2 DEF Dead
    <3>2. q \in 1..Len(s) BY <1>1, <3>1
    <3>3. t[q] = s[q] BY <1>2, <1>6, <3>1, <3>2
    <3> QED BY <1>1, <3>1, <3>3 DEF Dead
  <2>3. ASSUME f < p, p < Len(s) PROVE Dead(t, p)
    <3>1. Len(s) \in p + 1 .. Len(t) BY <1>1, <2>3
    <3>2. t[Len(s)].phase = "drain" /\ t[Len(s)].frame < p BY <2>3 DEF Drains
    <3> QED BY <3>1, <3>2 DEF Dead
  <2> QED BY <2>1, <2>2, <2>3
<1> QED BY <1>1, <1>2, <1>3, <1>4, <1>5, <1>6, <1>7

(* Every dispatch below a transfer frame was abandoned. *)
LEMMA DispatchDead ==
  ASSUME NEW s, NEW F, NEW f \in F, Shape(s), Frames(s, F), NEW e \in 1 .. f - 1, s[e].kind = "dispatch",
         \A p \in 1..Len(s) : s[p] \in Activation
  PROVE  Dead(s, e)
<1>1. /\ f \in 1..Len(s) /\ s[f].kind = "try" /\ Len(s) \in Nat \ {0}
      /\ \A c \in 1 .. f - 1 : s[c].kind = "callback" => Dead(s, c)
  BY DEF Frames, Shape
<1>2. e \in Nat /\ e + 1 \in 1..Len(s) /\ e + 1 > 1 /\ (e + 1) - 1 = e BY <1>1
<1>3. Sits(s, e + 1) BY <1>2 DEF Shape
<1>4. s[e + 1].kind \in {"callback", "unwind"} BY <1>2, <1>3 DEF Sits
<1>5. e + 1 # f /\ e + 1 \in 1 .. f - 1
  <2>1. e + 1 # f BY <1>1, <1>4
  <2> QED BY <1>1, <1>2, <2>1
<1>6. \E q \in e + 1 .. Len(s) : s[q].phase = "drain" /\ s[q].frame < e + 1
  <2>1. CASE s[e + 1].kind = "callback"
    <3>1. Dead(s, e + 1) BY <1>1, <1>5, <2>1
    <3>2. PICK q \in (e + 1) + 1 .. Len(s) : s[q].phase = "drain" /\ s[q].frame < e + 1 BY <3>1 DEF Dead
    <3>3. q \in e + 1 .. Len(s) BY <1>1, <1>2, <3>2
    <3> QED BY <3>2, <3>3
  <2>2. CASE s[e + 1].kind = "unwind"
    <3>1. e + 2 \in 1..Len(s) /\ e + 2 > 1 /\ (e + 2) - 1 = e + 1 BY <1>1, <1>2, <1>5
    <3>2. Sits(s, e + 2) BY <3>1 DEF Shape
    <3>3. s[e + 1].phase \in {"body", "arm", "finally", "offer", "drain"} BY <3>1, <3>2 DEF Sits
    <3>4. s[e + 1] \in Activation BY <1>2
    <3>5. s[e + 1].phase = "drain" BY <2>2, <3>3, <3>4, KindOf
    <3>6. s[e + 1].frame \in 1 .. (e + 1) - 1 BY <1>3, <3>5 DEF Sits
    <3>7. e + 1 \in e + 1 .. Len(s) /\ s[e + 1].frame < e + 1 BY <1>2, <3>6
    <3> QED BY <3>5, <3>7
  <2> QED BY <1>4, <2>1, <2>2
<1>7. PICK q \in e + 1 .. Len(s) : s[q].phase = "drain" /\ s[q].frame < e + 1 BY <1>6
<1>8. q \in 1..Len(s) BY <1>1, <1>2, <1>7
<1>9. s[q].frame \in 1 .. q - 1 /\ s[s[q].frame].kind = "try"
  <2>1. Sits(s, q) BY <1>8 DEF Shape
  <2> QED BY <1>7, <2>1 DEF Sits
<1>10. s[q].frame # e BY <1>9
<1>11. s[q].frame < e BY <1>2, <1>7, <1>8, <1>9, <1>10
<1> QED BY <1>7, <1>11 DEF Dead

LEMMA DrainsShape ==
  ASSUME NEW s, NEW t, NEW f, NEW x, Drains(s, t, f, x), Shape(s)
  PROVE  Shape(t)
<1>0. /\ Len(s) \in Nat \ {0} /\ Len(t) = Len(s) /\ f \in 1..Len(s)
      /\ \A p \in 1..Len(s) : p # Len(s) => t[p].phase = s[p].phase
      /\ \A p \in 1..Len(s) : t[p].kind = s[p].kind
      /\ \A p \in 1..Len(s) : s[p].kind \notin {"try", "unwind"} => t[p] = s[p]
      /\ \A p \in 1..Len(s) : s[p].phase = "drain" => t[p] = s[p]
  BY DrainsSame
<1>1. ASSUME NEW p \in 1..Len(s), p # Len(s) PROVE Sits(t, p)
  <2>1. ASSUME NEW o \in 1..p PROVE SameForm(s[o], t[o])
    <3>1. o \in 1..Len(s) /\ o # Len(s) BY <1>0, <1>1
    <3> QED BY <1>0, <3>1 DEF SameForm
  <2>2. Sits(s, p) /\ p \in Nat \ {0} BY DEF Shape
  <2> QED BY <2>1, <2>2, SitsKept
<1>2. Sits(t, Len(s))
  <2>1. Sits(s, Len(s)) BY <1>0 DEF Shape
  <2>2. /\ s[Len(s)].kind = "unwind" /\ t[Len(s)].kind = "unwind"
        /\ t[Len(s)].phase = "drain" /\ t[Len(s)].frame = f
        /\ f \in 1 .. Len(s) - 1 /\ t[f].kind = "try" /\ t[f].phase \in {"body", "arm"}
    BY DEF Drains
  <2>3. Len(s) > 1 => /\ t[Len(s) - 1].kind = s[Len(s) - 1].kind
                      /\ t[Len(s) - 1].phase = s[Len(s) - 1].phase
    BY <1>0
  <2> QED BY <2>1, <2>2, <2>3 DEF Sits
<1> QED BY <1>0, <1>1, <1>2 DEF Shape

LEMMA DrainsRest ==
  ASSUME NEW s, NEW t, NEW F, NEW A, NEW f \in F, NEW x, Drains(s, t, f, x), Shape(s),
         Tries(s, A), Frames(s, F), Targets(s, F, A), Arms(s, F, A),
         \A p \in F : p <= f, x \in F, x = s[Len(s)].target
  PROVE  Tries(t, A) /\ Frames(t, F) /\ Targets(t, F, A) /\ Arms(t, F, A)
<1>0. /\ Len(s) \in Nat \ {0} /\ Len(t) = Len(s) /\ f \in 1..Len(s) /\ f \in Nat /\ f # Len(s)
      /\ \A p \in 1..Len(s) : p # f /\ p # Len(s) => t[p] = s[p]
      /\ \A p \in 1..Len(s) : p # Len(s) =>
           /\ t[p].phase = s[p].phase /\ t[p].handle = s[p].handle /\ t[p].runs = s[p].runs
      /\ \A p \in 1..Len(s) : t[p].kind = s[p].kind
      /\ \A p \in 1..Len(s) : s[p].kind \notin {"try", "unwind"} => t[p] = s[p]
      /\ \A p \in 1..Len(s) : s[p].phase = "drain" => t[p] = s[p]
      /\ \A p \in Nat : Dead(t, p) <=> Dead(s, p) \/ (f < p /\ p < Len(s))
  BY DrainsSame
<1>1. /\ s[Len(s)].kind = "unwind" /\ s[Len(s)].phase = "transfer"
      /\ t[Len(s)].phase = "drain" /\ t[Len(s)].frame = f
      /\ s[f].kind = "try" /\ s[f].phase \in {"body", "arm"} /\ t[f].state = "unwind" /\ t[f].target = x
  BY DEF Drains
<1>2. \A p \in F : /\ p \in 1..Len(s) /\ p \in Nat /\ p # Len(s) /\ s[p].kind = "try" /\ ~ Dead(s, p)
                   /\ \A c \in 1 .. p - 1 : s[c].kind = "callback" => Dead(s, c)
  BY <1>0, <1>1 DEF Frames
<1>3. \A p \in 1..Len(s) : t[p].kind = "try" => /\ p # Len(s) /\ t[p].claimed = s[p].claimed
                                                /\ t[p].fin = s[p].fin
  <2> TAKE p \in 1..Len(s)
  <2>1. CASE p = f BY <1>0, <2>1 DEF Drains
  <2>2. CASE p # f BY <1>0, <1>1, <2>2
  <2> QED BY <2>1, <2>2
<1>4. Tries(t, A)
  <2> SUFFICES ASSUME NEW p \in 1..Len(t), t[p].kind = "try" PROVE TryOK(t[p], p \in A) BY DEF Tries
  <2>1. p \in 1..Len(s) /\ p # Len(s) /\ s[p].kind = "try" BY <1>0, <1>3
  <2>2. TryOK(s[p], p \in A) BY <2>1 DEF Tries
  <2> QED BY <1>0, <1>3, <2>1, <2>2 DEF TryOK
<1>5. Frames(t, F)
  <2>1. ASSUME NEW p \in F
        PROVE  /\ p \in 1..Len(t) /\ t[p].kind = "try" /\ ~ Dead(t, p)
               /\ \A c \in 1 .. p - 1 : t[c].kind = "callback" => Dead(t, c)
    <3>1. p \in 1..Len(s) /\ p \in Nat /\ ~ (f < p) BY <1>0, <1>2
    <3>2. ~ Dead(t, p) BY <1>0, <1>2, <3>1
    <3>3. \A c \in 1 .. p - 1 : c \in 1..Len(s) /\ c \in Nat BY <1>0, <3>1
    <3> QED BY <1>0, <1>2, <3>1, <3>2, <3>3
  <2>2. ASSUME NEW p \in 1..Len(t), t[p].kind = "try", p \notin F PROVE t[p].claimed /\ Dead(t, p)
    <3>1. p \in 1..Len(s) /\ p \in Nat /\ p # Len(s) /\ s[p].kind = "try" /\ t[p].claimed = s[p].claimed
      BY <1>0, <1>3, <2>2
    <3>2. s[p].claimed /\ (Dead(s, p) \/ \A g \in F : g < p) BY <2>2, <3>1 DEF Frames
    <3>3. p < Len(s) BY <1>0, <3>1
    <3> QED BY <1>0, <3>1, <3>2, <3>3
  <2>3. ASSUME NEW q \in 1..Len(t), t[q].phase = "drain", ~ Dead(t, q)
        PROVE  t[q].frame \in F /\ t[t[q].frame].state = "unwind"
    <3>1. q \in 1..Len(s) /\ q \in Nat BY <1>0
    <3>2. CASE q = Len(s) BY <1>1, <3>2
    <3>3. CASE q # Len(s)
      <4>1. s[q].phase = "drain" /\ t[q] = s[q] /\ ~ Dead(s, q) BY <1>0, <2>3, <3>1, <3>3
      <4>2. s[q].frame \in F /\ s[s[q].frame].state = "unwind" BY <3>1, <4>1 DEF Frames
      <4>3. CASE s[q].frame = f BY <1>1, <4>1, <4>2, <4>3
      <4>4. CASE s[q].frame # f BY <1>0, <1>2, <4>1, <4>2, <4>4
      <4> QED BY <4>3, <4>4
    <3> QED BY <3>2, <3>3
  <2> QED BY <2>1, <2>2, <2>3 DEF Frames
<1>6. \A u : Caught(s, F, A, u) => Caught(t, F, A, u) BY <1>0, <1>2 DEF Caught
<1>7. Caught(s, F, A, x) BY <1>1 DEF Targets
<1>8. ASSUME NEW p \in F, t[p].state = "unwind"
      PROVE  /\ t[p].target <= p /\ Caught(t, F, A, t[p].target)
             /\ t[p].target = p => t[p].phase \in {"body", "landed"}
             /\ t[p].phase \in {"body", "arm"} =>
                  \E q \in p + 1 .. Len(t) : t[q].phase = "drain" /\ t[q].frame = p
  <2>1. CASE p = f
    <3>1. x <= f /\ Caught(t, F, A, x) BY <1>6, <1>7
    <3>2. x = f => t[f].phase \in {"body", "landed"}
      <4>1. TryOK(s[f], f \in A) BY <1>0, <1>1 DEF Tries
      <4>2. t[f].phase = s[f].phase BY <1>0
      <4> QED BY <1>1, <1>7, <4>1, <4>2 DEF TryOK, Caught
    <3>3. Len(s) \in f + 1 .. Len(t) BY <1>0
    <3> QED BY <1>1, <2>1, <3>1, <3>2, <3>3
  <2>2. CASE p # f
    <3>1. t[p] = s[p] /\ p \in 1..Len(s) BY <1>0, <1>2, <2>2
    <3>2. /\ s[p].target <= p /\ Caught(s, F, A, s[p].target)
          /\ s[p].target = p => s[p].phase \in {"body", "landed"}
      BY <1>8, <3>1 DEF Targets
    <3>3. ASSUME t[p].phase \in {"body", "arm"}
          PROVE  \E q \in p + 1 .. Len(t) : t[q].phase = "drain" /\ t[q].frame = p
      <4>1. PICK q \in p + 1 .. Len(s) : s[q].phase = "drain" /\ s[q].frame = p
        BY <1>8, <3>1, <3>3 DEF Targets
      <4>2. q \in 1..Len(s) BY <1>0, <3>1, <4>1
      <4> QED BY <1>0, <4>1, <4>2
    <3> QED BY <1>6, <3>1, <3>2, <3>3
  <2> QED BY <2>1, <2>2
<1>9. Targets(t, F, A) BY <1>0, <1>1, <1>8 DEF Targets
<1>10. Arms(t, F, A) BY <1>0, <1>2 DEF Arms
<1> QED BY <1>4, <1>5, <1>9, <1>10

LEMMA DrainsChains ==
  ASSUME NEW s, NEW t, NEW F, NEW A, NEW f \in F, NEW x, NEW C, NEW fr, NEW cl, NEW full,
         Drains(s, t, f, x), Frames(s, F), Owes(s, C), Marks(s, F, fr, cl), Registers(s, full, F, A),
         Heads(s, full, F)
  PROVE  /\ Owes(t, C) /\ Marks(t, F, fr, cl) /\ Registers(t, full, F, A) /\ Heads(t, full, F)
<1>0. /\ Len(s) \in Nat \ {0} /\ Len(t) = Len(s) /\ f \in 1..Len(s) /\ f \in Nat /\ f # Len(s)
      /\ \A p \in 1..Len(s) : p # f /\ p # Len(s) => t[p] = s[p]
      /\ \A p \in 1..Len(s) : p # Len(s) =>
           /\ t[p].phase = s[p].phase /\ t[p].handle = s[p].handle /\ t[p].runs = s[p].runs
      /\ \A p \in 1..Len(s) : t[p].kind = s[p].kind
      /\ \A p \in 1..Len(s) : s[p].kind \notin {"try", "unwind"} => t[p] = s[p]
      /\ \A p \in Nat : Dead(t, p) <=> Dead(s, p) \/ (f < p /\ p < Len(s))
  BY DrainsSame
<1>1. \A p \in F : /\ p \in 1..Len(s) /\ p # Len(s) /\ t[p].prev = s[p].prev
                   /\ t[p].watermark = s[p].watermark /\ t[p].head = s[p].head
  <2> TAKE p \in F
  <2>1. p \in 1..Len(s) /\ s[p].kind = "try" BY DEF Frames
  <2>2. p # Len(s) BY <2>1 DEF Drains
  <2>3. CASE p = f BY <2>1, <2>2, <2>3 DEF Drains
  <2>4. CASE p # f BY <1>0, <2>1, <2>2, <2>4
  <2> QED BY <2>3, <2>4
<1>2. Owes(t, C)
  <2>1. \A p \in 1..Len(s) : Cleaner(t[p]) \/ Cleaner(s[p]) => t[p] = s[p] BY <1>0 DEF Cleaner
  <2>2. Owing(t) = Owing(s) BY <1>0, <2>1 DEF Owing
  <2>3. ASSUME NEW p \in 1..Len(t), Cleaner(t[p]), t[p].runs # 0
        PROVE  Dead(t, p) \/ (p < Len(t) /\ t[p].kind = "defer" /\ t[p + 1].kind = "thunk")
    <3>1. p \in 1..Len(s) /\ p \in Nat /\ t[p] = s[p] BY <1>0, <2>1, <2>3
    <3>2. Dead(s, p) \/ (p < Len(s) /\ s[p].kind = "defer" /\ s[p + 1].kind = "thunk")
      BY <2>3, <3>1 DEF Owes
    <3>3. p < Len(s) => p + 1 \in 1..Len(s) BY <1>0
    <3> QED BY <1>0, <3>1, <3>2, <3>3
  <2>4. ASSUME NEW p \in 2..Len(t), t[p].kind = "thunk", ~ t[p].drain PROVE t[p - 1].runs = 1
    <3>1. p \in 1..Len(s) /\ p - 1 \in 1..Len(s) /\ p - 1 # Len(s) /\ p \in 2..Len(s) BY <1>0
    <3>2. t[p] = s[p] BY <1>0, <2>4, <3>1
    <3>3. s[p - 1].runs = 1 BY <2>4, <3>1, <3>2 DEF Owes
    <3> QED BY <1>0, <3>1, <3>3
  <2> QED BY <2>2, <2>3, <2>4 DEF Owes
<1>3. Marks(t, F, fr, cl) BY <1>1 DEF Marks
<1>4. Registers(t, full, F, A)
  <2>0. s[Len(s)].kind = "unwind" /\ t[Len(s)].kind = "unwind" BY DEF Drains
  <2>1. Reg(t, A) = Reg(s, A) BY <1>0, <2>0 DEF Reg
  <2>2. \A p \in Reg(s, A) : p \in 1..Len(s) /\ t[p].kind = s[p].kind /\ t[p].handle = s[p].handle
    BY <1>0, <2>0 DEF Reg
  <2>3. \A i \in 1..Len(full) : full[i].kind = "catch" <=> t[full[i].at].kind = "try"
    <3> TAKE i \in 1..Len(full)
    <3>1. full[i].kind = "catch" <=> s[full[i].at].kind = "try" BY DEF Registers
    <3> QED BY <1>0, <2>2, <3>1 DEF Registers, Ids
  <2> QED BY <2>1, <2>2, <2>3 DEF Registers
<1>5. Heads(t, full, F)
  <2>1. \A p \in 1..Len(t) : t[p].kind = "thunk" /\ t[p].drain /\ ~ Dead(t, p) => CutAt(full, t[p].depth, p)
    <3> TAKE p \in 1..Len(t)
    <3> HAVE t[p].kind = "thunk" /\ t[p].drain /\ ~ Dead(t, p)
    <3>1. p \in 1..Len(s) /\ p \in Nat /\ t[p] = s[p] /\ ~ Dead(s, p) BY <1>0
    <3> QED BY <3>1 DEF Heads
  <2> QED BY <1>1, <2>1 DEF Heads
<1> QED BY <1>2, <1>3, <1>4, <1>5

LEMMA DrainsQuiet ==
  ASSUME NEW s, NEW t, NEW F, NEW f \in F, NEW x, NEW d \in Nat, NEW hs, Drains(s, t, f, x),
         Shape(s), Frames(s, F), \A p \in 1..Len(s) : s[p] \in Activation
  PROVE  Dispatches(t, <<>>, <<>>, hs) /\ Depths(t, d)
<1>0. /\ Len(s) \in Nat \ {0} /\ Len(t) = Len(s) /\ f \in 1..Len(s) /\ f \in Nat /\ f # Len(s)
      /\ \A p \in 1..Len(s) : t[p].kind = s[p].kind
      /\ \A p \in Nat : Dead(t, p) <=> Dead(s, p) \/ (f < p /\ p < Len(s))
  BY DrainsSame
<1>1. s[Len(s)].kind = "unwind" /\ s[f].kind = "try" /\ t[Len(s)].phase # "transfer"
      /\ t[Len(s)].kind = "unwind"
  BY DEF Drains
<1>2. ASSUME NEW c \in 1..Len(s), s[c].kind \in {"callback", "dispatch"} PROVE Dead(t, c)
  <2>1. c \in Nat /\ c # f /\ c # Len(s) BY <1>0, <1>1, <1>2
  <2>2. CASE c < f
    <3>1. c \in 1 .. f - 1 BY <1>0, <2>1, <2>2
    <3>2. CASE s[c].kind = "callback"
      <4>1. Dead(s, c) BY <3>1, <3>2 DEF Frames
      <4> QED BY <1>0, <2>1, <4>1
    <3>3. CASE s[c].kind = "dispatch"
      <4>1. Dead(s, c) BY <3>1, <3>3, DispatchDead
      <4> QED BY <1>0, <2>1, <4>1
    <3> QED BY <1>2, <3>2, <3>3
  <2>3. CASE ~ (c < f)
    <3>1. f < c /\ c < Len(s) BY <1>0, <2>1, <2>3
    <3> QED BY <1>0, <2>1, <3>1
  <2> QED BY <2>2, <2>3
<1>3. Dispatches(t, <<>>, <<>>, hs) BY <1>0, <1>1, <1>2 DEF Dispatches
<1>4. Active(t) = {} BY <1>0, <1>2 DEF Active
<1>5. Depths(t, d) BY <1>4, FS_EmptySet DEF Depths
<1> QED BY <1>3, <1>5

(* Where an unwind looks for a frame to land in *)
LEMMA Landing ==
  ASSUME Types, IInv, Transferring
  PROVE  /\ Now = stack[Top] /\ Now.kind = "unwind" /\ Now.phase = "transfer" /\ Now \in TransferType
         /\ Top \in Nat \ {0} /\ Top = Len(stack)
         /\ saved = <<>> /\ running = <<>> /\ UnwindHead = handlers
         /\ Now.target \in ToSet(frames) /\ frames # <<>>
         /\ Landable => /\ stack[Last(frames)].phase \in {"body", "arm"}
                        /\ Last(frames) \in 1 .. Top - 1
<1> DEFINE f == Last(frames)
<1>0. /\ Shape(stack) /\ Tries(stack, ToSet(arms)) /\ Frames(stack, ToSet(frames))
      /\ Targets(stack, ToSet(frames), ToSet(arms)) /\ Arms(stack, ToSet(frames), ToSet(arms))
      /\ Owes(stack, ToSet(cleanups)) /\ Marks(stack, ToSet(frames), frames, cleanups)
      /\ Registers(stack, UnwindHead, ToSet(frames), ToSet(arms))
      /\ Heads(stack, UnwindHead, ToSet(frames)) /\ Dispatches(stack, saved, running, handlers)
      /\ Depths(stack, depth) /\ Rising(UnwindHead) /\ Ascending(frames) /\ Ascending(cleanups)
      /\ Ascending(arms)
  BY DEF IInv
<1>1. /\ Now = stack[Top] /\ Top \in Nat \ {0} /\ Top = Len(stack) /\ Now \in Activation
  BY <1>0, Stacked
<1>2. Now.phase = "transfer" BY DEF Transferring
<1>3. Now.kind = "unwind" /\ Now \in TransferType BY <1>1, <1>2, KindOf
<1>4. saved = <<>> /\ running = <<>> /\ UnwindHead = handlers BY <1>3, Undispatched
<1>5. Now.target \in ToSet(frames) BY <1>0, <1>1, <1>2 DEF Targets, Caught
<1>6. frames # <<>> BY <1>5 DEF ToSet
<1>7. ASSUME Landable PROVE stack[f].phase \in {"body", "arm"} /\ f \in 1 .. Top - 1
  <2>1. ~ stack[f].claimed BY <1>7 DEF Landable
  <2>2. f \in ToSet(frames) BY <1>6, PrevIsFront
  <2>3. f \in 1..Top /\ stack[f] \in TryType /\ TryOK(stack[f], f \in ToSet(arms)) BY <2>2, FrameIs
  <2>4. stack[f].kind = "try" BY <2>3 DEF TryType
  <2>5. f # Top BY <1>1, <1>3, <2>4
  <2>6. f \in 1 .. Top - 1 /\ f + 1 \in 1..Top /\ f + 1 > 1 /\ (f + 1) - 1 = f BY <1>1, <2>3, <2>5
  <2>7. Sits(stack, f + 1) BY <1>0, <1>1, <2>6 DEF Shape
  <2>8. stack[f].phase \in {"body", "arm", "finally", "offer", "drain"} BY <2>6, <2>7 DEF Sits
  <2>9. stack[f].phase \in {"body", "landed", "arm", "exits", "finally", "leave"} BY <2>3 DEF TryType
  <2>10. stack[f].phase # "finally" BY <2>1, <2>3 DEF TryOK
  <2> QED BY <2>6, <2>8, <2>9, <2>10
<1> QED BY <1>1, <1>2, <1>3, <1>4, <1>5, <1>6, <1>7

LEMMA UnwindStep ==
  ASSUME Types, IInv, Unwind
  PROVE  Types' /\ IInv'
<1> DEFINE F == ToSet(frames)
           A == ToSet(arms)
           f == Last(frames)
           x == Now.target
           b == [stack[f] EXCEPT !.state = "unwind", !.target = x]
           a == [kind |-> "unwind", phase |-> "drain", frame |-> f, height |-> errs]
<1>0. /\ Shape(stack) /\ Tries(stack, ToSet(arms)) /\ Frames(stack, ToSet(frames))
      /\ Targets(stack, ToSet(frames), ToSet(arms)) /\ Arms(stack, ToSet(frames), ToSet(arms))
      /\ Owes(stack, ToSet(cleanups)) /\ Marks(stack, ToSet(frames), frames, cleanups)
      /\ Registers(stack, UnwindHead, ToSet(frames), ToSet(arms))
      /\ Heads(stack, UnwindHead, ToSet(frames)) /\ Dispatches(stack, saved, running, handlers)
      /\ Depths(stack, depth) /\ Rising(UnwindHead) /\ Ascending(frames) /\ Ascending(cleanups)
      /\ Ascending(arms)
  BY DEF IInv
<1>4. /\ handlers \in Chain /\ errs \in 0..ERROR_BOUND /\ frames \in Path /\ cleanups \in Path
      /\ depth \in 0..ERROR_MAX_DEPTH /\ arms \in Path /\ saved \in Chain /\ running \in Chain
  BY DEF Types
<1>1. Transferring BY DEF Unwind
<1>2. /\ Now = stack[Top] /\ Now.kind = "unwind" /\ Now.phase = "transfer" /\ Now \in TransferType
      /\ Top \in Nat \ {0} /\ Top = Len(stack)
      /\ saved = <<>> /\ running = <<>> /\ UnwindHead = handlers
      /\ x \in F /\ frames # <<>>
  BY <1>1, Landing
<1>3. Landable BY <1>2 DEF Unwind
<1>5. stack[f].phase \in {"body", "arm"} /\ f \in 1 .. Top - 1 BY <1>1, <1>3, Landing
<1>6. f \in F /\ \A g \in F : g <= f BY <1>2, PrevIsFront
<1>7. f \in 1..Top /\ stack[f] \in TryType /\ f # Top /\ f \in Nat BY <1>2, <1>5, <1>6, FrameIs
<1>8. /\ stack' = [stack EXCEPT ![f].state = "unwind", ![f].target = x, ![Top] = a]
      /\ handlers' = handlers /\ saved' = saved /\ running' = running /\ arms' = arms
      /\ cleanups' = cleanups /\ frames' = frames /\ errs' = errs /\ depth' = depth
  BY <1>2 DEF Unwind, chains
<1>9. x \in Nat BY <1>2 DEF TransferType
<1>10. /\ b \in TryType /\ b.state = "unwind" /\ b.target = x
       /\ b.kind = stack[f].kind /\ b.phase = stack[f].phase /\ b.handle = stack[f].handle
       /\ b.fin = stack[f].fin /\ b.claimed = stack[f].claimed /\ b.runs = stack[f].runs
       /\ b.prev = stack[f].prev /\ b.watermark = stack[f].watermark /\ b.head = stack[f].head
  BY <1>7, <1>9 DEF TryType
<1>11. a \in DrainType /\ a.kind = "unwind" /\ a.phase = "drain" /\ a.frame = f
  BY <1>4, <1>7 DEF DrainType
<1>12. stack \in Seq(Activation) /\ DOMAIN stack = 1..Top /\ \A p \in 1..Len(stack) : stack[p] \in Activation
  BY <1>0, <1>2, Stacked DEF Types
<1>13. stack' = [stack EXCEPT ![f] = b, ![Top] = a] BY <1>7, <1>8, <1>12
<1>14. b \in Activation /\ a \in Activation BY <1>10, <1>11 DEF Activation
<1> HIDE DEF a, b, f, x
<1>15. /\ stack' \in Seq(Activation) /\ Len(stack') = Len(stack) /\ stack'[f] = b /\ stack'[Top] = a
       /\ \A p \in 1..Top : p # f /\ p # Top => stack'[p] = stack[p]
  BY <1>2, <1>7, <1>12, <1>13, <1>14
<1>16. Drains(stack, stack', f, x)
  <2>1. stack[f].kind = "try" BY <1>7 DEF TryType
  <2>2. \A p \in 1 .. Top - 1 : p \in 1..Top /\ p # Top BY <1>2
  <2> QED BY <1>2, <1>5, <1>10, <1>11, <1>15, <2>1, <2>2 DEF Drains, f
<1>17. Types' BY <1>4, <1>8, <1>15 DEF Types
<1>18. UnwindHead' = UnwindHead BY <1>8 DEF UnwindHead
<1>19. Shape(stack') BY <1>0, <1>16, DrainsShape
<1>20. x = stack[Len(stack)].target BY <1>2 DEF x
<1>21. Tries(stack', A) /\ Frames(stack', F) /\ Targets(stack', F, A) /\ Arms(stack', F, A)
  BY <1>0, <1>2, <1>6, <1>16, <1>20, DrainsRest
<1>22. /\ Owes(stack', ToSet(cleanups)) /\ Marks(stack', F, frames, cleanups)
       /\ Registers(stack', UnwindHead, F, A) /\ Heads(stack', UnwindHead, F)
  BY <1>0, <1>6, <1>16, DrainsChains
<1>23. Dispatches(stack', <<>>, <<>>, handlers) /\ Depths(stack', depth)
  BY <1>0, <1>6, <1>12, <1>16, Sizes, DrainsQuiet
<1> QED BY <1>0, <1>2, <1>8, <1>17, <1>18, <1>19, <1>21, <1>22, <1>23 DEF IInv
-----------------------------------------------------------------------------
(* The cleanup of the region at c runs. *)

Runs(s, t, c) ==
  /\ Len(s) \in Nat \ {0} /\ Len(t) = Len(s) /\ c \in 1..Len(s)
  /\ \A p \in 1..Len(s) : p # c => t[p] = s[p]
  /\ Cleaner(s[c]) /\ s[c].phase = "body" /\ s[c].runs = 0
  /\ t[c].kind = s[c].kind /\ t[c].phase = "body" /\ t[c].runs = 1
  /\ s[c].kind = "watch" => t[c].handle = s[c].handle

LEMMA RunsSame ==
  ASSUME NEW s, NEW t, NEW c, Runs(s, t, c)
  PROVE  /\ Len(s) \in Nat \ {0} /\ Len(t) = Len(s) /\ c \in 1..Len(s)
         /\ \A p \in 1..Len(s) : p # c => t[p] = s[p]
         /\ \A p \in 1..Len(s) : t[p].kind = s[p].kind /\ t[p].phase = s[p].phase
         /\ \A p \in 1..Len(s) : ~ Cleaner(s[p]) => t[p] = s[p] /\ p # c
         /\ \A p \in 1..Len(s) : s[p].phase = "drain" => t[p] = s[p]
         /\ \A p \in Nat : Dead(s, p) <=> Dead(t, p)
<1>1. /\ Len(s) \in Nat \ {0} /\ Len(t) = Len(s) /\ c \in 1..Len(s)
      /\ \A p \in 1..Len(s) : p # c => t[p] = s[p]
      /\ Cleaner(s[c]) /\ s[c].phase = "body" /\ t[c].kind = s[c].kind /\ t[c].phase = "body"
  BY DEF Runs
<1>2. \A p \in 1..Len(s) : t[p].kind = s[p].kind /\ t[p].phase = s[p].phase
  <2> TAKE p \in 1..Len(s)
  <2>1. CASE p = c BY <1>1, <2>1
  <2>2. CASE p # c BY <1>1, <2>2
  <2> QED BY <2>1, <2>2
<1>3. \A p \in 1..Len(s) : ~ Cleaner(s[p]) => t[p] = s[p] /\ p # c BY <1>1
<1>4. \A p \in 1..Len(s) : s[p].phase = "drain" => t[p] = s[p] BY <1>1
<1>5. \A p \in Nat : Dead(s, p) <=> Dead(t, p)
  <2>1. \A q \in 1..Len(s) : s[q].phase = "drain" =>
          q \in 1..Len(t) /\ t[q].phase = "drain" /\ t[q].frame = s[q].frame
    BY <1>1, <1>4
  <2>2. \A q \in 1..Len(t) : t[q].phase = "drain" => q \in 1..Len(s) /\ s[q].phase = "drain"
    BY <1>1, <1>2
  <2> QED BY <1>1, <2>1, <2>2, DeadKept
<1> QED BY <1>1, <1>2, <1>3, <1>4, <1>5

LEMMA RunsRest ==
  ASSUME NEW s, NEW t, NEW c, NEW F, NEW A, Runs(s, t, c), Shape(s),
         Tries(s, A), Frames(s, F), Targets(s, F, A), Arms(s, F, A)
  PROVE  /\ Shape(t) /\ Tries(t, A) /\ Frames(t, F) /\ Targets(t, F, A) /\ Arms(t, F, A)
         /\ \A p \in F : t[p] = s[p]
<1>0. /\ Len(s) \in Nat \ {0} /\ Len(t) = Len(s) /\ c \in 1..Len(s)
      /\ \A p \in 1..Len(s) : t[p].kind = s[p].kind /\ t[p].phase = s[p].phase
      /\ \A p \in 1..Len(s) : ~ Cleaner(s[p]) => t[p] = s[p] /\ p # c
      /\ \A p \in 1..Len(s) : s[p].phase = "drain" => t[p] = s[p]
      /\ \A p \in Nat : Dead(s, p) <=> Dead(t, p)
  BY RunsSame
<1>1. \A p \in 1..Len(s) : s[p].kind \in {"try", "thunk", "unwind"} => t[p] = s[p] BY <1>0 DEF Cleaner
<1>2. \A p \in F : p \in 1..Len(s) /\ t[p] = s[p] /\ s[p].kind = "try" BY <1>1 DEF Frames
<1>3. Shape(t)
  <2>1. ASSUME NEW p \in 1..Len(s) PROVE Sits(t, p)
    <3>1. ASSUME NEW o \in 1..p PROVE SameForm(s[o], t[o])
      <4>1. o \in 1..Len(s) BY <1>0
      <4> QED BY <1>0, <1>1, <4>1 DEF SameForm
    <3>2. Sits(s, p) /\ p \in Nat \ {0} BY DEF Shape
    <3> QED BY <3>1, <3>2, SitsKept
  <2> QED BY <1>0, <2>1 DEF Shape
<1>4. Tries(t, A) BY <1>0, <1>1 DEF Tries
<1>5. Frames(t, F)
  <2>1. ASSUME NEW p \in F
        PROVE  /\ p \in 1..Len(t) /\ t[p].kind = "try" /\ ~ Dead(t, p)
               /\ \A o \in 1 .. p - 1 : t[o].kind = "callback" => Dead(t, o)
    <3>1. /\ p \in 1..Len(s) /\ s[p].kind = "try" /\ ~ Dead(s, p)
          /\ \A o \in 1 .. p - 1 : s[o].kind = "callback" => Dead(s, o)
      BY DEF Frames
    <3>2. \A o \in 1 .. p - 1 : o \in 1..Len(s) BY <1>0, <3>1
    <3> QED BY <1>0, <3>1, <3>2
  <2>2. ASSUME NEW p \in 1..Len(t), t[p].kind = "try", p \notin F
        PROVE /\ t[p].claimed
              /\ Dead(t, p) \/ (t[Len(t)].phase = "transfer" /\ \A f \in F : f < p)
    <3>1. p \in 1..Len(s) /\ s[p].kind = "try" /\ t[p] = s[p] /\ Len(s) \in 1..Len(s) BY <1>0, <1>1, <2>2
    <3>2. /\ s[p].claimed
          /\ Dead(s, p) \/ (s[Len(s)].phase = "transfer" /\ \A f \in F : f < p)
      BY <2>2, <3>1 DEF Frames
    <3> QED BY <1>0, <3>1, <3>2
  <2>3. ASSUME NEW q \in 1..Len(t), t[q].phase = "drain", ~ Dead(t, q)
        PROVE  t[q].frame \in F /\ t[t[q].frame].state = "unwind"
    <3>1. q \in 1..Len(s) /\ t[q] = s[q] /\ ~ Dead(s, q) BY <1>0, <2>3
    <3>2. s[q].frame \in F /\ s[s[q].frame].state = "unwind" BY <2>3, <3>1 DEF Frames
    <3> QED BY <1>2, <3>1, <3>2
  <2> QED BY <2>1, <2>2, <2>3 DEF Frames
<1>6. \A u : Caught(s, F, A, u) => Caught(t, F, A, u) BY <1>2 DEF Caught
<1>7. ASSUME NEW p \in F, t[p].state = "unwind"
      PROVE  /\ t[p].target <= p /\ Caught(t, F, A, t[p].target)
             /\ t[p].target = p => t[p].phase \in {"body", "landed"}
             /\ t[p].phase \in {"body", "arm"} =>
                  \E q \in p + 1 .. Len(t) : t[q].phase = "drain" /\ t[q].frame = p
  <2>1. t[p] = s[p] /\ p \in 1..Len(s) BY <1>2
  <2>2. /\ s[p].target <= p /\ Caught(s, F, A, s[p].target)
        /\ s[p].target = p => s[p].phase \in {"body", "landed"}
    BY <1>7, <2>1 DEF Targets
  <2>3. ASSUME t[p].phase \in {"body", "arm"}
        PROVE  \E q \in p + 1 .. Len(t) : t[q].phase = "drain" /\ t[q].frame = p
    <3>1. PICK q \in p + 1 .. Len(s) : s[q].phase = "drain" /\ s[q].frame = p
      BY <1>7, <2>1, <2>3 DEF Targets
    <3>2. q \in 1..Len(s) BY <1>0, <2>1, <3>1
    <3> QED BY <1>0, <3>1, <3>2
  <2> QED BY <1>6, <2>1, <2>2, <2>3
<1>8. Targets(t, F, A)
  <2>1. t[Len(t)].phase = "transfer" => Caught(t, F, A, t[Len(t)].target)
    <3> HAVE t[Len(t)].phase = "transfer"
    <3>1. Len(s) \in 1..Len(s) /\ Len(t) = Len(s) BY <1>0
    <3>2. s[Len(s)].phase = "transfer" BY <1>0, <3>1
    <3>3. s[c].phase = "body" /\ \A p \in 1..Len(s) : p # c => t[p] = s[p] BY DEF Runs
    <3>4. t[Len(s)] = s[Len(s)] BY <3>1, <3>2, <3>3
    <3>5. Caught(s, F, A, s[Len(s)].target) BY <3>2 DEF Targets
    <3> QED BY <1>6, <3>1, <3>4, <3>5
  <2> QED BY <1>7, <2>1 DEF Targets
<1>9. Arms(t, F, A) BY <1>2 DEF Arms
<1> QED BY <1>2, <1>3, <1>4, <1>5, <1>8, <1>9

LEMMA RunsOwing ==
  ASSUME NEW s, NEW t, NEW c, NEW C, Runs(s, t, c), Owes(s, C)
  PROVE  Owing(t) = C \ {c}
<1>0. /\ Len(s) \in Nat \ {0} /\ Len(t) = Len(s) /\ c \in 1..Len(s)
      /\ \A p \in 1..Len(s) : p # c => t[p] = s[p]
      /\ \A p \in 1..Len(s) : t[p].kind = s[p].kind
      /\ \A p \in 1..Len(s) : ~ Cleaner(s[p]) => t[p] = s[p] /\ p # c
      /\ \A p \in Nat : Dead(s, p) <=> Dead(t, p)
  BY RunsSame
<1>1. t[c].runs = 1 BY DEF Runs
<1>2. Owing(t) = C \ {c}
  <2>1. ASSUME NEW p \in 1..Len(s) PROVE p \in Owing(t) <=> p \in C /\ p # c
    <3>1. p \in C <=> Cleaner(s[p]) /\ s[p].runs = 0 BY DEF Owes, Owing
    <3>2. p \in Owing(t) <=> Cleaner(t[p]) /\ t[p].runs = 0 BY <1>0 DEF Owing
    <3>3. CASE p = c BY <1>1, <3>2, <3>3
    <3>4. CASE p # c
      <4>1. t[p] = s[p] BY <1>0, <3>4
      <4> QED BY <3>1, <3>2, <3>4, <4>1
    <3> QED BY <3>3, <3>4
  <2>2. Owing(t) \subseteq 1..Len(s) /\ C \subseteq 1..Len(s) BY <1>0 DEF Owing, Owes
  <2> QED BY <2>1, <2>2
<1> QED BY <1>2

LEMMA RunsPaid ==
  ASSUME NEW s, NEW t, NEW c, NEW C, Runs(s, t, c), Owes(s, C)
  PROVE  \A p \in 1..Len(t) : Cleaner(t[p]) /\ t[p].runs # 0 /\ p # c =>
           Dead(t, p) \/ (p < Len(t) /\ t[p].kind = "defer" /\ t[p + 1].kind = "thunk")
<1>0. /\ Len(s) \in Nat \ {0} /\ Len(t) = Len(s) /\ c \in 1..Len(s)
      /\ \A p \in 1..Len(s) : p # c => t[p] = s[p]
      /\ \A p \in 1..Len(s) : t[p].kind = s[p].kind
      /\ \A p \in 1..Len(s) : ~ Cleaner(s[p]) => t[p] = s[p] /\ p # c
      /\ \A p \in Nat : Dead(s, p) <=> Dead(t, p)
  BY RunsSame
<1>3. ASSUME NEW p \in 1..Len(t), Cleaner(t[p]), t[p].runs # 0, p # c
      PROVE  Dead(t, p) \/ (p < Len(t) /\ t[p].kind = "defer" /\ t[p + 1].kind = "thunk")
  <2>1. p \in 1..Len(s) /\ t[p] = s[p] /\ p \in Nat BY <1>0, <1>3
  <2>2. Dead(s, p) \/ (p < Len(s) /\ s[p].kind = "defer" /\ s[p + 1].kind = "thunk")
    BY <1>3, <2>1 DEF Owes
  <2>3. p < Len(s) => p + 1 \in 1..Len(s) BY <1>0
  <2> QED BY <1>0, <2>1, <2>2, <2>3
<1> QED BY <1>3

LEMMA RunsThunks ==
  ASSUME NEW s, NEW t, NEW c, NEW C, Runs(s, t, c), Owes(s, C)
  PROVE  \A p \in 2..Len(t) : t[p].kind = "thunk" /\ ~ t[p].drain => t[p - 1].runs = 1
<1>0. /\ Len(s) \in Nat \ {0} /\ Len(t) = Len(s) /\ c \in 1..Len(s)
      /\ \A p \in 1..Len(s) : p # c => t[p] = s[p]
      /\ \A p \in 1..Len(s) : t[p].kind = s[p].kind
      /\ \A p \in 1..Len(s) : ~ Cleaner(s[p]) => t[p] = s[p] /\ p # c
      /\ \A p \in Nat : Dead(s, p) <=> Dead(t, p)
  BY RunsSame
<1>1. t[c].runs = 1 BY DEF Runs
<1>4. ASSUME NEW p \in 2..Len(t), t[p].kind = "thunk", ~ t[p].drain PROVE t[p - 1].runs = 1
  <2>1. p \in 1..Len(s) /\ p - 1 \in 1..Len(s) /\ p \in 2..Len(s) BY <1>0
  <2>2. CASE p - 1 = c BY <1>1, <2>2
  <2>3. CASE p - 1 # c
    <3>1. s[p].kind = "thunk" BY <1>0, <1>4, <2>1
    <3>2. t[p] = s[p] BY <1>0, <2>1, <3>1 DEF Cleaner
    <3>3. s[p - 1].runs = 1 BY <1>4, <2>1, <3>2 DEF Owes
    <3> QED BY <1>0, <2>1, <2>3, <3>3
  <2> QED BY <2>2, <2>3
<1> QED BY <1>4

LEMMA RunsOwes ==
  ASSUME NEW s, NEW t, NEW c, NEW C, Runs(s, t, c), Owes(s, C), Dead(s, c)
  PROVE  Owes(t, C \ {c})
<1>0. Dead(t, c)
  <2>1. c \in 1..Len(s) /\ (\A p \in Nat : Dead(s, p) <=> Dead(t, p)) BY RunsSame
  <2> QED BY <2>1
<1>1. Owing(t) = C \ {c} BY RunsOwing
<1>2. \A p \in 1..Len(t) : Cleaner(t[p]) /\ t[p].runs # 0 /\ p # c =>
        Dead(t, p) \/ (p < Len(t) /\ t[p].kind = "defer" /\ t[p + 1].kind = "thunk")
  BY RunsPaid
<1>3. \A p \in 2..Len(t) : t[p].kind = "thunk" /\ ~ t[p].drain => t[p - 1].runs = 1 BY RunsThunks
<1> QED BY <1>0, <1>1, <1>2, <1>3 DEF Owes

LEMMA RunsChains ==
  ASSUME NEW s, NEW t, NEW c, NEW F, NEW A, NEW fr \in Path, NEW cl \in Path, NEW full \in Chain, NEW ext,
         Runs(s, t, c), Frames(s, F), Marks(s, F, fr, cl), Registers(s, full, F, A), Heads(s, full, F),
         Rising(full), cl # <<>>, Last(cl) = c, \A p \in F : ~ (c < p),
         \A p \in 1..Len(s) : s[p].kind = "thunk" /\ s[p].drain /\ ~ Dead(s, p) => ~ (c < p),
         \A p \in Reg(s, A) : Len(s[p].handle) \in Nat,
         IF s[c].kind = "watch" THEN full # <<>> /\ ext = Front(full) /\ Last(full).at = c ELSE ext = full
  PROVE  Marks(t, F, fr, Front(cl)) /\ Registers(t, ext, F, A) /\ Heads(t, ext, F)
<1>0. /\ Len(s) \in Nat \ {0} /\ Len(t) = Len(s) /\ c \in 1..Len(s)
      /\ \A p \in 1..Len(s) : p # c => t[p] = s[p]
      /\ \A p \in 1..Len(s) : t[p].kind = s[p].kind /\ t[p].phase = s[p].phase
      /\ \A p \in 1..Len(s) : ~ Cleaner(s[p]) => t[p] = s[p] /\ p # c
      /\ \A p \in Nat : Dead(s, p) <=> Dead(t, p)
  BY RunsSame
<1>1. c \in Nat BY <1>0
<1>2. KeepsFrames(s, t, F)
  <2>1. \A p \in F : p \in 1..Len(s) /\ s[p].kind = "try" BY DEF Frames
  <2>2. \A p \in F : p \in Nat /\ t[p] = s[p] BY <1>0, <2>1 DEF Cleaner
  <2> QED BY <2>2 DEF KeepsFrames
<1>3. Shrinks(cl, Front(cl), c) BY DEF Shrinks
<1>4. ShrinksAt(full, ext, c) BY DEF ShrinksAt
<1>5. Marks(t, F, fr, Front(cl)) BY <1>1, <1>2, <1>3, ShrinkMarks
<1>6. Registers(t, ext, F, A)
  <2>1. t[c].runs = 1 /\ s[c].runs = 0 /\ (s[c].kind = "watch" => t[c].handle = s[c].handle) /\ Cleaner(s[c])
    BY DEF Runs
  <2>2. \A p \in 1..Len(s) : p # c => (p \in Reg(t, A) <=> p \in Reg(s, A)) BY <1>0 DEF Reg
  <2>3. c \notin Reg(t, A) BY <1>0, <2>1 DEF Reg, Cleaner
  <2>4. c \in Reg(s, A) <=> s[c].kind = "watch" BY <1>0, <2>1 DEF Reg, Cleaner
  <2>5. Reg(t, A) \subseteq 1..Len(s) /\ Reg(s, A) \subseteq 1..Len(s) BY <1>0 DEF Reg
  <2>6. Reg(t, A) = Reg(s, A) \ {c} BY <2>2, <2>3, <2>5
  <2>7. s[c].kind # "watch" => Reg(t, A) = Reg(s, A) BY <2>4, <2>6
  <2>8. s[c].kind = "watch" => ext # full
    <3>1. ASSUME s[c].kind = "watch" PROVE ext # full
      <4>1. Len(ext) = Len(full) - 1 /\ Len(full) \in Nat BY <3>1, FrontFacts DEF Chain
      <4> QED BY <4>1
    <3> QED BY <3>1
  <2>9. /\ ext = full => Reg(t, A) = Reg(s, A)
        /\ ext # full => Reg(t, A) = Reg(s, A) \ {c}
    BY <2>6, <2>7, <2>8
  <2>10. \A p \in Reg(t, A) : /\ t[p].kind = s[p].kind /\ t[p].handle = s[p].handle
                              /\ Len(s[p].handle) \in Nat
    <3> TAKE p \in Reg(t, A)
    <3>1. p \in Reg(s, A) /\ p # c /\ p \in 1..Len(s) BY <2>5, <2>6
    <3> QED BY <1>0, <3>1
  <2>11. F \cap Reg(t, A) \subseteq F OBVIOUS
  <2> QED BY <1>1, <1>4, <2>9, <2>10, <2>11, ShrinkRegisters
<1>7. Heads(t, ext, F)
  <2>1. ASSUME NEW p \in 1..Len(t), t[p].kind = "thunk", t[p].drain, ~ Dead(t, p)
        PROVE  /\ p \in 1..Len(s) /\ s[p].kind = "thunk" /\ s[p].drain /\ ~ Dead(s, p)
               /\ t[p].depth = s[p].depth /\ ~ (c < p)
    <3>1. p \in 1..Len(s) /\ p \in Nat /\ s[p].kind = "thunk" BY <1>0, <2>1
    <3>2. t[p] = s[p] BY <1>0, <3>1 DEF Cleaner
    <3> QED BY <1>0, <2>1, <3>1, <3>2
  <2>2. Len(t) \in Nat BY <1>0
  <2> QED BY <1>1, <1>2, <1>4, <2>1, <2>2, ShrinkHeads
<1> QED BY <1>5, <1>6, <1>7

LEMMA RunsDispatches ==
  ASSUME NEW s, NEW t, NEW c, NEW sv, NEW rn, NEW hs, NEW dp, Runs(s, t, c), Shape(s),
         Dispatches(s, sv, rn, hs), Depths(s, dp)
  PROVE  /\ Dispatches(t, sv, rn, hs) /\ Depths(t, dp)
<1>0. /\ Len(s) \in Nat \ {0} /\ Len(t) = Len(s) /\ c \in 1..Len(s)
      /\ \A p \in 1..Len(s) : t[p].kind = s[p].kind /\ t[p].phase = s[p].phase
      /\ \A p \in 1..Len(s) : ~ Cleaner(s[p]) => t[p] = s[p]
      /\ \A p \in Nat : Dead(s, p) <=> Dead(t, p)
  BY RunsSame
<1>1. \A p \in 1..Len(s) : s[p].kind \in {"dispatch", "thunk"} => t[p] = s[p] BY <1>0 DEF Cleaner
<1>2. \A p \in 1..Len(s) : s[p].kind = "callback" => p - 1 \in 1..Len(s) /\ t[p - 1] = s[p - 1]
  <2> TAKE p \in 1..Len(s)
  <2> HAVE s[p].kind = "callback"
  <2>1. Sits(s, p) BY DEF Shape
  <2>2. p > 1 /\ p - 1 \in 1..Len(s) BY <1>0, <2>1 DEF Sits
  <2>3. s[p - 1].kind = "dispatch" BY <2>1, <2>2 DEF Sits
  <2> QED BY <1>1, <2>2, <2>3
<1>3. Len(s) \in 1..Len(s) BY <1>0
<1>4. Depths(t, dp)
  <2>1. Active(t) = Active(s) BY <1>0 DEF Active
  <2> QED BY <1>0, <1>3, <2>1 DEF Depths
<1>5. ASSUME NEW d, Dispatching(s, d, sv, rn, hs) PROVE Dispatching(t, d, sv, rn, hs)
  <2>0. d \in 1..Len(s) /\ d \in Nat BY <1>0, <1>5 DEF Dispatching
  <2>i. ASSUME NEW e \in Nat, NEW o, Inner(s, o, e), e <= Len(s) + 1 PROVE Inner(t, o, e)
    <3>1. o \in 1 .. e - 1 /\ s[o].kind = "callback" /\ \A x \in o + 1 .. e - 1 : s[x].kind # "callback"
      BY <2>i DEF Inner
    <3>2. o \in 1..Len(s) /\ \A x \in o + 1 .. e - 1 : x \in 1..Len(s) BY <1>0, <2>i, <3>1
    <3> QED BY <1>0, <3>1, <3>2 DEF Inner
  <2>1. /\ d \in 1..Len(t) /\ t[d].kind = "dispatch"
        /\ t[d].outer = <<>> /\ t[d].outerRunning = <<>> /\ t[d].chain = sv
    BY <1>0, <1>1, <1>5, <2>0 DEF Dispatching
  <2>2. \A x \in 1 .. d - 1 : t[x].kind = "callback" => Dead(t, x)
    <3> TAKE x \in 1 .. d - 1
    <3>1. x \in 1..Len(s) /\ x \in Nat BY <1>0, <2>0
    <3> QED BY <1>0, <1>5, <3>1 DEF Dispatching
  <2>3. \A p \in d + 1 .. Len(t) : /\ t[p].kind \in {"dispatch", "callback", "defer", "thunk"}
                                   /\ t[p].kind = "thunk" => ~ t[p].drain
                                   /\ t[p].kind = "callback" => t[p - 1].offer # <<>>
    <3> TAKE p \in d + 1 .. Len(t)
    <3>1. p \in 1..Len(s) /\ p \in d + 1 .. Len(s) BY <1>0, <2>0
    <3>2. /\ s[p].kind \in {"dispatch", "callback", "defer", "thunk"}
          /\ s[p].kind = "thunk" => ~ s[p].drain
          /\ s[p].kind = "callback" => s[p - 1].offer # <<>>
      BY <1>5, <3>1 DEF Dispatching
    <3> QED BY <1>0, <1>1, <1>2, <3>1, <3>2
  <2>4. \A e \in d .. Len(t) : t[e].kind = "dispatch" => Pre(t[e].offer, sv)
    <3> TAKE e \in d .. Len(t)
    <3>1. e \in 1..Len(s) /\ e \in d .. Len(s) BY <1>0, <2>0
    <3> QED BY <1>0, <1>1, <1>5, <3>1 DEF Dispatching
  <2>5. ASSUME NEW e \in d + 1 .. Len(t), t[e].kind = "dispatch"
        PROVE  /\ t[e].outer = sv
               /\ \E o \in d + 1 .. e - 1 : /\ Inner(t, o, e) /\ t[e].outerRunning = t[o - 1].offer
                                            /\ t[e].chain = Front(t[o - 1].offer)
    <3>1. e \in 1..Len(s) /\ e \in d + 1 .. Len(s) /\ e \in Nat /\ e <= Len(s) + 1 BY <1>0, <2>0
    <3>2. s[e].kind = "dispatch" /\ t[e] = s[e] BY <1>0, <1>1, <2>5, <3>1
    <3>3. s[e].outer = sv BY <1>5, <3>1, <3>2 DEF Dispatching
    <3>4. PICK o \in d + 1 .. e - 1 : /\ Inner(s, o, e) /\ s[e].outerRunning = s[o - 1].offer
                                      /\ s[e].chain = Front(s[o - 1].offer)
      BY <1>5, <3>1, <3>2 DEF Dispatching
    <3>5. Inner(t, o, e) BY <2>i, <3>1, <3>4
    <3>6. o \in 1..Len(s) /\ s[o].kind = "callback" BY <1>0, <2>0, <3>1, <3>4 DEF Inner
    <3>7. t[o - 1] = s[o - 1] BY <1>2, <3>6
    <3> QED BY <3>2, <3>3, <3>4, <3>5, <3>7
  <2>6. ASSUME t[Len(t)].kind # "dispatch"
        PROVE  \E o \in d + 1 .. Len(t) : Inner(t, o, Len(t) + 1) /\ rn = t[o - 1].offer /\ hs = Front(rn)
    <3>1. s[Len(s)].kind # "dispatch" BY <1>0, <1>3, <2>6
    <3>2. PICK o \in d + 1 .. Len(s) : Inner(s, o, Len(s) + 1) /\ rn = s[o - 1].offer /\ hs = Front(rn)
      BY <1>5, <3>1 DEF Dispatching
    <3>3. Len(s) + 1 \in Nat /\ Len(s) + 1 <= Len(s) + 1 BY <1>0
    <3>4. Inner(t, o, Len(s) + 1) BY <2>i, <3>2, <3>3
    <3>5. o \in 1..Len(s) /\ s[o].kind = "callback" BY <1>0, <2>0, <3>2 DEF Inner
    <3> QED BY <1>0, <1>2, <3>2, <3>4, <3>5
  <2> QED BY <2>1, <2>2, <2>3, <2>4, <2>5, <2>6 DEF Dispatching
<1>6. sv # <<>> => /\ Pre(hs, sv) /\ Pre(rn, sv)
                   /\ \E d \in 1..Len(t) : Dispatching(t, d, sv, rn, hs)
  <2> HAVE sv # <<>>
  <2>1. /\ Pre(hs, sv) /\ Pre(rn, sv)
        /\ \E d \in 1..Len(s) : Dispatching(s, d, sv, rn, hs)
    BY DEF Dispatches
  <2> QED BY <1>0, <1>5, <2>1
<1>7. sv = <<>> => /\ rn = <<>>
                   /\ t[Len(t)].phase # "transfer" => \A x \in 1..Len(t) : t[x].kind = "callback" => Dead(t, x)
                   /\ t[Len(t)].kind = "dispatch" => LET n == t[Len(t)] IN
                        n.chain = hs /\ n.offer = <<>> /\ n.outer = <<>> /\ n.outerRunning = <<>>
  <2> HAVE sv = <<>>
  <2>1. rn = <<>> BY DEF Dispatches
  <2>2. t[Len(t)].phase # "transfer" => \A x \in 1..Len(t) : t[x].kind = "callback" => Dead(t, x)
    <3> HAVE t[Len(t)].phase # "transfer"
    <3>1. s[Len(s)].phase # "transfer" BY <1>0, <1>3
    <3>2. \A x \in 1..Len(s) : x \in Nat /\ (s[x].kind = "callback" => Dead(s, x)) BY <3>1 DEF Dispatches
    <3> QED BY <1>0, <3>2
  <2>3. t[Len(t)].kind = "dispatch" => LET n == t[Len(t)] IN
          n.chain = hs /\ n.offer = <<>> /\ n.outer = <<>> /\ n.outerRunning = <<>>
    <3> HAVE t[Len(t)].kind = "dispatch"
    <3>1. s[Len(s)].kind = "dispatch" /\ t[Len(t)] = s[Len(s)] BY <1>0, <1>1, <1>3
    <3> QED BY <3>1 DEF Dispatches
  <2> QED BY <2>1, <2>2, <2>3
<1>8. Dispatches(t, sv, rn, hs) BY <1>6, <1>7 DEF Dispatches
<1> QED BY <1>4, <1>8

(* What a drain finds newest: a cleanup above the landing frame and below  *)
(* the unwind, whose region the transfer abandons.                         *)
LEMMA Drawn ==
  ASSUME Types, IInv, Draining
  PROVE  LET c == Last(cleanups) f == Now.frame IN
         /\ Now = stack[Top] /\ Now.kind = "unwind" /\ Now.phase = "drain" /\ Top \in Nat \ {0} /\ Top = Len(stack)
         /\ saved = <<>> /\ running = <<>> /\ UnwindHead = handlers
         /\ c \in 1..Top /\ c \in ToSet(cleanups) /\ Dead(stack, c) /\ Cleaner(stack[c]) /\ stack[c].runs = 0
         /\ stack[c] \in DeferType \cup WatchType \cup CallbackType
         /\ f \in ToSet(frames) /\ f < c /\ c # Top
         /\ Front(cleanups) \in Path /\ Ascending(Front(cleanups)) /\ cleanups # <<>>
         /\ ToSet(Front(cleanups)) = ToSet(cleanups) \ {c}
         /\ \A p \in ToSet(frames) : ~ (c < p)
         /\ \A p \in 1..Top : stack[p].kind = "thunk" /\ stack[p].drain /\ ~ Dead(stack, p) => ~ (c < p)
         /\ stack[c].kind = "watch" => handlers = stack[c].handle /\ handlers # <<>> /\ Last(handlers).at = c
<1> DEFINE c == Last(cleanups)
           f == Now.frame
           F == ToSet(frames)
           A == ToSet(arms)
           w == stack[f].watermark
<1>0. /\ Shape(stack) /\ Tries(stack, ToSet(arms)) /\ Frames(stack, ToSet(frames))
      /\ Targets(stack, ToSet(frames), ToSet(arms)) /\ Arms(stack, ToSet(frames), ToSet(arms))
      /\ Owes(stack, ToSet(cleanups)) /\ Marks(stack, ToSet(frames), frames, cleanups)
      /\ Registers(stack, UnwindHead, ToSet(frames), ToSet(arms))
      /\ Heads(stack, UnwindHead, ToSet(frames)) /\ Dispatches(stack, saved, running, handlers)
      /\ Depths(stack, depth) /\ Rising(UnwindHead) /\ Ascending(frames) /\ Ascending(cleanups)
      /\ Ascending(arms)
  BY DEF IInv
<1>4. /\ handlers \in Chain /\ errs \in 0..ERROR_BOUND /\ frames \in Path /\ cleanups \in Path
      /\ depth \in 0..ERROR_MAX_DEPTH /\ arms \in Path /\ saved \in Chain /\ running \in Chain
  BY DEF Types
<1>1. /\ Now = stack[Top] /\ Top \in Nat \ {0} /\ Top = Len(stack) /\ Now \in Activation
      /\ \A p \in 1..Top : stack[p] \in Activation
  BY <1>0, Stacked
<1>2. Now.phase = "drain" /\ cleanups # <<>> /\ cleanups # w BY DEF Draining
<1>3. Now.kind = "unwind" BY <1>1, <1>2, KindOf
<1>5. saved = <<>> /\ running = <<>> /\ UnwindHead = handlers BY <1>3, Undispatched
<1>6. f \in F /\ f \in 1 .. Top - 1
  <2>1. ~ Dead(stack, Top) BY <1>1 DEF Dead
  <2>2. Sits(stack, Top) BY <1>0, <1>1 DEF Shape
  <2>3. f \in F BY <1>0, <1>1, <1>2, <2>1 DEF Frames
  <2>4. f \in 1 .. Top - 1 BY <1>1, <1>2, <2>2 DEF Sits
  <2> QED BY <2>3, <2>4
<1>7. /\ Front(cleanups) \in Path /\ Ascending(Front(cleanups))
      /\ ToSet(Front(cleanups)) = ToSet(cleanups) \ {c}
      /\ c \in ToSet(cleanups) /\ \A y \in ToSet(cleanups) : y <= c
  BY <1>0, <1>2, <1>4, FrontPath
<1>8. c \in 1..Top /\ Cleaner(stack[c]) /\ stack[c].runs = 0 BY <1>0, <1>1, <1>7 DEF Owes, Owing
<1>9. c # Top /\ c # f
  <2>1. stack[f].kind = "try" BY <1>6, Within
  <2> QED BY <1>1, <1>3, <1>8, <2>1 DEF Cleaner
<1>10. f < c
  <2>1. w \in Path /\ Pre(w, cleanups) /\ Cut(cleanups, Len(w), f) BY <1>6, FrameIs
  <2>2. f \in Nat /\ c \in Nat /\ cleanups \in Path BY <1>4, <1>6, <1>8
  <2> SUFFICES ASSUME c < f PROVE FALSE BY <1>6, <1>8, <1>9
  <2>3. \A i \in 1..Len(cleanups) : cleanups[i] < f
    <3> TAKE i \in 1..Len(cleanups)
    <3>1. cleanups[i] \in ToSet(cleanups) /\ cleanups[i] \in 1..Top BY Within
    <3>2. cleanups[i] <= c BY <1>7, <3>1
    <3> HIDE DEF c, f
    <3> QED BY <2>2, <3>1, <3>2
  <2>4. w = cleanups BY <2>1, <2>2, <2>3, WholePath
  <2> QED BY <1>2, <2>4
<1> HIDE DEF c, f, w
<1>11. \A p \in 1..Top : p # Top /\ ~ Dead(stack, p) => ~ (f < p)
  <2> TAKE p \in 1..Top
  <2> HAVE p # Top /\ ~ Dead(stack, p)
  <2>1. Top \in p + 1 .. Len(stack) BY <1>1
  <2>2. stack[Top].phase = "drain" /\ stack[Top].frame = f BY <1>1, <1>2 DEF f
  <2> QED BY <2>1, <2>2 DEF Dead
<1>12. Dead(stack, c)
  <2>1. c \in 1..Top /\ c # Top /\ f < c BY <1>8, <1>9, <1>10
  <2> QED BY <1>11, <2>1
<1>13. \A p \in F : ~ (c < p)
  <2> TAKE p \in F
  <2>1. p \in 1..Top /\ stack[p].kind = "try" BY Within
  <2>2. ~ Dead(stack, p) BY <1>0 DEF Frames
  <2>3. p # Top BY <1>1, <1>3, <2>1
  <2>4. ~ (f < p) BY <1>11, <2>1, <2>2, <2>3
  <2> QED BY <1>6, <1>8, <1>10, <2>1, <2>4
<1>14. \A p \in 1..Top : stack[p].kind = "thunk" /\ stack[p].drain /\ ~ Dead(stack, p) => ~ (c < p)
  <2> TAKE p \in 1..Top
  <2> HAVE stack[p].kind = "thunk" /\ stack[p].drain /\ ~ Dead(stack, p)
  <2>1. p # Top BY <1>1, <1>3
  <2>2. ~ (f < p) BY <1>11, <2>1
  <2> QED BY <1>6, <1>8, <1>10, <2>2
<1>15. stack[c] \in DeferType \cup WatchType \cup CallbackType
  <2>1. stack[c] \in Activation BY <1>1, <1>8
  <2> QED BY <1>8, <2>1, KindOf DEF Cleaner
<1>16. ASSUME stack[c].kind = "watch" PROVE handlers = stack[c].handle /\ handlers # <<>> /\ Last(handlers).at = c
  <2>1. stack[c].handle \in Chain BY <1>1, <1>8, <1>16, KindOf DEF WatchType
  <2>2. c \in Reg(stack, A) BY <1>1, <1>8, <1>16 DEF Reg
  <2>3. PathTo(stack[c].handle, handlers, c) BY <1>0, <1>5, <2>2 DEF Registers
  <2>4. ASSUME NEW y \in Ids(handlers) PROVE y <= c
    <3>1. y \in Reg(stack, A) BY <1>0, <1>5 DEF Registers
    <3>2. y \in 1..Top BY <1>1, <3>1 DEF Reg
    <3>3. CASE stack[y].kind = "watch"
      <4>1. y \in ToSet(cleanups)
        BY <1>0, <1>1, <3>1, <3>2, <3>3 DEF Reg, Owes, Owing, Cleaner
      <4> QED BY <1>7, <4>1 DEF c
    <3>4. CASE stack[y].kind # "watch"
      <4>1. stack[y].kind = "try" BY <3>1, <3>4 DEF Reg
      <4>2. y \in F BY <1>0, <3>1, <4>1 DEF Registers
      <4>3. ~ (c < y) BY <1>13, <4>2
      <4> QED BY <1>8, <3>2, <4>3
    <3> QED BY <3>3, <3>4
  <2>5. stack[c].handle # <<>> /\ Last(stack[c].handle).at = c /\ Pre(stack[c].handle, handlers)
    BY <2>3 DEF PathTo
  <2>6. stack[c].handle = handlers BY <1>0, <1>4, <1>5, <2>1, <2>4, <2>5, WholeChain
  <2> QED BY <2>5, <2>6
<1> QED BY <1>1, <1>2, <1>3, <1>5, <1>6, <1>7, <1>8, <1>9, <1>10, <1>12, <1>13, <1>14, <1>15, <1>16 DEF c, f

LEMMA DrawnRuns ==
  ASSUME Types, IInv, Draining, NEW t, t = Ran(stack, Last(cleanups)), NEW hs,
         hs = IF stack[Last(cleanups)].kind = "watch" THEN Front(handlers) ELSE handlers
  PROVE  /\ t \in Seq(Activation) /\ Len(t) = Top /\ hs \in Chain /\ Rising(hs)
         /\ t[Len(t)].kind = "unwind" /\ t[Len(t)].phase = "drain"
         /\ Shape(t) /\ Tries(t, ToSet(arms)) /\ Frames(t, ToSet(frames))
         /\ Targets(t, ToSet(frames), ToSet(arms)) /\ Arms(t, ToSet(frames), ToSet(arms))
         /\ Owes(t, ToSet(Front(cleanups))) /\ Marks(t, ToSet(frames), frames, Front(cleanups))
         /\ Registers(t, hs, ToSet(frames), ToSet(arms)) /\ Heads(t, hs, ToSet(frames))
         /\ Dispatches(t, <<>>, <<>>, hs) /\ Depths(t, depth)
<1> DEFINE c == Last(cleanups)
           F == ToSet(frames)
           A == ToSet(arms)
           b == [stack[c] EXCEPT !.runs = @ + 1]
<1>0. /\ Shape(stack) /\ Tries(stack, ToSet(arms)) /\ Frames(stack, ToSet(frames))
      /\ Targets(stack, ToSet(frames), ToSet(arms)) /\ Arms(stack, ToSet(frames), ToSet(arms))
      /\ Owes(stack, ToSet(cleanups)) /\ Marks(stack, ToSet(frames), frames, cleanups)
      /\ Registers(stack, UnwindHead, ToSet(frames), ToSet(arms))
      /\ Heads(stack, UnwindHead, ToSet(frames)) /\ Dispatches(stack, saved, running, handlers)
      /\ Depths(stack, depth) /\ Rising(UnwindHead) /\ Ascending(frames) /\ Ascending(cleanups)
      /\ Ascending(arms)
  BY DEF IInv
<1>4. /\ handlers \in Chain /\ errs \in 0..ERROR_BOUND /\ frames \in Path /\ cleanups \in Path
      /\ depth \in 0..ERROR_MAX_DEPTH /\ arms \in Path /\ saved \in Chain /\ running \in Chain
  BY DEF Types
<1>1. /\ Now = stack[Top] /\ Now.kind = "unwind" /\ Now.phase = "drain" /\ Top \in Nat \ {0} /\ Top = Len(stack)
      /\ saved = <<>> /\ running = <<>> /\ UnwindHead = handlers
      /\ c \in 1..Top /\ c \in ToSet(cleanups) /\ Dead(stack, c) /\ Cleaner(stack[c]) /\ stack[c].runs = 0
      /\ stack[c] \in DeferType \cup WatchType \cup CallbackType
      /\ c # Top
      /\ Front(cleanups) \in Path /\ Ascending(Front(cleanups)) /\ cleanups # <<>>
      /\ ToSet(Front(cleanups)) = ToSet(cleanups) \ {c}
      /\ \A p \in F : ~ (c < p)
      /\ \A p \in 1..Top : stack[p].kind = "thunk" /\ stack[p].drain /\ ~ Dead(stack, p) => ~ (c < p)
      /\ stack[c].kind = "watch" => handlers # <<>> /\ Last(handlers).at = c
  BY Drawn
<1>2. /\ stack \in Seq(Activation) /\ DOMAIN stack = 1..Top BY <1>0, <1>1, Stacked DEF Types
<1>3. /\ b \in DeferType \cup WatchType \cup CallbackType /\ b.kind = stack[c].kind
      /\ b.phase = "body" /\ b.runs = 1 /\ stack[c].phase = "body"
      /\ stack[c].kind = "watch" => b.handle = stack[c].handle
  <2>1. CASE stack[c] \in DeferType BY <1>1, <2>1 DEF DeferType
  <2>2. CASE stack[c] \in WatchType BY <1>1, <2>2 DEF WatchType
  <2>3. CASE stack[c] \in CallbackType BY <1>1, <2>3 DEF CallbackType
  <2> QED BY <1>1, <2>1, <2>2, <2>3
<1>5. t = [stack EXCEPT ![c] = b] BY <1>1, <1>2 DEF Ran
<1>6. b \in Activation BY <1>3 DEF Activation
<1> HIDE DEF b, c
<1>7. /\ t \in Seq(Activation) /\ Len(t) = Len(stack) /\ t[c] = b
      /\ \A p \in 1..Len(stack) : p # c => t[p] = stack[p]
  BY <1>1, <1>2, <1>5, <1>6
<1>8. Runs(stack, t, c) BY <1>1, <1>3, <1>7 DEF Runs
<1>9. t[Len(t)] = stack[Top] BY <1>1, <1>7
<1>10. /\ Shape(t) /\ Tries(t, A) /\ Frames(t, F) /\ Targets(t, F, A) /\ Arms(t, F, A)
  BY <1>0, <1>8, RunsRest
<1>11. Owes(t, ToSet(Front(cleanups))) BY <1>0, <1>1, <1>8, RunsOwes
<1>12. IF stack[c].kind = "watch" THEN handlers # <<>> /\ hs = Front(handlers) /\ Last(handlers).at = c
       ELSE hs = handlers
  BY <1>1 DEF c
<1>13. hs \in Chain /\ Rising(hs) BY <1>0, <1>1, <1>4, <1>12, FrontChain
<1>14. /\ Marks(t, F, frames, Front(cleanups)) /\ Registers(t, hs, F, A) /\ Heads(t, hs, F)
  <2>1. \A p \in Reg(stack, A) : Len(stack[p].handle) \in Nat BY <1>0, HandlesAre
  <2>2. Last(cleanups) = c BY DEF c
  <2>3. Registers(stack, handlers, F, A) /\ Heads(stack, handlers, F) /\ Rising(handlers) BY <1>0, <1>1
  <2>4. \A p \in 1..Len(stack) : stack[p].kind = "thunk" /\ stack[p].drain /\ ~ Dead(stack, p) => ~ (c < p)
    BY <1>1
  <2> QED BY <1>0, <1>1, <1>4, <1>8, <1>12, <2>1, <2>2, <2>3, <2>4, RunsChains
<1>15. Dispatches(t, <<>>, <<>>, hs) /\ Depths(t, depth)
  <2>1. Dispatches(t, <<>>, <<>>, handlers) /\ Depths(t, depth) BY <1>0, <1>1, <1>8, RunsDispatches
  <2>2. t[Len(t)].kind # "dispatch" BY <1>1, <1>9
  <2> QED BY <2>1, <2>2 DEF Dispatches
<1> QED BY <1>1, <1>7, <1>9, <1>10, <1>11, <1>13, <1>14, <1>15

LEMMA DrainViewStep ==
  ASSUME Types, IInv, DrainView
  PROVE  Types' /\ IInv'
<1>0. /\ Shape(stack) /\ Tries(stack, ToSet(arms)) /\ Frames(stack, ToSet(frames))
      /\ Targets(stack, ToSet(frames), ToSet(arms)) /\ Arms(stack, ToSet(frames), ToSet(arms))
      /\ Owes(stack, ToSet(cleanups)) /\ Marks(stack, ToSet(frames), frames, cleanups)
      /\ Registers(stack, UnwindHead, ToSet(frames), ToSet(arms))
      /\ Heads(stack, UnwindHead, ToSet(frames)) /\ Dispatches(stack, saved, running, handlers)
      /\ Depths(stack, depth) /\ Rising(UnwindHead) /\ Ascending(frames) /\ Ascending(cleanups)
      /\ Ascending(arms)
  BY DEF IInv
<1>4. /\ handlers \in Chain /\ errs \in 0..ERROR_BOUND /\ frames \in Path /\ cleanups \in Path
      /\ depth \in 0..ERROR_MAX_DEPTH /\ arms \in Path /\ saved \in Chain /\ running \in Chain
  BY DEF Types
<1>1. Draining /\ stack[Last(cleanups)].kind = "callback" BY DEF DrainView, Owner
<1>2. /\ cleanups' = Front(cleanups) /\ stack' = Ran(stack, Last(cleanups))
      /\ handlers' = handlers /\ saved' = saved /\ running' = running /\ arms' = arms
      /\ frames' = frames /\ errs' = errs /\ depth' = depth
  BY DEF DrainView, chains
<1>3. saved = <<>> /\ running = <<>> /\ UnwindHead = handlers
      /\ Front(cleanups) \in Path /\ Ascending(Front(cleanups))
  BY <1>1, Drawn
<1>5. /\ stack' \in Seq(Activation)
      /\ Shape(stack') /\ Tries(stack', ToSet(arms)) /\ Frames(stack', ToSet(frames))
      /\ Targets(stack', ToSet(frames), ToSet(arms)) /\ Arms(stack', ToSet(frames), ToSet(arms))
      /\ Owes(stack', ToSet(cleanups')) /\ Marks(stack', ToSet(frames), frames, cleanups')
      /\ Registers(stack', handlers, ToSet(frames), ToSet(arms)) /\ Heads(stack', handlers, ToSet(frames))
      /\ Dispatches(stack', <<>>, <<>>, handlers) /\ Depths(stack', depth)
  <2>1. handlers = IF stack[Last(cleanups)].kind = "watch" THEN Front(handlers) ELSE handlers BY <1>1
  <2> QED BY <1>1, <1>2, <2>1, DrawnRuns
<1>6. Types' BY <1>2, <1>3, <1>4, <1>5 DEF Types
<1>7. UnwindHead' = handlers BY <1>2, <1>3 DEF UnwindHead
<1> QED BY <1>0, <1>2, <1>3, <1>5, <1>6, <1>7 DEF IInv

LEMMA DrainWatchStep ==
  ASSUME Types, IInv, DrainWatch
  PROVE  Types' /\ IInv'
<1>0. /\ Shape(stack) /\ Tries(stack, ToSet(arms)) /\ Frames(stack, ToSet(frames))
      /\ Targets(stack, ToSet(frames), ToSet(arms)) /\ Arms(stack, ToSet(frames), ToSet(arms))
      /\ Owes(stack, ToSet(cleanups)) /\ Marks(stack, ToSet(frames), frames, cleanups)
      /\ Registers(stack, UnwindHead, ToSet(frames), ToSet(arms))
      /\ Heads(stack, UnwindHead, ToSet(frames)) /\ Dispatches(stack, saved, running, handlers)
      /\ Depths(stack, depth) /\ Rising(UnwindHead) /\ Ascending(frames) /\ Ascending(cleanups)
      /\ Ascending(arms)
  BY DEF IInv
<1>4. /\ handlers \in Chain /\ errs \in 0..ERROR_BOUND /\ frames \in Path /\ cleanups \in Path
      /\ depth \in 0..ERROR_MAX_DEPTH /\ arms \in Path /\ saved \in Chain /\ running \in Chain
  BY DEF Types
<1>1. Draining /\ stack[Last(cleanups)].kind = "watch" /\ Owner = stack[Last(cleanups)]
  BY DEF DrainWatch, Owner
<1>3. /\ saved = <<>> /\ running = <<>> /\ UnwindHead = handlers
      /\ Front(cleanups) \in Path /\ Ascending(Front(cleanups))
      /\ handlers = Owner.handle /\ handlers # <<>>
  BY <1>1, Drawn
<1>2. /\ cleanups' = Front(cleanups) /\ stack' = Ran(stack, Last(cleanups))
      /\ handlers' = Front(handlers) /\ errs' = CutTo(<<>>, 0, Last(handlers).mark)
      /\ saved' = saved /\ running' = running /\ arms' = arms /\ frames' = frames /\ depth' = depth
  BY <1>3 DEF DrainWatch, Pop
<1>5. /\ stack' \in Seq(Activation) /\ handlers' \in Chain /\ Rising(handlers')
      /\ Shape(stack') /\ Tries(stack', ToSet(arms)) /\ Frames(stack', ToSet(frames))
      /\ Targets(stack', ToSet(frames), ToSet(arms)) /\ Arms(stack', ToSet(frames), ToSet(arms))
      /\ Owes(stack', ToSet(cleanups')) /\ Marks(stack', ToSet(frames), frames, cleanups')
      /\ Registers(stack', handlers', ToSet(frames), ToSet(arms)) /\ Heads(stack', handlers', ToSet(frames))
      /\ Dispatches(stack', <<>>, <<>>, handlers') /\ Depths(stack', depth)
  <2>1. handlers' = IF stack[Last(cleanups)].kind = "watch" THEN Front(handlers) ELSE handlers BY <1>1, <1>2
  <2> QED BY <1>1, <1>2, <2>1, DrawnRuns
<1>6. errs' \in 0..ERROR_BOUND
  <2>1. Last(handlers) \in EntryType BY <1>3, <1>4, FrontFacts DEF Chain
  <2>2. Last(handlers).mark \in 0..ERROR_BOUND /\ <<>> \in Chain BY <2>1 DEF EntryType, Chain
  <2> QED BY <1>2, <2>2, CutRange
<1>7. Types' BY <1>2, <1>3, <1>4, <1>5, <1>6 DEF Types
<1>8. UnwindHead' = handlers' BY <1>2, <1>3 DEF UnwindHead
<1> QED BY <1>0, <1>2, <1>3, <1>5, <1>7, <1>8 DEF IInv

LEMMA PushDrained ==
  ASSUME NEW s, NEW t, NEW F, NEW full, Pushed(s, t), Heads(s, full, F), t[Len(t)].phase # "drain",
         \A p \in F : p \in 1..Len(s), CutAt(full, t[Len(t)].depth, Len(t))
  PROVE  Heads(t, full, F)
<1>1. \A p \in Nat : Dead(s, p) <=> Dead(t, p) BY PushDead
<1>2. Len(s) \in Nat \ {0} /\ Len(t) = Len(s) + 1 /\ \A p \in 1..Len(s) : t[p] = s[p] BY DEF Pushed
<1>3. \A p \in F : t[p] = s[p] BY <1>2
<1>4. ASSUME NEW p \in 1..Len(t), t[p].kind = "thunk", t[p].drain, ~ Dead(t, p)
      PROVE  CutAt(full, t[p].depth, p)
  <2>1. CASE p = Len(t) BY <2>1
  <2>2. CASE p # Len(t)
    <3>1. p \in 1..Len(s) /\ p \in Nat BY <1>2, <2>2
    <3>2. t[p] = s[p] /\ ~ Dead(s, p) BY <1>1, <1>2, <1>4, <3>1
    <3> QED BY <1>4, <3>1, <3>2 DEF Heads
  <2> QED BY <2>1, <2>2
<1> QED BY <1>3, <1>4 DEF Heads

LEMMA DrainDeferStep ==
  ASSUME Types, IInv, DrainDefer
  PROVE  Types' /\ IInv'
<1> DEFINE F == ToSet(frames)
           A == ToSet(arms)
           t == Ran(stack, Last(cleanups))
           a == [kind |-> "thunk", phase |-> "body", drain |-> TRUE, depth |-> Len(handlers), height |-> errs]
<1>0. /\ Shape(stack) /\ Tries(stack, ToSet(arms)) /\ Frames(stack, ToSet(frames))
      /\ Targets(stack, ToSet(frames), ToSet(arms)) /\ Arms(stack, ToSet(frames), ToSet(arms))
      /\ Owes(stack, ToSet(cleanups)) /\ Marks(stack, ToSet(frames), frames, cleanups)
      /\ Registers(stack, UnwindHead, ToSet(frames), ToSet(arms))
      /\ Heads(stack, UnwindHead, ToSet(frames)) /\ Dispatches(stack, saved, running, handlers)
      /\ Depths(stack, depth) /\ Rising(UnwindHead) /\ Ascending(frames) /\ Ascending(cleanups)
      /\ Ascending(arms)
  BY DEF IInv
<1>4. /\ handlers \in Chain /\ errs \in 0..ERROR_BOUND /\ frames \in Path /\ cleanups \in Path
      /\ depth \in 0..ERROR_MAX_DEPTH /\ arms \in Path /\ saved \in Chain /\ running \in Chain
  BY DEF Types
<1>1. Draining /\ stack[Last(cleanups)].kind = "defer" BY DEF DrainDefer, Owner
<1>2. /\ cleanups' = Front(cleanups) /\ stack' = Append(t, a)
      /\ handlers' = handlers /\ saved' = saved /\ running' = running /\ arms' = arms
      /\ frames' = frames /\ errs' = errs /\ depth' = depth
  BY DEF DrainDefer, chains
<1>3. saved = <<>> /\ running = <<>> /\ UnwindHead = handlers
      /\ Front(cleanups) \in Path /\ Ascending(Front(cleanups)) /\ Top \in Nat \ {0} /\ Top = Len(stack)
  BY <1>1, Drawn
<1>5. /\ t \in Seq(Activation) /\ Len(t) = Top
      /\ t[Len(t)].kind = "unwind" /\ t[Len(t)].phase = "drain"
      /\ Shape(t) /\ Tries(t, A) /\ Frames(t, F) /\ Targets(t, F, A) /\ Arms(t, F, A)
      /\ Owes(t, ToSet(cleanups')) /\ Marks(t, F, frames, cleanups')
      /\ Registers(t, handlers, F, A) /\ Heads(t, handlers, F)
      /\ Dispatches(t, <<>>, <<>>, handlers) /\ Depths(t, depth)
  <2>1. handlers = IF stack[Last(cleanups)].kind = "watch" THEN Front(handlers) ELSE handlers BY <1>1
  <2> HIDE DEF a
  <2> QED BY <1>1, <1>2, <2>1, DrawnRuns
<1>6. /\ a \in Activation /\ a.kind = "thunk" /\ a.phase = "body" /\ a.drain /\ a.depth = Len(handlers)
  <2>1. a \in DrainedType BY <1>4, Sizes DEF DrainedType
  <2> QED BY <2>1 DEF Activation
<1> HIDE DEF a, t
<1>7. /\ stack' \in Seq(Activation) /\ Pushed(t, stack') /\ Len(stack') = Top + 1
      /\ stack'[Len(stack')] = a
  <2>1. Len(stack') = Len(t) + 1 /\ stack'[Len(t) + 1] = a /\ \A p \in 1..Len(t) : stack'[p] = t[p]
    BY <1>2, <1>5, <1>6
  <2> QED BY <1>2, <1>3, <1>5, <1>6, <2>1 DEF Pushed
<1>8. Types' BY <1>2, <1>3, <1>4, <1>7 DEF Types
<1>9. UnwindHead' = handlers BY <1>2, <1>3 DEF UnwindHead
<1>10. /\ stack'[Len(stack')].kind = "thunk" /\ stack'[Len(stack')].phase = "body"
       /\ stack'[Len(stack')].drain /\ stack'[Len(stack')].depth = Len(handlers)
       /\ stack'[Len(stack')].phase # "drain" /\ t[Len(t)].phase # "transfer"
  BY <1>5, <1>6, <1>7
<1>11. Shape(stack')
  <2>1. Len(stack') - 1 = Len(t) /\ stack'[Len(t)] = t[Len(t)] /\ Len(stack') > 1
    BY <1>3, <1>5, <1>7 DEF Pushed
  <2>2. Sits(stack', Len(stack')) BY <1>5, <1>10, <2>1 DEF Sits
  <2> QED BY <1>5, <1>7, <2>2, PushShape
<1>12. Tries(stack', A) /\ Frames(stack', F) /\ Targets(stack', F, A) /\ Arms(stack', F, A)
  BY <1>5, <1>7, <1>10, PushRest
<1>13. Owes(stack', ToSet(cleanups')) BY <1>5, <1>7, <1>10, PushOwes DEF Cleaner
<1>14. \A p \in F : p \in 1..Len(t) BY <1>5 DEF Frames
<1>15. Marks(stack', F, frames, cleanups')
  <2>1. Extends(frames, frames, Len(stack')) /\ Extends(cleanups', cleanups', Len(stack')) BY DEF Extends
  <2>2. Len(frames) \in Nat /\ Len(cleanups') \in Nat BY <1>2, <1>3, <1>4 DEF Path
  <2> QED BY <1>5, <1>7, <1>14, <2>1, <2>2, PushMarks
<1>16. Registers(stack', handlers, F, A)
  <2>1. Len(stack') \notin Reg(stack', A) BY <1>10 DEF Reg
  <2> QED BY <1>5, <1>7, <2>1, Sizes, PushRegisters
<1>17. Heads(stack', handlers, F)
  <2>1. Len(handlers) \in Nat BY Sizes
  <2>2. \A i \in 1..Len(handlers) : handlers[i].at < Top + 1 BY <1>3, Within
  <2>3. CutAt(handlers, Len(handlers), Top + 1) BY <2>1, <2>2 DEF CutAt
  <2>4. CutAt(handlers, stack'[Len(stack')].depth, Len(stack')) BY <1>7, <1>10, <2>3
  <2> QED BY <1>5, <1>7, <1>10, <1>14, <2>4, PushDrained
<1>18. Dispatches(stack', <<>>, <<>>, handlers) BY <1>5, <1>7, <1>10, PushQuiet
<1>19. Depths(stack', depth) BY <1>5, <1>7, <1>10, Sizes, PushDepths
<1> QED BY <1>0, <1>2, <1>3, <1>8, <1>9, <1>11, <1>12, <1>13, <1>15, <1>16, <1>17, <1>18, <1>19 DEF IInv, F, A

LEMMA EndDeferStep ==
  ASSUME Types, IInv, EndDefer
  PROVE  Types' /\ IInv'
<1> DEFINE F == ToSet(frames)
           A == ToSet(arms)
           b == [Now EXCEPT !.runs = @ + 1]
           t == [stack EXCEPT ![Top] = b]
           a == [kind |-> "thunk", phase |-> "body", drain |-> FALSE]
           w == Append(t, a)
<1>0. /\ Shape(stack) /\ Tries(stack, ToSet(arms)) /\ Frames(stack, ToSet(frames))
      /\ Targets(stack, ToSet(frames), ToSet(arms)) /\ Arms(stack, ToSet(frames), ToSet(arms))
      /\ Owes(stack, ToSet(cleanups)) /\ Marks(stack, ToSet(frames), frames, cleanups)
      /\ Registers(stack, UnwindHead, ToSet(frames), ToSet(arms))
      /\ Heads(stack, UnwindHead, ToSet(frames)) /\ Dispatches(stack, saved, running, handlers)
      /\ Depths(stack, depth) /\ Rising(UnwindHead) /\ Ascending(frames) /\ Ascending(cleanups)
      /\ Ascending(arms)
  BY DEF IInv
<1>4. /\ handlers \in Chain /\ errs \in 0..ERROR_BOUND /\ frames \in Path /\ cleanups \in Path
      /\ depth \in 0..ERROR_MAX_DEPTH /\ arms \in Path /\ saved \in Chain /\ running \in Chain
  BY DEF Types
<1>a. CASE cleanups = <<>> \/ Last(cleanups) # Top
  <2>1. UNCHANGED <<stack, chains, cleanups, frames, errs, depth>> BY <1>a DEF EndDefer, Fatal
  <2> QED BY <2>1, Unmoved
<1>b. CASE ~ (cleanups = <<>> \/ Last(cleanups) # Top)
  <2>1. /\ cleanups' = Front(cleanups) /\ stack' = Append(Ran(stack, Top), a)
        /\ handlers' = handlers /\ saved' = saved /\ running' = running /\ arms' = arms
        /\ frames' = frames /\ errs' = errs /\ depth' = depth
    BY <1>b DEF EndDefer, chains
  <2>2. Coding /\ Now.kind = "defer" BY DEF EndDefer
  <2>3. /\ Now = stack[Top] /\ Top \in Nat \ {0} /\ Top = Len(stack) /\ DOMAIN stack = 1..Top
        /\ Now \in Activation /\ stack \in Seq(Activation)
    BY <1>0, Stacked DEF Types
  <2>4. Now \in DeferType BY <2>2, <2>3, KindOf
  <2>5. Now.runs = 0
    <3>1. ~ Dead(stack, Top) BY <2>3 DEF Dead
    <3> QED BY <1>0, <2>2, <2>3, <3>1 DEF Owes, Cleaner
  <2>6. /\ b \in DeferType /\ b.kind = "defer" /\ b.phase = "body" /\ b.runs = 1 /\ Now.phase = "body"
    BY <2>4, <2>5 DEF DeferType
  <2>7. /\ Ran(stack, Top) = t /\ Ran(stack, Top) = [stack EXCEPT ![Top] = b] BY <2>3 DEF Ran
  <2>8. /\ a \in Activation /\ a.kind = "thunk" /\ a.phase = "body" /\ ~ a.drain
    <3>1. a \in BodyType BY DEF BodyType
    <3> QED BY <3>1 DEF Activation
  <2>9. b \in Activation BY <2>6 DEF Activation
  <2> HIDE DEF b, t, a, w
  <2>10. /\ t \in Seq(Activation) /\ Len(t) = Len(stack) /\ t[Top] = b
         /\ \A p \in 1..Len(stack) : p # Top => t[p] = stack[p]
    BY <2>3, <2>7, <2>9
  <2>11. Runs(stack, t, Top) BY <2>2, <2>3, <2>5, <2>6, <2>10 DEF Runs, Cleaner
  <2>12. /\ Shape(t) /\ Tries(t, A) /\ Frames(t, F) /\ Targets(t, F, A) /\ Arms(t, F, A)
    BY <1>0, <2>11, RunsRest
  <2>13. /\ Top \in ToSet(cleanups) /\ cleanups # <<>> /\ Last(cleanups) = Top
         /\ Front(cleanups) \in Path /\ Ascending(Front(cleanups))
         /\ ToSet(Front(cleanups)) = ToSet(cleanups) \ {Top}
    <3>1. Top \in ToSet(cleanups) BY <1>0, <2>2, <2>3, <2>5 DEF Owes, Owing, Cleaner
    <3> QED BY <3>1, CleanupOnTop
  <2>14. /\ Marks(t, F, frames, Front(cleanups)) /\ Registers(t, UnwindHead, F, A) /\ Heads(t, UnwindHead, F)
    <3>1. \A p \in Reg(stack, A) : Len(stack[p].handle) \in Nat BY <1>0, HandlesAre
    <3>2. \A p \in F : ~ (Top < p) BY <2>3, Within
    <3>3. \A p \in 1..Len(stack) : stack[p].kind = "thunk" /\ stack[p].drain /\ ~ Dead(stack, p) => ~ (Top < p)
      BY <2>3
    <3>4. stack[Top].kind # "watch" BY <2>2, <2>3
    <3>5. UnwindHead \in Chain BY Sizes
    <3> QED BY <1>0, <1>4, <2>11, <2>13, <3>1, <3>2, <3>3, <3>4, <3>5, RunsChains
  <2>15. Dispatches(t, saved, running, handlers) /\ Depths(t, depth)
    BY <1>0, <2>11, RunsDispatches
  <2>16. /\ stack' \in Seq(Activation) /\ Pushed(t, stack') /\ Len(stack') = Top + 1
         /\ stack'[Len(stack')] = a
    <3>0. stack' = Append(t, a) BY <2>1, <2>7
    <3>1. Len(stack') = Len(t) + 1 /\ stack'[Len(t) + 1] = a /\ \A p \in 1..Len(t) : stack'[p] = t[p]
      BY <2>8, <2>10, <3>0
    <3> QED BY <2>3, <2>8, <2>10, <3>0, <3>1 DEF Pushed
  <2>17. Types' BY <1>4, <2>1, <2>13, <2>16 DEF Types
  <2>18. UnwindHead' = UnwindHead BY <2>1 DEF UnwindHead
  <2>19. /\ stack'[Len(stack')].kind = "thunk" /\ stack'[Len(stack')].phase = "body"
         /\ ~ stack'[Len(stack')].drain
         /\ stack'[Len(stack')].phase \notin {"drain", "transfer"}
         /\ t[Len(t)].phase = "body" /\ t[Len(t)].kind = "defer" /\ t[Len(t)].runs = 1
    BY <2>3, <2>6, <2>8, <2>10, <2>16
  <2>20. Shape(stack')
    <3>1. Len(stack') - 1 = Len(t) /\ stack'[Len(t)] = t[Len(t)] /\ Len(stack') > 1
      BY <2>3, <2>10, <2>16 DEF Pushed
    <3>2. Sits(stack', Len(stack')) BY <2>19, <3>1 DEF Sits
    <3> QED BY <2>12, <2>16, <3>2, PushShape
  <2>21. Tries(stack', A) /\ Frames(stack', F) /\ Targets(stack', F, A) /\ Arms(stack', F, A)
    BY <2>12, <2>16, <2>19, PushRest
  <2>22. Owes(stack', ToSet(Front(cleanups)))
    <3>0. /\ Owing(t) = ToSet(cleanups) \ {Top}
          /\ \A p \in 1..Len(t) : Cleaner(t[p]) /\ t[p].runs # 0 /\ p # Top =>
               Dead(t, p) \/ (p < Len(t) /\ t[p].kind = "defer" /\ t[p + 1].kind = "thunk")
          /\ \A p \in 2..Len(t) : t[p].kind = "thunk" /\ ~ t[p].drain => t[p - 1].runs = 1
      <4> DEFINE c == Top
                 C == ToSet(cleanups)
      <4>1. Owes(stack, C) /\ Runs(stack, t, c) BY <1>0, <2>11
      <4> HIDE DEF c, C
      <4>2. Owing(t) = C \ {c} BY <4>1, RunsOwing
      <4>3. \A p \in 1..Len(t) : Cleaner(t[p]) /\ t[p].runs # 0 /\ p # c =>
              Dead(t, p) \/ (p < Len(t) /\ t[p].kind = "defer" /\ t[p + 1].kind = "thunk")
        BY <4>1, RunsPaid
      <4>4. \A p \in 2..Len(t) : t[p].kind = "thunk" /\ ~ t[p].drain => t[p - 1].runs = 1
        BY <4>1, RunsThunks
      <4> QED BY <4>2, <4>3, <4>4 DEF c, C
    <3>1. /\ Len(t) = Top /\ Len(stack') = Top + 1 /\ Top \in Nat \ {0}
          /\ \A p \in 1..Top : stack'[p] = t[p]
          /\ \A p \in Nat : Dead(t, p) <=> Dead(stack', p)
      BY <2>3, <2>10, <2>16, <2>19, PushDead DEF Pushed
    <3>2. Owing(stack') = Owing(t)
      <4>1. \A p \in 1 .. Top + 1 : p # Top + 1 => p \in 1..Top BY <3>1
      <4>2. ~ Cleaner(stack'[Top + 1]) BY <2>19, <3>1 DEF Cleaner
      <4> QED BY <3>1, <4>1, <4>2 DEF Owing
    <3>3. ASSUME NEW p \in 1..Len(stack'), Cleaner(stack'[p]), stack'[p].runs # 0
          PROVE  Dead(stack', p) \/ (p < Len(stack') /\ stack'[p].kind = "defer" /\ stack'[p + 1].kind = "thunk")
      <4>1. p # Top + 1 BY <2>19, <3>1, <3>3 DEF Cleaner
      <4>2. p \in 1..Top /\ stack'[p] = t[p] /\ p \in Nat BY <3>1, <4>1
      <4>3. CASE p = Top BY <2>19, <3>1, <4>2, <4>3
      <4>4. CASE p # Top
        <5>1. Dead(t, p) \/ (p < Len(t) /\ t[p].kind = "defer" /\ t[p + 1].kind = "thunk")
          BY <3>0, <3>1, <3>3, <4>2, <4>4
        <5>2. p + 1 \in 1..Top BY <3>1, <4>2, <4>4
        <5> QED BY <3>1, <4>2, <5>1, <5>2
      <4> QED BY <4>3, <4>4
    <3>4. ASSUME NEW p \in 2..Len(stack'), stack'[p].kind = "thunk", ~ stack'[p].drain
          PROVE  stack'[p - 1].runs = 1
      <4>1. CASE p = Top + 1
        <5>1. p - 1 = Top /\ Top \in 1..Top BY <3>1, <4>1
        <5> QED BY <2>19, <3>1, <5>1
      <4>2. CASE p # Top + 1
        <5>1. p \in 2..Len(t) /\ p \in 1..Top /\ p - 1 \in 1..Top BY <3>1, <4>2
        <5> QED BY <3>0, <3>1, <3>4, <5>1
      <4> QED BY <4>1, <4>2
    <3> QED BY <2>13, <3>0, <3>2, <3>3, <3>4 DEF Owes
  <2>23. \A p \in F : p \in 1..Len(t) BY <2>12 DEF Frames
  <2>24. Marks(stack', F, frames, Front(cleanups))
    <3>1. /\ Extends(frames, frames, Len(stack'))
          /\ Extends(Front(cleanups), Front(cleanups), Len(stack'))
      BY DEF Extends
    <3>2. Len(frames) \in Nat /\ Len(Front(cleanups)) \in Nat BY <1>4, <2>13 DEF Path
    <3> QED BY <2>14, <2>16, <2>23, <3>1, <3>2, PushMarks
  <2>25. Registers(stack', UnwindHead, F, A)
    <3>1. Len(stack') \notin Reg(stack', A) BY <2>19 DEF Reg
    <3> QED BY <2>14, <2>16, <3>1, Sizes, PushRegisters
  <2>26. Heads(stack', UnwindHead, F) BY <2>14, <2>16, <2>19, <2>23, Sizes, PushHeadless
  <2>27. Dispatches(stack', saved, running, handlers) BY <2>15, <2>16, <2>19, PushPlain
  <2>28. Depths(stack', depth) BY <2>15, <2>16, <2>19, Sizes, PushDepths
  <2> QED BY <1>0, <2>1, <2>13, <2>17, <2>18, <2>20, <2>21, <2>22, <2>24, <2>25, <2>26, <2>27, <2>28 DEF IInv, F, A
<1> QED BY <1>a, <1>b

-----------------------------------------------------------------------------
(* A landing cuts the stack at the frame it lands in. *)

Lands(s, t, f) ==
  /\ Len(s) \in Nat \ {0} /\ f \in 1 .. Len(s) - 1 /\ Len(t) = f
  /\ s[Len(s)].phase = "drain" /\ s[Len(s)].frame = f /\ s[Len(s)].kind = "unwind"
  /\ s[f].kind = "try" /\ s[f].phase \in {"body", "arm"} /\ t[f].phase = "landed"
  /\ t[f].kind = s[f].kind /\ t[f].handle = s[f].handle /\ t[f].fin = s[f].fin
  /\ t[f].state = s[f].state /\ t[f].target = s[f].target /\ t[f].claimed = s[f].claimed
  /\ t[f].runs = s[f].runs /\ t[f].prev = s[f].prev /\ t[f].watermark = s[f].watermark
  /\ t[f].head = s[f].head
  /\ \A p \in 1 .. f - 1 : t[p] = s[p]
  /\ \A q \in 1..Len(s) : s[q].phase = "drain" => s[q].frame \in Nat

LEMMA LandsSame ==
  ASSUME NEW s, NEW t, NEW f, NEW F, Lands(s, t, f), Frames(s, F), f \in F
  PROVE  /\ Len(s) \in Nat \ {0} /\ f \in Nat \ {0} /\ f \in 1..Len(t) /\ Len(t) = f /\ f \in 1..Len(s)
         /\ \A p \in 1..f : p # f => p \in 1 .. f - 1 /\ t[p] = s[p]
         /\ \A p \in 1..f : t[p].kind = s[p].kind /\ p \in 1..Len(s)
         /\ \A p \in 1..f : Dead(t, p) <=> Dead(s, p)
         /\ \A p \in F : p \in 1..f
<1>1. /\ Len(s) \in Nat \ {0} /\ f \in Nat \ {0} /\ f \in 1..f /\ Len(t) = f /\ f \in 1..Len(s)
      /\ \A p \in 1..f : p \in 1..Len(s) /\ (p # f => p \in 1 .. f - 1)
      /\ f + 1 <= Len(s)
  BY DEF Lands
<1>2. /\ \A p \in 1..f : p # f => p \in 1 .. f - 1 /\ t[p] = s[p]
      /\ \A p \in 1..f : t[p].kind = s[p].kind
  BY <1>1 DEF Lands
<1>3. ~ Dead(s, f) BY DEF Frames
<1>4. ASSUME NEW p \in 1..f PROVE Dead(t, p) <=> Dead(s, p)
  <2>1. ASSUME Dead(t, p) PROVE Dead(s, p)
    <3>1. PICK q \in p + 1 .. f : t[q].phase = "drain" /\ t[q].frame < p BY <1>1, <2>1 DEF Dead
    <3>2. q # f BY <3>1 DEF Lands
    <3>3. t[q] = s[q] /\ q \in p + 1 .. Len(s) BY <1>1, <1>2, <3>2
    <3> QED BY <3>1, <3>3 DEF Dead
  <2>2. ASSUME Dead(s, p) PROVE Dead(t, p)
    <3>1. PICK q \in p + 1 .. Len(s) : s[q].phase = "drain" /\ s[q].frame < p BY <2>2 DEF Dead
    <3>2. CASE q = Len(s) BY <1>1, <3>1, <3>2 DEF Lands
    <3>3. CASE q > f /\ q # Len(s)
      <4>1. q \in f + 1 .. Len(s) BY <1>1, <3>3
      <4>2. s[q].frame < f
        <5>1. q \in 1..Len(s) BY <1>1
        <5>2. s[q].frame \in Nat BY <3>1, <5>1 DEF Lands
        <5> QED BY <1>1, <3>1, <5>2
      <4> QED BY <1>3, <3>1, <4>1, <4>2 DEF Dead
    <3>4. CASE q <= f
      <4>1. q # f BY <3>1 DEF Lands
      <4>2. q \in 1..f /\ q \in p + 1 .. f BY <1>1, <3>4
      <4>3. t[q] = s[q] BY <1>2, <4>1, <4>2
      <4> QED BY <1>1, <3>1, <4>2, <4>3 DEF Dead
    <3> QED BY <1>1, <3>2, <3>3, <3>4
  <2> QED BY <2>1, <2>2
<1>5. ASSUME NEW p \in F PROVE p \in 1..f
  <2>1. p \in 1..Len(s) /\ s[p].kind = "try" /\ ~ Dead(s, p) BY DEF Frames
  <2>2. p # Len(s) BY <2>1 DEF Lands
  <2>3. ~ (f < p)
    <3>1. SUFFICES ASSUME f < p PROVE FALSE OBVIOUS
    <3>2. Len(s) \in p + 1 .. Len(s) BY <1>1, <2>1, <2>2
    <3> QED BY <2>1, <3>1, <3>2 DEF Dead, Lands
  <2> QED BY <1>1, <2>1, <2>3
<1> QED BY <1>1, <1>2, <1>4, <1>5

LEMMA LandsShape ==
  ASSUME NEW s, NEW t, NEW f, NEW F, Lands(s, t, f), Frames(s, F), f \in F, Shape(s)
  PROVE  Shape(t)
<1>1. /\ f \in Nat \ {0} /\ Len(t) = f /\ f \in 1..Len(s)
      /\ \A p \in 1..f : p # f => p \in 1 .. f - 1 /\ t[p] = s[p]
      /\ \A p \in 1..f : p \in 1..Len(s)
  BY LandsSame
<1>2. ASSUME NEW p \in 1..f, p # f PROVE Sits(t, p)
  <2>1. \A o \in 1..p : SameForm(s[o], t[o])
    <3>1. \A o \in 1..p : t[o] = s[o] BY <1>1, <1>2
    <3> QED BY <3>1 DEF SameForm
  <2>2. Sits(s, p) BY <1>1 DEF Shape
  <2> QED BY <1>1, <2>1, <2>2, SitsKept
<1>3. Sits(t, f)
  <2>1. Sits(s, f) BY <1>1 DEF Shape
  <2>2. f > 1 => t[f - 1] = s[f - 1] BY <1>1
  <2>3. s[f].kind = "try" /\ t[f].kind = "try" /\ t[f].phase = "landed" BY DEF Lands
  <2> QED BY <2>1, <2>2, <2>3 DEF Sits
<1> QED BY <1>1, <1>2, <1>3 DEF Shape

LEMMA LandsRest ==
  ASSUME NEW s, NEW t, NEW f, NEW F, NEW A, Lands(s, t, f), f \in F, s[f].state = "unwind",
         \A p \in F : p \in Nat /\ (s[p].state = "unwind" => s[p].target \in Nat),
         Tries(s, A), Frames(s, F), Targets(s, F, A), Arms(s, F, A)
  PROVE  Tries(t, A) /\ Frames(t, F) /\ Targets(t, F, A) /\ Arms(t, F, A)
<1>1. /\ Len(s) \in Nat \ {0} /\ f \in Nat \ {0} /\ f \in 1..Len(t) /\ Len(t) = f /\ f \in 1..Len(s)
      /\ \A p \in 1..f : p # f => p \in 1 .. f - 1 /\ t[p] = s[p]
      /\ \A p \in 1..f : t[p].kind = s[p].kind /\ p \in 1..Len(s)
      /\ \A p \in 1..f : Dead(t, p) <=> Dead(s, p)
      /\ \A p \in F : p \in 1..f
  BY LandsSame
<1>2. /\ \A p \in 1..f : t[p].state = s[p].state \/ p # f
      /\ t[f].handle = s[f].handle /\ t[f].state = s[f].state /\ t[f].target = s[f].target
      /\ t[f].phase = "landed" /\ s[f].phase \in {"body", "arm"} /\ s[Len(s)].phase = "drain"
      /\ t[f].claimed = s[f].claimed /\ t[f].runs = s[f].runs /\ t[f].fin = s[f].fin /\ s[f].kind = "try"
  BY DEF Lands
<1>3. \A p \in 1..f : t[p].state = s[p].state /\ t[p].handle = s[p].handle
  BY <1>1, <1>2
<1>4. Tries(t, A)
  <2>1. ASSUME NEW p \in 1..f, t[p].kind = "try" PROVE TryOK(t[p], p \in A)
    <3>1. TryOK(s[p], p \in A) BY <1>1, <2>1 DEF Tries
    <3>2. CASE p # f BY <1>1, <3>1, <3>2
    <3>3. CASE p = f
      <4>1. TryOK(s[f], f \in A) BY <3>1, <3>3
      <4> QED BY <1>2, <3>3, <4>1 DEF TryOK
    <3> QED BY <3>2, <3>3
  <2> QED BY <1>1, <2>1 DEF Tries
<1>5. Frames(t, F)
  <2>1. ASSUME NEW p \in F
        PROVE  /\ p \in 1..Len(t) /\ t[p].kind = "try" /\ ~ Dead(t, p)
               /\ \A c \in 1 .. p - 1 : t[c].kind = "callback" => Dead(t, c)
    <3>1. /\ p \in 1..Len(s) /\ s[p].kind = "try" /\ ~ Dead(s, p)
          /\ \A c \in 1 .. p - 1 : s[c].kind = "callback" => Dead(s, c)
      BY DEF Frames
    <3>2. p \in 1..f BY <1>1
    <3>3. \A c \in 1 .. p - 1 : c \in 1..f BY <1>1, <3>2
    <3> QED BY <1>1, <3>1, <3>2, <3>3
  <2>2. ASSUME NEW p \in 1..Len(t), t[p].kind = "try", p \notin F
        PROVE  t[p].claimed /\ Dead(t, p)
    <3>1. p \in 1..f /\ p # f /\ t[p] = s[p] BY <1>1, <2>2
    <3>2. s[p].claimed /\ Dead(s, p) BY <1>1, <1>2, <2>2, <3>1 DEF Frames
    <3> QED BY <1>1, <3>1, <3>2
  <2>3. ASSUME NEW q \in 1..Len(t), t[q].phase = "drain", ~ Dead(t, q)
        PROVE  t[q].frame \in F /\ t[t[q].frame].state = "unwind"
    <3>1. q \in 1..f /\ q # f /\ t[q] = s[q] BY <1>1, <1>2, <2>3
    <3>2. s[q].frame \in F /\ s[s[q].frame].state = "unwind" BY <1>1, <2>3, <3>1 DEF Frames
    <3> QED BY <1>1, <1>3, <3>1, <3>2
  <2> QED BY <2>1, <2>2, <2>3 DEF Frames
<1>6. Targets(t, F, A)
  <2>0. \A x : Caught(s, F, A, x) => Caught(t, F, A, x) BY <1>1, <1>3 DEF Caught
  <2>1. ASSUME NEW p \in F, t[p].state = "unwind"
        PROVE  /\ t[p].target <= p /\ Caught(t, F, A, t[p].target)
               /\ t[p].target = p => t[p].phase \in {"body", "landed"}
               /\ t[p].phase \in {"body", "arm"} =>
                    \E q \in p + 1 .. Len(t) : t[q].phase = "drain" /\ t[q].frame = p
    <3>1. p \in 1..f /\ s[p].state = "unwind" BY <1>1, <1>3, <2>1
    <3>2. /\ s[p].target <= p /\ Caught(s, F, A, s[p].target)
          /\ s[p].target = p => s[p].phase \in {"body", "landed"}
          /\ s[p].phase \in {"body", "arm"} =>
               \E q \in p + 1 .. Len(s) : s[q].phase = "drain" /\ s[q].frame = p
      BY <3>1 DEF Targets
    <3>3. CASE p = f BY <1>2, <2>0, <3>2, <3>3
    <3>4. CASE p # f
      <4>1. t[p] = s[p] /\ p < f BY <1>1, <3>1, <3>4
      <4>2. ASSUME s[p].phase \in {"body", "arm"}
            PROVE  \E q \in p + 1 .. Len(t) : t[q].phase = "drain" /\ t[q].frame = p
        <5>1. PICK q \in p + 1 .. Len(s) : s[q].phase = "drain" /\ s[q].frame = p BY <3>2, <4>2
        <5>2. ~ (q > f)
          <6>1. ASSUME q > f PROVE FALSE
            <7>1. q \in f + 1 .. Len(s) BY <1>1, <3>1, <6>1
            <7>2. Dead(s, f) BY <4>1, <5>1, <7>1 DEF Dead
            <7> QED BY <7>2 DEF Frames
          <6> QED BY <6>1
        <5>3. q # f BY <1>2, <5>1
        <5>4. q \in 1..f /\ q \in p + 1 .. Len(t) BY <1>1, <3>1, <5>2
        <5>5. t[q] = s[q] BY <1>1, <5>3, <5>4
        <5> QED BY <5>1, <5>4, <5>5
      <4> QED BY <2>0, <3>2, <4>1, <4>2
    <3> QED BY <3>3, <3>4
  <2>2. t[Len(t)].phase # "transfer" BY <1>1, <1>2
  <2> QED BY <2>1, <2>2 DEF Targets
<1>7. Arms(t, F, A)
  <2>1. ASSUME NEW p \in A PROVE p \in F /\ t[p].handle # <<>> /\ t[p].phase \in {"arm", "landed", "exits"}
    <3>1. p \in F /\ s[p].handle # <<>> /\ s[p].phase \in {"arm", "landed", "exits"} BY DEF Arms
    <3>2. p \in 1..f BY <1>1, <3>1
    <3> QED BY <1>1, <1>2, <1>3, <3>1, <3>2
  <2> QED BY <2>1 DEF Arms
<1> QED BY <1>4, <1>5, <1>6, <1>7

LEMMA LandsOwes ==
  ASSUME NEW s, NEW t, NEW f, NEW F, NEW C, Lands(s, t, f), Frames(s, F), f \in F, Owes(s, C),
         \A p \in C : p < f
  PROVE  Owes(t, C)
<1>1. /\ Len(s) \in Nat \ {0} /\ f \in Nat \ {0} /\ f \in 1..Len(t) /\ Len(t) = f /\ f \in 1..Len(s)
      /\ \A p \in 1..f : p # f => p \in 1 .. f - 1 /\ t[p] = s[p]
      /\ \A p \in 1..f : t[p].kind = s[p].kind /\ p \in 1..Len(s)
      /\ \A p \in 1..f : Dead(t, p) <=> Dead(s, p)
  BY LandsSame
<1>2. s[f].kind = "try" /\ t[f].kind = "try" /\ f < Len(s) BY DEF Lands
<1>3. C = Owing(t)
  <2>1. ASSUME NEW p \in C PROVE p \in Owing(t)
    <3>1. p \in 1..Len(s) /\ Cleaner(s[p]) /\ s[p].runs = 0 BY DEF Owes, Owing
    <3>2. p \in 1..f /\ p # f BY <1>1, <3>1
    <3> QED BY <1>1, <3>1, <3>2 DEF Owing
  <2>2. ASSUME NEW p \in Owing(t) PROVE p \in C
    <3>1. p \in 1..f /\ Cleaner(t[p]) /\ t[p].runs = 0 BY <1>1 DEF Owing
    <3>2. p # f BY <1>2, <3>1 DEF Cleaner
    <3> QED BY <1>1, <3>1, <3>2 DEF Owes, Owing
  <2> QED BY <2>1, <2>2
<1>4. ASSUME NEW p \in 1..Len(t), Cleaner(t[p]), t[p].runs # 0
      PROVE  Dead(t, p) \/ (p < Len(t) /\ t[p].kind = "defer" /\ t[p + 1].kind = "thunk")
  <2>1. p # f BY <1>2, <1>4 DEF Cleaner
  <2>2. p \in 1..f /\ t[p] = s[p] /\ p \in 1..Len(s) BY <1>1, <2>1
  <2>3. p + 1 \in 1..f /\ p < Len(t) BY <1>1, <2>1, <2>2
  <2>4. Dead(s, p) \/ (p < Len(s) /\ s[p].kind = "defer" /\ s[p + 1].kind = "thunk")
    BY <1>4, <2>2 DEF Owes
  <2> QED BY <1>1, <2>2, <2>3, <2>4
<1>5. ASSUME NEW p \in 2..Len(t), t[p].kind = "thunk", ~ t[p].drain PROVE t[p - 1].runs = 1
  <2>1. p # f BY <1>2, <1>5
  <2>2. p \in 1..f /\ p - 1 \in 1..f /\ p - 1 # f /\ p \in 2..Len(s) BY <1>1, <2>1
  <2>3. t[p] = s[p] /\ t[p - 1] = s[p - 1] BY <1>1, <2>1, <2>2
  <2> QED BY <1>5, <2>2, <2>3 DEF Owes
<1> QED BY <1>3, <1>4, <1>5 DEF Owes

LEMMA LandsChains ==
  ASSUME NEW s, NEW t, NEW f, NEW F, NEW A, NEW C, NEW fr, NEW cl, NEW full,
         Lands(s, t, f), Frames(s, F), f \in F, Owes(s, C), \A p \in C : p < f,
         Marks(s, F, fr, cl), Registers(s, full, F, A), Heads(s, full, F), DOMAIN full = 1..Len(full)
  PROVE  Marks(t, F, fr, cl) /\ Registers(t, full, F, A) /\ Heads(t, full, F)
<1>1. /\ Len(s) \in Nat \ {0} /\ f \in Nat \ {0} /\ f \in 1..Len(t) /\ Len(t) = f /\ f \in 1..Len(s)
      /\ \A p \in 1..f : p # f => p \in 1 .. f - 1 /\ t[p] = s[p]
      /\ \A p \in 1..f : t[p].kind = s[p].kind /\ p \in 1..Len(s)
      /\ \A p \in 1..f : Dead(t, p) <=> Dead(s, p)
      /\ \A p \in F : p \in 1..f
  BY LandsSame
<1>2. /\ s[f].kind = "try" /\ t[f].kind = "try" /\ t[f].prev = s[f].prev
      /\ t[f].watermark = s[f].watermark /\ t[f].head = s[f].head /\ t[f].handle = s[f].handle
  BY DEF Lands
<1>3. \A p \in F : t[p].prev = s[p].prev /\ t[p].watermark = s[p].watermark /\ t[p].head = s[p].head
  BY <1>1, <1>2
<1>4. Marks(t, F, fr, cl) BY <1>3 DEF Marks
<1>5. \A p \in 1..f : t[p].handle = s[p].handle /\ (t[p].kind = "watch" => t[p].runs = s[p].runs)
  BY <1>1, <1>2
<1>6. Reg(t, A) = Reg(s, A)
  <2>1. ASSUME NEW p \in Reg(t, A) PROVE p \in Reg(s, A)
    BY <1>1, <1>5 DEF Reg
  <2>2. ASSUME NEW p \in Reg(s, A) PROVE p \in Reg(t, A)
    <3>1. p \in 1..Len(s) BY DEF Reg
    <3>2. p \in 1..f
      <4>1. CASE s[p].kind = "try"
        <5>1. p \in F BY <4>1 DEF Registers
        <5> QED BY <1>1, <5>1
      <4>2. CASE s[p].kind = "watch" /\ s[p].runs = 0
        <5>1. p \in C BY <3>1, <4>2 DEF Owes, Owing, Cleaner
        <5> QED BY <1>1, <3>1, <5>1
      <4> QED BY <4>1, <4>2 DEF Reg
    <3> QED BY <1>1, <1>5, <3>2 DEF Reg
  <2> QED BY <2>1, <2>2
<1>7. \A p \in Reg(s, A) : p \in 1..f BY <1>1, <1>6 DEF Reg
<1>8. Registers(t, full, F, A)
  <2>1. Ids(full) = Reg(t, A) BY <1>6 DEF Registers
  <2>2. ASSUME NEW i \in 1..Len(full) PROVE full[i].kind = "catch" <=> t[full[i].at].kind = "try"
    <3>1. full[i].at \in Ids(full) BY DEF Ids
    <3>2. full[i].at \in 1..f BY <1>6, <1>7, <2>1, <3>1
    <3> QED BY <1>1, <3>2 DEF Registers
  <2>3. ASSUME NEW p \in Reg(t, A) PROVE PathTo(t[p].handle, full, p) /\ (t[p].kind = "try" => p \in F)
    <3>1. p \in Reg(s, A) /\ p \in 1..f BY <1>6, <1>7
    <3>2. PathTo(s[p].handle, full, p) /\ (s[p].kind = "try" => p \in F) BY <3>1 DEF Registers
    <3>3. t[p].handle = s[p].handle /\ t[p].kind = s[p].kind BY <1>1, <1>5, <3>1
    <3> QED BY <3>2, <3>3
  <2> QED BY <2>1, <2>2, <2>3 DEF Registers
<1>9. Heads(t, full, F)
  <2>1. ASSUME NEW p \in 1..Len(t), t[p].kind = "thunk", t[p].drain, ~ Dead(t, p)
        PROVE  CutAt(full, t[p].depth, p)
    <3>1. p \in 1..f /\ p # f BY <1>1, <1>2, <2>1
    <3>2. t[p] = s[p] /\ p \in 1..Len(s) /\ ~ Dead(s, p) BY <1>1, <2>1, <3>1
    <3> QED BY <2>1, <3>2 DEF Heads
  <2>2. \A p \in F : LET h == t[p].head IN
          (h # <<>> /\ Last(h).at = p) \/ (Pre(h, full) /\ CutAt(full, Len(h), p))
    BY <1>3 DEF Heads
  <2> QED BY <2>1, <2>2 DEF Heads
<1> QED BY <1>4, <1>8, <1>9

LEMMA LandsQuiet ==
  ASSUME NEW s, NEW t, NEW f, NEW F, NEW d \in Nat, NEW hs, Lands(s, t, f), Frames(s, F), f \in F,
         Shape(s), \A p \in 1..Len(s) : s[p] \in Activation
  PROVE  Dispatches(t, <<>>, <<>>, hs) /\ Depths(t, d)
<1>1. /\ Len(s) \in Nat \ {0} /\ f \in Nat \ {0} /\ f \in 1..Len(t) /\ Len(t) = f /\ f \in 1..Len(s)
      /\ \A p \in 1..f : p # f => p \in 1 .. f - 1 /\ t[p] = s[p]
      /\ \A p \in 1..f : t[p].kind = s[p].kind /\ p \in 1..Len(s)
      /\ \A p \in 1..f : Dead(t, p) <=> Dead(s, p)
  BY LandsSame
<1>2. t[f].kind = "try" BY DEF Lands
<1>3. \A c \in 1..Len(t) : t[c].kind = "callback" => Dead(t, c)
  <2>1. ASSUME NEW c \in 1..Len(t), t[c].kind = "callback" PROVE Dead(t, c)
    <3>1. c \in 1..f /\ c \in 1 .. f - 1 /\ s[c].kind = "callback" BY <1>1, <1>2, <2>1
    <3>2. Dead(s, c) BY <3>1 DEF Frames
    <3> QED BY <1>1, <3>1, <3>2
  <2> QED BY <2>1
<1>4. Active(t) = {}
  <2>1. ASSUME NEW e \in 1..Len(t), t[e].kind = "dispatch" PROVE Dead(t, e)
    <3>1. e \in 1..f /\ e \in 1 .. f - 1 /\ s[e].kind = "dispatch" BY <1>1, <1>2, <2>1
    <3>2. Dead(s, e) BY <3>1, DispatchDead
    <3> QED BY <1>1, <3>1, <3>2
  <2> QED BY <2>1 DEF Active
<1>5. Cardinality(Active(t)) <= d BY <1>4, FS_EmptySet
<1> QED BY <1>1, <1>2, <1>3, <1>5 DEF Dispatches, Depths

LEMMA LandStep ==
  ASSUME Types, IInv, Land
  PROVE  /\ Types' /\ IInv'
         /\ cleanups = stack[Now.frame].watermark /\ Now.frame \in ToSet(frames)
         /\ \A p \in ToSet(cleanups) : p < Now.frame
         /\ handlers' = handlers
<1> DEFINE F == ToSet(frames)
           A == ToSet(arms)
           f == Now.frame
           b == [stack[f] EXCEPT !.phase = "landed"]
           u == SubSeq(stack, 1, f)
<1>0. /\ Shape(stack) /\ Tries(stack, ToSet(arms)) /\ Frames(stack, ToSet(frames))
      /\ Targets(stack, ToSet(frames), ToSet(arms)) /\ Arms(stack, ToSet(frames), ToSet(arms))
      /\ Owes(stack, ToSet(cleanups)) /\ Marks(stack, ToSet(frames), frames, cleanups)
      /\ Registers(stack, UnwindHead, ToSet(frames), ToSet(arms))
      /\ Heads(stack, UnwindHead, ToSet(frames)) /\ Dispatches(stack, saved, running, handlers)
      /\ Depths(stack, depth) /\ Rising(UnwindHead) /\ Ascending(frames) /\ Ascending(cleanups)
      /\ Ascending(arms)
  BY DEF IInv
<1>4. /\ handlers \in Chain /\ errs \in 0..ERROR_BOUND /\ frames \in Path /\ cleanups \in Path
      /\ depth \in 0..ERROR_MAX_DEPTH /\ arms \in Path /\ saved \in Chain /\ running \in Chain
  BY DEF Types
<1>1. /\ Now = stack[Top] /\ Top \in Nat \ {0} /\ Top = Len(stack) /\ DOMAIN stack = 1..Top
      /\ stack \in Seq(Activation) /\ \A p \in 1..Top : stack[p] \in Activation
  BY <1>0, Stacked DEF Types
<1>2. /\ Now.phase = "drain" /\ cleanups \in {<<>>, stack[f].watermark}
      /\ stack' = [u EXCEPT ![f].phase = "landed"]
      /\ handlers' = (IF IsPrefix(handlers, UnwindHead) THEN UnwindHead ELSE handlers)
      /\ saved' = <<>> /\ running' = <<>> /\ depth' = stack[f].depth
      /\ arms' = arms /\ cleanups' = cleanups /\ frames' = frames /\ errs' = errs
  BY DEF Land
<1>3. Top \in 1..Top /\ Now.kind = "unwind" /\ Now.phase = "drain" BY <1>1, <1>2, KindOf
<1>5. saved = <<>> /\ running = <<>> /\ UnwindHead = handlers BY <1>3, Undispatched
<1>6. f \in 1 .. Top - 1 /\ stack[f].kind = "try" /\ stack[f].phase \in {"body", "arm"} /\ f \in F
      /\ stack[f].state = "unwind"
  <2>1. ~ Dead(stack, Top) BY <1>1 DEF Dead
  <2>2. f \in F /\ stack[f].state = "unwind" BY <1>0, <1>1, <1>2, <1>3, <2>1 DEF Frames
  <2>3. Sits(stack, Top) BY <1>0, <1>1, <1>3 DEF Shape
  <2>4. f \in 1 .. Top - 1 /\ stack[f].kind = "try" /\ stack[f].phase \in {"body", "arm"}
    BY <1>1, <1>2, <2>3 DEF Sits
  <2> QED BY <2>2, <2>4
<1>7. /\ stack[f] \in TryType /\ stack[f].watermark \in Path /\ stack[f].depth \in 0..ERROR_MAX_DEPTH
      /\ Pre(stack[f].watermark, cleanups) /\ Cut(cleanups, Len(stack[f].watermark), f)
  BY <1>6, FrameIs
<1>8. stack[f].watermark = cleanups /\ \A p \in ToSet(cleanups) : p < f
  <2> HIDE DEF f
  <2>1. Len(cleanups) \in Nat /\ DOMAIN cleanups = 1..Len(cleanups) BY <1>4 DEF Path
  <2>2. \A i \in 1..Len(cleanups) : cleanups[i] < f
    <3>1. CASE cleanups = <<>> BY <3>1
    <3>2. CASE cleanups = stack[f].watermark BY <1>7, <2>1, <3>2 DEF Cut
    <3> QED BY <1>2, <3>1, <3>2
  <2>3. f \in Nat BY <1>1, <1>6
  <2>4. stack[f].watermark = cleanups BY <1>4, <1>7, <2>2, <2>3, WholePath
  <2> QED BY <2>1, <2>2, <2>4 DEF ToSet
<1>9. handlers' = handlers BY <1>2, <1>5
<1>10. b \in TryType /\ b \in Activation BY <1>7 DEF TryType, Activation
<1>11. /\ u \in Seq(Activation) /\ Len(u) = f /\ \A p \in 1..f : u[p] = stack[p]
  BY <1>1, <1>6
<1>12. stack' = [u EXCEPT ![f] = b]
  <2>1. u[f] = stack[f] /\ f \in DOMAIN u BY <1>1, <1>6, <1>11
  <2> QED BY <1>2, <2>1
<1>13. /\ b.phase = "landed" /\ b.kind = stack[f].kind /\ b.handle = stack[f].handle
       /\ b.fin = stack[f].fin /\ b.state = stack[f].state /\ b.target = stack[f].target
       /\ b.claimed = stack[f].claimed /\ b.runs = stack[f].runs /\ b.prev = stack[f].prev
       /\ b.watermark = stack[f].watermark /\ b.head = stack[f].head
  BY <1>7 DEF TryType
<1> HIDE DEF b, u, f
<1>14. /\ stack' \in Seq(Activation) /\ Len(stack') = f /\ stack'[f] = b
       /\ \A p \in 1 .. f - 1 : stack'[p] = stack[p]
  BY <1>6, <1>10, <1>11, <1>12
<1>15. \A q \in 1..Len(stack) : stack[q].phase = "drain" => stack[q].frame \in Nat
  BY <1>1, KindOf DEF DrainType
<1>16. Lands(stack, stack', f)
  <2>1. stack[Len(stack)].phase = "drain" /\ stack[Len(stack)].frame = f /\ stack[Len(stack)].kind = "unwind"
    BY <1>1, <1>3 DEF f
  <2>2. Len(stack) \in Nat \ {0} /\ f \in 1 .. Len(stack) - 1 BY <1>1, <1>6
  <2> QED BY <1>6, <1>13, <1>14, <1>15, <2>1, <2>2 DEF Lands
<1>17. Shape(stack') BY <1>0, <1>6, <1>16, LandsShape
<1>18. Tries(stack', A) /\ Frames(stack', F) /\ Targets(stack', F, A) /\ Arms(stack', F, A)
  <2>1. \A p \in F : p \in Nat /\ (stack[p].state = "unwind" => stack[p].target \in Nat)
    BY <1>1, FrameIs DEF TryType
  <2> QED BY <1>0, <1>6, <1>16, <2>1, LandsRest
<1>19. Owes(stack', ToSet(cleanups)) BY <1>0, <1>6, <1>8, <1>16, LandsOwes
<1>20. /\ Marks(stack', F, frames, cleanups) /\ Registers(stack', UnwindHead, F, A)
       /\ Heads(stack', UnwindHead, F)
  <2>1. DOMAIN UnwindHead = 1..Len(UnwindHead) BY Sizes
  <2> QED BY <1>0, <1>6, <1>8, <1>16, <2>1, LandsChains
<1>21. Dispatches(stack', <<>>, <<>>, handlers) /\ Depths(stack', depth')
  <2>1. depth' \in Nat BY <1>2, <1>7 DEF f
  <2>2. \A p \in 1..Len(stack) : stack[p] \in Activation BY <1>1
  <2> QED BY <1>0, <1>6, <1>16, <2>1, <2>2, LandsQuiet
<1>22. UnwindHead' = UnwindHead BY <1>2, <1>5, <1>9 DEF UnwindHead
<1>23. Types'
  <2>1. depth' \in 0..ERROR_MAX_DEPTH BY <1>2, <1>7
  <2>2. saved' \in Chain /\ running' \in Chain BY <1>2 DEF Chain
  <2>3. /\ handlers' \in Chain /\ arms' \in Path /\ cleanups' \in Path /\ frames' \in Path
        /\ errs' \in 0..ERROR_BOUND
    BY <1>2, <1>4, <1>9
  <2> QED BY <1>14, <2>1, <2>2, <2>3 DEF Types
<1>24. IInv' BY <1>0, <1>2, <1>9, <1>17, <1>18, <1>19, <1>20, <1>21, <1>22 DEF IInv, F, A
<1> QED BY <1>6, <1>8, <1>9, <1>23, <1>24 DEF f

-----------------------------------------------------------------------------
(* The invariant *)

LEMMA InitHolds ==
  ASSUME Init
  PROVE  Types /\ IInv
<1> DEFINE m == [kind |-> "main", phase |-> "body"]
<1>1. /\ stack = <<m>> /\ handlers = <<>> /\ saved = <<>> /\ running = <<>> /\ arms = <<>>
      /\ cleanups = <<>> /\ frames = <<>> /\ errs = 0 /\ depth = 0
  BY DEF Init
<1>2. m \in Activation /\ m.kind = "main" /\ m.phase = "body" BY DEF Activation, MainType
<1> HIDE DEF m
<1>3. /\ stack \in Seq(Activation) /\ Len(stack) = 1 /\ stack[1] = m
      /\ \A p \in 1..Len(stack) : p = 1
  BY <1>1, <1>2
<1>4. Types BY <1>1, <1>3, BoundsAssumption DEF Types, Chain, Path
<1>5. ToSet(frames) = {} /\ ToSet(arms) = {} /\ ToSet(cleanups) = {} BY <1>1 DEF ToSet
<1>6. UnwindHead = <<>> BY <1>1 DEF UnwindHead
<1>7. Shape(stack) BY <1>2, <1>3 DEF Shape, Sits
<1>8. Tries(stack, {}) /\ Frames(stack, {}) /\ Targets(stack, {}, {}) /\ Arms(stack, {}, {})
  BY <1>2, <1>3 DEF Tries, Frames, Targets, Arms
<1>9. Owes(stack, {}) BY <1>2, <1>3 DEF Owes, Owing, Cleaner
<1>10. Marks(stack, {}, frames, cleanups) BY DEF Marks
<1>11. Registers(stack, <<>>, {}, {})
  <2>1. Reg(stack, {}) = {} BY <1>2, <1>3 DEF Reg
  <2>2. Ids(<<>>) = {} BY DEF Ids
  <2>3. Len(<<>>) = 0 /\ \A i \in 1..0 : FALSE OBVIOUS
  <2>4. \A p \in {} : FALSE OBVIOUS
  <2> QED BY <2>1, <2>2, <2>3, <2>4, Zenon DEF Registers
<1>12. Heads(stack, <<>>, {}) BY <1>2, <1>3 DEF Heads
<1>13. Dispatches(stack, <<>>, <<>>, <<>>) BY <1>2, <1>3 DEF Dispatches
<1>14. Depths(stack, 0)
  <2>1. Active(stack) = {} BY <1>2, <1>3 DEF Active
  <2> QED BY <2>1, FS_EmptySet DEF Depths
<1>15. Ascending(<<>>) /\ Rising(<<>>) BY DEF Ascending, Rising
<1> QED BY <1>1, <1>4, <1>5, <1>6, <1>7, <1>8, <1>9, <1>10, <1>11, <1>12, <1>13, <1>14, <1>15 DEF IInv

LEMMA NextKeeps ==
  ASSUME Types, IInv, OnlyDefers, [Next]_vars
  PROVE  Types' /\ IInv'
<1>1. CASE UNCHANGED vars
  <2>1. UNCHANGED <<stack, chains, cleanups, frames, errs, depth>> BY <1>1 DEF vars, chains
  <2> QED BY <2>1, Unmoved
<1>2. CASE \E k \in {"catch", "finally", "both"} : OpenTry(k) BY <1>2, OpenTryStep
<1>3. CASE OpenDefer BY <1>3, OpenDeferStep
<1>4. CASE OpenWatch BY <1>4, OpenWatchStep
<1>5. CASE \E code \in {"hard", "soft"} : Raise(code) BY <1>5, RaiseStep
<1>6. CASE CatchDeclines BY <1>6, CatchDeclinesStep
<1>7. CASE CatchSelects BY <1>7, CatchSelectsStep
<1>8. CASE Observe BY <1>8, ObserveStep
<1>9. CASE Handled BY <1>9, HandledStep
<1>10. CASE \E disposition \in {"offer", "handled"} : CallbackReturns(disposition)
  BY <1>10, CallbackReturnsStep
<1>11. CASE \E policy \in {"abort", "ignore", "collect"} : ApplyPolicy(policy) BY <1>11, ApplyPolicyStep
<1>12. CASE Abandon BY <1>12, AbandonStep
<1>13. CASE Unwind BY <1>13, UnwindStep
<1>14. CASE DrainDefer BY <1>14, DrainDeferStep
<1>15. CASE DrainView BY <1>15, DrainViewStep
<1>16. CASE DrainWatch BY <1>16, DrainWatchStep
<1>17. CASE DrainedDefer BY <1>17, DrainedDeferStep
<1>18. CASE Land BY <1>18, LandStep
<1>19. CASE SelectArm BY <1>19, SelectArmStep
<1>20. CASE LandElsewhere BY <1>20, LandElsewhereStep
<1>21. CASE EndBody BY <1>21, EndBodyStep
<1>22. CASE Exits BY <1>22, ExitsStep
<1>23. CASE EndFinally BY <1>23, EndFinallyStep
<1>24. CASE DepartFinally BY <1>24, DepartFinallyStep
<1>25. CASE Leave BY <1>25, LeaveStep
<1>26. CASE EndDefer BY <1>26, EndDeferStep
<1>27. CASE DeferLeft BY <1>27, DeferLeftStep
<1>28. CASE EndWatch BY <1>28, EndWatchStep
<1> QED BY <1>1, <1>2, <1>3, <1>4, <1>5, <1>6, <1>7, <1>8, <1>9, <1>10, <1>11, <1>12, <1>13, <1>14,
           <1>15, <1>16, <1>17, <1>18, <1>19, <1>20, <1>21, <1>22, <1>23, <1>24, <1>25, <1>26, <1>27,
           <1>28 DEF Next

\* The frames, the cleanup records, the running arms, the handler chain and the
\* saved chain of a dispatch match the activations of the C stack in every
\* state: raises, callbacks, drains and abandoned finalizers included.
THEOREM StackInvariant == ASSUME OnlyDefers PROVE Spec => [](Types /\ IInv)
<1>1. Init => Types /\ IInv BY InitHolds
<1>2. (Types /\ IInv) /\ [Next]_vars => (Types /\ IInv)' BY NextKeeps
<1> QED BY <1>1, <1>2, PTL DEF Spec

(* A prefix of a rising chain is one, and names nothing else. *)
LEMMA PrefixRises ==
  ASSUME NEW q \in Chain, NEW r \in Chain, Rising(q), Pre(r, q)
  PROVE  /\ Ascending([i \in DOMAIN r |-> r[i].at]) /\ Ids(r) \subseteq Ids(q)
<1>1. Len(q) \in Nat /\ DOMAIN q = 1..Len(q) /\ Len(r) \in Nat /\ DOMAIN r = 1..Len(r)
  BY ChainElements
<1>2. Len(r) <= Len(q) /\ \A i \in 1..Len(r) : r[i] = q[i] BY DEF Pre
<1>3. \A i \in 1..Len(r) : i \in 1..Len(q) BY <1>1, <1>2
<1> QED BY <1>1, <1>2, <1>3 DEF Ascending, Ids, Rising

LEMMA SavedPrefixes ==
  ASSUME Types, IInv
  PROVE  /\ Pre(handlers, UnwindHead) /\ Pre(saved, UnwindHead) /\ Pre(running, UnwindHead)
         /\ saved = <<>> => running = <<>> /\ UnwindHead = handlers
         /\ saved # <<>> => UnwindHead = saved
<1>1. Dispatches(stack, saved, running, handlers) BY DEF IInv
<1>2. /\ saved = <<>> => UnwindHead = handlers
      /\ saved # <<>> => UnwindHead = saved
  BY DEF UnwindHead
<1>3. Len(handlers) \in Nat /\ Len(saved) \in Nat BY DEF Types, Chain
<1>4. Pre(handlers, handlers) /\ Pre(saved, saved) BY <1>3 DEF Pre
<1>5. Pre(<<>>, handlers) BY <1>3 DEF Pre
<1> QED BY <1>1, <1>2, <1>4, <1>5 DEF Dispatches

LEMMA TypesOK ==
  ASSUME Types, IInv
  PROVE  TypeOK
<1>0. Top \in Nat BY Stacked DEF IInv
<1>1. /\ Rising(UnwindHead) /\ Ascending(frames) /\ Ascending(cleanups) /\ Ascending(arms)
  BY DEF IInv
<1>2. UnwindHead \in Chain /\ \A y \in Ids(UnwindHead) : y \in 1..Top BY Within
<1>3. \A chain \in {handlers, saved, running} : chain \in Chain /\ Pre(chain, UnwindHead)
  BY SavedPrefixes DEF Types
<1>4. ASSUME NEW chain \in {handlers, saved, running}
      PROVE  Ascending([i \in DOMAIN chain |-> chain[i].at]) /\ Ids(chain) \subseteq 1..Top
  <2>1. chain \in Chain /\ Pre(chain, UnwindHead) BY <1>3
  <2>2. Ascending([i \in DOMAIN chain |-> chain[i].at]) /\ Ids(chain) \subseteq Ids(UnwindHead)
    BY <1>1, <1>2, <2>1, PrefixRises
  <2> QED BY <1>2, <2>2
<1>5. ToSet(arms) \subseteq 1..Top
  <2>1. Arms(stack, ToSet(frames), ToSet(arms)) BY DEF IInv
  <2>2. \A p \in ToSet(arms) : p \in ToSet(frames) BY <2>1 DEF Arms
  <2> QED BY <2>2, Within
<1>6. ToSet(cleanups) \subseteq 1..Top /\ ToSet(frames) \subseteq 1..Top BY Within
<1> QED BY <1>1, <1>4, <1>5, <1>6 DEF TypeOK, Types

LEMMA FramesAreExact ==
  ASSUME Types, IInv
  PROVE  FramesExact
<1> SUFFICES ASSUME Coding PROVE ToSet(frames) = Entered /\ ToSet(cleanups) = Owed BY DEF FramesExact
<1>0. /\ Shape(stack) /\ Frames(stack, ToSet(frames)) /\ Owes(stack, ToSet(cleanups)) BY DEF IInv
<1>1. Top = Len(stack) BY <1>0, Stacked
<1>2. ToSet(cleanups) = Owed BY <1>0, <1>1 DEF Owes, Owing, Cleaner, Owed, At
<1>3. \A p \in 1..Top : Live(p) <=> ~ Dead(stack, p) BY <1>0, LiveIs
<1>4. Entered = {p \in 1..Top : stack[p].kind = "try" /\ Live(p)} BY DEF Entered, At
<1>5. \A p \in 1..Top : stack[p].kind = "try" /\ p \notin ToSet(frames) => Dead(stack, p) BY Coded
<1>6. \A p \in ToSet(frames) : p \in 1..Top /\ stack[p].kind = "try" /\ ~ Dead(stack, p)
  BY <1>0, <1>1 DEF Frames
<1>7. ASSUME NEW p \in ToSet(frames) PROVE p \in Entered BY <1>3, <1>4, <1>6
<1>8. ASSUME NEW p \in Entered PROVE p \in ToSet(frames) BY <1>3, <1>4, <1>5
<1> QED BY <1>2, <1>7, <1>8

LEMMA ChainsAreExact ==
  ASSUME Types, IInv
  PROVE  ChainsExact
<1> DEFINE A == ToSet(arms)
           F == ToSet(frames)
<1> SUFFICES ASSUME Coding
             PROVE  /\ Ids(handlers) \cup Hidden = Registered
                    /\ Ids(handlers) \cap Hidden = {}
                    /\ A = InArm
  BY DEF ChainsExact
<1>0. /\ Shape(stack) /\ Tries(stack, A) /\ Arms(stack, F, A) /\ Rising(UnwindHead)
      /\ Registers(stack, UnwindHead, F, A) /\ Dispatches(stack, saved, running, handlers)
  BY DEF IInv
<1>1. /\ Top = Len(stack) /\ Top \in Nat \ {0} /\ Now = stack[Top]
      /\ \A p \in 1..Top : stack[p] \in Activation
  BY <1>0, Stacked
<1>2. Now.phase \in {"body", "arm", "finally"} /\ Now.kind \notin {"dispatch", "unwind"} BY Coded
<1>3. ASSUME NEW p \in 1..Top, stack[p].kind = "try"
      PROVE  /\ stack[p].phase \in {"body", "arm", "finally"}
             /\ TryOK(stack[p], p \in A)
  <2>1. CASE p = Top
    <3>1. stack[p].phase \in {"body", "arm", "finally"} BY <1>1, <1>2, <2>1
    <3> QED BY <1>0, <1>1, <1>3, <3>1 DEF Tries
  <2>2. CASE p # Top
    <3>1. p + 1 \in 1..Top /\ (p + 1) - 1 = p /\ p + 1 > 1 BY <1>1, <2>2
    <3>2. Sits(stack, p + 1) BY <1>0, <1>1, <3>1 DEF Shape
    <3>3. stack[p].phase \in {"body", "arm", "finally", "offer", "drain"} BY <3>1, <3>2 DEF Sits
    <3>4. stack[p] \in TryType BY <1>1, <1>3, KindOf
    <3>5. stack[p].phase \in {"body", "arm", "finally"} BY <3>3, <3>4 DEF TryType
    <3> QED BY <1>0, <1>1, <1>3, <3>5 DEF Tries
  <2> QED BY <2>1, <2>2
<1>4. ASSUME NEW p \in 1..Top
      PROVE  p \in A <=> stack[p].phase = "arm"
  <2>1. ASSUME p \in A PROVE stack[p].phase = "arm"
    <3>1. stack[p].phase \in {"arm", "landed", "exits"} BY <1>0, <2>1 DEF Arms
    <3>2. stack[p].kind = "try"
      <4>1. p \in F BY <1>0, <2>1 DEF Arms
      <4> QED BY <4>1, Within
    <3> QED BY <1>3, <3>1, <3>2
  <2>2. ASSUME stack[p].phase = "arm" PROVE p \in A
    <3>1. stack[p].kind = "try"
      BY <1>1, <2>2 DEF Activation, MainType, DeferType, WatchType, DispatchType, CallbackType,
         TransferType, DrainType, BodyType, DrainedType, TryType
    <3> QED BY <1>3, <2>2, <3>1 DEF TryOK
  <2> QED BY <2>1, <2>2
<1>5. \A p \in A : p \in 1..Top
  <2>1. \A p \in A : p \in F BY <1>0 DEF Arms
  <2> QED BY <2>1, Within
<1>6. A = InArm
  <2>1. InArm = {p \in 1..Top : stack[p].phase = "arm"} BY DEF InArm, At
  <2> QED BY <1>4, <1>5, <2>1
<1>7. Reg(stack, A) = Registered
  <2>1. \A p : p \in Registered <=>
          /\ p \in 1..Top
          /\ \/ stack[p].kind = "watch" /\ stack[p].runs = 0
             \/ stack[p].kind = "try" /\ stack[p].phase = "body" /\ stack[p].handle # <<>>
    BY DEF Registered, At
  <2>2. ASSUME NEW p \in 1..Top, stack[p].kind = "try", stack[p].handle # <<>>
        PROVE  p \notin A <=> stack[p].phase = "body"
    <3>1. stack[p].phase # "finally" BY <1>3, <2>2 DEF TryOK
    <3> QED BY <1>3, <1>4, <2>2, <3>1
  <2>3. \A p : p \in Reg(stack, A) <=>
          /\ p \in 1..Top
          /\ \/ stack[p].kind = "watch" /\ stack[p].runs = 0
             \/ stack[p].kind = "try" /\ stack[p].handle # <<>> /\ p \notin A
    BY <1>1 DEF Reg
  <2> HIDE DEF A
  <2> QED BY <2>1, <2>2, <2>3
<1>8. Ids(UnwindHead) = Registered BY <1>0, <1>7 DEF Registers
<1>9. CASE saved = <<>>
  <2>1. running = <<>> /\ UnwindHead = handlers BY <1>9, SavedPrefixes
  <2>2. Hidden = {} BY <2>1 DEF Hidden
  <2> QED BY <1>6, <1>8, <2>1, <2>2
<1>10. CASE saved # <<>>
  <2>1. UnwindHead = saved BY <1>10, SavedPrefixes
  <2>2. PICK d \in 1..Len(stack) : Dispatching(stack, d, saved, running, handlers)
    BY <1>0, <1>10 DEF Dispatches
  <2>3. stack[Len(stack)].kind # "dispatch" BY <1>1, <1>2
  <2>4. PICK c \in d + 1 .. Len(stack) : /\ Inner(stack, c, Len(stack) + 1)
                                         /\ running = stack[c - 1].offer /\ handlers = Front(running)
    BY <2>2, <2>3 DEF Dispatching
  <2>5. running # <<>>
    <3>1. stack[c].kind = "callback" BY <2>4 DEF Inner
    <3> QED BY <2>2, <2>4, <3>1 DEF Dispatching
  <2>6. Pre(running, saved) BY <2>1, SavedPrefixes
  <2>7. saved \in Chain /\ running \in Chain BY DEF Types
  <2>8. /\ Len(handlers) = Len(running) - 1 /\ Len(running) \in Nat \ {0}
        /\ \A i \in 1 .. Len(running) - 1 : handlers[i] = running[i]
        /\ Last(running) = running[Len(running)] /\ handlers \in Chain
    BY <2>4, <2>5, <2>7, FrontFacts DEF Chain
  <2>9. /\ Len(saved) \in Nat /\ DOMAIN saved = 1..Len(saved) /\ DOMAIN handlers = 1..Len(handlers)
        /\ \A i \in 1..Len(saved) : saved[i].at \in Nat
    BY <2>7, <2>8, ChainElements
  <2> DEFINE n == Len(running)
  <2>10. n \in 1..Len(saved) /\ n \in Nat \ {0} /\ Last(running) = saved[n]
         /\ \A i \in 1 .. n - 1 : i \in 1..Len(saved) /\ handlers[i] = saved[i]
    <3>1. n <= Len(saved) /\ \A i \in 1..n : running[i] = saved[i] BY <2>6 DEF Pre
    <3>2. n \in Nat \ {0} /\ n \in 1..Len(saved) /\ n \in 1..n BY <2>8, <2>9, <3>1
    <3>3. \A i \in 1 .. n - 1 : i \in 1..Len(saved) /\ i \in 1..n BY <2>9, <3>1, <3>2
    <3> QED BY <2>8, <3>1, <3>2, <3>3
  <2>11. Hidden = {saved[i].at : i \in {j \in 1..Len(saved) : saved[j].at >= saved[n].at}}
    BY <2>5, <2>9, <2>10 DEF Hidden
  <2>12. Ids(handlers) = {saved[i].at : i \in 1 .. n - 1} BY <2>8, <2>9, <2>10 DEF Ids
  <2> HIDE DEF n
  <2>13. \A i, j \in 1..Len(saved) : i < j => saved[i].at < saved[j].at BY <1>0, <2>1 DEF Rising
  <2>14. {j \in 1..Len(saved) : saved[j].at >= saved[n].at} = n..Len(saved)
    BY <2>9, <2>10, <2>13
  <2>15. Ids(saved) = {saved[i].at : i \in 1..Len(saved)} BY <2>9 DEF Ids
  <2>16. Hidden = {saved[i].at : i \in n..Len(saved)} BY <2>11, <2>14
  <2>17. Ids(handlers) \cup Hidden = Ids(saved)
    <3>1. 1..Len(saved) = (1 .. n - 1) \cup (n..Len(saved)) BY <2>9, <2>10
    <3> QED BY <2>12, <2>15, <2>16, <3>1
  <2>18. Ids(handlers) \cap Hidden = {}
    <3>1. SUFFICES ASSUME NEW i \in 1 .. n - 1, NEW j \in n..Len(saved), saved[i].at = saved[j].at
                   PROVE  FALSE
      BY <2>12, <2>16
    <3>2. i \in 1..Len(saved) /\ j \in 1..Len(saved) /\ i < j BY <2>9, <2>10
    <3> QED BY <2>9, <2>13, <3>1, <3>2
  <2> QED BY <1>6, <1>8, <2>1, <2>17, <2>18
<1> QED BY <1>9, <1>10

-----------------------------------------------------------------------------
(* No order check of the runtime fires. *)

LEMMA TopOwed ==
  ASSUME Types, IInv, Cleaner(Now), Now.phase = "body"
  PROVE  Now.runs = 0 /\ Top \in ToSet(cleanups) /\ cleanups # <<>> /\ Last(cleanups) = Top
<1>1. Shape(stack) /\ Owes(stack, ToSet(cleanups)) BY DEF IInv
<1>2. Top = Len(stack) /\ Top \in Nat \ {0} /\ Now = stack[Top] BY <1>1, Stacked
<1>3. ~ Dead(stack, Top) /\ Top \in 1..Len(stack) BY <1>2 DEF Dead
<1>4. Now.runs = 0 BY <1>1, <1>2, <1>3 DEF Owes
<1>5. Top \in ToSet(cleanups) BY <1>1, <1>2, <1>3, <1>4 DEF Owes, Owing
<1> QED BY <1>4, <1>5, CleanupOnTop

LEMMA TopRegistered ==
  ASSUME Types, IInv, saved = <<>>, Top \in Reg(stack, ToSet(arms))
  PROVE  handlers = Now.handle
<1>1. /\ Shape(stack) /\ Registers(stack, UnwindHead, ToSet(frames), ToSet(arms)) /\ Rising(UnwindHead)
  BY DEF IInv
<1>2. Top = Len(stack) /\ Now = stack[Top] BY <1>1, Stacked
<1>3. UnwindHead = handlers BY DEF UnwindHead
<1>4. PathTo(Now.handle, handlers, Top) BY <1>1, <1>2, <1>3 DEF Registers
<1>5. Now.handle \in Chain /\ handlers \in Chain BY <1>1, <1>2, HandlesAre DEF Types
<1>6. \A y \in Ids(handlers) : y <= Last(Now.handle).at
  <2>1. \A y \in Ids(handlers) : y \in 1..Top BY <1>3, Within
  <2>2. Top \in Nat BY <1>1, Stacked
  <2> QED BY <1>4, <2>1, <2>2 DEF PathTo
<1>7. Now.handle # <<>> /\ Pre(Now.handle, handlers) /\ Rising(handlers) BY <1>1, <1>3, <1>4 DEF PathTo
<1> QED BY <1>5, <1>6, <1>7, WholeChain

LEMMA TopHandle ==
  ASSUME Types, IInv, Now.kind = "try", Now.handle # <<>>, Top \notin ToSet(arms)
  PROVE  handlers = Now.handle
<1>1. saved = <<>> /\ Now = stack[Top] /\ Top \in Nat \ {0} /\ Top = Len(stack) BY TopTry
<1>2. Top \in Reg(stack, ToSet(arms)) BY <1>1 DEF Reg
<1> QED BY <1>1, <1>2, TopRegistered

LEMMA CallbackReturnsEnds ==
  ASSUME Types, IInv, NEW disposition, CallbackReturns(disposition)
  PROVE  floor' = floor
<1>1. Coding /\ Now.kind = "callback" BY DEF CallbackReturns
<1>2. Now.phase = "body"
  <2>1. Now \in Activation BY Stacked DEF IInv
  <2>2. Now \in CallbackType BY <1>1, <2>1, KindOf
  <2> QED BY <2>2 DEF CallbackType
<1>3. cleanups # <<>> /\ Last(cleanups) = Top BY <1>1, <1>2, TopOwed DEF Cleaner
<1> QED BY <1>3 DEF CallbackReturns

LEMMA EndDeferEnds ==
  ASSUME Types, IInv, EndDefer
  PROVE  floor' = floor
<1>1. Coding /\ Now.kind = "defer" BY DEF EndDefer
<1>2. Now.phase = "body"
  <2>1. Now \in Activation BY Stacked DEF IInv
  <2>2. Now \in DeferType BY <1>1, <2>1, KindOf
  <2> QED BY <2>2 DEF DeferType
<1>3. cleanups # <<>> /\ Last(cleanups) = Top BY <1>1, <1>2, TopOwed DEF Cleaner
<1> QED BY <1>3 DEF EndDefer

LEMMA EndWatchEnds ==
  ASSUME Types, IInv, EndWatch
  PROVE  floor' = floor
<1>1. Coding /\ Now.kind = "watch" BY DEF EndWatch
<1>2. Now.phase = "body"
  <2>1. Now \in Activation BY Stacked DEF IInv
  <2>2. Now \in WatchType BY <1>1, <2>1, KindOf
  <2> QED BY <2>2 DEF WatchType
<1>3. Now.runs = 0 /\ cleanups # <<>> /\ Last(cleanups) = Top BY <1>1, <1>2, TopOwed DEF Cleaner
<1>4. saved = <<>> BY <1>1, Undispatched
<1>5. Top \in Reg(stack, ToSet(arms))
  <2>1. Top = Len(stack) /\ Top \in Nat \ {0} /\ Now = stack[Top] BY Stacked DEF IInv
  <2> QED BY <1>1, <1>3, <2>1 DEF Reg
<1>6. handlers = Now.handle BY <1>4, <1>5, TopRegistered
<1> QED BY <1>3, <1>6 DEF EndWatch

LEMMA UnwindEnds ==
  ASSUME Types, IInv, Unwind
  PROVE  floor' = floor
<1>1. Transferring BY DEF Unwind
<1>2. Now.target \in ToSet(frames) BY <1>1, Landing
<1> QED BY <1>2 DEF Unwind

LEMMA DrainWatchEnds ==
  ASSUME Types, IInv, DrainWatch
  PROVE  floor' = floor
<1>1. Draining /\ Owner.kind = "watch" BY DEF DrainWatch
<1>2. handlers = Owner.handle BY <1>1, Drawn DEF Owner
<1> QED BY <1>2 DEF DrainWatch

LEMMA LandEnds ==
  ASSUME Types, IInv, Land
  PROVE  floor' = "none"
<1>1. cleanups = stack[Now.frame].watermark BY LandStep
<1> QED BY <1>1 DEF Land

LEMMA SelectArmEnds ==
  ASSUME Types, IInv, SelectArm
  PROVE  floor' = floor
<1>1. Now.phase = "landed" /\ HasCatch /\ IsTarget BY DEF SelectArm, Landed
<1>2. Now.kind = "try" BY <1>1, TryPhases
<1>3. Now.handle # <<>> /\ Top \notin ToSet(arms) BY <1>1, <1>2, TopTry DEF IsTarget, HasCatch, Caught
<1>4. handlers = Now.handle BY <1>2, <1>3, TopHandle
<1> QED BY <1>4 DEF SelectArm

LEMMA ExitsEnds ==
  ASSUME Types, IInv, Exits
  PROVE  floor' = floor
<1>1. Now.phase = "exits" BY DEF Exits
<1>2. Now.kind = "try" BY <1>1, TryPhases
<1>3. CASE Now.claimed BY <1>3 DEF Exits
<1>4. CASE ~ Now.claimed
  <2>1. HasCatch /\ Detached => Last(arms) = Top
    <3>1. SUFFICES ASSUME Top \in ToSet(arms) PROVE Last(arms) = Top BY DEF Detached
    <3>2. arms \in Path /\ Ascending(arms) BY DEF Types, IInv
    <3>3. arms # <<>> BY <3>1 DEF ToSet
    <3>4. Last(arms) \in ToSet(arms) /\ \A y \in ToSet(arms) : y <= Last(arms) BY <3>2, <3>3, FrontPath
    <3>5. Last(arms) \in 1..Top
      <4>1. Arms(stack, ToSet(frames), ToSet(arms)) BY DEF IInv
      <4>2. Last(arms) \in ToSet(frames) BY <3>4, <4>1 DEF Arms
      <4> QED BY <4>2, Within
    <3> QED BY <1>2, <3>1, <3>4, <3>5, TopTry
  <2>2. HasCatch /\ ~ Detached => handlers = Now.handle BY <1>2, TopHandle DEF HasCatch, Detached
  <2>3. ~ (HasCatch /\ (IF Detached THEN Last(arms) # Top ELSE handlers # Now.handle)) BY <2>1, <2>2
  <2> QED BY <1>4, <2>3 DEF Exits
<1> QED BY <1>3, <1>4

LEMMA LeaveEnds ==
  ASSUME Types, IInv, Leave
  PROVE  floor' = floor
<1>1. Now.phase = "leave" BY DEF Leave
<1>2. cleanups = Now.watermark BY <1>1, Leaving
<1> QED BY <1>2 DEF Leave

LEMMA EndsOrderly ==
  ASSUME Types, IInv, NoImbalance, [Next]_vars
  PROVE  NoImbalance'
<1> SUFFICES floor' = floor \/ floor' \in {"none", "uncaught", "raise re-entered", "error stack exceeded its bound"}
  BY DEF NoImbalance
<1>1. CASE UNCHANGED vars BY <1>1 DEF vars
<1>2. CASE \E k \in {"catch", "finally", "both"} : OpenTry(k) BY <1>2 DEF OpenTry
<1>3. CASE OpenDefer BY <1>3 DEF OpenDefer
<1>4. CASE OpenWatch BY <1>4 DEF OpenWatch
<1>5. CASE \E code \in {"hard", "soft"} : Raise(code)
  <2>1. PICK code \in {"hard", "soft"} : Raise(code) BY <1>5
  <2>2. CASE depth >= ERROR_MAX_DEPTH BY <2>1, <2>2 DEF Raise, Fatal
  <2>3. CASE ~ (depth >= ERROR_MAX_DEPTH) /\ errs >= ERROR_BOUND BY <2>1, <2>3 DEF Raise, Recorded, Fatal
  <2>4. CASE ~ (depth >= ERROR_MAX_DEPTH) /\ ~ (errs >= ERROR_BOUND)
    BY <2>1, <2>4 DEF Raise, Recorded, Dispatched
  <2> QED BY <2>2, <2>3, <2>4
<1>6. CASE CatchDeclines BY <1>6 DEF CatchDeclines
<1>7. CASE CatchSelects BY <1>7 DEF CatchSelects
<1>8. CASE Observe BY <1>8 DEF Observe
<1>9. CASE Handled BY <1>9 DEF Handled, Fatal
<1>10. CASE \E disposition \in {"offer", "handled"} : CallbackReturns(disposition)
  BY <1>10, CallbackReturnsEnds
<1>11. CASE \E policy \in {"abort", "ignore", "collect"} : ApplyPolicy(policy)
  BY <1>11 DEF ApplyPolicy, Fatal
<1>12. CASE Abandon BY <1>12 DEF Abandon
<1>13. CASE Unwind BY <1>13, UnwindEnds
<1>14. CASE DrainDefer BY <1>14 DEF DrainDefer
<1>15. CASE DrainView BY <1>15 DEF DrainView
<1>16. CASE DrainWatch BY <1>16, DrainWatchEnds
<1>17. CASE DrainedDefer BY <1>17 DEF DrainedDefer
<1>18. CASE Land BY <1>18, LandEnds
<1>19. CASE SelectArm BY <1>19, SelectArmEnds
<1>20. CASE LandElsewhere BY <1>20 DEF LandElsewhere
<1>21. CASE EndBody BY <1>21 DEF EndBody
<1>22. CASE Exits BY <1>22, ExitsEnds
<1>23. CASE EndFinally BY <1>23 DEF EndFinally
<1>24. CASE DepartFinally BY <1>24 DEF DepartFinally
<1>25. CASE Leave BY <1>25, LeaveEnds
<1>26. CASE EndDefer BY <1>26, EndDeferEnds
<1>27. CASE DeferLeft BY <1>27 DEF DeferLeft
<1>28. CASE EndWatch BY <1>28, EndWatchEnds
<1> QED BY <1>1, <1>2, <1>3, <1>4, <1>5, <1>6, <1>7, <1>8, <1>9, <1>10, <1>11, <1>12, <1>13, <1>14,
           <1>15, <1>16, <1>17, <1>18, <1>19, <1>20, <1>21, <1>22, <1>23, <1>24, <1>25, <1>26, <1>27,
           <1>28 DEF Next

-----------------------------------------------------------------------------
(* What a step leaves has been cleaned up, once. *)

Once == \A p \in DOMAIN stack : IsLeft(p) =>
          /\ p \notin ToSet(cleanups')
          /\ Cleans(stack[p]) => stack[p].runs = 1

(* The owed cleanups are exactly those the chain holds, before and after. *)
LEMMA LeftOnce ==
  ASSUME Types, IInv, Types', IInv',
         \A p \in 1..Top : IsLeft(p) =>
           /\ p \in 1..Len(stack') => ~ Cleaner(stack'[p])
           /\ Cleans(stack[p]) => stack[p].runs = 1
  PROVE  Once
<1>1. DOMAIN stack = 1..Top BY Stacked DEF IInv
<1>2. Owes(stack', ToSet(cleanups')) BY DEF IInv
<1>3. \A p \in ToSet(cleanups') : p \in 1..Len(stack') /\ Cleaner(stack'[p])
  BY <1>2 DEF Owes, Owing
<1> QED BY <1>1, <1>3 DEF Once

Kept == Len(stack') \in Nat /\ Top <= Len(stack') /\ \A p \in 1..Top : stack'[p].kind = stack[p].kind

LEMMA NoneLeft ==
  ASSUME Types, IInv, Types', IInv', Kept
  PROVE  Once
<1>1. Top \in Nat BY Stacked DEF IInv
<1>2. DOMAIN stack' = 1..Len(stack') BY DEF Types
<1>3. \A p \in 1..Top : p \in 1..Len(stack') BY <1>1 DEF Kept
<1>4. \A p \in 1..Top : ~ IsLeft(p) BY <1>2, <1>3 DEF IsLeft, Kept
<1> QED BY <1>4, LeftOnce

LEMMA AppendKept ==
  ASSUME Types, IInv, NEW t, NEW a, stack' = Append(t, a), t \in Seq(Activation), Len(t) = Top,
         \A p \in 1..Top : t[p].kind = stack[p].kind
  PROVE  Kept
<1>1. Top \in Nat BY Stacked DEF IInv
<1>2. Len(stack') = Top + 1 /\ \A p \in 1..Top : stack'[p] = t[p] BY <1>1
<1> QED BY <1>1, <1>2 DEF Kept

LEMMA SetKept ==
  ASSUME Types, IInv, NEW p \in 1..Top, NEW b, stack' = [stack EXCEPT ![p] = b], b.kind = stack[p].kind
  PROVE  Kept
<1>1. Top \in Nat /\ Top = Len(stack) /\ DOMAIN stack = 1..Top BY Stacked DEF IInv
<1>2. stack \in Seq(Activation) BY DEF Types
<1>3. Len(stack') = Top /\ stack'[p] = b /\ \A o \in 1..Top : o # p => stack'[o] = stack[o]
  BY <1>1, <1>2
<1>4. \A o \in 1..Top : stack'[o].kind = stack[o].kind BY <1>3
<1> QED BY <1>1, <1>3, <1>4 DEF Kept

LEMMA SameKept ==
  ASSUME Types, IInv, stack' = stack
  PROVE  Kept
BY Stacked DEF IInv, Kept

LEMMA RanKept ==
  ASSUME Types, IInv, NEW c \in 1..Top, Cleaner(stack[c]), stack[c] \in Activation
  PROVE  /\ Ran(stack, c) \in Seq(Activation) \/ stack[c].runs # 0
         /\ Len(Ran(stack, c)) = Top /\ \A p \in 1..Top : Ran(stack, c)[p].kind = stack[p].kind
         /\ DOMAIN Ran(stack, c) = 1..Top
<1> DEFINE b == [stack[c] EXCEPT !.runs = @ + 1]
<1>1. Top \in Nat /\ Top = Len(stack) /\ DOMAIN stack = 1..Top BY Stacked DEF IInv
<1>2. stack \in Seq(Activation) BY DEF Types
<1>3. stack[c] \in DeferType \cup WatchType \cup CallbackType BY KindOf DEF Cleaner
<1>4. b.kind = stack[c].kind BY <1>3 DEF DeferType, WatchType, CallbackType
<1>5. stack[c].runs = 0 => b \in DeferType \cup WatchType \cup CallbackType
  BY <1>3 DEF DeferType, WatchType, CallbackType
<1>6. Ran(stack, c) = [stack EXCEPT ![c] = b] BY <1>1 DEF Ran
<1>7. stack[c].runs = 0 => b \in Activation BY <1>5 DEF Activation
<1> HIDE DEF b
<1>8. stack[c].runs = 0 => Ran(stack, c) \in Seq(Activation) BY <1>1, <1>2, <1>6, <1>7
<1>9. Len(Ran(stack, c)) = Top /\ DOMAIN Ran(stack, c) = 1..Top BY <1>1, <1>2, <1>6
<1>10. \A p \in 1..Top : Ran(stack, c)[p].kind = stack[p].kind BY <1>1, <1>4, <1>6
<1> QED BY <1>8, <1>9, <1>10

LEMMA RaiseKept ==
  ASSUME Types, IInv, NEW code, Raise(code)
  PROVE  Kept
<1>1. CASE stack' = stack BY <1>1, SameKept
<1>2. CASE stack' # stack
  <2>1. Dispatched(code) BY <1>2 DEF Raise, Recorded, Fatal
  <2>2. \E a : stack' = Append(stack, a) BY <2>1 DEF Dispatched
  <2>3. stack \in Seq(Activation) /\ Len(stack) = Top BY DEF Types, Top
  <2> QED BY <2>2, <2>3, AppendKept
<1> QED BY <1>1, <1>2

LEMMA OpensKept ==
  ASSUME Types, IInv,
         (\E k \in {"catch", "finally", "both"} : OpenTry(k)) \/ OpenDefer \/ OpenWatch \/ CatchSelects \/ Observe
  PROVE  Kept
<1>1. \E a : stack' = Append(stack, a) BY DEF OpenTry, OpenDefer, OpenWatch, CatchSelects, Observe
<1>2. stack \in Seq(Activation) /\ Len(stack) = Top BY DEF Types, Top
<1> QED BY <1>1, <1>2, AppendKept

LEMMA DeclinesKept ==
  ASSUME Types, IInv, CatchDeclines
  PROVE  Kept
<1> DEFINE b == [stack[Top] EXCEPT !.offer = Front(@)]
<1>1. /\ Top \in 1..Top /\ DOMAIN stack = 1..Top /\ Now = stack[Top] /\ stack[Top] \in Activation
  BY Stacked DEF IInv
<1>2. Now.phase = "offer" BY DEF CatchDeclines, Offering
<1>3. stack[Top] \in DispatchType BY <1>1, <1>2, TryPhases, KindOf
<1>4. b.kind = stack[Top].kind BY <1>3 DEF DispatchType
<1>5. stack' = [stack EXCEPT ![Top] = b] BY <1>1 DEF CatchDeclines, Decline
<1> QED BY <1>1, <1>4, <1>5, SetKept

LEMMA TryKept ==
  ASSUME Types, IInv,
         EndBody \/ EndFinally \/ DepartFinally \/ LandElsewhere \/ SelectArm \/ Exits
  PROVE  Kept
<1>1. /\ Top \in Nat \ {0} /\ DOMAIN stack = 1..Top /\ Now = stack[Top] /\ stack[Top] \in Activation
      /\ Top \in 1..Top /\ Top = Len(stack)
  BY Stacked DEF IInv
<1>2. Now.kind = "try"
  BY TryPhases DEF EndBody, EndFinally, DepartFinally, LandElsewhere, SelectArm, Exits, Landed
<1>3. stack[Top] \in TryType BY <1>1, <1>2, KindOf
<1>4. ASSUME EndBody \/ EndFinally \/ LandElsewhere PROVE Kept
  <2>1. \E x : stack' = [stack EXCEPT ![Top] = [stack[Top] EXCEPT !.phase = x]]
    BY <1>1, <1>4 DEF EndBody, EndFinally, LandElsewhere
  <2>2. \A x : [stack[Top] EXCEPT !.phase = x].kind = stack[Top].kind BY <1>3 DEF TryType
  <2> QED BY <1>1, <2>1, <2>2, SetKept
<1>5. ASSUME DepartFinally PROVE Kept
  <2> DEFINE b == [stack[Top] EXCEPT !.phase = "leave", !.state = "handled"]
  <2>1. stack' = [stack EXCEPT ![Top] = b] BY <1>1, <1>5 DEF DepartFinally
  <2>2. b.kind = stack[Top].kind BY <1>3 DEF TryType
  <2> QED BY <1>1, <2>1, <2>2, SetKept
<1>6. ASSUME SelectArm PROVE Kept
  <2> DEFINE b == [stack[Top] EXCEPT !.phase = "arm", !.state = "handled"]
  <2>1. CASE stack' = stack BY <2>1, SameKept
  <2>2. CASE stack' # stack
    <3>1. stack' = [stack EXCEPT ![Top] = b] BY <1>1, <1>6, <2>2 DEF SelectArm, Fatal
    <3>2. b.kind = stack[Top].kind BY <1>3 DEF TryType
    <3> QED BY <1>1, <3>1, <3>2, SetKept
  <2> QED BY <2>1, <2>2
<1>7. ASSUME Exits PROVE Kept
  <2> DEFINE b == AfterClose
             c == [stack[Top] EXCEPT !.phase = "leave"]
  <2>1. CASE stack' = stack BY <2>1, SameKept
  <2>2. CASE Now.claimed
    <3>1. stack' = [stack EXCEPT ![Top] = c] BY <1>1, <1>7, <2>2 DEF Exits
    <3>2. c.kind = stack[Top].kind BY <1>3 DEF TryType
    <3> QED BY <1>1, <3>1, <3>2, SetKept
  <2>3. CASE ~ Now.claimed /\ stack' # stack
    <3>1. stack' = Append(Below, b) BY <1>7, <2>3 DEF Exits, Fatal
    <3>2. stack \in Seq(Activation) BY DEF Types
    <3>3. b.kind = stack[Top].kind
      <4>1. Now \in TryType BY <1>1, <1>3
      <4> QED BY <1>1, <4>1 DEF TryType, AfterClose
    <3> DEFINE u == Below
    <3>4. u \in Seq(Activation) /\ Len(u) = Top - 1 /\ \A p \in 1 .. Top - 1 : u[p] = stack[p]
      BY <1>1, <3>2 DEF Below, Front
    <3>5. stack' = Append(u, b) /\ Top \in Nat \ {0} BY <1>1, <3>1
    <3> HIDE DEF b, c, u
    <3>6. Len(stack') = Top /\ stack'[Top] = b /\ \A p \in 1 .. Top - 1 : stack'[p] = u[p]
      BY <3>4, <3>5
    <3>7. \A p \in 1..Top : p = Top \/ p \in 1 .. Top - 1 BY <3>5
    <3>8. \A p \in 1..Top : stack'[p].kind = stack[p].kind BY <3>3, <3>4, <3>6, <3>7
    <3> QED BY <1>1, <3>6, <3>8 DEF Kept
  <2> QED BY <2>1, <2>2, <2>3
<1> QED BY <1>4, <1>5, <1>6, <1>7

LEMMA UnwindKept ==
  ASSUME Types, IInv, Unwind
  PROVE  Kept
<1> DEFINE f == Last(frames)
           b == [stack[f] EXCEPT !.state = "unwind", !.target = Now.target]
           a == [kind |-> "unwind", phase |-> "drain", frame |-> f, height |-> errs]
<1>1. Transferring BY DEF Unwind
<1>2. /\ Now = stack[Top] /\ Now.kind = "unwind" /\ Top \in Nat \ {0} /\ Top = Len(stack)
      /\ Now.target \in ToSet(frames) /\ frames # <<>>
  BY <1>1, Landing
<1>3. Landable BY <1>2 DEF Unwind
<1>4. f \in 1 .. Top - 1 BY <1>1, <1>3, Landing
<1>5. f \in ToSet(frames) BY <1>2, PrevIsFront
<1>6. f \in 1..Top /\ f # Top /\ stack[f] \in TryType BY <1>2, <1>4, <1>5, FrameIs
<1>7. DOMAIN stack = 1..Top /\ stack \in Seq(Activation) BY Stacked DEF IInv, Types
<1>8. stack' = [stack EXCEPT ![f].state = "unwind", ![f].target = Now.target, ![Top] = a]
  BY <1>2 DEF Unwind
<1>9. stack' = [stack EXCEPT ![f] = b, ![Top] = a] BY <1>6, <1>7, <1>8
<1>10. b.kind = stack[f].kind BY <1>6 DEF TryType
<1>11. a.kind = stack[Top].kind BY <1>2
<1> HIDE DEF a, b, f
<1>12. /\ Len(stack') = Top /\ stack'[f] = b /\ stack'[Top] = a
       /\ \A p \in 1..Top : p # f /\ p # Top => stack'[p] = stack[p]
  BY <1>2, <1>6, <1>7, <1>9
<1> QED BY <1>2, <1>10, <1>11, <1>12 DEF Kept

LEMMA DrainsKept ==
  ASSUME Types, IInv, DrainView \/ DrainWatch \/ DrainDefer
  PROVE  Kept
<1> DEFINE c == Last(cleanups)
<1>1. Draining BY DEF DrainView, DrainWatch, DrainDefer
<1>2. c \in 1..Top /\ Cleaner(stack[c]) /\ stack[c].runs = 0 BY <1>1, Drawn
<1>3. stack[c] \in Activation /\ Top \in Nat BY <1>2, Stacked DEF IInv
<1>4. /\ Ran(stack, c) \in Seq(Activation) /\ Len(Ran(stack, c)) = Top
      /\ \A p \in 1..Top : Ran(stack, c)[p].kind = stack[p].kind
  BY <1>2, <1>3, RanKept
<1>5. CASE stack' = stack BY <1>5, SameKept
<1>6. CASE stack' = Ran(stack, c) BY <1>3, <1>4, <1>6 DEF Kept
<1>7. CASE \E a : stack' = Append(Ran(stack, c), a) BY <1>4, <1>7, AppendKept
<1>8. stack' = stack \/ stack' = Ran(stack, c) \/ \E a : stack' = Append(Ran(stack, c), a)
  BY DEF DrainView, DrainWatch, DrainDefer, Fatal
<1> QED BY <1>5, <1>6, <1>7, <1>8

LEMMA EndDeferKept ==
  ASSUME Types, IInv, EndDefer
  PROVE  Kept
<1>1. CASE stack' = stack BY <1>1, SameKept
<1>2. CASE stack' # stack
  <2>1. \E a : stack' = Append(Ran(stack, Top), a) BY <1>2 DEF EndDefer, Fatal
  <2>2. /\ Coding /\ Now.kind = "defer" BY DEF EndDefer
  <2>3. /\ Now = stack[Top] /\ Top \in 1..Top /\ stack[Top] \in Activation BY Stacked DEF IInv
  <2>4. Now \in DeferType BY <2>2, <2>3, KindOf
  <2>5. Now.runs = 0 BY <2>2, <2>4, TopOwed DEF Cleaner, DeferType
  <2>6. /\ Ran(stack, Top) \in Seq(Activation) /\ Len(Ran(stack, Top)) = Top
        /\ \A p \in 1..Top : Ran(stack, Top)[p].kind = stack[p].kind
    BY <2>2, <2>3, <2>5, RanKept DEF Cleaner
  <2> QED BY <2>1, <2>6, AppendKept
<1> QED BY <1>1, <1>2

LEMMA PopOnce ==
  ASSUME Types, IInv, Types', IInv', Len(stack') = Top - 1, ~ Cleans(Now),
         \A p \in 1 .. Top - 1 : stack'[p].kind = stack[p].kind
  PROVE  Once
<1>1. Top \in Nat \ {0} /\ Now = stack[Top] BY Stacked DEF IInv
<1>2. DOMAIN stack' = 1 .. Top - 1 BY DEF Types
<1>3. ASSUME NEW p \in 1..Top, IsLeft(p) PROVE p = Top
  <2>1. \A q \in 1..Top : q = Top \/ q \in 1 .. Top - 1 BY <1>1
  <2> QED BY <1>2, <1>3, <2>1 DEF IsLeft
<1>4. Top \notin 1..Len(stack') BY <1>1
<1> QED BY <1>1, <1>3, <1>4, LeftOnce

LEMMA BelowIs ==
  ASSUME Types, IInv
  PROVE  /\ Below \in Seq(Activation) /\ Len(Below) = Top - 1 /\ DOMAIN Below = 1 .. Top - 1
         /\ \A p \in 1 .. Top - 1 : Below[p] = stack[p]
<1>1. Top \in Nat \ {0} /\ Top = Len(stack) BY Stacked DEF IInv
<1>2. stack \in Seq(Activation) BY DEF Types
<1> QED BY <1>1, <1>2 DEF Below, Front

LEMMA BelowOnce ==
  ASSUME Types, IInv, Types', IInv', stack' = Below, ~ Cleans(Now)
  PROVE  Once
BY BelowIs, PopOnce

LEMMA DispatchOnce ==
  ASSUME Types, IInv, Types', IInv', Handled \/ \E policy \in {"abort", "ignore", "collect"} : ApplyPolicy(policy)
  PROVE  Once
<1>1. Now.phase \in {"offer", "handled"} BY DEF Handled, ApplyPolicy
<1>2. Now.kind = "dispatch" BY <1>1, TryPhases
<1>3. stack' = stack \/ stack' = Below BY DEF Handled, ApplyPolicy, EndDispatch, Fatal
<1>4. CASE stack' = stack BY <1>4, SameKept, NoneLeft
<1>5. CASE stack' = Below BY <1>2, <1>5, BelowOnce DEF Cleans
<1> QED BY <1>3, <1>4, <1>5

LEMMA CallbackReturnsOnce ==
  ASSUME Types, IInv, Types', IInv', NEW disposition \in {"offer", "handled"}, CallbackReturns(disposition)
  PROVE  Once
<1> DEFINE m == Top - 1
           u == Below
           b == [stack[m] EXCEPT !.phase = disposition,
                                 !.offer = IF disposition = "offer" THEN Front(@) ELSE @]
<1>1. CASE stack' = stack BY <1>1, SameKept, NoneLeft
<1>2. CASE stack' # stack
  <2>1. stack' = [u EXCEPT ![m].phase = disposition,
                           ![m].offer = IF disposition = "offer" THEN Front(@) ELSE @]
    BY <1>2 DEF CallbackReturns, Fatal
  <2>2. Now.kind = "callback" BY DEF CallbackReturns
  <2>3. /\ Top \in Nat \ {0} /\ Now = stack[Top] /\ Top = Len(stack) /\ Shape(stack)
        /\ \A p \in 1..Top : stack[p] \in Activation
    BY Stacked DEF IInv
  <2>4. Top > 1 /\ stack[m].kind = "dispatch"
    <3>1. Sits(stack, Top) BY <2>3 DEF Shape
    <3> QED BY <2>2, <2>3, <3>1 DEF Sits
  <2>5. m \in 1..m /\ m \in 1..Top /\ m \in Nat BY <2>3, <2>4
  <2>6. stack[m] \in DispatchType BY <2>3, <2>4, <2>5, KindOf
  <2>7. b.kind = stack[m].kind BY <2>6 DEF DispatchType
  <2>8. u \in Seq(Activation) /\ Len(u) = m /\ DOMAIN u = 1..m /\ \A p \in 1..m : u[p] = stack[p] BY BelowIs
  <2>9. stack' = [u EXCEPT ![m] = b] BY <2>1, <2>5, <2>8
  <2>10. m = Top - 1 OBVIOUS
  <2> HIDE DEF b, u, m
  <2>11. Len(stack') = m /\ stack'[m] = b /\ \A p \in 1..m : p # m => stack'[p] = stack[p]
    BY <2>5, <2>8, <2>9
  <2>12. \A p \in 1..m : stack'[p].kind = stack[p].kind BY <2>7, <2>11
  <2> QED BY <2>2, <2>10, <2>11, <2>12, PopOnce DEF Cleans
<1> QED BY <1>1, <1>2

LEMMA DrainedDeferOnce ==
  ASSUME Types, IInv, Types', IInv', DrainedDefer
  PROVE  Once
BY BelowOnce DEF DrainedDefer, Cleans

LEMMA EndWatchOnce ==
  ASSUME Types, IInv, Types', IInv', EndWatch
  PROVE  Once
<1>1. CASE stack' = stack BY <1>1, SameKept, NoneLeft
<1>2. CASE stack' # stack BY <1>2, BelowOnce DEF EndWatch, Fatal, Cleans
<1> QED BY <1>1, <1>2

LEMMA LeaveOnce ==
  ASSUME Types, IInv, Types', IInv', Leave
  PROVE  Once
<1>1. Now.phase = "leave" BY DEF Leave
<1>2. Now.kind = "try" BY <1>1, TryPhases
<1>3. /\ Top \in Nat \ {0} /\ Now = stack[Top] /\ Top = Len(stack) BY Stacked DEF IInv
<1>4. Now.fin => Now.runs = 1
  <2>1. TryOK(Now, Top \in ToSet(arms)) BY <1>2, TopTry
  <2> QED BY <1>1, <2>1 DEF TryOK
<1>5. ASSUME NEW a, a.kind = "unwind", stack' = Append(Below, a) PROVE Once
  <2>1. Len(Below) = Top - 1 /\ Below \in Seq(Activation) /\ \A p \in 1 .. Top - 1 : Below[p] = stack[p]
    BY BelowIs
  <2>2. Len(stack') = Top /\ stack'[Top] = a /\ \A p \in 1 .. Top - 1 : stack'[p] = stack[p]
    <3> DEFINE u == Below
    <3>1. Len(u) = Top - 1 /\ u \in Seq(Activation) /\ \A p \in 1 .. Top - 1 : u[p] = stack[p] BY <2>1
    <3>2. stack' = Append(u, a) BY <1>5
    <3>3. Top \in Nat \ {0} BY <1>3
    <3> HIDE DEF u
    <3> QED BY <3>1, <3>2, <3>3
  <2>3. DOMAIN stack' = 1..Top BY <2>2 DEF Types
  <2>4. ASSUME NEW p \in 1..Top, IsLeft(p)
        PROVE  ~ Cleaner(stack'[p]) /\ (Cleans(stack[p]) => stack[p].runs = 1)
    <3>0. \A q \in 1..Top : q = Top \/ q \in 1 .. Top - 1 BY <1>3
    <3>1. p = Top BY <2>2, <2>3, <2>4, <3>0 DEF IsLeft
    <3>2. ~ Cleaner(stack'[p]) BY <1>5, <2>2, <3>1 DEF Cleaner
    <3> QED BY <1>2, <1>3, <1>4, <3>1, <3>2 DEF Cleans
  <2> QED BY <2>4, LeftOnce
<1>6. CASE stack' = stack BY <1>6, SameKept, NoneLeft
<1>7. CASE stack' # stack /\ Now.state = "unwind"
  <2> DEFINE a == [kind |-> "unwind", phase |-> "transfer", target |-> Now.target]
  <2>1. stack' = Append(Below, a) BY <1>7 DEF Leave, Fatal
  <2>2. a.kind = "unwind" OBVIOUS
  <2> HIDE DEF a
  <2> QED BY <1>5, <2>1, <2>2
<1>8. CASE stack' # stack /\ Now.state # "unwind"
  <2>1. stack' = Below BY <1>8 DEF Leave, Fatal
  <2>2. Len(stack') = Top - 1 /\ \A p \in 1 .. Top - 1 : stack'[p] = stack[p] BY <2>1, BelowIs
  <2>3. DOMAIN stack' = 1 .. Top - 1 BY <2>2 DEF Types
  <2>4. ASSUME NEW p \in 1..Top, IsLeft(p)
        PROVE  p \notin 1..Len(stack') /\ (Cleans(stack[p]) => stack[p].runs = 1)
    <3>0. \A q \in 1..Top : q = Top \/ q \in 1 .. Top - 1 BY <1>3
    <3>1. p = Top BY <2>2, <2>3, <2>4, <3>0 DEF IsLeft
    <3>2. p \notin 1..Len(stack') BY <1>3, <2>2, <3>1
    <3> QED BY <1>2, <1>3, <1>4, <3>1, <3>2 DEF Cleans
  <2> QED BY <2>4, LeftOnce
<1> QED BY <1>6, <1>7, <1>8

LEMMA DeferLeftOnce ==
  ASSUME Types, IInv, Types', IInv', DeferLeft
  PROVE  Once
<1> DEFINE u == Below
<1>1. Coding /\ Now.kind = "thunk" /\ ~ Now.drain /\ stack' = Front(u) BY DEF DeferLeft
<1>2. /\ Top \in Nat \ {0} /\ Now = stack[Top] /\ Top = Len(stack) /\ Shape(stack) BY Stacked DEF IInv
<1>3. Top > 1 /\ stack[Top - 1].kind = "defer"
  <2>1. Sits(stack, Top) BY <1>2 DEF Shape
  <2> QED BY <1>1, <1>2, <2>1 DEF Sits
<1>4. stack[Top - 1].runs = 1
  <2>1. Owes(stack, ToSet(cleanups)) BY DEF IInv
  <2>2. Top \in 2..Len(stack) BY <1>2, <1>3
  <2> QED BY <1>1, <1>2, <2>1, <2>2 DEF Owes
<1>5. u \in Seq(Activation) /\ Len(u) = Top - 1 /\ \A p \in 1 .. Top - 1 : u[p] = stack[p] BY BelowIs
<1> HIDE DEF u
<1>6. Len(stack') = Top - 2 /\ \A p \in 1 .. Top - 2 : stack'[p] = stack[p]
  <2>1. u # <<>> BY <1>2, <1>3, <1>5
  <2>2. Len(stack') = Len(u) - 1 /\ \A i \in 1 .. Len(u) - 1 : stack'[i] = u[i] BY <1>1, <1>5, <2>1, FrontFacts
  <2>3. Top - 1 - 1 = Top - 2 /\ \A p \in 1 .. Top - 2 : p \in 1 .. Top - 1 BY <1>2
  <2> QED BY <1>5, <2>2, <2>3
<1>7. DOMAIN stack' = 1 .. Top - 2 BY <1>6 DEF Types
<1>8. ASSUME NEW p \in 1..Top, IsLeft(p)
      PROVE  p \notin 1..Len(stack') /\ (Cleans(stack[p]) => stack[p].runs = 1)
  <2>0. \A q \in 1..Top : q = Top \/ q = Top - 1 \/ q \in 1 .. Top - 2 BY <1>2
  <2>1. p = Top \/ p = Top - 1 BY <1>6, <1>7, <1>8, <2>0 DEF IsLeft
  <2>2. p \notin 1..Len(stack') BY <1>2, <1>6, <2>1
  <2> QED BY <1>1, <1>2, <1>4, <2>1, <2>2 DEF Cleans
<1> QED BY <1>8, LeftOnce

LEMMA LandOnce ==
  ASSUME Types, IInv, Types', IInv', Land
  PROVE  Once
<1> DEFINE f == Now.frame
           b == [stack[f] EXCEPT !.phase = "landed"]
           u == SubSeq(stack, 1, f)
<1>0. /\ Shape(stack) /\ Tries(stack, ToSet(arms)) /\ Frames(stack, ToSet(frames))
      /\ Owes(stack, ToSet(cleanups))
  BY DEF IInv
<1>1. /\ Top \in Nat \ {0} /\ Now = stack[Top] /\ Top = Len(stack) /\ stack \in Seq(Activation)
      /\ \A p \in 1..Top : stack[p] \in Activation
  BY <1>0, Stacked DEF Types
<1>2. Now.phase = "drain" /\ stack' = [u EXCEPT ![f].phase = "landed"] BY DEF Land
<1>3. /\ f \in ToSet(frames) /\ (\A p \in ToSet(cleanups) : p < f) BY LandStep
<1>4. f \in 1..Top /\ stack[f] \in TryType BY <1>3, FrameIs
<1>5. u \in Seq(Activation) /\ Len(u) = f /\ DOMAIN u = 1..f /\ \A p \in 1..f : u[p] = stack[p] BY <1>1, <1>4
<1>6. f \in 1..f /\ b.kind = stack[f].kind /\ stack' = [u EXCEPT ![f] = b]
  <2>1. f \in 1..f BY <1>4
  <2>2. u[f] = stack[f] BY <1>5, <2>1
  <2>3. b.kind = stack[f].kind BY <1>4 DEF TryType
  <2> QED BY <1>2, <1>5, <2>1, <2>2, <2>3
<1>7. Now.kind = "unwind" BY <1>1, <1>2, KindOf
<1>8. Now.frame = f OBVIOUS
<1> HIDE DEF b, u, f
<1>9. Len(stack') = f /\ DOMAIN stack' = 1..f /\ stack'[f] = b /\ \A p \in 1..f : p # f => stack'[p] = stack[p]
  BY <1>5, <1>6
<1>10. \A p \in 1..f : stack'[p].kind = stack[p].kind BY <1>6, <1>9
<1>11. ASSUME NEW p \in 1..Top, IsLeft(p)
       PROVE  p \notin 1..Len(stack') /\ (Cleans(stack[p]) => stack[p].runs = 1)
  <2>1. p \notin 1..f BY <1>9, <1>10, <1>11 DEF IsLeft
  <2>2. p > f BY <1>4, <2>1
  <2>3. ASSUME stack[p].kind = "defer" PROVE stack[p].runs = 1
    <3>1. stack[p] \in DeferType BY <1>1, <2>3, KindOf
    <3>2. stack[p].runs \in {0, 1} BY <3>1 DEF DeferType
    <3>3. stack[p].runs = 0 => p \in ToSet(cleanups) BY <1>0, <1>1, <2>3 DEF Owes, Owing, Cleaner
    <3>4. p \in ToSet(cleanups) => p < f BY <1>3
    <3> QED BY <1>4, <2>2, <3>2, <3>3, <3>4
  <2>4. ASSUME stack[p].kind = "try" PROVE stack[p].claimed
    <3>1. p # Top BY <1>1, <1>7, <2>4
    <3>2. Top \in p + 1 .. Len(stack) BY <1>1, <3>1
    <3>3. Dead(stack, p) BY <1>1, <1>2, <1>8, <2>2, <3>2 DEF Dead
    <3>4. p \notin ToSet(frames) BY <1>0, <3>3 DEF Frames
    <3> QED BY <1>0, <1>1, <2>4, <3>4 DEF Frames
  <2>5. stack[p].kind = "try" => stack[p].runs = 1 BY <1>0, <1>1, <2>4 DEF Tries, TryOK
  <2> QED BY <1>9, <2>1, <2>3, <2>5 DEF Cleans
<1> QED BY <1>11, LeftOnce

LEMMA NextOnce ==
  ASSUME Types, IInv, Types', IInv', [Next]_vars
  PROVE  Once
<1>1. CASE UNCHANGED vars BY <1>1, SameKept, NoneLeft DEF vars
<1>2. CASE (\E k \in {"catch", "finally", "both"} : OpenTry(k)) \/ OpenDefer \/ OpenWatch \/ CatchSelects \/ Observe
  BY <1>2, OpensKept, NoneLeft
<1>3. CASE \E code \in {"hard", "soft"} : Raise(code) BY <1>3, RaiseKept, NoneLeft
<1>4. CASE CatchDeclines BY <1>4, DeclinesKept, NoneLeft
<1>5. CASE Handled \/ \E policy \in {"abort", "ignore", "collect"} : ApplyPolicy(policy) BY <1>5, DispatchOnce
<1>6. CASE \E disposition \in {"offer", "handled"} : CallbackReturns(disposition) BY <1>6, CallbackReturnsOnce
<1>7. CASE Abandon BY <1>7, SameKept, NoneLeft DEF Abandon
<1>8. CASE Unwind
  <2>1. Kept BY <1>8, UnwindKept
  <2> QED BY <2>1, NoneLeft
<1>9. CASE DrainView \/ DrainWatch \/ DrainDefer BY <1>9, DrainsKept, NoneLeft
<1>10. CASE DrainedDefer BY <1>10, DrainedDeferOnce
<1>11. CASE Land BY <1>11, LandOnce
<1>12. CASE EndBody \/ EndFinally \/ DepartFinally \/ LandElsewhere \/ SelectArm \/ Exits
  BY <1>12, TryKept, NoneLeft
<1>13. CASE Leave BY <1>13, LeaveOnce
<1>14. CASE EndDefer BY <1>14, EndDeferKept, NoneLeft
<1>15. CASE DeferLeft BY <1>15, DeferLeftOnce
<1>16. CASE EndWatch BY <1>16, EndWatchOnce
<1> QED BY <1>1, <1>2, <1>3, <1>4, <1>5, <1>6, <1>7, <1>8, <1>9, <1>10, <1>11, <1>12, <1>13, <1>14,
           <1>15, <1>16 DEF Next

-----------------------------------------------------------------------------
(* The theorems *)

\* Every chain names activations of the C stack, innermost last, and the counts
\* of records and of raises stay in their ranges.
THEOREM TypesHold == ASSUME OnlyDefers PROVE Spec => []TypeOK
<1>1. Types /\ IInv => TypeOK BY TypesOK
<1> QED BY <1>1, StackInvariant, PTL

\* Wherever program code runs, every registration is in exactly one of the
\* visible chain, the span a dispatch hides, and the running arms.
THEOREM RegisteredOnce == ASSUME OnlyDefers PROVE Spec => []ChainsExact
<1>1. Types /\ IInv => ChainsExact BY ChainsAreExact
<1> QED BY <1>1, StackInvariant, PTL

\* Wherever program code runs, the transfer frames are those of the trys
\* around it and the cleanup chain holds every cleanup still owed.
THEOREM FramesAreThoseEntered == ASSUME OnlyDefers PROVE Spec => []FramesExact
<1>1. Types /\ IInv => FramesExact BY FramesAreExact
<1> QED BY <1>1, StackInvariant, PTL

\* The runtime's order checks end no program that closes its regions in order.
THEOREM NoOrderCheckFires == ASSUME OnlyDefers PROVE Spec => []NoImbalance
<1>1. Init => NoImbalance BY DEF Init, NoImbalance
<1>2. (Types /\ IInv) /\ NoImbalance /\ [Next]_vars => NoImbalance' BY EndsOrderly
<1> QED BY <1>1, <1>2, StackInvariant, PTL DEF Spec

\* A region that is left has run its deferred body or its finalizer, once,
\* and its record, that of an Error.pop included, is off the cleanup chain.
THEOREM LeftCleanedOnce == ASSUME OnlyDefers PROVE Spec => CleanupOnce
<1>1. Types /\ IInv /\ (Types /\ IInv)' /\ [Next]_vars
        => [\A p \in DOMAIN stack : IsLeft(p) =>
              /\ p \notin ToSet(cleanups')
              /\ Cleans(stack[p]) => stack[p].runs = 1]_vars
  BY NextOnce DEF Once
<1> QED BY <1>1, StackInvariant, PTL DEF Spec, CleanupOnce
=============================================================================
