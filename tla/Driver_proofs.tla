---------------------------- MODULE Driver_proofs ----------------------------
(***************************************************************************)
(* Proofs about what the driver does for a translation and for a build.    *)
(*                                                                         *)
(* TranslationWorkers, for any number of slices and any number of workers: *)
(* the slots name the unreaped workers exactly, a stop signal leaves none  *)
(* running, the output comes in input order and every failure is counted.  *)
(*                                                                         *)
(* BuildReuse, with one build at a time, for any number of edits and any   *)
(* contents that include the header: a record is made only beside outputs  *)
(* of what it records, and nothing stale is used again while no contents   *)
(* come back.                                                              *)
(***************************************************************************)
EXTENDS TranslationWorkers, BuildReuse, FiniteSetTheorems, TLAPS

-----------------------------------------------------------------------------
(* The slots of TranslationWorkers *)

Controls == {"loop", "block", "fork", "record", "unblock", "capture", "drop", "show", "done"}

(* The part of WorkersTypeOK the slots depend on. *)
SlotTypes == /\ pc \in Controls /\ started \in 0..Slices
             /\ live \in Seq(Slice) /\ slot \in Nat
             /\ blocked \in BOOLEAN /\ stop \in {"none", "pending", "taken"}
             /\ worker \in [Slice -> {"none", "running", "ok", "bad"}]
             /\ reaped \subseteq Ended

(* The slots at each place of the loop: Fork is ahead of them by one       *)
(* worker, and from Wait to Drop they hold one that was waited for.        *)
SlotsInv ==
  /\ IsInjective(live)
  /\ pc \notin {"record", "capture", "drop"} => slot = NoSlot /\ ToSet(live) = Unreaped
  /\ pc = "record" => /\ slot = NoSlot /\ started \in Slice
                      /\ started \notin ToSet(live) /\ ToSet(live) \cup {started} = Unreaped
  /\ pc \in {"capture", "drop"} => /\ slot \in DOMAIN live /\ live[slot] \in reaped
                                   /\ ToSet(live) \ {live[slot]} = Unreaped

FreshInv == /\ \A s \in Slice : s > started => worker[s] = "none" /\ s \notin reaped
            /\ pc \in {"block", "fork"} => /\ started \in Slice /\ worker[started] = "none"
                                           /\ started \notin reaped

SignalInv == /\ blocked <=> pc \in {"fork", "record", "unblock", "drop"}
             /\ stop = "taken" => \A s \in Slice : worker[s] # "running"

WorkersInv == SlotTypes /\ SlotsInv /\ FreshInv /\ SignalInv

-----------------------------------------------------------------------------

LEMMA AppendSlot ==
  ASSUME NEW S, NEW q \in Seq(S), NEW x \in S, IsInjective(q), x \notin ToSet(q)
  PROVE /\ Append(q, x) \in Seq(S) /\ IsInjective(Append(q, x))
        /\ ToSet(Append(q, x)) = ToSet(q) \cup {x}
<1> DEFINE r == Append(q, x)
<1>1. r \in Seq(S) /\ Len(r) = Len(q) + 1 /\ \A i \in 1..Len(q) : r[i] = q[i]
  OBVIOUS
<1>2. r[Len(r)] = x
  OBVIOUS
<1>3. DOMAIN r = 1 .. Len(q) + 1 /\ DOMAIN q = 1..Len(q) /\ Len(q) \in Nat
  BY <1>1
<1>4. ToSet(r) = ToSet(q) \cup {x}
  BY <1>1, <1>2, <1>3 DEF ToSet
<1>5. IsInjective(r)
  BY <1>1, <1>2, <1>3 DEF ToSet, IsInjective
<1> QED BY <1>1, <1>4, <1>5

(* The swap of _reap takes exactly the freed slot away. *)
LEMMA SwapOut ==
  ASSUME NEW S, NEW q \in Seq(S), NEW i \in 1..Len(q), IsInjective(q),
         NEW r, r = Front([q EXCEPT ![i] = Last(q)])
  PROVE r \in Seq(S) /\ IsInjective(r) /\ ToSet(r) = ToSet(q) \ {q[i]}
<1> DEFINE e == [q EXCEPT ![i] = Last(q)]
           n == Len(q)
<1>1. n \in Nat \ {0} /\ DOMAIN q = 1..n /\ i \in 1..n /\ Last(q) \in S /\ Last(q) = q[n]
  BY DEF Last
<1>2. e \in Seq(S) /\ Len(e) = n
  BY <1>1
<1>3. r \in Seq(S) /\ Len(r) = n - 1
  BY <1>1, <1>2 DEF Front
<1>4. DOMAIN r = 1 .. n - 1
  BY <1>3
<1>5. \A j \in 1 .. n - 1 : r[j] = IF j = i THEN q[n] ELSE q[j]
  BY <1>1, <1>2 DEF Front
<1>6. \A j, k \in 1..n : q[j] = q[k] => j = k
  BY <1>1 DEF IsInjective
<1> HIDE DEF n, e
<1>7. \A j, k \in 1 .. n - 1 : r[j] = r[k] => j = k
  BY ONLY <1>1, <1>5, <1>6
<1>8. IsInjective(r)
  BY ONLY <1>4, <1>7 DEF IsInjective
<1>9. ASSUME NEW j \in 1 .. n - 1 PROVE r[j] \in ToSet(q) \ {q[i]}
  BY ONLY <1>1, <1>5, <1>6, j \in 1 .. n - 1 DEF ToSet
<1>10. ASSUME NEW k \in 1..n, q[k] # q[i] PROVE q[k] \in ToSet(r)
  <2>1. CASE k = n
    <3>1. i \in 1 .. n - 1 /\ r[i] = q[k]
      BY ONLY <2>1, <1>1, <1>5, <1>10, k \in 1..n
    <3> QED BY <3>1, <1>4 DEF ToSet
  <2>2. CASE k # n
    <3>1. k \in 1 .. n - 1 /\ r[k] = q[k]
      BY ONLY <2>2, <1>1, <1>5, <1>10, k \in 1..n
    <3> QED BY <3>1, <1>4 DEF ToSet
  <2> QED BY <2>1, <2>2
<1>11. ToSet(r) \subseteq ToSet(q) \ {q[i]}
  BY <1>4, <1>9 DEF ToSet
<1>12. ToSet(q) \ {q[i]} \subseteq ToSet(r)
  <2> SUFFICES ASSUME NEW x \in ToSet(q), x # q[i] PROVE x \in ToSet(r)
    OBVIOUS
  <2>1. PICK k \in 1..n : x = q[k]
    BY <1>1 DEF ToSet
  <2> QED BY <2>1, <1>10
<1> QED BY <1>3, <1>8, <1>11, <1>12

-----------------------------------------------------------------------------

LEMMA WorkersInvInit == WorkersInit => WorkersInv
<1> SUFFICES ASSUME WorkersInit PROVE WorkersInv
  OBVIOUS
<1>1. SlotTypes
  <2>1. live \in Seq(Slice) /\ started \in 0..Slices /\ slot \in Nat
    BY WorkersAssumption DEF WorkersInit, NoSlot
  <2>2. worker \in [Slice -> {"none", "running", "ok", "bad"}] /\ reaped \subseteq Slice
    BY DEF WorkersInit
  <2> QED BY <2>1, <2>2 DEF WorkersInit, SlotTypes, Controls
<1>2. Unreaped = {} /\ ToSet(live) = {} /\ IsInjective(live)
  BY DEF WorkersInit, Unreaped, ToSet, IsInjective
<1>3. SlotsInv /\ FreshInv /\ SignalInv
  BY <1>2 DEF WorkersInit, SlotsInv, FreshInv, SignalInv, NoSlot
<1> QED BY <1>1, <1>3 DEF WorkersInv

LEMMA WorkersInvStep == WorkersInv /\ [WorkersNext]_workersVars => WorkersInv'
<1> SUFFICES ASSUME WorkersInv, [WorkersNext]_workersVars PROVE WorkersInv'
  OBVIOUS
<1> USE WorkersAssumption
<1> USE DEF WorkersInv, SlotTypes, SlotsInv, FreshInv, SignalInv, Controls, Slice, NoSlot, Unreaped, Ended, ParentGoes, Running
<1>1. CASE BeginSlice
  BY <1>1 DEF BeginSlice
<1>2. CASE Block
  BY <1>2 DEF Block
<1>3. CASE Fork
  BY <1>3 DEF Fork
<1>4. CASE ForkFails
  BY <1>4 DEF ForkFails
<1>5. CASE RecordSlot
  <2>1. /\ live' \in Seq(Slice) /\ IsInjective(live')
        /\ ToSet(live') = ToSet(live) \cup {started}
    BY <1>5, AppendSlot DEF RecordSlot
  <2> QED BY <1>5, <2>1 DEF RecordSlot
<1>6. CASE Unblock
  BY <1>6 DEF Unblock
<1>7. ASSUME NEW i \in DOMAIN live, Wait(i) PROVE WorkersInv'
  <2>1. live[i] \in Slice /\ live[i] \in ToSet(live) /\ i \in Nat
    BY DEF ToSet
  <2>2. slot' = i /\ live' = live /\ worker' = worker /\ reaped' = reaped \cup {live[i]}
    BY <1>7 DEF Wait
  <2>3. live[i] \notin reaped /\ worker[live[i]] # "none"
    BY <1>7, <2>1 DEF Wait
  <2>4. ToSet(live') \ {live'[slot']} = Unreaped' /\ live'[slot'] \in reaped'
    BY <1>7, <2>1, <2>2, <2>3 DEF Wait
  <2> QED BY <1>7, <2>1, <2>2, <2>3, <2>4 DEF Wait
<1>8. CASE Capture
  BY <1>8 DEF Capture
<1>9. CASE Drop
  <2>1. slot \in 1..Len(live)
    BY <1>9 DEF Drop
  <2>2. /\ live' \in Seq(Slice) /\ IsInjective(live')
        /\ ToSet(live') = ToSet(live) \ {live[slot]}
    <3>1. live \in Seq(Slice) /\ IsInjective(live)
      OBVIOUS
    <3>2. live' = Front([live EXCEPT ![slot] = Last(live)])
      BY <1>9 DEF Drop
    <3> QED BY ONLY <2>1, <3>1, <3>2, SwapOut
  <2> QED BY <1>9, <2>2 DEF Drop
<1>10. CASE ShowNext
  BY <1>10 DEF ShowNext, PassSlice
<1>16. CASE ShowEnd
  BY <1>16 DEF ShowEnd
<1>11. CASE Finish
  BY <1>11 DEF Finish
<1>12. CASE Send
  BY <1>12 DEF Send
<1>13. CASE Forward
  <2>1. stop' = "taken" /\ ~blocked' /\ pc' = pc /\ live' = live /\ slot' = slot
        /\ started' = started /\ blocked' = blocked /\ reaped' = reaped
    BY <1>13 DEF Forward
  <2>2. \A s \in Slice : /\ worker'[s] \in {"none", "running", "ok", "bad"}
                         /\ worker'[s] = "none" <=> worker[s] = "none"
                         /\ worker'[s] = "running" => worker[s] = "running" /\ s \notin ToSet(live)
    BY <1>13 DEF Forward
  <2>3. worker' \in [Slice -> {"none", "running", "ok", "bad"}]
    BY <1>13, <2>2 DEF Forward
  <2>4. Unreaped' = Unreaped
    BY <2>1, <2>2
  <2>5. \A s \in Slice : worker'[s] # "running"
    <3>1. SUFFICES ASSUME NEW s \in Slice, worker'[s] = "running" PROVE FALSE
      BY <2>1
    <3>2. s \in Unreaped /\ s \notin ToSet(live)
      BY <3>1, <2>2
    <3>3. ToSet(live) = Unreaped \/ (slot \in DOMAIN live /\ ToSet(live) \ {live[slot]} = Unreaped)
      BY <1>13 DEF Forward
    <3> QED BY <3>2, <3>3
  <2> QED BY <2>1, <2>2, <2>3, <2>4, <2>5
<1>14. ASSUME NEW s \in Slice, WorkerEnds(s) PROVE WorkersInv'
  BY <1>14 DEF WorkerEnds
<1>15. CASE UNCHANGED workersVars
  BY <1>15 DEF workersVars
<1> QED BY <1>1, <1>2, <1>3, <1>4, <1>5, <1>6, <1>7, <1>8, <1>9, <1>10, <1>11, <1>12, <1>13,
           <1>14, <1>15, <1>16 DEF WorkersNext, Parent

LEMMA WorkersInductive == WorkersSpec => []WorkersInv
<1>1. WorkersInit => WorkersInv
  BY WorkersInvInit
<1>2. WorkersInv /\ [WorkersNext]_workersVars => WorkersInv'
  BY WorkersInvStep
<1> QED BY <1>1, <1>2, PTL DEF WorkersSpec

-----------------------------------------------------------------------------

(* Whenever a stop signal can be delivered, the slots name every worker    *)
(* forked and not waited for, once: the swap in _reap and the two blocked  *)
(* sections of _start and _reap are enough, for any number of slices.      *)
THEOREM SlotsNameUnreaped == WorkersSpec => []SlotsExact
<1>1. WorkersInv => SlotsExact
  <2> SUFFICES ASSUME WorkersInv, ~blocked PROVE SlotsExact
    BY DEF SlotsExact
  <2>1. IsInjective(live) /\ pc \notin {"record", "drop"}
    BY DEF WorkersInv, SlotTypes, SlotsInv, SignalInv, Controls
  <2>2. CASE pc = "capture"
    <3>1. slot # NoSlot
      BY <2>2 DEF WorkersInv, SlotTypes, SlotsInv, NoSlot
    <3> QED BY <2>1, <2>2, <3>1 DEF WorkersInv, SlotsInv, SlotsExact, Reaping
  <2>3. CASE pc # "capture"
    <3>1. slot = NoSlot /\ ToSet(live) = Unreaped
      BY <2>1, <2>3 DEF WorkersInv, SlotsInv
    <3> QED BY <2>1, <3>1 DEF SlotsExact, Reaping
  <2> QED BY <2>2, <2>3
<1> QED BY <1>1, WorkersInductive, PTL

(* A stop signal that ends the translation leaves no worker running: none  *)
(* is between its fork and its slot while the signals are open.            *)
THEOREM StopReachesEveryWorker == WorkersSpec => []StopReachesAll
<1>1. WorkersInv => StopReachesAll
  BY DEF WorkersInv, SignalInv, StopReachesAll
<1> QED BY <1>1, WorkersInductive, PTL
-----------------------------------------------------------------------------
(* The output and the result. *)

(* What was reaped is kept until _show passes it.  The slice in hand at    *)
(* `capture' is reaped but not kept yet.                                   *)
Kept == output \cup (IF pc = "capture" THEN {live[slot]} ELSE {})

OutputInv ==
  /\ shown \in 0..started /\ printed \in Seq(Slice)
  /\ pc \in {"block", "fork", "record"} => shown < started
  /\ output \subseteq reaped
  /\ \A s \in reaped : s > shown => s \in Kept
  /\ \A s \in output : s > shown
  /\ pc = "capture" => live[slot] > shown
  /\ PrintedInOrder

(* The slices that failed for good: reaped, or never started. *)
Failures == {s \in Slice : \/ s \in reaped /\ worker[s] = "bad"
                           \/ /\ s <= started /\ worker[s] = "none"
                              /\ pc \in {"block", "fork"} => s < started}

ResultInv ==
  /\ failed = Cardinality(Failures)
  /\ pc = "loop" => shown = started \/ shown + 1 \in ToSet(live)
  /\ pc = "done" => started = Slices /\ live = <<>> /\ shown = Slices

LEMMA AppendOutput ==
  ASSUME NEW q \in Seq(Slice), NEW n \in Slice,
         \A i, j \in DOMAIN q : i < j => q[i] < q[j],
         \A x \in ToSet(q) : x < n
  PROVE /\ Append(q, n) \in Seq(Slice) /\ ToSet(Append(q, n)) = ToSet(q) \cup {n}
        /\ \A i, j \in DOMAIN Append(q, n) : i < j => Append(q, n)[i] < Append(q, n)[j]
<1> DEFINE r == Append(q, n)
<1>1. r \in Seq(Slice) /\ Len(r) = Len(q) + 1 /\ r[Len(q) + 1] = n /\ \A i \in 1..Len(q) : r[i] = q[i]
  OBVIOUS
<1>2. DOMAIN r = 1 .. Len(q) + 1 /\ DOMAIN q = 1..Len(q) /\ Len(q) \in Nat
  BY <1>1
<1> HIDE DEF r
<1>3. ToSet(r) = ToSet(q) \cup {n}
  BY <1>1, <1>2 DEF ToSet
<1>4. ASSUME NEW i \in DOMAIN r, NEW j \in DOMAIN r, i < j PROVE r[i] < r[j]
  <2>1. i \in 1..Len(q) /\ r[i] = q[i]
    BY <1>1, <1>2, <1>4
  <2>2. CASE j = Len(q) + 1
    BY <1>1, <1>2, <2>1, <2>2 DEF ToSet
  <2>3. CASE j # Len(q) + 1
    <3>1. j \in 1..Len(q) /\ r[j] = q[j]
      BY <1>1, <1>2, <2>3
    <3> QED BY <1>2, <1>4, <2>1, <3>1
  <2> QED BY <2>2, <2>3
<1> QED BY <1>1, <1>3, <1>4 DEF r

LEMMA OutputNext == WorkersInv /\ OutputInv /\ [WorkersNext]_workersVars => OutputInv'
<1> SUFFICES ASSUME WorkersInv, OutputInv, [WorkersNext]_workersVars PROVE OutputInv'
  OBVIOUS
<1> USE WorkersAssumption
<1> USE DEF WorkersInv, SlotTypes, SlotsInv, FreshInv, SignalInv, Controls, Slice, NoSlot, Unreaped, Ended, ParentGoes, Running,
            OutputInv, Kept, PrintedInOrder, Forked
<1>1. CASE BeginSlice
  BY <1>1 DEF BeginSlice
<1>2. CASE Block
  BY <1>2 DEF Block
<1>3. CASE Fork
  BY <1>3 DEF Fork
<1>4. CASE ForkFails
  BY <1>4 DEF ForkFails
<1>5. CASE RecordSlot
  BY <1>5 DEF RecordSlot
<1>6. CASE Unblock
  BY <1>6 DEF Unblock
<1>7. ASSUME NEW i \in DOMAIN live, Wait(i) PROVE OutputInv'
  <2>1. live[i] \in Slice /\ live[i] \in ToSet(live)
    BY DEF ToSet
  <2> QED BY <1>7, <2>1 DEF Wait
<1>8. CASE Capture
  BY <1>8 DEF Capture
<1>9. CASE Drop
  BY <1>9 DEF Drop
<1>10. CASE ShowNext
  <2>1. shown + 1 \in Slice /\ shown + 1 \notin ToSet(live) /\ ToSet(live) = Unreaped /\ pc' = "show"
    BY <1>10 DEF ShowNext, Showable, Carried
  <2>2. /\ shown' = shown + 1 /\ output' = output \ {shown + 1}
        /\ UNCHANGED <<started, live, reaped, worker>>
    BY <1>10 DEF ShowNext, PassSlice
  <2>4. Forked(shown + 1) => shown + 1 \in reaped
    BY <2>1
  <2>12. Kept = output
    BY <1>10 DEF ShowNext
  <2>3. shown + 1 \in output <=> Forked(shown + 1)
    <3>1. shown + 1 \in reaped => shown + 1 \in output
      BY <2>1, <2>12
    <3>2. shown + 1 \in output => Forked(shown + 1)
      BY <2>1
    <3> QED BY <2>4, <3>1, <3>2
  <2>5. \A x \in ToSet(printed) : x < shown + 1
    BY <1>10
  <2>6. /\ printed' \in Seq(Slice) /\ \A j, k \in DOMAIN printed' : j < k => printed'[j] < printed'[k]
        /\ ToSet(printed') = ToSet(printed) \cup (IF shown + 1 \in output THEN {shown + 1} ELSE {})
    <3>1. CASE shown + 1 \in output
      <4>1. printed' = Append(printed, shown + 1)
        BY <1>10, <3>1 DEF ShowNext, PassSlice
      <4> QED BY <2>1, <2>5, <3>1, <4>1, AppendOutput
    <3>2. CASE shown + 1 \notin output
      BY <1>10, <3>2 DEF ShowNext, PassSlice
    <3> QED BY <3>1, <3>2
  <2>7. ToSet(printed') = {s \in 1..shown' : Forked(s)'}
    BY <2>1, <2>2, <2>3, <2>6
  <2>8. PrintedInOrder'
    BY <2>1, <2>2, <2>4, <2>6, <2>7
  <2>9. shown' \in 0..started'
    BY <1>10, <2>2 DEF ShowNext, Showable
  <2>10. output' \subseteq reaped' /\ \A s \in output' : s > shown'
    BY <2>2, <2>1
  <2>11. \A s \in reaped' : s > shown' => s \in Kept'
    BY <1>10, <2>1, <2>2 DEF ShowNext
  <2> QED BY <2>1, <2>6, <2>8, <2>9, <2>10, <2>11
<1>11. CASE ShowEnd
  BY <1>11 DEF ShowEnd
<1>12. CASE Finish
  BY <1>12 DEF Finish
<1>13. CASE Send
  BY <1>13 DEF Send
<1>14. CASE Forward
  BY <1>14 DEF Forward
<1>15. ASSUME NEW s \in Slice, WorkerEnds(s) PROVE OutputInv'
  BY <1>15 DEF WorkerEnds
<1>16. CASE UNCHANGED workersVars
  BY <1>16 DEF workersVars
<1> QED BY <1>1, <1>2, <1>3, <1>4, <1>5, <1>6, <1>7, <1>8, <1>9, <1>10, <1>11, <1>12, <1>13,
           <1>14, <1>15, <1>16 DEF WorkersNext, Parent

LEMMA FailuresFinite == IsFiniteSet(Slice) /\ IsFiniteSet(Failures)
<1>1. Slices \in Int /\ 1 \in Int
  BY WorkersAssumption
<1>2. IsFiniteSet(Slice)
  BY <1>1, FS_Interval DEF Slice
<1>3. Failures \subseteq Slice
  BY DEF Failures
<1> QED BY <1>2, <1>3, FS_Subset

(* One more slice has failed. *)
LEMMA CountFailure ==
  ASSUME NEW s \in Slice, s \notin Failures, Failures' = Failures \cup {s},
         failed = Cardinality(Failures), failed' = failed + 1
  PROVE failed' = Cardinality(Failures')
BY FailuresFinite, FS_AddElement

LEMMA ResultNext == WorkersInv /\ OutputInv /\ ResultInv /\ [WorkersNext]_workersVars => ResultInv'
<1> SUFFICES ASSUME WorkersInv, OutputInv, ResultInv, [WorkersNext]_workersVars PROVE ResultInv'
  OBVIOUS
<1> USE WorkersAssumption
<1> USE DEF WorkersInv, SlotTypes, SlotsInv, FreshInv, SignalInv, Controls, Slice, NoSlot, Unreaped, Ended, ParentGoes, Running,
            OutputInv, ResultInv
<1>0. ASSUME Failures' = Failures, failed' = failed PROVE failed' = Cardinality(Failures')
  BY <1>0
<1>1. CASE BeginSlice
  <2>1. Failures' = Failures BY <1>1 DEF BeginSlice, Failures
  <2> QED BY <1>1, <2>1 DEF BeginSlice
<1>2. CASE Block
  <2>1. Failures' = Failures BY <1>2 DEF Block, Failures
  <2> QED BY <1>2, <2>1 DEF Block
<1>3. CASE Fork
  <2>1. Failures' = Failures BY <1>3 DEF Fork, Failures
  <2> QED BY <1>3, <2>1 DEF Fork
<1>4. CASE ForkFails
  <2>1. Failures' = Failures \cup {started} /\ started \notin Failures /\ started \in Slice
    BY <1>4 DEF ForkFails, Failures
  <2>2. failed' = Cardinality(Failures')
    BY <1>4, <2>1, CountFailure DEF ForkFails
  <2> QED BY <1>4, <2>2 DEF ForkFails
<1>5. CASE RecordSlot
  <2>1. Failures' = Failures BY <1>5 DEF RecordSlot, Failures
  <2> QED BY <1>5, <2>1 DEF RecordSlot
<1>6. CASE Unblock
  <2>1. Failures' = Failures BY <1>6 DEF Unblock, Failures
  <2> QED BY <1>6, <2>1 DEF Unblock
<1>7. ASSUME NEW i \in DOMAIN live, Wait(i) PROVE ResultInv'
  <2>1. live[i] \in Slice /\ live[i] \in ToSet(live)
    BY DEF ToSet
  <2>2. live[i] \notin reaped /\ worker[live[i]] \in {"ok", "bad"}
    BY <1>7, <2>1 DEF Wait
  <2>3. CASE worker[live[i]] = "bad"
    <3>1. Failures' = Failures \cup {live[i]} /\ live[i] \notin Failures
      BY <1>7, <2>1, <2>2, <2>3 DEF Wait, Failures
    <3>2. failed' = Cardinality(Failures')
      BY <1>7, <2>1, <2>3, <3>1, CountFailure DEF Wait
    <3> QED BY <1>7, <3>2 DEF Wait
  <2>4. CASE worker[live[i]] # "bad"
    <3>1. Failures' = Failures
      BY <1>7, <2>1, <2>2, <2>4 DEF Wait, Failures
    <3> QED BY <1>7, <2>4, <3>1 DEF Wait
  <2> QED BY <2>3, <2>4
<1>8. CASE Capture
  <2>1. Failures' = Failures BY <1>8 DEF Capture, Failures
  <2> QED BY <1>8, <2>1 DEF Capture
<1>9. CASE Drop
  <2>1. Failures' = Failures BY <1>9 DEF Drop, Failures
  <2> QED BY <1>9, <2>1 DEF Drop
<1>10. CASE ShowNext
  <2>1. Failures' = Failures BY <1>10 DEF ShowNext, PassSlice, Failures
  <2> QED BY <1>10, <2>1 DEF ShowNext, PassSlice
<1>11. CASE ShowEnd
  <2>1. Failures' = Failures BY <1>11 DEF ShowEnd, Failures
  <2> QED BY <1>11, <2>1 DEF ShowEnd, Showable, Carried
<1>12. CASE Finish
  <2>1. Failures' = Failures BY <1>12 DEF Finish, Failures
  <2>2. ToSet(<<>>) = {} BY DEF ToSet
  <2> QED BY <1>12, <2>1, <2>2 DEF Finish
<1>13. CASE Send
  <2>1. Failures' = Failures BY <1>13 DEF Send, Failures
  <2> QED BY <1>13, <2>1 DEF Send
<1>14. CASE Forward
  <2>1. Failures' = Failures BY <1>14 DEF Forward, Failures
  <2> QED BY <1>14, <2>1 DEF Forward
<1>15. ASSUME NEW s \in Slice, WorkerEnds(s) PROVE ResultInv'
  <2>1. Failures' = Failures BY <1>15 DEF WorkerEnds, Failures
  <2> QED BY <1>15, <2>1 DEF WorkerEnds
<1>16. CASE UNCHANGED workersVars
  <2>1. Failures' = Failures BY <1>16 DEF workersVars, Failures
  <2> QED BY <1>16, <2>1 DEF workersVars
<1> QED BY <1>1, <1>2, <1>3, <1>4, <1>5, <1>6, <1>7, <1>8, <1>9, <1>10, <1>11, <1>12, <1>13,
           <1>14, <1>15, <1>16 DEF WorkersNext, Parent

LEMMA ResultInductive == WorkersSpec => [](WorkersInv /\ OutputInv /\ ResultInv)
<1>1. WorkersInit => OutputInv /\ ResultInv
  <2> SUFFICES ASSUME WorkersInit PROVE OutputInv /\ ResultInv
    OBVIOUS
  <2>1. Failures = {} /\ ToSet(printed) = {} /\ printed \in Seq(Slice)
    BY WorkersAssumption DEF WorkersInit, Failures, ToSet, Slice
  <2>2. Cardinality({}) = 0
    BY FS_EmptySet
  <2>3. OutputInv
    BY <2>1, WorkersAssumption DEF WorkersInit, OutputInv, PrintedInOrder, Kept
  <2> QED BY <2>1, <2>2, <2>3 DEF WorkersInit, ResultInv
<1> QED BY <1>1, WorkersInductive, OutputNext, ResultNext, PTL DEF WorkersSpec

(* Standard error is printed in input order, each slice once, and no slice *)
(* whose worker is live or unreaped is passed, in whatever order workers   *)
(* end and whichever slices never start.                                   *)
THEOREM OutputInOrder == WorkersSpec => []PrintedInOrder
<1>1. OutputInv => PrintedInOrder
  BY DEF OutputInv
<1> QED BY <1>1, ResultInductive, PTL

(* A translation that comes to its end has counted every slice that failed *)
(* or never started once, and shown the output of every other one.         *)
THEOREM ResultsAreExact == WorkersSpec => []ResultExact
<1>1. WorkersInv /\ OutputInv /\ ResultInv => ResultExact
  <2> SUFFICES ASSUME WorkersInv, OutputInv, ResultInv, pc = "done" PROVE ResultExact
    BY DEF ResultExact
  <2>1. Unreaped = {}
    BY DEF WorkersInv, SlotTypes, SlotsInv, ResultInv, ToSet
  <2>2. Failures = {s \in Slice : worker[s] # "ok"}
    BY <2>1, WorkersAssumption DEF Failures, Unreaped, ResultInv, WorkersInv, SlotTypes, Ended, Slice
  <2> QED BY <2>2 DEF ResultInv, ResultExact
<1> QED BY <1>1, ResultInductive, PTL

(* No more than `jobs' workers have a slot.  BeginSlice looks before a     *)
(* slice is claimed, and only RecordSlot adds a slot after that.           *)
JobsInv == /\ Len(live) <= Jobs
           /\ pc \in {"block", "fork", "record"} => Len(live) < Jobs

LEMMA JobsInvStep == WorkersInv /\ JobsInv /\ [WorkersNext]_workersVars => JobsInv'
<1> SUFFICES ASSUME WorkersInv, JobsInv, [WorkersNext]_workersVars PROVE JobsInv'
  OBVIOUS
<1>1. Jobs \in Nat \ {0} /\ Jobs' = Jobs
  BY WorkersAssumption DEF Jobs
<1>2. live \in Seq(Slice) /\ pc \in Controls
  BY DEF WorkersInv, SlotTypes
<1>3. CASE BeginSlice
  BY <1>3, <1>1, <1>2 DEF BeginSlice, JobsInv, ParentGoes
<1>4. CASE Block \/ Fork \/ ForkFails \/ Unblock \/ Capture
  BY <1>4, <1>1, <1>2 DEF Block, Fork, ForkFails, Unblock, Capture, JobsInv, ParentGoes
<1>5. CASE RecordSlot
  <2>1. started \in Slice
    BY <1>5 DEF RecordSlot, ParentGoes, WorkersInv, SlotsInv
  <2>2. Len(live') = Len(live) + 1
    BY <1>5, <1>2, <2>1 DEF RecordSlot
  <2> QED BY <1>5, <1>1, <1>2, <2>2 DEF RecordSlot, JobsInv, ParentGoes
<1>6. CASE Drop
  <2>1. slot \in 1..Len(live)
    BY <1>6, <1>2 DEF Drop, ParentGoes, WorkersInv, SlotsInv
  <2>2. Len(live') = Len(live) - 1
    <3>1. [live EXCEPT ![slot] = Last(live)] \in Seq(Slice)
      BY <1>2, <2>1 DEF Last
    <3>2. Len([live EXCEPT ![slot] = Last(live)]) = Len(live)
      BY <1>2
    <3> QED BY <1>6, <1>2, <2>1, <3>1, <3>2 DEF Drop, Front
  <2> QED BY <1>6, <1>1, <1>2, <2>2 DEF Drop, JobsInv, ParentGoes
<1>7. CASE ShowNext \/ ShowEnd \/ Finish
  BY <1>7, <1>1, <1>2 DEF ShowNext, PassSlice, ShowEnd, Finish, JobsInv, ParentGoes
<1>8. CASE \E i \in DOMAIN live : Wait(i)
  BY <1>8, <1>1, <1>2 DEF Wait, JobsInv, ParentGoes
<1>9. CASE Send \/ Forward \/ \E s \in Slice : WorkerEnds(s)
  BY <1>9, <1>1, <1>2 DEF Send, Forward, WorkerEnds, JobsInv, ParentGoes
<1>10. CASE UNCHANGED workersVars
  BY <1>10, <1>1, <1>2 DEF workersVars, JobsInv
<1> QED BY <1>3, <1>4, <1>5, <1>6, <1>7, <1>8, <1>9, <1>10 DEF WorkersNext, Parent

(* The parent's variables keep their types: never more than `jobs' workers *)
(* at a time, no slice shown before it is started, and no more failures    *)
(* than slices started, whatever forks fail and whenever a signal comes.   *)
THEOREM WorkersTypesHold == WorkersSpec => []WorkersTypeOK
<1>1. WorkersInit => JobsInv
  BY WorkersAssumption DEF WorkersInit, JobsInv, Jobs
<1>2. WorkersInv /\ OutputInv /\ ResultInv /\ JobsInv => WorkersTypeOK
  <2> SUFFICES ASSUME WorkersInv, OutputInv, ResultInv, JobsInv PROVE WorkersTypeOK
    OBVIOUS
  <2>1. slot \in 0..Len(live)
    <3>1. CASE pc \in {"capture", "drop"}
      BY <3>1 DEF WorkersInv, SlotTypes, SlotsInv
    <3>2. CASE pc \notin {"capture", "drop"}
      BY <3>2 DEF WorkersInv, SlotTypes, SlotsInv, NoSlot
    <3> QED BY <3>1, <3>2
  <2>2. failed \in 0..started
    <3>1. started \in 0..Slices
      BY DEF WorkersInv, SlotTypes
    <3>2. Failures \subseteq 1..started
      BY <3>1, WorkersAssumption DEF Failures, WorkersInv, FreshInv, Slice
    <3>3. IsFiniteSet(1..started) /\ Cardinality(1..started) = started
      BY <3>1, FS_Interval, WorkersAssumption
    <3>4. Cardinality(Failures) <= started /\ Cardinality(Failures) \in Nat
      BY <3>2, <3>3, FS_Subset, FS_CardinalityType
    <3> QED BY <3>1, <3>4 DEF ResultInv
  <2>3. output \subseteq Slice
    BY DEF OutputInv, WorkersInv, SlotTypes, Ended
  <2> QED BY <2>1, <2>2, <2>3
          DEF WorkersTypeOK, WorkersInv, SlotTypes, OutputInv, JobsInv, Controls
<1> QED BY <1>1, <1>2, JobsInvStep, ResultInductive, PTL DEF WorkersSpec

-----------------------------------------------------------------------------
(* BuildReuse *)

(* One build runs at a time. *)
OneBuilder == \A b, c \in Builders : b = c

-----------------------------------------------------------------------------
(* The inductive invariant *)

Readings == [{"source"} -> Nat] \cup [Inputs -> Nat]
Fingerprints == UNION {[S -> Nat] : S \in SUBSET Inputs}
Names == {".h", ".c", ".xi"}
Places == {"idle", "check", "translate", "include", ".h", ".c", ".xi", ".d", "hash", "record",
           "link", "move", "unlink", "hashScript", "recordScript"}

Read == {None} \cup Readings
Hashes == {None} \cup Fingerprints
Builds == [at : Places, edited : SUBSET Inputs, read : Read, hash : Hashes]

TInv ==
  /\ file \in [Inputs -> Nat] /\ edits \in Nat /\ reverted \in BOOLEAN
  /\ \A f \in Inputs : file[f] <= edits
  /\ out \in [Names -> Read]
  /\ dep \in SUBSET Inputs
  /\ record \in Read
  /\ script \in [run : Read, record : Hashes]
  /\ build \in [Builders -> Builds]

(* A reading names the inputs that a translation of its source reads. *)
Whole(r) == r \in Readings /\ DOMAIN r = IF r["source"] \in Including THEN Inputs ELSE {"source"}

(* What was read of the inputs not edited since is what they hold. *)
Agrees(r, now, edited) == \A f \in DOMAIN r \ edited : r[f] = now[f]

(* The outputs that are published when a build is at a place. *)
Published(place) == CASE place = ".c" -> {".h"} [] place = ".xi" -> {".h", ".c"}
                      [] place \in {".d", "hash", "record"} -> Names [] OTHER -> {}

(* A translation under way: what it has read, published and hashed. *)
Translation(u, o, d, now) ==
  /\ u.at \in {"include", ".h", ".c", ".xi", ".d", "hash", "record"} =>
       u.read \in Readings /\ Agrees(u.read, now, u.edited)
  /\ u.at = "include" => u.read \in [{"source"} -> Nat] /\ u.read["source"] \in Including
  /\ u.at \in {".h", ".c", ".xi", ".d", "hash", "record"} => Whole(u.read)
  /\ \A n \in Published(u.at) : o[n] = u.read
  /\ u.at \in {"hash", "record"} => d = DOMAIN u.read
  /\ u.at = "record" => u.hash \in [d -> Nat] /\ Agrees(u.hash, now, u.edited)

PInv == \A b \in Builders : Translation(build[b], out, dep, file)

-----------------------------------------------------------------------------
(* Facts about readings *)

LEMMA SameReading ==
  ASSUME NEW S, NEW r \in [S -> Nat], NEW q \in [S -> Nat], \A f \in S : r[f] = q[f]
  PROVE  r = q
OBVIOUS

LEMMA SomeReading ==
  /\ None \in Read /\ None \in Hashes
  /\ Readings \subseteq Read
  /\ \A r \in Readings : /\ r # None /\ "source" \in DOMAIN r
                         /\ DOMAIN r \subseteq Inputs /\ r \in [DOMAIN r -> Nat]
<1>1. \A r \in Readings : "source" \in DOMAIN r /\ DOMAIN r \subseteq Inputs /\ r \in [DOMAIN r -> Nat]
  BY DEF Readings, Inputs
<1>2. "source" \notin DOMAIN None
  BY DEF None
<1> QED BY <1>1, <1>2 DEF Read, Hashes

LEMMA Hashed ==
  ASSUME NEW now \in [Inputs -> Nat], NEW S \in SUBSET Inputs
  PROVE  [f \in S |-> now[f]] \in [S -> Nat] /\ [f \in S |-> now[f]] \in Hashes
BY DEF Hashes, Fingerprints

LEMMA ReadingOf ==
  ASSUME NEW now \in [Inputs -> Nat]
  PROVE  [f \in {"source"} |-> now[f]] \in [{"source"} -> Nat]
BY DEF Inputs

LEMMA TInvInit == Init => TInv
<1> SUFFICES ASSUME Init PROVE TInv OBVIOUS
<1> USE SomeReading DEF Init
<1>1. build \in [Builders -> Builds] BY DEF NoBuild, Builds, Places
<1>2. out \in [Names -> Read] BY DEF Names
<1>3. file \in [Inputs -> Nat] /\ \A f \in Inputs : file[f] <= edits OBVIOUS
<1> QED BY <1>1, <1>2, <1>3 DEF TInv

(* A hash of inputs not edited since they were read is the reading itself. *)
LEMMA RecordedIsRead ==
  ASSUME NEW u, NEW o, NEW d, NEW now, Translation(u, o, d, now),
         u.at = "record", u.edited \cap d = {}
  PROVE  /\ u.read \in Readings /\ u.hash = u.read
         /\ \A n \in Names : o[n] = u.hash
         /\ d = DOMAIN u.read /\ Agrees(u.read, now, {})
<1>1. /\ u.read \in Readings /\ Agrees(u.read, now, u.edited)
      /\ \A n \in Names : o[n] = u.read
      /\ d = DOMAIN u.read /\ u.hash \in [d -> Nat] /\ Agrees(u.hash, now, u.edited)
  BY DEF Translation, Published
<1>2. u.read \in [d -> Nat] BY <1>1, SomeReading
<1>3. \A f \in d : u.read[f] = now[f] /\ u.hash[f] = now[f]
  BY <1>1 DEF Agrees
<1>4. u.hash = u.read BY <1>1, <1>2, <1>3, SameReading
<1> QED BY <1>1, <1>3, <1>4 DEF Agrees

(* A build goes to another place, and may have a new reading or hash. *)
LEMMA BuildMoves ==
  ASSUME TInv, NEW b \in Builders, NEW u \in Builds, build' = [build EXCEPT ![b] = u]
  PROVE  build' \in [Builders -> Builds]
BY DEF TInv

LEMMA TInvStep == ASSUME TInv, PInv, [Next]_vars PROVE TInv'
<1> USE SomeReading
<1>1. CASE UNCHANGED vars
  BY <1>1 DEF vars, TInv
<1>2. ASSUME NEW f \in Inputs, NEW v \in 0..MaxEdits, Edit(f, v) PROVE TInv'
  <2>1. \A b \in Builders : [build[b] EXCEPT !.edited = @ \cup {f}] \in Builds
    BY <1>2 DEF TInv, Builds
  <2>2. build' \in [Builders -> Builds]
    BY <1>2, <2>1 DEF Edit
  <2>3. file' \in [Inputs -> Nat] /\ edits' \in Nat /\ \A g \in Inputs : file'[g] <= edits'
    BY <1>2 DEF TInv, Edit
  <2> QED BY <1>2, <2>2, <2>3 DEF Edit, TInv
<1>3. ASSUME NEW b \in Builders, Build(b) PROVE TInv'
  <2> DEFINE u == build[b]
  <2>1. u \in Builds BY DEF TInv
  <2>2. \A place \in Places : [u EXCEPT !.at = place] \in Builds
    BY <2>1 DEF Builds
  <2>3. ASSUME NEW place \in Places, Goto(b, place) PROVE build' \in [Builders -> Builds]
    <3>1. build' = [build EXCEPT ![b] = [u EXCEPT !.at = place]]
      BY <2>3 DEF Goto
    <3> QED BY <2>2, <3>1, BuildMoves
  <2>4. Translation(u, out, dep, file) BY DEF PInv
  <2>5. CASE Begin(b)
    <3>1. [NoBuild EXCEPT !.at = "check"] \in Builds BY DEF NoBuild, Builds, Places
    <3>2. build' \in [Builders -> Builds] BY <2>5, <3>1, BuildMoves DEF Begin
    <3> QED BY <2>5, <3>2 DEF Begin, Files, TInv
  <2>6. CASE Check(b)
    <3>1. build' \in [Builders -> Builds]
      <4>1. \E place \in Places : Goto(b, place) BY <2>6 DEF Check, Places
      <4> QED BY <4>1, <2>3
    <3> QED BY <2>6, <3>1 DEF Check, Files, TInv
  <2>7. CASE ReadSource(b)
    <3> DEFINE place == IF file["source"] \in Including THEN "include" ELSE Outputs[1]
               r == [f \in {"source"} |-> file[f]]
    <3>1. r \in Read /\ place \in Places
      <4>1. r \in Readings BY ReadingOf DEF TInv, Readings
      <4> QED BY <4>1 DEF Places, Outputs
    <3>2. [u EXCEPT !.read = r, !.at = place] \in Builds
      <4> HIDE DEF r, place
      <4> QED BY <2>1, <3>1 DEF Builds
    <3>3. build' = [build EXCEPT ![b] = [u EXCEPT !.read = r, !.at = place]]
      BY <2>7 DEF ReadSource, Contents
    <3>4. build' \in [Builders -> Builds]
      BY <3>2, <3>3, BuildMoves
    <3> QED BY <2>7, <3>4 DEF ReadSource, Files, TInv
  <2>8. CASE ReadHeader(b)
    <3> DEFINE r == [f \in Inputs |-> IF f = "header" THEN file[f] ELSE u.read[f]]
    <3>1. r \in Readings
      <4>1. u.read \in [{"source"} -> Nat] BY <2>8, <2>4 DEF ReadHeader, At, Translation
      <4>2. \A f \in Inputs : (IF f = "header" THEN file[f] ELSE u.read[f]) \in Nat
        BY <4>1 DEF Inputs, TInv
      <4>3. r \in [Inputs -> Nat] BY <4>2
      <4> QED BY <4>3 DEF Readings
    <3>2. [u EXCEPT !.read = r, !.at = Outputs[1]] \in Builds
      <4> HIDE DEF r
      <4> QED BY <2>1, <3>1 DEF Builds, Places, Outputs
    <3>3. build' = [build EXCEPT ![b] = [u EXCEPT !.read = r, !.at = Outputs[1]]]
      BY <2>8 DEF ReadHeader
    <3>4. build' \in [Builders -> Builds]
      BY <3>2, <3>3, BuildMoves
    <3> QED BY <2>8, <3>4 DEF ReadHeader, Files, TInv
  <2>9. CASE Publish(b)
    <3>1. PICK i \in DOMAIN Outputs :
             /\ out' = [out EXCEPT ![Outputs[i]] = u.read]
             /\ Goto(b, IF i = Len(Outputs) THEN ".d" ELSE Outputs[i + 1])
      BY <2>9 DEF Publish
    <3>2. (IF i = Len(Outputs) THEN ".d" ELSE Outputs[i + 1]) \in Places
      BY DEF Outputs, Places
    <3>3. build' \in [Builders -> Builds] BY <3>1, <3>2, <2>3
    <3>4. out' \in [Names -> Read] BY <3>1, <2>1 DEF TInv, Builds
    <3> QED BY <2>9, <3>3, <3>4 DEF Publish, Files, TInv
  <2>10. CASE WriteDepfile(b)
    <3>1. build' \in [Builders -> Builds] BY <2>10, <2>3 DEF WriteDepfile, Places
    <3>2. dep' \in SUBSET Inputs
      BY <2>10, <2>4 DEF WriteDepfile, At, Translation
    <3> QED BY <2>10, <3>1, <3>2 DEF WriteDepfile, Files, TInv
  <2>11. CASE Hash(b)
    <3>1. Fingerprint \in Hashes BY Hashed DEF Fingerprint, Contents, TInv
    <3>2. [u EXCEPT !.at = "record", !.hash = Fingerprint] \in Builds
      BY <2>1, <3>1 DEF Builds, Places
    <3>3. build' \in [Builders -> Builds] BY <2>11, <3>2, BuildMoves DEF Hash
    <3> QED BY <2>11, <3>3 DEF Hash, Files, TInv
  <2>12. CASE Record(b)
    <3>1. build' \in [Builders -> Builds] BY <2>12, <2>3 DEF Record, Places
    <3>2. record' \in Read
      BY <2>12, <2>4, RecordedIsRead DEF Record, At, Unchanged, TInv
    <3> QED BY <2>12, <3>1, <3>2 DEF Record, Files, TInv
  <2>13. CASE Link(b)
    <3>1. out[".c"] \in Read BY DEF TInv, Names
    <3>2. [u EXCEPT !.at = "move", !.read = out[".c"]] \in Builds
      BY <2>1, <3>1 DEF Builds, Places
    <3>3. build' \in [Builders -> Builds] BY <2>13, <3>2, BuildMoves DEF Link
    <3> QED BY <2>13, <3>3 DEF Link, Files, TInv
  <2>14. CASE Move(b)
    <3>1. build' \in [Builders -> Builds] BY <2>14, <2>3 DEF Move, Places
    <3>2. script' \in [run : Read, record : Hashes] BY <2>14, <2>1 DEF Move, TInv, Builds
    <3> QED BY <2>14, <3>1, <3>2 DEF Move, Files, TInv
  <2>15. CASE Unlink(b)
    <3>1. build' \in [Builders -> Builds] BY <2>15, <2>3 DEF Unlink, Places
    <3>2. script' \in [run : Read, record : Hashes] BY <2>15 DEF Unlink, TInv
    <3> QED BY <2>15, <3>1, <3>2 DEF Unlink, Files, TInv
  <2>16. CASE HashScript(b)
    <3>1. Fingerprint \in Hashes BY Hashed DEF Fingerprint, Contents, TInv
    <3>2. [u EXCEPT !.at = "recordScript", !.hash = Fingerprint] \in Builds
      BY <2>1, <3>1 DEF Builds, Places
    <3>3. build' \in [Builders -> Builds] BY <2>16, <3>2, BuildMoves DEF HashScript
    <3> QED BY <2>16, <3>3 DEF HashScript, Files, TInv
  <2>17. CASE RecordScript(b)
    <3>1. build' \in [Builders -> Builds] BY <2>17, <2>3 DEF RecordScript, Places
    <3>2. script' \in [run : Read, record : Hashes]
      BY <2>17, <2>1 DEF RecordScript, TInv, Builds
    <3> QED BY <2>17, <3>1, <3>2 DEF RecordScript, Files, TInv
  <2>18. CASE Ends(b)
    <3>1. build' \in [Builders -> Builds] BY <2>18, <2>3 DEF Ends, Places
    <3> QED BY <2>18, <3>1 DEF Ends, Files, TInv
  <2> QED BY <1>3, <2>5, <2>6, <2>7, <2>8, <2>9, <2>10, <2>11, <2>12, <2>13, <2>14, <2>15,
             <2>16, <2>17, <2>18 DEF Build
<1> QED BY <1>1, <1>2, <1>3 DEF Next

-----------------------------------------------------------------------------
(* Translation *)

LEMMA PInvInit == Init => PInv
<1> SUFFICES ASSUME Init, NEW b \in Builders PROVE Translation(build[b], out, dep, file)
  BY DEF PInv
<1>1. build[b].at = "idle" BY DEF Init, NoBuild
<1>2. Published(build[b].at) = {} BY <1>1 DEF Published
<1> QED BY <1>1, <1>2 DEF Translation

LEMMA PInvStep == ASSUME OneBuilder, TInv, PInv, [Next]_vars PROVE PInv'
<1> USE SomeReading
<1>1. CASE UNCHANGED vars
  BY <1>1 DEF vars, PInv
<1>2. ASSUME NEW f \in Inputs, NEW v \in 0..MaxEdits, Edit(f, v) PROVE PInv'
  <2> SUFFICES ASSUME NEW b \in Builders
               PROVE  Translation(build'[b], out', dep', file')
    BY DEF PInv
  <2> DEFINE u == build[b]
             w == [u EXCEPT !.edited = @ \cup {f}]
  <2>1. build'[b] = w BY <1>2 DEF Edit
  <2>2. /\ w.at = u.at /\ w.read = u.read /\ w.hash = u.hash
        /\ w.edited = u.edited \cup {f}
    BY DEF TInv, Builds
  <2>3. \A g \in Inputs \ {f} : file'[g] = file[g] BY <1>2 DEF Edit, TInv
  <2>4. \A r : DOMAIN r \subseteq Inputs /\ Agrees(r, file, u.edited) => Agrees(r, file', w.edited)
    BY <2>2, <2>3 DEF Agrees
  <2>5. Translation(u, out, dep, file) BY DEF PInv
  <2>6. u.at = "record" => DOMAIN u.hash \subseteq Inputs
    BY <2>5 DEF Translation, TInv
  <2>7. out' = out /\ dep' = dep BY <1>2 DEF Edit
  <2> HIDE DEF u, w
  <2>8. Translation(w, out, dep, file') BY <2>2, <2>4, <2>5, <2>6 DEF Translation
  <2> QED BY <2>1, <2>7, <2>8
<1>3. ASSUME NEW b \in Builders, Build(b) PROVE PInv'
  <2> DEFINE u == build[b]
             w == build'[b]
  <2> SUFFICES Translation(w, out', dep', file')
    BY DEF PInv, OneBuilder
  <2>1. u \in Builds /\ DOMAIN build = Builders BY DEF TInv
  <2>2. Translation(u, out, dep, file) BY DEF PInv
  <2>3. ASSUME NEW place, Goto(b, place)
        PROVE  w.at = place /\ w.read = u.read /\ w.hash = u.hash /\ w.edited = u.edited
    BY <2>1, <2>3 DEF Goto, Builds
  <2>4. ASSUME w.at \in {"idle", "check", "translate", "link", "move", "unlink",
                         "hashScript", "recordScript"}
        PROVE  Translation(w, out', dep', file')
    BY <2>4 DEF Translation, Published
  <2>5. CASE Begin(b)
    <3>1. w.at = "check" BY <2>1, <2>5 DEF Begin, NoBuild
    <3> QED BY <2>4, <3>1
  <2>6. CASE Check(b)
    <3>1. w.at \in {"link", "translate"} BY <2>6, <2>3 DEF Check
    <3> QED BY <2>4, <3>1
  <2>7. CASE ReadSource(b)
    <3> DEFINE r == [f \in {"source"} |-> file[f]]
    <3>1. /\ w.read = r /\ w.edited = u.edited
          /\ w.at = IF file["source"] \in Including THEN "include" ELSE ".h"
      BY <2>1, <2>7 DEF ReadSource, Contents, Builds, Outputs
    <3>2. /\ r \in [{"source"} -> Nat] /\ r \in Readings
          /\ r["source"] = file["source"] /\ DOMAIN r = {"source"}
      BY ReadingOf DEF TInv, Readings
    <3>3. Agrees(r, file, u.edited) BY DEF Agrees
    <3>4. UNCHANGED <<file, out, dep>> BY <2>7 DEF ReadSource, Files
    <3> HIDE DEF r, u, w
    <3>5. Published(w.at) = {} BY <3>1 DEF Published
    <3> QED BY <3>1, <3>2, <3>3, <3>4, <3>5 DEF Translation, Whole
  <2>8. CASE ReadHeader(b)
    <3> DEFINE r == [f \in Inputs |-> IF f = "header" THEN file[f] ELSE u.read[f]]
    <3>1. w.read = r /\ w.edited = u.edited /\ w.at = ".h"
      BY <2>1, <2>8 DEF ReadHeader, Builds, Outputs
    <3>2. /\ u.read \in [{"source"} -> Nat] /\ u.read["source"] \in Including
          /\ Agrees(u.read, file, u.edited)
      BY <2>8, <2>2 DEF ReadHeader, At, Translation
    <3>3. r \in [Inputs -> Nat]
      <4>1. \A f \in Inputs : (IF f = "header" THEN file[f] ELSE u.read[f]) \in Nat
        BY <3>2 DEF Inputs, TInv
      <4> QED BY <4>1
    <3>4. r["source"] = u.read["source"] /\ r["header"] = file["header"] BY DEF Inputs
    <3>5. Agrees(r, file, u.edited)
      <4>1. \A f \in Inputs \ u.edited : r[f] = file[f]
        BY <3>2, <3>4 DEF Agrees, Inputs
      <4> QED BY <4>1, <3>3 DEF Agrees
    <3>6. UNCHANGED <<file, out, dep>> BY <2>8 DEF ReadHeader, Files
    <3> HIDE DEF r, u, w
    <3>7. Whole(r) BY <3>2, <3>3, <3>4 DEF Whole, Readings
    <3>8. Published(w.at) = {} BY <3>1 DEF Published
    <3> QED BY <3>1, <3>5, <3>6, <3>7, <3>8 DEF Translation, Whole
  <2>9. CASE Publish(b)
    <3>1. PICK i \in DOMAIN Outputs :
             /\ u.at = Outputs[i]
             /\ out' = [out EXCEPT ![Outputs[i]] = u.read]
             /\ Goto(b, IF i = Len(Outputs) THEN ".d" ELSE Outputs[i + 1])
      BY <2>9 DEF Publish, At
    <3>2. \/ u.at = ".h" /\ w.at = ".c"
          \/ u.at = ".c" /\ w.at = ".xi"
          \/ u.at = ".xi" /\ w.at = ".d"
      BY <3>1, <2>3 DEF Outputs
    <3>3. Published(w.at) = Published(u.at) \cup {u.at} BY <3>2 DEF Published, Names
    <3>4. out' = [out EXCEPT ![u.at] = u.read] /\ u.at \in Names
      BY <3>1, <3>2 DEF Names
    <3>5. \A n \in Published(w.at) : out'[n] = u.read
      <4>1. \A n \in Published(u.at) : out[n] = u.read BY <2>2 DEF Translation
      <4>2. Published(w.at) \subseteq Names /\ DOMAIN out = Names
        BY <3>2 DEF Published, Names, TInv
      <4> QED BY <3>3, <3>4, <4>1, <4>2
    <3>6. Whole(u.read) /\ u.read \in Readings /\ Agrees(u.read, file, u.edited)
      BY <3>2, <2>2 DEF Translation
    <3>7. w.read = u.read /\ w.edited = u.edited BY <3>1, <2>3
    <3>8. UNCHANGED <<file, dep>> BY <2>9 DEF Publish, Files
    <3> HIDE DEF u, w
    <3> QED BY <3>2, <3>5, <3>6, <3>7, <3>8 DEF Translation
  <2>10. CASE WriteDepfile(b)
    <3>1. /\ u.at = ".d" /\ dep' = DOMAIN u.read /\ w.at = "hash"
          /\ w.read = u.read /\ w.edited = u.edited /\ UNCHANGED <<file, out>>
      BY <2>10, <2>3 DEF WriteDepfile, At, Files
    <3>2. Published(w.at) = Published(u.at) BY <3>1 DEF Published
    <3> HIDE DEF u, w
    <3> QED BY <3>1, <3>2, <2>2 DEF Translation
  <2>11. CASE Hash(b)
    <3>1. /\ u.at = "hash" /\ w.at = "record" /\ w.hash = Fingerprint
          /\ w.read = u.read /\ w.edited = u.edited /\ UNCHANGED <<file, out, dep>>
      BY <2>11, <2>1 DEF Hash, At, Files, Builds
    <3>2. Published(w.at) = Published(u.at) BY <3>1 DEF Published
    <3>3. Fingerprint \in [dep -> Nat] /\ Agrees(Fingerprint, file, u.edited)
      BY Hashed DEF Fingerprint, Contents, TInv, Agrees
    <3> HIDE DEF u, w
    <3> QED BY <3>1, <3>2, <3>3, <2>2 DEF Translation
  <2>12. CASE Record(b) \/ Link(b) \/ Move(b) \/ Unlink(b) \/ HashScript(b)
              \/ RecordScript(b) \/ Ends(b)
    <3>1. w.at \in {"idle", "link", "move", "unlink", "hashScript", "recordScript"}
      BY <2>12, <2>1, <2>3 DEF Record, Link, Move, Unlink, HashScript, RecordScript, Ends, Builds
    <3> QED BY <2>4, <3>1
  <2> QED BY <1>3, <2>5, <2>6, <2>7, <2>8, <2>9, <2>10, <2>11, <2>12 DEF Build
<1> QED BY <1>1, <1>2, <1>3 DEF Next

LEMMA RecordStep ==
  ASSUME TInv, PInv, [Next]_vars, record' # record
  PROVE  \E b \in Builders : /\ Record(b) /\ build[b].edited \cap dep = {}
                             /\ record' = build[b].hash /\ out' = out
<1>1. PICK b \in Builders : Record(b)
  BY DEF Next, vars, Edit, Build, Begin, Check, ReadSource, ReadHeader, Publish, WriteDepfile,
         Hash, Link, Move, Unlink, HashScript, RecordScript, Ends
<1> QED BY <1>1 DEF Record, Unchanged

(* src/commands/build/build.x:1343-1349: a record is made only beside      *)
(* outputs of what it records, in a project directory where one build runs *)
(* at a time, whatever is edited, fails or is killed, and however often.   *)
THEOREM RecordsDescribeOutputs == ASSUME OneBuilder PROVE Spec => RecordsDescribe
<1>1. Init => TInv /\ PInv
  BY TInvInit, PInvInit
<1>2. TInv /\ PInv /\ [Next]_vars => TInv' /\ PInv'
  BY TInvStep, PInvStep
<1>3. TInv /\ PInv /\ [Next]_vars => [record' # record => \A o \in DOMAIN out : out[o] = record']_vars
  <2> SUFFICES ASSUME TInv, PInv, [Next]_vars, record' # record
               PROVE  \A o \in DOMAIN out : out[o] = record'
    OBVIOUS
  <2>1. PICK b \in Builders : /\ Record(b) /\ build[b].edited \cap dep = {}
                              /\ record' = build[b].hash
    BY RecordStep
  <2>2. Translation(build[b], out, dep, file) /\ build[b].at = "record"
    BY <2>1 DEF PInv, Record, At
  <2>3. \A n \in Names : out[n] = build[b].hash
    BY <2>1, <2>2, RecordedIsRead
  <2> QED BY <2>1, <2>3 DEF TInv
<1> QED
  BY <1>1, <1>2, <1>3, PTL DEF Spec, RecordsDescribe

-----------------------------------------------------------------------------
(* What is used again *)

(* An input no longer holds what was read of it; without a reversion it    *)
(* never will again.                                                       *)
Outdated(r, now) == \E f \in DOMAIN r : r[f] # now[f]
Known(r, n) == r # None => Whole(r) /\ \A f \in DOMAIN r : r[f] <= n

Translating == {"translate", "include", ".h", ".c", ".xi", ".d", "hash", "record"}
Scripting == {"move", "unlink", "hashScript", "recordScript"}

(* A build translates only what is recorded no more, links outputs of what *)
(* was there, and edits while it runs are noticed in the script's record.  *)
Sound(u, o, d, r, s, now) ==
  /\ u.at \in Translating => r = None \/ Outdated(r, now)
  /\ u.at = "link" => Whole(o[".c"]) /\ d = DOMAIN o[".c"] /\ Agrees(o[".c"], now, u.edited)
  /\ u.at \in Scripting => Whole(u.read) /\ d = DOMAIN u.read /\ Agrees(u.read, now, u.edited)
  /\ u.at \in Scripting \ {"move"} => s.run = u.read
  /\ u.at = "recordScript" => u.hash \in [d -> Nat] /\ Agrees(u.hash, now, u.edited)
  /\ s.record # None => \A f \in u.edited \cap DOMAIN s.record : s.record[f] # now[f]

(* What a record of a unit, and of a script, are worth. *)
UnitRecord(r, o, d, now) == \/ r = None \/ Outdated(r, now)
                            \/ d = DOMAIN r /\ \A n \in Names : o[n] = r
ScriptRecord(s, now) == s.record = None \/ Outdated(s.record, now) \/ s.record = s.run

RInv == ~reverted =>
  /\ Known(record, edits) /\ Known(script.record, edits)
  /\ UnitRecord(record, out, dep, file)
  /\ ScriptRecord(script, file)
  /\ \A b \in Builders : Sound(build[b], out, dep, record, script, file)

LEMMA RInvInit == Init => RInv
<1> SUFFICES ASSUME Init PROVE RInv OBVIOUS
<1>1. record = None /\ script.record = None BY DEF Init
<1>2. ASSUME NEW b \in Builders PROVE build[b].at = "idle" BY DEF Init, NoBuild
<1>3. ASSUME NEW b \in Builders PROVE Sound(build[b], out, dep, record, script, file)
  BY <1>1, <1>2 DEF Sound, Translating, Scripting
<1> QED BY <1>1, <1>3 DEF RInv, Known, UnitRecord, ScriptRecord

(* A record that nothing has outdated makes the outputs be used again. *)
LEMMA KeptIsCurrent ==
  ASSUME TInv, record # None, Known(record, edits), ~Outdated(record, file),
         dep = DOMAIN record, \A n \in Names : out[n] = record
  PROVE  Current
<1>1. record \in Readings BY DEF Known, Whole
<1>2. record = Contents(dep)
  <2>1. Contents(dep) \in [dep -> Nat] /\ \A f \in dep : Contents(dep)[f] = file[f]
    BY Hashed DEF Contents, TInv
  <2>2. record \in [dep -> Nat] BY <1>1, SomeReading
  <2>3. \A f \in dep : record[f] = file[f] BY DEF Outdated
  <2> QED BY <2>1, <2>2, <2>3, SameReading
<1>3. dep # {} BY <1>1, SomeReading
<1>4. \A i \in DOMAIN Outputs : Outputs[i] \in Names BY DEF Outputs, Names
<1> QED BY <1>2, <1>3, <1>4 DEF Current, Fingerprint

LEMMA CurrentIsKept ==
  ASSUME TInv, Current, UnitRecord(record, out, dep, file), Known(record, edits)
  PROVE  /\ Whole(record) /\ dep = DOMAIN record /\ Agrees(record, file, {})
         /\ \A n \in Names : out[n] = record
<1>1. dep # {} /\ record = Contents(dep) BY DEF Current, Fingerprint
<1>2. DOMAIN record = dep /\ \A f \in dep : record[f] = file[f] BY <1>1 DEF Contents
<1>3. record # None
  <2>1. PICK f \in dep : TRUE BY <1>1
  <2>2. f \in DOMAIN record /\ f \in Inputs BY <1>2, <2>1 DEF TInv
  <2> QED BY <2>2 DEF None, Inputs
<1>4. ~Outdated(record, file) BY <1>2 DEF Outdated
<1> QED BY <1>2, <1>3, <1>4 DEF UnitRecord, Known, Agrees

LEMMA RInvEdit ==
  ASSUME TInv, RInv, NEW f \in Inputs, NEW v \in 0..MaxEdits, Edit(f, v)
  PROVE  RInv'
<1> SUFFICES ASSUME ~reverted' PROVE RInv'
  BY DEF RInv
<1>1. /\ ~reverted /\ v > edits /\ edits' = edits + 1 /\ edits \in Nat /\ v \in Nat
      /\ UNCHANGED <<out, dep, record, script>>
  <2>1. ~reverted /\ ~(v <= edits) BY DEF Edit
  <2>2. /\ edits' = edits + 1 /\ edits \in Nat /\ v \in 0..edits + 1
        /\ UNCHANGED <<out, dep, record, script>>
    BY DEF Edit, TInv
  <2> QED BY <2>1, <2>2
<1>2. /\ file' = [file EXCEPT ![f] = v] /\ file' \in [Inputs -> Nat]
      /\ file'[f] = v /\ \A g \in Inputs \ {f} : file'[g] = file[g]
  BY <1>1 DEF Edit, TInv
<1>3. ASSUME NEW r, Known(r, edits), r # None
      PROVE  /\ Known(r, edits') /\ (f \in DOMAIN r => r[f] # file'[f])
             /\ Outdated(r, file) => Outdated(r, file')
  <2>1. r \in [DOMAIN r -> Nat] /\ DOMAIN r \subseteq Inputs /\ \A g \in DOMAIN r : r[g] <= edits
    BY <1>3, SomeReading DEF Known, Whole
  <2>2. Known(r, edits') BY <1>1, <1>3, <2>1 DEF Known
  <2>3. f \in DOMAIN r => r[f] # file'[f] BY <1>1, <1>2, <2>1
  <2> QED BY <1>2, <2>1, <2>2, <2>3 DEF Outdated
<1>4. Known(record, edits') /\ Known(script.record, edits')
  BY <1>1, <1>3 DEF RInv, Known
<1>5. UnitRecord(record, out, dep, file') /\ ScriptRecord(script, file')
  BY <1>1, <1>3 DEF RInv, UnitRecord, ScriptRecord
<1>6. ASSUME NEW b \in Builders PROVE Sound(build'[b], out, dep, record, script, file')
  <2> DEFINE u == build[b]
             w == [u EXCEPT !.edited = @ \cup {f}]
  <2>1. build'[b] = w BY DEF Edit
  <2>2. /\ w.at = u.at /\ w.read = u.read /\ w.hash = u.hash
        /\ w.edited = u.edited \cup {f}
    BY DEF TInv, Builds
  <2>3. \A r : DOMAIN r \subseteq Inputs /\ Agrees(r, file, u.edited) => Agrees(r, file', w.edited)
    BY <2>2, <1>2 DEF Agrees
  <2>4. Sound(u, out, dep, record, script, file) BY <1>1 DEF RInv
  <2>5. u.at = "recordScript" => DOMAIN u.hash \subseteq Inputs
    BY <2>4 DEF Sound, TInv
  <2>6. \A r : Whole(r) => DOMAIN r \subseteq Inputs BY SomeReading DEF Whole
  <2>7. script.record # None =>
          \A g \in w.edited \cap DOMAIN script.record : script.record[g] # file'[g]
    <3> SUFFICES ASSUME script.record # None, NEW g \in w.edited \cap DOMAIN script.record
                 PROVE  script.record[g] # file'[g]
      OBVIOUS
    <3>1. CASE g = f BY <3>1, <1>1, <1>3 DEF RInv
    <3>2. CASE g # f
      <4>1. g \in u.edited /\ g \in Inputs BY <3>2, <2>2, <2>6, <1>1 DEF RInv, Known
      <4>2. script.record[g] # file[g] BY <4>1, <2>4 DEF Sound
      <4> QED BY <3>2, <4>1, <4>2, <1>2
    <3> QED BY <3>1, <3>2
  <2>8. record # None => (Outdated(record, file) => Outdated(record, file'))
    BY <1>1, <1>3 DEF RInv
  <2> HIDE DEF u, w
  <2>9. Sound(w, out, dep, record, script, file')
    BY <2>2, <2>3, <2>4, <2>5, <2>6, <2>7, <2>8 DEF Sound
  <2> QED BY <2>1, <2>9
<1> QED BY <1>1, <1>4, <1>5, <1>6 DEF RInv

LEMMA RInvBuild ==
  ASSUME OneBuilder, TInv, PInv, RInv, NEW b \in Builders, Build(b)
  PROVE  RInv'
<1> USE SomeReading
<1> DEFINE u == build[b]
           w == build'[b]
<1>1. UNCHANGED <<file, edits, reverted>>
  BY DEF Build, Begin, Check, ReadSource, ReadHeader, Publish, WriteDepfile, Hash, Record, Link,
         Move, Unlink, HashScript, RecordScript, Ends, Files
<1> SUFFICES ASSUME ~reverted
             PROVE  /\ Known(record', edits) /\ Known(script'.record, edits)
                    /\ UnitRecord(record', out', dep', file)
                    /\ ScriptRecord(script', file)
                    /\ Sound(w, out', dep', record', script', file)
  BY <1>1 DEF RInv, OneBuilder
<1>2. /\ Known(record, edits) /\ Known(script.record, edits)
      /\ UnitRecord(record, out, dep, file) /\ ScriptRecord(script, file)
      /\ Sound(u, out, dep, record, script, file)
  BY DEF RInv
<1>3. u \in Builds /\ DOMAIN build = Builders BY DEF TInv
<1>4. Translation(u, out, dep, file) BY DEF PInv
<1>5. ASSUME NEW place, Goto(b, place)
      PROVE  w.at = place /\ w.read = u.read /\ w.hash = u.hash /\ w.edited = u.edited
  BY <1>3, <1>5 DEF Goto, Builds
<1> HIDE DEF u, w
<1>6. CASE Begin(b)
  <2>1. w.at = "check" /\ w.edited = {} BY <1>3, <1>6 DEF Begin, NoBuild, w
  <2>2. UNCHANGED <<out, dep, record, script>> BY <1>6 DEF Begin
  <2> QED BY <1>2, <2>1, <2>2 DEF Sound, Translating, Scripting
<1>7. CASE Check(b)
  <2>1. UNCHANGED <<out, dep, record, script>> BY <1>7 DEF Check
  <2>2. w.edited = u.edited /\ w.at = IF Current THEN "link" ELSE "translate"
    BY <1>7, <1>5 DEF Check
  <2>3. CASE Current
    <3>1. Whole(out[".c"]) /\ dep = DOMAIN out[".c"] /\ Agrees(out[".c"], file, {})
      BY <1>2, <2>3, CurrentIsKept DEF Names
    <3>2. Agrees(out[".c"], file, u.edited) BY <3>1 DEF Agrees
    <3> QED BY <1>2, <2>1, <2>2, <2>3, <3>1, <3>2 DEF Sound, Translating, Scripting
  <2>4. CASE ~Current
    <3>1. record = None \/ Outdated(record, file)
      BY <1>2, <2>4, KeptIsCurrent DEF UnitRecord
    <3> QED BY <1>2, <2>1, <2>2, <2>4, <3>1 DEF Sound, Translating, Scripting
  <2> QED BY <2>3, <2>4
<1>8. CASE ReadSource(b) \/ ReadHeader(b) \/ Hash(b)
  <2>1. UNCHANGED <<out, dep, record, script>> BY <1>8 DEF ReadSource, ReadHeader, Hash
  <2>2. /\ u.at \in Translating /\ w.edited = u.edited
        /\ w.at \in {"include", ".h", "record"}
    <3>1. CASE ReadSource(b)
      BY <3>1, <1>3 DEF ReadSource, At, Translating, Outputs, Builds, u, w
    <3>2. CASE ReadHeader(b)
      BY <3>2, <1>3 DEF ReadHeader, At, Translating, Outputs, Builds, u, w
    <3>3. CASE Hash(b)
      BY <3>3, <1>3 DEF Hash, At, Translating, Builds, u, w
    <3> QED BY <1>8, <3>1, <3>2, <3>3
  <2> QED BY <1>2, <2>1, <2>2 DEF Sound, Translating, Scripting
<1>9. CASE Publish(b) \/ WriteDepfile(b)
  <2>1. UNCHANGED <<record, script>> BY <1>9 DEF Publish, WriteDepfile
  <2>2. /\ u.at \in Translating /\ w.edited = u.edited
        /\ w.at \in {".c", ".xi", ".d", "hash"}
    <3>1. CASE Publish(b)
      <4>1. PICK i \in DOMAIN Outputs :
               /\ u.at = Outputs[i]
               /\ Goto(b, IF i = Len(Outputs) THEN ".d" ELSE Outputs[i + 1])
        BY <3>1 DEF Publish, At, u
      <4> QED BY <4>1, <1>5 DEF Outputs, Translating
    <3>2. CASE WriteDepfile(b)
      BY <3>2, <1>5 DEF WriteDepfile, At, Translating, u
    <3> QED BY <1>9, <3>1, <3>2
  <2>3. record = None \/ Outdated(record, file) BY <1>2, <2>2 DEF Sound
  <2> QED BY <1>2, <2>1, <2>2, <2>3 DEF Sound, UnitRecord, Translating, Scripting
<1>10. CASE Record(b)
  <2>1. /\ u.at = "record" /\ w.at = "link" /\ w.edited = u.edited
        /\ record' = IF u.edited \cap dep = {} THEN u.hash ELSE record
        /\ UNCHANGED <<out, dep, script>>
    BY <1>10, <1>5 DEF Record, At, Unchanged, u
  <2>2. /\ Whole(u.read) /\ dep = DOMAIN u.read /\ out[".c"] = u.read
        /\ Agrees(u.read, file, u.edited)
    BY <1>4, <2>1 DEF Translation, Published, Names
  <2>3. Sound(w, out', dep', record', script', file)
    BY <1>2, <2>1, <2>2 DEF Sound, Translating, Scripting
  <2>4. CASE u.edited \cap dep = {}
    <3>1. /\ record' = u.read /\ \A n \in Names : out[n] = u.read
          /\ Agrees(u.read, file, {})
      BY <1>4, <2>1, <2>4, RecordedIsRead
    <3>2. \A f \in DOMAIN u.read : u.read[f] <= edits
      <4>1. \A f \in DOMAIN u.read : u.read[f] = file[f] /\ f \in Inputs
        BY <2>2, <3>1 DEF Agrees, TInv
      <4> QED BY <4>1 DEF TInv
    <3>3. Known(record', edits) BY <2>2, <3>1, <3>2 DEF Known
    <3>4. UnitRecord(record', out', dep', file) BY <2>1, <2>2, <3>1 DEF UnitRecord
    <3> QED BY <1>2, <2>1, <2>3, <3>3, <3>4
  <2>5. CASE u.edited \cap dep # {}
    BY <1>2, <2>1, <2>3, <2>5
  <2> QED BY <2>4, <2>5
<1>11. CASE Link(b)
  <2>1. /\ u.at = "link" /\ w.at = "move" /\ w.edited = u.edited /\ w.read = out[".c"]
        /\ UNCHANGED <<out, dep, record, script>>
    BY <1>11, <1>3 DEF Link, At, Builds, u, w
  <2> QED BY <1>2, <2>1 DEF Sound, Translating, Scripting
<1>12. CASE Move(b)
  <2>1. /\ u.at = "move" /\ w.at = "unlink" /\ w.edited = u.edited /\ w.read = u.read
        /\ script'.run = u.read /\ script'.record = script.record
        /\ UNCHANGED <<out, dep, record>>
    BY <1>12, <1>5 DEF Move, At, TInv, u
  <2>2. Whole(u.read) /\ dep = DOMAIN u.read /\ Agrees(u.read, file, u.edited)
    BY <1>2, <2>1 DEF Sound, Scripting
  <2>3. ScriptRecord(script', file)
    <3> SUFFICES ASSUME script.record # None, ~Outdated(script.record, file)
                 PROVE  script.record = u.read
      BY <2>1 DEF ScriptRecord
    <3> DEFINE r == script.record
    <3>1. Whole(r) /\ Agrees(r, file, {}) BY <1>2 DEF Known, Outdated, Agrees
    <3>2. \A f \in DOMAIN r : f \notin u.edited BY <1>2, <3>1 DEF Sound, Agrees
    <3>3. "source" \in DOMAIN r /\ "source" \in DOMAIN u.read BY <2>2, <3>1 DEF Whole
    <3>4. u.read["source"] = file["source"] BY <2>2, <3>2, <3>3 DEF Agrees
    <3>5. DOMAIN r = DOMAIN u.read
      <4>1. r["source"] = file["source"] BY <3>1, <3>3 DEF Agrees
      <4> QED BY <2>2, <3>1, <3>4, <4>1 DEF Whole
    <3>6. \A f \in DOMAIN r : r[f] = u.read[f]
      BY <2>2, <3>1, <3>2, <3>5 DEF Agrees
    <3>7. r \in [DOMAIN r -> Nat] /\ u.read \in [DOMAIN r -> Nat]
      BY <2>2, <3>1, <3>5 DEF Whole
    <3> HIDE DEF r
    <3>8. r = u.read BY <3>6, <3>7, SameReading
    <3> QED BY <3>8 DEF r
  <2>4. Sound(w, out', dep', record', script', file)
    BY <1>2, <2>1, <2>2 DEF Sound, Translating, Scripting
  <2> QED BY <1>2, <2>1, <2>3, <2>4
<1>13. CASE Unlink(b)
  <2>1. /\ u.at = "unlink" /\ w.at = "hashScript" /\ w.edited = u.edited /\ w.read = u.read
        /\ script'.run = script.run /\ script'.record = None
        /\ UNCHANGED <<out, dep, record>>
    BY <1>13, <1>5 DEF Unlink, At, TInv, u
  <2> QED BY <1>2, <2>1 DEF Sound, ScriptRecord, Known, Translating, Scripting
<1>14. CASE HashScript(b)
  <2>1. /\ u.at = "hashScript" /\ w.at = "recordScript" /\ w.edited = u.edited
        /\ w.read = u.read /\ w.hash = Fingerprint
        /\ UNCHANGED <<out, dep, record, script>>
    BY <1>14, <1>3 DEF HashScript, At, Builds, u, w
  <2>2. Fingerprint \in [dep -> Nat] /\ Agrees(Fingerprint, file, u.edited)
    BY Hashed DEF Fingerprint, Contents, TInv, Agrees
  <2> QED BY <1>2, <2>1, <2>2 DEF Sound, Translating, Scripting
<1>15. CASE RecordScript(b)
  <2>1. /\ u.at = "recordScript" /\ w.at = "idle" /\ w.edited = u.edited
        /\ script' = IF u.edited \cap dep = {} THEN [script EXCEPT !.record = u.hash] ELSE script
        /\ UNCHANGED <<out, dep, record>>
    BY <1>15, <1>5 DEF RecordScript, At, Unchanged, u
  <2>2. /\ Whole(u.read) /\ dep = DOMAIN u.read /\ Agrees(u.read, file, u.edited)
        /\ script.run = u.read /\ u.hash \in [dep -> Nat] /\ Agrees(u.hash, file, u.edited)
    BY <1>2, <2>1 DEF Sound, Scripting
  <2>3. CASE u.edited \cap dep = {}
    <3>1. script'.run = script.run /\ script'.record = u.hash BY <2>1, <2>3 DEF TInv
    <3>2. \A f \in dep : u.read[f] = file[f] /\ u.hash[f] = file[f] /\ f \in Inputs
      BY <2>2, <2>3 DEF Agrees, TInv
    <3>3. u.hash = u.read
      <4>1. u.read \in [dep -> Nat] BY <2>2 DEF Whole
      <4> QED BY <2>2, <3>2, <4>1, SameReading
    <3>4. Known(script'.record, edits) BY <2>2, <3>1, <3>2, <3>3 DEF Known, TInv
    <3>5. ScriptRecord(script', file) BY <2>2, <3>1, <3>3 DEF ScriptRecord
    <3>6. \A f \in u.edited : f \notin DOMAIN script'.record BY <2>2, <2>3, <3>1, <3>3
    <3> QED BY <1>2, <2>1, <3>4, <3>5, <3>6 DEF Sound, Translating, Scripting
  <2>4. CASE u.edited \cap dep # {}
    BY <1>2, <2>1, <2>4 DEF Sound, Translating, Scripting
  <2> QED BY <2>3, <2>4
<1>16. CASE Ends(b)
  <2>1. w.at = "idle" /\ w.edited = u.edited /\ UNCHANGED <<out, dep, record, script>>
    BY <1>16, <1>5 DEF Ends
  <2> QED BY <1>2, <2>1 DEF Sound, Translating, Scripting
<1> QED BY <1>6, <1>7, <1>8, <1>9, <1>10, <1>11, <1>12, <1>13, <1>14, <1>15, <1>16 DEF Build

LEMMA RInvStep == ASSUME OneBuilder, TInv, PInv, RInv, [Next]_vars PROVE RInv'
<1>1. CASE UNCHANGED vars
  BY <1>1 DEF vars, RInv
<1>2. CASE \E b \in Builders : Build(b)
  BY <1>2, RInvBuild
<1>3. CASE \E f \in Inputs, v \in 0..MaxEdits : Edit(f, v)
  BY <1>3, RInvEdit
<1> QED BY <1>1, <1>2, <1>3 DEF Next

LEMMA Invariants == ASSUME OneBuilder PROVE Spec => [](TInv /\ PInv /\ RInv)
<1>1. Init => TInv /\ PInv /\ RInv
  BY TInvInit, PInvInit, RInvInit
<1>2. TInv /\ PInv /\ RInv /\ [Next]_vars => TInv' /\ PInv' /\ RInv'
  BY TInvStep, PInvStep, RInvStep
<1> QED BY <1>1, <1>2, PTL DEF Spec

(* What names the inputs as they are is what a translation would read.     *)
LEMMA NowIsFresh ==
  ASSUME TInv, NEW r, Whole(r), Agrees(r, file, {})
  PROVE  r = Fresh
<1>1. r \in [DOMAIN r -> Nat] /\ "source" \in DOMAIN r /\ DOMAIN r \subseteq Inputs
  BY SomeReading DEF Whole
<1>2. r["source"] = file["source"] BY <1>1 DEF Agrees
<1> DEFINE S == IF file["source"] \in Including THEN Inputs ELSE {"source"}
<1>3. DOMAIN r = S BY <1>2 DEF Whole
<1>4. /\ Contents(S) \in [S -> Nat] /\ \A f \in S : Contents(S)[f] = file[f]
  BY <1>1, <1>3, Hashed DEF Contents, TInv
<1>5. \A f \in S : r[f] = Contents(S)[f] BY <1>3, <1>4 DEF Agrees
<1> HIDE DEF S
<1>6. r = Contents(S) BY <1>1, <1>3, <1>4, <1>5, SameReading
<1> QED BY <1>6 DEF Fresh, S

(* src/commands/build/build.x:307-317: outputs are used again only when    *)
(* they were all made from the inputs as they are, in a project directory  *)
(* where one build runs at a time and no input gets back contents it had.  *)
THEOREM ReuseIsSound == ASSUME OneBuilder PROVE Spec => []ReusedUnlessReverted
<1>1. TInv /\ PInv /\ RInv => ReusedUnlessReverted
  <2> SUFFICES ASSUME TInv, RInv, ~reverted, Current PROVE Matches
    BY DEF ReusedUnlessReverted
  <2>1. /\ Whole(record) /\ Agrees(record, file, {})
        /\ \A n \in Names : out[n] = record
    BY CurrentIsKept DEF RInv
  <2>2. record = Fresh BY <2>1, NowIsFresh
  <2> QED BY <2>1, <2>2 DEF Matches, TInv
<1> QED BY <1>1, Invariants, PTL

(* src/commands/build/build.x:1191-1193: so is a script's executable, also *)
(* when a build ends between the move of the new executable and the        *)
(* removal of the record of the old one.                                   *)
THEOREM ScriptReuseIsSound == ASSUME OneBuilder PROVE Spec => []ScriptUnlessReverted
<1>1. TInv /\ PInv /\ RInv => ScriptUnlessReverted
  <2> SUFFICES ASSUME TInv, RInv, ~reverted, ScriptCurrent PROVE script.run = Fresh
    BY DEF ScriptUnlessReverted
  <2> DEFINE r == script.record
  <2>1. r # None /\ r = Contents(DOMAIN r) BY DEF ScriptCurrent
  <2>2. \A f \in DOMAIN r : r[f] = file[f] BY <2>1 DEF Contents
  <2>3. Whole(r) /\ (Outdated(r, file) \/ r = script.run)
    BY <2>1 DEF RInv, Known, ScriptRecord
  <2>4. Agrees(r, file, {}) /\ ~Outdated(r, file) BY <2>2 DEF Agrees, Outdated
  <2>5. r = script.run BY <2>3, <2>4
  <2> HIDE DEF r
  <2>6. r = Fresh BY <2>3, <2>4, NowIsFresh
  <2> QED BY <2>5, <2>6
<1> QED BY <1>1, Invariants, PTL
=============================================================================
