------------------------- MODULE TranslationWorkers -------------------------
(***************************************************************************)
(* The parallel translation of src/src/translation.x: _run_workers starts  *)
(* one forked worker per slice of the inputs, at most `jobs' at a time,    *)
(* reaps them in any order, prints their captured standard error in input  *)
(* order, and forwards a stop signal (TERM or INT) to the live ones.       *)
(*                                                                         *)
(* A slice is its index and its worker's pid is named by the slice.  The   *)
(* signal handler may run between any two steps of the parent during which *)
(* the signal is not blocked, so a step is what the parent does between    *)
(* two places where the difference shows.                                  *)
(*                                                                         *)
(* Names that every specification has begin with Workers here: the proofs  *)
(* extend this module together with BuildReuse.                            *)
(***************************************************************************)
EXTENDS Naturals, Sequences, FiniteSets, SequencesExt

CONSTANTS Slices,   \* the number of slices
          jobs      \* CliRequest.jobs

ASSUME WorkersAssumption == Slices \in Nat \ {0} /\ jobs \in Nat \ {0}

Slice == 1..Slices
NoSlot == 0
Jobs == IF jobs > Slices THEN Slices ELSE jobs

VARIABLES
  pc,       \* where the parent is
  started,  \* slices started; started + 1 is the next one
  live,     \* the live slots: carried[] and pids[], slot by slot
  slot,     \* the slot in hand while reaping
  output,   \* slices whose captured bytes are kept for _show
  shown,    \* slices already passed by _show
  printed,  \* what reached standard error, in order
  failed,   \* slices that failed
  blocked,  \* TERM and INT are blocked in the parent
  stop,     \* "none", "pending", or "taken": the handler ran and ended the parent
  worker,   \* each slice's process
  reaped    \* processes waited for

workersVars == <<pc, started, live, slot, output, shown, printed, failed, blocked, stop, worker, reaped>>

Ended == {s \in Slice : worker[s] \in {"ok", "bad"}}

WorkersInit == /\ pc = "loop" /\ started = 0 /\ live = <<>> /\ slot = NoSlot
               /\ output = {} /\ shown = 0 /\ printed = <<>> /\ failed = 0
               /\ blocked = FALSE /\ stop = "none"
               /\ worker = [s \in Slice |-> "none"] /\ reaped = {}

Running == stop # "taken"
ParentGoes(from, to) == Running /\ pc = from /\ pc' = to

-----------------------------------------------------------------------------
(* _start *)

BeginSlice == /\ ParentGoes("loop", "block")
              /\ started < Slices /\ Len(live) < Jobs
              /\ started' = started + 1
              /\ UNCHANGED <<live, slot, output, shown, printed, failed, blocked, stop, worker, reaped>>

BlockNothing == /\ ParentGoes("block", "fork")   \* mutant: the signals stay open
                /\ UNCHANGED <<started, live, slot, output, shown, printed, failed, blocked, stop,
                               worker, reaped>>

Block == /\ ParentGoes("block", "fork")
         /\ blocked' = TRUE
         /\ UNCHANGED <<started, live, slot, output, shown, printed, failed, stop, worker, reaped>>

Fork == /\ ParentGoes("fork", "record")
        /\ worker' = [worker EXCEPT ![started] = "running"]
        /\ UNCHANGED <<started, live, slot, output, shown, printed, failed, blocked, stop, reaped>>

ForkFailsUncounted == /\ ParentGoes("fork", "show")   \* mutant: nobody hears of the slice
                      /\ blocked' = FALSE
                      /\ UNCHANGED <<started, live, slot, output, shown, printed, failed, stop,
                                     worker, reaped>>

(* No capture file or no process: the slice counts as one failure. *)
ForkFails == /\ ParentGoes("fork", "show")
             /\ blocked' = FALSE
             /\ failed' = failed + 1
             /\ UNCHANGED <<started, live, slot, output, shown, printed, stop, worker, reaped>>

RecordSlot == /\ ParentGoes("record", "unblock")
              /\ live' = Append(live, started)
              /\ UNCHANGED <<started, slot, output, shown, printed, failed, blocked, stop, worker, reaped>>

Unblock == /\ ParentGoes("unblock", "show")
           /\ blocked' = FALSE
           /\ UNCHANGED <<started, live, slot, output, shown, printed, failed, stop, worker, reaped>>

-----------------------------------------------------------------------------
(* _reap *)

MustReapFull == Len(live) >= Jobs   \* mutant: the tail is never waited for
MustReap == IF started < Slices THEN Len(live) >= Jobs ELSE live # <<>>

(* _wait_worker: waitpid takes one ended worker. *)
Wait(i) == /\ ParentGoes("loop", "capture")
           /\ MustReap
           /\ live[i] \in Ended
           /\ slot' = i
           /\ reaped' = reaped \cup {live[i]}
           /\ failed' = IF worker[live[i]] = "bad" THEN failed + 1 ELSE failed
           /\ UNCHANGED <<started, live, output, shown, printed, blocked, stop, worker>>

(* Keep the captured bytes and report progress, with the signals open. *)
Capture == /\ ParentGoes("capture", "drop")
           /\ output' = output \cup {live[slot]}
           /\ blocked' = TRUE
           /\ UNCHANGED <<started, live, slot, shown, printed, failed, stop, worker, reaped>>

DropLast == /\ ParentGoes("drop", "unblock")   \* mutant: the last slot is not moved down
            /\ live' = Front(live)
            /\ slot' = NoSlot
            /\ UNCHANGED <<started, output, shown, printed, failed, blocked, stop, worker, reaped>>

(* The last live worker moves into the slot of the one that finished. *)
Drop == /\ ParentGoes("drop", "unblock")
        /\ live' = Front([live EXCEPT ![slot] = Last(live)])
        /\ slot' = NoSlot
        /\ UNCHANGED <<started, output, shown, printed, failed, blocked, stop, worker, reaped>>

-----------------------------------------------------------------------------
(* _show and the end of the loop *)

(* _show passes the next slice once it was started and no worker carries it. *)
Carried == ToSet(live)
Showable == shown < started /\ shown + 1 \notin Carried

PassSlice == /\ shown' = shown + 1
             /\ printed' = IF shown + 1 \in output THEN Append(printed, shown + 1) ELSE printed
             /\ output' = output \ {shown + 1}
             /\ UNCHANGED <<started, live, slot, failed, blocked, stop, worker, reaped>>

ShowCarried == /\ ParentGoes("show", "show")   \* mutant: a live worker does not hold the order
               /\ shown < started
               /\ PassSlice

ShowNext == /\ ParentGoes("show", "show")
            /\ Showable
            /\ PassSlice

ShowEnd == /\ ParentGoes("show", "loop")
           /\ ~Showable
           /\ UNCHANGED <<started, live, slot, output, shown, printed, failed, blocked, stop, worker,
                          reaped>>

Finish == /\ ParentGoes("loop", "done")
          /\ started = Slices /\ live = <<>>
          /\ UNCHANGED <<started, live, slot, output, shown, printed, failed, blocked, stop, worker,
                         reaped>>

-----------------------------------------------------------------------------
(* The environment *)

Send == /\ Running /\ stop = "none" /\ pc # "done"
        /\ stop' = "pending"
        /\ UNCHANGED <<pc, started, live, slot, output, shown, printed, failed, blocked, worker, reaped>>

(* _forward_stop runs as soon as the signal is not blocked, signals every  *)
(* live slot and ends the parent.                                          *)
Forward == /\ stop = "pending" /\ ~blocked
           /\ stop' = "taken"
           /\ worker' = [s \in Slice |-> IF s \in ToSet(live) /\ worker[s] = "running"
                                         THEN "bad" ELSE worker[s]]
           /\ UNCHANGED <<pc, started, live, slot, output, shown, printed, failed, blocked, reaped>>

(* _work: a worker ends after its slice, or at the first unit that fails. *)
WorkerEnds(s) == /\ worker[s] = "running"
                 /\ \E end \in {"ok", "bad"} : worker' = [worker EXCEPT ![s] = end]
                 /\ UNCHANGED <<pc, started, live, slot, output, shown, printed, failed, blocked,
                                stop, reaped>>

Parent == \/ BeginSlice \/ Block \/ Fork \/ ForkFails \/ RecordSlot \/ Unblock
          \/ \E i \in DOMAIN live : Wait(i)
          \/ Capture \/ Drop \/ ShowNext \/ ShowEnd \/ Finish

WorkersNext == Parent \/ Send \/ Forward \/ \E s \in Slice : WorkerEnds(s)

WorkersSpec == WorkersInit /\ [][WorkersNext]_workersVars

(* The parent runs on; every unit's translation ends; a pending signal is  *)
(* delivered as soon as it may be.                                         *)
WorkersFairSpec == /\ WorkersSpec
                   /\ WF_workersVars(Parent) /\ WF_workersVars(Forward)
                   /\ \A s \in Slice : WF_workersVars(WorkerEnds(s))

-----------------------------------------------------------------------------
(* Properties *)

WorkersTypeOK == /\ pc \in {"loop", "block", "fork", "record", "unblock", "capture", "drop", "show", "done"}
                 /\ started \in 0..Slices /\ shown \in 0..started /\ slot \in 0..Len(live)
                 /\ live \in Seq(Slice) /\ Len(live) <= Jobs
                 /\ output \subseteq Slice /\ printed \in Seq(Slice) /\ failed \in 0..started
                 /\ blocked \in BOOLEAN /\ stop \in {"none", "pending", "taken"}
                 /\ worker \in [Slice -> {"none", "running", "ok", "bad"}]
                 /\ reaped \subseteq Ended

(* While a signal can be delivered every process that was forked and not   *)
(* waited for has exactly one slot, so the swap of _reap loses no worker   *)
(* and waits for none twice.                                               *)
Unreaped == {s \in Slice : worker[s] # "none"} \ reaped
Reaping == IF slot = NoSlot THEN {} ELSE {live[slot]}
SlotsExact == ~blocked => /\ ToSet(live) \ Reaping = Unreaped
                          /\ IsInjective(live)

(* translation.x:451, "a forwarded stop reaches every worker": once the    *)
(* parent has ended on a stop signal no worker it started runs on.         *)
StopReachesAll == stop = "taken" => \A s \in Slice : worker[s] # "running"

(* Standard error is printed in input order, each slice's once, and no     *)
(* slice is passed over before its worker has ended.                       *)
Forked(s) == worker[s] # "none"
PrintedInOrder == /\ \A i, j \in DOMAIN printed : i < j => printed[i] < printed[j]
                  /\ ToSet(printed) = {s \in 1..shown : Forked(s)}
                  /\ \A s \in 1..shown : Forked(s) => s \in reaped

(* The translation succeeds exactly when every slice's worker did, and     *)
(* nothing any worker wrote is left unprinted.                             *)
ResultExact == pc = "done" => /\ failed = Cardinality({s \in Slice : worker[s] # "ok"})
                              /\ shown = Slices

(* The parent's loop comes to its end, or a stop signal ends the program.  *)
Terminates == <>(pc = "done" \/ stop = "taken")
=============================================================================
