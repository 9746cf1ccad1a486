----------------------------- MODULE PlanCache -----------------------------
(***************************************************************************)
(* What src/lib/match-cache.x promises about the programs it keeps: at     *)
(* most limit of them, the least recently lent one recycled first, and     *)
(* never one that a lease still holds.                                     *)
(***************************************************************************)
EXTENDS Naturals, Sequences, SequencesExt

CONSTANTS Keys, Leases, Capacities, None

VARIABLES recent,   \* the keys kept, the most recently lent first
          limit,    \* how many may be kept
          lent      \* the key each lease holds, or None

vars == <<recent, limit, lent>>

Init == recent = <<>> /\ limit \in Capacities /\ lent = [l \in Leases |-> None]

Held == {lent[l] : l \in Leases} \ {None}

(* Where the least recently lent key that no lease holds is. *)
Free(kept) == {i \in DOMAIN kept : kept[i] \notin Held}
Victim(kept) == Max(Free(kept))

(* What is kept when an acquisition starts: all of it, or nothing in a new  *)
(* cache and once a pool level was released with no lease out.              *)
Start(kept) == \/ kept = recent /\ UNCHANGED limit
               \/ kept = <<>> /\ Held = {} /\ limit' \in Capacities

(* Lending k moves it to the front; a key that is not kept takes a place    *)
(* that is left or the victim's.                                            *)
Lending(kept, k) ==
  \/ \E i \in DOMAIN kept : kept[i] = k /\ recent' = <<k>> \o RemoveAt(kept, i)
  \/ /\ k \notin ToSet(kept)
     /\ IF Len(kept) < limit' THEN recent' = <<k>> \o kept
        ELSE Free(kept) # {} /\ recent' = <<k>> \o RemoveAt(kept, Victim(kept))

Lend(l, k) == /\ lent[l] = None
              /\ \E kept \in {recent, <<>>} : Start(kept) /\ Lending(kept, k)
              /\ lent' = [lent EXCEPT ![l] = k]

Return(l) == lent' = [lent EXCEPT ![l] = None] /\ UNCHANGED <<recent, limit>>

Drop == Held = {} /\ recent' = <<>> /\ limit' \in Capacities /\ UNCHANGED lent

Next == \/ \E l \in Leases : Return(l) \/ \E k \in Keys : Lend(l, k)
        \/ Drop

Spec == Init /\ [][Next]_vars
=============================================================================
