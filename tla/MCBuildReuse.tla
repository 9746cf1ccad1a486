---- MODULE MCBuildReuse ----
(* The source includes the header at first, not after the first edit, and again later. *)
EXTENDS BuildReuse
CONSTANT b1
EvenContents == {v \in 0..MaxEdits : v % 2 = 0}
====
