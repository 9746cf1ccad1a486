---- MODULE MCMetaHelper ----
(* One process that translates and may be killed, and a worker it forks. *)
EXTENDS MetaHelper
====
