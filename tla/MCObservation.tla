--------------------------- MODULE MCObservation ---------------------------
(***************************************************************************)
(* Observation for TLC: two faults that share a dedup key, such as two     *)
(* alerts of one instance, each found by a scan of its own.                *)
(***************************************************************************)
EXTENDS Observation

CONSTANTS f, g, s1, s2, m1

MCKeyOf == [x \in {f, g} |-> "key"]
MCObs   == {<<s1, f>>, <<s2, g>>}
=============================================================================
