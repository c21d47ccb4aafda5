--------------------------- MODULE MCApprovalGate ---------------------------
(***************************************************************************)
(* ApprovalGate on small instances: the manifests found at the start.      *)
(***************************************************************************)
EXTENDS ApprovalGate, TLC

Entry(sig, taken) == [sig |-> sig, taken |-> taken]

\* None; an old signed backup; one tampered with; an undated unsigned one.
SomeManifests == {{}, {Entry("valid", 0)}, {Entry("valid", 0), Entry("bad", 0)},
                  {Entry("none", Undated)}}
=============================================================================
