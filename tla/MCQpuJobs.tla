------------------------------ MODULE MCQpuJobs ------------------------------
(***************************************************************************)
(* Bounds for model-checking QpuJobs.                                      *)
(***************************************************************************)
EXTENDS QpuJobs

\* Gates of a qubit, in orders that matter.
MCReports == {<<"sx", "id">>, <<"x", "id", "sx">>, <<"id", "x">>}
=============================================================================
