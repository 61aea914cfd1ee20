--------------------------------- MODULE Jobs ---------------------------------
(***************************************************************************)
(* A behaviour takes a job and its input and computes what the code makes of *)
(* it: the output.                                                          *)
(***************************************************************************)
EXTENDS Nothing

VARIABLES job, input, output

vars == <<job, input, output>>

Does(j) == job = j /\ output = None /\ UNCHANGED <<job, input>>

Done(j) == job = j /\ output # None
=============================================================================
