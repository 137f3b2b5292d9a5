-------------------------- MODULE MCProjectService --------------------------
(* ProjectService for TLC: calls, tokens and users of the instances are     *)
(* interchangeable as far as safety goes.                                   *)
EXTENDS ProjectService, TLC

AnyOrder == Permutations(Call) \cup Permutations(Secret)
=============================================================================
