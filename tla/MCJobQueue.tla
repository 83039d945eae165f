------------------------------ MODULE MCJobQueue ------------------------------
(* Small instances of JobQueue for TLC. *)
EXTENDS JobQueue, TLC

CONSTANTS r1, r2, i1, i2

\* Two recurring jobs, the first of the more urgent type.
TwoTypes == r1 :> "send" @@ r2 :> "sweep"
Urgency == r1 :> 1 @@ r2 :> 0
TwoKeys == r1 :> "send" @@ r2 :> "sweep"
=============================================================================
