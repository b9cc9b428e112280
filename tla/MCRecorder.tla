------------------------------ MODULE MCRecorder -----------------------------
(* The recorder alone, for TLC: two screens that each have a field which    *)
(* hides what is typed, at different places.                                *)
EXTENDS Recorder, TLC

CONSTANTS p, q

MCShows == <<(p :> "field") @@ (q :> "secret"), (p :> "secret") @@ (q :> "button")>>
=============================================================================
