------------------------------- MODULE MCActs -------------------------------
(* Acts for TLC: requests for the same and for different actions on one    *)
(* simulator, with sidecars enough for a replacement to fail too.          *)
EXTENDS Acts, TLC

CONSTANTS r1, r2, key, tap

(* A key press is one frame, a tap a down and an up.                       *)
MCActId == {key, tap}
MCFrames == (key :> 1) @@ (tap :> 2)

(* The same action twice, and two different ones.                          *)
MCAsked == {(r1 :> key) @@ (r2 :> key), (r1 :> key) @@ (r2 :> tap)}
=============================================================================
