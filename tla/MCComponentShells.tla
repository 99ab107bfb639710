-------------------------- MODULE MCComponentShells --------------------------
(* Two blocks, of which one carries content; compose() gives the first the   *)
(* id of the place below the root and the second that of the place below it. *)
EXTENDS ComponentShells, TLC

CONSTANTS a, b

MCIds == {a, b}
MCComposed == {a :> Root, a :> Root @@ b :> a}
=============================================================================
