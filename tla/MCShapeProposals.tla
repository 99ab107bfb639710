-------------------------- MODULE MCShapeProposals --------------------------
(* Two pages with a block each, for TLC.                                   *)
EXTENDS ShapeProposals, TLC

CONSTANTS home, about, b1, b2, card, text, link, hero, foot

MCPages == {home, about}
MCShapes == {card}
MCContents == {text, link}
MCNames == {hero, foot}

\* Two blocks on two pages.  The second name is for what a killed apply left:
\* its shells can be extracted once more.
TwoBlocks == {b1, b2}
PageOfTwo == b1 :> home @@ b2 :> about

\* Contents and names are interchangeable.
Symmetry == Permutations(MCContents) \cup Permutations(MCNames)

=============================================================================
