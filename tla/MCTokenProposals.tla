-------------------------- MODULE MCTokenProposals --------------------------
(* Pages, components, colours and names for TLC.                           *)
EXTENDS TokenProposals, TLC

CONSTANTS home, card, red, blue, brand, ink

\* A page that extends a component, with a colour each.
MCPages == {home}
MCComponents == {card}
MCExtended == home :> {card}
MCPalette == home :> {red} @@ card :> {blue}

MCColours == {red, blue}
MCNames == {brand, ink}

Symmetry == Permutations(MCNames)

=============================================================================
