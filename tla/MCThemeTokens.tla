--------------------------- MODULE MCThemeTokens ---------------------------
(* A handful of tokens for TLC.                                            *)
EXTENDS ThemeTokens

CONSTANTS brand, ink, teal, navy, Color, Dimension, core

MCKeys == {brand, ink}
MCLabels == {"one", "two"}
MCValues == {teal, navy}
MCTypes == {Color, Dimension}
MCGroups == {core}
MCUsed == {brand}

Plain == [label |-> "one", type |-> Color, value |-> teal, dark |-> None,
          group |-> None]

\* One that differs from Plain in each field, and some in several.
MCTokens == {Plain,
             [Plain EXCEPT !.label = "two"],
             [Plain EXCEPT !.type = Dimension],
             [Plain EXCEPT !.dark = teal],
             [Plain EXCEPT !.dark = navy, !.group = core],
             [Plain EXCEPT !.value = navy, !.label = "two"],
             [Plain EXCEPT !.value = navy, !.dark = navy, !.group = core],
             [Plain EXCEPT !.value = navy, !.dark = teal]}

=============================================================================
