--------------------------- MODULE MCDevRoundTrip ---------------------------
(* Small sites for TLC.                                                    *)
EXTENDS DevRoundTrip, TLC

CONSTANTS p1, p2, header, brand, first, second

MCNames == {p1, p2}
MCRoutes == {"home", "template/x"}
MCTemplates == {"template/x"}

Record(r, published, x, c, y) ==
    [route |-> r, published |-> published, content |-> x, uses |-> c, data |-> y]

MCWritten == {Record("home", TRUE, second, header, None),
              Record("template/x", TRUE, first, None, None)}

\* A page with a component, a variable and a data script; a draft on the same
\* route.
MCExports ==
    {[pages |-> p1 :> Record("home", TRUE, first, header, first),
      components |-> header :> first, variables |-> brand :> first],
     [pages |-> p1 :> Record("home", FALSE, first, None, None),
      components |-> << >>, variables |-> << >>]}

MCBuilds ==
    {[pages |-> "home" :> [content |-> second, uses |-> header, data |-> None],
      components |-> header :> second]}

=============================================================================
