--------------------------- MODULE MCOptimizeGate ---------------------------
(* Instances of OptimizeGate for TLC.                                      *)
EXTENDS OptimizeGate

\* The combinations of arguments in use. By the book: one operator, one
\* site, and the baseline is shot from the host it is read from.
ByTheBook == {[op |-> "o1", site |-> "s1", target |-> "t1", clone |-> "t1"]}

\* tokenize mints before it writes back; fonts runs its oracle even when there
\* was nothing to do. componentize and collapse differ from fonts in stopping
\* there.
SomeKinds == {"tokenize", "fonts"}

\* Routes do not interact: one that is captured or not, served or not.
OneRoute == {"r1"}

\* An edit of a tree that shows on a page, and one of a variable that shows
\* nowhere.
SomeEdits == {[part |-> "tree", shows |-> {"r1"}],
              [part |-> "variable", shows |-> {}]}

=============================================================================
