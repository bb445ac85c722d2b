------------------------------ MODULE MCPnsNode ------------------------------
\* A track s on layer 1 that ends at a via v, from which t goes on on layer 2;
\* d is a track at the coordinates of s, and x and y are the halves of s.
EXTENDS PnsNode, TLC

CONSTANTS s, t, d, x, y, v, w, p1, p2, p3, n1, n2

MCEnds == [i \in Item |-> CASE i \in {s, d} -> {p1, p3} [] i = x -> {p1, p2}
                            [] i \in {y, t} -> {p2, p3} [] i = v -> {p3} [] i = w -> {p2}]
MCLayers == [i \in Item |-> IF i = t THEN {2} ELSE IF i \in Via THEN {1, 2} ELSE {1}]
MCSymmetry == Permutations({n1, n2})
MCHalves == {<<s, x, y>>} \cap (Segment \X Segment \X Segment)
==============================================================================
