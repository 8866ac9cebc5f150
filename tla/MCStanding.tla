----------------------------- MODULE MCStanding -----------------------------
EXTENDS Standing
CONSTANTS p1, p2, s1, u1, u2, h1, c1, mimir
UrlOf    == [f \in {p1, p2, s1} |-> IF f = p1 THEN u1 ELSE u2]
HostOf1  == [u \in {u1, u2} |-> h1]
CallerOf == [f \in {p1, p2, s1} |-> IF f = s1 THEN mimir ELSE c1]
OneEach  == [f \in {p1, p2, s1} |-> 1]
Scale    == {0, 1}
=============================================================================
