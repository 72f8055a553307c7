---- MODULE MCXmlIndex ----
EXTENDS XmlIndex

FiveElements == 1 .. 5
TwoNames     == {1, 2}
TwoValues    == {1, 2}

\* Any names; the values of the first attribute are mixed, all the same, or
\* missing here and there, the second attribute is there once.
ValueRows == {<<2, 1, 2, 1, 1>>, <<1, 1, 1, 1, 1>>, <<0, 2, 1, 0, 2>>}

SomeDocuments ==
  {[name |-> n, given |-> [e \in FiveElements |-> [a \in {1, 2} |-> IF a = 1 THEN v[e] ELSE IF e = 2 THEN 2 ELSE 0]]] :
     n \in [FiveElements -> TwoNames], v \in ValueRows}
====
