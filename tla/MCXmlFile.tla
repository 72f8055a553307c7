------------------------------ MODULE MCXmlFile ------------------------------
\* Instances of XmlFile for TLC.
EXTENDS XmlFile

A(name, value) == [name |-> name, value |-> value]

\* Without attributes and with one; the same twice, one without a value; every end.
SomeTags ==
  {Tag("a", << >>, e) : e \in {">", "/", "/x", "EOF"}}
  \cup {Tag("a", <<A("id", "1")>>, e) : e \in {">", "EOF"}}
  \cup {Tag("a", s, ">") : s \in {<<A("id", "1"), A("id", "2")>>, <<A("id", NULL)>>}}
==============================================================================
