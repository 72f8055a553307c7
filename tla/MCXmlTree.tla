------------------------------ MODULE MCXmlTree ------------------------------
\* Instances of XmlTree for TLC.
EXTENDS XmlTree
==============================================================================
