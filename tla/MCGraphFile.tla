----------------------------- MODULE MCGraphFile -----------------------------
\* Instances of GraphFile for TLC.
EXTENDS GraphFile

\* An attribute that comes back as it was, and one that does not.
Lossy == {"int", "phrase"}
==============================================================================
