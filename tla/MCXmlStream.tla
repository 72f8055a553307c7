----------------------------- MODULE MCXmlStream -----------------------------
\* Instances of XmlStream for TLC.
EXTENDS XmlStream

\* A control character, a space, a letter, the first and last characters of each
\* length, a byte order mark, and a pair that ends in the last low surrogate.
Boundaries == {7, 32, 65, 128, 2047, 2048, BOM, 65535, 65536, 66559}
==============================================================================
