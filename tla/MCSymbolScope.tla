---------------------------- MODULE MCSymbolScope ----------------------------
(* Instances of SymbolScope: two identifiers, a bounded number of scopes.    *)
EXTENDS SymbolScope

CONSTANTS x, f

=============================================================================
