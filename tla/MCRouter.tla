------------------------------ MODULE MCRouter ------------------------------
EXTENDS Router, TLC

\* Key ids are interchangeable: no definition names one.  Used by runs that
\* check invariants only.
KeySymmetry == Permutations(Keys)
=============================================================================
