---------------------------- MODULE MCDiagCache -----------------------------
\* A project of up to two files for DiagCache: b is the module of a base of a
\* class in a.
EXTENDS DiagCache, TLC

CONSTANTS a, b, k1, k2, t1, t2, l1, l2

Some == {{a}}
BaseOfA == {<<a, b>>}
Alike == Permutations({k1, k2}) \cup Permutations({t1, t2}) \cup Permutations({l1, l2})
=============================================================================
