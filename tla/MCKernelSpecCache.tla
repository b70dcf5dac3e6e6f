-------------------------- MODULE MCKernelSpecCache --------------------------
\* n1 and n2 share a kernels directory that exists at start-up; n3's comes later.
EXTENDS KernelSpecCache

CONSTANTS n1, n2, n3, d1, d2

MCNames == {n1, n2, n3}
MCDirOf == [n \in MCNames |-> IF n = n3 THEN d2 ELSE d1]
=============================================================================
