------------------------------- MODULE MCSlab -------------------------------
EXTENDS Slab, PageCounts
CONSTANT MaxObjs
FewObjects == Cardinality(objs) <= MaxObjs
=============================================================================
