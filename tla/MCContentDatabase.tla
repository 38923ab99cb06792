------------------------- MODULE MCContentDatabase --------------------------
(* An instance of ContentDatabaseParts with two processes and three handles.  *)
EXTENDS ContentDatabaseParts, FiniteSetsExt

CONSTANTS p1, p2, small, medium, large

\* With MaxBytes = 4 and MaxResponses = 1: any two rows exceed the count, so
\* which of small and medium stays depends on last_accessed, and a large row
\* exceeds the byte bound by itself.
SizeOf(id) == CASE id = small -> 2 [] id = medium -> 3 [] OTHER -> 5
SummedSizes == [S \in SUBSET Ids |-> MapThenSumSet(SizeOf, S)]

DocumentsOf == [id \in Ids |-> 1]
=============================================================================
