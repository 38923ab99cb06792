----------------------------- MODULE MCWebStore -----------------------------
(***************************************************************************)
(* Small instances of WebStore: one agent, or two in processes of their     *)
(* own, two sessions, and handles whose responses have different sizes.     *)
(***************************************************************************)
EXTENDS WebStore, FiniteSetsExt, TLC

CONSTANTS a1, a2, p1, p2, s1, s2, small, medium, large

\* Sessions are interchangeable (agents are not: ProcOf tells them apart).
Symmetry == Permutations(Sessions)

OneAgent == a1 :> p1
TwoProcesses == a1 :> p1 @@ a2 :> p2

\* Two agents, each in a process of its own, are interchangeable together.
PairSwap == [x \in {a1, a2, p1, p2} |->
                CASE x = a1 -> a2 [] x = a2 -> a1 [] x = p1 -> p2 [] x = p2 -> p1]
PairSymmetry == {PairSwap} \cup Permutations(Sessions)

\* With MaxBytes = 4 and MaxResponses = 2: small and medium fit together,
\* medium and large do not, and all three exceed the count.
SizeOf(id) == CASE id = small -> 1 [] id = medium -> 2 [] OTHER -> 3
SummedSizes == [S \in SUBSET Ids |-> MapThenSumSet(SizeOf, S)]

\* A response whose own rows exceed MaxBytes: its store evicts it at once.
OversizeOf(id) == CASE id = small -> 1 [] id = medium -> 2 [] OTHER -> 5
OversizedSizes == [S \in SUBSET Ids |-> MapThenSumSet(OversizeOf, S)]
=============================================================================
