---------------------------- MODULE MCTraceContext ----------------------------
\* Instances of TraceContext for TLC.
EXTENDS TraceContext, TLC

\* Threads and names are interchangeable: sound for the safety runs only.
Symmetry == Permutations(Threads) \union Permutations(Names)

\* A host clock ahead of the guest's, and one that is level with it.
TwoDiffs == {0, -1}
NoDiff == {0}

\* Calls of each thread.
OneEach == [t \in Threads |-> 1]
ThreeEach == [t \in Threads |-> 3]
FiveEach == [t \in Threads |-> 5]

\* One thread makes two calls and the others one; not for use with Symmetry.
TwoAndOne == [t \in Threads |-> IF t = CHOOSE u \in Threads : TRUE THEN 2 ELSE 1]
=============================================================================
