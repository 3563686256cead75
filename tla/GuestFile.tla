------------------------------- MODULE GuestFile -------------------------------
(***************************************************************************)
(* The guest's trace file and the loop of asyncTraceSaveFunc that waits    *)
(* for it, which vperfetto.cpp and vperfetto-sdk.cpp have in common: once  *)
(* a second it looks at the size of the file.                              *)
(*                                                                         *)
(* The transfer of the file is outside the program ("such as via adb       *)
(* pull") and may do anything; steady tells whether, during the last save, *)
(* it did what the loop counts on.                                         *)
(***************************************************************************)
EXTENDS Integers

CONSTANTS
    kMaxIters,                  \* polls before the save gives up
    kMinItersForGuestFileSize,  \* polls that must find the size unchanged
    GuestSize,                  \* size of a whole guest trace
    MaxStall                    \* polls that see an unfinished transfer of
                                \* a steady guest at the same size

ASSUME GuestFileAssumption ==
    /\ kMaxIters \in Nat
    /\ kMinItersForGuestFileSize \in Nat \ {0}
    /\ GuestSize \in Nat \ {0}
    /\ MaxStall \in Nat \ {0}

VARIABLES
    guestFile, \* the session the file is of, its size, and the number of
               \* polls since the size last changed, up to MaxStall
    steady     \* the last save met a steady transfer (history)

Missing == -1   \* what tellg returns for a file that cannot be opened

GuestTrace == [sess : Nat, size : 0 .. GuestSize]   \* contents once read
GuestFileType == [sess : Nat, size : Missing .. GuestSize, stall : Nat]
NoGuestFile == [sess |-> 0, size |-> Missing, stall |-> 0]

\* The transfer of session s's trace creates the file, or truncates the one
\* of an earlier session.
BeginTransfer(s) ==
    /\ guestFile.sess < s
    /\ guestFile' = [sess |-> s, size |-> 0, stall |-> 0]

Transfer ==
    /\ guestFile.size \in 0 .. GuestSize - 1
    /\ guestFile' = [guestFile EXCEPT !.size = @ + 1, !.stall = 0]

-----------------------------------------------------------------------------
\* The variables of the loop: i, currGuestSize, numGoodGuestFileSizeIters.
Polls == [i : 0 .. kMaxIters, curr : Missing .. GuestSize,
          good : 0 .. kMinItersForGuestFileSize]
FirstPoll == [i |-> 0, curr |-> 0, good |-> 0]

Stable(p) == p.good = kMinItersForGuestFileSize
GaveUp(p) == ~Stable(p) /\ p.i = kMaxIters

\* Mutant: two equal sizes are not asked for.
PolledAnySize(p, size) ==
    IF size = 0 THEN [p EXCEPT !.i = @ + 1]
    ELSE [p EXCEPT !.i = @ + 1, !.curr = size, !.good = @ + 1]

\* One iteration that finds the file at this size.
Polled(p, size) ==
    IF size = 0 THEN [p EXCEPT !.i = @ + 1]
    ELSE IF size # p.curr THEN [p EXCEPT !.i = @ + 1, !.curr = size]
    ELSE [p EXCEPT !.i = @ + 1, !.good = @ + 1]

\* The loop counts on a transfer that begins before the first poll and is not
\* seen at the same size too often before it is complete.
AsExpected(s) ==
    /\ guestFile.sess = s
    /\ guestFile.size \in 0 .. GuestSize - 1 => guestFile.stall < MaxStall

SeenByPoll(s) ==
    /\ guestFile' = [guestFile EXCEPT !.stall = IF @ < MaxStall THEN @ + 1 ELSE @]
    /\ steady' = (steady /\ AsExpected(s))
=============================================================================
