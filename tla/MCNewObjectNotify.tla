------------------------ MODULE MCNewObjectNotify -------------------------
(* Instances of NewObjectNotify for TLC.                                    *)
EXTENDS NewObjectNotify, TLC

CONSTANTS Base, Derived

MCClasses == {Base, Derived}
MCChain == [c \in {Base, Derived} |-> IF c = Base THEN <<Base>> ELSE <<Derived, Base>>]
MCFlat == [c \in {Base} |-> <<Base>>]
MCSlots == Permutations(Slots)

=============================================================================
