--------------------------- MODULE MCTimedMethods ---------------------------
(* TimedMethods with few timers, requests and tracks, for TLC. *)
EXTENDS TimedMethods

CONSTANTS r1, r2, r3, t1, t2, t3, f1, f2, f3

ThreeRequests == { r1, r2, r3 }
ThreeTracks == { t1, t2, t3 }
ThreeFiles == { f1, f2, f3 }

(* Each track has a file of its own, or two have the same. *)
OwnOrShared ==
    { [t \in ThreeTracks |-> IF t = t1 THEN f1 ELSE IF t = t2 THEN f ELSE f3] : f \in { f1, f2 } }

(* Each method by itself, and both at once. *)
SomeLoads == { [ timers |-> 3, requests |-> {} ],
               [ timers |-> 0, requests |-> ThreeRequests ],
               [ timers |-> 1, requests |-> { r1 } ] }

=============================================================================
