------------------------------ MODULE Batching ------------------------------
(***************************************************************************)
(* What thecargo.coalesce.Coalescer promises to those who hand it items,   *)
(* with none of its machinery: an item waits until one flush takes it, is  *)
(* flushed once, and is given up only when the event loop has come to its  *)
(* end.                                                                    *)
(***************************************************************************)

CONSTANT Items

VARIABLES
    handed,      \* the items handed over so far
    waiting,     \* those not flushed yet
    flushed,     \* those a flush has dealt with, well or not
    open         \* the loop they were handed over in goes on

promise == <<handed, waiting, flushed, open>>

Init ==
    /\ handed = {} /\ waiting = {} /\ flushed = {}
    /\ open = TRUE

\* New items join those that wait, or all but the ones given up.
Hand(S, givenUp) ==
    /\ S \cap handed = {}
    /\ givenUp \subseteq waiting
    /\ open => givenUp = {}
    /\ handed' = handed \cup S
    /\ waiting' = (waiting \ givenUp) \cup S
    /\ UNCHANGED <<flushed, open>>

Flush(S) ==
    /\ S \subseteq waiting
    /\ waiting' = waiting \ S
    /\ flushed' = flushed \cup S
    /\ UNCHANGED <<handed, open>>

\* The loop ends, or what it left behind is given up later.
End(givenUp) ==
    /\ givenUp \subseteq waiting
    /\ waiting' = waiting \ givenUp
    /\ open' = FALSE
    /\ UNCHANGED <<handed, flushed>>

Next == \E S, givenUp \in SUBSET Items : Hand(S, givenUp) \/ Flush(S) \/ End(givenUp)

Spec == Init /\ [][Next]_promise
=============================================================================
