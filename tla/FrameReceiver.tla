--------------------------- MODULE FrameReceiver ---------------------------
(***************************************************************************)
(* What the RC frame parser promises, without bytes: a frame that crossed  *)
(* the line undamaged is offered; the parser takes the frame on offer, at  *)
(* most once, or misses it because the next one is offered first.  On a    *)
(* line that was never disturbed it misses none.                           *)
(***************************************************************************)
CONSTANTS Frames, NoFrame

VARIABLES
    offered,    \* the last frame that crossed undamaged and was not taken
    taken,      \* the last frame handed on to srxlParsePacket's switch
    disturbed   \* a byte was lost, changed or inserted at some time

vars == <<offered, taken, disturbed>>

Init ==
    /\ offered = NoFrame /\ taken = NoFrame
    /\ disturbed = FALSE

Offer ==
    /\ offered = NoFrame \/ disturbed
    /\ offered' \in Frames
    /\ UNCHANGED <<taken, disturbed>>

Take ==
    /\ offered # NoFrame
    /\ taken' = offered
    /\ offered' = NoFrame
    /\ UNCHANGED disturbed

Disturb ==
    /\ disturbed' = TRUE
    /\ UNCHANGED <<offered, taken>>

Next == Offer \/ Take \/ Disturb

Spec == Init /\ [][Next]_vars
=============================================================================
