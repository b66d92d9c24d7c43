----------------------------- MODULE CanMailbox -----------------------------
(***************************************************************************)
(* What the CAN command layer promises to the code that registers          *)
(* callbacks: a bounded first-in first-out mailbox served by one handler.  *)
(* A frame that finds the mailbox full is ignored; a frame that was taken  *)
(* in is handed to the handler exactly once, in the order of arrival.      *)
(***************************************************************************)
EXTENDS Naturals, Sequences

CONSTANTS Msg,       \* the frames that may arrive
          NoMsg,     \* "no frame in service"
          Capacity   \* how many frames the mailbox holds, the served one included

VARIABLES box,       \* the frames taken in and not yet handed over, oldest first
          serving    \* the frame the handler works on, or NoMsg

vars == <<box, serving>>

InUse == Len(box) + (IF serving = NoMsg THEN 0 ELSE 1)

Init == box = <<>> /\ serving = NoMsg

Accept(m) == InUse < Capacity /\ box' = Append(box, m) /\ UNCHANGED serving

HandOver ==
    /\ serving = NoMsg
    /\ box # <<>>
    /\ serving' = Head(box)
    /\ box' = Tail(box)

Finish == serving # NoMsg /\ serving' = NoMsg /\ UNCHANGED box

Next == HandOver \/ Finish \/ \E m \in Msg : Accept(m)

\* the handler task is never starved, so whatever is in the box is served
Spec == Init /\ [][Next]_vars /\ WF_vars(HandOver) /\ WF_vars(Finish)

=============================================================================
