---------------------------- MODULE FrameStream -----------------------------
(***************************************************************************)
(* What the framing of either side promises: frames come out in the order  *)
(* and with the contents in which they went in, none is lost inside the    *)
(* stream, repeated or made up.  The stream may break at any moment; what  *)
(* has come out by then is a prefix of what went in.                       *)
(***************************************************************************)
EXTENDS Sequences, Naturals

VARIABLES sent, received, intact

vars == <<sent, received, intact>>

Init == sent = <<>> /\ received = <<>> /\ intact = TRUE

(* Some frame is added to those sent.                                      *)
Send ==
    /\ Len(sent') = Len(sent) + 1
    /\ SubSeq(sent', 1, Len(sent)) = sent
    /\ UNCHANGED <<received, intact>>

Deliver ==
    /\ intact
    /\ Len(received) < Len(sent)
    /\ received' = Append(received, sent[Len(received) + 1])
    /\ UNCHANGED <<sent, intact>>

Break ==
    /\ intact' = FALSE
    /\ UNCHANGED <<sent, received>>

Next == Send \/ Deliver \/ Break

Spec == Init /\ [][Next]_vars
=============================================================================
