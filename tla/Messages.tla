------------------------------ MODULE Messages ------------------------------
(***************************************************************************)
(* The messages in a sequence of data frames, from the definition of a     *)
(* fragmented message: a frame i that starts one, a final frame j that     *)
(* ends it, and the continuations between them.                            *)
(***************************************************************************)
EXTENDS SequencesExt

Spans(s, i, j) ==
    /\ s[i].op # "CONTINUATION"
    /\ i > 1 => s[i - 1].fin
    /\ \A k \in i..j : s[k].fin <=> k = j
    /\ \A k \in (i + 1)..j : s[k].op = "CONTINUATION"

Message(s, i, j) ==
    [op |-> s[i].op, pl |-> FlattenSeq([k \in 1..(j - i + 1) |-> s[i + k - 1].pl])]

MessagesIn(s) ==
    LET ends == SetToSortSeq({j \in DOMAIN s : \E i \in 1..j : Spans(s, i, j)}, <)
    IN [n \in DOMAIN ends |->
           Message(s, CHOOSE i \in 1..ends[n] : Spans(s, i, ends[n]), ends[n])]
=============================================================================
