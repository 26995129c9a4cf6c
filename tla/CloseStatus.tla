----------------------------- MODULE CloseStatus ----------------------------
(***************************************************************************)
(* The status codes of close frames as RFC 6455 defines them, which the    *)
(* two implementations of is_valid_close_code are compared with.           *)
(***************************************************************************)
EXTENDS Integers

(* RFC 6455, 7.4: the codes below 1000 and above 4999 are not used, 1004 to *)
(* 1006 and 1015 are never sent, 1016 to 2999 are not assigned yet.        *)
MaySendCode(code) ==
    /\ code >= 1000 /\ code < 5000
    /\ code \notin {1004, 1005, 1006, 1015}
    /\ code > 1015 => code >= 3000
=============================================================================
