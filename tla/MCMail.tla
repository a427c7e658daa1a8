------------------------------- MODULE MCMail -------------------------------
(* Small instances of MailOutbox for TLC. *)
EXTENDS MailOutbox

CONSTANTS e1, e2, w1, w2
=============================================================================
