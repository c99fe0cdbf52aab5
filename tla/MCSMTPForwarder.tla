-------------------------- MODULE MCSMTPForwarder --------------------------
(* Three mails and a channel of one, so that Forward has to wait.           *)
EXTENDS SMTPForwarder

CONSTANTS m1, m2, m3

MCMails == {m1, m2, m3}
=============================================================================
