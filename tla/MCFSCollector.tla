---------------------------- MODULE MCFSCollector ----------------------------
(* Two mails, one worker of the process and one remote worker.              *)
EXTENDS FSCollector

CONSTANTS m1, m2, l1, r1

MCMails == {m1, m2}
OneMail == {m1}
MCLocal == {l1}
MCRemote == {r1}
Nobody == {}
=============================================================================
