--------------------------- MODULE MCChanCollector ---------------------------
(* Two mails, one worker of the process and one remote worker; the stop     *)
(* with three mails leased and a fourth queued or about to be.              *)
EXTENDS ChanCollector, TLC

CONSTANTS m1, m2, m3, m4, l1, r1, u1, u2, u3, u4, u5, u6

MCMails == {m1, m2}
MCPatient == {m1}
MCLocal == {l1}
MCRemote == {r1}
MCUIDs == {u1, u2, u3, u4}
FewUIDs == {u1, u2, u3}
OneMail == {m1}
Nobody == {}
MoreMails == {m1, m2, m3, m4}
MoreUIDs == {u1, u2, u3, u4, u5, u6}

UIDSymmetry == Permutations(MCUIDs)

(* The parser is being stopped.  The remote worker has died with each of    *)
(* the three mails leased, within a minute, and the workers are gone; the   *)
(* last mail fills ch, or its handler is about to send it.                  *)
Bears(m) == CASE m = m1 -> u1 [] m = m2 -> u2 [] m = m3 -> u3 [] OTHER -> u4
Leased == {m1, m2, m3}

LeasedInit ==
  /\ minted = NoUID /\ uid = [m \in Mails |-> Bears(m)]
  /\ age = [u \in UIDs |-> 0] /\ timer = 0
  /\ \/ ch = <<m4>> /\ intake = [m \in Mails |-> "accepted"]
     \/ ch = <<>> /\ intake = [m \in Mails |->
                                 IF m \in Leased THEN "accepted" ELSE "sending"]
  /\ chClosed = FALSE /\ baseCh = <<>>
  /\ cur = [u \in UIDs |-> IF \E m \in Leased : u = Bears(m)
                             THEN CHOOSE m \in Leased : u = Bears(m) ELSE None]
  /\ bpc = "timer" /\ todo = {} /\ rkey = NoUID /\ rmail = None
  /\ fpc = "recv" /\ fmail = None
  /\ wpc = [w \in Workers |-> "gone"]
  /\ wmail = [w \in Workers |-> None] /\ wuid = [w \in Workers |-> NoUID]
  /\ deaths = MaxDeaths /\ parsed = {} /\ phase = "stopping"

(* Names nothing refers to are interchangeable: Mint takes any one of them. *)
AnyFree == minted = NoUID /\ minted' # NoUID => minted' = CHOOSE u \in Free : TRUE

LeasedSpec == LeasedInit /\ [][Next /\ AnyFree]_vars /\ Fairness
=============================================================================
