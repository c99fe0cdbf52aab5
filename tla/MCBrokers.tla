------------------------------ MODULE MCBrokers ------------------------------
(***************************************************************************)
(* The collectors kept by a broker, and the consumers, each alone: a run of *)
(* the program has one collector and one consumer, which share no state.    *)
(* Init chooses which of the three is up, the other two are closed and stay *)
(* so.                                                                      *)
(***************************************************************************)
EXTENDS Naturals, Sequences, FiniteSets

CONSTANTS Mails,
          Foreign,              \* mails of another program
          Local, Remote,        \* the workers
          Awaited, Unawaited,   \* results the parser waits for, and some nobody does
          RedisFaults, MaxFaults, MaxErrs, MaxConn,
          None

ASSUME NoneAssumption == None \notin Mails \cup Foreign
ASSUME ForeignAssumption == Mails \cap Foreign = {}
ASSUME WorkersAssumption == IsFiniteSet(Local \cup Remote)
ASSUME ResultAssumption == {"run", "returned"} \cap (Awaited \cup Unawaited) = {}

VARIABLES intake, queue, pending, old, gpc, wpcR, hand, gone, orphans, back,
          ticker, phaseR, taken, parsedR, faults
Redis == INSTANCE RedisCollector
  WITH Faults <- RedisFaults, wpc <- wpcR, phase <- phaseR, parsed <- parsedR

VARIABLES src, pubB, pmail, errs, wire, plinked, dropped, losses, ready, conn, tag,
          linked, unacked, incoming, uidToTag, hold, wpcB, queued, swept, parsedB, phaseB
Rabbit == INSTANCE RabbitCollector
  WITH Mails <- Mails \cup Foreign, pub <- pubB, wpc <- wpcB, parsed <- parsedB,
       phase <- phaseB

VARIABLES kind, call, pub, flight, sent, refused, failed, start, phase
Consumer == INSTANCE Consumers

ConsumerClosed ==
  /\ kind = "file" /\ call = [x \in Consumer!Results |-> "ok"] /\ pub = "run"
  /\ flight = {} /\ sent = Consumer!Results /\ refused = {} /\ failed = {}
  /\ start = "returned" /\ phase = "closed"

Init ==
  \/ Redis!Init /\ Rabbit!InitIn("closed") /\ ConsumerClosed
  \/ Redis!InitIn("closed") /\ Rabbit!Init /\ ConsumerClosed
  \/ Redis!InitIn("closed") /\ Rabbit!InitIn("closed") /\ Consumer!Init

redis == <<intake, queue, pending, old, gpc, wpcR, hand, gone, orphans, back,
           ticker, phaseR, taken, parsedR, faults>>
rabbit == <<src, pubB, pmail, errs, wire, plinked, dropped, losses, ready, conn, tag,
            linked, unacked, incoming, uidToTag, hold, wpcB, queued, swept, parsedB,
            phaseB>>
consumer == <<kind, call, pub, flight, sent, refused, failed, start, phase>>
vars == <<redis, rabbit, consumer>>

Next ==
  \/ Redis!Next /\ UNCHANGED <<rabbit, consumer>>
  \/ Rabbit!Next /\ UNCHANGED <<redis, consumer>>
  \/ Consumer!Next /\ UNCHANGED <<redis, rabbit>>

Spec == Init /\ [][Next]_vars /\ Redis!Fairness /\ Rabbit!Fairness /\ Consumer!Fairness
-----------------------------------------------------------------------------
\* collectors/redis.go: a mail is in one place, and what vanishes is accounted for.
RedisAccounts == Redis!TypeOK /\ Redis!OnePlace /\ Redis!VanishedIsAccounted

\* collectors/redis.go: what is on the list is handed to a worker.
StoredIsHanded == Redis!StoredIsHanded

\* collectors/rabbit.go: what the broker has had it keeps until it is parsed,
\* and the mails that never reached it are the publications that failed, and
\* what was on a connection that was lost.
RabbitAccounts == Rabbit!TypeOK /\ Rabbit!KeptUntilParsed /\ Rabbit!LostIsCounted

\* collectors/rabbit.go: the stop and every Push end, unless two publications failed.
RabbitEnds == Rabbit!RabbitEnds

\* consumers/: who is told of an outcome is told of its own, whatever an ok is worth
\* there, and no call of the parser meets a closed consumer.
OutcomeIsOwn == Consumer!TypeOK /\ Consumer!OutcomeIsOwn /\ Consumer!AwaitedNeverPanics

\* consumers/: every call of Consume returns, and the stop ends.
ConsumeReturns == Consumer!ConsumeReturns
=============================================================================
