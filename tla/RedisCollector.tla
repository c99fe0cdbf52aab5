--------------------------- MODULE RedisCollector ---------------------------
(***************************************************************************)
(* The collector kept in Redis (collectors/redis.go) and its connection     *)
(* (utils/redis.go): a list of mails, and a hash of the mails pulled and not *)
(* acknowledged.  Pull starts a goroutine that loops over BLPOP; the caller  *)
(* may stop waiting for it at any time, and it lives on.                     *)
(*                                                                          *)
(* rePush never pushes: when an entry of the hash is a minute old, HMGET     *)
(* returns it as a string and the assertion result.([]byte) (:60) panics;   *)
(* when none is, HMGET has no field, Redis refuses it and Start returns.    *)
(***************************************************************************)
EXTENDS Naturals, Sequences, SequencesExt, FiniteSets

CONSTANTS Mails,
          Local,      \* the workers of parser.Start
          Remote,     \* the workers served by /worker/work
          Faults,     \* bound: what may go wrong, once each
          MaxFaults,  \* bound: how much of it in one behavior
          None

Workers == Local \cup Remote

VARIABLES
  intake,    \* what Push answered for each mail
  queue,     \* the list c.key
  pending,   \* the keys of the hash c.curkey
  old,       \* the mails whose ULID is a minute old
  gpc,       \* the goroutine of the Pull each worker waits for
  wpc,       \* the workers
  hand,      \* the mail each worker or its goroutine has taken
  gone,      \* the workers whose call has its stop done
  orphans,   \* how many goroutines of abandoned Pulls wait in BLPOP
  back,      \* the mails that such goroutines are about to push back
  ticker,    \* the goroutine of Start
  phase,     \* "up", "stopping" (servers and parser), "closed", "down"
  taken,     \* how often each mail was returned by Pull (history)
  parsed,    \* the mails some worker is done with (history)
  faults     \* what has gone wrong

callVars == <<gpc, wpc, hand, gone>>
orphanVars == <<orphans, back>>
lifeVars == <<ticker, phase, faults>>
vars == <<intake, queue, pending, old, callVars, orphanVars, lifeVars, taken, parsed>>

TypeOK ==
  /\ intake \in [Mails -> {"new", "accepted", "refused"}]
  /\ queue \in Seq(Mails) /\ pending \subseteq Mails /\ old \subseteq Mails
  /\ gpc \in [Workers -> {"none", "blpop", "check", "gotIt", "error"}]
  /\ wpc \in [Workers -> {"idle", "pull", "store", "work", "ack", "returned"}]
  /\ hand \in [Workers -> Mails \cup {None}]
  /\ gone \subseteq Workers
  /\ orphans \in Nat /\ back \subseteq Mails
  /\ ticker \in {"waits", "returned"}
  /\ phase \in {"up", "stopping", "closed", "down"}
  /\ taken \in [Mails -> Nat] /\ parsed \subseteq Mails
  /\ faults \subseteq Faults

NoCalls ==
  [g |-> [w \in Workers |-> "none"], w |-> [w \in Workers |-> "idle"],
   h |-> [w \in Workers |-> None]]

InitIn(p) ==
  /\ intake = [m \in Mails |-> "new"]
  /\ queue = <<>> /\ pending = {} /\ old = {}
  /\ gpc = NoCalls.g /\ wpc = NoCalls.w /\ hand = NoCalls.h /\ gone = {}
  /\ orphans = 0 /\ back = {} /\ ticker = "waits" /\ phase = p
  /\ taken = [m \in Mails |-> 0] /\ parsed = {} /\ faults = {}

Init == InitIn("up")

Fault(f) ==
  /\ f \in Faults \ faults /\ Cardinality(faults) < MaxFaults
  /\ faults' = faults \cup {f}
Serving == phase \in {"up", "stopping"}

Push(m) ==
  /\ phase = "up" /\ intake[m] = "new"
  /\ \/ /\ intake' = [intake EXCEPT ![m] = "accepted"]
        /\ queue' = Append(queue, m) /\ UNCHANGED faults
     \/ /\ Fault("push")
        /\ intake' = [intake EXCEPT ![m] = "refused"] /\ UNCHANGED queue
  /\ UNCHANGED <<pending, old, callVars, orphanVars, ticker, phase, taken, parsed>>

\* Pull: the goroutine and its caller.
Call(w) ==
  /\ phase = "up" /\ wpc[w] = "idle"
  /\ wpc' = [wpc EXCEPT ![w] = "pull"] /\ gpc' = [gpc EXCEPT ![w] = "blpop"]
  /\ gone' = gone \ {w}
  /\ UNCHANGED <<intake, queue, pending, old, hand, orphanVars, lifeVars, taken, parsed>>

(* BLPOP returns a mail, or an error; after a second without a mail it is    *)
(* called again.                                                             *)
BLPop(w) ==
  /\ Serving /\ gpc[w] = "blpop"
  /\ \/ /\ queue # <<>>
        /\ hand' = [hand EXCEPT ![w] = Head(queue)] /\ queue' = Tail(queue)
        /\ gpc' = [gpc EXCEPT ![w] = "check"] /\ UNCHANGED faults
     \/ /\ Fault("blpop")
        /\ gpc' = [gpc EXCEPT ![w] = IF w \in gone THEN "none" ELSE "error"]
        /\ UNCHANGED <<hand, queue>>
  /\ UNCHANGED <<intake, pending, old, wpc, gone, orphanVars, ticker, phase, taken, parsed>>

GotIt(w) ==
  /\ Serving /\ gpc[w] = "check" /\ w \notin gone
  /\ gpc' = [gpc EXCEPT ![w] = "gotIt"]
  /\ UNCHANGED <<intake, queue, pending, old, wpc, hand, gone, orphanVars, lifeVars, taken, parsed>>

(* The caller sees stop first.  What its goroutine does then it does alone;  *)
(* a mail whose gotIt is already closed is dropped.                          *)
Canceled(w) ==
  /\ Serving /\ wpc[w] = "pull" /\ w \in gone
  /\ wpc' = [wpc EXCEPT ![w] = IF w \in Local THEN "returned" ELSE "idle"]
  /\ gpc' = [gpc EXCEPT ![w] = "none"] /\ hand' = [hand EXCEPT ![w] = None]
  /\ orphans' = orphans + (IF gpc[w] = "blpop" THEN 1 ELSE 0)
  /\ back' = back \cup (IF gpc[w] = "check" THEN {hand[w]} ELSE {})
  /\ UNCHANGED <<intake, queue, pending, old, gone, lifeVars, taken, parsed>>

\* Mutant: an error of BLPOP ends the worker.
MutPullFails(w) ==
  /\ Serving /\ gpc[w] = "error"
  /\ wpc' = [wpc EXCEPT ![w] = "returned"] /\ gpc' = [gpc EXCEPT ![w] = "none"]
  /\ UNCHANGED <<intake, queue, pending, old, hand, gone, orphanVars, lifeVars, taken, parsed>>

PullFails(w) ==
  /\ Serving /\ gpc[w] = "error"
  /\ wpc' = [wpc EXCEPT ![w] = "idle"] /\ gpc' = [gpc EXCEPT ![w] = "none"]
  /\ UNCHANGED <<intake, queue, pending, old, hand, gone, orphanVars, lifeVars, taken, parsed>>

Pulled(w) ==
  /\ Serving /\ wpc[w] = "pull" /\ gpc[w] = "gotIt"
  /\ wpc' = [wpc EXCEPT ![w] = "store"] /\ gpc' = [gpc EXCEPT ![w] = "none"]
  /\ UNCHANGED <<intake, queue, pending, old, hand, gone, orphanVars, lifeVars, taken, parsed>>

\* HSET; its error is only logged.
Pending(w) ==
  /\ Serving /\ wpc[w] = "store"
  /\ \/ pending' = pending \cup {hand[w]} /\ UNCHANGED faults
     \/ Fault("hset") /\ UNCHANGED pending
  /\ wpc' = [wpc EXCEPT ![w] = "work"]
  /\ taken' = [taken EXCEPT ![hand[w]] = @ + 1]
  /\ UNCHANGED <<intake, queue, old, gpc, hand, gone, orphanVars, ticker, phase, parsed>>

\* A goroutine nobody waits for: it leaves once BLPOP has timed out or failed,
\* or has a mail to push back.
OrphanPop ==
  /\ Serving /\ orphans > 0 /\ queue # <<>>
  /\ orphans' = orphans - 1 /\ back' = back \cup {Head(queue)} /\ queue' = Tail(queue)
  /\ UNCHANGED <<intake, pending, old, callVars, lifeVars, taken, parsed>>

OrphanLeaves ==
  /\ Serving /\ orphans > 0
  /\ orphans' = orphans - 1
  /\ UNCHANGED <<intake, queue, pending, old, callVars, back, lifeVars, taken, parsed>>

\* Mutant: the mail stays with the goroutine.
MutPushBack(m) ==
  /\ Serving /\ m \in back /\ queue' = Append(queue, m)
  /\ UNCHANGED <<intake, pending, old, callVars, orphanVars, lifeVars, taken, parsed>>

PushBack(m) ==
  /\ Serving /\ m \in back
  /\ back' = back \ {m}
  /\ \/ queue' = Append(queue, m) /\ UNCHANGED faults
     \/ Fault("back") /\ UNCHANGED queue
  /\ UNCHANGED <<intake, pending, old, callVars, orphans, ticker, phase, taken, parsed>>

\* The parser parses and acknowledges; a remote worker may never come back.
Parse(w) ==
  /\ Serving /\ wpc[w] = "work"
  /\ wpc' = [wpc EXCEPT ![w] = "ack"] /\ parsed' = parsed \cup {hand[w]}
  /\ UNCHANGED <<intake, queue, pending, old, gpc, hand, gone, orphanVars, lifeVars, taken>>

ACK(w) ==
  /\ Serving /\ wpc[w] = "ack"
  /\ \/ pending' = pending \ {hand[w]} /\ UNCHANGED faults
     \/ Fault("hdel") /\ UNCHANGED pending
  /\ wpc' = [wpc EXCEPT ![w] = "idle"] /\ hand' = [hand EXCEPT ![w] = None]
  /\ UNCHANGED <<intake, queue, old, gpc, gone, orphanVars, ticker, phase, taken, parsed>>

Die(w) ==
  /\ Serving /\ w \in Remote /\ wpc[w] = "work" /\ Fault("die")
  /\ wpc' = [wpc EXCEPT ![w] = "idle"] /\ hand' = [hand EXCEPT ![w] = None]
  /\ UNCHANGED <<intake, queue, pending, old, gpc, gone, orphanVars, ticker, phase, taken, parsed>>

Leave(w) ==
  /\ Serving /\ w \in Remote /\ wpc[w] = "pull" /\ w \notin gone /\ Fault("leave")
  /\ gone' = gone \cup {w}
  /\ UNCHANGED <<intake, queue, pending, old, gpc, wpc, hand, orphanVars, ticker, phase, taken, parsed>>

Age(m) ==
  /\ intake[m] = "accepted" /\ m \notin old
  /\ old' = old \cup {m}
  /\ UNCHANGED <<intake, queue, pending, callVars, orphanVars, lifeVars, taken, parsed>>

\* What the end of a process, by a panic or not, leaves.
Ended(p) ==
  /\ gpc' = NoCalls.g /\ wpc' = NoCalls.w /\ hand' = NoCalls.h
  /\ gone' = {} /\ orphans' = 0 /\ back' = {} /\ phase' = p
  /\ UNCHANGED <<intake, queue, pending, old, taken, parsed>>

\* A minute has passed.  The retry loop is for an error that never comes.
rePush ==
  /\ phase \in {"up", "stopping"} /\ ticker = "waits" /\ pending \cap old = {}
  /\ ticker' = "returned"
  /\ UNCHANGED <<intake, queue, pending, old, callVars, orphanVars, phase, faults, taken, parsed>>

RePushPanics ==
  /\ Serving /\ ticker = "waits" /\ pending \cap old # {}
  /\ Ended("down") /\ UNCHANGED <<ticker, faults>>

\* Somebody starts the process again; Prestart pings the server.
Restart ==
  /\ phase = "down" /\ Fault("restart")
  /\ ticker' = "waits" /\ phase' = "up"
  /\ UNCHANGED <<intake, queue, pending, old, callVars, orphanVars, taken, parsed>>

\* fx stops the servers and the parser, then the collector, then the client:
\* nobody waits for the orphans.
Stop ==
  /\ phase = "up" /\ Fault("stop")
  /\ phase' = "stopping" /\ gone' = Workers
  /\ UNCHANGED <<intake, queue, pending, old, gpc, wpc, hand, orphanVars, ticker, taken, parsed>>

Close ==
  /\ phase = "stopping"
  /\ \A w \in Workers : wpc[w] \notin {"pull", "store"} /\ (w \in Local => wpc[w] \in {"idle", "returned"})
  /\ Ended("closed") /\ ticker' = "returned" /\ UNCHANGED faults

Pull(w) == Canceled(w) \/ PullFails(w) \/ Pulled(w) \/ Pending(w)
Caller(w) == Call(w) \/ Parse(w) \/ ACK(w)
Getter(w) == BLPop(w) \/ GotIt(w)
Orphan == OrphanPop \/ OrphanLeaves \/ (\E m \in Mails : PushBack(m))

Next ==
  \/ \E m \in Mails : Push(m) \/ Age(m)
  \/ \E w \in Workers : Caller(w) \/ Pull(w) \/ Getter(w) \/ Die(w) \/ Leave(w)
  \/ Orphan
  \/ rePush \/ RePushPanics \/ Restart \/ Stop \/ Close

(* The goroutines of the process run; BLPOP serves each of those that wait   *)
(* in turn.  A remote worker need not come back.  A supervisor starts a      *)
(* process that has panicked.                                                *)
Fairness ==
  /\ \A w \in Local : WF_vars(Caller(w))
  /\ \A w \in Workers : WF_vars(Pull(w)) /\ SF_vars(Getter(w))
  /\ WF_vars(Orphan) /\ WF_vars(Restart) /\ WF_vars(Close)

Spec == Init /\ [][Next]_vars /\ Fairness
-----------------------------------------------------------------------------
Accepted == {m \in Mails : intake[m] = "accepted"}
InHand == {hand[w] : w \in Workers} \ {None}

(* A mail is in one place: the list, the hands of one goroutine, or the way  *)
(* back to the list, and Pull returns it once, whoever cancels when (the     *)
(* race of redis.go:136-158).                                                *)
OnePlace ==
  /\ IsInjective(queue)
  /\ \A m \in Mails : taken[m] <= 1
  /\ ToSet(queue) \cap (back \cup InHand) = {} /\ back \cap InHand = {}
  /\ \A v, w \in Workers : hand[v] = hand[w] /\ hand[v] # None => v = w

(* What has vanished: accepted, but nowhere and never parsed.  A mail in     *)
(* pending alone is on record, though nothing ever reads the record.         *)
Vanished == Accepted \ (ToSet(queue) \cup pending \cup InHand \cup back \cup parsed)

(* A mail vanishes only through a known gap, one mail for each: a client     *)
(* that leaves, between close(gotIt) and the select (:149-158) or before a   *)
(* failed push back (:141), a failed HSET (:177) and then a lost worker,     *)
(* and, at a stop or a panic, one for each worker.                           *)
VanishedIsAccounted ==
  LET ends == (IF phase = "up" THEN 0 ELSE 1) + (IF "restart" \in faults THEN 1 ELSE 0)
  IN  Cardinality(Vanished) <= Cardinality(faults \cap {"leave", "hset"})
                                + ends * Cardinality(Workers)

(* The comment of utils/service.go:14: "It should return only when the       *)
(* passed context is done."  Start returns at its first minute.              *)
StartReturnsOnlyWhenDone == ticker = "returned" => phase \in {"stopping", "closed"}

(* The mails on the list are handed to workers, whatever calls were          *)
(* abandoned and whatever they pushed back, unless the process ends or they   *)
(* are lost.                                                                  *)
Waiting == {m \in Accepted : taken[m] = 0} \ Vanished
StoredIsHanded == Waiting # {} ~> Waiting = {} \/ phase # "up"
=============================================================================
