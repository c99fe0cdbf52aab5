-------------------------- MODULE RabbitCollector --------------------------
(***************************************************************************)
(* The collector kept in RabbitMQ (collectors/rabbit.go), over the client   *)
(* library, which is modelled by what rabbit.go sees of it: a publisher     *)
(* loop that takes one mail at a time and answers on emitOk, when the mail  *)
(* is written to its connection, or emitErr, and a consumer loop; both      *)
(* reconnect.  The buffer of deliveries outlives its connection, and the    *)
(* broker queues again what a lost connection had not acknowledged.         *)
(***************************************************************************)
EXTENDS Naturals, Sequences, SequencesExt, FiniteSets

CONSTANTS Mails,
          Foreign,   \* mails of another program
          Local,     \* the parser's goroutines
          Remote,    \* workers served by handlers of the master
          MaxErrs,   \* bound: publications that fail while their connection is up
          MaxConn,   \* bound: connections lost, the publisher's or the consumer's
          None

VARIABLES
  src,       \* the call of Push for each mail, or what another program published
  pub, pmail,   \* publisher.Run, and the mail it has taken
  errs,      \* how many publications have failed
  wire,      \* written to the publisher's connection, not yet with the broker
  plinked,   \* that connection is up
  dropped,   \* what was on it each time it was lost (history)
  losses,    \* how many times that was
  ready,     \* the broker's queue
  conn, tag, \* the consumer's connection and its last delivery tag
  linked,    \* the connection is up
  unacked,   \* the broker's deliveries on it that wait for an Ack
  incoming,  \* the channel of deliveries
  uidToTag,  \* the delivery of each mail a worker has
  hold, wpc, \* the workers
  queued,    \* the mails the broker has had (history)
  swept,     \* the mails an Ack(true) removed on the way (history)
  parsed,    \* (history)
  phase      \* "up", "stopping" (servers and parser), "done", "closed", "died"

Workers == Local \cup Remote

wireVars == <<wire, plinked, dropped, losses>>
pubVars == <<src, pub, pmail, errs, wireVars>>
brokerVars == <<ready, conn, tag, linked, unacked>>
workVars == <<uidToTag, hold, wpc, parsed>>
vars == <<pubVars, brokerVars, incoming, workVars, queued, swept, phase>>

Delivery == [mail : Mails, conn : Nat, tag : Nat]

TypeOK ==
  /\ src \in [Mails -> {"new", "push", "accepted", "panicked", "undecodable", "unnamed"}]
  /\ pub \in {"run", "produce", "err", "reconnect", "returned", "died"}
  /\ pmail \in Mails \cup {None} /\ errs \in Nat /\ losses \in Nat
  /\ wire \in Seq(Mails) /\ plinked \in BOOLEAN /\ dropped \subseteq Mails
  /\ ready \in Seq(Mails) /\ conn \in Nat /\ tag \in Nat
  /\ linked \in BOOLEAN /\ unacked \subseteq Delivery /\ incoming \in Seq(Delivery)
  /\ uidToTag \in [Mails -> Delivery \cup {None}]
  /\ hold \in [Workers -> Mails \cup {None}]
  /\ wpc \in [Workers -> {"idle", "work", "ack", "returned"}]
  /\ queued \subseteq Mails /\ swept \subseteq Mails /\ parsed \subseteq Mails
  /\ phase \in {"up", "stopping", "done", "closed", "died"}

InitIn(p) ==
  /\ src = [m \in Mails |-> "new"] /\ pub = "run" /\ pmail = None /\ errs = 0
  /\ wire = <<>> /\ plinked = TRUE /\ dropped = {} /\ losses = 0
  /\ ready = <<>> /\ conn = 0 /\ tag = 0 /\ linked = TRUE /\ unacked = {}
  /\ incoming = <<>> /\ uidToTag = [m \in Mails |-> None]
  /\ hold = [w \in Workers |-> None] /\ wpc = [w \in Workers |-> "idle"]
  /\ queued = {} /\ swept = {} /\ parsed = {} /\ phase = p

Init == InitIn("up")

\* Another program publishes to the exchange: what Pull cannot decode, or a
\* mail without the header "uid".
Publish(m) ==
  /\ m \in Foreign /\ src[m] = "new" /\ phase = "up"
  /\ \E k \in {"undecodable", "unnamed"} : src' = [src EXCEPT ![m] = k]
  /\ ready' = Append(ready, m) /\ queued' = queued \cup {m}
  /\ UNCHANGED <<pub, pmail, errs, wireVars, conn, tag, linked, unacked, incoming, workVars, swept, phase>>

(* Push blocks until the publisher takes the mail; its stop is that of a     *)
(* handler nobody cancels.                                                   *)
Push(m) ==
  /\ m \notin Foreign /\ src[m] = "new" /\ phase = "up"
  /\ src' = [src EXCEPT ![m] = "push"]
  /\ UNCHANGED <<pub, pmail, errs, wireVars, brokerVars, incoming, workVars, queued, swept, phase>>

Emit(m) ==
  /\ src[m] = "push" /\ pub = "run"
  /\ src' = [src EXCEPT ![m] = "accepted"] /\ pub' = "produce" /\ pmail' = m
  /\ UNCHANGED <<errs, wireVars, brokerVars, incoming, workVars, queued, swept, phase>>

\* The channel is not in confirm mode: ok says that the mail is written.
EmitOk ==
  /\ pub = "produce" /\ plinked
  /\ wire' = Append(wire, pmail) /\ pub' = "run" /\ pmail' = None
  /\ UNCHANGED <<src, errs, plinked, dropped, losses, brokerVars, incoming, workVars,
                 queued, swept, phase>>

\* Mutant: nobody reads emitErr at all.
MutEmitErr ==
  /\ pub = "produce" /\ (plinked => errs < MaxErrs)
  /\ errs' = errs + 1 /\ pmail' = None /\ pub' = "err"
  /\ UNCHANGED <<src, wireVars, brokerVars, incoming, workVars, queued, swept, phase>>

(* The goroutine that reads emitErr reads one error: at the second one       *)
(* publisher.Run waits for a reader.                                         *)
EmitErr ==
  /\ pub = "produce" /\ (plinked => errs < MaxErrs)
  /\ errs' = errs + 1 /\ pmail' = None
  /\ pub' = IF errs = 0 THEN "run" ELSE "err"
  /\ UNCHANGED <<src, wireVars, brokerVars, incoming, workVars, queued, swept, phase>>

(* What was written gets to the queue, or its connection is lost before;     *)
(* Run, told of it between two mails, tries until it has another one.        *)
Route ==
  /\ wire # <<>>
  /\ wire' = Tail(wire) /\ ready' = Append(ready, Head(wire))
  /\ queued' = queued \cup {Head(wire)}
  /\ UNCHANGED <<src, pub, pmail, errs, plinked, dropped, losses, conn, tag, linked,
                 unacked, incoming, workVars, swept, phase>>

\* The connections lost so far, the publisher's and the consumer's.
Lost == losses + conn + (IF linked THEN 0 ELSE 1)

Drop ==
  /\ plinked /\ Lost < MaxConn /\ phase \notin {"closed", "died"}
  /\ plinked' = FALSE /\ losses' = losses + 1
  /\ dropped' = dropped \cup ToSet(wire) /\ wire' = <<>>
  /\ UNCHANGED <<src, pub, pmail, errs, brokerVars, incoming, workVars, queued, swept, phase>>

Notified ==
  /\ pub = "run" /\ ~plinked /\ pub' = "reconnect"
  /\ UNCHANGED <<src, pmail, errs, wireVars, brokerVars, incoming, workVars, queued, swept, phase>>

Reconnected ==
  /\ pub = "reconnect" /\ pub' = "run" /\ plinked' = TRUE
  /\ UNCHANGED <<src, pmail, errs, wire, dropped, losses, brokerVars, incoming, workVars,
                 queued, swept, phase>>

\* The broker and the connection of the consumer.
Deliver ==
  /\ linked /\ ready # <<>> /\ phase \notin {"closed", "died"}
  /\ LET d == [mail |-> Head(ready), conn |-> conn, tag |-> tag + 1] IN
       /\ unacked' = unacked \cup {d} /\ incoming' = Append(incoming, d)
  /\ tag' = tag + 1 /\ ready' = Tail(ready)
  /\ UNCHANGED <<pubVars, conn, linked, workVars, queued, swept, phase>>

Requeued == SetToSeq({d.mail : d \in unacked}) \o ready

Lose ==
  /\ linked /\ Lost < MaxConn /\ phase \notin {"closed", "died"}
  /\ linked' = FALSE /\ ready' = Requeued /\ unacked' = {}
  /\ UNCHANGED <<pubVars, conn, tag, incoming, workVars, queued, swept, phase>>

Reconnect ==
  /\ ~linked /\ phase \notin {"closed", "died"}
  /\ linked' = TRUE /\ conn' = conn + 1 /\ tag' = 0
  /\ UNCHANGED <<pubVars, ready, unacked, incoming, workVars, queued, swept, phase>>

\* What delivery.Ack(multiple) removes: nothing when its connection is gone.
Acked(d, multiple) ==
  IF linked /\ d.conn = conn
  THEN {e \in unacked : e = d \/ (multiple /\ e.tag <= d.tag)} ELSE {}

Receive(w) ==
  /\ wpc[w] = "idle" /\ incoming # <<>> /\ phase \in {"up", "stopping"}
  /\ incoming' = Tail(incoming)

Pull(w) ==
  /\ Receive(w)
  /\ LET d == Head(incoming) IN
       /\ src[d.mail] \notin {"undecodable", "unnamed"}
       /\ uidToTag' = [uidToTag EXCEPT ![d.mail] = d]
       /\ hold' = [hold EXCEPT ![w] = d.mail] /\ wpc' = [wpc EXCEPT ![w] = "work"]
  /\ UNCHANGED <<pubVars, brokerVars, parsed, queued, swept, phase>>

PullUndecodable(w) ==
  /\ Receive(w)
  /\ LET d == Head(incoming) IN
       /\ src[d.mail] = "undecodable"
       /\ unacked' = unacked \ Acked(d, TRUE)
       /\ swept' = swept \cup {e.mail : e \in Acked(d, TRUE)}
  /\ UNCHANGED <<pubVars, ready, conn, tag, linked, workVars, queued, phase>>

\* The missing header panics: in a handler of the master, which recovers and
\* leaves the delivery as it is.
PullRecovers(w) ==
  /\ w \in Remote /\ Receive(w) /\ src[Head(incoming).mail] = "unnamed"
  /\ UNCHANGED <<pubVars, brokerVars, workVars, queued, swept, phase>>

\* Or in a goroutine of the parser, which ends the process.
PullDies(w) ==
  /\ w \in Local /\ Receive(w) /\ src[Head(incoming).mail] = "unnamed"
  /\ phase' = "died" /\ pub' = "died" /\ wpc' = [v \in Workers |-> "returned"]
  /\ linked' = FALSE /\ ready' = Requeued /\ unacked' = {}
  /\ src' = [m \in Mails |-> IF src[m] = "push" THEN "panicked" ELSE src[m]]
  /\ UNCHANGED <<pmail, errs, wireVars, conn, tag, uidToTag, hold, parsed, queued, swept>>

PullCanceled(w) ==
  /\ wpc[w] = "idle" /\ phase = "stopping"
  /\ wpc' = [wpc EXCEPT ![w] = "returned"]
  /\ UNCHANGED <<pubVars, brokerVars, incoming, uidToTag, hold, parsed, queued, swept, phase>>

Parse(w) ==
  /\ wpc[w] = "work"
  /\ wpc' = [wpc EXCEPT ![w] = "ack"] /\ parsed' = parsed \cup {hold[w]}
  /\ UNCHANGED <<pubVars, brokerVars, incoming, uidToTag, hold, queued, swept, phase>>

\* Mutant: the acknowledgement is for all deliveries up to this one.
MutACK(w) ==
  /\ wpc[w] = "ack"
  /\ LET d == uidToTag[hold[w]] IN
       unacked' = IF d = None THEN unacked ELSE unacked \ Acked(d, TRUE)
  /\ uidToTag' = [uidToTag EXCEPT ![hold[w]] = None]
  /\ hold' = [hold EXCEPT ![w] = None] /\ wpc' = [wpc EXCEPT ![w] = "idle"]
  /\ UNCHANGED <<pubVars, ready, conn, tag, linked, incoming, parsed, queued, swept, phase>>

(* The UID names the latest delivery of the mail, whichever worker has it,   *)
(* or nothing when another has acknowledged that one.                        *)
ACK(w) ==
  /\ wpc[w] = "ack"
  /\ LET d == uidToTag[hold[w]] IN
       unacked' = IF d = None THEN unacked ELSE unacked \ Acked(d, FALSE)
  /\ uidToTag' = [uidToTag EXCEPT ![hold[w]] = None]
  /\ hold' = [hold EXCEPT ![w] = None] /\ wpc' = [wpc EXCEPT ![w] = "idle"]
  /\ UNCHANGED <<pubVars, ready, conn, tag, linked, incoming, parsed, queued, swept, phase>>

\* fx stops the servers and the parser, then this collector; then Close.
Stop ==
  /\ phase = "up" /\ phase' = "stopping"
  /\ UNCHANGED <<pubVars, brokerVars, incoming, workVars, queued, swept>>

ParserStopped ==
  /\ phase = "stopping" /\ \A w \in Workers : wpc[w] = "returned"
  /\ phase' = "done"
  /\ UNCHANGED <<pubVars, brokerVars, incoming, workVars, queued, swept>>

RunReturns ==
  /\ phase = "done" /\ pub = "run" /\ pub' = "returned"
  /\ UNCHANGED <<src, pmail, errs, wireVars, brokerVars, incoming, workVars, queued, swept, phase>>

(* Both Runs have returned: the consumer's does not look at its context      *)
(* while it reconnects.  Closing emit panics in a Push that waits.           *)
Close ==
  /\ phase = "done" /\ pub = "returned" /\ linked
  /\ phase' = "closed" /\ linked' = FALSE /\ ready' = Requeued /\ unacked' = {}
  /\ src' = [m \in Mails |-> IF src[m] = "push" THEN "panicked" ELSE src[m]]
  /\ UNCHANGED <<pub, pmail, errs, wireVars, conn, tag, incoming, workVars, queued, swept>>

Pulls(w) == Pull(w) \/ PullUndecodable(w) \/ PullRecovers(w) \/ PullDies(w)
Works(w) == Pulls(w) \/ Parse(w) \/ ACK(w)
Worker(w) == Works(w) \/ PullCanceled(w)
Publisher == (\E m \in Mails : Emit(m)) \/ EmitOk \/ EmitErr \/ Notified \/ Reconnected

Next ==
  \/ \E m \in Mails : Publish(m) \/ Push(m)
  \/ Publisher \/ Route \/ Drop \/ Deliver \/ Lose \/ Reconnect
  \/ \E w \in Workers : Worker(w)
  \/ Stop \/ ParserStopped \/ RunReturns \/ Close

(* Goroutines run; the broker comes back and delivers; a worker that may     *)
(* choose again and again between a mail and its stop takes both.            *)
Fairness ==
  /\ WF_vars(Publisher) /\ WF_vars(Route) /\ WF_vars(Deliver) /\ WF_vars(Reconnect)
  /\ \A w \in Workers : WF_vars(Works(w)) /\ SF_vars(PullCanceled(w))
  /\ WF_vars(ParserStopped \/ RunReturns) /\ SF_vars(Close)

Spec == Init /\ [][Next]_vars /\ Fairness
-----------------------------------------------------------------------------
(* What the broker has had it keeps until somebody has parsed it, however    *)
(* late the Ack and whichever delivery it names; except what an undecodable  *)
(* mail that came after it sweeps away (rabbit.go:121).                      *)
KeptUntilParsed ==
  queued \subseteq ToSet(ready) \cup {d.mail : d \in unacked} \cup parsed \cup swept

(* Push answers nil before the publication (rabbit.go:99), and nothing       *)
(* confirms the publication: a mail it accepted is with the publisher, on    *)
(* its connection, or has got to the broker; or it was on a connection that  *)
(* was lost, or its publication has failed, and of these there are as many   *)
(* as there were failures.                                                   *)
LostIsCounted ==
  Cardinality({m \in Mails : src[m] = "accepted"}
                \ (queued \cup ToSet(wire) \cup dropped \cup {pmail})) = errs

(* The stop ends, and no source is kept waiting in Push, unless a second     *)
(* publication has failed: nobody reads that error (rabbit.go:149), and Run  *)
(* never looks at its context again.  The process may also end by the panic  *)
(* of rabbit.go:124.                                                         *)
Settled == phase \in {"up", "closed", "died"} /\ \A m \in Mails : src[m] # "push"
RabbitEnds == ~Settled ~> Settled \/ errs > 1
=============================================================================
