---------------------------- MODULE MasterWorker ----------------------------
(***************************************************************************)
(* A remote worker (services/worker.go) and the HTTP master that gives it   *)
(* mails (services/httpmaster.go).  The worker authenticates, then numbers  *)
(* its requests for work; the master checks the numbers.  One goroutine of  *)
(* the worker polls, some parse, and each result has a goroutine that       *)
(* uploads it until that succeeds.  The HTTP client gives up on a request   *)
(* after 30 seconds, wherever the request is then.                          *)
(*                                                                          *)
(* The collector is reduced to its promise: Pull leases a mail under a new  *)
(* UID, ACK ends the lease of that UID, and an old lease is taken back.     *)
(* The master acknowledges a result before it has it consumed, by a         *)
(* goroutine nobody awaits and whose error is logged.                       *)
(***************************************************************************)
EXTENDS Integers

CONSTANTS Mails,
          Parsers,      \* the parsing goroutines of the worker
          MaxTimeouts,  \* bound: how often the HTTP client gives up on a request,
                        \* or a lease on which somebody works grows too old
          MaxRestarts,  \* bound: how often the master is restarted
          None

ASSUME NoneAssumption == None \notin Nat \cup (Mails \X Nat) \cup {"retry", "exit"}
ASSUME BoundsAssumption == MaxTimeouts \in Nat /\ MaxRestarts \in Nat

(* The worker takes a new ULID each time it authenticates, which it does    *)
(* again only after a timeout or a restart.                                 *)
IDs == 1..(1 + MaxTimeouts + MaxRestarts)
UID == Mails \X Nat
mail(u) == u[1]

VARIABLES
  turn,        \* how many UIDs each mail has been given
  queue, cur,  \* the collector: UIDs of mails waiting, and of mails leased
  acked,       \* UIDs the master has acknowledged
  consuming,   \* results handed to a Consume that has not returned
  results,     \* UIDs of the results consumed ...
  lost,        \* ... and of those whose Consume failed, or was cut
  recipients,  \* pakeRecipients
  keys,        \* pakeSessionKeys
  inc,         \* increments, None for a worker it does not hold
  msgs,        \* the requests, from the client's Do to the end of both sides
  me, wst,     \* the worker's ID, and where worker() is
  outcome,     \* why it returns: "retry" or "exit"
  requestID,
  poll, hand,  \* the getWork goroutine, and the mail it hands over
  busy,        \* the mail of each parsing goroutine
  upload,      \* UIDs of the results to upload, or being uploaded
  uploaded,    \* UIDs whose upload the worker believes done
  stop,        \* WorkerAction has received a signal
  unparseable, \* the mails whose parsing fails: they are acknowledged only
  timeouts, restarts,
  late         \* the client gave up on a request the master had not served

collVars == <<turn, queue, cur>>
consumeVars == <<acked, consuming, results, lost>>
masterVars == <<recipients, keys, inc, consumeVars>>
workVars == <<requestID, poll, hand, busy, upload, uploaded>>
mainVars == <<me, wst, outcome, stop>>
envVars == <<unparseable, timeouts, restarts, late>>
vars == <<collVars, masterVars, msgs, workVars, mainVars, envVars>>

Msg == [kind : {"init", "auth", "work", "submit"}, id : IDs, n : Nat,
        uid : UID \cup {None}, wait : BOOLEAN,
        st : {"net", "pull", "mail", "ok", "bad", "empty", "eof"}]

TypeOK ==
  /\ turn \in [Mails -> Nat]
  /\ queue \subseteq UID /\ cur \subseteq UID
  /\ acked \subseteq UID /\ results \subseteq UID /\ lost \subseteq UID
  /\ consuming \subseteq UID \X Nat
  /\ recipients \subseteq IDs /\ keys \subseteq IDs
  /\ inc \in [IDs -> Nat \cup {None}]
  /\ msgs \subseteq Msg
  /\ me \in IDs
  /\ wst \in {"init", "auth", "run", "wind", "retry", "down"}
  /\ outcome \in {"retry", "exit", None}
  /\ requestID \in Nat
  /\ poll \in {"idle", "wait", "hand", "closed"}
  /\ hand \in UID \cup {None}
  /\ busy \in [Parsers -> UID \cup {None}]
  /\ upload \subseteq UID /\ uploaded \subseteq UID
  /\ unparseable \subseteq Mails
  /\ stop \in BOOLEAN /\ late \in BOOLEAN
  /\ timeouts \in 0..MaxTimeouts /\ restarts \in 0..MaxRestarts
  /\ hand # None <=> poll = "hand"
  /\ outcome # None <=> wst = "wind"
  /\ (poll = "wait") <=> \E x \in msgs : x.kind = "work" /\ x.wait

Init ==
  /\ turn = [m \in Mails |-> 1] /\ queue = Mails \X {1} /\ cur = {}
  /\ recipients = {} /\ keys = {} /\ inc = [i \in IDs |-> None]
  /\ acked = {} /\ consuming = {} /\ results = {} /\ lost = {}
  /\ msgs = {}
  /\ me = 1 /\ wst = "init" /\ outcome = None /\ stop = FALSE
  /\ requestID = 0 /\ poll = "idle" /\ hand = None
  /\ busy = [p \in Parsers |-> None] /\ upload = {} /\ uploaded = {}
  /\ unparseable \in SUBSET Mails
  /\ timeouts = 0 /\ restarts = 0 /\ late = FALSE

Request(kind, n, u) ==
  [kind |-> kind, id |-> me, n |-> n, uid |-> u, wait |-> TRUE, st |-> "net"]
Become(x, y) == msgs' = (msgs \ {x}) \cup {y}
Answer(x, st) == IF x.wait THEN Become(x, [x EXCEPT !.st = st]) ELSE msgs' = msgs \ {x}
Waiting(kind) == {x \in msgs : x.kind = kind /\ x.wait}
-----------------------------------------------------------------------------
(* The handlers of the master.                                              *)

HandleInit(x) ==
  /\ x.kind = "init" /\ x.st = "net"
  /\ IF x.id \in keys \cup recipients
       THEN Answer(x, "bad") /\ UNCHANGED recipients
       ELSE Answer(x, "ok") /\ recipients' = recipients \cup {x.id}
  /\ UNCHANGED <<collVars, keys, inc, consumeVars, workVars, mainVars, envVars>>

HandleAuth(x) ==
  /\ x.kind = "auth" /\ x.st = "net"
  /\ IF x.id \in keys \/ x.id \notin recipients
       THEN Answer(x, "bad") /\ UNCHANGED <<recipients, keys, inc>>
       ELSE /\ Answer(x, "ok")
            /\ keys' = keys \cup {x.id}
            /\ recipients' = recipients \ {x.id}
            /\ inc' = [inc EXCEPT ![x.id] = 0]
  /\ UNCHANGED <<collVars, consumeVars, workVars, mainVars, envVars>>

(* CurrentIncrements.Check: the count moves, then is compared; a worker     *)
(* with the wrong number is forgotten there, though not by the key store.   *)
Known(x) == x.id \in keys
InStep(x) == Known(x) /\ inc[x.id] # None /\ inc[x.id] + 1 = x.n

\* Mutant: the mismatch is noted, and the worker served all the same.
MutHandleWork(x) ==
  /\ x.kind = "work" /\ x.st = "net"
  /\ inc' = IF InStep(x) THEN [inc EXCEPT ![x.id] = x.n] ELSE [inc EXCEPT ![x.id] = None]
  /\ Become(x, [x EXCEPT !.st = "pull"])
  /\ UNCHANGED <<collVars, recipients, keys, consumeVars, workVars, mainVars, envVars>>

HandleWork(x) ==
  /\ x.kind = "work" /\ x.st = "net"
  /\ IF InStep(x)
       THEN /\ inc' = [inc EXCEPT ![x.id] = x.n]
            /\ Become(x, [x EXCEPT !.st = "pull"])
       ELSE /\ inc' = IF Known(x) THEN [inc EXCEPT ![x.id] = None] ELSE inc
            /\ Answer(x, "empty")
  /\ UNCHANGED <<collVars, recipients, keys, consumeVars, workVars, mainVars, envVars>>

\* collector.PullCtx gives a mail ...
Pull(x, u) ==
  /\ x.kind = "work" /\ x.st = "pull" /\ u \in queue
  /\ queue' = queue \ {u} /\ cur' = cur \cup {u}
  /\ IF x.wait THEN Become(x, [x EXCEPT !.uid = u, !.st = "mail"]) ELSE msgs' = msgs \ {x}
  /\ UNCHANGED <<turn, masterVars, workVars, mainVars, envVars>>

\* ... or context.Canceled, once the client has given up.
PullCanceled(x) ==
  /\ x.kind = "work" /\ x.st = "pull" /\ ~x.wait
  /\ msgs' = msgs \ {x}
  /\ UNCHANGED <<collVars, masterVars, workVars, mainVars, envVars>>

(* /worker/submit and /worker/ack end the lease.  When prepare fails the    *)
(* handler returns, which answers 200.                                      *)
EndLease(x) == cur' = cur \ {x.uid} /\ acked' = acked \cup {x.uid}

\* Mutant: the results of a worker out of step are refused as well.
MutHandleSubmit(x) ==
  /\ x.kind = "submit" /\ x.st = "net" /\ mail(x.uid) \notin unparseable
  /\ IF Known(x) /\ inc[x.id] # None
       THEN EndLease(x) /\ consuming' = consuming \cup {<<x.uid, x.n>>}
       ELSE UNCHANGED <<cur, acked, consuming>>
  /\ Answer(x, "ok")
  /\ UNCHANGED <<turn, queue, recipients, keys, inc, results, lost, workVars, mainVars,
                 envVars>>

HandleSubmit(x) ==
  /\ x.kind = "submit" /\ x.st = "net" /\ mail(x.uid) \notin unparseable
  /\ IF Known(x)
       THEN EndLease(x) /\ consuming' = consuming \cup {<<x.uid, x.n>>}
       ELSE UNCHANGED <<cur, acked, consuming>>
  /\ Answer(x, "ok")
  /\ UNCHANGED <<turn, queue, recipients, keys, inc, results, lost, workVars, mainVars,
                 envVars>>

HandleAck(x) ==
  /\ x.kind = "submit" /\ x.st = "net" /\ mail(x.uid) \in unparseable
  /\ IF Known(x) THEN EndLease(x) ELSE UNCHANGED <<cur, acked>>
  /\ Answer(x, "ok")
  /\ UNCHANGED <<turn, queue, recipients, keys, inc, consuming, results, lost, workVars,
                 mainVars, envVars>>

\* The goroutine that runs consumer.Consume.
Consumed(c) ==
  /\ consuming' = consuming \ {c} /\ results' = results \cup {c[1]}
  /\ UNCHANGED <<collVars, recipients, keys, inc, acked, lost, msgs, workVars, mainVars,
                 envVars>>

ConsumeFails(c) ==
  /\ consuming' = consuming \ {c} /\ lost' = lost \cup {c[1]}
  /\ UNCHANGED <<collVars, recipients, keys, inc, acked, results, msgs, workVars,
                 mainVars, envVars>>

(* The master is restarted on a collector that keeps its mails: sessions,   *)
(* requests and the results being consumed are gone.                        *)
Restart ==
  /\ restarts < MaxRestarts /\ restarts' = restarts + 1
  /\ recipients' = {} /\ keys' = {} /\ inc' = [i \in IDs |-> None]
  /\ msgs' = {[x EXCEPT !.st = "eof"] : x \in {y \in msgs : y.wait}}
  /\ consuming' = {} /\ lost' = lost \cup {c[1] : c \in consuming}
  /\ UNCHANGED <<collVars, acked, results, workVars, mainVars, unparseable, timeouts,
                 late>>

\* A lease too old is taken back, whether or not somebody still works on it.
Holds(u) == \/ \E x \in msgs : x.uid = u /\ x.wait
            \/ u = hand \/ u \in upload \/ \E p \in Parsers : busy[p] = u
TooOld(u) ==
  IF Holds(u) THEN timeouts < MaxTimeouts /\ timeouts' = timeouts + 1
  ELSE UNCHANGED timeouts

\* Mutant: an old lease is deleted, and its mail not queued again.
MutRePush(u) ==
  /\ u \in cur /\ TooOld(u)
  /\ turn' = [turn EXCEPT ![mail(u)] = @ + 1]
  /\ cur' = cur \ {u}
  /\ UNCHANGED <<queue, masterVars, msgs, workVars, mainVars, unparseable, restarts, late>>

RePush(u) ==
  /\ u \in cur /\ TooOld(u)
  /\ turn' = [turn EXCEPT ![mail(u)] = @ + 1]
  /\ cur' = cur \ {u}
  /\ queue' = queue \cup {<<mail(u), turn[mail(u)] + 1>>}
  /\ UNCHANGED <<masterVars, msgs, workVars, mainVars, unparseable, restarts, late>>
-----------------------------------------------------------------------------
(* The network and the client's timer.                                      *)

GiveUp(x) == Become(x, [x EXCEPT !.wait = FALSE])

\* An abandoned request may never arrive.
Lose(x) ==
  /\ ~x.wait /\ x.st = "net"
  /\ msgs' = msgs \ {x}
  /\ UNCHANGED <<collVars, masterVars, workVars, mainVars, envVars>>

\* worker() ends for this reason, unless it is ending already.
Fail(why) ==
  IF wst = "run" THEN wst' = "wind" /\ outcome' = why ELSE UNCHANGED <<wst, outcome>>

\* The answer of a request the client no longer waits for leaves nothing.
Abandoned(x) == IF x.st \in {"net", "pull"} THEN GiveUp(x) ELSE msgs' = msgs \ {x}

Timeout(x) ==
  /\ x.wait /\ wst # "wind"
  /\ timeouts < MaxTimeouts /\ timeouts' = timeouts + 1
  /\ Abandoned(x)
  /\ late' = (late \/ (x.kind = "work" /\ x.st \notin {"pull", "mail"}))
  /\ IF x.kind \in {"init", "auth"}
       THEN wst' = "retry" /\ UNCHANGED poll
       ELSE /\ poll' = IF x.kind = "work" THEN "idle" ELSE poll
            /\ UNCHANGED wst
  /\ UNCHANGED <<collVars, masterVars, requestID, hand, busy, upload, uploaded, me,
                 outcome, stop, unparseable, restarts>>
-----------------------------------------------------------------------------
(* The worker: authentication.                                              *)

SendInit ==
  /\ wst = "init" /\ Waiting("init") = {} /\ ~stop
  /\ msgs' = msgs \cup {Request("init", 0, None)}
  /\ UNCHANGED <<collVars, masterVars, workVars, mainVars, envVars>>

(* A refused handshake ends the worker for good; a broken connection, or    *)
(* one refused, makes it try again under another ID.                        *)
HandshakeFails(x) == wst' = IF x.st = "eof" THEN "retry" ELSE "down"

InitAnswer(x) ==
  /\ x \in Waiting("init") /\ x.st \in {"ok", "bad", "eof"} /\ ~stop
  /\ IF x.st = "ok"
       THEN wst' = "auth" /\ Become(x, Request("auth", 0, None))
       ELSE HandshakeFails(x) /\ msgs' = msgs \ {x}
  /\ UNCHANGED <<collVars, masterVars, workVars, me, outcome, stop, envVars>>

AuthAnswer(x) ==
  /\ x \in Waiting("auth") /\ x.st \in {"ok", "bad", "eof"} /\ ~stop
  /\ IF x.st = "ok" THEN wst' = "run" ELSE HandshakeFails(x)
  /\ msgs' = msgs \ {x}
  /\ UNCHANGED <<collVars, masterVars, workVars, me, outcome, stop, envVars>>
-----------------------------------------------------------------------------
(* getWork.                                                                 *)

\* Mutant: a request is numbered after the last one that was answered.
MutPoll ==
  /\ poll = "idle" /\ wst = "run"
  /\ poll' = "wait"
  /\ msgs' = msgs \cup {Request("work", requestID + 1, None)}
  /\ UNCHANGED <<collVars, masterVars, requestID, hand, busy, upload, uploaded, mainVars, envVars>>

Poll ==
  /\ poll = "idle" /\ wst = "run"
  /\ requestID' = requestID + 1
  /\ poll' = "wait"
  /\ msgs' = msgs \cup {Request("work", requestID', None)}
  /\ UNCHANGED <<collVars, masterVars, hand, busy, upload, uploaded, mainVars,
                 envVars>>

WorkAnswer(x) ==
  /\ x \in Waiting("work") /\ x.st = "mail"
  /\ poll' = "hand" /\ hand' = x.uid
  /\ msgs' = msgs \ {x}
  /\ UNCHANGED <<collVars, masterVars, requestID, busy, upload, uploaded,
                 mainVars, envVars>>

\* An empty answer cannot be decrypted: the goroutine returns, closing ch.
WorkFails(x) ==
  /\ x \in Waiting("work") /\ x.st \in {"empty", "eof"}
  /\ msgs' = msgs \ {x}
  /\ poll' = "closed"
  /\ Fail(IF x.st = "eof" THEN "retry" ELSE "exit")
  /\ UNCHANGED <<collVars, masterVars, requestID, hand, busy, upload, uploaded, me, stop, envVars>>

\* The context is done: the request, or the next one, fails at once.
PollCanceled ==
  /\ wst = "wind" /\ poll \in {"idle", "wait"}
  /\ poll' = "closed"
  /\ IF Waiting("work") = {} THEN UNCHANGED msgs
     ELSE \E x \in Waiting("work") : Abandoned(x)
  /\ UNCHANGED <<collVars, masterVars, requestID, hand, busy, upload, uploaded, mainVars, envVars>>
-----------------------------------------------------------------------------
(* The parsing goroutines, and the goroutines that upload.                  *)

\* Mutant: a parsing goroutine returns as soon as the context is done.
MutTake(p) ==
  /\ wst # "wind"
  /\ poll = "hand" /\ busy[p] = None
  /\ busy' = [busy EXCEPT ![p] = hand]
  /\ poll' = "idle" /\ hand' = None
  /\ UNCHANGED <<collVars, masterVars, msgs, requestID, upload, uploaded,
                 mainVars, envVars>>

\* The send on ch, which no select accompanies, and its receive.
Take(p) ==
  /\ poll = "hand" /\ busy[p] = None
  /\ busy' = [busy EXCEPT ![p] = hand]
  /\ poll' = "idle" /\ hand' = None
  /\ UNCHANGED <<collVars, masterVars, msgs, requestID, upload, uploaded,
                 mainVars, envVars>>

Parse(p) ==
  /\ busy[p] # None
  /\ busy' = [busy EXCEPT ![p] = None]
  /\ upload' = upload \cup {busy[p]}
  /\ UNCHANGED <<collVars, masterVars, msgs, requestID, poll, hand, uploaded, mainVars,
                 envVars>>

Uploading(u) == {x \in Waiting("submit") : x.uid = u}

\* The requests for one UID are told apart by the timeouts between them.
Submit(u) ==
  /\ u \in upload /\ Uploading(u) = {} /\ wst = "run"
  /\ msgs' = msgs \cup {Request("submit", timeouts, u)}
  /\ UNCHANGED <<collVars, masterVars, workVars, mainVars, envVars>>

SubmitAnswer(x) ==
  /\ x \in Waiting("submit") /\ x.st \in {"ok", "eof"}
  /\ msgs' = msgs \ {x}
  /\ upload' = upload \ {x.uid}
  /\ IF x.st = "ok"
       THEN uploaded' = uploaded \cup {x.uid} /\ UNCHANGED <<wst, outcome>>
       ELSE Fail("retry") /\ UNCHANGED uploaded
  /\ UNCHANGED <<collVars, masterVars, requestID, poll, hand, busy, me, stop,
                 envVars>>

SubmitCanceled(u) ==
  /\ wst = "wind" /\ u \in upload
  /\ upload' = upload \ {u}
  /\ IF Uploading(u) = {} THEN UNCHANGED msgs ELSE \E x \in Uploading(u) : Abandoned(x)
  /\ UNCHANGED <<collVars, masterVars, requestID, poll, hand, busy, uploaded,
                 mainVars, envVars>>
-----------------------------------------------------------------------------
(* worker() returns when all its goroutines have, the parsing ones since ch *)
(* is closed; WorkerAction calls it again after five seconds, or leaves. *)

Return ==
  /\ wst = "wind" /\ poll = "closed" /\ upload = {}
  /\ \A p \in Parsers : busy[p] = None
  /\ wst' = IF outcome = "retry" /\ ~stop THEN "retry" ELSE "down"
  /\ outcome' = None
  /\ UNCHANGED <<collVars, masterVars, msgs, workVars, me, stop, envVars>>

Retry ==
  /\ wst = "retry" /\ ~stop
  /\ me + 1 \in IDs /\ me' = me + 1
  /\ wst' = "init"
  /\ requestID' = 0 /\ poll' = "idle" /\ busy' = [p \in Parsers |-> None]
  /\ UNCHANGED <<collVars, masterVars, msgs, hand, upload, uploaded, outcome,
                 stop, envVars>>

\* A signal cancels the context.
Stop ==
  /\ ~stop /\ stop' = TRUE
  /\ IF wst = "run" THEN wst' = "wind" /\ outcome' = "exit"
     ELSE UNCHANGED <<wst, outcome>>
  /\ UNCHANGED <<collVars, masterVars, msgs, workVars, me, envVars>>

\* Outside of the goroutines, that makes ping, Auth or the wait return.
Stopped ==
  /\ stop /\ wst \in {"init", "auth", "retry"}
  /\ wst' = "down"
  /\ msgs' = {[x EXCEPT !.wait = FALSE] : x \in {y \in msgs : y.wait => y.st = "net"}}
  /\ UNCHANGED <<collVars, masterVars, workVars, me, outcome, stop, envVars>>

Next ==
  \/ \E x \in msgs : \/ HandleInit(x) \/ HandleAuth(x) \/ HandleWork(x)
                      \/ PullCanceled(x) \/ HandleSubmit(x) \/ HandleAck(x) \/ Lose(x)
                      \/ Timeout(x)
                      \/ InitAnswer(x) \/ AuthAnswer(x) \/ WorkAnswer(x)
                      \/ WorkFails(x) \/ SubmitAnswer(x)
                      \/ \E u \in queue : Pull(x, u)
  \/ \E c \in consuming : Consumed(c) \/ ConsumeFails(c)
  \/ \E u \in cur : RePush(u)
  \/ \E u \in upload : Submit(u) \/ SubmitCanceled(u)
  \/ \E p \in Parsers : Take(p) \/ Parse(p)
  \/ SendInit \/ Poll \/ PollCanceled
  \/ Restart \/ Return \/ Retry \/ Stop \/ Stopped

(* Requests arrive and are answered, goroutines that can run do, and a      *)
(* lease nobody holds is taken back.  Nothing obliges the client to give    *)
(* up, the master to be restarted, the worker to be stopped or a Consume    *)
(* to return.                                                               *)
Serve == \E x \in msgs : \/ HandleInit(x) \/ HandleAuth(x) \/ HandleWork(x)
                         \/ HandleSubmit(x) \/ HandleAck(x) \/ PullCanceled(x)
Main == \/ SendInit \/ Stopped \/ Retry \/ Return
        \/ \E x \in msgs : InitAnswer(x) \/ AuthAnswer(x)
GetWork == Poll \/ PollCanceled \/ \E x \in msgs : WorkAnswer(x) \/ WorkFails(x)
Upload == \/ \E x \in msgs : SubmitAnswer(x)
          \/ \E u \in upload : Submit(u) \/ SubmitCanceled(u)
Fairness ==
  /\ WF_vars(Serve)
  /\ WF_vars(\E x \in msgs, u \in queue : Pull(x, u))
  /\ WF_vars(\E u \in cur : ~Holds(u) /\ RePush(u))
  /\ WF_vars(Main) /\ WF_vars(GetWork) /\ WF_vars(Upload)
  /\ \A p \in Parsers : WF_vars(Take(p) \/ Parse(p))

Spec == Init /\ [][Next]_vars /\ Fairness
-----------------------------------------------------------------------------
(* The worker holds a session that the master no longer serves.             *)
Forgotten == wst = "run" /\ inc[me] = None

(* Timeouts of the long polls, which an idle master makes every 30 seconds, *)
(* do not put the two counts out of step: only a request that the client    *)
(* gave up before the master had counted it, or a restart, does.            *)
ForgottenOnlyIfLate == TypeOK /\ (Forgotten => late \/ restarts > 0)

(* What a worker believes uploaded has been acknowledged, even when the     *)
(* master has stopped giving it work, unless the master has restarted:      *)
(* every failure of prepare is answered 200.  What has been acknowledged is *)
(* not handed out again under that UID, and its result is consumed, in a    *)
(* Consume, or lost by one: a mail is never lost in another way.            *)
UploadedIsAccounted ==
  /\ restarts = 0 => uploaded \subseteq acked
  /\ acked \cap (queue \cup cur) = {}
  /\ acked \subseteq {c[1] : c \in consuming} \cup results \cup lost
                    \cup {u \in acked : mail(u) \in unparseable}
  /\ \A m \in Mails : \E u \in queue \cup cur \cup acked : mail(u) = m

(* A worker the master has forgotten notices it, and ends.                  *)
ForgottenEnds == Forgotten ~> ~Forgotten

(* A worker that is told to stop does, whatever its goroutines are doing    *)
(* and whatever the master answers.                                         *)
WorkerStops == stop ~> wst = "down"

(* As long as the worker lives, every mail ends up acknowledged, its result *)
(* with the consumer: those sent into a dead connection come back.          *)
MailServed ==
  \A m \in Mails : (\E u \in queue \cup cur : mail(u) = m)
                    ~> (wst = "down" \/ \E u \in acked : mail(u) = m)
=============================================================================
