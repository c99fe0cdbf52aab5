----------------------------- MODULE Consumers -----------------------------
(***************************************************************************)
(* Where the results of the parser go (consumers/).  A call of Consume is a *)
(* goroutine: those of the parser are waited for when the parser stops,     *)
(* those of /worker/submit are waited for by nobody.  The file and Redis    *)
(* consumers deliver before they answer; HTTP's answers ok whatever the     *)
(* server said; RabbitMQ's waits for an answer of its publisher that names  *)
(* no message and says only that one was written; Kafka's and               *)
(* Elasticsearch's answer at once and deliver later.                        *)
(***************************************************************************)
EXTENDS FiniteSets

CONSTANTS Awaited,    \* results sent by the parser
          Unawaited   \* results sent by /worker/submit

Results == Awaited \cup Unawaited

VARIABLES
  kind,     \* the consumer NewConsumer has built
  call,     \* the call of Consume for each result
  pub,      \* publisher.Run of rabbit.go: "run", the result it publishes, "returned"
  flight,   \* what the Kafka producer or the bulk processor holds
  sent,     \* the results delivered, or written to RabbitMQ's connection
  refused,  \* those the server refused, which nobody is told
  failed,   \* those whose failure was returned or logged
  start,    \* Start of the consumer: "waits", "drains" (kafka.go), "returned"
  phase     \* "up", "stopping" (servers and parser), "done", "closed"

vars == <<kind, call, pub, flight, sent, refused, failed, start, phase>>

Sync  == {"file", "http", "redis"}
Async == {"kafka", "elasticsearch"}

TypeOK ==
  /\ kind \in Sync \cup Async \cup {"rabbit"}
  /\ call \in [Results -> {"new", "called", "emitted", "ok", "error", "panic"}]
  /\ pub \in Results \cup {"run", "returned"}
  /\ flight \subseteq Results /\ sent \subseteq Results
  /\ refused \subseteq Results /\ failed \subseteq Results
  /\ start \in {"waits", "drains", "returned"}
  /\ phase \in {"up", "stopping", "done", "closed"}

\* args.Consumer.GetType() chooses one.
NewConsumer == kind \in Sync \cup Async \cup {"rabbit"}

Init ==
  /\ NewConsumer
  /\ call = [r \in Results |-> "new"] /\ pub = "run"
  /\ flight = {} /\ sent = {} /\ refused = {} /\ failed = {} /\ start = "waits" /\ phase = "up"

(* A worker of the parser starts a call while it is not stopped; a handler   *)
(* of the master that has passed its ACK starts one at any time.             *)
Call(r) ==
  /\ call[r] = "new" /\ (r \in Awaited => phase = "up")
  /\ call' = [call EXCEPT ![r] = "called"]
  /\ UNCHANGED <<kind, pub, flight, sent, refused, failed, start, phase>>

Answer(r, a) == call' = [call EXCEPT ![r] = a]

\* The stop closes the file, a Writer being an io.Closer, and the Redis client
\* after its consumer.
Open == kind = "http" \/ phase # "closed"

\* file.go, http.go, redis.go: one write, or one request.
Deliver(r) ==
  /\ kind \in Sync /\ call[r] = "called"
  /\ \/ Open /\ sent' = sent \cup {r} /\ Answer(r, "ok") /\ UNCHANGED <<refused, failed>>
     \* any answer of the HTTP server is one
     \/ kind = "http"
        /\ refused' = refused \cup {r} /\ Answer(r, "ok") /\ UNCHANGED <<sent, failed>>
     \* the answer is lost
     \/ kind # "file" /\ Open
        /\ sent' = sent \cup {r} /\ failed' = failed \cup {r}
        /\ Answer(r, "error") /\ UNCHANGED refused
     \/ failed' = failed \cup {r} /\ Answer(r, "error") /\ UNCHANGED <<sent, refused>>
  /\ UNCHANGED <<kind, pub, flight, start, phase>>

\* Mutant: the publisher takes a result before it has answered for the last.
MutEmit(r) ==
  /\ kind = "rabbit" /\ call[r] = "called" /\ pub # "returned"
  /\ pub' = r /\ Answer(r, "emitted")
  /\ UNCHANGED <<kind, flight, sent, refused, failed, start, phase>>

\* rabbit.go: EmitAsync, then whichever answer comes first.
Emit(r) ==
  /\ kind = "rabbit" /\ call[r] = "called" /\ pub = "run"
  /\ pub' = r /\ Answer(r, "emitted")
  /\ UNCHANGED <<kind, flight, sent, refused, failed, start, phase>>

Confirm(r) ==
  /\ kind = "rabbit" /\ pub \in Results /\ call[r] = "emitted"
  /\ \/ sent' = sent \cup {pub} /\ Answer(r, "ok") /\ UNCHANGED failed
     \/ failed' = failed \cup {pub} /\ Answer(r, "error") /\ UNCHANGED sent
  /\ pub' = "run" /\ UNCHANGED <<kind, flight, refused, start, phase>>

EmitPanics(r) ==
  /\ kind = "rabbit" /\ call[r] = "called" /\ phase = "closed"
  /\ Answer(r, "panic")
  /\ UNCHANGED <<kind, pub, flight, sent, refused, failed, start, phase>>

(* kafka.go, elasticsearch.go: the result is queued.  After AsyncClose the   *)
(* producer answers on its errors, or its input is closed; after Close there *)
(* is no processor.                                                          *)
Gone == (kind = "kafka" /\ start = "returned") \/ phase = "closed"

Add(r) ==
  /\ kind \in Async /\ call[r] = "called"
  /\ \/ ~Gone /\ start # "drains"
        /\ Answer(r, "ok") /\ flight' = flight \cup {r} /\ UNCHANGED failed
     \/ start = "drains"
        /\ Answer(r, "ok") /\ failed' = failed \cup {r} /\ UNCHANGED flight
     \/ Gone /\ Answer(r, "panic") /\ UNCHANGED <<flight, failed>>
  /\ UNCHANGED <<kind, pub, sent, refused, start, phase>>

(* kafka.go: the broker's answers; an error may be that of an answer lost.   *)
(* elasticsearch.go: the bulk request of every 5 seconds; what it refuses is *)
(* in items nobody reads, and what it could not take now, or the whole of a  *)
(* request that fails, stays for the next.                                   *)
Flush(S) ==
  /\ S \subseteq flight /\ S # {} /\ flight' = flight \ S
  /\ \/ sent' = sent \cup S /\ UNCHANGED <<refused, failed>>
     \/ kind = "kafka" /\ failed' = failed \cup S
        /\ sent' \in {sent, sent \cup S} /\ UNCHANGED refused
     \/ kind = "elasticsearch" /\ refused' = refused \cup S /\ UNCHANGED <<sent, failed>>
  /\ UNCHANGED <<kind, call, pub, start, phase>>

Stop ==
  /\ phase = "up" /\ phase' = "stopping"
  /\ UNCHANGED <<kind, call, pub, flight, sent, refused, failed, start>>

\* The parser returns once its goroutines have.
ParserStopped ==
  /\ phase = "stopping" /\ \A r \in Awaited : call[r] \notin {"called", "emitted"}
  /\ phase' = "done"
  /\ UNCHANGED <<kind, call, pub, flight, sent, refused, failed, start>>

\* kafka.go: AsyncClose, then until both channels of answers are closed.
AsyncClose ==
  /\ kind = "kafka" /\ phase = "done" /\ start = "waits" /\ start' = "drains"
  /\ UNCHANGED <<kind, call, pub, flight, sent, refused, failed, phase>>

Drained ==
  /\ kind = "kafka" /\ start = "drains" /\ flight = {} /\ start' = "returned"
  /\ UNCHANGED <<kind, call, pub, flight, sent, refused, failed, phase>>

\* Mutant: the publisher returns with a publication under way.
MutReturn ==
  /\ kind # "kafka" /\ phase = "done" /\ start = "waits"
  /\ start' = "returned" /\ pub' = IF kind = "rabbit" THEN "returned" ELSE pub
  /\ UNCHANGED <<kind, call, flight, sent, refused, failed, phase>>

Return ==
  /\ kind # "kafka" /\ phase = "done" /\ start = "waits"
  /\ kind = "rabbit" => pub = "run"
  /\ start' = "returned" /\ pub' = IF kind = "rabbit" THEN "returned" ELSE pub
  /\ UNCHANGED <<kind, call, flight, sent, refused, failed, phase>>

\* processor.Close commits what is left; the others only close what they have.
Close ==
  /\ phase = "done" /\ start = "returned" /\ phase' = "closed"
  /\ \E T \in SUBSET flight : \E U \in SUBSET (flight \ T) :
       /\ sent' = sent \cup T /\ refused' = refused \cup U
       /\ failed' = failed \cup (flight \ (T \cup U))
  /\ flight' = {}
  /\ UNCHANGED <<kind, call, pub, start>>

Consume(r) == Deliver(r) \/ Emit(r) \/ EmitPanics(r) \/ Confirm(r) \/ Add(r)

\* The steps of a stop, one after another.
Stops == ParserStopped \/ AsyncClose \/ Drained \/ Return \/ Close

Next ==
  \/ \E r \in Results : Call(r) \/ Consume(r)
  \/ \E S \in SUBSET flight : Flush(S)
  \/ Stop \/ Stops

(* The calls end: the servers answer or time out, and the broker comes back, *)
(* as does an Elasticsearch its processor waits for.                         *)
Fairness ==
  /\ \A r \in Results : WF_vars(Consume(r))
  /\ WF_vars(\E S \in SUBSET flight : Flush(S)) /\ WF_vars(Stops)

Spec == Init /\ [][Next]_vars /\ Fairness
-----------------------------------------------------------------------------
Told(a) == {r \in Results : call[r] = a}

(* No caller takes another's answer (rabbit.go:72-78 waits on channels all   *)
(* callers share): who is told ok has its own result delivered, or written   *)
(* to RabbitMQ's connection, or held for delivery or its failure in the log  *)
(* (kafka.go, elasticsearch.go), or refused by a server whose answer is not  *)
(* looked at (http.go:38, the items of a bulk request); who is told an error *)
(* has its own failure, and only an answer lost leaves it delivered.  Once   *)
(* the consumer is closed nothing is held any more.                          *)
OutcomeIsOwn ==
  /\ Told("ok") \subseteq
       sent \cup (IF kind \in Async THEN flight \cup failed ELSE {})
            \cup (IF kind \in {"http", "elasticsearch"} THEN refused ELSE {})
  /\ Told("error") \subseteq failed
  /\ kind \notin Async => Told("ok") \cap failed = {}
  /\ kind \in {"file", "rabbit"} => Told("error") \cap sent = {}
  /\ phase = "closed" => flight = {}

(* The order of the stops protects the calls of the parser: none of them     *)
(* meets a consumer that is closed.  A call of /worker/submit may.           *)
AwaitedNeverPanics == Told("panic") \cap Awaited = {}

(* The calls of Consume return, or panic, and the stop ends; the call that   *)
(* finds the RabbitMQ publisher returned waits for Close.                    *)
Settled == phase \in {"up", "closed"} /\ \A r \in Results : call[r] \notin {"called", "emitted"}
ConsumeReturns == ~Settled ~> Settled
=============================================================================
