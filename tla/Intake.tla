-------------------------------- MODULE Intake --------------------------------
(***************************************************************************)
(* How mails come in (services/milter.go, smtp.go, http.go): connections of *)
(* the servers, each an attempt of a client to hand over a mail, the calls  *)
(* of CollectAndForward their handlers make, and the start and stop of the  *)
(* servers by fx (utils/service.go).  A command runs the HTTP server and    *)
(* one of the two others (MilterAction, SMTPAction).  The protocols are libraries:   *)
(* milter sends its events one by one and ends the session after the answer *)
(* to a message; the SMTP library gives Send a whole mail; a request to     *)
(* /messages is one too.  The bytes of mail m are its header lines, the     *)
(* blank line that ends them and its body: <<m, "header">>, <<m, "blank">>, *)
(* <<m, "body">>, whatever order the header lines are in.                   *)
(***************************************************************************)
EXTENDS Naturals, Sequences, FiniteSets

CONSTANTS Conns, Mails, Rcpts,
          Uses,      \* the servers each connection may be of
          MaxAborts, \* bound: milter transactions given up
          MaxFails   \* bound: calls of Push that fail

Kinds == {"milter", "smtp", "http"}
Nothing == {}

VARIABLES
  server,    \* each server: "up", "closing" its connections, or "returned"
             \* from Start, as one of another command always is
  done,      \* the process is being stopped
  conn,      \* each connection: its server, its mail and where it is
  message,   \* what its handler has of a mail: MilterImpl.message, or Send's arguments
  aborted,   \* the mails given up on it
  forwarded, \* the connections whose mail the forwarder was given
  collected, \* what each connection pushed: conn -> message, or New
  accepted,  \* the mails whose client was told so
  lost,      \* the connections that ended before an answer was seen
  fails,
  held       \* who does not answer any more: "forwarder", "collector", or "nobody"

vars == <<server, done, conn, message, aborted, forwarded, collected,
          accepted, lost, fails, held>>

Free == [kind |-> "milter", mail |-> Nothing, at |-> "free"]
New  == [from |-> Nothing, to |-> {}, data |-> <<>>]

Whole(m) == << <<m, "header">>, <<m, "blank">>, <<m, "body">> >>

TypeOK ==
  /\ server \in [Kinds -> {"up", "closing", "returned"}] /\ done \in BOOLEAN
  /\ \A c \in Conns :
       /\ conn[c].kind \in Kinds /\ conn[c].mail \in Mails \cup {Nothing}
       /\ conn[c].at \in {"free", "open", "rcpt", "headers", "body", "forwarding",
                          "pushing", "pushed", "refused", "over"}
       /\ message[c].to \subseteq Mails \X Rcpts
       /\ message[c].data \in Seq(Mails \X {"header", "blank", "body"})
  /\ aborted \in [Conns -> SUBSET Mails]
  /\ forwarded \subseteq Conns /\ lost \subseteq Conns
  /\ accepted \subseteq Mails /\ fails \in 0..MaxFails
  /\ held \in {"forwarder", "collector", "nobody"}

\* A Prestart that cannot listen ends the process before a client connects;
\* http.go listens in Start, which just returns: the other goes on without it.
Runs(K)  == [k \in Kinds |-> IF k \in K THEN "up" ELSE "returned"]
Prestart == {Runs(K) : K \in {{"milter", "http"}, {"smtp", "http"}, {"milter"}, {"smtp"}}}

InitIn(d, up) ==
  /\ done = d /\ server \in up
  /\ conn = [c \in Conns |-> Free] /\ message = [c \in Conns |-> New]
  /\ aborted = [c \in Conns |-> {}] /\ forwarded = {}
  /\ collected = [c \in Conns |-> New] /\ accepted = {} /\ lost = {} /\ fails = 0
  /\ held = "nobody"

Init == InitIn(FALSE, Prestart)

At(c, a)   == conn[c].at = a
Goes(c, a) == conn' = [conn EXCEPT ![c].at = a]
lifecycle  == <<server, done, held>>
Handling   == {"forwarding", "pushing", "pushed", "refused"}
results    == <<forwarded, collected, accepted, lost>>

(*------------------------------ lifecycle --------------------------------*)
Stop ==
  /\ ~done /\ done' = TRUE
  /\ UNCHANGED <<server, held, conn, message, aborted, results, fails>>

\* OnStop cancels the context of one service, the last to start first, and
\* waits for its Start; a goroutine of Start then closes the listener.
CloseListener(k) ==
  /\ done /\ server[k] = "up" /\ server' = [server EXCEPT ![k] = "closing"]
  /\ k = "http" => \A other \in Kinds \ {k} : server[other] = "returned"
  /\ UNCHANGED <<done, held, conn, message, aborted, results, fails>>

\* Mutant: the server waits for its handlers, as Shutdown does.
MutStartReturns(k) ==
  /\ server[k] = "closing" /\ server' = [server EXCEPT ![k] = "returned"]
  /\ \A c \in Conns : conn[c].kind = k => conn[c].at \notin Handling
  /\ UNCHANGED <<done, held, conn, message, aborted, results, fails>>

\* Accept fails, and Start returns; nobody waits for the handlers.  Close of
\* the SMTP and HTTP libraries closes the connections too, but for those the
\* SMTP library has accepted and not yet registered.
StartReturns(k) ==
  /\ server[k] = "closing" /\ server' = [server EXCEPT ![k] = "returned"]
  /\ \E late \in SUBSET {c \in Conns : k = "smtp" /\ At(c, "open")} :
       lost' = IF k = "milter" THEN lost
               ELSE lost \cup {c \in Conns \ late :
                                 conn[c].kind = k /\ conn[c].at \in {"open"} \cup Handling}
  /\ UNCHANGED <<done, held, conn, message, aborted, forwarded, collected, accepted, fails>>

\* The channel of the forwarder is full and its server silent; the channel of
\* the collector is full, or nobody reads the errors of its publisher: the
\* other modules say when.  One that answers late is one that answers.
Holds(h) ==
  /\ held = "nobody" /\ held' = h
  /\ \E c \in Conns : conn[c].at \in {"forwarding", "pushing"}
  /\ UNCHANGED <<server, done, conn, message, aborted, results, fails>>

(*-------------------------------- clients --------------------------------*)
\* A client whose mail was not accepted tries again, once it knows.
Accept(c, k, m) ==
  /\ server[k] = "up" /\ k \in Uses[c] /\ At(c, "free") /\ m \notin accepted
  /\ \A d \in Conns : conn[d].mail = m => At(d, "over") \/ d \in lost
  /\ conn' = [conn EXCEPT ![c] = [kind |-> k, mail |-> m, at |-> "open"]]
  /\ message' = [message EXCEPT ![c] = New]     \* NewMilterImpl, Connect
  /\ UNCHANGED <<lifecycle, aborted, results, fails>>

\* A handler that has the whole mail goes on without its client.
Leaves(c) ==
  /\ conn[c].at \notin {"free", "over"} /\ c \notin lost /\ lost' = lost \cup {c}
  /\ Goes(c, IF conn[c].at \in Handling THEN conn[c].at ELSE "over")
  /\ UNCHANGED <<lifecycle, message, aborted, forwarded, collected, accepted, fails>>

(*------------------------------- handlers --------------------------------*)
milterRest == <<lifecycle, aborted, results, fails>>
Milter(c, a) == conn[c].kind = "milter" /\ At(c, a) /\ c \notin lost

\* Mutant: the sender is kept when there is one already.
MutMailFrom(c) ==
  /\ Milter(c, "open") /\ Goes(c, "rcpt")
  /\ message' = IF message[c].from = Nothing
                THEN [message EXCEPT ![c].from = conn[c].mail] ELSE message
  /\ UNCHANGED milterRest

MailFrom(c) ==
  /\ Milter(c, "open") /\ Goes(c, "rcpt")
  /\ message' = [message EXCEPT ![c].from = conn[c].mail]
  /\ UNCHANGED milterRest

RcptTo(c, r) ==
  /\ Milter(c, "rcpt") /\ message' = [message EXCEPT ![c].to = @ \cup {<<conn[c].mail, r>>}]
  /\ UNCHANGED <<conn, milterRest>>

\* The header lines in the order of a map, and no blank line after them.
Headers(c) ==
  /\ Milter(c, "rcpt") /\ Goes(c, "headers")
  /\ \A r \in Rcpts : <<conn[c].mail, r>> \in message[c].to
  /\ message' = [message EXCEPT ![c].data = Append(@, <<conn[c].mail, "header">>)]
  /\ UNCHANGED milterRest

BodyChunk(c) ==
  /\ Milter(c, "headers") /\ Goes(c, "body")
  /\ message' = [message EXCEPT ![c].data = Append(@, <<conn[c].mail, "body">>)]
  /\ UNCHANGED milterRest

\* The library forgets the headers it has, and does not tell MilterImpl.
Abort(c, m) ==
  /\ conn[c].at \in {"rcpt", "headers", "body"} /\ Milter(c, conn[c].at)
  /\ Cardinality(UNION {aborted[d] : d \in Conns}) < MaxAborts
  /\ m \notin accepted \cup {conn[c].mail} /\ \A d \in Conns : conn[d].mail # m
  /\ aborted' = [aborted EXCEPT ![c] = @ \cup {conn[c].mail}]
  /\ conn' = [conn EXCEPT ![c] = [@ EXCEPT !.mail = m, !.at = "open"]]
  /\ UNCHANGED <<lifecycle, message, results, fails>>

\* MilterImpl.Body, User.Send, the handlers of /messages have a whole mail:
\* CollectAndForward gives it to the forwarder, then to the collector.
CollectAndForward(c) ==
  /\ Milter(c, "body") \/ (conn[c].kind # "milter" /\ At(c, "open") /\ c \notin lost)
  /\ Goes(c, "forwarding")
  /\ message' = IF conn[c].kind = "milter" THEN message
                ELSE [message EXCEPT ![c] = [from |-> conn[c].mail, to |-> {conn[c].mail} \X Rcpts,
                                             data |-> Whole(conn[c].mail)]]
  /\ UNCHANGED <<lifecycle, aborted, results, fails>>

Forward(c) ==
  /\ At(c, "forwarding") /\ held # "forwarder" /\ Goes(c, "pushing")
  /\ forwarded' = forwarded \cup {c}
  /\ UNCHANGED <<lifecycle, message, aborted, collected, accepted, lost, fails>>

Pushed(c) ==
  /\ At(c, "pushing") /\ held # "collector"
  /\ collected' = [collected EXCEPT ![c] = message[c]]
  /\ Goes(c, "pushed") /\ UNCHANGED <<lifecycle, message, aborted, forwarded, accepted, lost, fails>>

\* An error of the collector.
PushFails(c) ==
  /\ At(c, "pushing") /\ held # "collector" /\ Goes(c, "refused")
  /\ fails < MaxFails /\ fails' = fails + 1
  /\ UNCHANGED <<lifecycle, message, aborted, results>>

\* A request has its context; the other two pass one that is never done.
PushCanceled(c) ==
  /\ At(c, "pushing") /\ conn[c].kind = "http" /\ c \in lost /\ Goes(c, "refused")
  /\ UNCHANGED <<lifecycle, message, aborted, results, fails>>

\* RespAccept, 250 or 200; 554 or 500; or nobody reads it.  At an error of Body
\* the milter library closes the connection without an answer.
Answer(c) ==
  /\ conn[c].at \in {"pushed", "refused"} \/ (At(c, "open") /\ c \in lost)
  /\ Goes(c, "over")
  /\ accepted' = IF At(c, "pushed") /\ c \notin lost THEN accepted \cup {conn[c].mail} ELSE accepted
  /\ lost' = IF At(c, "refused") /\ conn[c].kind = "milter" THEN lost \cup {c} ELSE lost
  /\ UNCHANGED <<lifecycle, message, aborted, forwarded, collected, fails>>

Next ==
  \/ \E k \in Kinds : CloseListener(k) \/ StartReturns(k)
  \/ Stop
  \/ \E h \in {"forwarder", "collector"} : Holds(h)
  \/ \E c \in Conns :
       \/ \E k \in Kinds, m \in Mails : Accept(c, k, m)
       \/ Leaves(c) \/ MailFrom(c) \/ Headers(c) \/ BodyChunk(c)
       \/ \E r \in Rcpts : RcptTo(c, r)
       \/ \E m \in Mails : Abort(c, m)
       \/ CollectAndForward(c) \/ Forward(c)
       \/ Pushed(c) \/ PushFails(c) \/ PushCanceled(c) \/ Answer(c)

(* The services and the handlers run.  Nothing obliges a client to go on, or *)
(* the forwarder and the collector to answer.                                *)
Fairness ==
  /\ \A k \in Kinds : WF_vars(CloseListener(k)) /\ WF_vars(StartReturns(k))
  /\ \A c \in Conns : /\ WF_vars(Forward(c)) /\ WF_vars(Pushed(c))
                      /\ WF_vars(PushCanceled(c)) /\ WF_vars(Answer(c))

Spec == Init /\ [][Next]_vars /\ Fairness

-----------------------------------------------------------------------------
Has(c) == collected[c] # New

\* What is collected is of the mail of its connection.  SMTP and HTTP hand over
\* its bytes.  Over milter they are all there but the blank line, so that Parse
\* finds no body (mail.ReadMessage takes its lines for header lines, or fails);
\* before them, and among the recipients, may be what is left of a transaction
\* aborted on the same connection, but never its sender.
MessageIsOwn == \A c \in Conns : Has(c) =>
  LET m == collected[c]
      mail == conn[c].mail
      n == Len(m.data)
  IN /\ m.from = mail
     /\ {mail} \X Rcpts \subseteq m.to
     /\ \A p \in m.to : p[1] \in {mail} \cup aborted[c]
     /\ conn[c].kind # "milter" => m.data = Whole(mail) /\ m.to = {mail} \X Rcpts
     /\ conn[c].kind = "milter" =>
          /\ n >= 2 /\ m.data[n - 1] = <<mail, "header">> /\ m.data[n] = <<mail, "body">>
          /\ \A i \in 1 .. n - 2 : m.data[i][1] \in aborted[c]
          /\ \A i \in 1 .. n : m.data[i][2] # "blank"

\* An accepted mail was collected, and what is collected was forwarded; a mail
\* is collected again only when its client did not see an answer.
AnswerIsTrue == \A m \in Mails :
  LET copies == {c \in Conns : conn[c].mail = m /\ Has(c)} IN
    /\ m \in accepted => copies # {}
    /\ Cardinality(copies) <= 1 + Cardinality(copies \cap lost)
    /\ copies \subseteq forwarded

\* Forward takes no context; Push has that of a request, which ends with its
\* client, and from the two other servers one that never ends.
Blocked(c) ==
  \/ held = "forwarder" /\ At(c, "forwarding")
  \/ held = "collector" /\ At(c, "pushing") /\ ~(conn[c].kind = "http" /\ c \in lost)

\* The servers stop, one after the other, though handlers may be blocked for
\* ever by a forwarder or a collector that does not answer; the others end.
Busy ==
  \/ done /\ \E k \in Kinds : server[k] # "returned"
  \/ \E c \in Conns : conn[c].at \in Handling /\ ~Blocked(c)
IntakeEnds == Busy ~> ~Busy
=============================================================================
