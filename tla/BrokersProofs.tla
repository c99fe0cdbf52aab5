---------------------------- MODULE BrokersProofs ----------------------------
(***************************************************************************)
(* Theorems about the consumers and the collectors kept in RabbitMQ and in  *)
(* Redis.  Each has an invariant of its own, which the steps of the others  *)
(* leave alone; it holds in a component that is up from the start and in    *)
(* one that is closed.                                                      *)
(***************************************************************************)
EXTENDS MCBrokers, FiniteSetTheorems, TLAPS

-----------------------------------------------------------------------------
(* consumers/.  What is held for delivery was answered ok, an error is the   *)
(* answer of a failure, where no answer can be lost nothing is delivered but *)
(* what was answered ok, and the publisher has the one result whose caller   *)
(* waits for its answer.                                                     *)
ToldInv ==
  /\ flight # {} => kind \in Consumer!Async
  /\ Consumer!Told("error") \subseteq failed
  /\ kind \notin Consumer!Async => failed \subseteq Consumer!Told("error")
  /\ kind \in {"file", "rabbit"} => sent \subseteq Consumer!Told("ok")
  /\ Consumer!Told("ok") \subseteq
       sent \cup (IF kind \in Consumer!Async THEN flight \cup failed ELSE {})
            \cup (IF kind \in {"http", "elasticsearch"} THEN refused ELSE {})

PubInv == \A r \in Consumer!Results :
  /\ call[r] = "emitted" => pub = r
  /\ pub = r => kind = "rabbit" /\ call[r] = "emitted"

\* The parser stops before its consumer, and the consumer before its client.
StopInv ==
  /\ phase \in {"done", "closed"} =>
       \A r \in Awaited : call[r] \notin {"called", "emitted"}
  /\ start # "waits" => phase \in {"done", "closed"}
  /\ phase = "closed" => flight = {} /\ start = "returned"
  /\ kind = "kafka" /\ start = "returned" => flight = {}
  /\ \A r \in Awaited : call[r] # "panic"

ConsumerInv == Consumer!TypeOK /\ ToldInv /\ PubInv /\ StopInv

\* Both starts of the consumers satisfy the invariant.
LEMMA ConsumerInit == (Consumer!Init \/ ConsumerClosed) => ConsumerInv
<1>1. ASSUME Consumer!Init PROVE ConsumerInv
  BY <1>1, ResultAssumption DEF Consumer!Init, Consumer!NewConsumer, ConsumerInv,
    Consumer!TypeOK, ToldInv, PubInv, StopInv, Consumer!Told, Consumer!Results,
    Consumer!Sync, Consumer!Async
<1>2. ASSUME ConsumerClosed PROVE ConsumerInv
  BY <1>2, ResultAssumption DEF ConsumerClosed, ConsumerInv, Consumer!TypeOK, ToldInv, PubInv,
    StopInv, Consumer!Told, Consumer!Results, Consumer!Sync, Consumer!Async
<1> QED BY <1>1, <1>2

\* A call of Consume and its answer keep the invariant.
LEMMA ConsumerCalls ==
  ASSUME ConsumerInv, NEW r \in Consumer!Results, Consumer!Call(r) \/ Consumer!Consume(r)
  PROVE  ConsumerInv'
<1> USE DEF ConsumerInv, Consumer!TypeOK, ToldInv, PubInv, StopInv, Consumer!Told,
            Consumer!Results, Consumer!Sync, Consumer!Async, Consumer!Answer
<1>1. CASE Consumer!Call(r) BY <1>1 DEF Consumer!Call
<1>2. CASE Consumer!Deliver(r) BY <1>2 DEF Consumer!Deliver, Consumer!Open
<1>3. CASE Consumer!Emit(r) BY <1>3, ResultAssumption DEF Consumer!Emit
<1>4. CASE Consumer!EmitPanics(r) BY <1>4 DEF Consumer!EmitPanics
<1>5. CASE Consumer!Confirm(r) BY <1>5, ResultAssumption DEF Consumer!Confirm
<1>6. CASE Consumer!Add(r) BY <1>6 DEF Consumer!Add, Consumer!Gone
<1> QED BY <1>1, <1>2, <1>3, <1>4, <1>5, <1>6 DEF Consumer!Consume

\* A delivery and each step of the stop keep it.
LEMMA ConsumerStops ==
  ASSUME ConsumerInv,
         \/ \E S \in SUBSET flight : Consumer!Flush(S)
         \/ Consumer!Stop \/ Consumer!ParserStopped \/ Consumer!AsyncClose
         \/ Consumer!Drained \/ Consumer!Return \/ Consumer!Close
  PROVE  ConsumerInv'
<1> USE DEF ConsumerInv, Consumer!TypeOK, ToldInv, PubInv, StopInv, Consumer!Told,
            Consumer!Results, Consumer!Sync, Consumer!Async
<1>1. CASE \E S \in SUBSET flight : Consumer!Flush(S) BY <1>1 DEF Consumer!Flush
<1>2. CASE Consumer!Stop BY <1>2 DEF Consumer!Stop
<1>3. CASE Consumer!ParserStopped BY <1>3 DEF Consumer!ParserStopped
<1>4. CASE Consumer!AsyncClose BY <1>4 DEF Consumer!AsyncClose
<1>5. CASE Consumer!Drained BY <1>5 DEF Consumer!Drained
<1>6. CASE Consumer!Return BY <1>6, ResultAssumption DEF Consumer!Return
<1>7. CASE Consumer!Close
  <2>1. /\ phase = "done" /\ start = "returned" /\ phase' = "closed" /\ flight' = {}
        /\ UNCHANGED <<kind, call, pub, start>>
    BY <1>7 DEF Consumer!Close
  <2>2. PICK T, U \in SUBSET flight :
          /\ sent' = sent \cup T /\ refused' = refused \cup U
          /\ failed' = failed \cup (flight \ (T \cup U))
    BY <1>7 DEF Consumer!Close
  <2>3. Consumer!TypeOK' BY <2>1, <2>2
  <2>4. CASE kind = "elasticsearch" BY <2>1, <2>2, <2>3, <2>4
  <2>5. CASE kind # "elasticsearch"
    <3>1. flight = {} BY <2>1, <2>5
    <3>2. UNCHANGED <<sent, refused, failed, flight>> BY <2>1, <2>2, <3>1
    <3> QED BY <2>1, <2>3, <3>2
  <2> QED BY <2>4, <2>5
<1> QED BY <1>1, <1>2, <1>3, <1>4, <1>5, <1>6, <1>7

(* Who is told of an outcome is told of its own, and no call of the parser   *)
(* meets a closed consumer, however many results, calls and stops there are. *)
THEOREM OutcomesAreOwn == Spec => []OutcomeIsOwn
<1>1. Init => ConsumerInv BY ConsumerInit DEF Init
<1>2. ConsumerInv /\ [Next]_vars => ConsumerInv'
  <2>1. ASSUME ConsumerInv, UNCHANGED consumer PROVE ConsumerInv'
    BY <2>1 DEF consumer, ConsumerInv, Consumer!TypeOK, ToldInv, PubInv, StopInv, Consumer!Told
  <2>2. ASSUME ConsumerInv, Consumer!Next PROVE ConsumerInv'
    BY <2>2, ConsumerCalls, ConsumerStops DEF Consumer!Next, Consumer!Stops
  <2> QED BY <2>1, <2>2 DEF Next, vars
<1>3. ConsumerInv => OutcomeIsOwn
  BY DEF ConsumerInv, OutcomeIsOwn, Consumer!OutcomeIsOwn, Consumer!AwaitedNeverPanics,
         ToldInv, StopInv, Consumer!Told
<1> QED BY <1>1, <1>2, <1>3, PTL DEF Spec

-----------------------------------------------------------------------------
(* collectors/rabbit.go.  The mails on the way, those of a worker, and those *)
(* the publisher has taken.                                                  *)
Published == Mails \cup Foreign
Hosts     == Local \cup Remote

\* What ACK names is a delivery of the mail its worker has parsed.
HoldInv ==
  /\ \A m \in Published : uidToTag[m] # None => uidToTag[m].mail = m
  /\ \A w \in Hosts :
       /\ wpcB[w] \in {"work", "ack"} => hold[w] \in Published
       /\ wpcB[w] = "ack" => hold[w] \in parsedB

KeptInv == IsFiniteSet(unacked) /\ Rabbit!KeptUntilParsed

\* Push has answered for these; these the publisher has written; and these it
\* neither has nor has written.
Accepted == {m \in Published : src[m] = "accepted"}
Written  == queued \cup Rabbit!ToSet(wire) \cup dropped
Missing  == Accepted \ (Written \cup {pmail})

\* What another program has published is with the broker already.
NotNew == {m \in Published : src[m] \in {"accepted", "undecodable", "unnamed"}}

PublisherInv ==
  /\ Written \subseteq NotNew
  /\ pubB = "produce" => pmail # None
  /\ pmail # None => pubB \in {"produce", "died"} /\ pmail \in Accepted \ Written
  /\ IsFiniteSet(Missing) /\ Cardinality(Missing) = errs

RabbitInv == Rabbit!TypeOK /\ HoldInv /\ KeptInv /\ PublisherInv

\* How many elements a set has, for the component as for the theorems cited.
LEMMA RabbitCardinality == \A S : Rabbit!Cardinality(S) = Cardinality(S)
BY DEF Rabbit!Cardinality, Cardinality

\* The elements of a sequence that is extended, shortened or preceded.
LEMMA RabbitElements ==
  ASSUME NEW T, NEW s \in Seq(T)
  PROVE  /\ \A x \in T : Rabbit!ToSet(Append(s, x)) = Rabbit!ToSet(s) \cup {x}
         /\ s # <<>> => Rabbit!ToSet(s) = {Head(s)} \cup Rabbit!ToSet(Tail(s))
         /\ \A r \in Seq(T) : Rabbit!ToSet(s \o r) = Rabbit!ToSet(s) \cup Rabbit!ToSet(r)
<1> DEFINE E(q) == {q[i] : i \in 1..Len(q)}
<1>0. \A q \in Seq(T) : Rabbit!ToSet(q) = E(q) BY DEF Rabbit!ToSet
<1>1. ASSUME NEW x \in T PROVE E(Append(s, x)) = E(s) \cup {x}
  <2>1. \A i \in 1..Len(s) : Append(s, x)[i] = s[i] OBVIOUS
  <2>2. Append(s, x)[Len(s) + 1] = x /\ Len(Append(s, x)) = Len(s) + 1 OBVIOUS
  <2> QED BY <2>1, <2>2
<1>2. ASSUME s # <<>> PROVE E(s) = {Head(s)} \cup E(Tail(s))
  <2>1. Len(s) \in Nat \ {0} /\ Len(Tail(s)) = Len(s) - 1 /\ Head(s) = s[1] BY <1>2
  <2>2. \A i \in 1..Len(s)-1 : Tail(s)[i] = s[i+1] BY <1>2
  <2>3. ASSUME NEW i \in 1..Len(s), i # 1 PROVE s[i] = Tail(s)[i-1] /\ i-1 \in 1..Len(Tail(s))
    BY <2>1, <2>2, <2>3
  <2>4. ASSUME NEW i \in 1..Len(Tail(s)) PROVE i+1 \in 1..Len(s) /\ Tail(s)[i] = s[i+1]
    BY <2>1, <2>2
  <2>5. 1 \in 1..Len(s) BY <2>1
  <2>6. \A i \in 1..Len(s) : s[i] \in {Head(s)} \cup E(Tail(s)) BY <2>1, <2>3
  <2>7. Head(s) \in E(s) /\ \A i \in 1..Len(Tail(s)) : Tail(s)[i] \in E(s) BY <2>1, <2>4, <2>5
  <2> QED BY <2>6, <2>7
<1>3. ASSUME NEW r \in Seq(T) PROVE E(s \o r) = E(s) \cup E(r)
  <2>1. Len(s \o r) = Len(s) + Len(r) /\ Len(s) \in Nat /\ Len(r) \in Nat OBVIOUS
  <2>2. \A i \in 1..Len(s) : (s \o r)[i] = s[i] /\ i \in 1..Len(s \o r) BY <2>1
  <2>3. \A i \in 1..Len(r) : (s \o r)[Len(s) + i] = r[i] /\ Len(s) + i \in 1..Len(s \o r) BY <2>1
  <2>4. ASSUME NEW i \in 1..Len(s \o r), i \notin 1..Len(s)
        PROVE  i - Len(s) \in 1..Len(r) /\ (s \o r)[i] = r[i - Len(s)]
    BY <2>1, <2>4
  <2>5. \A i \in 1..Len(s \o r) : (s \o r)[i] \in E(s) \cup E(r) BY <2>2, <2>4
  <2>6. /\ \A i \in 1..Len(s) : s[i] \in E(s \o r)
        /\ \A i \in 1..Len(r) : r[i] \in E(s \o r)
    BY <2>2, <2>3
  <2> QED BY <2>5, <2>6
<1>4. s # <<>> => Tail(s) \in Seq(T) OBVIOUS
<1>5. \A x \in T : Append(s, x) \in Seq(T) OBVIOUS
<1>6. \A r \in Seq(T) : s \o r \in Seq(T) OBVIOUS
<1> HIDE DEF E
<1>7. s # <<>> => Rabbit!ToSet(s) = {Head(s)} \cup Rabbit!ToSet(Tail(s)) BY <1>0, <1>2, <1>4
<1>8. \A x \in T : Rabbit!ToSet(Append(s, x)) = Rabbit!ToSet(s) \cup {x} BY <1>0, <1>1, <1>5
<1>9. \A r \in Seq(T) : Rabbit!ToSet(s \o r) = Rabbit!ToSet(s) \cup Rabbit!ToSet(r)
  BY <1>0, <1>3, <1>6
<1> QED BY <1>7, <1>8, <1>9

\* What SetToSeq lists are the elements of the set, each and no other.
LEMMA RabbitListed ==
  ASSUME NEW S, IsFiniteSet(S)
  PROVE  Rabbit!SetToSeq(S) \in Seq(S) /\ Rabbit!ToSet(Rabbit!SetToSeq(S)) = S
<1> DEFINE n == Cardinality(S)
           s == Rabbit!SetToSeq(S)
<1>1. n \in Nat /\ \E g \in [1..n -> S] : Rabbit!IsInjective(g)
  BY FS_CardinalityType DEF ExistsBijection, Bijection, Injection, IsInjective, Rabbit!IsInjective
<1>2. s = CHOOSE g \in [1..n -> S] : Rabbit!IsInjective(g)
  BY RabbitCardinality DEF Rabbit!SetToSeq
<1> HIDE DEF n, s
<1>3. s \in [1..n -> S] /\ Rabbit!IsInjective(s) BY <1>1, <1>2
<1>4. s \in Seq(S) /\ DOMAIN s = 1..n BY <1>1, <1>3
<1>5. IsFiniteSet(1..n) /\ Cardinality(1..n) = n BY <1>1, FS_Interval
<1>6. s \in Injection(1..n, S) BY <1>3 DEF Injection, IsInjective, Rabbit!IsInjective
<1>7. n = Cardinality(S) BY DEF n
<1>8. s \in Surjection(1..n, S) BY <1>5, <1>6, <1>7, FS_Injection
<1>9. Rabbit!ToSet(s) = S BY <1>4, <1>8 DEF Surjection, Rabbit!ToSet
<1> QED BY <1>4, <1>9 DEF s

\* What a lost connection leaves is queued again, before what waits.
LEMMA RequeuedMails ==
  ASSUME Rabbit!TypeOK, IsFiniteSet(unacked)
  PROVE  /\ Rabbit!Requeued \in Seq(Published)
         /\ Rabbit!ToSet(Rabbit!Requeued) = {d.mail : d \in unacked} \cup Rabbit!ToSet(ready)
<1> DEFINE S == {d.mail : d \in unacked}
           f == [d \in unacked |-> d.mail]
<1>1. S \subseteq Published /\ ready \in Seq(Published)
  BY DEF Rabbit!TypeOK, Rabbit!Delivery, Published
<1>2. f \in Surjection(unacked, S) BY DEF Surjection
<1>3. IsFiniteSet(S) BY <1>2, FS_Surjection
<1>4. Rabbit!Requeued = Rabbit!SetToSeq(S) \o ready BY DEF Rabbit!Requeued
<1> HIDE DEF S
<1>5. Rabbit!SetToSeq(S) \in Seq(Published) /\ Rabbit!ToSet(Rabbit!SetToSeq(S)) = S
  BY <1>1, <1>3, RabbitListed
<1>6. Rabbit!SetToSeq(S) \o ready \in Seq(Published) BY <1>1, <1>5
<1>7. Rabbit!ToSet(Rabbit!Requeued) = S \cup Rabbit!ToSet(ready)
  BY <1>1, <1>4, <1>5, RabbitElements
<1> QED BY <1>4, <1>6, <1>7 DEF S

\* Both starts of the collector satisfy the invariant.
LEMMA RabbitStarts == (Rabbit!Init \/ Rabbit!InitIn("closed")) => RabbitInv
<1> SUFFICES ASSUME NEW p \in {"up", "closed"}, Rabbit!InitIn(p) PROVE RabbitInv
  BY DEF Rabbit!Init
<1> USE DEF Rabbit!InitIn, Published, Hosts, Rabbit!Workers
<1>1. Rabbit!TypeOK BY DEF Rabbit!TypeOK, Rabbit!Delivery
<1>2. HoldInv BY DEF HoldInv, Hosts
<1>3. KeptInv BY FS_EmptySet DEF KeptInv, Rabbit!KeptUntilParsed
<1>4. Missing = {} /\ Written = {}
  <2>1. Rabbit!ToSet(<<>>) = {} BY DEF Rabbit!ToSet
  <2> QED BY <2>1 DEF Missing, Accepted, Written
<1>5. PublisherInv BY <1>4, FS_EmptySet DEF PublisherInv
<1> QED BY <1>1, <1>2, <1>3, <1>5 DEF RabbitInv

\* Every step keeps the types.
LEMMA RabbitTypes ==
  ASSUME RabbitInv, Rabbit!Next
  PROVE  Rabbit!TypeOK'
<1> USE DEF RabbitInv, Rabbit!TypeOK, Rabbit!wireVars, Rabbit!Workers
<1>0. /\ \A x \in Mails \cup Foreign : Append(ready, x) \in Seq(Mails \cup Foreign)
      /\ \A x \in Mails \cup Foreign : Append(wire, x) \in Seq(Mails \cup Foreign)
  OBVIOUS
<1>1. ASSUME NEW m \in Published, Rabbit!Publish(m) \/ Rabbit!Push(m) \/ Rabbit!Emit(m)
      PROVE  Rabbit!TypeOK'
  BY <1>0, <1>1 DEF Published, Rabbit!Publish, Rabbit!Push, Rabbit!Emit, Rabbit!pubVars,
    Rabbit!brokerVars, Rabbit!workVars
<1>2. CASE Rabbit!EmitOk \/ Rabbit!EmitErr
  <2>1. pubB = "produce" => pmail \in Published BY DEF PublisherInv, Accepted
  <2>2. CASE Rabbit!EmitOk
    BY <1>0, <2>1, <2>2 DEF Published, Rabbit!EmitOk, Rabbit!brokerVars, Rabbit!workVars
  <2>3. CASE Rabbit!EmitErr
    <3>1. errs + 1 \in Nat OBVIOUS
    <3> QED BY <2>3, <3>1 DEF Rabbit!EmitErr, Rabbit!brokerVars, Rabbit!workVars
  <2> QED BY <1>2, <2>2, <2>3
<1>3. CASE Rabbit!Route
  <2>1. Head(wire) \in Mails \cup Foreign /\ Tail(wire) \in Seq(Mails \cup Foreign)
    BY <1>3 DEF Rabbit!Route
  <2> QED BY <1>0, <1>3, <2>1 DEF Rabbit!Route, Rabbit!workVars
<1>4. CASE Rabbit!Drop \/ Rabbit!Notified \/ Rabbit!Reconnected
  <2>1. Rabbit!ToSet(wire) \subseteq Mails \cup Foreign BY DEF Rabbit!ToSet
  <2>2. losses + 1 \in Nat /\ <<>> \in Seq(Mails \cup Foreign) OBVIOUS
  <2> HIDE DEF Rabbit!ToSet
  <2>3. CASE Rabbit!Drop
    <3>1. /\ plinked' = FALSE /\ losses' = losses + 1 /\ wire' = <<>>
          /\ dropped' = dropped \cup Rabbit!ToSet(wire)
          /\ UNCHANGED <<src, pubB, pmail, errs, ready, conn, tag, linked, unacked, incoming,
                         uidToTag, hold, wpcB, parsedB, queued, swept, phaseB>>
      BY <2>3 DEF Rabbit!Drop, Rabbit!brokerVars, Rabbit!workVars
    <3> QED BY <2>1, <2>2, <3>1
  <2>4. CASE Rabbit!Notified
    BY <2>4 DEF Rabbit!Notified, Rabbit!brokerVars, Rabbit!workVars
  <2>5. CASE Rabbit!Reconnected
    BY <2>5 DEF Rabbit!Reconnected, Rabbit!brokerVars, Rabbit!workVars
  <2> QED BY <1>4, <2>3, <2>4, <2>5
<1>5. CASE Rabbit!Deliver
  <2> DEFINE d == [mail |-> Head(ready), conn |-> conn, tag |-> tag + 1]
  <2>1. Head(ready) \in Mails \cup Foreign /\ Tail(ready) \in Seq(Mails \cup Foreign)
    BY <1>5 DEF Rabbit!Deliver
  <2>2. d \in Rabbit!Delivery BY <2>1 DEF Rabbit!Delivery
  <2>3. Append(incoming, d) \in Seq(Rabbit!Delivery) BY <2>2
  <2> QED BY <1>5, <2>1, <2>2, <2>3 DEF Rabbit!Deliver, Rabbit!pubVars, Rabbit!workVars
<1>6. Rabbit!Requeued \in Seq(Mails \cup Foreign)
  BY RequeuedMails DEF KeptInv, Published
<1>7. CASE Rabbit!Lose \/ Rabbit!Close
  BY <1>6, <1>7 DEF Rabbit!Lose, Rabbit!Close, Rabbit!pubVars, Rabbit!brokerVars,
        Rabbit!workVars
<1>8. CASE Rabbit!Reconnect BY <1>8 DEF Rabbit!Reconnect, Rabbit!pubVars, Rabbit!workVars
<1>9. ASSUME NEW w \in Hosts, Rabbit!Pulls(w) PROVE Rabbit!TypeOK'
  <2>1. Rabbit!Receive(w) BY <1>9 DEF Rabbit!Pulls, Rabbit!Pull, Rabbit!PullUndecodable,
          Rabbit!PullRecovers, Rabbit!PullDies
  <2>2. /\ Head(incoming) \in Rabbit!Delivery /\ Tail(incoming) \in Seq(Rabbit!Delivery)
        /\ incoming' = Tail(incoming)
    BY <2>1 DEF Rabbit!Receive
  <2>3. Head(incoming).mail \in Mails \cup Foreign BY <2>2 DEF Rabbit!Delivery
  <2>4. CASE Rabbit!Pull(w)
    <3>1. /\ uidToTag' = [uidToTag EXCEPT ![Head(incoming).mail] = Head(incoming)]
          /\ hold' = [hold EXCEPT ![w] = Head(incoming).mail]
          /\ wpcB' = [wpcB EXCEPT ![w] = "work"]
      BY <2>4 DEF Rabbit!Pull
    <3> QED BY <2>2, <2>3, <2>4, <3>1 DEF Rabbit!Pull, Rabbit!pubVars, Rabbit!brokerVars, Hosts
  <2>5. CASE Rabbit!PullUndecodable(w)
    <3>1. \A e \in unacked : e.mail \in Mails \cup Foreign BY DEF Rabbit!Delivery
    <3>2. unacked' \subseteq unacked /\ swept' \subseteq Mails \cup Foreign
      BY <2>5, <3>1 DEF Rabbit!PullUndecodable, Rabbit!Acked
    <3> QED BY <2>2, <2>5, <3>2 DEF Rabbit!PullUndecodable, Rabbit!pubVars, Rabbit!workVars
  <2>6. CASE Rabbit!PullRecovers(w)
    BY <2>2, <2>6 DEF Rabbit!PullRecovers, Rabbit!pubVars, Rabbit!brokerVars, Rabbit!workVars
  <2>7. CASE Rabbit!PullDies(w)
    BY <1>6, <2>2, <2>7 DEF Rabbit!PullDies
  <2> QED BY <1>9, <2>4, <2>5, <2>6, <2>7 DEF Rabbit!Pulls
<1>10. ASSUME NEW w \in Hosts, Rabbit!PullCanceled(w) \/ Rabbit!Parse(w) \/ Rabbit!ACK(w)
       PROVE  Rabbit!TypeOK'
  <2>1. wpcB[w] \in {"work", "ack"} => hold[w] \in Mails \cup Foreign
    BY DEF HoldInv, Published
  <2> QED BY <1>10, <2>1 DEF Hosts, Rabbit!PullCanceled, Rabbit!Parse, Rabbit!ACK,
        Rabbit!pubVars, Rabbit!brokerVars, Rabbit!workVars
<1>11. CASE Rabbit!Stop \/ Rabbit!ParserStopped \/ Rabbit!RunReturns
  BY <1>11 DEF Rabbit!Stop, Rabbit!ParserStopped, Rabbit!RunReturns, Rabbit!pubVars,
        Rabbit!brokerVars, Rabbit!workVars
<1> QED BY <1>1, <1>2, <1>3, <1>4, <1>5, <1>7, <1>8, <1>9, <1>10, <1>11
      DEF Rabbit!Next, Rabbit!Publisher, Rabbit!Worker, Rabbit!Works, Published, Hosts

\* Every step keeps what a worker holds and what its UID names.
LEMMA RabbitHolds ==
  ASSUME RabbitInv, Rabbit!Next
  PROVE  HoldInv'
<1> USE DEF RabbitInv, HoldInv, Published, Hosts, Rabbit!Workers
<1>1. ASSUME UNCHANGED <<uidToTag, hold, wpcB, parsedB>> PROVE HoldInv'
  BY <1>1
<1>2. ASSUME NEW w \in Hosts, Rabbit!Pulls(w) PROVE HoldInv'
  <2>1. CASE Rabbit!Pull(w)
    <3>0. Head(incoming) \in Rabbit!Delivery
      BY <2>1 DEF Rabbit!Pull, Rabbit!Receive, Rabbit!TypeOK
    <3>1. Head(incoming).mail \in Published BY <3>0 DEF Rabbit!Delivery
    <3>2. /\ uidToTag' = [uidToTag EXCEPT ![Head(incoming).mail] = Head(incoming)]
          /\ hold' = [hold EXCEPT ![w] = Head(incoming).mail]
          /\ wpcB' = [wpcB EXCEPT ![w] = "work"] /\ UNCHANGED parsedB
      BY <2>1 DEF Rabbit!Pull
    <3> QED BY <3>1, <3>2 DEF Rabbit!TypeOK
  <2>2. CASE Rabbit!PullUndecodable(w) \/ Rabbit!PullRecovers(w)
    BY <1>1, <2>2 DEF Rabbit!PullUndecodable, Rabbit!PullRecovers, Rabbit!workVars
  <2>3. CASE Rabbit!PullDies(w) BY <2>3 DEF Rabbit!PullDies, Rabbit!TypeOK
  <2> QED BY <1>2, <2>1, <2>2, <2>3 DEF Rabbit!Pulls
<1>3. ASSUME NEW w \in Hosts, Rabbit!PullCanceled(w) \/ Rabbit!Parse(w) \/ Rabbit!ACK(w)
      PROVE  HoldInv'
  <2>1. CASE Rabbit!PullCanceled(w) BY <2>1 DEF Rabbit!PullCanceled, Rabbit!TypeOK
  <2>2. CASE Rabbit!Parse(w) BY <2>2 DEF Rabbit!Parse, Rabbit!TypeOK
  <2>3. CASE Rabbit!ACK(w)
    <3>1. /\ uidToTag' = [uidToTag EXCEPT ![hold[w]] = None]
          /\ hold' = [hold EXCEPT ![w] = None] /\ wpcB' = [wpcB EXCEPT ![w] = "idle"]
          /\ UNCHANGED parsedB
      BY <2>3 DEF Rabbit!ACK
    <3> QED BY <3>1 DEF Rabbit!TypeOK
  <2> QED BY <1>3, <2>1, <2>2, <2>3
<1>4. ASSUME NEW m \in Published, Rabbit!Publish(m) \/ Rabbit!Push(m) \/ Rabbit!Emit(m)
      PROVE  HoldInv'
  BY <1>1, <1>4 DEF Rabbit!Publish, Rabbit!Push, Rabbit!Emit, Rabbit!workVars
<1>5. CASE \/ Rabbit!EmitOk \/ Rabbit!EmitErr \/ Rabbit!Deliver \/ Rabbit!Lose
           \/ Rabbit!Reconnect \/ Rabbit!Stop \/ Rabbit!ParserStopped \/ Rabbit!RunReturns
           \/ Rabbit!Close \/ Rabbit!Route \/ Rabbit!Drop \/ Rabbit!Notified
           \/ Rabbit!Reconnected
  BY <1>1, <1>5 DEF Rabbit!EmitOk, Rabbit!EmitErr, Rabbit!Deliver, Rabbit!Lose,
      Rabbit!Reconnect, Rabbit!Stop, Rabbit!ParserStopped, Rabbit!RunReturns, Rabbit!Close,
      Rabbit!Route, Rabbit!Drop, Rabbit!Notified, Rabbit!Reconnected, Rabbit!workVars
<1> QED BY <1>2, <1>3, <1>4, <1>5 DEF Rabbit!Next, Rabbit!Publisher, Rabbit!Worker, Rabbit!Works

\* Every step keeps a mail the broker has had, until it is parsed or swept away.
LEMMA RabbitKeeps ==
  ASSUME RabbitInv, Rabbit!Next
  PROVE  KeptInv'
<1> DEFINE S == {d.mail : d \in unacked}
<1>0. /\ IsFiniteSet(unacked) /\ ready \in Seq(Published) /\ Rabbit!TypeOK
      /\ queued \subseteq Rabbit!ToSet(ready) \cup S \cup parsedB \cup swept
  BY DEF RabbitInv, KeptInv, Rabbit!KeptUntilParsed, Rabbit!TypeOK, Published
<1> USE DEF KeptInv, Rabbit!KeptUntilParsed
<1>1. ASSUME UNCHANGED <<queued, ready, unacked, parsedB, swept>> PROVE KeptInv'
  BY <1>0, <1>1
<1>2. ASSUME NEW m \in Published, queued' = queued \cup {m}, ready' = Append(ready, m),
             UNCHANGED <<unacked, parsedB, swept>>
      PROVE  KeptInv'
  <2>1. Rabbit!ToSet(ready') = Rabbit!ToSet(ready) \cup {m} BY <1>0, <1>2, RabbitElements
  <2> QED BY <1>0, <1>2, <2>1
<1>3. ASSUME NEW m \in Published, Rabbit!Publish(m) \/ Rabbit!Push(m) \/ Rabbit!Emit(m)
      PROVE  KeptInv'
  BY <1>1, <1>2, <1>3 DEF Rabbit!Publish, Rabbit!Push, Rabbit!Emit, Rabbit!brokerVars,
    Rabbit!workVars
<1>4. CASE Rabbit!Route
  <2>1. Head(wire) \in Published
    BY <1>0, <1>4 DEF Rabbit!Route, Rabbit!TypeOK, Published
  <2> QED BY <1>2, <1>4, <2>1 DEF Rabbit!Route, Rabbit!workVars
<1>5. CASE Rabbit!Deliver
  <2> DEFINE d == [mail |-> Head(ready), conn |-> conn, tag |-> tag + 1]
  <2>1. Rabbit!ToSet(ready) = {Head(ready)} \cup Rabbit!ToSet(Tail(ready))
    BY <1>0, <1>5, RabbitElements DEF Rabbit!Deliver
  <2>2. unacked' = unacked \cup {d} /\ ready' = Tail(ready) /\ UNCHANGED <<queued, parsedB, swept>>
    BY <1>5 DEF Rabbit!Deliver, Rabbit!workVars
  <2>3. d.mail = Head(ready) OBVIOUS
  <2> HIDE DEF d
  <2>4. {e.mail : e \in unacked'} = S \cup {Head(ready)} BY <2>2, <2>3
  <2>5. IsFiniteSet(unacked') BY <1>0, <2>2, FS_AddElement
  <2> QED BY <1>0, <2>1, <2>2, <2>4, <2>5
<1>6. CASE Rabbit!Lose \/ Rabbit!Close \/ \E w \in Hosts : Rabbit!PullDies(w)
  <2>1. ready' = Rabbit!Requeued /\ unacked' = {} /\ UNCHANGED <<queued, parsedB, swept>>
    BY <1>6 DEF Rabbit!Lose, Rabbit!Close, Rabbit!PullDies, Rabbit!workVars
  <2>2. Rabbit!ToSet(ready') = S \cup Rabbit!ToSet(ready) BY <1>0, <2>1, RequeuedMails
  <2>3. IsFiniteSet(unacked') BY <2>1, FS_EmptySet
  <2> QED BY <1>0, <2>1, <2>2, <2>3
<1>7. ASSUME NEW D \in SUBSET unacked, unacked' = unacked \ D,
             swept \subseteq swept', \A e \in D : e.mail \in parsedB \cup swept',
             UNCHANGED <<queued, ready, parsedB>>
      PROVE  KeptInv'
  <2>1. IsFiniteSet(unacked') BY <1>0, <1>7, FS_Subset
  <2>2. S \subseteq {e.mail : e \in unacked'} \cup parsedB \cup swept' BY <1>7
  <2> QED BY <1>0, <1>7, <2>1, <2>2
<1>8. ASSUME NEW w \in Hosts, Rabbit!Pulls(w) PROVE KeptInv'
  <2>1. CASE Rabbit!Pull(w) BY <1>1, <2>1 DEF Rabbit!Pull, Rabbit!pubVars, Rabbit!brokerVars
  <2>2. CASE Rabbit!PullUndecodable(w)
    <3> DEFINE D == Rabbit!Acked(Head(incoming), TRUE)
    <3>1. /\ unacked' = unacked \ D /\ swept' = swept \cup {e.mail : e \in D}
          /\ UNCHANGED <<queued, ready, parsedB>>
      BY <2>2 DEF Rabbit!PullUndecodable, Rabbit!pubVars, Rabbit!workVars
    <3>2. D \in SUBSET unacked BY DEF Rabbit!Acked
    <3> HIDE DEF D
    <3> QED BY <1>7, <3>1, <3>2
  <2>3. CASE Rabbit!PullRecovers(w)
    BY <1>1, <2>3 DEF Rabbit!PullRecovers, Rabbit!brokerVars, Rabbit!workVars
  <2> QED BY <1>6, <1>8, <2>1, <2>2, <2>3 DEF Rabbit!Pulls
<1>9. ASSUME NEW w \in Hosts, Rabbit!PullCanceled(w) PROVE KeptInv'
  BY <1>1, <1>9 DEF Rabbit!PullCanceled, Rabbit!brokerVars
<1>10. ASSUME NEW w \in Hosts, Rabbit!Parse(w) PROVE KeptInv'
  BY <1>0, <1>10 DEF Rabbit!Parse, Rabbit!brokerVars
<1>11. ASSUME NEW w \in Hosts, Rabbit!ACK(w) PROVE KeptInv'
  <2> DEFINE d == uidToTag[hold[w]]
             D == IF d = None THEN {} ELSE Rabbit!Acked(d, FALSE)
  <2>1. hold[w] \in Published /\ hold[w] \in parsedB
    BY <1>11 DEF RabbitInv, HoldInv, Rabbit!ACK
  <2>2. d # None => d.mail = hold[w] BY <2>1 DEF RabbitInv, HoldInv
  <2>3. unacked' = unacked \ D /\ UNCHANGED <<queued, ready, parsedB, swept>>
    BY <1>11 DEF Rabbit!ACK
  <2>4. D \in SUBSET unacked /\ \A e \in D : e = d /\ d # None BY DEF Rabbit!Acked
  <2> HIDE DEF D, d
  <2> QED BY <1>7, <2>1, <2>2, <2>3, <2>4
<1>12. CASE \/ Rabbit!EmitOk \/ Rabbit!EmitErr \/ Rabbit!Drop \/ Rabbit!Notified
            \/ Rabbit!Reconnected \/ Rabbit!Reconnect \/ Rabbit!Stop
            \/ Rabbit!ParserStopped \/ Rabbit!RunReturns
  BY <1>1, <1>12 DEF Rabbit!EmitOk, Rabbit!EmitErr, Rabbit!Drop, Rabbit!Notified,
    Rabbit!Reconnected, Rabbit!Reconnect, Rabbit!Stop, Rabbit!ParserStopped,
    Rabbit!RunReturns, Rabbit!brokerVars, Rabbit!workVars
<1> QED BY <1>3, <1>4, <1>5, <1>6, <1>8, <1>9, <1>10, <1>11, <1>12
      DEF Rabbit!Next, Rabbit!Publisher, Rabbit!Worker, Rabbit!Works, Rabbit!Workers,
          Published, Hosts

\* Every step keeps the count: a mail is missing for each publication that failed.
LEMMA RabbitCounts ==
  ASSUME RabbitInv, Rabbit!Next
  PROVE  PublisherInv'
<1> DEFINE sources == <<src, pubB, pmail, errs, queued, wire, dropped>>
<1>0. PublisherInv /\ Rabbit!TypeOK /\ None \notin Published
  BY NoneAssumption DEF RabbitInv, Published
<1> USE DEF PublisherInv, Rabbit!wireVars
<1>1. ASSUME UNCHANGED <<pmail, errs>>, Written' = Written, Accepted' = Accepted, NotNew' = NotNew,
             \/ pubB' = pubB
             \/ pubB # "produce" /\ pubB' # "produce" /\ pmail = None
             \/ pubB' = "died"
      PROVE  PublisherInv'
  BY <1>0, <1>1 DEF Missing
<1>2. ASSUME UNCHANGED sources PROVE PublisherInv'
  BY <1>1, <1>2 DEF Written, Accepted, NotNew
<1>3. ASSUME NEW m \in Published, Rabbit!Publish(m) PROVE PublisherInv'
  <2>1. /\ m \in Foreign /\ src[m] = "new" /\ queued' = queued \cup {m}
        /\ UNCHANGED <<pubB, pmail, errs, wire, dropped>>
        /\ \E k \in {"undecodable", "unnamed"} : src' = [src EXCEPT ![m] = k]
    BY <1>3 DEF Rabbit!Publish
  <2>2. Accepted' = Accepted /\ NotNew' = NotNew \cup {m} /\ m \notin Accepted
    BY <1>0, <2>1 DEF Rabbit!TypeOK, Accepted, NotNew, Published
  <2>3. Written' = Written \cup {m} BY <2>1 DEF Written
  <2>4. Missing' = Missing BY <2>1, <2>2, <2>3 DEF Missing
  <2> QED BY <1>0, <2>1, <2>2, <2>3, <2>4
<1>4. ASSUME NEW m \in Published, Rabbit!Push(m) PROVE PublisherInv'
  <2>1. Accepted' = Accepted /\ NotNew' = NotNew /\ Written' = Written
    BY <1>0, <1>4 DEF Rabbit!Push, Rabbit!TypeOK, Published, Accepted, NotNew, Written
  <2> QED BY <1>1, <1>4, <2>1 DEF Rabbit!Push
<1>5. ASSUME NEW m \in Published, Rabbit!Emit(m) PROVE PublisherInv'
  <2>1. /\ Accepted' = Accepted \cup {m} /\ m \notin NotNew /\ m \notin Accepted
        /\ NotNew' = NotNew \cup {m}
    BY <1>0, <1>5 DEF Rabbit!Emit, Rabbit!TypeOK, Published, Accepted, NotNew
  <2>2. /\ pubB = "run" /\ pubB' = "produce" /\ pmail' = m
        /\ UNCHANGED <<errs, queued, wire, dropped>>
    BY <1>5 DEF Rabbit!Emit
  <2>3. Written' = Written /\ pmail = None BY <1>0, <2>2 DEF Written
  <2>4. Missing' = Missing
    BY <1>0, <2>1, <2>2, <2>3 DEF Missing, Accepted
  <2> QED BY <1>0, <2>1, <2>2, <2>3, <2>4
<1>6. CASE Rabbit!EmitOk
  <2>1. /\ pubB = "produce" /\ pubB' = "run" /\ pmail' = None
        /\ wire' = Append(wire, pmail) /\ UNCHANGED <<errs, src, queued, dropped>>
    BY <1>6 DEF Rabbit!EmitOk
  <2>2. pmail \in Accepted /\ pmail \in Published /\ pmail \in NotNew
    BY <1>0, <2>1 DEF Accepted, NotNew
  <2>0. wire \in Seq(Published) BY <1>0 DEF Rabbit!TypeOK, Published
  <2>3. Rabbit!ToSet(wire') = Rabbit!ToSet(wire) \cup {pmail}
    BY <2>0, <2>1, <2>2, RabbitElements
  <2>4. Written' = Written \cup {pmail} BY <2>1, <2>3 DEF Written
  <2>5. Accepted' = Accepted /\ NotNew' = NotNew BY <2>1 DEF Accepted, NotNew
  <2>6. Missing' = Missing BY <1>0, <2>1, <2>4, <2>5 DEF Missing, Accepted
  <2> QED BY <1>0, <2>1, <2>2, <2>4, <2>5, <2>6
<1>7. CASE Rabbit!EmitErr
  <2>1. /\ pubB = "produce" /\ pubB' # "produce" /\ pmail' = None
        /\ errs' = errs + 1 /\ UNCHANGED <<queued, wire, dropped, src>>
    BY <1>7 DEF Rabbit!EmitErr
  <2>2. Accepted' = Accepted /\ NotNew' = NotNew /\ Written' = Written
    BY <2>1 DEF Accepted, NotNew, Written
  <2>3. Missing' = Missing \cup {pmail} /\ pmail \notin Missing
    BY <1>0, <2>1, <2>2 DEF Missing, Accepted
  <2>4. IsFiniteSet(Missing') /\ Cardinality(Missing') = Cardinality(Missing) + 1
    BY <1>0, <2>3, FS_AddElement
  <2> QED BY <1>0, <2>1, <2>2, <2>4
<1>8. CASE Rabbit!Route
  <2>1. /\ wire # <<>> /\ wire' = Tail(wire) /\ queued' = queued \cup {Head(wire)}
        /\ UNCHANGED <<src, pubB, pmail, errs, dropped>>
    BY <1>8 DEF Rabbit!Route
  <2>2. Rabbit!ToSet(wire) = {Head(wire)} \cup Rabbit!ToSet(wire')
    BY <1>0, <2>1, RabbitElements DEF Rabbit!TypeOK
  <2>3. Written' = Written BY <2>1, <2>2 DEF Written
  <2>4. Accepted' = Accepted /\ NotNew' = NotNew BY <2>1 DEF Accepted, NotNew
  <2> QED BY <1>1, <2>1, <2>3, <2>4
<1>9. CASE Rabbit!Drop
  <2>1. /\ wire' = <<>> /\ dropped' = dropped \cup Rabbit!ToSet(wire)
        /\ UNCHANGED <<src, pubB, pmail, errs, queued>>
    BY <1>9 DEF Rabbit!Drop
  <2>2. Rabbit!ToSet(<<>>) = {} BY DEF Rabbit!ToSet
  <2>3. Written' = Written BY <2>1, <2>2 DEF Written
  <2>4. Accepted' = Accepted /\ NotNew' = NotNew BY <2>1 DEF Accepted, NotNew
  <2> QED BY <1>1, <2>1, <2>3, <2>4
<1>10. CASE Rabbit!RunReturns \/ Rabbit!Notified \/ Rabbit!Reconnected
  <2>1. /\ pubB \in {"run", "reconnect"} /\ pubB' \in {"run", "reconnect", "returned"}
        /\ UNCHANGED <<src, pmail, errs, queued, wire, dropped>>
    BY <1>10 DEF Rabbit!RunReturns, Rabbit!Notified, Rabbit!Reconnected
  <2>2. pmail = None BY <1>0, <2>1
  <2>3. Accepted' = Accepted /\ NotNew' = NotNew /\ Written' = Written
    BY <2>1 DEF Accepted, NotNew, Written
  <2> QED BY <1>1, <2>1, <2>2, <2>3
<1>11. CASE Rabbit!Close \/ \E w \in Hosts : Rabbit!PullDies(w)
  <2>1. /\ src' = [m \in Published |-> IF src[m] = "push" THEN "panicked" ELSE src[m]]
        /\ UNCHANGED <<pmail, errs, queued, wire, dropped>>
        /\ pubB' = pubB \/ pubB' = "died"
    BY <1>11 DEF Rabbit!Close, Rabbit!PullDies, Published
  <2>2. Accepted' = Accepted /\ NotNew' = NotNew /\ Written' = Written
    BY <2>1 DEF Accepted, NotNew, Written
  <2> QED BY <1>1, <2>1, <2>2
<1>12. CASE Rabbit!Deliver \/ Rabbit!Lose \/ Rabbit!Reconnect \/ Rabbit!Stop \/ Rabbit!ParserStopped
  BY <1>2, <1>12 DEF Rabbit!Deliver, Rabbit!Lose, Rabbit!Reconnect, Rabbit!Stop,
    Rabbit!ParserStopped, Rabbit!pubVars
<1>13. ASSUME NEW w \in Hosts, Rabbit!Worker(w) PROVE PublisherInv'
  BY <1>2, <1>11, <1>13 DEF Rabbit!Worker, Rabbit!Works, Rabbit!Pulls, Rabbit!Pull,
    Rabbit!PullUndecodable,
    Rabbit!PullRecovers, Rabbit!PullCanceled, Rabbit!Parse, Rabbit!ACK, Rabbit!pubVars
<1> QED BY <1>3, <1>4, <1>5, <1>6, <1>7, <1>8, <1>9, <1>10, <1>11, <1>12, <1>13
      DEF Rabbit!Next, Rabbit!Publisher, Rabbit!Workers, Published, Hosts

(* What the broker has had it keeps until it is parsed, but for what an      *)
(* undecodable mail sweeps away; and the accepted mails that never reached   *)
(* it, and were on no connection that was lost, are as many as the           *)
(* publications that failed: for every number of mails, workers, failures    *)
(* and lost connections, and whichever mail ends the process.                *)
THEOREM BrokerKeepsOrCounts == Spec => []RabbitAccounts
<1>1. Init => RabbitInv BY RabbitStarts DEF Init
<1>2. RabbitInv /\ [Next]_vars => RabbitInv'
  <2>1. ASSUME RabbitInv, UNCHANGED rabbit PROVE RabbitInv'
    BY <2>1 DEF rabbit, RabbitInv, Rabbit!TypeOK, HoldInv, KeptInv, Rabbit!KeptUntilParsed,
      PublisherInv, Missing, Accepted, Written, NotNew
  <2>2. ASSUME RabbitInv, Rabbit!Next PROVE RabbitInv'
    BY <2>2, RabbitTypes, RabbitHolds, RabbitKeeps, RabbitCounts DEF RabbitInv
  <2> QED BY <2>1, <2>2 DEF Next, vars
<1>3. RabbitInv => RabbitAccounts
  BY RabbitCardinality DEF RabbitInv, RabbitAccounts, KeptInv, PublisherInv,
    Rabbit!LostIsCounted, Missing, Written, Accepted, Published
<1> QED BY <1>1, <1>2, <1>3, PTL DEF Spec
-----------------------------------------------------------------------------
(* The collector kept in Redis: its mails are in one place, and those that   *)
(* vanish are accounted for.                                                *)

\* What a worker and its goroutine hold, and where they are then.
CallInv == \A w \in Hosts :
  /\ gpc[w] # "none" => wpcR[w] = "pull"
  /\ hand[w] # None <=> gpc[w] \in {"check", "gotIt"} \/ wpcR[w] \in {"store", "work", "ack"}
  /\ wpcR[w] = "ack" => hand[w] \in parsedR

OnList == Redis!ToSet(queue)

\* One place for each mail, and it has not been returned before it gets to a worker.
PlaceInv ==
  /\ Redis!IsInjective(queue)
  /\ OnList \cup back \cup Redis!InHand \subseteq Redis!Accepted
  /\ OnList \cap (back \cup Redis!InHand) = {} /\ back \cap Redis!InHand = {}
  /\ \A v, w \in Hosts : hand[v] = hand[w] /\ hand[v] # None => v = w
  /\ \A m \in Mails :
       /\ taken[m] <= 1
       /\ intake[m] # "accepted" \/ m \in OnList \cup back => taken[m] = 0
  /\ \A w \in Hosts : hand[w] # None /\ wpcR[w] \in {"pull", "store"} => taken[hand[w]] = 0

\* The workers whose mail vanishes if they are lost or leave.
AtRisk == {w \in Hosts : \/ w \in gone /\ wpcR[w] \in {"pull", "store"}
                         \/ wpcR[w] = "work" /\ hand[w] \notin pending}

Budget ==
  Cardinality(faults \cap {"leave", "hset"})
    + (IF phaseR = "up" THEN 0 ELSE Cardinality(Hosts))
    + (IF "restart" \in faults THEN Cardinality(Hosts) ELSE 0)

(* A mail that vanishes has been at risk before, and what it was at risk by  *)
(* was counted then.                                                         *)
RiskInv ==
  /\ IsFiniteSet(Redis!Vanished) /\ IsFiniteSet(back)
  /\ Cardinality(Redis!Vanished) + orphans + Cardinality(back) + Cardinality(AtRisk) <= Budget
  /\ phaseR = "stopping" => gone = Hosts

RedisInv == Redis!TypeOK /\ CallInv /\ PlaceInv /\ RiskInv

\* Both starts of the collector satisfy the invariant.
LEMMA RedisStarts == (Redis!Init \/ Redis!InitIn("closed")) => RedisInv
<1> SUFFICES ASSUME NEW p \in {"up", "closed"}, Redis!InitIn(p) PROVE RedisInv
  BY DEF Redis!Init
<1> USE DEF Redis!InitIn, Redis!NoCalls, Redis!Workers, Hosts
<1>1. Redis!TypeOK BY DEF Redis!TypeOK
<1>2. CallInv BY DEF CallInv
<1>3. OnList = {} /\ Redis!InHand = {} BY DEF OnList, Redis!ToSet, Redis!InHand
<1>4. PlaceInv BY <1>3 DEF PlaceInv, Redis!IsInjective
<1>5. Redis!Vanished = {} /\ AtRisk = {} /\ faults \cap {"leave", "hset"} = {}
  BY DEF Redis!Vanished, Redis!Accepted, AtRisk
<1>6. Cardinality(Hosts) \in Nat BY WorkersAssumption, FS_CardinalityType
<1>7. RiskInv BY <1>5, <1>6, FS_EmptySet DEF RiskInv, Budget
<1> QED BY <1>1, <1>2, <1>4, <1>7 DEF RedisInv

\* The steps of one worker and of its goroutine.
WorkerStep(w) ==
  Redis!Caller(w) \/ Redis!Pull(w) \/ Redis!Getter(w) \/ Redis!Die(w) \/ Redis!Leave(w)

\* Every step keeps the types.
LEMMA RedisTypes ==
  ASSUME RedisInv, Redis!Next
  PROVE  Redis!TypeOK'
<1> USE DEF RedisInv, Redis!TypeOK, Redis!Fault, Redis!callVars, Redis!orphanVars,
            Redis!lifeVars, Redis!Workers, Hosts
<1>1. ASSUME NEW m \in Mails, Redis!Push(m) \/ Redis!Age(m) PROVE Redis!TypeOK'
  <2>1. Append(queue, m) \in Seq(Mails) OBVIOUS
  <2> QED BY <1>1, <2>1 DEF Redis!Push, Redis!Age
<1>2. ASSUME NEW w \in Hosts, WorkerStep(w) PROVE Redis!TypeOK'
  <2>1. CASE Redis!Call(w) BY <2>1 DEF Redis!Call
  <2>2. CASE Redis!Parse(w)
    <3>1. hand[w] \in Mails BY <2>2 DEF CallInv, Redis!Parse
    <3> QED BY <2>2, <3>1 DEF Redis!Parse
  <2>3. CASE Redis!ACK(w) BY <2>3 DEF Redis!ACK
  <2>4. CASE Redis!Canceled(w)
    <3>1. gpc[w] = "check" => hand[w] \in Mails BY DEF CallInv
    <3> QED BY <2>4, <3>1 DEF Redis!Canceled
  <2>5. CASE Redis!PullFails(w) BY <2>5 DEF Redis!PullFails
  <2>6. CASE Redis!Pulled(w) BY <2>6 DEF Redis!Pulled
  <2>7. CASE Redis!Pending(w)
    <3>1. hand[w] \in Mails BY <2>7 DEF CallInv, Redis!Pending
    <3> QED BY <2>7, <3>1 DEF Redis!Pending
  <2>8. CASE Redis!BLPop(w)
    <3>1. queue # <<>> => Head(queue) \in Mails /\ Tail(queue) \in Seq(Mails) OBVIOUS
    <3> QED BY <2>8, <3>1 DEF Redis!BLPop
  <2>9. CASE Redis!GotIt(w) BY <2>9 DEF Redis!GotIt
  <2>10. CASE Redis!Die(w) BY <2>10 DEF Redis!Die
  <2>11. CASE Redis!Leave(w) BY <2>11 DEF Redis!Leave
  <2> QED BY <1>2, <2>1, <2>2, <2>3, <2>4, <2>5, <2>6, <2>7, <2>8, <2>9, <2>10, <2>11
        DEF WorkerStep, Redis!Caller, Redis!Pull, Redis!Getter
<1>3. CASE Redis!Orphan
  <2>1. queue # <<>> => Head(queue) \in Mails /\ Tail(queue) \in Seq(Mails) OBVIOUS
  <2>2. \A m \in Mails : Append(queue, m) \in Seq(Mails) OBVIOUS
  <2>3. orphans > 0 => orphans - 1 \in Nat OBVIOUS
  <2> QED BY <1>3, <2>1, <2>2, <2>3
        DEF Redis!Orphan, Redis!OrphanPop, Redis!OrphanLeaves, Redis!PushBack
<1>4. CASE Redis!rePush \/ Redis!RePushPanics \/ Redis!Restart \/ Redis!Stop \/ Redis!Close
  BY <1>4 DEF Redis!rePush, Redis!RePushPanics, Redis!Restart, Redis!Stop, Redis!Close,
    Redis!Ended, Redis!NoCalls
<1> QED BY <1>1, <1>2, <1>3, <1>4 DEF Redis!Next, WorkerStep

\* Every step keeps what a worker and its goroutine hold.
LEMMA RedisCalls ==
  ASSUME RedisInv, Redis!Next
  PROVE  CallInv'
<1>0. Redis!TypeOK /\ CallInv /\ None \notin Mails
  BY NoneAssumption DEF RedisInv
<1> USE DEF CallInv, Redis!TypeOK, Redis!callVars, Redis!orphanVars, Redis!lifeVars,
            Redis!Workers, Hosts
<1>1. ASSUME UNCHANGED <<gpc, wpcR, hand>>, parsedR \subseteq parsedR' PROVE CallInv'
  BY <1>0, <1>1
<1>2. ASSUME NEW w \in Hosts, WorkerStep(w) PROVE CallInv'
  <2>1. CASE Redis!Call(w) BY <1>0, <2>1 DEF Redis!Call
  <2>2. CASE Redis!Parse(w) BY <1>0, <2>2 DEF Redis!Parse
  <2>3. CASE Redis!ACK(w) BY <1>0, <2>3 DEF Redis!ACK
  <2>4. CASE Redis!Canceled(w) BY <1>0, <2>4 DEF Redis!Canceled
  <2>5. CASE Redis!PullFails(w) BY <1>0, <2>5 DEF Redis!PullFails
  <2>6. CASE Redis!Pulled(w) BY <1>0, <2>6 DEF Redis!Pulled
  <2>7. CASE Redis!Pending(w) BY <1>0, <2>7 DEF Redis!Pending
  <2>8. CASE Redis!BLPop(w)
    <3>1. queue # <<>> => Head(queue) \in Mails BY <1>0
    <3> QED BY <1>0, <2>8, <3>1 DEF Redis!BLPop
  <2>9. CASE Redis!GotIt(w) BY <1>0, <2>9 DEF Redis!GotIt
  <2>10. CASE Redis!Die(w) BY <1>0, <2>10 DEF Redis!Die
  <2>11. CASE Redis!Leave(w) BY <1>0, <2>11 DEF Redis!Leave
  <2> QED BY <1>2, <2>1, <2>2, <2>3, <2>4, <2>5, <2>6, <2>7, <2>8, <2>9, <2>10, <2>11
        DEF WorkerStep, Redis!Caller, Redis!Pull, Redis!Getter
<1>3. CASE Redis!RePushPanics \/ Redis!Close
  BY <1>3 DEF Redis!RePushPanics, Redis!Close, Redis!Ended, Redis!NoCalls
<1>4. CASE \/ Redis!Orphan \/ Redis!rePush \/ Redis!Restart \/ Redis!Stop
           \/ \E m \in Mails : Redis!Push(m) \/ Redis!Age(m)
  BY <1>1, <1>4 DEF Redis!Orphan, Redis!OrphanPop, Redis!OrphanLeaves, Redis!PushBack,
    Redis!rePush, Redis!Restart, Redis!Stop, Redis!Push, Redis!Age
<1> QED BY <1>2, <1>3, <1>4 DEF Redis!Next, WorkerStep

-----------------------------------------------------------------------------
\* The list that is extended or shortened, its elements and that they differ.
LEMMA RedisList ==
  ASSUME NEW s \in Seq(Mails)
  PROVE  /\ \A x \in Mails :
              /\ Redis!ToSet(Append(s, x)) = Redis!ToSet(s) \cup {x}
              /\ Redis!IsInjective(s) /\ x \notin Redis!ToSet(s)
                   => Redis!IsInjective(Append(s, x))
         /\ s # <<>> =>
              /\ Redis!ToSet(s) = {Head(s)} \cup Redis!ToSet(Tail(s))
              /\ Redis!IsInjective(s) => /\ Redis!IsInjective(Tail(s))
                                         /\ Head(s) \notin Redis!ToSet(Tail(s))
<1>1. \A q : Redis!ToSet(q) = Rabbit!ToSet(q) BY DEF Redis!ToSet, Rabbit!ToSet
<1>2. ASSUME NEW x \in Mails, Redis!IsInjective(s), x \notin Redis!ToSet(s)
      PROVE  Redis!IsInjective(Append(s, x))
  <2>1. \A i \in 1..Len(s) : Append(s, x)[i] = s[i] /\ s[i] # x
    BY <1>2 DEF Redis!ToSet
  <2>2. Append(s, x)[Len(s) + 1] = x /\ DOMAIN Append(s, x) = 1..Len(s) + 1 OBVIOUS
  <2>3. DOMAIN s = 1..Len(s) /\ Len(s) \in Nat OBVIOUS
  <2> QED BY <1>2, <2>1, <2>2, <2>3 DEF Redis!IsInjective
<1>3. ASSUME s # <<>>, Redis!IsInjective(s)
      PROVE  Redis!IsInjective(Tail(s)) /\ Head(s) \notin Redis!ToSet(Tail(s))
  <2>1. Len(s) \in Nat \ {0} /\ DOMAIN s = 1..Len(s) /\ Head(s) = s[1] BY <1>3
  <2>2. DOMAIN Tail(s) = 1..Len(s)-1 /\ \A i \in 1..Len(s)-1 : Tail(s)[i] = s[i+1] BY <1>3
  <2>3. \A i \in 1..Len(s)-1 : i+1 \in 1..Len(s) /\ i+1 # 1 BY <2>1
  <2>4. \A i \in 1..Len(s)-1 : Tail(s)[i] # Head(s) BY <1>3, <2>1, <2>2, <2>3 DEF Redis!IsInjective
  <2>5. \A i, j \in 1..Len(s)-1 : Tail(s)[i] = Tail(s)[j] => i = j
    BY <1>3, <2>1, <2>2, <2>3 DEF Redis!IsInjective
  <2> QED BY <2>2, <2>4, <2>5 DEF Redis!IsInjective, Redis!ToSet
<1> QED BY <1>1, <1>2, <1>3, RabbitElements

\* What is in the hands when one worker takes a mail, or has nothing any more.
LEMMA RedisHands ==
  ASSUME RedisInv, NEW w \in Hosts, NEW x \in Mails \cup {None},
         hand' = [hand EXCEPT ![w] = x]
  PROVE  /\ x # None /\ hand[w] = None => Redis!InHand' = Redis!InHand \cup {x}
         /\ x = None => Redis!InHand' = Redis!InHand \ {hand[w]}
<1>1. hand \in [Hosts -> Mails \cup {None}] BY DEF RedisInv, Redis!TypeOK, Redis!Workers, Hosts
<1>2. \A u, v \in Hosts : hand[u] = hand[v] /\ hand[u] # None => u = v BY DEF RedisInv, PlaceInv
<1>3. Redis!InHand = {hand[v] : v \in Hosts} \ {None} BY DEF Redis!InHand, Redis!Workers, Hosts
<1>4. Redis!InHand' = {hand'[v] : v \in Hosts} \ {None} BY DEF Redis!InHand, Redis!Workers, Hosts
<1>5. hand'[w] = x /\ \A v \in Hosts \ {w} : hand'[v] = hand[v] BY <1>1
<1> QED BY <1>1, <1>2, <1>3, <1>4, <1>5

\* Where a mail is, before and after a step that moves none.
LEMMA PlaceFrame ==
  ASSUME RedisInv, UNCHANGED <<intake, queue, back, hand, taken>>,
         \A w \in Hosts : hand[w] # None /\ wpcR'[w] \in {"pull", "store"}
                            => wpcR[w] \in {"pull", "store"}
  PROVE  PlaceInv'
<1>1. OnList' = OnList /\ Redis!InHand' = Redis!InHand /\ Redis!Accepted' = Redis!Accepted
  BY DEF OnList, Redis!ToSet, Redis!InHand, Redis!Accepted
<1> HIDE DEF OnList, Redis!InHand, Redis!Accepted
<1> QED BY <1>1 DEF RedisInv, PlaceInv

\* Every step of a worker keeps each mail in one place.
LEMMA RedisWorkerPlaces ==
  ASSUME RedisInv, NEW w \in Hosts, WorkerStep(w)
  PROVE  PlaceInv'
<1>0. Redis!TypeOK /\ CallInv /\ PlaceInv /\ None \notin Mails
  BY NoneAssumption DEF RedisInv
<1>1. /\ hand \in [Hosts -> Mails \cup {None}]
      /\ wpcR \in [Hosts -> {"idle", "pull", "store", "work", "ack", "returned"}]
      /\ taken \in [Mails -> Nat] /\ queue \in Seq(Mails)
  BY <1>0 DEF Redis!TypeOK, Redis!Workers, Hosts
<1>2. \A v \in Hosts : hand[v] # None => hand[v] \in Redis!InHand
  BY DEF Redis!InHand, Redis!Workers, Hosts
<1> USE DEF Redis!callVars, Redis!orphanVars, Redis!lifeVars
<1>3. CASE \/ Redis!Call(w) \/ Redis!Parse(w) \/ Redis!PullFails(w) \/ Redis!Pulled(w)
           \/ Redis!GotIt(w) \/ Redis!Leave(w)
  BY <1>0, <1>1, <1>3, PlaceFrame DEF CallInv, Redis!Call, Redis!Parse, Redis!PullFails,
    Redis!Pulled, Redis!GotIt, Redis!Leave
<1>4. CASE Redis!BLPop(w)
  <2>1. CASE /\ queue # <<>> /\ hand' = [hand EXCEPT ![w] = Head(queue)] /\ queue' = Tail(queue)
    <3>1. Head(queue) \in Mails BY <1>1, <2>1
    <3>2. /\ OnList = {Head(queue)} \cup OnList' /\ Head(queue) \notin OnList'
          /\ Redis!IsInjective(queue')
      BY <1>0, <1>1, <2>1, RedisList DEF PlaceInv, OnList
    <3>3. wpcR[w] = "pull" /\ hand[w] = None BY <1>0, <1>4 DEF CallInv, Redis!BLPop
    <3>4. Redis!InHand' = Redis!InHand \cup {Head(queue)}
      BY <1>0, <2>1, <3>1, <3>3, RedisHands
    <3>5. UNCHANGED <<intake, back, taken, wpcR>> /\ Redis!Accepted' = Redis!Accepted
      BY <1>4 DEF Redis!BLPop, Redis!Accepted
    <3>6. \A v \in Hosts : hand'[v] = IF v = w THEN Head(queue) ELSE hand[v] BY <1>1, <2>1
    <3> QED BY <1>0, <1>2, <3>1, <3>2, <3>3, <3>4, <3>5, <3>6 DEF PlaceInv
  <2>2. CASE UNCHANGED <<hand, queue>>
    BY <1>0, <1>4, <2>2, PlaceFrame DEF Redis!BLPop
  <2> QED BY <1>4, <2>1, <2>2 DEF Redis!BLPop
<1>5. CASE Redis!Pending(w)
  <2>1. hand[w] \in Mails /\ taken[hand[w]] = 0 /\ wpcR[w] = "store" /\ hand[w] \in Redis!InHand
    BY <1>0, <1>1, <1>2, <1>5 DEF CallInv, PlaceInv, Redis!Pending
  <2>2. /\ UNCHANGED <<intake, queue, back, hand>> /\ wpcR' = [wpcR EXCEPT ![w] = "work"]
        /\ taken' = [taken EXCEPT ![hand[w]] = @ + 1]
    BY <1>5 DEF Redis!Pending
  <2>3. OnList' = OnList /\ Redis!InHand' = Redis!InHand /\ Redis!Accepted' = Redis!Accepted
    BY <2>2 DEF OnList, Redis!ToSet, Redis!InHand, Redis!Accepted
  <2>4. hand[w] \notin OnList \cup back /\ intake[hand[w]] = "accepted"
    BY <1>0, <2>1 DEF PlaceInv, Redis!Accepted
  <2>5. \A m \in Mails : taken'[m] = IF m = hand[w] THEN 1 ELSE taken[m] BY <1>1, <2>1, <2>2
  <2>6. \A v \in Hosts : wpcR'[v] = IF v = w THEN "work" ELSE wpcR[v] BY <1>1, <2>2
  <2>7. \A v \in Hosts : v # w /\ hand[v] # None => hand[v] # hand[w] /\ hand[v] \in Mails
    BY <1>0, <1>1 DEF PlaceInv
  <2> QED BY <1>0, <2>1, <2>2, <2>3, <2>4, <2>5, <2>6, <2>7 DEF PlaceInv
<1>6. CASE Redis!Canceled(w)
  <2>1. /\ hand' = [hand EXCEPT ![w] = None] /\ UNCHANGED <<intake, queue, taken>>
        /\ back' = back \cup (IF gpc[w] = "check" THEN {hand[w]} ELSE {})
        /\ wpcR[w] = "pull" /\ \A v \in Hosts : v # w => wpcR'[v] = wpcR[v]
    BY <1>1, <1>6 DEF Redis!Canceled
  <2>2. gpc[w] = "check" => /\ hand[w] \in Redis!InHand /\ hand[w] \in Mails
                            /\ taken[hand[w]] = 0
    BY <1>0, <1>1, <1>2, <2>1 DEF CallInv, PlaceInv
  <2>3. Redis!InHand' = Redis!InHand \ {hand[w]} BY <1>0, <2>1, RedisHands
  <2>4. OnList' = OnList /\ Redis!Accepted' = Redis!Accepted
    BY <2>1 DEF OnList, Redis!ToSet, Redis!Accepted
  <2>5. \A v \in Hosts : hand'[v] = IF v = w THEN None ELSE hand[v] BY <1>1, <2>1
  <2> QED BY <1>0, <2>1, <2>2, <2>3, <2>4, <2>5 DEF PlaceInv
<1>7. CASE Redis!ACK(w) \/ Redis!Die(w)
  <2>1. /\ hand' = [hand EXCEPT ![w] = None] /\ wpcR' = [wpcR EXCEPT ![w] = "idle"]
        /\ UNCHANGED <<intake, queue, back, taken>>
    BY <1>7 DEF Redis!ACK, Redis!Die
  <2>2. Redis!InHand' = Redis!InHand \ {hand[w]} BY <1>0, <2>1, RedisHands
  <2>3. OnList' = OnList /\ Redis!Accepted' = Redis!Accepted
    BY <2>1 DEF OnList, Redis!ToSet, Redis!Accepted
  <2>4. \A v \in Hosts : hand'[v] = IF v = w THEN None ELSE hand[v] BY <1>1, <2>1
  <2>5. \A v \in Hosts : wpcR'[v] = IF v = w THEN "idle" ELSE wpcR[v] BY <1>1, <2>1
  <2> QED BY <1>0, <2>1, <2>2, <2>3, <2>4, <2>5 DEF PlaceInv
<1> QED BY <1>3, <1>4, <1>5, <1>6, <1>7
      DEF WorkerStep, Redis!Caller, Redis!Pull, Redis!Getter

\* Every other step does too.
LEMMA RedisPlaces ==
  ASSUME RedisInv, Redis!Next
  PROVE  PlaceInv'
<1>0. Redis!TypeOK /\ CallInv /\ PlaceInv /\ None \notin Mails
  BY NoneAssumption DEF RedisInv
<1>1. /\ intake \in [Mails -> {"new", "accepted", "refused"}]
      /\ taken \in [Mails -> Nat] /\ queue \in Seq(Mails)
  BY <1>0 DEF Redis!TypeOK
<1> USE DEF Redis!callVars, Redis!orphanVars, Redis!lifeVars
<1>2. ASSUME NEW m \in Mails, Redis!Push(m) PROVE PlaceInv'
  <2>1. intake[m] = "new" /\ UNCHANGED <<back, hand, taken, wpcR>> BY <1>2 DEF Redis!Push
  <2>2. Redis!InHand' = Redis!InHand BY <2>1 DEF Redis!InHand
  <2>3. m \notin OnList \cup back \cup Redis!InHand /\ taken[m] = 0
    BY <1>0, <2>1 DEF PlaceInv, Redis!Accepted
  <2>4. CASE intake' = [intake EXCEPT ![m] = "accepted"] /\ queue' = Append(queue, m)
    <3>1. Redis!Accepted' = Redis!Accepted \cup {m} BY <1>1, <2>4 DEF Redis!Accepted
    <3>2. OnList' = OnList \cup {m} /\ Redis!IsInjective(queue')
      BY <1>0, <1>1, <2>3, <2>4, RedisList DEF PlaceInv, OnList
    <3>3. \A n \in Mails : intake'[n] # "accepted" => intake[n] # "accepted" BY <1>1, <2>4
    <3> QED BY <1>0, <2>1, <2>2, <2>3, <3>1, <3>2, <3>3 DEF PlaceInv
  <2>5. CASE intake' = [intake EXCEPT ![m] = "refused"] /\ UNCHANGED queue
    <3>1. Redis!Accepted' = Redis!Accepted BY <1>1, <2>1, <2>5 DEF Redis!Accepted
    <3>2. OnList' = OnList BY <2>5 DEF OnList, Redis!ToSet
    <3>3. \A n \in Mails : n # m => intake'[n] = intake[n] BY <1>1, <2>5
    <3> QED BY <1>0, <2>1, <2>2, <2>3, <2>5, <3>1, <3>2, <3>3 DEF PlaceInv
  <2> QED BY <1>2, <2>4, <2>5 DEF Redis!Push
<1>3. CASE \/ \E m \in Mails : Redis!Age(m)
           \/ Redis!OrphanLeaves \/ Redis!rePush \/ Redis!Restart \/ Redis!Stop
  BY <1>3, PlaceFrame DEF Redis!Age, Redis!OrphanLeaves, Redis!rePush, Redis!Restart, Redis!Stop
<1>4. ASSUME NEW w \in Hosts, WorkerStep(w) PROVE PlaceInv'
  BY <1>4, RedisWorkerPlaces
<1>5. CASE Redis!OrphanPop
  <2>1. /\ queue # <<>> /\ back' = back \cup {Head(queue)} /\ queue' = Tail(queue)
        /\ UNCHANGED <<intake, hand, taken, wpcR>>
    BY <1>5 DEF Redis!OrphanPop
  <2>2. Head(queue) \in Mails BY <1>1, <2>1
  <2>3. /\ OnList = {Head(queue)} \cup OnList' /\ Head(queue) \notin OnList'
        /\ Redis!IsInjective(queue')
    BY <1>0, <1>1, <2>1, RedisList DEF PlaceInv, OnList
  <2>4. Redis!InHand' = Redis!InHand /\ Redis!Accepted' = Redis!Accepted
    BY <2>1 DEF Redis!InHand, Redis!Accepted
  <2> QED BY <1>0, <2>1, <2>2, <2>3, <2>4 DEF PlaceInv
<1>6. ASSUME NEW m \in Mails, Redis!PushBack(m) PROVE PlaceInv'
  <2>1. m \in back /\ back' = back \ {m} /\ UNCHANGED <<intake, hand, taken, wpcR>>
    BY <1>6 DEF Redis!PushBack
  <2>2. m \notin OnList BY <1>0, <2>1 DEF PlaceInv
  <2>3. Redis!InHand' = Redis!InHand /\ Redis!Accepted' = Redis!Accepted
    BY <2>1 DEF Redis!InHand, Redis!Accepted
  <2>4. \/ OnList' = OnList \cup {m} /\ Redis!IsInjective(queue')
        \/ OnList' = OnList /\ queue' = queue
    <3>1. queue' = Append(queue, m) \/ queue' = queue BY <1>6 DEF Redis!PushBack
    <3>2. Redis!IsInjective(queue) BY <1>0 DEF PlaceInv
    <3>3. CASE queue' = Append(queue, m)
      BY <1>1, <2>2, <3>2, <3>3, RedisList DEF OnList
    <3>4. CASE queue' = queue BY <3>4 DEF OnList, Redis!ToSet
    <3> QED BY <3>1, <3>3, <3>4
  <2> QED BY <1>0, <2>1, <2>2, <2>3, <2>4 DEF PlaceInv
<1>7. CASE Redis!RePushPanics \/ Redis!Close
  <2>1. /\ hand' = [v \in Hosts |-> None] /\ back' = {} /\ UNCHANGED <<intake, queue, taken>>
    BY <1>7 DEF Redis!RePushPanics, Redis!Close, Redis!Ended, Redis!NoCalls, Redis!Workers, Hosts
  <2>2. /\ Redis!InHand' = {} /\ OnList' = OnList /\ Redis!Accepted' = Redis!Accepted
    BY <2>1 DEF OnList, Redis!ToSet, Redis!Accepted, Redis!InHand, Redis!Workers, Hosts
  <2> QED BY <1>0, <2>1, <2>2 DEF PlaceInv
<1> QED BY <1>2, <1>3, <1>4, <1>5, <1>6, <1>7
      DEF Redis!Next, Redis!Orphan, WorkerStep, Redis!Workers, Hosts

-----------------------------------------------------------------------------
\* How a set that changes by one element at most changes in size.
LEMMA Sizes ==
  ASSUME NEW S, IsFiniteSet(S), NEW T, NEW x
  PROVE  /\ T \subseteq S =>
              IsFiniteSet(T) /\ Cardinality(T) \in Nat /\ Cardinality(T) <= Cardinality(S)
         /\ T \subseteq S \cup {x} =>
              IsFiniteSet(T) /\ Cardinality(T) \in Nat /\ Cardinality(T) <= Cardinality(S) + 1
         /\ x \in S /\ T \subseteq S \ {x} =>
              IsFiniteSet(T) /\ Cardinality(T) \in Nat /\ Cardinality(T) <= Cardinality(S) - 1
         /\ Cardinality(S) \in Nat
<1>1. \A U, V : IsFiniteSet(V) /\ U \subseteq V =>
        IsFiniteSet(U) /\ Cardinality(U) \in Nat /\ Cardinality(V) \in Nat
          /\ Cardinality(U) <= Cardinality(V)
  BY FS_Subset, FS_CardinalityType
<1>2. /\ IsFiniteSet(S \cup {x}) /\ Cardinality(S \cup {x}) <= Cardinality(S) + 1
      /\ Cardinality(S) \in Nat
  BY FS_AddElement, FS_CardinalityType
<1>3. x \in S => IsFiniteSet(S \ {x}) /\ Cardinality(S \ {x}) = Cardinality(S) - 1
  BY FS_RemoveElement
<1>4. T \subseteq S \cup {x} =>
        IsFiniteSet(T) /\ Cardinality(T) \in Nat /\ Cardinality(T) <= Cardinality(S) + 1
  <2> SUFFICES ASSUME T \subseteq S \cup {x}
               PROVE  IsFiniteSet(T) /\ Cardinality(T) \in Nat
                        /\ Cardinality(T) <= Cardinality(S) + 1
    OBVIOUS
  <2>1. /\ IsFiniteSet(T) /\ Cardinality(T) \in Nat /\ Cardinality(S \cup {x}) \in Nat
        /\ Cardinality(T) <= Cardinality(S \cup {x})
    BY <1>1, <1>2
  <2> QED BY <1>2, <2>1
<1>5. x \in S /\ T \subseteq S \ {x} =>
        IsFiniteSet(T) /\ Cardinality(T) \in Nat /\ Cardinality(T) <= Cardinality(S) - 1
  <2> SUFFICES ASSUME x \in S, T \subseteq S \ {x}
               PROVE  IsFiniteSet(T) /\ Cardinality(T) \in Nat
                        /\ Cardinality(T) <= Cardinality(S) - 1
    OBVIOUS
  <2>1. /\ IsFiniteSet(T) /\ Cardinality(T) \in Nat /\ Cardinality(S \ {x}) \in Nat
        /\ Cardinality(T) <= Cardinality(S \ {x})
    BY <1>1, <1>3
  <2> QED BY <1>3, <2>1
<1> QED BY <1>1, <1>2, <1>4, <1>5

\* The mails in the hands of some workers are no more than the workers.
LEMMA HandsOf ==
  ASSUME NEW S \in SUBSET Hosts
  PROVE  LET H == {hand[w] : w \in S}
         IN  IsFiniteSet(H) /\ Cardinality(H) \in Nat /\ Cardinality(H) <= Cardinality(S)
<1> DEFINE H == {hand[w] : w \in S}
           f == [w \in S |-> hand[w]]
<1>1. IsFiniteSet(S) BY WorkersAssumption, FS_Subset DEF Hosts
<1>2. f \in Surjection(S, H) BY DEF Surjection
<1>3. IsFiniteSet(H) /\ Cardinality(H) <= Cardinality(S) BY <1>1, <1>2, FS_Surjection
<1> QED BY <1>3, FS_CardinalityType

\* The faults that cost a mail are finitely many.
LEMMA CostlyFaults ==
  \A F : /\ IsFiniteSet(F \cap {"leave", "hset"})
         /\ Cardinality(F \cap {"leave", "hset"}) \in Nat
<1>1. {"leave", "hset"} = {"leave"} \cup {"hset"} OBVIOUS
<1>2. IsFiniteSet({"leave"}) BY FS_Singleton
<1>3. IsFiniteSet({"leave", "hset"}) BY <1>1, <1>2, FS_AddElement
<1> QED BY <1>3, FS_Subset, FS_CardinalityType

\* The budget is a number; a fault adds to it what the fault may cost.
LEMMA BudgetGrows ==
  ASSUME Redis!TypeOK
  PROVE  /\ Budget \in Nat
         /\ UNCHANGED <<phaseR, faults>> => Budget' = Budget
         /\ \A f : /\ f \notin faults /\ faults' = faults \cup {f} /\ UNCHANGED phaseR
                   /\ f # "restart"
                   => Budget' = Budget + (IF f \in {"leave", "hset"} THEN 1 ELSE 0)
<1> DEFINE F == faults \cap {"leave", "hset"}
<1>1. Cardinality(Hosts) \in Nat BY WorkersAssumption, FS_CardinalityType DEF Hosts
<1>3. IsFiniteSet(F) /\ Cardinality(F) \in Nat BY CostlyFaults
<1>4. ASSUME NEW f, f \notin faults, faults' = faults \cup {f}, UNCHANGED phaseR, f # "restart"
      PROVE  Budget' = Budget + (IF f \in {"leave", "hset"} THEN 1 ELSE 0)
  <2>1. "restart" \in faults' <=> "restart" \in faults BY <1>4
  <2>2. CASE f \in {"leave", "hset"}
    <3>1. F' = F \cup {f} /\ f \notin F BY <1>4, <2>2
    <3>2. Cardinality(F') = Cardinality(F) + 1 BY <1>3, <3>1, FS_AddElement
    <3> QED BY <1>1, <1>3, <1>4, <2>1, <2>2, <3>2 DEF Budget
  <2>3. CASE f \notin {"leave", "hset"}
    <3>1. F' = F BY <1>4, <2>3
    <3> QED BY <1>1, <1>3, <1>4, <2>1, <2>3, <3>1 DEF Budget
  <2> QED BY <2>2, <2>3
<1>5. Budget \in Nat BY <1>1, <1>3 DEF Budget
<1>6. UNCHANGED <<phaseR, faults>> => Budget' = Budget BY DEF Budget
<1> QED BY <1>4, <1>5, <1>6

\* The parts of the risk are finite.
LEMMA RiskParts ==
  ASSUME RedisInv
  PROVE  /\ IsFiniteSet(Redis!Vanished) /\ Cardinality(Redis!Vanished) \in Nat
         /\ IsFiniteSet(back) /\ Cardinality(back) \in Nat
         /\ IsFiniteSet(AtRisk) /\ Cardinality(AtRisk) \in Nat
         /\ orphans \in Nat
<1>1. IsFiniteSet(AtRisk) BY WorkersAssumption, FS_Subset DEF AtRisk, Hosts
<1> QED BY <1>1, FS_CardinalityType DEF RedisInv, RiskInv, Redis!TypeOK

Risk == Cardinality(Redis!Vanished) + orphans + Cardinality(back) + Cardinality(AtRisk)

\* The risk stays within the budget when it grows by no more than the budget.
LEMMA RiskOf ==
  ASSUME RedisInv, Redis!TypeOK', IsFiniteSet(Redis!Vanished'), IsFiniteSet(back'),
         Risk' - Budget' <= Risk - Budget,
         phaseR' = "stopping" => gone' = Hosts
  PROVE  RiskInv'
<1>1. IsFiniteSet(AtRisk') BY WorkersAssumption, FS_Subset DEF AtRisk, Hosts
<1>2. /\ Cardinality(Redis!Vanished') \in Nat /\ Cardinality(back') \in Nat
      /\ Cardinality(AtRisk') \in Nat /\ orphans' \in Nat
  BY <1>1, FS_CardinalityType DEF Redis!TypeOK
<1>3. Risk \in Nat /\ Risk' \in Nat BY <1>2, RiskParts DEF Risk
<1>4. Budget \in Nat BY BudgetGrows DEF RedisInv
<1>5. Budget' \in Nat
  <2>1. Cardinality(Hosts) \in Nat BY WorkersAssumption, FS_CardinalityType DEF Hosts
  <2> QED BY <2>1, CostlyFaults DEF Budget
<1>6. Risk <= Budget BY DEF RedisInv, RiskInv, Risk
<1>7. \A r, b, s, c \in Nat : s - c <= r - b /\ r <= b => s <= c OBVIOUS
<1>8. Risk' <= Budget' BY <1>3, <1>4, <1>5, <1>6, <1>7
<1> QED BY <1>8 DEF RiskInv, Risk

\* The steps of a worker that move no mail.
LEMMA RiskOfCalls ==
  ASSUME RedisInv, Redis!TypeOK', NEW w \in Hosts,
         \/ Redis!Call(w) \/ Redis!PullFails(w) \/ Redis!Pulled(w) \/ Redis!GotIt(w)
         \/ Redis!Parse(w)
  PROVE  RiskInv'
<1> USE DEF Redis!callVars, Redis!orphanVars, Redis!lifeVars
<1>1. /\ UNCHANGED <<intake, queue, pending, hand, orphans, back, phaseR, faults>>
      /\ parsedR \subseteq parsedR'
  BY DEF Redis!Call, Redis!PullFails, Redis!Pulled, Redis!GotIt, Redis!Parse
<1>2. Redis!Vanished' \subseteq Redis!Vanished
  BY <1>1 DEF Redis!Vanished, Redis!Accepted, Redis!InHand, Redis!ToSet
<1>3. wpcR \in [Hosts -> {"idle", "pull", "store", "work", "ack", "returned"}]
  BY DEF RedisInv, Redis!TypeOK, Redis!Workers, Hosts
<1>4. AtRisk' \subseteq AtRisk
  <2>1. CASE Redis!Call(w) BY <1>1, <1>3, <2>1 DEF AtRisk, Redis!Call
  <2>2. CASE Redis!PullFails(w) BY <1>1, <1>3, <2>2 DEF AtRisk, Redis!PullFails
  <2>3. CASE Redis!Pulled(w) BY <1>1, <1>3, <2>3 DEF AtRisk, Redis!Pulled
  <2>4. CASE Redis!GotIt(w) BY <1>1, <1>3, <2>4 DEF AtRisk, Redis!GotIt
  <2>5. CASE Redis!Parse(w) BY <1>1, <1>3, <2>5 DEF AtRisk, Redis!Parse
  <2> QED BY <2>1, <2>2, <2>3, <2>4, <2>5
<1>5. /\ IsFiniteSet(Redis!Vanished') /\ Cardinality(Redis!Vanished') \in Nat
      /\ Cardinality(Redis!Vanished') <= Cardinality(Redis!Vanished)
      /\ Cardinality(AtRisk') \in Nat /\ Cardinality(AtRisk') <= Cardinality(AtRisk)
  BY <1>2, <1>4, RiskParts, Sizes
<1>6. Budget \in Nat /\ Budget' = Budget BY <1>1, BudgetGrows DEF RedisInv
<1>7. Risk' - Budget' <= Risk - Budget BY <1>1, <1>5, <1>6, RiskParts DEF Risk
<1>8. phaseR' = "stopping" => gone' = Hosts
  BY <1>1 DEF RedisInv, RiskInv, Redis!Call, Redis!PullFails, Redis!Pulled, Redis!GotIt, Redis!Parse
<1> QED BY <1>1, <1>5, <1>7, <1>8, RiskOf, RiskParts

\* BLPop moves a mail from the list to a hand, and costs nothing.
LEMMA RiskOfBLPop ==
  ASSUME RedisInv, Redis!TypeOK', NEW w \in Hosts, Redis!BLPop(w)
  PROVE  RiskInv'
<1> USE DEF Redis!callVars, Redis!orphanVars, Redis!lifeVars
<1>0. Redis!TypeOK /\ CallInv /\ None \notin Mails /\ queue \in Seq(Mails)
  BY NoneAssumption DEF RedisInv, Redis!TypeOK
<1>1. /\ UNCHANGED <<intake, pending, wpcR, gone, orphans, back, phaseR, parsedR>>
      /\ wpcR[w] = "pull"
  BY <1>0 DEF Redis!BLPop, CallInv
<1>2. Redis!Vanished' \subseteq Redis!Vanished /\ AtRisk' \subseteq AtRisk /\ Budget' = Budget
  <2>1. CASE /\ queue # <<>> /\ hand' = [hand EXCEPT ![w] = Head(queue)]
             /\ queue' = Tail(queue) /\ UNCHANGED faults
    <3>1. Head(queue) \in Mails /\ OnList = {Head(queue)} \cup OnList'
      BY <1>0, <2>1, RedisList DEF OnList
    <3>2. hand[w] = None BY <1>0, <1>1 DEF CallInv, Redis!BLPop
    <3>3. Redis!InHand' = Redis!InHand \cup {Head(queue)}
      BY <1>0, <2>1, <3>1, <3>2, RedisHands
    <3>4. Redis!Vanished' \subseteq Redis!Vanished
      BY <1>1, <3>1, <3>3 DEF Redis!Vanished, Redis!Accepted, OnList
    <3>5. AtRisk' \subseteq AtRisk
      BY <1>0, <1>1, <2>1 DEF AtRisk, Redis!TypeOK, Redis!Workers, Hosts
    <3> QED BY <1>0, <1>1, <2>1, <3>4, <3>5, BudgetGrows
  <2>2. CASE Redis!Fault("blpop") /\ UNCHANGED <<hand, queue>>
    <3>1. Redis!Vanished' = Redis!Vanished /\ AtRisk' = AtRisk
      BY <1>1, <2>2 DEF Redis!Vanished, Redis!Accepted, Redis!InHand, Redis!ToSet, AtRisk
    <3>2. Budget' = Budget + 0 BY <1>0, <1>1, <2>2, BudgetGrows DEF Redis!Fault
    <3> QED BY <1>0, <3>1, <3>2, BudgetGrows
  <2> QED BY <2>1, <2>2 DEF Redis!BLPop
<1>3. /\ IsFiniteSet(Redis!Vanished') /\ Cardinality(Redis!Vanished') \in Nat
      /\ Cardinality(Redis!Vanished') <= Cardinality(Redis!Vanished)
      /\ Cardinality(AtRisk') \in Nat /\ Cardinality(AtRisk') <= Cardinality(AtRisk)
  BY <1>2, RiskParts, Sizes
<1>4. Budget \in Nat BY <1>0, BudgetGrows
<1>5. Risk' - Budget' <= Risk - Budget BY <1>1, <1>2, <1>3, <1>4, RiskParts DEF Risk
<1>6. phaseR' = "stopping" => gone' = Hosts BY <1>1 DEF RedisInv, RiskInv
<1> QED BY <1>1, <1>3, <1>5, <1>6, RiskOf, RiskParts

\* A call that is abandoned was at risk: its goroutine or its mail takes the place.
LEMMA RiskOfCanceled ==
  ASSUME RedisInv, Redis!TypeOK', NEW w \in Hosts, Redis!Canceled(w)
  PROVE  RiskInv'
<1> USE DEF Redis!callVars, Redis!orphanVars, Redis!lifeVars
<1>0. Redis!TypeOK /\ CallInv /\ None \notin Mails
  BY NoneAssumption DEF RedisInv
<1>1. /\ UNCHANGED <<intake, queue, pending, gone, phaseR, faults, parsedR>>
      /\ wpcR[w] = "pull" /\ w \in gone /\ hand' = [hand EXCEPT ![w] = None]
      /\ orphans' = orphans + (IF gpc[w] = "blpop" THEN 1 ELSE 0)
      /\ back' = back \cup (IF gpc[w] = "check" THEN {hand[w]} ELSE {})
  BY DEF Redis!Canceled
<1>2. Redis!InHand' = Redis!InHand \ {hand[w]} BY <1>0, <1>1, RedisHands
<1>3. OnList' = OnList /\ Redis!Accepted' = Redis!Accepted
  BY <1>1 DEF OnList, Redis!ToSet, Redis!Accepted
<1>4. w \in AtRisk /\ AtRisk' \subseteq AtRisk \ {w}
  BY <1>0, <1>1 DEF AtRisk, Redis!Canceled, Redis!TypeOK, Redis!Workers, Hosts
<1>5. Cardinality(AtRisk') \in Nat /\ Cardinality(AtRisk') <= Cardinality(AtRisk) - 1
  BY <1>4, RiskParts, Sizes
<1>6. Budget \in Nat /\ Budget' = Budget BY <1>0, <1>1, BudgetGrows
<1>7. phaseR' = "stopping" => gone' = Hosts BY <1>1 DEF RedisInv, RiskInv
<1>8. CASE gpc[w] = "check"
  <2>1. Redis!Vanished' \subseteq Redis!Vanished /\ back' \subseteq back \cup {hand[w]}
    BY <1>1, <1>2, <1>3, <1>8 DEF Redis!Vanished, OnList
  <2>2. /\ IsFiniteSet(Redis!Vanished') /\ Cardinality(Redis!Vanished') \in Nat
        /\ Cardinality(Redis!Vanished') <= Cardinality(Redis!Vanished)
        /\ IsFiniteSet(back') /\ Cardinality(back') \in Nat
        /\ Cardinality(back') <= Cardinality(back) + 1
    BY <2>1, RiskParts, Sizes
  <2>3. orphans' = orphans BY <1>1, <1>8, RiskParts
  <2>4. Risk' - Budget' <= Risk - Budget BY <1>5, <1>6, <2>2, <2>3, RiskParts DEF Risk
  <2> QED BY <1>7, <2>2, <2>4, RiskOf
<1>9. CASE gpc[w] = "blpop"
  <2>1. hand[w] = None BY <1>0, <1>1, <1>9 DEF CallInv
  <2>2. Redis!Vanished' \subseteq Redis!Vanished
    BY <1>1, <1>2, <1>3, <1>9, <2>1 DEF Redis!Vanished, OnList, Redis!InHand
  <2>3. /\ IsFiniteSet(Redis!Vanished') /\ Cardinality(Redis!Vanished') \in Nat
        /\ Cardinality(Redis!Vanished') <= Cardinality(Redis!Vanished)
    BY <2>2, RiskParts, Sizes
  <2>4. orphans' = orphans + 1 /\ back' = back BY <1>1, <1>9
  <2>5. Risk' - Budget' <= Risk - Budget BY <1>5, <1>6, <2>3, <2>4, RiskParts DEF Risk
  <2> QED BY <1>7, <2>3, <2>4, <2>5, RiskOf, RiskParts
<1>10. CASE gpc[w] \notin {"check", "blpop"}
  <2>1. orphans' = orphans /\ back' = back BY <1>1, <1>10, RiskParts
  <2>2. Redis!Vanished' \subseteq Redis!Vanished \cup {hand[w]}
    BY <1>1, <1>2, <1>3, <2>1 DEF Redis!Vanished, OnList
  <2>3. /\ IsFiniteSet(Redis!Vanished') /\ Cardinality(Redis!Vanished') \in Nat
        /\ Cardinality(Redis!Vanished') <= Cardinality(Redis!Vanished) + 1
    BY <2>2, RiskParts, Sizes
  <2>4. Risk' - Budget' <= Risk - Budget BY <1>5, <1>6, <2>1, <2>3, RiskParts DEF Risk
  <2> QED BY <1>7, <2>1, <2>3, <2>4, RiskOf, RiskParts
<1> QED BY <1>8, <1>9, <1>10

\* A mail that is on record is not at risk; a failed HSET is paid for.
LEMMA RiskOfPending ==
  ASSUME RedisInv, Redis!TypeOK', NEW w \in Hosts, Redis!Pending(w)
  PROVE  RiskInv'
<1> USE DEF Redis!callVars, Redis!orphanVars, Redis!lifeVars
<1>0. Redis!TypeOK BY DEF RedisInv
<1>1. /\ UNCHANGED <<intake, queue, hand, gone, orphans, back, phaseR, parsedR>>
      /\ wpcR' = [wpcR EXCEPT ![w] = "work"] /\ pending \subseteq pending'
  BY DEF Redis!Pending
<1>2. Redis!Vanished' \subseteq Redis!Vanished
  BY <1>1 DEF Redis!Vanished, Redis!Accepted, Redis!InHand, Redis!ToSet
<1>3. /\ IsFiniteSet(Redis!Vanished') /\ Cardinality(Redis!Vanished') \in Nat
      /\ Cardinality(Redis!Vanished') <= Cardinality(Redis!Vanished)
  BY <1>2, RiskParts, Sizes
<1>4. Budget \in Nat BY <1>0, BudgetGrows
<1>5. phaseR' = "stopping" => gone' = Hosts BY <1>1 DEF RedisInv, RiskInv
<1>6. \A v \in Hosts : wpcR'[v] = IF v = w THEN "work" ELSE wpcR[v]
  BY <1>0, <1>1 DEF Redis!TypeOK, Redis!Workers, Hosts
<1>7. CASE pending' = pending \cup {hand[w]} /\ UNCHANGED faults
  <2>1. AtRisk' \subseteq AtRisk BY <1>1, <1>6, <1>7 DEF AtRisk
  <2>2. Cardinality(AtRisk') \in Nat /\ Cardinality(AtRisk') <= Cardinality(AtRisk)
    BY <2>1, RiskParts, Sizes
  <2>3. Budget' = Budget BY <1>0, <1>1, <1>7, BudgetGrows
  <2>4. Risk' - Budget' <= Risk - Budget BY <1>1, <1>3, <1>4, <2>2, <2>3, RiskParts DEF Risk
  <2> QED BY <1>1, <1>3, <1>5, <2>4, RiskOf, RiskParts
<1>8. CASE Redis!Fault("hset") /\ UNCHANGED pending
  <2>1. AtRisk' \subseteq AtRisk \cup {w} BY <1>1, <1>6, <1>8 DEF AtRisk
  <2>2. Cardinality(AtRisk') \in Nat /\ Cardinality(AtRisk') <= Cardinality(AtRisk) + 1
    BY <2>1, RiskParts, Sizes
  <2>3. Budget' = Budget + 1 BY <1>0, <1>1, <1>8, BudgetGrows DEF Redis!Fault
  <2>4. Risk' - Budget' <= Risk - Budget BY <1>1, <1>3, <1>4, <2>2, <2>3, RiskParts DEF Risk
  <2> QED BY <1>1, <1>3, <1>5, <2>4, RiskOf, RiskParts
<1> QED BY <1>7, <1>8 DEF Redis!Pending

\* What is acknowledged is parsed, and on no other worker's record.
LEMMA RiskOfACK ==
  ASSUME RedisInv, Redis!TypeOK', NEW w \in Hosts, Redis!ACK(w)
  PROVE  RiskInv'
<1> USE DEF Redis!callVars, Redis!orphanVars, Redis!lifeVars
<1>0. Redis!TypeOK /\ CallInv /\ PlaceInv BY DEF RedisInv
<1>1. /\ UNCHANGED <<intake, queue, gone, orphans, back, phaseR, parsedR>>
      /\ wpcR' = [wpcR EXCEPT ![w] = "idle"] /\ hand' = [hand EXCEPT ![w] = None]
      /\ pending \ {hand[w]} \subseteq pending' /\ hand[w] \in parsedR /\ hand[w] # None
  BY <1>0 DEF Redis!ACK, CallInv
<1>2. Redis!InHand' = Redis!InHand \ {hand[w]} BY <1>0, <1>1, RedisHands
<1>3. Redis!Vanished' \subseteq Redis!Vanished
  BY <1>1, <1>2 DEF Redis!Vanished, Redis!Accepted, Redis!ToSet
<1>4. \A v \in Hosts : /\ wpcR'[v] = IF v = w THEN "idle" ELSE wpcR[v]
                       /\ hand'[v] = IF v = w THEN None ELSE hand[v]
  BY <1>0, <1>1 DEF Redis!TypeOK, Redis!Workers, Hosts
<1>5. \A v \in Hosts : v # w => hand[v] # hand[w] BY <1>0, <1>1 DEF PlaceInv
<1>6. AtRisk' \subseteq AtRisk BY <1>1, <1>4, <1>5 DEF AtRisk
<1>7. /\ IsFiniteSet(Redis!Vanished') /\ Cardinality(Redis!Vanished') \in Nat
      /\ Cardinality(Redis!Vanished') <= Cardinality(Redis!Vanished)
      /\ Cardinality(AtRisk') \in Nat /\ Cardinality(AtRisk') <= Cardinality(AtRisk)
  BY <1>3, <1>6, RiskParts, Sizes
<1>8. Budget \in Nat /\ Budget' = Budget
  <2>1. CASE UNCHANGED faults BY <1>0, <1>1, <2>1, BudgetGrows
  <2>2. CASE Redis!Fault("hdel")
    <3>1. Budget \in Nat /\ Budget' = Budget + 0
      BY <1>0, <1>1, <2>2, BudgetGrows DEF Redis!Fault
    <3> QED BY <3>1
  <2> QED BY <2>1, <2>2 DEF Redis!ACK
<1>9. Risk' - Budget' <= Risk - Budget BY <1>1, <1>7, <1>8, RiskParts DEF Risk
<1>10. phaseR' = "stopping" => gone' = Hosts BY <1>1 DEF RedisInv, RiskInv
<1> QED BY <1>1, <1>7, <1>9, <1>10, RiskOf, RiskParts

\* A worker that is lost loses a mail that is on record, or was at risk.
LEMMA RiskOfDie ==
  ASSUME RedisInv, Redis!TypeOK', NEW w \in Hosts, Redis!Die(w)
  PROVE  RiskInv'
<1> USE DEF Redis!callVars, Redis!orphanVars, Redis!lifeVars
<1>0. Redis!TypeOK /\ CallInv BY DEF RedisInv
<1>1. /\ UNCHANGED <<intake, queue, pending, gone, orphans, back, phaseR, parsedR>>
      /\ wpcR' = [wpcR EXCEPT ![w] = "idle"] /\ hand' = [hand EXCEPT ![w] = None]
      /\ wpcR[w] = "work"
  BY DEF Redis!Die
<1>2. Redis!InHand' = Redis!InHand \ {hand[w]} BY <1>0, <1>1, RedisHands
<1>3. \A v \in Hosts : /\ wpcR'[v] = IF v = w THEN "idle" ELSE wpcR[v]
                       /\ hand'[v] = IF v = w THEN None ELSE hand[v]
  BY <1>0, <1>1 DEF Redis!TypeOK, Redis!Workers, Hosts
<1>4. AtRisk' \subseteq AtRisk \ {w} BY <1>1, <1>3 DEF AtRisk
<1>5. Budget \in Nat /\ Budget' = Budget
  <2>1. Budget \in Nat /\ Budget' = Budget + 0 BY <1>0, <1>1, BudgetGrows DEF Redis!Fault, Redis!Die
  <2> QED BY <2>1
<1>6. phaseR' = "stopping" => gone' = Hosts BY <1>1 DEF RedisInv, RiskInv
<1>7. CASE hand[w] \in pending
  <2>1. Redis!Vanished' \subseteq Redis!Vanished
    BY <1>1, <1>2, <1>7 DEF Redis!Vanished, Redis!Accepted, Redis!ToSet
  <2>2. AtRisk' \subseteq AtRisk BY <1>4
  <2>3. /\ IsFiniteSet(Redis!Vanished') /\ Cardinality(Redis!Vanished') \in Nat
        /\ Cardinality(Redis!Vanished') <= Cardinality(Redis!Vanished)
        /\ Cardinality(AtRisk') \in Nat /\ Cardinality(AtRisk') <= Cardinality(AtRisk)
    BY <2>1, <2>2, RiskParts, Sizes
  <2>4. Risk' - Budget' <= Risk - Budget BY <1>1, <1>5, <2>3, RiskParts DEF Risk
  <2> QED BY <1>1, <1>6, <2>3, <2>4, RiskOf, RiskParts
<1>8. CASE hand[w] \notin pending
  <2>1. Redis!Vanished' \subseteq Redis!Vanished \cup {hand[w]}
    BY <1>1, <1>2 DEF Redis!Vanished, Redis!Accepted, Redis!ToSet
  <2>2. w \in AtRisk BY <1>1, <1>8 DEF AtRisk
  <2>3. /\ IsFiniteSet(Redis!Vanished') /\ Cardinality(Redis!Vanished') \in Nat
        /\ Cardinality(Redis!Vanished') <= Cardinality(Redis!Vanished) + 1
    BY <2>1, RiskParts, Sizes
  <2>4. Cardinality(AtRisk') \in Nat /\ Cardinality(AtRisk') <= Cardinality(AtRisk) - 1
    BY <1>4, <2>2, RiskParts, Sizes
  <2>5. Risk' - Budget' <= Risk - Budget BY <1>1, <1>5, <2>3, <2>4, RiskParts DEF Risk
  <2> QED BY <1>1, <1>6, <2>3, <2>5, RiskOf, RiskParts
<1> QED BY <1>7, <1>8

\* A client that leaves puts one mail at risk.
LEMMA RiskOfLeave ==
  ASSUME RedisInv, Redis!TypeOK', NEW w \in Hosts, Redis!Leave(w)
  PROVE  RiskInv'
<1> USE DEF Redis!callVars, Redis!orphanVars, Redis!lifeVars
<1>0. Redis!TypeOK BY DEF RedisInv
<1>1. /\ UNCHANGED <<intake, queue, pending, wpcR, hand, orphans, back, phaseR, parsedR>>
      /\ gone' = gone \cup {w} /\ w \notin gone
  BY DEF Redis!Leave
<1>2. Redis!Vanished' = Redis!Vanished
  BY <1>1 DEF Redis!Vanished, Redis!Accepted, Redis!InHand, Redis!ToSet
<1>3. AtRisk' \subseteq AtRisk \cup {w} BY <1>1 DEF AtRisk
<1>4. Cardinality(AtRisk') \in Nat /\ Cardinality(AtRisk') <= Cardinality(AtRisk) + 1
  BY <1>3, RiskParts, Sizes
<1>5. Budget \in Nat /\ Budget' = Budget + 1 BY <1>0, <1>1, BudgetGrows DEF Redis!Fault, Redis!Leave
<1>6. Risk' - Budget' <= Risk - Budget BY <1>1, <1>2, <1>4, <1>5, RiskParts DEF Risk
<1>7. phaseR' = "stopping" => gone' = Hosts BY <1>1 DEF RedisInv, RiskInv
<1> QED BY <1>1, <1>2, <1>6, <1>7, RiskOf, RiskParts

\* A goroutine nobody waits for keeps its place in the count when it gets a
\* mail, and the mail its place when the goroutine fails to push it back.
LEMMA RiskOfOrphan ==
  ASSUME RedisInv, Redis!TypeOK', Redis!Orphan
  PROVE  RiskInv'
<1> USE DEF Redis!callVars, Redis!orphanVars, Redis!lifeVars
<1>0. Redis!TypeOK /\ PlaceInv /\ queue \in Seq(Mails) BY DEF RedisInv, Redis!TypeOK
<1>1. UNCHANGED <<intake, pending, wpcR, hand, gone, phaseR, parsedR>>
  BY DEF Redis!Orphan, Redis!OrphanPop, Redis!OrphanLeaves, Redis!PushBack
<1>2. /\ Redis!InHand' = Redis!InHand /\ Redis!Accepted' = Redis!Accepted /\ AtRisk' = AtRisk
  BY <1>1 DEF Redis!InHand, Redis!Accepted, AtRisk
<1>3. phaseR' = "stopping" => gone' = Hosts BY <1>1 DEF RedisInv, RiskInv
<1>4. CASE Redis!OrphanPop
  <2>1. /\ queue # <<>> /\ orphans' = orphans - 1 /\ back' = back \cup {Head(queue)}
        /\ queue' = Tail(queue) /\ UNCHANGED faults
    BY <1>4 DEF Redis!OrphanPop
  <2>2. OnList = {Head(queue)} \cup OnList' BY <1>0, <2>1, RedisList DEF OnList
  <2>3. Redis!Vanished' \subseteq Redis!Vanished
    BY <1>1, <1>2, <2>1, <2>2 DEF Redis!Vanished, OnList
  <2>4. /\ IsFiniteSet(Redis!Vanished') /\ Cardinality(Redis!Vanished') \in Nat
        /\ Cardinality(Redis!Vanished') <= Cardinality(Redis!Vanished)
    BY <2>3, RiskParts, Sizes
  <2>5. /\ IsFiniteSet(back') /\ Cardinality(back') \in Nat
        /\ Cardinality(back') <= Cardinality(back) + 1
    BY <2>1, RiskParts, Sizes
  <2>6. Budget \in Nat /\ Budget' = Budget BY <1>0, <1>1, <2>1, BudgetGrows
  <2>7. orphans' = orphans - 1 /\ AtRisk' = AtRisk BY <1>2, <2>1
  <2>8. Risk' - Budget' <= Risk - Budget BY <2>4, <2>5, <2>6, <2>7, RiskParts DEF Risk
  <2> QED BY <1>3, <2>4, <2>5, <2>8, RiskOf
<1>5. CASE Redis!OrphanLeaves
  <2>1. orphans' = orphans - 1 /\ UNCHANGED <<queue, back, faults>>
    BY <1>5 DEF Redis!OrphanLeaves
  <2>2. Redis!Vanished' = Redis!Vanished BY <1>1, <1>2, <2>1 DEF Redis!Vanished, Redis!ToSet
  <2>3. Budget \in Nat /\ Budget' = Budget BY <1>0, <1>1, <2>1, BudgetGrows
  <2>4. Risk' - Budget' <= Risk - Budget BY <1>2, <2>1, <2>2, <2>3, RiskParts DEF Risk
  <2> QED BY <1>3, <2>1, <2>2, <2>4, RiskOf, RiskParts
<1>6. ASSUME NEW m \in Mails, Redis!PushBack(m) PROVE RiskInv'
  <2>1. m \in back /\ back' = back \ {m} /\ UNCHANGED orphans BY <1>6 DEF Redis!PushBack
  <2>2. /\ IsFiniteSet(back') /\ Cardinality(back') \in Nat
        /\ Cardinality(back') <= Cardinality(back) - 1
    BY <2>1, RiskParts, Sizes
  <2>3. OnList \subseteq OnList'
    <3>1. queue' = Append(queue, m) \/ queue' = queue BY <1>6 DEF Redis!PushBack
    <3>2. CASE queue' = Append(queue, m) BY <1>0, <3>2, RedisList DEF OnList
    <3>3. CASE queue' = queue BY <3>3 DEF OnList
    <3> QED BY <3>1, <3>2, <3>3
  <2>4. Redis!Vanished' \subseteq Redis!Vanished \cup {m}
    BY <1>1, <1>2, <2>1, <2>3 DEF Redis!Vanished, OnList
  <2>5. /\ IsFiniteSet(Redis!Vanished') /\ Cardinality(Redis!Vanished') \in Nat
        /\ Cardinality(Redis!Vanished') <= Cardinality(Redis!Vanished) + 1
    BY <2>4, RiskParts, Sizes
  <2>6. Budget \in Nat /\ Budget' = Budget
    <3>1. CASE UNCHANGED faults BY <1>0, <1>1, <3>1, BudgetGrows
    <3>2. CASE Redis!Fault("back")
      <4>1. Budget \in Nat /\ Budget' = Budget + 0
        BY <1>0, <1>1, <3>2, BudgetGrows DEF Redis!Fault
      <4> QED BY <4>1
    <3> QED BY <1>6, <3>1, <3>2 DEF Redis!PushBack
  <2>7. Risk' - Budget' <= Risk - Budget BY <1>2, <2>1, <2>2, <2>5, <2>6, RiskParts DEF Risk
  <2> QED BY <1>3, <2>2, <2>5, <2>7, RiskOf
<1> QED BY <1>4, <1>5, <1>6 DEF Redis!Orphan

\* What a stop, a panic or a restart changes in the budget.
LEMMA BudgetEnds ==
  ASSUME Redis!TypeOK
  PROVE  /\ phaseR = "up" /\ phaseR' # "up" /\ UNCHANGED faults
              => Budget' = Budget + Cardinality(Hosts)
         /\ phaseR = "up" /\ phaseR' # "up" /\ faults' = faults \cup {"stop"}
              => Budget' = Budget + Cardinality(Hosts)
         /\ phaseR # "up" /\ phaseR' # "up" /\ UNCHANGED faults => Budget' = Budget
         /\ (/\ phaseR # "up" /\ phaseR' = "up"
             /\ "restart" \notin faults /\ faults' = faults \cup {"restart"})
              => Budget' = Budget
         /\ Cardinality(Hosts) \in Nat
<1>1. Cardinality(Hosts) \in Nat BY WorkersAssumption, FS_CardinalityType DEF Hosts
<1>2. \A f \in {"stop", "restart"} :
        (faults \cup {f}) \cap {"leave", "hset"} = faults \cap {"leave", "hset"}
  OBVIOUS
<1>3. "restart" \in faults \cup {"stop"} <=> "restart" \in faults OBVIOUS
<1>4. /\ "restart" \in faults \cup {"restart"}
      /\ Cardinality(faults \cap {"leave", "hset"}) \in Nat
  BY CostlyFaults
<1> QED BY <1>1, <1>2, <1>3, <1>4 DEF Budget

\* The steps of nobody in particular that move no mail.
LEMMA RiskOfRest ==
  ASSUME RedisInv, Redis!TypeOK',
         \/ \E m \in Mails : Redis!Push(m) \/ Redis!Age(m)
         \/ Redis!rePush \/ Redis!Restart \/ Redis!Stop
  PROVE  RiskInv'
<1> USE DEF Redis!callVars, Redis!orphanVars, Redis!lifeVars
<1>0. Redis!TypeOK /\ PlaceInv /\ queue \in Seq(Mails) BY DEF RedisInv, Redis!TypeOK
<1>1. UNCHANGED <<pending, wpcR, hand, orphans, back, parsedR>>
  BY DEF Redis!Push, Redis!Age, Redis!rePush, Redis!Restart, Redis!Stop
<1>2. Redis!InHand' = Redis!InHand BY <1>1 DEF Redis!InHand
<1>3. UNCHANGED <<intake, queue>> => Redis!Vanished' = Redis!Vanished
  BY <1>1, <1>2 DEF Redis!Vanished, Redis!Accepted, Redis!ToSet
<1>4. Budget \in Nat BY <1>0, BudgetGrows
<1>5. ASSUME NEW m \in Mails, Redis!Push(m) PROVE RiskInv'
  <2>1. phaseR = "up" /\ UNCHANGED <<gone, phaseR>> BY <1>5 DEF Redis!Push
  <2>2. AtRisk' = AtRisk BY <1>1, <2>1 DEF AtRisk
  <2>3. Redis!Vanished' = Redis!Vanished /\ Budget' = Budget
    <3>1. intake \in [Mails -> {"new", "accepted", "refused"}] /\ intake[m] = "new"
      BY <1>0, <1>5 DEF Redis!TypeOK, Redis!Push
    <3>2. CASE intake' = [intake EXCEPT ![m] = "accepted"] /\ queue' = Append(queue, m)
               /\ UNCHANGED faults
      <4>1. Redis!Accepted' = Redis!Accepted \cup {m} /\ m \notin Redis!Accepted
        BY <3>1, <3>2 DEF Redis!Accepted
      <4>2. OnList' = OnList \cup {m} BY <1>0, <3>2, RedisList DEF OnList
      <4>3. Redis!Vanished' = Redis!Vanished
        BY <1>1, <1>2, <4>1, <4>2 DEF Redis!Vanished, OnList
      <4> QED BY <1>0, <2>1, <3>2, <4>3, BudgetGrows
    <3>3. CASE intake' = [intake EXCEPT ![m] = "refused"] /\ UNCHANGED queue
               /\ Redis!Fault("push")
      <4>1. Redis!Accepted' = Redis!Accepted BY <3>1, <3>3 DEF Redis!Accepted
      <4>2. Redis!Vanished' = Redis!Vanished
        BY <1>1, <1>2, <3>3, <4>1 DEF Redis!Vanished, Redis!ToSet
      <4>3. Budget' = Budget + 0 BY <1>0, <2>1, <3>3, BudgetGrows DEF Redis!Fault
      <4> QED BY <1>4, <4>2, <4>3
    <3> QED BY <1>5, <3>2, <3>3 DEF Redis!Push
  <2>4. Risk' - Budget' <= Risk - Budget BY <1>1, <1>4, <2>2, <2>3, RiskParts DEF Risk
  <2> QED BY <1>1, <2>1, <2>3, <2>4, RiskOf, RiskParts
<1>6. CASE Redis!rePush \/ \E m \in Mails : Redis!Age(m)
  <2>1. UNCHANGED <<intake, queue, gone, phaseR, faults>> BY <1>6 DEF Redis!rePush, Redis!Age
  <2>2. AtRisk' = AtRisk BY <1>1, <2>1 DEF AtRisk
  <2>3. Budget' = Budget BY <1>0, <2>1, BudgetGrows
  <2>4. Redis!Vanished' = Redis!Vanished BY <1>3, <2>1
  <2>5. Risk' - Budget' <= Risk - Budget BY <1>1, <1>4, <2>2, <2>3, <2>4, RiskParts DEF Risk
  <2>6. phaseR' = "stopping" => gone' = Hosts BY <2>1 DEF RedisInv, RiskInv
  <2> QED BY <1>1, <2>4, <2>5, <2>6, RiskOf, RiskParts
<1>7. CASE Redis!Restart
  <2>1. UNCHANGED <<intake, queue, gone>> /\ phaseR = "down" /\ phaseR' = "up"
    BY <1>7 DEF Redis!Restart
  <2>2. AtRisk' = AtRisk BY <1>1, <2>1 DEF AtRisk
  <2>3. Budget' = Budget BY <1>0, <1>7, <2>1, BudgetEnds DEF Redis!Restart, Redis!Fault
  <2>4. Redis!Vanished' = Redis!Vanished BY <1>3, <2>1
  <2>5. Risk' - Budget' <= Risk - Budget BY <1>1, <1>4, <2>2, <2>3, <2>4, RiskParts DEF Risk
  <2> QED BY <1>1, <2>1, <2>4, <2>5, RiskOf, RiskParts
<1>8. CASE Redis!Stop
  <2>1. UNCHANGED <<intake, queue>> /\ phaseR = "up" /\ phaseR' = "stopping" /\ gone' = Hosts
    BY <1>8 DEF Redis!Stop, Redis!Workers, Hosts
  <2>2. Cardinality(AtRisk') \in Nat /\ Cardinality(AtRisk') <= Cardinality(Hosts)
    <3>1. IsFiniteSet(Hosts) /\ AtRisk' \subseteq Hosts BY WorkersAssumption DEF AtRisk, Hosts
    <3> QED BY <3>1, Sizes
  <2>3. Budget' = Budget + Cardinality(Hosts) /\ Cardinality(Hosts) \in Nat
    BY <1>0, <1>8, <2>1, BudgetEnds DEF Redis!Stop, Redis!Fault
  <2>4. Redis!Vanished' = Redis!Vanished BY <1>3, <2>1
  <2>5. Risk' - Budget' <= Risk - Budget BY <1>1, <1>4, <2>2, <2>3, <2>4, RiskParts DEF Risk
  <2> QED BY <1>1, <2>1, <2>4, <2>5, RiskOf, RiskParts
<1> QED BY <1>5, <1>6, <1>7, <1>8

(* At the end of the process what vanishes was in a hand or on its way back: *)
(* one mail for each worker, or, once the process is stopping, what was at   *)
(* risk.                                                                     *)
LEMMA RiskOfEnds ==
  ASSUME RedisInv, Redis!TypeOK', Redis!RePushPanics \/ Redis!Close
  PROVE  RiskInv'
<1>0. Redis!TypeOK /\ CallInv BY DEF RedisInv
<1>1. /\ UNCHANGED <<intake, queue, pending, parsedR, faults>> /\ back' = {} /\ orphans' = 0
      /\ gone' = {} /\ wpcR' = [w \in Hosts |-> "idle"]
      /\ phaseR \in {"up", "stopping"} /\ phaseR' \in {"down", "closed"}
      /\ phaseR = "up" => phaseR' = "down"
  BY <1>0 DEF Redis!RePushPanics, Redis!Close, Redis!Ended, Redis!NoCalls, Redis!Serving,
     Redis!Workers, Hosts
<1>2. AtRisk' = {} BY <1>1 DEF AtRisk
<1>3. Redis!Accepted' = Redis!Accepted /\ Redis!ToSet(queue)' = Redis!ToSet(queue)
  BY <1>1 DEF Redis!Accepted, Redis!ToSet
<1>4. ASSUME NEW S \in SUBSET Hosts,
             \A w \in Hosts : hand[w] # None => w \in S \/ hand[w] \in pending \cup parsedR
      PROVE  /\ IsFiniteSet(Redis!Vanished') /\ Cardinality(Redis!Vanished') \in Nat
             /\ Cardinality(Redis!Vanished') <=
                  Cardinality(Redis!Vanished) + Cardinality(back) + Cardinality(S)
  <2> DEFINE H == {hand[w] : w \in S}
             V == Redis!Vanished
  <2>1. IsFiniteSet(H) /\ Cardinality(H) \in Nat /\ Cardinality(H) <= Cardinality(S) BY HandsOf
  <2>2. IsFiniteSet(V) /\ IsFiniteSet(back) /\ Cardinality(V) \in Nat /\ Cardinality(back) \in Nat
    BY RiskParts
  <2>3. Redis!InHand \subseteq H \cup pending \cup parsedR
    BY <1>4 DEF Redis!InHand, Redis!Workers, Hosts
  <2>4. Redis!Vanished' \subseteq (V \cup back) \cup H
    BY <1>1, <1>3, <2>3 DEF Redis!Vanished
  <2> HIDE DEF H, V
  <2>5. /\ IsFiniteSet(V \cup back) /\ Cardinality(V \cup back) \in Nat
        /\ Cardinality(V \cup back) <= Cardinality(V) + Cardinality(back)
    <3>1. /\ IsFiniteSet(V \cup back)
          /\ Cardinality(V \cup back) = Cardinality(V) + Cardinality(back) - Cardinality(V \cap back)
      BY <2>2, FS_Union
    <3>2. Cardinality(V \cap back) \in Nat BY <2>2, FS_Intersection, FS_CardinalityType
    <3>3. Cardinality(V \cup back) \in Nat BY <3>1, FS_CardinalityType
    <3> QED BY <2>2, <3>1, <3>2, <3>3
  <2>6. /\ IsFiniteSet((V \cup back) \cup H) /\ Cardinality((V \cup back) \cup H) \in Nat
        /\ Cardinality((V \cup back) \cup H) <= Cardinality(V \cup back) + Cardinality(H)
    <3>1. /\ IsFiniteSet((V \cup back) \cup H)
          /\ Cardinality((V \cup back) \cup H) =
               Cardinality(V \cup back) + Cardinality(H) - Cardinality((V \cup back) \cap H)
      BY <2>1, <2>5, FS_Union
    <3>2. Cardinality((V \cup back) \cap H) \in Nat BY <2>5, FS_Intersection, FS_CardinalityType
    <3>3. Cardinality((V \cup back) \cup H) \in Nat BY <3>1, FS_CardinalityType
    <3> QED BY <2>1, <2>5, <3>1, <3>2, <3>3
  <2>7. /\ IsFiniteSet(Redis!Vanished') /\ Cardinality(Redis!Vanished') \in Nat
        /\ Cardinality(Redis!Vanished') <= Cardinality((V \cup back) \cup H)
    BY <2>4, <2>6, FS_Subset, FS_CardinalityType
  <2>8. Cardinality(S) \in Nat BY WorkersAssumption, FS_Subset, FS_CardinalityType DEF Hosts
  <2>9. Cardinality(Redis!Vanished') <= Cardinality(V) + Cardinality(back) + Cardinality(S)
    BY <2>1, <2>2, <2>5, <2>6, <2>7, <2>8
  <2> QED BY <2>7, <2>9 DEF V
<1>5. Budget \in Nat BY <1>0, BudgetGrows
<1>6. Cardinality(back') = 0 /\ Cardinality(AtRisk') = 0 /\ IsFiniteSet(back')
  BY <1>1, <1>2, FS_EmptySet
<1>7. CASE phaseR = "up"
  <2>1. Budget' = Budget + Cardinality(Hosts) /\ Cardinality(Hosts) \in Nat
    BY <1>0, <1>1, <1>7, BudgetEnds
  <2>2. /\ IsFiniteSet(Redis!Vanished') /\ Cardinality(Redis!Vanished') \in Nat
        /\ Cardinality(Redis!Vanished') <=
             Cardinality(Redis!Vanished) + Cardinality(back) + Cardinality(Hosts)
    BY <1>4
  <2>3. Risk' - Budget' <= Risk - Budget
    BY <1>1, <1>5, <1>6, <2>1, <2>2, RiskParts DEF Risk
  <2> QED BY <1>1, <1>6, <2>2, <2>3, RiskOf
<1>8. CASE phaseR = "stopping"
  <2>1. Budget' = Budget BY <1>0, <1>1, <1>8, BudgetEnds
  <2>2. \A w \in Hosts : hand[w] # None => w \in AtRisk \/ hand[w] \in pending \cup parsedR
    <3>1. gone = Hosts BY <1>8 DEF RedisInv, RiskInv
    <3>2. \A w \in Hosts : hand[w] # None => wpcR[w] \in {"pull", "store", "work", "ack"}
      BY <1>0 DEF CallInv
    <3> QED BY <1>0, <3>1, <3>2 DEF CallInv, AtRisk
  <2>3. AtRisk \in SUBSET Hosts BY DEF AtRisk
  <2>4. /\ IsFiniteSet(Redis!Vanished') /\ Cardinality(Redis!Vanished') \in Nat
        /\ Cardinality(Redis!Vanished') <=
             Cardinality(Redis!Vanished) + Cardinality(back) + Cardinality(AtRisk)
    BY <1>4, <2>2, <2>3
  <2>5. Risk' - Budget' <= Risk - Budget
    BY <1>1, <1>5, <1>6, <2>1, <2>4, RiskParts DEF Risk
  <2> QED BY <1>1, <1>6, <2>4, <2>5, RiskOf
<1> QED BY <1>1, <1>7, <1>8

-----------------------------------------------------------------------------
\* How many elements a set has, for the component as for the theorems cited.
LEMMA RedisCardinality == \A S : Redis!Cardinality(S) = Cardinality(S)
BY DEF Redis!Cardinality, Cardinality

\* The bound as the component states it.
LEMMA WithinBudget == RedisInv => Redis!VanishedIsAccounted
<1> SUFFICES ASSUME RedisInv PROVE Redis!VanishedIsAccounted OBVIOUS
<1> DEFINE N == Cardinality(Hosts)
           F == Cardinality(faults \cap {"leave", "hset"})
           a == IF phaseR = "up" THEN 0 ELSE 1
           b == IF "restart" \in faults THEN 1 ELSE 0
<1>1. N \in Nat /\ F \in Nat
  BY CostlyFaults, BudgetEnds DEF RedisInv
<1>2. (a + b) * N = (IF phaseR = "up" THEN 0 ELSE N) + (IF "restart" \in faults THEN N ELSE 0)
  BY <1>1
<1>3. Cardinality(Redis!Vanished) + orphans + Cardinality(back) + Cardinality(AtRisk) <= Budget
  BY DEF RedisInv, RiskInv
<1>4. Budget = F + ((IF phaseR = "up" THEN 0 ELSE N) + (IF "restart" \in faults THEN N ELSE 0))
  BY <1>1 DEF Budget
<1>5. Budget \in Nat BY BudgetGrows DEF RedisInv
<1>6. Cardinality(Redis!Vanished) <= Budget
  <2>1. \A v, o, c, r, g \in Nat : v + o + c + r <= g => v <= g OBVIOUS
  <2> QED BY <1>3, <1>5, <2>1, RiskParts
<1>7. Cardinality(Redis!Vanished) <= F + (a + b) * N BY <1>2, <1>4, <1>6
<1> QED BY <1>7, RedisCardinality DEF Redis!VanishedIsAccounted, Redis!Workers, Hosts

(* A mail is in one place and is returned once, whoever cancels when, and    *)
(* what vanishes is no more than what the clients that left, the failed HSET *)
(* and the ends of the process may cost: for every number of mails, workers  *)
(* and faults.                                                               *)
THEOREM RedisMailsAccounted == Spec => []RedisAccounts
<1>1. Init => RedisInv BY RedisStarts DEF Init
<1>2. RedisInv /\ [Next]_vars => RedisInv'
  <2>1. ASSUME RedisInv, UNCHANGED redis PROVE RedisInv'
    <3>1. Redis!TypeOK' BY <2>1 DEF redis, RedisInv, Redis!TypeOK
    <3>2. CallInv' BY <2>1 DEF redis, RedisInv, CallInv
    <3>3. PlaceInv' BY <2>1, PlaceFrame DEF redis
    <3>4. Redis!Vanished' = Redis!Vanished /\ AtRisk' = AtRisk /\ Budget' = Budget
      BY <2>1 DEF redis, AtRisk, Budget, Redis!Vanished, Redis!InHand, Redis!Accepted, Redis!ToSet
    <3>5. RiskInv' BY <2>1, <3>4 DEF redis, RedisInv, RiskInv
    <3> QED BY <3>1, <3>2, <3>3, <3>5 DEF RedisInv
  <2>2. ASSUME RedisInv, Redis!Next PROVE RedisInv'
    <3>1. Redis!TypeOK' /\ CallInv' /\ PlaceInv'
      BY <2>2, RedisTypes, RedisCalls, RedisPlaces
    <3>2. RiskInv'
      <4>1. ASSUME NEW w \in Hosts, WorkerStep(w) PROVE RiskInv'
        BY <2>2, <3>1, <4>1, RiskOfCalls, RiskOfBLPop, RiskOfCanceled, RiskOfPending,
          RiskOfACK, RiskOfDie, RiskOfLeave
          DEF WorkerStep, Redis!Caller, Redis!Pull, Redis!Getter
      <4> QED BY <2>2, <3>1, <4>1, RiskOfOrphan, RiskOfRest, RiskOfEnds
            DEF Redis!Next, WorkerStep, Redis!Workers, Hosts
    <3> QED BY <3>1, <3>2 DEF RedisInv
  <2> QED BY <2>1, <2>2 DEF Next, vars
<1>3. RedisInv => RedisAccounts
  BY WithinBudget DEF RedisInv, RedisAccounts, Redis!OnePlace, PlaceInv, OnList,
    Redis!Workers, Hosts
<1> QED BY <1>1, <1>2, <1>3, PTL DEF Spec
=============================================================================
