------------------------ MODULE SMTPForwarderProofs ------------------------
(***************************************************************************)
(* Theorems about SMTPForwarder, for every set of mails, every set of those *)
(* the remote server refuses and every capacity of the channel: however     *)
(* often a batch fails, no mail is dropped and none is sent twice.          *)
(***************************************************************************)
EXTENDS SMTPForwarder, SequenceTheorems, TLAPS

(* The mails that failed, as long as they are not in the batch again. *)
Held == IF pc \in {"dial", "send"} THEN <<>> ELSE rest

Queues == {mailsChan, batchOfMessages, Held, sent}

(* No mail is twice in a queue, or in two of them, or in one while it is
   still to come or at the send of Forward. *)
OnceEach ==
  /\ IsInjective(mailsChan) /\ IsInjective(batchOfMessages)
  /\ IsInjective(Held) /\ IsInjective(sent)
  /\ ToSet(mailsChan) \cap ToSet(batchOfMessages) = {}
  /\ ToSet(mailsChan) \cap ToSet(Held) = {}
  /\ ToSet(mailsChan) \cap ToSet(sent) = {}
  /\ ToSet(batchOfMessages) \cap ToSet(Held) = {}
  /\ ToSet(batchOfMessages) \cap ToSet(sent) = {}
  /\ ToSet(Held) \cap ToSet(sent) = {}
  /\ \A s \in Queues : ToSet(s) \cap (todo \cup calling \cup panicked) = {}
  /\ todo \cap calling = {} /\ todo \cap panicked = {} /\ calling \cap panicked = {}

(* And every mail is somewhere. *)
AllKept ==
  ToSet(mailsChan) \cup ToSet(batchOfMessages) \cup ToSet(Held) \cup ToSet(sent)
    \cup todo \cup calling \cup panicked = Mails

IInv == TypeOK /\ OnceEach /\ AllKept /\ ToSet(sent) \cap refused = {}
-----------------------------------------------------------------------------
(* What a queue holds after a send.                                         *)
LEMMA AppendSet ==
  ASSUME NEW S, NEW s \in Seq(S), NEW x \in S
  PROVE  /\ Append(s, x) \in Seq(S) /\ Len(Append(s, x)) = Len(s) + 1
         /\ ToSet(Append(s, x)) = ToSet(s) \cup {x}
         /\ IsInjective(s) /\ x \notin ToSet(s) => IsInjective(Append(s, x))
<1>1. /\ DOMAIN s = 1..Len(s) /\ DOMAIN Append(s, x) = 1..(Len(s) + 1)
      /\ \A i \in 1..Len(s) : Append(s, x)[i] = s[i]
      /\ Append(s, x)[Len(s) + 1] = x /\ Len(s) \in Nat
      /\ Append(s, x) \in Seq(S) /\ Len(Append(s, x)) = Len(s) + 1
  OBVIOUS
<1>2. 1..(Len(s) + 1) = (1..Len(s)) \cup {Len(s) + 1}
  BY <1>1
<1> DEFINE t == Append(s, x)
<1>3. /\ DOMAIN t = DOMAIN s \cup {Len(s) + 1} /\ t[Len(s) + 1] = x
      /\ \A i \in DOMAIN s : t[i] = s[i]
  BY <1>1, <1>2
<1> HIDE DEF t
<1>4. ToSet(t) = ToSet(s) \cup {x}
  BY <1>3 DEF ToSet
<1>5. IsInjective(s) /\ x \notin ToSet(s) => IsInjective(t)
  BY <1>3 DEF ToSet, IsInjective
<1> QED BY <1>1, <1>4, <1>5 DEF t

(* What it holds after a receive. *)
LEMMA TailSet ==
  ASSUME NEW S, NEW s \in Seq(S), s # <<>>
  PROVE  /\ Head(s) \in S /\ Tail(s) \in Seq(S) /\ Len(Tail(s)) < Len(s)
         /\ ToSet(s) = ToSet(Tail(s)) \cup {Head(s)}
         /\ IsInjective(s) => IsInjective(Tail(s)) /\ Head(s) \notin ToSet(Tail(s))
<1>1. /\ DOMAIN s = 1..Len(s) /\ DOMAIN Tail(s) = 1..(Len(s) - 1)
      /\ \A i \in 1..(Len(s) - 1) : Tail(s)[i] = s[i + 1]
      /\ Head(s) = s[1] /\ Len(s) \in Nat \ {0} /\ Len(Tail(s)) = Len(s) - 1
      /\ Head(s) \in S /\ Tail(s) \in Seq(S)
  OBVIOUS
<1>2. \A i \in DOMAIN Tail(s) : /\ i \in Nat /\ i + 1 \in DOMAIN s /\ i + 1 # 1
                                /\ Tail(s)[i] = s[i + 1]
  BY <1>1
<1>3. \A i \in DOMAIN s : i = 1 \/ (i - 1 \in DOMAIN Tail(s) /\ Tail(s)[i - 1] = s[i])
  <2>1. ASSUME NEW i \in 1..Len(s), i # 1
        PROVE  i - 1 \in 1..(Len(s) - 1) /\ (i - 1) + 1 = i
    BY <1>1, <2>1
  <2> QED BY <1>1, <2>1
<1>4. 1 \in DOMAIN s BY <1>1
<1> DEFINE t == Tail(s)  h == Head(s)
<1>5. h = s[1] BY <1>1
<1> HIDE DEF t, h
<1>6. ToSet(s) \subseteq ToSet(t) \cup {h}
  BY <1>3, <1>5 DEF ToSet, t
<1>7. ToSet(t) \cup {h} \subseteq ToSet(s)
  BY <1>2, <1>4, <1>5 DEF ToSet, t
<1>8. ASSUME IsInjective(s), NEW i \in DOMAIN t, NEW j \in DOMAIN t, t[i] = t[j] PROVE i = j
  <2>1. i + 1 = j + 1 BY <1>2, <1>8 DEF IsInjective, t
  <2> QED BY <1>2, <2>1 DEF t
<1>9. IsInjective(s) => h \notin ToSet(t)
  BY <1>2, <1>4, <1>5 DEF IsInjective, ToSet, t
<1> QED BY <1>1, <1>6, <1>7, <1>8, <1>9 DEF t, h, IsInjective

(* What two queues hold, one behind the other. *)
LEMMA ConcatSet ==
  ASSUME NEW S, NEW s \in Seq(S), NEW t \in Seq(S)
  PROVE  /\ s \o t \in Seq(S)
         /\ ToSet(s \o t) = ToSet(s) \cup ToSet(t)
         /\ IsInjective(s) /\ IsInjective(t) /\ ToSet(s) \cap ToSet(t) = {}
              => IsInjective(s \o t)
<1> DEFINE u == s \o t
<1>1. /\ u \in Seq(S) /\ DOMAIN s = 1..Len(s) /\ DOMAIN t = 1..Len(t)
      /\ Len(s) \in Nat /\ Len(t) \in Nat /\ DOMAIN u = 1..(Len(s) + Len(t))
      /\ \A i \in 1..(Len(s) + Len(t)) :
           u[i] = IF i <= Len(s) THEN s[i] ELSE t[i - Len(s)]
  BY ConcatProperties
<1> HIDE DEF u
<1>2. \A i \in DOMAIN u : i \in Int /\ \/ i \in DOMAIN s /\ u[i] = s[i]
                                       \/ i - Len(s) \in DOMAIN t /\ u[i] = t[i - Len(s)]
  BY <1>1
<1>3. \A i \in DOMAIN s : i \in DOMAIN u /\ u[i] = s[i]
  BY <1>1
<1>4. ASSUME NEW i \in DOMAIN t PROVE i + Len(s) \in DOMAIN u /\ u[i + Len(s)] = t[i]
  <2>1. /\ i + Len(s) \in 1..(Len(s) + Len(t)) /\ ~(i + Len(s) <= Len(s))
        /\ (i + Len(s)) - Len(s) = i
    BY <1>1, <1>4
  <2> QED BY <1>1, <2>1
<1>5. ToSet(u) = ToSet(s) \cup ToSet(t)
  BY <1>2, <1>3, <1>4 DEF ToSet
<1>6. ASSUME IsInjective(s), IsInjective(t), ToSet(s) \cap ToSet(t) = {},
             NEW i \in DOMAIN u, NEW j \in DOMAIN u, u[i] = u[j]
      PROVE  i = j
  <2>1. \A k \in DOMAIN s, l \in DOMAIN t : s[k] # t[l]
    BY <1>6 DEF ToSet
  <2>2. CASE i \in DOMAIN s /\ u[i] = s[i] /\ j \in DOMAIN s /\ u[j] = s[j]
    BY <1>6, <2>2 DEF IsInjective
  <2>3. CASE i - Len(s) \in DOMAIN t /\ u[i] = t[i - Len(s)]
             /\ j - Len(s) \in DOMAIN t /\ u[j] = t[j - Len(s)]
    <3>1. i - Len(s) = j - Len(s) BY <1>6, <2>3 DEF IsInjective
    <3> QED BY <1>1, <1>2, <3>1
  <2> QED BY <1>2, <1>6, <2>1, <2>2, <2>3
<1> QED BY <1>1, <1>5, <1>6 DEF u, IsInjective

(* Nothing is in an empty queue. *)
LEMMA EmptySet ==
  /\ \A S : <<>> \in Seq(S)
  /\ ToSet(<<>>) = {} /\ IsInjective(<<>>) /\ Len(<<>>) = 0
  /\ \A s, t : s = <<>> /\ t = <<>> => s \o t = <<>>
BY DEF ToSet, IsInjective

(* Two queues are empty together. *)
LEMMA ConcatEmpty ==
  ASSUME NEW S, NEW s \in Seq(S), NEW t \in Seq(S), s \o t = <<>>
  PROVE  s = <<>> /\ t = <<>>
BY ConcatEqualIffEmpty
-----------------------------------------------------------------------------
(* The goroutine starts with every mail still to come. *)
LEMMA InitInv == Init => IInv
<1> SUFFICES ASSUME Init PROVE IInv
  OBVIOUS
<1>1. /\ mailsChan = <<>> /\ batchOfMessages = <<>> /\ Held = <<>> /\ sent = <<>>
      /\ todo = Mails /\ calling = {} /\ panicked = {}
  BY DEF Init, Held
<1>2. TypeOK
  <2>1. <<>> \in Seq(Mails) /\ Len(<<>>) <= Size BY EmptySet, SizeAssumption
  <2> QED BY <2>1 DEF Init, TypeOK
<1>3. OnceEach BY <1>1, EmptySet DEF OnceEach, Queues
<1>4. AllKept BY <1>1, EmptySet DEF AllKept
<1> QED BY <1>1, <1>2, <1>3, <1>4, EmptySet DEF IInv

(* No step of Start, of an intake handler or of the stop breaks it. *)
LEMMA StepInv == IInv /\ [Next]_vars => IInv'
<1> SUFFICES ASSUME IInv, [Next]_vars PROVE IInv'
  OBVIOUS
<1> USE DEF IInv, intakeVars, serverVars
<1>0. /\ refused \subseteq Mails
      /\ mailsChan \in Seq(Mails) /\ batchOfMessages \in Seq(Mails) /\ rest \in Seq(Mails)
      /\ sent \in Seq(Mails) /\ Held \in Seq(Mails)
  BY EmptySet DEF TypeOK, Held
<1>1. ASSUME NEW m \in Mails, Call(m) PROVE IInv'
  BY <1>1 DEF Call, TypeOK, OnceEach, AllKept, Queues, Held
<1>2. ASSUME NEW m \in Mails, Forward(m) PROVE IInv'
  <2>1. m \notin ToSet(mailsChan) BY <1>2 DEF Forward, OnceEach, Queues
  <2>2. /\ mailsChan' \in Seq(Mails) /\ Len(mailsChan') = Len(mailsChan) + 1
        /\ ToSet(mailsChan)' = ToSet(mailsChan) \cup {m} /\ IsInjective(mailsChan)'
    BY <1>0, <1>2, <2>1, AppendSet DEF Forward, OnceEach
  <2>3. /\ m \in calling /\ calling' = calling \ {m}
        /\ UNCHANGED <<Held, ToSet(batchOfMessages), ToSet(Held), ToSet(sent), refused, silent, todo,
                       panicked, batchOfMessages, rest, pc, ctxDone, closed, sent>>
    BY <1>2 DEF Forward, Held
  <2>4. Len(mailsChan') <= Size
    <3>1. Len(mailsChan) \in Nat BY <1>0
    <3> QED BY <1>2, <2>2, <3>1, SizeAssumption DEF Forward
  <2>5. TypeOK' BY <2>2, <2>3, <2>4 DEF TypeOK
  <2>6. OnceEach' BY <2>2, <2>3 DEF OnceEach, Queues
  <2>7. AllKept' BY <2>2, <2>3 DEF AllKept
  <2> QED BY <2>3, <2>5, <2>6, <2>7
<1>3. ASSUME NEW m \in Mails, ForwardPanic(m) PROVE IInv'
  BY <1>3 DEF ForwardPanic, TypeOK, OnceEach, AllKept, Queues, Held
<1>4. CASE Receive
  <2> PICK h \in Mails : h = Head(mailsChan)
    BY <1>0, <1>4, TailSet DEF Receive
  <2>1. /\ mailsChan' \in Seq(Mails) /\ Len(mailsChan') < Len(mailsChan)
        /\ ToSet(mailsChan) = ToSet(mailsChan)' \cup {h} /\ IsInjective(mailsChan)'
        /\ h \notin ToSet(mailsChan)'
    BY <1>0, <1>4, TailSet DEF Receive, OnceEach
  <2>2. h \notin ToSet(batchOfMessages) BY <2>1 DEF OnceEach
  <2>3. /\ batchOfMessages' \in Seq(Mails) /\ IsInjective(batchOfMessages)'
        /\ ToSet(batchOfMessages)' = ToSet(batchOfMessages) \cup {h}
    BY <1>0, <1>4, <2>2, AppendSet DEF Receive, OnceEach
  <2>4. UNCHANGED <<Held, ToSet(Held), ToSet(sent), refused, silent, todo, calling, panicked, rest, pc,
                    ctxDone, closed, sent>>
    BY <1>4 DEF Receive, Held
  <2>5. Len(mailsChan') <= Size
    <3>1. Len(mailsChan) \in Nat /\ Len(mailsChan') \in Nat BY <1>0, <2>1
    <3> QED BY <2>1, <3>1, SizeAssumption DEF TypeOK
  <2>6. TypeOK' BY <2>1, <2>3, <2>4, <2>5 DEF TypeOK
  <2>7. OnceEach' BY <2>1, <2>3, <2>4 DEF OnceEach, Queues
  <2>8. AllKept' BY <2>1, <2>3, <2>4 DEF AllKept
  <2> QED BY <2>4, <2>6, <2>7, <2>8
<1>5. CASE Drained
  <2>1. Held = rest BY <1>5 DEF Drained, Held
  <2>2. /\ batchOfMessages' \in Seq(Mails) /\ IsInjective(batchOfMessages)'
        /\ ToSet(batchOfMessages)' = ToSet(batchOfMessages) \cup ToSet(Held)
    BY <1>0, <1>5, <2>1, ConcatSet DEF Drained, OnceEach
  <2>3. /\ pc' \in {"idle", "dial"}
        /\ pc' = "idle" => rest = <<>>
        /\ Held' = <<>>
    <3>1. CASE batchOfMessages' = <<>>
      <4>1. rest = <<>> BY <1>0, <1>5, <3>1, ConcatEmpty DEF Drained
      <4> QED BY <1>5, <3>1, <4>1 DEF Drained, Held
    <3>2. CASE batchOfMessages' # <<>> BY <1>5, <3>2 DEF Drained, Held
    <3> QED BY <3>1, <3>2
  <2>4. /\ UNCHANGED <<ToSet(mailsChan), ToSet(sent), mailsChan, refused, silent, todo, calling, panicked,
                    rest, ctxDone, closed, sent>>
        /\ silent = FALSE
    BY <1>5 DEF Drained, TypeOK
  <2>5. ToSet(Held)' = {} /\ IsInjective(Held)' BY <2>3, EmptySet
  <2>6. TypeOK' BY <2>2, <2>3, <2>4 DEF TypeOK
  <2>7. OnceEach' BY <2>2, <2>4, <2>5 DEF OnceEach, Queues
  <2>8. AllKept' BY <2>2, <2>4, <2>5 DEF AllKept
  <2> QED BY <2>4, <2>6, <2>7, <2>8
<1>6. CASE Send
  <2> PICK h \in Mails : h = Head(batchOfMessages)
    BY <1>0, <1>6, TailSet DEF Send
  <2>1. /\ batchOfMessages' \in Seq(Mails) /\ IsInjective(batchOfMessages)'
        /\ ToSet(batchOfMessages) = ToSet(batchOfMessages)' \cup {h}
        /\ h \notin ToSet(batchOfMessages)'
    BY <1>0, <1>6, TailSet DEF Send, OnceEach
  <2>2. h \notin ToSet(sent) /\ h \notin refused BY <1>6, <2>1 DEF OnceEach, Send
  <2>3. /\ sent' \in Seq(Mails) /\ IsInjective(sent)' /\ ToSet(sent)' = ToSet(sent) \cup {h}
    BY <1>0, <1>6, <2>2, AppendSet DEF Send, OnceEach
  <2>4. /\ UNCHANGED <<Held, ToSet(Held), ToSet(mailsChan), mailsChan, refused, todo, calling,
                    panicked, rest, pc, ctxDone, closed>>
        /\ silent' = FALSE
    BY <1>6 DEF Send, Held
  <2>5. TypeOK' BY <2>1, <2>3, <2>4 DEF TypeOK
  <2>6. OnceEach' BY <2>1, <2>3, <2>4 DEF OnceEach, Queues
  <2>7. AllKept' BY <2>1, <2>3, <2>4 DEF AllKept
  <2> QED BY <2>2, <2>3, <2>4, <2>5, <2>6, <2>7
<1>7. CASE Fail
  <2>1. /\ Held = <<>> /\ Held' = batchOfMessages /\ rest' = batchOfMessages
        /\ batchOfMessages' = <<>> /\ pc' = "retry"
        /\ silent' = FALSE
        /\ UNCHANGED <<ToSet(mailsChan), ToSet(sent), refused, todo, calling, panicked, mailsChan,
                       ctxDone, closed, sent>>
    BY <1>7 DEF Fail, Held
  <2>2. /\ ToSet(batchOfMessages)' = {} /\ IsInjective(batchOfMessages)'
        /\ batchOfMessages' \in Seq(Mails)
        /\ ToSet(Held)' = ToSet(batchOfMessages) /\ ToSet(Held) = {}
        /\ IsInjective(Held)'
    BY <2>1, EmptySet DEF OnceEach
  <2>3. TypeOK' BY <2>1, <2>2 DEF TypeOK
  <2>4. OnceEach' BY <2>1, <2>2 DEF OnceEach, Queues
  <2>5. AllKept' BY <2>1, <2>2 DEF AllKept
  <2> QED BY <2>1, <2>3, <2>4, <2>5
<1>8. CASE AllSent \/ Connect \/ Waited \/ Return
  <2>1. /\ Held' = Held /\ rest' \in Seq(Mails)
        /\ UNCHANGED <<ToSet(mailsChan), ToSet(batchOfMessages), ToSet(sent), ToSet(Held),
                       IsInjective(Held), refused, todo, calling, panicked, mailsChan,
                       batchOfMessages, ctxDone, closed, sent>>
        /\ pc' \in {"drain", "send", "done"} /\ silent' = FALSE
    BY <1>8, EmptySet DEF AllSent, Connect, Waited, Return, Held, TypeOK
  <2>2. TypeOK' BY <2>1 DEF TypeOK
  <2>3. OnceEach' BY <2>1 DEF OnceEach, Queues
  <2>4. AllKept' BY <2>1 DEF AllKept
  <2> QED BY <2>1, <2>2, <2>3, <2>4
<1>9. CASE Stop \/ Close \/ Silent \/ UNCHANGED vars
  <2>1. /\ UNCHANGED <<refused, todo, calling, panicked, mailsChan, batchOfMessages, rest,
                       pc, sent>>
        /\ ctxDone' \in BOOLEAN /\ closed' \in BOOLEAN /\ silent' \in BOOLEAN
        /\ silent' => pc \in {"dial", "send"}
    <3>0. /\ ctxDone \in BOOLEAN /\ closed \in BOOLEAN /\ silent \in BOOLEAN
          /\ silent => pc \in {"dial", "send"}
      BY DEF TypeOK
    <3> HIDE DEF IInv
    <3>1. CASE Stop BY <3>0, <3>1 DEF Stop
    <3>2. CASE Close BY <3>0, <3>2 DEF Close
    <3>3. CASE Silent BY <3>0, <3>3 DEF Silent
    <3>4. CASE UNCHANGED vars BY <3>0, <3>4 DEF vars
    <3> QED BY <1>9, <3>1, <3>2, <3>3, <3>4
  <2>2. TypeOK' BY <2>1 DEF TypeOK
  <2>3. UNCHANGED <<Held, Queues>> BY <2>1 DEF Held, Queues
  <2>4. OnceEach' BY <2>1, <2>3 DEF OnceEach
  <2>5. AllKept' BY <2>1, <2>3 DEF AllKept
  <2> QED BY <2>1, <2>2, <2>4, <2>5
<1> HIDE DEF IInv, intakeVars, serverVars
<1>10. CASE \E m \in Mails : Call(m) \/ Forward(m) \/ ForwardPanic(m)
  BY <1>1, <1>2, <1>3, <1>10
<1> QED
  BY <1>4, <1>5, <1>6, <1>7, <1>8, <1>9, <1>10 DEF Next

(* However often a batch fails, every mail is kept and none goes out twice,
   and the remote server is never taken to have accepted what it refuses. *)
THEOREM NoMailSentTwice == Spec => []SentOnce
<1>1. IInv => SentOnce
  <2> SUFFICES ASSUME IInv PROVE SentOnce
    OBVIOUS
  <2>0. /\ mailsChan \in Seq(Mails) /\ batchOfMessages \in Seq(Mails)
        /\ Held \in Seq(Mails) /\ sent \in Seq(Mails)
    BY EmptySet DEF IInv, TypeOK, Held
  <2> DEFINE a == mailsChan \o batchOfMessages
             b == a \o Held
  <2>1. a \in Seq(Mails) /\ IsInjective(a)
        /\ ToSet(a) = ToSet(mailsChan) \cup ToSet(batchOfMessages)
    BY <2>0, ConcatSet DEF IInv, OnceEach
  <2> HIDE DEF a
  <2>2. b \in Seq(Mails) /\ IsInjective(b) /\ ToSet(b) = ToSet(a) \cup ToSet(Held)
    BY <2>0, <2>1, ConcatSet DEF IInv, OnceEach
  <2>3. Everywhere = b \o sent
    BY DEF Everywhere, Held, a
  <2> HIDE DEF b
  <2>4. IsInjective(Everywhere) /\ ToSet(Everywhere) = ToSet(b) \cup ToSet(sent)
    BY <2>0, <2>1, <2>2, <2>3, ConcatSet DEF IInv, OnceEach
  <2> QED BY <2>1, <2>2, <2>4 DEF SentOnce, IInv, AllKept
<1> QED BY <1>1, InitInv, StepInv, PTL DEF Spec
=============================================================================
