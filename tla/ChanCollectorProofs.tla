------------------------- MODULE ChanCollectorProofs -------------------------
(***************************************************************************)
(* Theorems about ChanCollector, for every set of mails, workers and ULIDs  *)
(* and every capacity.                                                      *)
(***************************************************************************)
EXTENDS ChanCollector, TLAPS

(* A send on a channel with room leaves a channel of mails, still within
   its capacity. *)
LEMMA AppendType ==
  ASSUME NEW S, NEW s \in Seq(S), NEW x \in S
  PROVE  Append(s, x) \in Seq(S) /\ Len(Append(s, x)) = Len(s) + 1
  OBVIOUS

(* A receive leaves a channel of mails, still within its capacity. *)
LEMMA TailType ==
  ASSUME NEW S, NEW s \in Seq(S), s # <<>>
  PROVE  /\ Head(s) \in S /\ Tail(s) \in Seq(S)
         /\ Len(Tail(s)) = Len(s) - 1 /\ Len(s) > 0
  OBVIOUS

(* No step of a goroutine, of the clock or of fx breaks the types and the
   bounds of the state (the capacities of both channels among them). *)
LEMMA TypeStep == TypeOK /\ [Next]_vars => TypeOK'
<1> SUFFICES ASSUME TypeOK, [Next]_vars PROVE TypeOK'
  OBVIOUS
<1> USE BoundsAssumption, MailsAssumption, UIDsAssumption, AppendType, TailType
<1> USE DEF TypeOK, clockVars, baseVars, fwdVars, workerVars, Workers
<1>1. CASE Mint BY <1>1 DEF Mint, Free
<1>2. CASE Tick BY <1>2 DEF Tick, Older
<1>3. CASE \E m \in Mails : IntakeStamp(m) BY <1>3 DEF IntakeStamp, Stamp
<1>4. CASE \E m \in Mails : IntakeSend(m) BY <1>4 DEF IntakeSend
<1>5. CASE \E m \in Mails : IntakeCancel(m) \/ IntakePanic(m)
  <2> PICK m \in Mails : IntakeCancel(m) \/ IntakePanic(m) BY <1>5
  <2>1. CASE IntakeCancel(m) BY <2>1 DEF IntakeCancel
  <2>2. CASE IntakePanic(m) BY <2>2 DEF IntakePanic
  <2> QED BY <2>1, <2>2
<1>6. CASE RePush BY <1>6 DEF RePush
<1>7. CASE \E u \in UIDs : Visit(u) BY <1>7 DEF Visit, Parked
<1>8. CASE RePushSend BY <1>8 DEF RePushSend
<1>9. CASE RePushDelete BY <1>9 DEF RePushDelete, Delete
<1>10. CASE RePushStop \/ RePushReturn BY <1>10 DEF RePushStop, RePushReturn
<1>11. CASE DrainStart \/ DrainReturn BY <1>11 DEF DrainStart, DrainReturn
<1>12. CASE \E u \in UIDs : Drain(u) BY <1>12 DEF Drain, Parked, Delete
<1>13. CASE DrainSend BY <1>13 DEF DrainSend
<1>14. CASE ForwardRecv BY <1>14 DEF ForwardRecv
<1>15. CASE ForwardStamp BY <1>15 DEF ForwardStamp, Stamp
<1>16. CASE ForwardSend BY <1>16 DEF ForwardSend
<1>17. CASE ForwardDrop \/ ForwardReturn \/ Close
  BY <1>17 DEF ForwardDrop, ForwardReturn, Close
<1>18. CASE \E w \in Workers : PullRecv(w) BY <1>18 DEF PullRecv
<1>19. CASE \E w \in Workers : PullStop(w) BY <1>19 DEF PullStop
<1>20. CASE \E w \in Workers : PullAdd(w) BY <1>20 DEF PullAdd, Store
<1>21. CASE \E w \in Workers : RemoteReply(w) BY <1>21 DEF RemoteReply, Readings
<1>22. CASE \E w \in Workers : LocalParse(w)
  <2> PICK w \in Workers : LocalParse(w) BY <1>22
  <2>1. wmail[w] \in Mails BY DEF LocalParse
  <2>2. parsed' \subseteq Mails BY <2>1 DEF LocalParse
  <2> HIDE MailsAssumption, UIDsAssumption
  <2>3. wuid' \in [Workers -> UIDs \cup {NoUID}] BY DEF LocalParse, Readings
  <2>4. wpc' \in [Workers -> {"idle", "add", "reply", "parse", "ack", "gone"}]
    BY DEF LocalParse
  <2>5. \A x \in Workers : wpc'[x] \notin {"idle", "gone"} => wmail'[x] \in Mails
    BY DEF LocalParse
  <2> QED BY <2>2, <2>3, <2>4, <2>5 DEF LocalParse
<1>23. CASE \E w \in Workers : RemoteParse(w)
  <2> PICK w \in Workers : RemoteParse(w) BY <1>23
  <2>1. wmail[w] \in Mails BY DEF RemoteParse
  <2>2. parsed' \subseteq Mails BY <2>1 DEF RemoteParse
  <2> HIDE MailsAssumption, UIDsAssumption
  <2>3. wuid' \in [Workers -> UIDs \cup {NoUID}] BY DEF RemoteParse
  <2>4. wpc' \in [Workers -> {"idle", "add", "reply", "parse", "ack", "gone"}]
    BY DEF RemoteParse
  <2>5. \A x \in Workers : wpc'[x] \notin {"idle", "gone"} => wmail'[x] \in Mails
    BY DEF RemoteParse
  <2> QED BY <2>2, <2>3, <2>4, <2>5 DEF RemoteParse
<1>24. CASE \E w \in Workers : ACK(w) BY <1>24 DEF ACK, Delete
<1>25. CASE \E w \in Workers : RemoteDies(w) BY <1>25 DEF RemoteDies
<1>26. CASE StopParser \/ StopCollector BY <1>26 DEF StopParser, StopCollector
<1>27. CASE UNCHANGED vars BY <1>27 DEF vars
<1> QED
  BY <1>1, <1>2, <1>3, <1>4, <1>5, <1>6, <1>7, <1>8, <1>9, <1>10, <1>11, <1>12,
     <1>13, <1>14, <1>15, <1>16, <1>17, <1>18, <1>19, <1>20, <1>21, <1>22, <1>23,
     <1>24, <1>25, <1>26, <1>27 DEF Next, Exited

(* The collector as NewChanCollector makes it is well typed. *)
LEMMA InitType == Init => TypeOK
<1> SUFFICES ASSUME Init PROVE TypeOK
  OBVIOUS
<1>1. <<>> \in Seq(Mails) /\ Len(<<>>) = 0
  OBVIOUS
<1>2. 0 \in 0..Minute /\ 0 \in 0..MaxDeaths /\ 0 <= Size
  BY BoundsAssumption
<1> QED BY <1>1, <1>2 DEF Init, TypeOK

(* Every variable keeps its type; both channels stay within their capacity. *)
THEOREM TypeCorrect == Spec => []TypeOK
BY InitType, TypeStep, PTL DEF Spec
-----------------------------------------------------------------------------
(* After a send the channel holds the mail sent and what it held before. *)
LEMMA RangeOfAppend ==
  ASSUME NEW S, NEW s \in Seq(S), NEW x \in S
  PROVE  /\ Range(Append(s, x)) = Range(s) \cup {x}
         /\ NoRepeat(s) /\ x \notin Range(s) => NoRepeat(Append(s, x))
<1>1. /\ DOMAIN s = 1..Len(s) /\ DOMAIN Append(s, x) = 1..(Len(s) + 1)
      /\ \A i \in 1..Len(s) : Append(s, x)[i] = s[i]
      /\ Append(s, x)[Len(s) + 1] = x /\ Len(s) \in Nat
  OBVIOUS
<1>2. Range(Append(s, x)) = Range(s) \cup {x}
  BY <1>1 DEF Range
<1>3. ASSUME NoRepeat(s), x \notin Range(s) PROVE NoRepeat(Append(s, x))
  BY <1>1, <1>3 DEF NoRepeat, Range
<1> QED BY <1>2, <1>3

(* After a receive from a channel that holds no mail twice, it holds all it
   held but the mail received. *)
LEMMA RangeOfTail ==
  ASSUME NEW S, NEW s \in Seq(S), s # <<>>
  PROVE  /\ Range(s) = Range(Tail(s)) \cup {Head(s)}
         /\ NoRepeat(s) => NoRepeat(Tail(s)) /\ Head(s) \notin Range(Tail(s))
<1>1. /\ DOMAIN s = 1..Len(s) /\ DOMAIN Tail(s) = 1..(Len(s) - 1)
      /\ \A i \in 1..(Len(s) - 1) : Tail(s)[i] = s[i + 1]
      /\ Head(s) = s[1] /\ Len(s) \in Nat \ {0}
  OBVIOUS
<1>2. \A i \in 1..Len(s) : i = 1 \/ (i - 1 \in 1..(Len(s) - 1) /\ (i - 1) + 1 = i)
  BY <1>1
<1>3. Range(s) = Range(Tail(s)) \cup {Head(s)}
  <2>1. ASSUME NEW i \in 1..Len(s), i # 1
        PROVE  i - 1 \in DOMAIN Tail(s) /\ s[i] = Tail(s)[i - 1]
    BY <1>1, <1>2, <2>1
  <2>2. ASSUME NEW i \in DOMAIN Tail(s)
        PROVE  i + 1 \in DOMAIN s /\ s[i + 1] = Tail(s)[i]
    BY <1>1, <2>2
  <2>3. 1 \in DOMAIN s
    BY <1>1
  <2>4. ASSUME NEW x \in Range(s) PROVE x \in Range(Tail(s)) \cup {Head(s)}
    <3> PICK i \in 1..Len(s) : x = s[i] BY <1>1, <2>4 DEF Range
    <3> QED BY <1>1, <2>1 DEF Range
  <2>5. Head(s) \in Range(s)
    BY <1>1, <2>3 DEF Range
  <2>6. ASSUME NEW x \in Range(Tail(s)) PROVE x \in Range(s)
    BY <2>2, <2>6 DEF Range
  <2> QED BY <2>4, <2>5, <2>6
<1>4. ASSUME NoRepeat(s) PROVE NoRepeat(Tail(s)) /\ Head(s) \notin Range(Tail(s))
  <2>1. \A i \in 1..(Len(s) - 1) : i + 1 \in 1..Len(s) /\ i + 1 # 1
    BY <1>1
  <2>2. 1 \in 1..Len(s)
    BY <1>1
  <2>3. ASSUME NEW i \in DOMAIN Tail(s), NEW j \in DOMAIN Tail(s), Tail(s)[i] = Tail(s)[j]
        PROVE  i = j
    <3>1. i + 1 = j + 1
      BY <1>1, <1>4, <2>1, <2>3 DEF NoRepeat
    <3> QED BY <3>1, <1>1
  <2>4. ASSUME NEW i \in DOMAIN Tail(s), Tail(s)[i] = Head(s) PROVE FALSE
    BY <1>1, <1>4, <2>1, <2>2, <2>4 DEF NoRepeat
  <2> QED BY <2>3, <2>4 DEF NoRepeat, Range
<1> QED BY <1>3, <1>4
-----------------------------------------------------------------------------
(* What decides where a mail is.                                            *)
LEMMA SamePlaces ==
  ASSUME IInv, UNCHANGED <<ch, cur, baseCh, bpc, rkey, rmail, fpc, fmail, wpc, wmail>>,
         \A m \in Mails : Accepted(m) => Accepted(m)'
  PROVE  OnePlace'
BY DEF IInv, OnePlace, Places, Count, Held, InCur, InHand, InForward, Reclaimed, NoRepeat

(* A mail with one place is nowhere else.                                    *)
LEMMA Apart ==
  ASSUME OnePlace
  PROVE  \A m \in Mails :
           /\ m \in Range(baseCh) => Accepted(m) /\ m \notin Range(ch) /\ ~InForward(m)
           /\ m \in Range(ch) => Accepted(m) /\ ~InForward(m) /\ ~InHand(m) /\ ~Held(m)
           /\ InForward(m) \/ (bpc = "drainSend" /\ rmail = m) \/ Held(m)
                => Accepted(m) /\ m \notin Range(baseCh) /\ m \notin Range(ch)
           /\ InForward(m) => ~Held(m) /\ ~InHand(m) /\ ~(bpc = "drainSend" /\ rmail = m)
           /\ InHand(m) => /\ Accepted(m) /\ m \notin Range(baseCh) /\ m \notin Range(ch)
                           /\ ~InForward(m) /\ ~Held(m) /\ ~(bpc = "drainSend" /\ rmail = m)
BY DEF OnePlace, Places, Count

(* A mail that gains a place gives another one up.                          *)
LEMMA OnePlaceStep == IInv /\ TypeOK' /\ [Next]_vars => OnePlace'
<1> SUFFICES ASSUME IInv, TypeOK', [Next]_vars PROVE OnePlace'
  OBVIOUS
<1> USE MailsAssumption, UIDsAssumption, RangeOfAppend, RangeOfTail
<1> USE DEF clockVars, baseVars, fwdVars, workerVars, IInv, TypeOK
<1>0. /\ NoRepeat(baseCh) /\ NoRepeat(ch)
      /\ \A w, x \in Workers :
           wpc[w] = "add" /\ wpc[x] = "add" /\ wmail[w] = wmail[x] => w = x
      /\ \A m \in Mails : Places(m) <= 1
  BY DEF OnePlace
<1> USE DEF Places, Count, Accepted, InForward
<1>a. \A m \in Mails :
        /\ m \in Range(baseCh) => Accepted(m) /\ m \notin Range(ch) /\ ~InForward(m)
        /\ m \in Range(ch) => Accepted(m) /\ ~InForward(m) /\ ~InHand(m) /\ ~Held(m)
        /\ InForward(m) \/ (bpc = "drainSend" /\ rmail = m) \/ Held(m)
             => Accepted(m) /\ m \notin Range(baseCh) /\ m \notin Range(ch)
        /\ InForward(m) => ~Held(m)
        /\ InHand(m) => /\ Accepted(m) /\ m \notin Range(baseCh) /\ m \notin Range(ch)
                        /\ ~InForward(m) /\ ~Held(m) /\ ~(bpc = "drainSend" /\ rmail = m)
  BY <1>0, Apart DEF OnePlace
<1>1. CASE Mint \/ Tick \/ \E m \in Mails : IntakeStamp(m) \/ IntakeCancel(m) \/ IntakePanic(m)
  BY <1>1, SamePlaces DEF Mint, Tick, IntakeStamp, IntakeCancel, IntakePanic, Accepted, Stamp
<1>2. ASSUME NEW m \in Mails, IntakeSend(m) PROVE OnePlace'
  <2>1. ASSUME NEW n \in Mails PROVE Held(n)' = Held(n) /\ InHand(n)' = InHand(n)
    BY <1>2, <2>1 DEF IntakeSend, Held, InCur, InHand, Reclaimed
  <2>2. Range(ch)' = Range(ch) \cup {m} /\ NoRepeat(ch)'
    BY <1>0, <1>2, <1>a DEF IntakeSend
  <2>3. \A n \in Mails : Places(n)' <= 1
    BY <1>0, <1>2, <1>a, <2>1, <2>2 DEF IntakeSend
  <2> QED BY <1>0, <1>2, <2>2, <2>3 DEF OnePlace, IntakeSend
<1>3. ASSUME NEW u \in UIDs, Visit(u) PROVE OnePlace'
  <2>1. ASSUME NEW m \in Mails PROVE Held(m)' => Held(m)
    BY <1>3, <2>1 DEF Visit, Held, InCur, Reclaimed, Parked
  <2>2. \A m \in Mails : Places(m)' <= 1
    BY <1>0, <1>3, <2>1 DEF Visit, InHand
  <2> QED BY <1>0, <1>3, <2>2 DEF OnePlace, Visit, NoRepeat
<1>4. ASSUME RePushSend PROVE OnePlace'
  <2>1. ASSUME NEW m \in Mails PROVE Held(m)' => Held(m) /\ m # rmail
    BY <1>4, <2>1 DEF RePushSend, Held, InCur, Reclaimed, Parked, KeyIsCurrent, CopiedUID
  <2>2. Held(rmail) /\ rmail \in Mails
    BY <1>4 DEF RePushSend, Held
  <2>3. rmail \notin Range(baseCh) /\ Range(baseCh)' = Range(baseCh) \cup {rmail}
    BY <1>a, <1>4, <2>2 DEF RePushSend
  <2>4. \A m \in Mails : Places(m)' <= 1
    BY <1>0, <1>4, <2>1, <2>2, <2>3 DEF RePushSend, InHand
  <2> QED BY <1>0, <1>4, <2>3, <2>4 DEF OnePlace, RePushSend
<1>5. ASSUME RePushDelete PROVE OnePlace'
  <2>1. ASSUME NEW m \in Mails PROVE Held(m)' => Held(m)
    BY <1>5, <2>1 DEF RePushDelete, Delete, Held, InCur, Reclaimed
  <2>2. \A m \in Mails : Places(m)' <= 1
    BY <1>0, <1>5, <2>1 DEF RePushDelete, InHand
  <2> QED BY <1>0, <1>5, <2>2 DEF OnePlace, RePushDelete
<1>6. ASSUME RePush \/ RePushStop \/ RePushReturn \/ DrainStart \/ DrainReturn PROVE OnePlace'
  <2>1. ASSUME NEW m \in Mails PROVE Held(m)' => Held(m)
    BY <1>6, <2>1 DEF RePush, RePushStop, RePushReturn, DrainStart, DrainReturn, Held,
                      InCur, Reclaimed
  <2>2. bpc' # "drainSend"
    BY <1>6 DEF RePush, RePushStop, RePushReturn, DrainStart, DrainReturn
  <2>3. UNCHANGED <<ch, baseCh, fpc, fmail, wpc, wmail, intake>>
    BY <1>6 DEF RePush, RePushStop, RePushReturn, DrainStart, DrainReturn
  <2>4. \A m \in Mails : Places(m)' <= 1
    BY <1>0, <2>1, <2>2, <2>3 DEF InHand
  <2> QED BY <1>0, <2>3, <2>4 DEF OnePlace
<1>7. ASSUME NEW u \in UIDs, Drain(u) PROVE OnePlace'
  <2>1. CASE Parked(u)
    <3>1. Held(cur[u]) /\ cur[u] \in Mails
      BY <1>7, <2>1 DEF Drain, Held, InCur, Reclaimed, Parked
    <3>2. ASSUME NEW m \in Mails PROVE Held(m)' => Held(m) /\ m # cur[u]
      BY <1>7, <2>1, <3>2 DEF Drain, Delete, Held, InCur, Reclaimed, Parked, KeyIsCurrent
    <3>3. \A m \in Mails : Places(m)' <= 1
      BY <1>0, <1>7, <2>1, <3>1, <3>2 DEF Drain, InHand
    <3> QED BY <1>0, <1>7, <3>3 DEF OnePlace, Drain
  <2>2. CASE ~Parked(u)
    BY <1>7, <2>2, SamePlaces DEF Drain
  <2> QED BY <2>1, <2>2
<1>8. ASSUME DrainSend PROVE OnePlace'
  <2>1. ASSUME NEW m \in Mails PROVE Held(m)' => Held(m)
    BY <1>8, <2>1 DEF DrainSend, Held, InCur, Reclaimed
  <2>2. rmail \notin Range(baseCh) /\ Range(baseCh)' = Range(baseCh) \cup {rmail}
    BY <1>a, <1>8 DEF DrainSend
  <2>3. \A m \in Mails : Places(m)' <= 1
    BY <1>0, <1>8, <2>1, <2>2 DEF DrainSend, InHand
  <2> QED BY <1>0, <1>8, <2>2, <2>3 DEF OnePlace, DrainSend
<1>9. ASSUME ForwardRecv PROVE OnePlace'
  <2>1. ASSUME NEW m \in Mails PROVE Held(m)' = Held(m)
    BY <1>9, <2>1 DEF ForwardRecv, Held, InCur, Reclaimed
  <2>2. \A m \in Mails : Places(m)' <= 1
    BY <1>0, <1>9, <2>1 DEF ForwardRecv, InHand
  <2> QED BY <1>0, <1>9, <2>2 DEF OnePlace, ForwardRecv
<1>10. ASSUME ForwardStamp \/ ForwardDrop \/ ForwardReturn \/ Close PROVE OnePlace'
  <2>1. ASSUME NEW m \in Mails PROVE Held(m)' = Held(m)
    BY <1>10, <2>1 DEF ForwardStamp, ForwardDrop, ForwardReturn, Close, Stamp, Held,
                       InCur, Reclaimed
  <2>2. /\ UNCHANGED <<ch, baseCh, wpc, wmail, intake, bpc, rmail>>
        /\ \A m \in Mails : InForward(m)' => InForward(m)
    BY <1>10 DEF ForwardStamp, ForwardDrop, ForwardReturn, Close, Stamp
  <2>3. \A m \in Mails : Places(m)' <= 1
    BY <1>0, <2>1, <2>2 DEF InHand
  <2> QED BY <1>0, <2>2, <2>3 DEF OnePlace
<1>11. ASSUME ForwardSend PROVE OnePlace'
  <2>1. ASSUME NEW m \in Mails PROVE Held(m)' = Held(m)
    BY <1>11, <2>1 DEF ForwardSend, Held, InCur, Reclaimed
  <2>2. fmail \notin Range(ch) /\ Range(ch)' = Range(ch) \cup {fmail}
    BY <1>a, <1>11 DEF ForwardSend
  <2>3. \A m \in Mails : Places(m)' <= 1
    BY <1>0, <1>11, <2>1, <2>2 DEF ForwardSend, InHand
  <2> QED BY <1>0, <1>11, <2>2, <2>3 DEF OnePlace, ForwardSend
<1>12. ASSUME NEW w \in Workers, PullRecv(w) PROVE OnePlace'
  <2>1. /\ Head(ch) \in Range(ch) /\ Head(ch) \in Mails /\ NoRepeat(ch')
        /\ Range(ch) = Range(ch') \cup {Head(ch)} /\ Head(ch) \notin Range(ch')
    BY <1>0, <1>12, TailType DEF PullRecv
  <2>2. ASSUME NEW m \in Mails PROVE Held(m)' = Held(m)
    BY <1>12, <2>2 DEF PullRecv, Held, InCur, Reclaimed
  <2>3. ASSUME NEW m \in Mails PROVE InHand(m)' = (InHand(m) \/ m = Head(ch))
    BY <1>12, <2>3 DEF PullRecv, InHand
  <2>4. ASSUME NEW m \in Mails PROVE Places(m)' <= 1
    <3>1. UNCHANGED <<baseCh, intake, fpc, fmail, bpc, rmail>>
      BY <1>12 DEF PullRecv
    <3>2. CASE m = Head(ch)
      BY <1>a, <2>1, <2>2, <2>3, <3>1, <3>2
    <3>3. CASE m # Head(ch)
      <4>1. /\ m \in Range(ch)' => m \in Range(ch)
            /\ InHand(m)' => InHand(m)
            /\ Held(m)' => Held(m)
        BY <2>1, <2>2, <2>3, <3>1, <3>3
      <4> QED BY <1>0, <3>1, <4>1
    <3> QED BY <3>2, <3>3
  <2>5. ~InHand(Head(ch))
    BY <1>a, <2>1
  <2>6. \A x, y \in Workers :
           wpc'[x] = "add" /\ wpc'[y] = "add" /\ wmail'[x] = wmail'[y] => x = y
    BY <1>0, <1>12, <2>5 DEF PullRecv, InHand
  <2> QED BY <1>0, <1>12, <2>1, <2>4, <2>6 DEF OnePlace, PullRecv
<1>13. ASSUME NEW w \in Workers, PullAdd(w) PROVE OnePlace'
  <2>1. wmail[w] \in Mails /\ InHand(wmail[w])
    BY <1>13 DEF PullAdd, InHand
  <2>2. ASSUME NEW m \in Mails PROVE InHand(m)' => InHand(m) /\ m # wmail[w]
    <3>1. \A x \in Workers : wpc'[x] = "add" <=> wpc[x] = "add" /\ x # w
      BY <1>13 DEF PullAdd
    <3>2. wmail' = wmail /\ wpc[w] = "add"
      BY <1>13 DEF PullAdd
    <3> QED BY <1>0, <2>2, <3>1, <3>2 DEF InHand
  <2>3. ASSUME NEW m \in Mails PROVE Held(m)' => Held(m) \/ m = wmail[w]
    BY <1>13, <2>3 DEF PullAdd, Store, Held, InCur, Reclaimed
  <2>4. ASSUME NEW m \in Mails PROVE Places(m)' <= 1
    <3>1. UNCHANGED <<ch, baseCh, intake, fpc, fmail, bpc, rmail>>
      BY <1>13 DEF PullAdd
    <3>2. CASE m = wmail[w]
      BY <1>a, <2>1, <2>2, <3>1, <3>2
    <3>3. CASE m # wmail[w]
      BY <1>0, <2>2, <2>3, <3>1, <3>3
    <3> QED BY <3>2, <3>3
  <2>5. \A x, y \in Workers :
           wpc'[x] = "add" /\ wpc'[y] = "add" /\ wmail'[x] = wmail'[y] => x = y
    BY <1>0, <1>13 DEF PullAdd
  <2> QED BY <1>0, <1>13, <2>4, <2>5 DEF OnePlace, PullAdd
<1>14. ASSUME NEW w \in Workers,
              \/ PullStop(w) \/ RemoteReply(w) \/ LocalParse(w)
              \/ RemoteParse(w) \/ ACK(w) \/ RemoteDies(w)
       PROVE  OnePlace'
  <2>1. /\ UNCHANGED <<ch, baseCh, fpc, fmail, intake, bpc, rkey, rmail>>
        /\ \A x \in Workers : wpc'[x] = "add" => wpc[x] = "add" /\ wmail'[x] = wmail[x]
        /\ \A u \in UIDs : cur'[u] \in {cur[u], None}
    BY <1>14 DEF PullStop, RemoteReply, LocalParse, RemoteParse, ACK, RemoteDies, Delete
  <2>2. ASSUME NEW m \in Mails PROVE (Held(m)' => Held(m)) /\ (InHand(m)' => InHand(m))
    BY <2>1, <2>2 DEF Held, InCur, InHand, Reclaimed
  <2>3. \A m \in Mails : Places(m)' <= 1
    BY <1>0, <2>1, <2>2
  <2> QED BY <1>0, <2>1, <2>3 DEF OnePlace
<1>15. CASE StopParser \/ StopCollector \/ UNCHANGED vars
  BY <1>15, SamePlaces DEF StopParser, StopCollector, vars
<1> QED
  BY <1>1, <1>2, <1>3, <1>4, <1>5, <1>6, <1>7, <1>8, <1>9, <1>10, <1>11, <1>12, <1>13,
     <1>14, <1>15 DEF Next, Exited
-----------------------------------------------------------------------------
(* A UID belongs to one mail, and the generator's to none yet.              *)
LEMMA OwnUIDStep == IInv /\ TypeOK' /\ [Next]_vars => OwnUID'
<1> SUFFICES ASSUME IInv, TypeOK', [Next]_vars PROVE OwnUID'
  OBVIOUS
<1> USE UIDsAssumption DEF clockVars, baseVars, fwdVars, workerVars, IInv, TypeOK, OwnUID,
        Parked
<1>1. CASE Mint
  <2>1. minted' \in UIDs /\ ~Referenced(minted')
    BY <1>1 DEF Mint, Free
  <2>2. \A m \in Mails : uid[m] # minted'
    BY <2>1 DEF Referenced, Range
  <2>3. \A w \in Workers : wuid[w] # minted'
    BY <2>1 DEF Referenced, Range
  <2>4. minted' # rkey /\ cur[minted'] = None
    BY <2>1 DEF Referenced
  <2> QED BY <1>1, <2>2, <2>3, <2>4 DEF Mint
<1>2. CASE Tick \/ UNCHANGED vars BY <1>2 DEF Tick, vars
<1>3. CASE \E m \in Mails : IntakeStamp(m) BY <1>3 DEF IntakeStamp, Stamp
<1>4. CASE \E m \in Mails : IntakeSend(m) BY <1>4 DEF IntakeSend
<1>5. CASE \E m \in Mails : IntakeCancel(m) BY <1>5 DEF IntakeCancel
<1>6. CASE \E m \in Mails : IntakePanic(m) BY <1>6 DEF IntakePanic
<1>7. CASE RePush \/ RePushStop \/ RePushReturn \/ RePushSend \/ RePushDelete
  BY <1>7 DEF RePush, RePushStop, RePushReturn, RePushSend, RePushDelete, Delete
<1>8. CASE \E u \in UIDs : Visit(u) BY <1>8 DEF Visit
<1>9. CASE \E u \in UIDs : Drain(u) BY <1>9 DEF Drain, Delete
<1>10. CASE DrainStart \/ DrainSend \/ DrainReturn
  BY <1>10 DEF DrainStart, DrainSend, DrainReturn
<1>11. CASE ForwardStamp
  <2>1. fmail \in Mails /\ Accepted(fmail)
    BY <1>11, Apart DEF ForwardStamp, InForward
  <2> QED BY <1>11, <2>1 DEF ForwardStamp, Stamp, Accepted
<1>12. CASE ForwardRecv \/ ForwardSend \/ ForwardDrop \/ ForwardReturn \/ Close
  BY <1>12 DEF ForwardRecv, ForwardSend, ForwardDrop, ForwardReturn, Close
<1>13. CASE \E w \in Workers : PullRecv(w) \/ PullStop(w) \/ RemoteParse(w)
  BY <1>13 DEF PullRecv, PullStop, RemoteParse
<1>14. CASE \E w \in Workers : PullAdd(w) BY <1>14 DEF PullAdd, Store
<1>15. CASE \E w \in Workers : RemoteReply(w) BY <1>15 DEF RemoteReply, Readings
<1>16. CASE \E w \in Workers : LocalParse(w) BY <1>16 DEF LocalParse, Readings
<1>17. CASE \E w \in Workers : ACK(w) \/ RemoteDies(w)
  BY <1>17 DEF ACK, RemoteDies, Delete
<1>18. CASE StopParser \/ StopCollector BY <1>18 DEF StopParser, StopCollector
<1> QED
  BY <1>1, <1>2, <1>3, <1>4, <1>5, <1>6, <1>7, <1>8, <1>9, <1>10, <1>11, <1>12, <1>13,
     <1>14, <1>15, <1>16, <1>17, <1>18 DEF Next, Exited

(* An entry of Cur keeps the UID of its mail as its key.                    *)
LEMMA KeyIsCurrentStep == IInv /\ TypeOK' /\ [Next]_vars => KeyIsCurrent'
<1> SUFFICES ASSUME IInv, TypeOK', [Next]_vars PROVE KeyIsCurrent'
  OBVIOUS
<1> USE UIDsAssumption, MailsAssumption
    DEF clockVars, baseVars, fwdVars, workerVars, IInv, TypeOK, KeyIsCurrent, Parked, Reclaimed
<1>1. CASE Mint \/ Tick \/ UNCHANGED vars BY <1>1 DEF Mint, Tick, vars
<1>2. CASE \E m \in Mails : IntakeStamp(m)
  <2> PICK m \in Mails : IntakeStamp(m) BY <1>2
  <2>1. ~InCur(m)
    BY Apart DEF IntakeStamp, Held, Accepted
  <2> QED BY <2>1 DEF IntakeStamp, Stamp, InCur
<1>3. CASE \E m \in Mails : IntakeSend(m) \/ IntakeCancel(m) \/ IntakePanic(m)
  BY <1>3 DEF IntakeSend, IntakeCancel, IntakePanic
<1>4. CASE RePush \/ RePushStop \/ RePushReturn \/ RePushSend \/ RePushDelete
  BY <1>4 DEF RePush, RePushStop, RePushReturn, RePushSend, RePushDelete, Delete
<1>5. CASE \E u \in UIDs : Visit(u) BY <1>5 DEF Visit
<1>6. CASE \E u \in UIDs : Drain(u) BY <1>6 DEF Drain, Delete
<1>7. CASE DrainStart \/ DrainSend \/ DrainReturn
  BY <1>7 DEF DrainStart, DrainSend, DrainReturn
<1>8. CASE ForwardStamp
  <2>1. InForward(fmail) /\ fmail \in Mails
    BY <1>8 DEF ForwardStamp, InForward
  <2>2. ~InCur(fmail)
    BY <2>1, Apart DEF Held
  <2> QED BY <1>8, <2>2 DEF ForwardStamp, Stamp, InCur
<1>9. CASE ForwardRecv \/ ForwardSend \/ ForwardDrop \/ ForwardReturn \/ Close
  BY <1>9 DEF ForwardRecv, ForwardSend, ForwardDrop, ForwardReturn, Close
<1>10. CASE \E w \in Workers : PullRecv(w) \/ PullStop(w) \/ RemoteReply(w)
  BY <1>10 DEF PullRecv, PullStop, RemoteReply
<1>11. CASE \E w \in Workers : PullAdd(w) BY <1>11 DEF PullAdd, Store
<1>12. CASE \E w \in Workers : LocalParse(w) \/ RemoteParse(w)
  BY <1>12 DEF LocalParse, RemoteParse
<1>13. CASE \E w \in Workers : ACK(w) \/ RemoteDies(w)
  BY <1>13 DEF ACK, RemoteDies, Delete
<1>14. CASE StopParser \/ StopCollector BY <1>14 DEF StopParser, StopCollector
<1> QED
  BY <1>1, <1>2, <1>3, <1>4, <1>5, <1>6, <1>7, <1>8, <1>9, <1>10, <1>11, <1>12, <1>13,
     <1>14 DEF Next, Exited

(* The copies of a UID, in RePush and in the workers, name the same mail.   *)
LEMMA CopiedUIDStep == IInv /\ TypeOK' /\ [Next]_vars => CopiedUID'
<1> SUFFICES ASSUME IInv, TypeOK', [Next]_vars PROVE CopiedUID'
  OBVIOUS
<1> USE UIDsAssumption, MailsAssumption, RangeOfAppend, RangeOfTail
    DEF clockVars, baseVars, fwdVars, workerVars, IInv, TypeOK, CopiedUID
<1>1. CASE Mint \/ Tick \/ UNCHANGED vars BY <1>1 DEF Mint, Tick, vars
<1>2. CASE \E m \in Mails : IntakeStamp(m)
  <2> PICK m \in Mails : IntakeStamp(m) BY <1>2
  <2>1. ~Held(m)
    BY Apart DEF IntakeStamp, Accepted
  <2>2. bpc = "send" => m # rmail
    BY <2>1 DEF Held
  <2> QED BY <2>2 DEF IntakeStamp, Stamp, OwnUID
<1>3. CASE \E m \in Mails : IntakeSend(m) \/ IntakeCancel(m) \/ IntakePanic(m)
  BY <1>3 DEF IntakeSend, IntakeCancel, IntakePanic
<1>4. CASE RePush \/ RePushStop \/ RePushReturn \/ RePushDelete
  BY <1>4 DEF RePush, RePushStop, RePushReturn, RePushDelete, Delete
<1>5. CASE \E u \in UIDs : Visit(u)
  BY <1>5 DEF Visit, Parked, KeyIsCurrent, Reclaimed
<1>6. CASE RePushSend
  <2>1. rmail \in Range(baseCh')
    BY <1>6 DEF RePushSend
  <2>2. \A m \in Mails : uid[m] = rkey => m = rmail
    BY <1>6 DEF RePushSend, OwnUID
  <2> QED BY <1>6, <2>1, <2>2 DEF RePushSend
<1>7. CASE \E u \in UIDs : Drain(u) BY <1>7 DEF Drain, Delete
<1>8. CASE DrainStart \/ DrainSend \/ DrainReturn
  BY <1>8 DEF DrainStart, DrainSend, DrainReturn
<1>9. CASE ForwardRecv
  BY <1>9 DEF ForwardRecv
<1>10. CASE ForwardStamp
  <2>1. fmail \in Mails /\ ~Held(fmail)
    BY <1>10, Apart DEF ForwardStamp, InForward
  <2>2. bpc = "send" => fmail # rmail
    BY <2>1 DEF Held
  <2> QED BY <1>10, <2>1, <2>2 DEF ForwardStamp, Stamp, OwnUID
<1>11. CASE ForwardSend \/ ForwardDrop \/ ForwardReturn \/ Close
  BY <1>11 DEF ForwardSend, ForwardDrop, ForwardReturn, Close
<1>12. CASE \E w \in Workers : PullRecv(w) \/ PullStop(w)
  <2> PICK w \in Workers : PullRecv(w) \/ PullStop(w) BY <1>12
  <2>1. wuid[w] = NoUID /\ wuid' = wuid /\ uid' = uid /\ parsed' = parsed
    BY DEF PullRecv, PullStop
  <2>2. \A x \in Workers : x # w => wpc'[x] = wpc[x] /\ wmail'[x] = wmail[x]
    BY DEF PullRecv, PullStop
  <2>3. wpc'[w] \in {"add", "gone"}
    BY DEF PullRecv, PullStop
  <2>4. UNCHANGED <<bpc, rkey, rmail, cur, baseCh, fpc, fmail>>
    BY DEF PullRecv, PullStop
  <2> QED BY <2>1, <2>2, <2>3, <2>4
<1>13. CASE \E w \in Workers : PullAdd(w)
  <2> PICK w \in Workers : PullAdd(w) BY <1>13
  <2>1. wmail[w] \in Mails /\ ~Held(wmail[w])
    BY Apart DEF PullAdd, InHand
  <2>2. bpc = "send" => uid[wmail[w]] # rkey
    BY <2>1 DEF Held, OwnUID
  <2> QED BY <2>1, <2>2 DEF PullAdd, Store
<1>14. CASE \E w \in Workers : RemoteReply(w)
  BY <1>14 DEF RemoteReply, Readings, OwnUID
<1>15. CASE \E w \in Workers : LocalParse(w)
  BY <1>15 DEF LocalParse, Readings, OwnUID
<1>16. CASE \E w \in Workers : RemoteParse(w)
  BY <1>16 DEF RemoteParse
<1>17. CASE \E w \in Workers : ACK(w) \/ RemoteDies(w)
  <2> PICK w \in Workers : ACK(w) \/ RemoteDies(w) BY <1>17
  <2>1. wuid'[w] = NoUID /\ wpc'[w] = "idle" /\ uid' = uid /\ parsed' = parsed
    BY DEF ACK, RemoteDies
  <2>2. \A x \in Workers :
          x # w => wpc'[x] = wpc[x] /\ wmail'[x] = wmail[x] /\ wuid'[x] = wuid[x]
    BY DEF ACK, RemoteDies
  <2>3. \A u \in UIDs : cur'[u] \in {cur[u], None}
    BY DEF ACK, RemoteDies, Delete
  <2>4. UNCHANGED <<bpc, rkey, rmail, baseCh, fpc, fmail>>
    BY DEF ACK, RemoteDies
  <2>5. bpc = "send" => cur'[rkey] \in {rmail, None}
    BY <2>3
  <2>6. ASSUME NEW x \in Workers
        PROVE
          /\ wpc'[x] \notin {"parse", "ack"} => wuid'[x] = NoUID
          /\ wpc'[x] = "ack" => wmail'[x] \in parsed'
          /\ \A m \in Mails :
               uid'[m] = wuid'[x] /\ wuid'[x] # NoUID => m = wmail'[x]
    <3>1. CASE x = w BY <2>1, <3>1
    <3>2. CASE x # w
      <4>1. /\ wpc'[x] = wpc[x] /\ wmail'[x] = wmail[x] /\ wuid'[x] = wuid[x]
            /\ uid' = uid /\ parsed' = parsed
        BY <2>1, <2>2, <3>2
      <4>2. /\ wpc[x] \notin {"parse", "ack"} => wuid[x] = NoUID
            /\ wpc[x] = "ack" => wmail[x] \in parsed
            /\ \A m \in Mails : uid[m] = wuid[x] /\ wuid[x] # NoUID => m = wmail[x]
        BY DEF CopiedUID
      <4> QED BY ONLY <4>1, <4>2
    <3> QED BY <3>1, <3>2
  <2> QED BY <2>1, <2>4, <2>5, <2>6 DEF Workers
<1>18. CASE StopParser \/ StopCollector BY <1>18 DEF StopParser, StopCollector
<1> QED
  BY <1>1, <1>2, <1>3, <1>4, <1>5, <1>6, <1>7, <1>8, <1>9, <1>10, <1>11, <1>12, <1>13,
     <1>14, <1>15, <1>16, <1>17, <1>18 DEF Next, Exited

(* The base goroutine drains Cur only at the end.                           *)
LEMMA DrainsWhenDoneStep == IInv /\ TypeOK' /\ [Next]_vars => DrainsWhenDone'
<1> SUFFICES ASSUME IInv, [Next]_vars PROVE DrainsWhenDone'
  OBVIOUS
<1> USE DEF IInv, DrainsWhenDone, CtxDone, clockVars, baseVars, fwdVars, workerVars
<1>1. CASE UNCHANGED <<bpc, phase>>
  BY <1>1
<1>2. CASE \/ RePush \/ RePushSend \/ RePushDelete \/ RePushStop \/ RePushReturn
           \/ DrainStart \/ DrainSend \/ DrainReturn
  BY <1>2 DEF RePush, RePushSend, RePushDelete, RePushStop, RePushReturn, DrainStart,
              DrainSend, DrainReturn
<1>3. CASE \E u \in UIDs : Visit(u) \/ Drain(u)
  BY <1>3 DEF Visit, Drain
<1>4. CASE StopParser \/ StopCollector
  BY <1>4 DEF StopParser, StopCollector
<1> QED BY <1>1, <1>2, <1>3, <1>4
  DEF Next, Exited, vars, Mint, Tick, IntakeStamp, IntakeSend, IntakeCancel, IntakePanic,
      ForwardRecv, ForwardStamp, ForwardSend, ForwardDrop, ForwardReturn, Close, PullRecv,
      PullStop, PullAdd, RemoteReply, LocalParse, RemoteParse, ACK, RemoteDies

(* Workers get accepted mails only.                                         *)
LEMMA PulledIsAcceptedStep == IInv /\ TypeOK' /\ [Next]_vars => PulledIsAccepted'
<1> SUFFICES ASSUME IInv, TypeOK', [Next]_vars PROVE PulledIsAccepted'
  OBVIOUS
<1> USE DEF IInv, TypeOK, PulledIsAccepted, Accepted, clockVars, baseVars, fwdVars, workerVars
<1>1. CASE UNCHANGED <<wmail, intake>>
  BY <1>1 DEF Workers
<1>2. CASE \E m \in Mails : \/ IntakeStamp(m) \/ IntakeSend(m)
                            \/ IntakeCancel(m) \/ IntakePanic(m)
  <2>1. wmail' = wmail /\ \A n \in Mails : Accepted(n) => Accepted(n)'
    BY <1>2 DEF IntakeStamp, IntakeSend, IntakeCancel, IntakePanic
  <2>2. \A w \in Workers : wmail[w] \in Mails \cup {None}
    OBVIOUS
  <2> HIDE DEF Accepted
  <2> QED BY <2>1, <2>2 DEF Workers
<1>3. ASSUME NEW w \in Workers, PullRecv(w) PROVE PulledIsAccepted'
  <2>1. Accepted(Head(ch))
    BY <1>3, Apart, RangeOfTail, TailType DEF PullRecv
  <2> QED BY <1>3, <2>1 DEF PullRecv, Workers
<1>4. CASE \E w \in Workers : ACK(w) \/ RemoteDies(w)
  <2>1. intake' = intake /\ \A x \in Workers : wmail'[x] \in {wmail[x], None}
    BY <1>4 DEF ACK, RemoteDies
  <2> QED BY <2>1 DEF Workers
<1> QED BY <1>1, <1>2, <1>3, <1>4
  DEF Next, Exited, vars, Mint, Tick, RePush, RePushSend, RePushDelete, RePushStop,
      RePushReturn, DrainStart, DrainSend, DrainReturn, Visit, Drain, ForwardRecv,
      ForwardStamp, ForwardSend, ForwardDrop, ForwardReturn, Close, PullStop, PullAdd,
      RemoteReply, LocalParse, RemoteParse, StopParser, StopCollector

(* What is filed under the UID a worker acknowledges is the mail it has     *)
(* just parsed, or an entry RePush is about to delete anyway.               *)
LEMMA ACKedIsParsed ==
  ASSUME IInv, NEW w \in Workers, ACK(w), NEW u \in UIDs, u = wuid[w], Parked(u)
  PROVE  cur[u] \in parsed \/ Reclaimed(u)
BY UIDsAssumption, MailsAssumption
   DEF ACK, IInv, TypeOK, KeyIsCurrent, CopiedUID, Parked

(* A mail that nobody has parsed never leaves its place without another.    *)
LEMMA NothingLostStep == IInv /\ TypeOK' /\ [Next]_vars => NothingLost'
<1> SUFFICES ASSUME IInv, TypeOK', [Next]_vars, CtxDone' = FALSE,
                    NEW m \in Mails, Accepted(m)', m \notin parsed'
             PROVE  (Waiting(m) \/ Held(m))'
  BY DEF NothingLost, CtxDone
<1> USE UIDsAssumption, MailsAssumption, RangeOfAppend, RangeOfTail
    DEF clockVars, baseVars, fwdVars, workerVars, IInv, TypeOK, Accepted, CtxDone
<1>0. Accepted(m) /\ m \notin parsed /\ phase # "done" => Waiting(m) \/ Held(m)
  BY DEF NothingLost
<1> USE <1>0 DEF Waiting, Held, InCur, InForward, InHand, Reclaimed
<1>1. CASE Mint \/ Tick \/ UNCHANGED vars BY <1>1 DEF Mint, Tick, vars
<1>2. CASE \E n \in Mails : IntakeStamp(n) BY <1>2 DEF IntakeStamp, Stamp
<1>3. CASE \E n \in Mails : IntakeSend(n) BY <1>3 DEF IntakeSend
<1>4. CASE \E n \in Mails : IntakeCancel(n) \/ IntakePanic(n)
  BY <1>4 DEF IntakeCancel, IntakePanic
<1>5. CASE RePush \/ RePushStop \/ RePushReturn
  BY <1>5 DEF RePush, RePushStop, RePushReturn
<1>6. CASE \E u \in UIDs : Visit(u) BY <1>6 DEF Visit, Parked
<1>7. CASE RePushSend
  <2>1. \A u \in UIDs : u = rkey => cur[u] \in {rmail, None}
    BY <1>7 DEF RePushSend, CopiedUID
  <2> QED BY <1>7, <2>1 DEF RePushSend
<1>8. CASE RePushDelete BY <1>8 DEF RePushDelete, Delete
<1>9. CASE DrainStart \/ DrainSend \/ DrainReturn
  <2>1. CASE DrainStart BY <2>1 DEF DrainStart
  <2>2. CASE DrainSend BY <2>2 DEF DrainSend
  <2>3. CASE DrainReturn BY <2>3 DEF DrainReturn
  <2> QED BY <1>9, <2>1, <2>2, <2>3
<1>10. CASE \E u \in UIDs : Drain(u) BY <1>10 DEF Drain, Delete, Parked
<1>11. CASE ForwardRecv
  <2>1. m \in Range(baseCh) => m \in Range(baseCh') \/ m = fmail'
    BY <1>11 DEF ForwardRecv
  <2>2. fpc' = "stamp" /\ UNCHANGED <<ch, cur, bpc, rkey, rmail, wpc, wmail, intake, phase, parsed>>
    BY <1>11 DEF ForwardRecv
  <2>3. fpc = "recv"
    BY <1>11 DEF ForwardRecv
  <2> QED BY <2>1, <2>2, <2>3
<1>12. CASE ForwardStamp BY <1>12 DEF ForwardStamp, Stamp
<1>13. CASE ForwardSend BY <1>13 DEF ForwardSend
<1>14. CASE ForwardDrop \/ ForwardReturn \/ Close
  BY <1>14 DEF ForwardDrop, ForwardReturn, Close
<1>15. CASE \E w \in Workers : PullRecv(w) BY <1>15 DEF PullRecv
<1>16. CASE \E w \in Workers : PullStop(w) BY <1>16 DEF PullStop
<1>17. ASSUME NEW w \in Workers, PullAdd(w) PROVE (Waiting(m) \/ Held(m))'
  <2> DEFINE u == uid[wmail[w]]
  <2>1. wmail[w] \in Mails /\ InHand(wmail[w])
    BY <1>17 DEF PullAdd
  <2>2. wmail[w] \notin Range(baseCh) /\ ~InForward(wmail[w]) /\ Accepted(wmail[w])
    BY <2>1, Apart
  <2>3. u \in UIDs /\ ~Reclaimed(u)
    BY <2>1, <2>2 DEF OwnUID, CopiedUID
  <2>4. cur[u] \in {wmail[w], None}
    BY <2>1, <2>3 DEF KeyIsCurrent, OwnUID, Parked
  <2>5. cur' = [v \in UIDs |-> IF v = u THEN wmail[w] ELSE cur[v]]
    BY <1>17 DEF PullAdd, Store
  <2>6. /\ UNCHANGED <<ch, baseCh, bpc, rkey, rmail, fpc, fmail, wmail, intake, phase, parsed>>
        /\ \A x \in Workers : wpc[x] = "add" /\ x # w => wpc'[x] = "add"
    BY <1>17 DEF PullAdd
  <2>7. CASE m = wmail[w]
    BY <2>3, <2>5, <2>6, <2>7
  <2>8. CASE m # wmail[w]
    <3>1. InCur(m) => InCur(m)'
      BY <2>4, <2>5, <2>6, <2>8
    <3>2. InHand(m) => InHand(m)'
      BY <2>6, <2>8
    <3> HIDE DEF InCur, InHand
    <3> QED BY <2>6, <3>1, <3>2
  <2> QED BY <2>7, <2>8
<1>18. CASE \E w \in Workers : RemoteReply(w) BY <1>18 DEF RemoteReply
<1>19. CASE \E w \in Workers : LocalParse(w) BY <1>19 DEF LocalParse
<1>20. CASE \E w \in Workers : RemoteParse(w) BY <1>20 DEF RemoteParse
<1>21. ASSUME NEW w \in Workers, ACK(w) PROVE (Waiting(m) \/ Held(m))'
  <2>1. /\ UNCHANGED <<ch, baseCh, bpc, rkey, rmail, fpc, fmail, intake, phase, parsed>>
        /\ \A x \in Workers : wpc[x] = "add" => wpc'[x] = "add" /\ wmail'[x] = wmail[x]
    BY <1>21 DEF ACK
  <2>2. ASSUME NEW u \in UIDs, cur[u] = m, ~Reclaimed(u) PROVE cur'[u] = m
    <3>1. m \notin parsed /\ Parked(u)
      BY <2>1, <2>2 DEF Parked
    <3>2. u # wuid[w]
      BY <1>21, <2>2, <3>1, ACKedIsParsed
    <3> QED BY <1>21, <2>2, <3>2 DEF ACK, Delete
  <2>3. (InCur(m) => InCur(m)') /\ (InHand(m) => InHand(m)')
    BY <2>1, <2>2
  <2> HIDE DEF InCur, InHand
  <2> QED BY <2>1, <2>3
<1>22. CASE \E w \in Workers : RemoteDies(w) BY <1>22 DEF RemoteDies
<1>23. CASE StopParser \/ StopCollector BY <1>23 DEF StopParser, StopCollector
<1> QED
  BY <1>1, <1>2, <1>3, <1>4, <1>5, <1>6, <1>7, <1>8, <1>9, <1>10, <1>11, <1>12, <1>13,
     <1>14, <1>15, <1>16, <1>17, <1>18, <1>19, <1>20, <1>21, <1>22, <1>23 DEF Next, Exited
-----------------------------------------------------------------------------
(* The inductive invariant holds of the collector as it is made. *)
LEMMA InitIInv == Init => IInv
<1> SUFFICES ASSUME Init PROVE IInv
  OBVIOUS
<1>1. TypeOK
  BY InitType
<1>2. Range(ch) = {} /\ Range(baseCh) = {} /\ NoRepeat(ch) /\ NoRepeat(baseCh)
  BY DEF Init, Range, NoRepeat
<1> USE UIDsAssumption, MailsAssumption DEF Init
<1>3. \A m \in Mails : ~InCur(m) /\ ~InHand(m) /\ ~InForward(m) /\ ~Accepted(m) /\ ~Held(m)
  BY DEF InCur, InHand, InForward, Accepted, Held
<1>4. OnePlace
  <2>1. \A m \in Mails : Places(m) = 1
    BY <1>2, <1>3 DEF Places, Count
  <2>2. \A w \in Workers : wpc[w] = "idle"
    OBVIOUS
  <2> QED BY <1>2, <2>1, <2>2 DEF OnePlace
<1>5. OwnUID BY DEF OwnUID
<1>6. CopiedUID
  BY DEF CopiedUID
<1>7. KeyIsCurrent BY DEF KeyIsCurrent, Parked
<1>8. NothingLost BY <1>3 DEF NothingLost
<1>9. DrainsWhenDone BY DEF DrainsWhenDone
<1>10. PulledIsAccepted BY DEF PulledIsAccepted
<1> QED BY <1>1, <1>4, <1>5, <1>6, <1>7, <1>8, <1>9, <1>10 DEF IInv

(* The inductive invariant: a mail has one place, its UID is its own, and
   wherever a goroutine copied that UID it names that mail. *)
THEOREM Inductive == Spec => []IInv
<1>1. IInv /\ [Next]_vars => IInv'
  BY TypeStep, OnePlaceStep, OwnUIDStep, CopiedUIDStep, KeyIsCurrentStep, NothingLostStep,
     DrainsWhenDoneStep, PulledIsAcceptedStep DEF IInv
<1> QED BY InitIInv, <1>1, PTL DEF Spec

(* As long as the collector runs, a mail it accepted and nobody parsed is   *)
(* in one of its channels, in Cur or in the hands of the goroutine that is  *)
(* moving it, for any number of mails and workers and any capacity.         *)
THEOREM NoMailLost == Spec => []NothingLost
BY Inductive, PTL DEF IInv

(* The key of an entry of Cur is the UID its mail bears now.                *)
THEOREM KeysAreCurrent == Spec => []KeyIsCurrent
BY Inductive, PTL DEF IInv

(* A mail has at most one turn under way.                                   *)
THEOREM AtMostOneTurn == Spec => []OneTurn
<1>1. IInv => OneTurn
  <2> SUFFICES ASSUME IInv, NEW m \in Mails, NEW s \in Turns(m), NEW t \in Turns(m)
               PROVE  s = t
    BY DEF OneTurn
  <2> USE DEF IInv, TypeOK
  <2> DEFINE Drained == bpc = "drainSend" /\ rmail = m
  <2>1. Places(m) <= 1 /\ NoRepeat(baseCh) /\ NoRepeat(ch)
    BY DEF OnePlace
  <2>2. \A u, v \in UIDs : cur[u] = m /\ cur[v] = m /\ ~Reclaimed(u) /\ ~Reclaimed(v) => u = v
    BY MailsAssumption DEF KeyIsCurrent, Parked
  <2>3. \A w, x \in Workers :
          wpc[w] = "add" /\ wpc[x] = "add" /\ wmail[w] = m /\ wmail[x] = m => w = x
    BY DEF OnePlace
  <2>4. \A r \in Turns(m) :
          \/ m \in Range(baseCh) /\ \E i \in DOMAIN baseCh : baseCh[i] = m /\ r = <<"base", i>>
          \/ m \in Range(ch) /\ \E i \in DOMAIN ch : ch[i] = m /\ r = <<"ch", i>>
          \/ Held(m) /\ \E u \in UIDs : cur[u] = m /\ ~Reclaimed(u) /\ r = <<"cur", u>>
          \/ InHand(m) /\ \E w \in Workers :
                            wpc[w] = "add" /\ wmail[w] = m /\ r = <<"hand", w>>
          \/ InForward(m) /\ r = <<"forward", 0>>
          \/ Drained /\ r = <<"drain", 0>>
    BY DEF Turns, Range, Held, InCur, InHand
  <2>5. /\ m \in Range(baseCh) => m \notin Range(ch) /\ ~Held(m) /\ ~InHand(m)
                                  /\ ~InForward(m) /\ ~Drained
        /\ m \in Range(ch) => ~Held(m) /\ ~InHand(m) /\ ~InForward(m) /\ ~Drained
        /\ Held(m) => ~InHand(m) /\ ~InForward(m) /\ ~Drained
        /\ InHand(m) => ~InForward(m) /\ ~Drained
        /\ InForward(m) => ~Drained
    BY <2>1 DEF Places, Count
  <2> HIDE DEF Drained
  <2> QED BY <2>1, <2>2, <2>3, <2>4, <2>5 DEF NoRepeat
<1> QED BY Inductive, <1>1, PTL

(* No acknowledgment takes out of Cur a mail that nobody has parsed.        *)
THEOREM UnparsedStaysInCur == Spec => OnlyParsedLeaveCur
<1> DEFINE A == \A u \in UIDs : Parked(u) /\ ~Parked(u)' =>
                  cur[u] \in parsed \/ Reclaimed(u) \/ CtxDone
<1>1. IInv /\ [Next]_vars => A
  <2> SUFFICES ASSUME IInv, [Next]_vars, NEW u \in UIDs, Parked(u), ~Parked(u)'
               PROVE  cur[u] \in parsed \/ Reclaimed(u) \/ CtxDone
    OBVIOUS
  <2>1. CASE UNCHANGED cur
    BY <2>1 DEF Parked
  <2>2. CASE RePushDelete
    BY <2>2 DEF RePushDelete, Delete, Parked, Reclaimed
  <2>3. CASE \E v \in UIDs : Drain(v)
    BY <2>3 DEF Drain, IInv, DrainsWhenDone
  <2>4. CASE \E w \in Workers : PullAdd(w)
    BY <2>4, MailsAssumption DEF PullAdd, Store, Parked, IInv, TypeOK
  <2>5. ASSUME NEW w \in Workers, ACK(w)
        PROVE  cur[u] \in parsed \/ Reclaimed(u)
    <3>1. u = wuid[w]
      BY <2>5 DEF ACK, Delete, Parked
    <3> QED BY <2>5, <3>1, ACKedIsParsed
  <2> QED BY <2>1, <2>2, <2>3, <2>4, <2>5
      DEF Next, Exited, vars, clockVars, baseVars, fwdVars, workerVars, Mint, Tick, IntakeStamp,
          IntakeSend, IntakeCancel, IntakePanic, RePush, RePushSend, RePushStop, RePushReturn,
          DrainStart, DrainSend, DrainReturn, Visit, ForwardRecv, ForwardStamp, ForwardSend,
          ForwardDrop, ForwardReturn, Close, PullRecv, PullStop, RemoteReply, LocalParse,
          RemoteParse, RemoteDies, StopParser, StopCollector
<1>2. Spec => [][A]_vars
  BY Inductive, <1>1, PTL DEF Spec
<1> QED BY <1>2 DEF OnlyParsedLeaveCur
-----------------------------------------------------------------------------
(* The collector implements MailQueue: each of its steps is a step of the   *)
(* abstract queue, or changes nothing there.                                *)
LEMMA SameQueue ==
  ASSUME \A m \in Mails : /\ Accepted(m)' <=> Accepted(m)
                          /\ Waiting(m)' <=> Waiting(m)
                          /\ Held(m)' <=> Held(m),
         parsed' = parsed, phase' = phase
  PROVE  [Queue!Next]_Queue!vars
<1>1. UNCHANGED Queue!vars
  BY DEF Queue!vars, CtxDone
<1> QED BY <1>1

(* A step that moves no mail between places leaves each mail waiting or held
   as it was. *)
LEMMA SameWhere ==
  ASSUME UNCHANGED <<ch, cur, baseCh, bpc, rkey, rmail, fpc, fmail, wpc, wmail>>
  PROVE  \A m \in Mails : (Waiting(m)' <=> Waiting(m)) /\ (Held(m)' <=> Held(m))
BY DEF Waiting, Held, InCur, InHand, InForward, Reclaimed, Workers

(* Pull is the Lease of the abstract queue: the mail was waiting, now it is
   filed in Cur, and no other mail moves. *)
LEMMA MailLeased ==
  ASSUME NEW m \in Mails, Accepted(m), Waiting(m), ~Held(m),
         UNCHANGED <<intake, parsed, phase>>,
         \A n \in Mails : /\ Waiting(n)' <=> Waiting(n) /\ n # m
                          /\ Held(n)' <=> Held(n) \/ n = m
  PROVE  [Queue!Next]_Queue!vars
<1>1. \A n \in Mails : Accepted(n)' <=> Accepted(n)
  BY DEF Accepted
<1>2. Queue!Lease(m)
  BY <1>1 DEF Queue!Lease, CtxDone
<1> QED BY <1>2 DEF Queue!Next

(* The send of RePush on Base.Ch is the GiveBack of the abstract queue. *)
LEMMA MailGivenBack ==
  ASSUME NEW m \in Mails, Accepted(m), Held(m), ~Waiting(m),
         UNCHANGED <<intake, parsed, phase>>,
         \A n \in Mails : /\ Waiting(n)' <=> Waiting(n) \/ n = m
                          /\ Held(n)' <=> Held(n) /\ n # m
  PROVE  [Queue!Next]_Queue!vars
<1>1. \A n \in Mails : Accepted(n)' <=> Accepted(n)
  BY DEF Accepted
<1>2. Queue!GiveBack(m)
  BY <1>1 DEF Queue!GiveBack, CtxDone
<1> QED BY <1>2 DEF Queue!Next

(* Past the shutdown, the mail of an interrupted Push leaves the queue: the
   Drop of the abstract queue. *)
LEMMA MailDropped ==
  ASSUME NEW m \in Mails, Accepted(m), Held(m) \/ Waiting(m), CtxDone,
         UNCHANGED <<intake, parsed, phase>>,
         \A n \in Mails : /\ Waiting(n)' <=> Waiting(n) /\ n # m
                          /\ Held(n)' <=> Held(n) /\ n # m
  PROVE  [Queue!Next]_Queue!vars
<1>1. \A n \in Mails : Accepted(n)' <=> Accepted(n)
  BY DEF Accepted
<1>2. Queue!Drop(m)
  BY <1>1 DEF Queue!Drop, CtxDone
<1> QED BY <1>2 DEF Queue!Next

(* ACK is the Acknowledge of the abstract queue, or changes nothing there:
   it takes out of Cur the mail its worker parsed, or no mail. *)
LEMMA MailAcknowledged ==
  ASSUME NEW m \in Mails, Accepted(m), Held(m), m \in parsed,
         UNCHANGED <<intake, parsed, phase>>,
         \A n \in Mails : /\ Waiting(n)' <=> Waiting(n)
                          /\ Held(n)' <=> Held(n) /\ n # m
  PROVE  [Queue!Next]_Queue!vars
<1>1. \A n \in Mails : Accepted(n)' <=> Accepted(n)
  BY DEF Accepted
<1>2. Queue!Acknowledge(m)
  BY <1>1 DEF Queue!Acknowledge, CtxDone
<1> QED BY <1>2 DEF Queue!Next

(* A worker that finishes Parse is the Parse of the abstract queue. *)
LEMMA MailParsed ==
  ASSUME NEW w \in Workers, LocalParse(w) \/ RemoteParse(w), IInv
  PROVE  [Queue!Next]_Queue!vars
<1>1. wmail[w] \in Mails /\ Accepted(wmail[w])
  BY MailsAssumption DEF LocalParse, RemoteParse, IInv, TypeOK, PulledIsAccepted
<1>2. \A m \in Mails : /\ Accepted(m)' <=> Accepted(m)
                       /\ Waiting(m)' <=> Waiting(m)
                       /\ Held(m)' <=> Held(m)
  <2>1. /\ UNCHANGED <<ch, cur, baseCh, bpc, rkey, rmail, fpc, fmail, wmail, intake>>
        /\ \A x \in Workers : wpc'[x] = "add" <=> wpc[x] = "add"
    BY DEF LocalParse, RemoteParse, baseVars, fwdVars, IInv, TypeOK
  <2> QED BY <2>1 DEF Accepted, Waiting, Held, InCur, InHand, InForward, Reclaimed, Workers
<1>3. parsed' = parsed \cup {wmail[w]} /\ phase' = phase
  BY DEF LocalParse, RemoteParse
<1>4. Queue!Parse(wmail[w])
  BY <1>1, <1>2, <1>3 DEF Queue!Parse, CtxDone
<1> QED BY <1>1, <1>4 DEF Queue!Next

(* The send of an intake handler is the Accept of the abstract queue. *)
LEMMA MailAccepted ==
  ASSUME NEW m \in Mails, IntakeSend(m), IInv
  PROVE  [Queue!Next]_Queue!vars
<1>1. ch \in Seq(Mails) /\ Range(ch)' = Range(ch) \cup {m}
  BY RangeOfAppend DEF IntakeSend, IInv, TypeOK
<1>2. UNCHANGED <<cur, baseCh, bpc, rkey, rmail, fpc, fmail, wpc, wmail, parsed, phase>>
  BY DEF IntakeSend, baseVars, fwdVars, workerVars
<1>3. \A n \in Mails : /\ Waiting(n)' <=> Waiting(n) \/ n = m
                       /\ Held(n)' <=> Held(n)
  BY <1>1, <1>2 DEF Waiting, Held, InCur, InHand, InForward, Reclaimed, Workers
<1>4. \A n \in Mails : Accepted(n)' <=> Accepted(n) \/ n = m
  BY DEF IntakeSend, Accepted, IInv, TypeOK
<1>5. ~Accepted(m) /\ ~Held(m)
  BY Apart DEF IntakeSend, Accepted, IInv
<1>6. Queue!Accept(m)
  BY <1>2, <1>3, <1>4, <1>5 DEF Queue!Accept, CtxDone
<1> QED BY <1>6 DEF Queue!Next

(* Every step of the collector is a step of the abstract queue or leaves it
   as it is. *)
LEMMA QueueStep == IInv /\ IInv' /\ [Next]_vars => [Queue!Next]_Queue!vars
<1> SUFFICES ASSUME IInv, IInv', [Next]_vars PROVE [Queue!Next]_Queue!vars
  OBVIOUS
<1> USE MailsAssumption, UIDsAssumption, RangeOfAppend, RangeOfTail
    DEF IInv, TypeOK, clockVars, baseVars, fwdVars, workerVars
<1>1. CASE Mint \/ Tick \/ \E m \in Mails : \/ IntakeStamp(m) \/ IntakeCancel(m)
                                            \/ IntakePanic(m)
  <2>1. UNCHANGED <<ch, cur, baseCh, bpc, rkey, rmail, fpc, fmail, wpc, wmail, parsed, phase>>
    BY <1>1 DEF Mint, Tick, IntakeStamp, IntakeCancel, IntakePanic, Stamp
  <2>2. \A m \in Mails : Accepted(m)' <=> Accepted(m)
    BY <1>1 DEF Mint, Tick, IntakeStamp, IntakeCancel, IntakePanic, Accepted
  <2> QED BY <2>1, <2>2, SameQueue, SameWhere
<1>2. CASE \E m \in Mails : IntakeSend(m)
  BY <1>2, MailAccepted
<1>3. CASE RePush \/ RePushReturn \/ DrainStart \/ DrainReturn
  <2>1. /\ UNCHANGED <<ch, cur, baseCh, rkey, rmail, fpc, fmail, wpc, wmail, intake>>
        /\ parsed' = parsed /\ phase' = phase
        /\ bpc \in {"timer", "range", "drain"} /\ bpc' \in {"timer", "range", "drain", "closed"}
    BY <1>3 DEF RePush, RePushReturn, DrainStart, DrainReturn
  <2>2. \A m \in Mails : /\ Accepted(m)' <=> Accepted(m)
                         /\ Waiting(m)' <=> Waiting(m)
                         /\ Held(m)' <=> Held(m)
    BY <2>1 DEF Accepted, Waiting, Held, InCur, InHand, InForward, Reclaimed, Workers
  <2> QED BY <2>1, <2>2, SameQueue
<1>4. ASSUME NEW u \in UIDs, Visit(u) PROVE [Queue!Next]_Queue!vars
  <2>1. /\ UNCHANGED <<ch, cur, baseCh, fpc, fmail, wpc, wmail, intake>>
        /\ parsed' = parsed /\ phase' = phase /\ bpc = "range"
        /\ bpc' = "range" \/ (bpc' = "send" /\ rmail' = cur[u])
    BY <1>4 DEF Visit
  <2>2. \A m \in Mails : /\ Accepted(m)' <=> Accepted(m)
                         /\ Waiting(m)' <=> Waiting(m)
                         /\ Held(m)' <=> Held(m)
    BY <2>1 DEF Accepted, Waiting, Held, InCur, InHand, InForward, Reclaimed, Workers
  <2> QED BY <2>1, <2>2, SameQueue
<1>5. ASSUME RePushSend PROVE [Queue!Next]_Queue!vars
  <2>1. /\ UNCHANGED <<ch, cur, rkey, rmail, fpc, fmail, wpc, wmail, intake, parsed, phase>>
        /\ bpc = "send" /\ bpc' = "delete" /\ rmail \in Mails
        /\ Range(baseCh)' = Range(baseCh) \cup {rmail}
    BY <1>5 DEF RePushSend
  <2>2. Held(rmail) /\ Accepted(rmail) /\ ~Waiting(rmail)
    BY <2>1, Apart DEF Held, Waiting
  <2>3. \A m \in Mails : Waiting(m)' <=> Waiting(m) \/ m = rmail
    BY <2>1 DEF Waiting, InHand, InForward, Workers
  <2>4. \A m \in Mails : m = rmail => ~Held(m)'
    <3>1. \A u \in UIDs : cur[u] = rmail => u = rkey
      BY <2>1 DEF KeyIsCurrent, CopiedUID, Parked, Reclaimed
    <3> QED BY <2>1, <3>1 DEF Held, InCur, Reclaimed
  <2>5. \A m \in Mails : m # rmail => (Held(m)' <=> Held(m))
    BY <2>1 DEF Held, InCur, Reclaimed, CopiedUID
  <2>6. \A m \in Mails : Held(m)' <=> Held(m) /\ m # rmail
    BY <2>4, <2>5
  <2> QED BY ONLY <2>1, <2>2, <2>3, <2>6, MailGivenBack
<1>6. ASSUME RePushDelete PROVE [Queue!Next]_Queue!vars
  <2>1. /\ UNCHANGED <<ch, baseCh, fpc, fmail, wpc, wmail, intake, parsed, phase>>
        /\ bpc = "delete" /\ bpc' = "range"
        /\ cur' = [v \in UIDs |-> IF v = rkey THEN None ELSE cur[v]]
    BY <1>6 DEF RePushDelete, Delete
  <2>2. \A m \in Mails : /\ Accepted(m)' <=> Accepted(m)
                         /\ Waiting(m)' <=> Waiting(m)
    BY <2>1 DEF Accepted, Waiting, InHand, InForward, Workers
  <2>3. \A m \in Mails : Held(m)' <=> Held(m)
    BY <2>1 DEF Held, InCur, Reclaimed
  <2> QED BY <2>1, <2>2, <2>3, SameQueue
<1>7. ASSUME RePushStop PROVE [Queue!Next]_Queue!vars
  <2>1. /\ UNCHANGED <<ch, cur, baseCh, fpc, fmail, wpc, wmail, intake, parsed, phase>>
        /\ bpc = "send" /\ bpc' = "timer" /\ CtxDone /\ rmail \in Mails
    BY <1>7 DEF RePushStop
  <2>2. \A m \in Mails : /\ Accepted(m)' <=> Accepted(m)
                         /\ Waiting(m)' <=> Waiting(m)
    BY <2>1 DEF Accepted, Waiting, InHand, InForward, Workers
  <2>3. \A m \in Mails : Held(m)' <=> InCur(m)
    BY <2>1 DEF Held, InCur, Reclaimed
  <2>4. CASE InCur(rmail)
    BY <2>1, <2>2, <2>3, <2>4, SameQueue DEF Held
  <2>5. CASE ~InCur(rmail)
    <3>1. Held(rmail) /\ Accepted(rmail) /\ ~Waiting(rmail)
      BY <2>1, Apart DEF Held, Waiting
    <3>2. \A m \in Mails : Held(m)' <=> Held(m) /\ m # rmail
      BY <2>1, <2>3, <2>5 DEF Held
    <3>3. \A m \in Mails : Waiting(m)' <=> Waiting(m) /\ m # rmail
      BY <2>2, <3>1
    <3> QED BY ONLY <2>1, <3>1, <3>2, <3>3, MailDropped
  <2> QED BY <2>4, <2>5
<1>8. ASSUME NEW u \in UIDs, Drain(u) PROVE [Queue!Next]_Queue!vars
  <2>1. CASE Parked(u)
    <3>1. /\ UNCHANGED <<ch, baseCh, fpc, fmail, wpc, wmail, intake, parsed, phase>>
          /\ bpc = "drain" /\ bpc' = "drainSend" /\ rmail' = cur[u] /\ cur[u] \in Mails
          /\ cur' = [v \in UIDs |-> IF v = u THEN None ELSE cur[v]]
      BY <1>8, <2>1 DEF Drain, Delete, Parked
    <3>2. Held(cur[u])
      BY <3>1 DEF Held, InCur, Reclaimed
    <3>3. Accepted(cur[u]) /\ ~Waiting(cur[u])
      BY <3>1, <3>2, Apart DEF Waiting
    <3>4. \A m \in Mails : Waiting(m)' <=> Waiting(m) \/ m = cur[u]
      BY <3>1 DEF Waiting, InHand, InForward, Workers
    <3>5. ASSUME NEW v \in UIDs, cur[v] = cur[u] PROVE v = u
      <4>1. Parked(v) /\ Parked(u) /\ ~Reclaimed(v) /\ ~Reclaimed(u)
        BY <2>1, <3>1, <3>5 DEF Parked, Reclaimed
      <4>2. uid[cur[v]] = v /\ uid[cur[u]] = u
        BY <4>1 DEF KeyIsCurrent
      <4> QED BY <3>5, <4>2
    <3>6. \A m \in Mails : Held(m)' <=> Held(m) /\ m # cur[u]
      BY <3>1, <3>5 DEF Held, InCur, Reclaimed
    <3> QED BY <3>1, <3>2, <3>3, <3>4, <3>6, MailGivenBack
  <2>2. CASE ~Parked(u)
    <3>1. UNCHANGED <<ch, cur, baseCh, bpc, rkey, rmail, fpc, fmail, wpc, wmail, intake,
                      parsed, phase>>
      BY <1>8, <2>2 DEF Drain
    <3> QED BY <3>1, SameQueue, SameWhere DEF Accepted
  <2> QED BY <2>1, <2>2
<1>9. ASSUME DrainSend PROVE [Queue!Next]_Queue!vars
  <2>1. /\ UNCHANGED <<ch, cur, rkey, fpc, fmail, wpc, wmail, intake, parsed, phase>>
        /\ bpc = "drainSend" /\ bpc' = "drain"
        /\ Range(baseCh)' = Range(baseCh) \cup {rmail}
    BY <1>9 DEF DrainSend
  <2>2. \A m \in Mails : /\ Accepted(m)' <=> Accepted(m)
                         /\ Waiting(m)' <=> Waiting(m)
                         /\ Held(m)' <=> Held(m)
    BY <2>1 DEF Accepted, Waiting, Held, InCur, InHand, InForward, Reclaimed, Workers
  <2> QED BY <2>1, <2>2, SameQueue
<1>10. ASSUME ForwardRecv PROVE [Queue!Next]_Queue!vars
  <2>1. /\ UNCHANGED <<ch, cur, bpc, rkey, rmail, wpc, wmail, intake, parsed, phase>>
        /\ fpc = "recv" /\ fpc' = "stamp"
    BY <1>10 DEF ForwardRecv
  <2>2. \A m \in Mails : m \in Range(baseCh) <=> m \in Range(baseCh)' \/ m = fmail'
    BY <1>10 DEF ForwardRecv
  <2>3. \A m \in Mails : /\ Accepted(m)' <=> Accepted(m)
                         /\ Waiting(m)' <=> Waiting(m)
                         /\ Held(m)' <=> Held(m)
    BY <2>1, <2>2 DEF Accepted, Waiting, Held, InCur, InHand, InForward, Reclaimed, Workers
  <2> QED BY <2>1, <2>3, SameQueue
<1>11. ASSUME ForwardStamp \/ ForwardReturn \/ Close PROVE [Queue!Next]_Queue!vars
  <2>1. /\ UNCHANGED <<ch, cur, baseCh, bpc, rkey, rmail, fmail, wpc, wmail, intake, parsed,
                       phase>>
        /\ fpc \in {"stamp", "push"} <=> fpc' \in {"stamp", "push"}
    BY <1>11 DEF ForwardStamp, ForwardReturn, Close
  <2>2. \A m \in Mails : /\ Accepted(m)' <=> Accepted(m)
                         /\ Waiting(m)' <=> Waiting(m)
                         /\ Held(m)' <=> Held(m)
    BY <2>1 DEF Accepted, Waiting, Held, InCur, InHand, InForward, Reclaimed, Workers
  <2> QED BY <2>1, <2>2, SameQueue
<1>12. ASSUME ForwardSend PROVE [Queue!Next]_Queue!vars
  <2>1. /\ UNCHANGED <<cur, baseCh, bpc, rkey, rmail, wpc, wmail, intake, parsed, phase>>
        /\ fpc = "push" /\ fpc' = "recv" /\ Range(ch)' = Range(ch) \cup {fmail}
    BY <1>12 DEF ForwardSend
  <2>2. \A m \in Mails : /\ Accepted(m)' <=> Accepted(m)
                         /\ Waiting(m)' <=> Waiting(m)
                         /\ Held(m)' <=> Held(m)
    BY <2>1 DEF Accepted, Waiting, Held, InCur, InHand, InForward, Reclaimed, Workers
  <2> QED BY <2>1, <2>2, SameQueue
<1>13. ASSUME ForwardDrop PROVE [Queue!Next]_Queue!vars
  <2>1. /\ UNCHANGED <<ch, cur, baseCh, bpc, rkey, rmail, wpc, wmail, intake, parsed, phase>>
        /\ fpc = "push" /\ fpc' = "recv" /\ CtxDone /\ fmail \in Mails
    BY <1>13 DEF ForwardDrop
  <2>2. InForward(fmail)
    BY <2>1 DEF InForward
  <2>3. Accepted(fmail) /\ ~Held(fmail) /\ fmail \notin Range(baseCh) /\ fmail \notin Range(ch)
        /\ ~InHand(fmail) /\ ~(bpc = "drainSend" /\ rmail = fmail)
    BY <2>1, <2>2, Apart
  <2>4. \A m \in Mails : Held(m)' <=> Held(m)
    BY <2>1 DEF Held, InCur, Reclaimed
  <2>5. \A m \in Mails : InHand(m)' <=> InHand(m)
    BY <2>1 DEF InHand, Workers
  <2>6. \A m \in Mails : Waiting(m)' <=> Waiting(m) /\ m # fmail
    BY <2>1, <2>3, <2>5 DEF Waiting, InForward
  <2>7. \A m \in Mails : Held(m)' <=> Held(m) /\ m # fmail
    BY <2>3, <2>4
  <2>8. Waiting(fmail)
    BY <2>2 DEF Waiting
  <2> QED BY <2>1, <2>3, <2>6, <2>7, <2>8, MailDropped
<1>14. ASSUME NEW w \in Workers, PullRecv(w) PROVE [Queue!Next]_Queue!vars
  <2>1. /\ UNCHANGED <<cur, baseCh, bpc, rkey, rmail, fpc, fmail, intake, parsed, phase>>
        /\ wpc[w] = "idle" /\ wpc'[w] = "add" /\ wmail'[w] = Head(ch)
        /\ \A x \in Workers : x # w => wpc'[x] = wpc[x] /\ wmail'[x] = wmail[x]
    BY <1>14 DEF PullRecv
  <2>2. \A m \in Mails : m \in Range(ch) <=> m \in Range(ch)' \/ m = Head(ch)
    BY <1>14 DEF PullRecv
  <2>3. \A m \in Mails : InHand(m)' <=> InHand(m) \/ m = Head(ch)
    BY <2>1 DEF InHand, Workers
  <2>4. \A m \in Mails : /\ Accepted(m)' <=> Accepted(m)
                         /\ Waiting(m)' <=> Waiting(m)
                         /\ Held(m)' <=> Held(m)
    BY <2>1, <2>2, <2>3 DEF Accepted, Waiting, Held, InCur, InForward, Reclaimed
  <2> QED BY <2>1, <2>4, SameQueue
<1>15. ASSUME NEW w \in Workers, PullAdd(w) PROVE [Queue!Next]_Queue!vars
  <2> DEFINE m == wmail[w]
             u == uid[m]
  <2>1. /\ UNCHANGED <<ch, baseCh, bpc, rkey, rmail, fpc, fmail, wmail, intake, parsed, phase>>
        /\ wpc[w] = "add" /\ m \in Mails /\ wpc'[w] # "add"
        /\ \A x \in Workers : x # w => wpc'[x] = wpc[x]
        /\ cur' = [v \in UIDs |-> IF v = u THEN m ELSE cur[v]]
    BY <1>15 DEF PullAdd, Store
  <2>2. InHand(m)
    BY <2>1 DEF InHand
  <2>3. Accepted(m) /\ ~Held(m) /\ m \notin Range(baseCh) /\ m \notin Range(ch)
        /\ ~InForward(m) /\ ~(bpc = "drainSend" /\ rmail = m)
    BY <2>1, <2>2, Apart
  <2>4. u \in UIDs /\ ~Reclaimed(u)
    BY <2>1, <2>3 DEF OwnUID, CopiedUID, Reclaimed, InForward, Accepted
  <2>5. cur[u] = None
    BY <2>1, <2>3, <2>4 DEF KeyIsCurrent, OwnUID, Parked, Held, InCur
  <2>6. \A n \in Mails : InHand(n)' <=> InHand(n) /\ n # m
    BY <2>1 DEF InHand, OnePlace, Workers
  <2>7. \A n \in Mails : InCur(n)' <=> InCur(n) \/ n = m
    BY <2>1, <2>4, <2>5 DEF InCur, Reclaimed
  <2>8. \A n \in Mails : Waiting(n)' <=> Waiting(n) /\ n # m
    BY <2>1, <2>3, <2>6 DEF Waiting, InForward
  <2>9. \A n \in Mails : Held(n)' <=> Held(n) \/ n = m
    BY <2>1, <2>7 DEF Held
  <2>10. Waiting(m)
    BY <2>2 DEF Waiting
  <2> HIDE DEF m
  <2> QED BY <2>1, <2>3, <2>8, <2>9, <2>10, MailLeased
<1>16. ASSUME NEW w \in Workers, PullStop(w) \/ RemoteReply(w) \/ RemoteDies(w)
       PROVE  [Queue!Next]_Queue!vars
  <2>1. /\ UNCHANGED <<ch, cur, baseCh, bpc, rkey, rmail, fpc, fmail, intake, parsed, phase>>
        /\ wpc[w] # "add" /\ wpc'[w] # "add"
        /\ \A x \in Workers : x # w => wpc'[x] = wpc[x] /\ wmail'[x] = wmail[x]
    BY <1>16 DEF PullStop, RemoteReply, RemoteDies
  <2>2. \A m \in Mails : InHand(m)' <=> InHand(m)
    BY <2>1 DEF InHand, Workers
  <2>3. \A m \in Mails : /\ Accepted(m)' <=> Accepted(m)
                         /\ Waiting(m)' <=> Waiting(m)
                         /\ Held(m)' <=> Held(m)
    BY <2>1, <2>2 DEF Accepted, Waiting, Held, InCur, InForward, Reclaimed
  <2> QED BY <2>1, <2>3, SameQueue
<1>17. CASE \E w \in Workers : LocalParse(w) \/ RemoteParse(w)
  BY <1>17, MailParsed
<1>18. ASSUME NEW w \in Workers, ACK(w) PROVE [Queue!Next]_Queue!vars
  <2> DEFINE u == wuid[w]
  <2>1. /\ UNCHANGED <<ch, baseCh, bpc, rkey, rmail, fpc, fmail, intake, parsed, phase>>
        /\ wpc[w] = "ack" /\ wpc'[w] = "idle"
        /\ \A x \in Workers : x # w => wpc'[x] = wpc[x] /\ wmail'[x] = wmail[x]
        /\ cur' = [v \in UIDs |-> IF v = u THEN None ELSE cur[v]]
    BY <1>18 DEF ACK, Delete
  <2>2. \A n \in Mails : InHand(n)' <=> InHand(n)
    BY <2>1 DEF InHand, Workers
  <2>3. \A n \in Mails : Waiting(n)' <=> Waiting(n)
    BY <2>1, <2>2 DEF Waiting, InForward
  <2>4. CASE u \in UIDs /\ cur[u] # None /\ ~Reclaimed(u) /\ ~(bpc = "send" /\ rmail = cur[u])
    <3>1. cur[u] \in Mails /\ cur[u] \in parsed
      BY <1>18, <2>4, ACKedIsParsed DEF Parked
    <3>2. Held(cur[u]) /\ Accepted(cur[u])
      BY <2>4, <3>1, Apart DEF Held, InCur
    <3>3. \A v \in UIDs : cur[v] = cur[u] /\ ~Reclaimed(v) => v = u
      BY <2>4 DEF KeyIsCurrent, Parked
    <3>4. \A n \in Mails : Held(n)' <=> Held(n) /\ n # cur[u]
      BY <2>1, <2>4, <3>3 DEF Held, InCur, Reclaimed
    <3> QED BY <2>1, <2>3, <3>1, <3>2, <3>4, MailAcknowledged
  <2>5. CASE ~(u \in UIDs /\ cur[u] # None /\ ~Reclaimed(u) /\ ~(bpc = "send" /\ rmail = cur[u]))
    <3>1. \A n \in Mails : Held(n)' <=> Held(n)
      BY <2>1, <2>5 DEF Held, InCur, Reclaimed
    <3> QED BY <2>1, <2>3, <3>1, SameQueue DEF Accepted
  <2> QED BY <2>4, <2>5
<1>19. CASE StopParser
  BY <1>19, SameWhere DEF StopParser, Queue!vars, Accepted, CtxDone
<1>20. CASE StopCollector
  <2>1. /\ UNCHANGED <<ch, cur, baseCh, bpc, rkey, rmail, fpc, fmail, wpc, wmail, intake, parsed>>
        /\ ~CtxDone /\ CtxDone'
    BY <1>20 DEF StopCollector, CtxDone
  <2>2. \A m \in Mails : /\ Accepted(m)' <=> Accepted(m)
                         /\ Waiting(m)' <=> Waiting(m)
                         /\ Held(m)' <=> Held(m)
    BY <2>1, SameWhere DEF Accepted
  <2>3. Queue!Shut
    BY <2>1, <2>2 DEF Queue!Shut
  <2> QED BY <2>3 DEF Queue!Next
<1>21. CASE UNCHANGED vars
  BY <1>21, SameQueue, SameWhere DEF vars, Accepted
<1> QED
  BY <1>1, <1>2, <1>3, <1>4, <1>5, <1>6, <1>7, <1>8, <1>9, <1>10, <1>11, <1>12, <1>13,
     <1>14, <1>15, <1>16, <1>17, <1>18, <1>19, <1>20, <1>21 DEF Next, Exited

(* The in-memory collector is an at-least-once queue, whatever the number   *)
(* of mails and workers, the capacity and the delay.                        *)
THEOREM ImplementsMailQueue == Spec => RefinesMailQueue
<1>1. Init => Queue!Init
  <2> SUFFICES ASSUME Init PROVE Queue!Init
    OBVIOUS
  <2>1. \A m \in Mails : ~Accepted(m)
    BY DEF Init, Accepted
  <2> QED BY <2>1 DEF Init, Queue!Init, CtxDone
<1> QED BY Inductive, <1>1, QueueStep, PTL DEF Spec, RefinesMailQueue, Queue!Spec
=============================================================================
