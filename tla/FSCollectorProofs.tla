-------------------------- MODULE FSCollectorProofs --------------------------
(***************************************************************************)
(* Theorems about FSCollector, for every set of mails and workers, every    *)
(* capacity and whatever goes wrong: a mail is in one place, the collector  *)
(* implements Spool, and an orderly stop leaves every mail on disk.         *)
(***************************************************************************)
EXTENDS FSCollector, TLAPS

InHands == {"add", "reply", "parse", "ack"}

\* The goroutine that has a file holds the lock, and nobody else removes it.
LockInv ==
  /\ \A w \in Workers : gpc[w] \in {"check", "remove"} => lock = w /\ gfile[w] \in disk
  /\ \A i \in DOMAIN waiters : gpc[waiters[i]] = "wait"
  /\ \A i, j \in DOMAIN waiters : waiters[i] = waiters[j] => i = j

\* A goroutine that holds something holds a mail that was accepted.
HandInv ==
  /\ \A w \in Workers :
       /\ wpc[w] \in InHands => wuid[w] \in UID /\ Accepted(mail(wuid[w]))
       /\ wpc[w] = "ack" => mail(wuid[w]) \in parsed
       /\ wack[w] # None => wpc[w] \in {"parse", "ack"} /\ mail(wack[w]) = mail(wuid[w])
  /\ bpc \in {"send", "delete", "drainSend"} => rkey \in UID
  /\ fpc \in {"stamp", "store"} => fobj \in UID

\* The UID of a mail wherever it is, is the last one it was given.
Last(u) == Accepted(mail(u)) /\ u[2] = turn[mail(u)]

TurnInv ==
  /\ \A u \in disk : Last(u)
  /\ \A w \in Workers : /\ gpc[w] = "done" /\ gfile[w] # None => Last(gfile[w])
                        /\ wpc[w] = "add" => Last(wuid[w])
  /\ \A u \in cur : ~Reclaimed(u) => Last(u)
  /\ \A i \in DOMAIN baseCh : Last(baseCh[i])
  /\ bpc \in {"send", "drainSend"} => Last(rkey)
  /\ fpc \in {"stamp", "store"} => Last(fobj)

\* An entry that goes to Base.Ch stays another one than that of a new lease.
ReclaimInv ==
  /\ bpc = "drainSend" => rkey \notin cur
  /\ bpc = "delete" =>
       /\ Accepted(mail(rkey))
       /\ \/ rkey[2] < turn[mail(rkey)]
          \/ \E i \in DOMAIN baseCh : baseCh[i] = rkey
          \/ fpc \in {"stamp", "store"} /\ fobj = rkey

\* Nobody stops waiting unless something has gone wrong.
TroubleInv ==
  /\ phase # "up" => "stop" \in faults
  /\ gone # {} => faults # {}
  /\ \A w \in Workers : /\ wpc[w] = "left" => faults # {}
                        /\ gpc[w] = "done" /\ gfile[w] = None => faults # {}

OneEach == \A m \in Mails : \A p, q \in Places(m) : p = q

IInv == /\ TypeOK /\ LockInv /\ HandInv /\ TurnInv /\ ReclaimInv /\ TroubleInv
        /\ OneEach

\* The process that is stopped is the first one, and nothing else goes wrong.
FirstRun == faults \subseteq {"stop", "die"} /\ ("stop" \in faults => phase # "up")

\* Only a worker that has a mail has an object.
IdleInv == \A w \in Workers : wuid[w] # None => wpc[w] \in InHands

\* Nobody leaves while the process is up.
WaitInv ==
  phase = "up" =>
    /\ gone = {}
    /\ \A w \in Workers : wpc[w] # "left" /\ ~(gpc[w] = "done" /\ gfile[w] = None)

\* The parser stops first, then the base goroutine, then that of Start.
StopInv ==
  /\ CtxDone => \A w \in Local : wpc[w] = "left"
  /\ bpc \in {"drain", "drainSend", "closed"} => CtxDone
  /\ phase = "closed" => fpc = "returned"
  /\ fpc = "returned" => bpc = "closed" /\ baseCh = <<>>
  /\ bpc = "closed" => todo = {}

\* What RePush gives up, and what the stop does not see, was handed out.
DrainInv ==
  /\ bpc = "send" /\ rkey \notin cur => mail(rkey) \in parsed
  /\ bpc \in {"drain", "drainSend", "closed"} =>
       \A u \in cur \ todo : mail(u) \in parsed \/ \E w \in Remote : wuid[w] = u

KeptInv == \A m \in Mails : Accepted(m) /\ m \notin parsed => Places(m) # {}

KeepInv == IdleInv /\ (FirstRun => WaitInv /\ StopInv /\ DrainInv /\ KeptInv)
-----------------------------------------------------------------------------
(* A send on Base.Ch with room leaves a channel within its capacity.        *)
LEMMA AppendType ==
  ASSUME NEW S, NEW s \in Seq(S), NEW x \in S
  PROVE  /\ Append(s, x) \in Seq(S) /\ Len(Append(s, x)) = Len(s) + 1
         /\ Len(s) \in Nat
  OBVIOUS

(* A receive leaves a channel of the same UIDs, and so does waking the
   goroutine that has waited longest. *)
LEMMA TailType ==
  ASSUME NEW S, NEW s \in Seq(S), s # <<>>
  PROVE  /\ Head(s) \in S /\ Tail(s) \in Seq(S)
         /\ Len(Tail(s)) = Len(s) - 1 /\ Len(s) > 0 /\ Len(s) \in Nat
  OBVIOUS

(* What a process starts with is well typed. *)
LEMMA BootType ==
  ASSUME TypeOK, Boot, faults' \subseteq Faults
  PROVE  TypeOK'
<1>1. <<>> \in Seq(Workers) /\ <<>> \in Seq(UID) /\ Len(<<>>) = 0
  OBVIOUS
<1> QED BY <1>1, BoundsAssumption DEF TypeOK, Boot, Empty

(* cond.Signal moves a goroutine from the condition variable to the lock. *)
LEMMA SignalType ==
  ASSUME NEW pcs \in [Workers -> {"none", "lock", "wait", "check", "remove", "done"}],
         Signal(pcs), waiters \in Seq(Workers)
  PROVE  /\ gpc' \in [Workers -> {"none", "lock", "wait", "check", "remove", "done"}]
         /\ waiters' \in Seq(Workers)
<1>1. CASE waiters = <<>> BY <1>1 DEF Signal
<1>2. CASE waiters # <<>>
  <2>1. Head(waiters) \in Workers /\ Tail(waiters) \in Seq(Workers)
    BY <1>2, TailType
  <2> QED BY <2>1, <1>2 DEF Signal
<1> QED BY <1>1, <1>2

(* No step of a goroutine, and nothing that goes wrong, breaks the types. *)
LEMMA TypeStep == TypeOK /\ HandInv /\ [Next]_vars => TypeOK'
<1> SUFFICES ASSUME TypeOK, HandInv, [Next]_vars PROVE TypeOK'
  OBVIOUS
<1> USE DEF storeVars, condVars, workerVars, baseVars, fwdVars
<1>0. \A u \in UID : mail(u) \in Mails /\ u[2] + 1 \in Nat /\ <<mail(u), u[2] + 1>> \in UID
  BY DEF UID, mail
<1>1. CASE \E m \in Mails : IntakeStore(m)
  <2> PICK m \in Mails : IntakeStore(m) BY <1>1
  <2> DEFINE u == <<m, 1>>
  <2>1. u \in UID /\ mail(u) \in Mails /\ u[2] \in Nat BY DEF UID, mail
  <2>2. Renamed(u) BY DEF IntakeStore
  <2> HIDE DEF u
  <2>3. turn' \in [Mails -> Nat] /\ disk' \subseteq UID /\ events' \in Nat
    BY <2>1, <2>2 DEF Renamed, TypeOK
  <2> QED BY <2>3 DEF IntakeStore, TypeOK
<1>2. CASE \E m \in Mails : IntakeFail(m) BY <1>2 DEF IntakeFail, Fault, TypeOK
<1>3. CASE Watch BY <1>3, SignalType DEF Watch, TypeOK
<1>4. ASSUME NEW w \in Workers,
             Get(w) \/ Look(w) \/ Transfer(w) \/ Checked(w) \/ Remove(w)
      PROVE  TypeOK'
  <2>1. CASE Get(w) BY <2>1 DEF Get, TypeOK
  <2>2. CASE Look(w)
    <3>1. CASE disk = {}
      <4>1. waiters' = Append(waiters, w) /\ waiters \in Seq(Workers)
        BY <2>2, <3>1 DEF Look, TypeOK
      <4>2. waiters' \in Seq(Workers) BY <4>1, AppendType
      <4> QED BY <2>2, <3>1, <4>2 DEF Look, TypeOK
    <3>2. CASE disk # {}
      <4>1. gfile' \in [Workers -> UID \cup {None}] BY <2>2, <3>2 DEF Look, TypeOK
      <4> QED BY <2>2, <3>2, <4>1 DEF Look, TypeOK
    <3> QED BY <3>1, <3>2
  <2>3. CASE Transfer(w) BY <2>3, SignalType DEF Transfer, Ended, TypeOK
  <2>4. CASE Checked(w) BY <2>4 DEF Checked, TypeOK
  <2>5. CASE Remove(w) BY <2>5 DEF Remove, Ended, TypeOK
  <2> QED BY <1>4, <2>1, <2>2, <2>3, <2>4, <2>5
<1>5. ASSUME NEW w \in Workers, GetReturn(w) \/ GetCanceled(w) \/ NextRequest(w)
      PROVE  TypeOK'
  <2>1. CASE GetReturn(w) BY <2>1 DEF GetReturn, TypeOK
  <2>2. CASE GetCanceled(w) BY <2>2 DEF GetCanceled, TypeOK
  <2>3. CASE NextRequest(w) BY <2>3 DEF NextRequest, TypeOK
  <2> QED BY <1>5, <2>1, <2>2, <2>3
<1>6. ASSUME NEW w \in Workers, Add(w) PROVE TypeOK'
  BY <1>6 DEF Add, TypeOK, HandInv, InHands
<1>7. ASSUME NEW w \in Workers, Reply(w) \/ Parse(w) PROVE TypeOK'
  <2>1. wuid[w] \in UID BY <1>7 DEF Reply, Parse, HandInv, InHands
  <2>2. Readings(wuid[w]) \subseteq UID \cup {None}
    BY <2>1, <1>0 DEF Readings
  <2>3. wack' \in [Workers -> UID \cup {None}] /\ parsed' \subseteq Mails
    BY <1>0, <1>7, <2>1, <2>2 DEF Reply, Parse, TypeOK
  <2> QED BY <1>7, <2>3 DEF Reply, Parse, TypeOK
<1>8. ASSUME NEW w \in Workers, ACK(w) \/ Leave(w) \/ Die(w) PROVE TypeOK'
  <2>1. CASE ACK(w) BY <2>1 DEF ACK, TypeOK
  <2>2. CASE Leave(w) BY <2>2 DEF Leave, Fault, TypeOK
  <2>3. CASE Die(w) BY <2>3 DEF Die, Fault, TypeOK
  <2> QED BY <1>8, <2>1, <2>2, <2>3
<1>9. CASE \E u \in cur : RePush(u) BY <1>9 DEF RePush, TypeOK
<1>10. CASE RePushSend BY <1>10, AppendType, TailType, BoundsAssumption DEF RePushSend, TypeOK, HandInv
<1>11. CASE RePushDelete \/ RePushStop BY <1>11 DEF RePushDelete, RePushStop, TypeOK
<1>12. CASE DrainStart \/ DrainReturn BY <1>12 DEF DrainStart, DrainReturn, TypeOK
<1>13. CASE DrainSend BY <1>13, AppendType, TailType, BoundsAssumption DEF DrainSend, TypeOK, HandInv
<1>14. CASE \E u \in todo : Drain(u) BY <1>14 DEF Drain, TypeOK
<1>15. CASE ForwardRecv BY <1>15, AppendType, TailType, BoundsAssumption DEF ForwardRecv, TypeOK
<1>16. CASE ForwardStamp \/ ForwardReturn BY <1>16 DEF ForwardStamp, ForwardReturn, TypeOK
<1>17. CASE ForwardStore \/ ForwardFail
  <2>1. fobj \in UID BY <1>17 DEF ForwardStore, ForwardFail, HandInv
  <2> DEFINE u == <<mail(fobj), fobj[2] + 1>>
  <2>2. /\ u \in UID /\ mail(u) = mail(fobj) /\ mail(u) \in Mails
        /\ u[2] = fobj[2] + 1 /\ u[2] \in Nat
    BY <1>0, <2>1 DEF mail
  <2> HIDE DEF u
  <2>3. CASE ForwardStore
    <3>1. Renamed(u) BY <2>3 DEF ForwardStore, u
    <3>2. turn' \in [Mails -> Nat] /\ disk' \subseteq UID /\ events' \in Nat
      BY <2>2, <3>1 DEF Renamed, TypeOK
    <3> QED BY <2>3, <3>2 DEF ForwardStore, TypeOK
  <2>4. CASE ForwardFail
    <3>1. turn' \in [Mails -> Nat] BY <2>2, <2>4 DEF ForwardFail, TypeOK
    <3> QED BY <2>4, <3>1 DEF ForwardFail, Fault, TypeOK
  <2> QED BY <1>17, <2>3, <2>4
<1>18. CASE StopParser \/ StopCollector \/ Close
  BY <1>18 DEF StopParser, StopCollector, Close, Fault, TypeOK
<1>19. CASE Restart \/ Crash BY <1>19, BootType DEF Restart, Crash, Fault, TypeOK
<1>20. CASE UNCHANGED vars BY <1>20 DEF vars, TypeOK
<1> QED
  BY <1>1, <1>2, <1>3, <1>4, <1>5, <1>6, <1>7, <1>8, <1>9, <1>10, <1>11, <1>12, <1>13,
     <1>14, <1>15, <1>16, <1>17, <1>18, <1>19, <1>20 DEF Next
-----------------------------------------------------------------------------
(* What a channel holds after a send: what it held, and the one sent.       *)
LEMMA AppendElements ==
  ASSUME NEW S, NEW s \in Seq(S), NEW x \in S
  PROVE  /\ \A i \in DOMAIN Append(s, x) :
              \/ i \in DOMAIN s /\ Append(s, x)[i] = s[i]
              \/ i = Len(s) + 1 /\ i \notin DOMAIN s /\ Append(s, x)[i] = x
         /\ \A i \in DOMAIN s : i \in DOMAIN Append(s, x) /\ Append(s, x)[i] = s[i]
         /\ Len(s) + 1 \in DOMAIN Append(s, x) /\ Append(s, x)[Len(s) + 1] = x
<1>1. /\ DOMAIN s = 1..Len(s) /\ DOMAIN Append(s, x) = 1..(Len(s) + 1)
      /\ \A i \in 1..Len(s) : Append(s, x)[i] = s[i]
      /\ Append(s, x)[Len(s) + 1] = x /\ Len(s) \in Nat
  OBVIOUS
<1> QED BY <1>1

(* What it holds after a receive: all but its head, one place earlier.      *)
LEMMA TailElements ==
  ASSUME NEW S, NEW s \in Seq(S), s # <<>>
  PROVE  /\ \A i \in DOMAIN Tail(s) : /\ i \in Nat /\ i + 1 \in DOMAIN s /\ i + 1 # 1
                                      /\ Tail(s)[i] = s[i + 1]
         /\ \A i \in DOMAIN s :
              i = 1 \/ (i - 1 \in DOMAIN Tail(s) /\ Tail(s)[i - 1] = s[i])
         /\ 1 \in DOMAIN s /\ Head(s) = s[1]
<1>1. /\ DOMAIN s = 1..Len(s) /\ DOMAIN Tail(s) = 1..(Len(s) - 1)
      /\ \A i \in 1..(Len(s) - 1) : Tail(s)[i] = s[i + 1]
      /\ Head(s) = s[1] /\ Len(s) \in Nat \ {0}
  OBVIOUS
<1>2. ASSUME NEW i \in 1..Len(s), i # 1
      PROVE  /\ i - 1 \in 1..(Len(s) - 1) /\ (i - 1) + 1 = i
  BY <1>1, <1>2
<1>3. \A i \in 1..(Len(s) - 1) : i \in Nat /\ i + 1 \in 1..Len(s) /\ i + 1 # 1
  BY <1>1
<1> QED BY <1>1, <1>2, <1>3

(* Waking a goroutine leaves those that wait, waiting, and gives nobody a
   file. *)
LEMMA SignalWakes ==
  ASSUME NEW pcs \in [Workers -> {"none", "lock", "wait", "check", "remove", "done"}],
         Signal(pcs), waiters \in Seq(Workers),
         \A i \in DOMAIN waiters : pcs[waiters[i]] = "wait",
         \A i, j \in DOMAIN waiters : waiters[i] = waiters[j] => i = j
  PROVE  /\ \A i \in DOMAIN waiters' : gpc'[waiters'[i]] = "wait"
         /\ \A i, j \in DOMAIN waiters' : waiters'[i] = waiters'[j] => i = j
         /\ \A w \in Workers :
              gpc'[w] = pcs[w] \/ (gpc'[w] = "lock" /\ pcs[w] = "wait")
<1>1. CASE waiters = <<>> BY <1>1 DEF Signal
<1>2. CASE waiters # <<>>
  <2>1. waiters' = Tail(waiters) /\ gpc' = [pcs EXCEPT ![waiters[1]] = "lock"]
    BY <1>2, TailElements DEF Signal
  <2>2. waiters[1] \in Workers /\ pcs[waiters[1]] = "wait"
    BY <1>2, TailElements, TailType
  <2>3. \A w \in Workers : gpc'[w] = IF w = waiters[1] THEN "lock" ELSE pcs[w]
    BY <2>1, <2>2
  <2>4. ASSUME NEW i \in DOMAIN Tail(waiters)
        PROVE  /\ i + 1 \in DOMAIN waiters /\ Tail(waiters)[i] = waiters[i + 1]
               /\ i \in Nat /\ waiters[i + 1] # waiters[1] /\ waiters[i + 1] \in Workers
    <3>1. i + 1 \in DOMAIN waiters /\ i + 1 # 1 /\ Tail(waiters)[i] = waiters[i + 1] /\ i \in Nat
      BY <1>2, <2>4, TailElements
    <3>2. 1 \in DOMAIN waiters /\ \A j \in DOMAIN waiters : waiters[j] \in Workers
      BY <1>2, TailElements
    <3> QED BY <3>1, <3>2
  <2>5. \A i \in DOMAIN waiters' : gpc'[waiters'[i]] = "wait"
    BY <2>1, <2>3, <2>4
  <2>6. ASSUME NEW i \in DOMAIN Tail(waiters), NEW j \in DOMAIN Tail(waiters),
               Tail(waiters)[i] = Tail(waiters)[j]
        PROVE  i = j
    <3>1. i + 1 = j + 1 BY <2>4, <2>6
    <3> QED BY <3>1, <2>4
  <2> QED BY <2>1, <2>2, <2>3, <2>5, <2>6
<1> QED BY <1>1, <1>2

(* The lock, the condition variable and the file that is about to be removed
   change together. *)
LEMMA LockStep == TypeOK /\ LockInv /\ [Next]_vars => LockInv'
<1> SUFFICES ASSUME TypeOK, LockInv, [Next]_vars PROVE LockInv'
  OBVIOUS
<1> USE DEF storeVars, condVars, workerVars, baseVars, fwdVars
<1>0. ASSUME UNCHANGED condVars, disk \subseteq disk' PROVE LockInv'
  BY <1>0 DEF LockInv
<1>1. CASE \E m \in Mails : IntakeStore(m) \/ IntakeFail(m)
  BY <1>0, <1>1 DEF IntakeStore, IntakeFail, Renamed
<1>2. CASE Watch
  BY <1>2, SignalWakes DEF Watch, LockInv, TypeOK
<1>3. ASSUME NEW w \in Workers, Get(w) PROVE LockInv'
  BY <1>3 DEF Get, LockInv, TypeOK
<1>4. ASSUME NEW w \in Workers, Look(w) PROVE LockInv'
  <2>1. CASE disk = {}
    <3>1. /\ waiters' = Append(waiters, w) /\ waiters \in Seq(Workers)
          /\ gpc' = [gpc EXCEPT ![w] = "wait"] /\ gpc[w] = "lock"
          /\ UNCHANGED <<lock, gfile, disk>>
      BY <1>4, <2>1 DEF Look, TypeOK
    <3>2. \A x \in Workers : gpc'[x] = IF x = w THEN "wait" ELSE gpc[x]
      BY <3>1 DEF TypeOK
    <3>3. \A i \in DOMAIN waiters : waiters[i] # w /\ waiters[i] \in Workers
      BY <3>1 DEF LockInv
    <3>4. \A i \in DOMAIN waiters' : gpc'[waiters'[i]] = "wait"
      BY <3>1, <3>2, <3>3, AppendElements DEF LockInv
    <3>5. \A i, j \in DOMAIN waiters' : waiters'[i] = waiters'[j] => i = j
      BY <3>1, <3>3, AppendElements DEF LockInv
    <3> QED BY <3>1, <3>2, <3>4, <3>5 DEF LockInv
  <2>2. CASE disk # {}
    <3>1. PICK u \in disk : gfile' = [gfile EXCEPT ![w] = u]
      BY <1>4, <2>2 DEF Look
    <3>2. /\ \A x \in Workers : gpc'[x] = IF x = w THEN "check" ELSE gpc[x]
          /\ \A x \in Workers : gfile'[x] = IF x = w THEN u ELSE gfile[x]
          /\ lock = None /\ lock' = w /\ UNCHANGED <<waiters, disk>> /\ gpc[w] = "lock"
      BY <1>4, <2>2, <3>1 DEF Look, TypeOK
    <3>3. \A i \in DOMAIN waiters : waiters[i] \in Workers
      BY DEF TypeOK
    <3>4. \A x \in Workers : gpc[x] \notin {"check", "remove"}
      BY <3>2, MailsAssumption DEF LockInv
    <3> QED BY <3>2, <3>3, <3>4 DEF LockInv
  <2> QED BY <2>1, <2>2
<1>5. ASSUME NEW w \in Workers, Transfer(w) PROVE LockInv'
  <2>1. /\ Ended(w) \in [Workers -> {"none", "lock", "wait", "check", "remove", "done"}]
        /\ \A x \in Workers : Ended(w)[x] = IF x = w THEN "done" ELSE gpc[x]
    BY DEF Ended, TypeOK
  <2>2. \A i \in DOMAIN waiters : waiters[i] \in Workers /\ waiters[i] # w
    BY <1>5 DEF Transfer, LockInv, TypeOK
  <2>3. \A i \in DOMAIN waiters : Ended(w)[waiters[i]] = "wait"
    BY <2>1, <2>2 DEF LockInv
  <2>4. /\ \A i \in DOMAIN waiters' : gpc'[waiters'[i]] = "wait"
        /\ \A i, j \in DOMAIN waiters' : waiters'[i] = waiters'[j] => i = j
        /\ \A x \in Workers :
             gpc'[x] = Ended(w)[x] \/ (gpc'[x] = "lock" /\ Ended(w)[x] = "wait")
    BY <1>5, <2>1, <2>3, SignalWakes DEF Transfer, LockInv, TypeOK
  <2>5. \A x \in Workers : gpc[x] \in {"check", "remove"} => x = w
    BY <1>5 DEF Transfer, LockInv
  <2> QED BY <1>5, <2>1, <2>4, <2>5 DEF Transfer, LockInv
<1>6. ASSUME NEW w \in Workers, Checked(w) PROVE LockInv'
  BY <1>6 DEF Checked, LockInv, TypeOK
<1>7. ASSUME NEW w \in Workers, Remove(w) PROVE LockInv'
  <2>1. \A x \in Workers : gpc[x] \in {"check", "remove"} => x = w
    BY <1>7 DEF Remove, LockInv
  <2>2. \A x \in Workers : gpc'[x] = IF x = w THEN "done" ELSE gpc[x]
    BY <1>7 DEF Remove, Ended, TypeOK
  <2>3. \A i \in DOMAIN waiters : waiters[i] \in Workers /\ waiters[i] # w
    BY <1>7 DEF Remove, LockInv, TypeOK
  <2> QED BY <1>7, <2>1, <2>2, <2>3 DEF Remove, LockInv
<1>8. ASSUME NEW w \in Workers, GetReturn(w) \/ NextRequest(w) PROVE LockInv'
  <2>1. /\ \A x \in Workers : gpc'[x] = IF x = w THEN "none" ELSE gpc[x]
        /\ \A x \in Workers : gfile'[x] = IF x = w THEN None ELSE gfile[x]
        /\ gpc[w] \in {"none", "done"} /\ UNCHANGED <<lock, waiters, disk>>
    BY <1>8 DEF GetReturn, NextRequest, TypeOK
  <2>2. \A i \in DOMAIN waiters : waiters[i] \in Workers /\ waiters[i] # w
    BY <2>1 DEF LockInv, TypeOK
  <2> QED BY <2>1, <2>2 DEF LockInv
<1>9. CASE \E w \in Workers : GetCanceled(w) \/ Add(w) \/ Reply(w) \/ Parse(w)
                              \/ ACK(w) \/ Leave(w) \/ Die(w)
  BY <1>0, <1>9 DEF GetCanceled, Add, Reply, Parse, ACK, Leave, Die
<1>10. CASE (\E u \in cur : RePush(u)) \/ (\E u \in todo : Drain(u))
  BY <1>0, <1>10 DEF RePush, Drain
<1>11. CASE RePushSend \/ RePushDelete \/ RePushStop \/ DrainStart \/ DrainSend \/ DrainReturn
  BY <1>0, <1>11 DEF RePushSend, RePushDelete, RePushStop, DrainStart, DrainSend, DrainReturn
<1>12. CASE ForwardRecv \/ ForwardStamp \/ ForwardStore \/ ForwardFail \/ ForwardReturn
  BY <1>0, <1>12
     DEF ForwardRecv, ForwardStamp, ForwardStore, ForwardFail, ForwardReturn, Renamed
<1>13. CASE StopParser \/ StopCollector \/ Close
  BY <1>0, <1>13 DEF StopParser, StopCollector, Close
<1>14. CASE Restart \/ Crash
  BY <1>14 DEF Restart, Crash, Boot, LockInv
<1>15. CASE UNCHANGED vars BY <1>0, <1>15 DEF vars
<1> QED
  BY <1>1, <1>2, <1>3, <1>4, <1>5, <1>6, <1>7, <1>8, <1>9, <1>10, <1>11, <1>12, <1>13,
     <1>14, <1>15 DEF Next
-----------------------------------------------------------------------------
(* What Push accepted stays accepted, whatever happens to the process.      *)
LEMMA AcceptedStays ==
  ASSUME TypeOK, [Next]_vars
  PROVE  \A m \in Mails : Accepted(m) => Accepted(m)'
<1> USE DEF Accepted
<1>1. CASE \E m \in Mails : IntakeStore(m) \/ IntakeFail(m)
  BY <1>1 DEF IntakeStore, IntakeFail, TypeOK
<1>2. CASE UNCHANGED intake BY <1>2
<1>3. \/ \E m \in Mails : IntakeStore(m) \/ IntakeFail(m)
      \/ UNCHANGED intake
  BY DEF Next, Watch, Get, Look, Transfer, Checked, Remove, GetReturn, GetCanceled,
     NextRequest, Add, Reply, Parse, ACK, Leave, Die, RePush, RePushSend, RePushDelete,
     RePushStop, DrainStart, DrainSend, DrainReturn, Drain, ForwardRecv, ForwardStamp,
     ForwardStore, ForwardFail, ForwardReturn, StopParser, StopCollector, Close, Restart,
     Crash, Boot, vars
<1> QED BY <1>1, <1>2, <1>3

(* What a goroutine has in hand is a mail that was accepted, and a worker
   acknowledges the mail it has parsed. *)
LEMMA HandStep == TypeOK /\ HandInv /\ TurnInv /\ [Next]_vars => HandInv'
<1> SUFFICES ASSUME TypeOK, HandInv, TurnInv, [Next]_vars PROVE HandInv'
  OBVIOUS
<1> USE DEF storeVars, condVars, workerVars, baseVars, fwdVars, InHands
<1>0. \A u \in UID : mail(u) \in Mails
  BY DEF UID, mail
<1>a. \A u \in UID : Accepted(mail(u)) => Accepted(mail(u))'
  BY <1>0, AcceptedStays DEF mail
<1>b. ASSUME UNCHANGED <<wpc, wuid, wack, parsed>>
      PROVE  \A w \in Workers :
               /\ wpc'[w] \in InHands => wuid'[w] \in UID /\ Accepted(mail(wuid[w]))'
               /\ wpc'[w] = "ack" => mail(wuid'[w]) \in parsed'
               /\ wack'[w] # None => wpc'[w] \in {"parse", "ack"} /\ mail(wack'[w]) = mail(wuid'[w])
  BY <1>a, <1>b DEF HandInv
<1>c. ASSUME UNCHANGED <<wpc, wuid, wack, parsed, bpc, rkey, fpc, fobj>> PROVE HandInv'
  BY <1>b, <1>c DEF HandInv, mail
<1>1. CASE \E m \in Mails : IntakeStore(m) \/ IntakeFail(m)
  BY <1>c, <1>1 DEF IntakeStore, IntakeFail
<1>2. CASE Watch BY <1>c, <1>2 DEF Watch
<1>3. ASSUME NEW w \in Workers,
             Look(w) \/ Transfer(w) \/ Checked(w) \/ Remove(w) \/ Leave(w)
      PROVE  HandInv'
  BY <1>c, <1>3 DEF Look, Transfer, Checked, Remove, Leave
<1>4. ASSUME NEW w \in Workers, Get(w) \/ GetCanceled(w) \/ NextRequest(w) PROVE HandInv'
  BY <1>4, <1>a DEF Get, GetCanceled, NextRequest, HandInv, TypeOK, mail
<1>5. ASSUME NEW w \in Workers, GetReturn(w) PROVE HandInv'
  <2>1. gfile[w] # None => gfile[w] \in UID /\ Accepted(mail(gfile[w]))
    BY <1>5 DEF GetReturn, TurnInv, Last, TypeOK
  <2>2. /\ \A x \in Workers : wuid'[x] = IF x = w THEN gfile[w] ELSE wuid[x]
        /\ \A x \in Workers : x # w => wpc'[x] = wpc[x]
        /\ wpc'[w] = IF gfile[w] = None THEN "left" ELSE "add"
        /\ wpc[w] = "get" /\ wack' = wack /\ parsed' = parsed
    BY <1>5 DEF GetReturn, TypeOK
  <2>3. wack[w] = None BY <2>2 DEF HandInv
  <2> QED BY <1>5, <1>a, <2>1, <2>2, <2>3 DEF GetReturn, HandInv, mail
<1>6. ASSUME NEW w \in Workers, Add(w) PROVE HandInv'
  <2>1. wack[w] = None BY <1>6 DEF Add, HandInv
  <2>2. /\ \A x \in Workers : x # w => wpc'[x] = wpc[x]
        /\ wpc'[w] \in {"parse", "reply"} /\ wpc[w] = "add"
        /\ UNCHANGED <<wuid, wack, parsed, bpc, rkey, fpc, fobj>>
    BY <1>6 DEF Add, TypeOK
  <2> QED BY <1>a, <2>1, <2>2 DEF HandInv, mail
<1>7. ASSUME NEW w \in Workers, Reply(w) \/ Parse(w) PROVE HandInv'
  <2>1. wuid[w] \in UID /\ Accepted(mail(wuid[w])) BY <1>7 DEF Reply, Parse, HandInv
  <2>2. \A u \in Readings(wuid[w]) : u # None => mail(u) = mail(wuid[w])
    BY DEF Readings, mail
  <2>3. /\ \A x \in Workers : x # w => wpc'[x] = wpc[x] /\ wack'[x] = wack[x]
        /\ wack'[w] = wack[w] \/ wack'[w] \in Readings(wuid[w])
        /\ wpc'[w] \in {"parse", "ack"} /\ parsed \subseteq parsed'
        /\ wpc'[w] = "ack" => mail(wuid[w]) \in parsed'
        /\ UNCHANGED <<wuid, bpc, rkey, fpc, fobj>>
    BY <1>7 DEF Reply, Parse, TypeOK
  <2> QED BY <1>a, <2>1, <2>2, <2>3 DEF HandInv, mail
<1>8. ASSUME NEW w \in Workers, ACK(w) \/ Die(w) PROVE HandInv'
  <2>1. /\ \A x \in Workers : x # w => /\ wpc'[x] = wpc[x] /\ wack'[x] = wack[x]
                                       /\ wuid'[x] = wuid[x]
        /\ wpc'[w] = "idle" /\ wack'[w] = None
        /\ UNCHANGED <<parsed, bpc, rkey, fpc, fobj>>
    BY <1>8 DEF ACK, Die, TypeOK
  <2> QED BY <1>a, <2>1 DEF HandInv, mail
<1>9. ASSUME NEW u \in cur, RePush(u) PROVE HandInv'
  BY <1>b, <1>9 DEF RePush, HandInv, TypeOK, mail
<1>10. ASSUME NEW u \in todo, Drain(u) PROVE HandInv'
  BY <1>b, <1>10 DEF Drain, HandInv, TypeOK, mail
<1>11. CASE RePushSend \/ RePushDelete \/ RePushStop \/ DrainStart \/ DrainSend \/ DrainReturn
  BY <1>b, <1>11 DEF RePushSend, RePushDelete, RePushStop, DrainStart, DrainSend,
     DrainReturn, HandInv, mail
<1>12. CASE ForwardRecv
  BY <1>b, <1>12, TailType DEF ForwardRecv, HandInv, TypeOK, mail
<1>13. CASE ForwardStamp \/ ForwardStore \/ ForwardFail \/ ForwardReturn
  BY <1>b, <1>13 DEF ForwardStamp, ForwardStore, ForwardFail, ForwardReturn, HandInv, mail
<1>14. CASE StopParser \/ StopCollector \/ Close
  BY <1>c, <1>14 DEF StopParser, StopCollector, Close
<1>15. CASE Restart \/ Crash
  BY <1>15 DEF Restart, Crash, Boot, Empty, HandInv
<1>16. CASE UNCHANGED vars BY <1>c, <1>16 DEF vars
<1> QED
  BY <1>1, <1>2, <1>3, <1>4, <1>5, <1>6, <1>7, <1>8, <1>9, <1>10, <1>11, <1>12, <1>13,
     <1>14, <1>15, <1>16 DEF Next

(* Nobody gives up, and the stop does not begin, unless something happened. *)
LEMMA TroubleStep == TypeOK /\ LockInv /\ TroubleInv /\ [Next]_vars => TroubleInv'
<1> SUFFICES ASSUME TypeOK, LockInv, TroubleInv, [Next]_vars PROVE TroubleInv'
  OBVIOUS
<1> USE DEF storeVars, condVars, workerVars, baseVars, fwdVars
<1>0. ASSUME UNCHANGED <<phase, gone, wpc, gpc, gfile>>, faults \subseteq faults'
      PROVE  TroubleInv'
  BY <1>0 DEF TroubleInv
<1>a. \A w \in Workers : Stopped(w) => faults # {}
  BY DEF Stopped, TroubleInv
<1>1. CASE \E m \in Mails : IntakeStore(m) \/ IntakeFail(m)
  BY <1>0, <1>1 DEF IntakeStore, IntakeFail, Fault
<1>2. CASE Watch
  <2>1. \A w \in Workers : gpc'[w] = "done" => gpc[w] = "done"
    BY <1>2 DEF Watch, Signal, TypeOK
  <2> QED BY <1>2, <2>1 DEF Watch, TroubleInv
<1>3. ASSUME NEW w \in Workers, Get(w) \/ Checked(w) PROVE TroubleInv'
  BY <1>3 DEF Get, Checked, TroubleInv, TypeOK
<1>4. ASSUME NEW w \in Workers, Look(w) PROVE TroubleInv'
  <2>1. /\ \A x \in Workers : gpc'[x] = "done" => gpc[x] = "done" /\ gfile'[x] = gfile[x]
        /\ UNCHANGED <<phase, gone, wpc, faults>>
    BY <1>4 DEF Look, TypeOK
  <2> QED BY <2>1 DEF TroubleInv
<1>5. ASSUME NEW w \in Workers, Transfer(w) PROVE TroubleInv'
  BY <1>5, <1>a DEF Transfer, TroubleInv
<1>6. ASSUME NEW w \in Workers, Remove(w) PROVE TroubleInv'
  <2>0. gfile[w] # None
    BY <1>6, MailsAssumption DEF Remove, LockInv, TypeOK, UID
  <2>1. \A x \in Workers : gpc'[x] = "done" => x = w \/ gpc[x] = "done"
    BY <1>6 DEF Remove, Ended, TypeOK
  <2> QED BY <1>6, <2>0, <2>1 DEF Remove, TroubleInv
<1>7. ASSUME NEW w \in Workers, GetReturn(w) \/ GetCanceled(w) \/ NextRequest(w)
      PROVE  TroubleInv'
  <2>1. /\ \A x \in Workers : x # w => /\ gpc'[x] = gpc[x] /\ gfile'[x] = gfile[x]
                                       /\ wpc'[x] = wpc[x]
        /\ wpc'[w] = "left" => faults # {}
        /\ gpc'[w] = "none" \/ UNCHANGED <<gpc, gfile>>
        /\ gone' \subseteq gone /\ UNCHANGED <<phase, faults>>
    BY <1>7, <1>a DEF GetReturn, GetCanceled, NextRequest, TroubleInv, TypeOK
  <2> QED BY <2>1 DEF TroubleInv
<1>8. ASSUME NEW w \in Workers,
             Add(w) \/ Reply(w) \/ Parse(w) \/ ACK(w) \/ Leave(w) \/ Die(w)
      PROVE  TroubleInv'
  BY <1>8 DEF Add, Reply, Parse, ACK, Leave, Die, Fault, TroubleInv, TypeOK
<1>9. CASE (\E u \in cur : RePush(u)) \/ (\E u \in todo : Drain(u))
  BY <1>0, <1>9 DEF RePush, Drain
<1>10. CASE RePushSend \/ RePushDelete \/ RePushStop \/ DrainStart \/ DrainSend \/ DrainReturn
  BY <1>0, <1>10 DEF RePushSend, RePushDelete, RePushStop, DrainStart, DrainSend, DrainReturn
<1>11. CASE ForwardRecv \/ ForwardStamp \/ ForwardStore \/ ForwardFail \/ ForwardReturn
  BY <1>0, <1>11
     DEF ForwardRecv, ForwardStamp, ForwardStore, ForwardFail, ForwardReturn, Fault
<1>12. CASE StopParser \/ StopCollector \/ Close
  BY <1>12 DEF StopParser, StopCollector, Close, Fault, TroubleInv
<1>13. CASE Restart \/ Crash
  BY <1>13 DEF Restart, Crash, Boot, Empty, Fault, TroubleInv
<1>14. CASE UNCHANGED vars BY <1>0, <1>14 DEF vars
<1> QED
  BY <1>1, <1>2, <1>3, <1>4, <1>5, <1>6, <1>7, <1>8, <1>9, <1>10, <1>11, <1>12, <1>13,
     <1>14 DEF Next
-----------------------------------------------------------------------------
(* The kinds of places of Places, apart.                                    *)
AtDisk(m) == {<<"disk", u>> : u \in {v \in disk : mail(v) = m}}
AtGet(m) == {<<"get", w>> : w \in {x \in Workers : gpc[x] = "done" /\ gfile[x] # None
                                                    /\ mail(gfile[x]) = m}}
AtAdd(m) == {<<"add", w>> : w \in {x \in Workers : wpc[x] = "add" /\ mail(wuid[x]) = m}}
AtCur(m) == {<<"cur", u>> : u \in {v \in cur : mail(v) = m /\ ~Reclaimed(v)}}
AtBase(m) == {<<"base", i>> : i \in {j \in DOMAIN baseCh : mail(baseCh[j]) = m}}
AtHand(m) == IF bpc \in {"send", "drainSend"} /\ mail(rkey) = m
               THEN {<<"cur", rkey>>} ELSE {}
AtForward(m) == IF fpc \in {"stamp", "store"} /\ mail(fobj) = m
                  THEN {<<"forward", fobj>>} ELSE {}

(* They are all the places. *)
LEMMA Kinds ==
  ASSUME NEW m
  PROVE  Places(m) = AtDisk(m) \cup AtGet(m) \cup AtAdd(m) \cup AtCur(m) \cup AtBase(m)
                     \cup AtHand(m) \cup AtForward(m)
BY DEF Places, AtDisk, AtGet, AtAdd, AtCur, AtBase, AtHand, AtForward

(* The same, after a step. *)
LEMMA KindsNext ==
  ASSUME NEW m
  PROVE  Places(m)' = AtDisk(m)' \cup AtGet(m)' \cup AtAdd(m)' \cup AtCur(m)'
                      \cup AtBase(m)' \cup AtHand(m)' \cup AtForward(m)'
BY DEF Places, AtDisk, AtGet, AtAdd, AtCur, AtBase, AtHand, AtForward

(* Each place names its kind. *)
LEMMA Tags ==
  ASSUME NEW m
  PROVE  /\ \A p \in AtDisk(m) : p[1] = "disk"
         /\ \A p \in AtGet(m) : p[1] = "get"
         /\ \A p \in AtAdd(m) : p[1] = "add"
         /\ \A p \in AtCur(m) \cup AtHand(m) : p[1] = "cur"
         /\ \A p \in AtBase(m) : p[1] = "base"
         /\ \A p \in AtForward(m) : p[1] = "forward"
BY DEF AtDisk, AtGet, AtAdd, AtCur, AtBase, AtHand, AtForward

(* A mail in a place of one kind is in none of another. *)
LEMMA Apart ==
  ASSUME OneEach, NEW m \in Mails
  PROVE  /\ AtForward(m) # {} =>
              AtDisk(m) \cup AtGet(m) \cup AtAdd(m) \cup AtCur(m) \cup AtHand(m) \cup AtBase(m) = {}
         /\ AtBase(m) # {} =>
              AtDisk(m) \cup AtGet(m) \cup AtAdd(m) \cup AtCur(m) \cup AtHand(m) \cup AtForward(m) = {}
         /\ AtCur(m) \cup AtHand(m) # {} =>
              AtDisk(m) \cup AtGet(m) \cup AtAdd(m) \cup AtBase(m) \cup AtForward(m) = {}
         /\ AtAdd(m) # {} =>
              AtDisk(m) \cup AtGet(m) \cup AtCur(m) \cup AtHand(m) \cup AtBase(m) \cup AtForward(m) = {}
         /\ AtGet(m) # {} =>
              AtDisk(m) \cup AtAdd(m) \cup AtCur(m) \cup AtHand(m) \cup AtBase(m) \cup AtForward(m) = {}
         /\ AtDisk(m) # {} =>
              AtGet(m) \cup AtAdd(m) \cup AtCur(m) \cup AtHand(m) \cup AtBase(m) \cup AtForward(m) = {}
<1>1. \A p, q \in Places(m) : p[1] = q[1]
  BY DEF OneEach
<1> QED BY <1>1, Kinds, Tags

(* What is in memory or on disk, in terms of places. *)
LEMMA WhereIs ==
  ASSUME NEW m \in Mails
  PROVE  /\ OnDisk(m) <=> AtDisk(m) # {}
         /\ InMemory(m) <=> AtGet(m) \cup AtAdd(m) \cup AtCur(m) \cup AtBase(m) \cup AtHand(m)
                            \cup AtForward(m) # {}
<1>1. OnDisk(m) <=> AtDisk(m) # {}
  BY DEF OnDisk, AtDisk
<1>2. InMemory(m) <=> AtGet(m) \cup AtAdd(m) \cup AtCur(m) \cup AtBase(m) \cup AtHand(m)
                      \cup AtForward(m) # {}
  BY Kinds, Tags DEF InMemory
<1> QED BY <1>1, <1>2

(* A mail that leaves one place for another is in one place. *)
LEMMA Moved ==
  ASSUME OneEach, NEW m \in Mails, NEW p \in Places(m), NEW q,
         Places(m)' \subseteq (Places(m) \ {p}) \cup {q}
  PROVE  \A x, y \in Places(m)' : x = y
BY DEF OneEach

(* No place of a kind: no mail there. *)
LEMMA Nothing ==
  ASSUME NEW m
  PROVE  /\ AtDisk(m) = {} => \A u \in disk : mail(u) # m
         /\ AtGet(m) = {} =>
              \A w \in Workers : gpc[w] = "done" /\ gfile[w] # None => mail(gfile[w]) # m
         /\ AtAdd(m) = {} => \A w \in Workers : wpc[w] = "add" => mail(wuid[w]) # m
         /\ AtCur(m) = {} => \A u \in cur : ~Reclaimed(u) => mail(u) # m
         /\ AtBase(m) = {} => \A i \in DOMAIN baseCh : mail(baseCh[i]) # m
         /\ AtHand(m) = {} => ~(bpc \in {"send", "drainSend"} /\ mail(rkey) = m)
         /\ AtForward(m) = {} => ~(fpc \in {"stamp", "store"} /\ mail(fobj) = m)
<1>1. AtDisk(m) = {} => \A u \in disk : mail(u) # m
  <2> SUFFICES ASSUME NEW u \in disk, mail(u) = m PROVE <<"disk", u>> \in AtDisk(m)
    OBVIOUS
  <2> QED BY DEF AtDisk
<1>2. AtGet(m) = {} =>
        \A w \in Workers : gpc[w] = "done" /\ gfile[w] # None => mail(gfile[w]) # m
  <2> SUFFICES ASSUME NEW w \in Workers, gpc[w] = "done", gfile[w] # None, mail(gfile[w]) = m
               PROVE  <<"get", w>> \in AtGet(m)
    OBVIOUS
  <2> QED BY DEF AtGet
<1>3. AtAdd(m) = {} => \A w \in Workers : wpc[w] = "add" => mail(wuid[w]) # m
  <2> SUFFICES ASSUME NEW w \in Workers, wpc[w] = "add", mail(wuid[w]) = m
               PROVE  <<"add", w>> \in AtAdd(m)
    OBVIOUS
  <2> QED BY DEF AtAdd
<1>4. AtCur(m) = {} => \A u \in cur : ~Reclaimed(u) => mail(u) # m
  <2> SUFFICES ASSUME NEW u \in cur, ~Reclaimed(u), mail(u) = m
               PROVE  <<"cur", u>> \in AtCur(m)
    OBVIOUS
  <2> QED BY DEF AtCur
<1>5. AtBase(m) = {} => \A i \in DOMAIN baseCh : mail(baseCh[i]) # m
  <2> SUFFICES ASSUME NEW i \in DOMAIN baseCh, mail(baseCh[i]) = m
               PROVE  <<"base", i>> \in AtBase(m)
    OBVIOUS
  <2> QED BY DEF AtBase
<1>6. /\ AtHand(m) = {} => ~(bpc \in {"send", "drainSend"} /\ mail(rkey) = m)
      /\ AtForward(m) = {} => ~(fpc \in {"stamp", "store"} /\ mail(fobj) = m)
  BY DEF AtHand, AtForward
<1> QED BY <1>1, <1>2, <1>3, <1>4, <1>5, <1>6

(* No step but those that move mails changes the places. *)
LEMMA SamePlaces ==
  ASSUME UNCHANGED <<disk, gpc, gfile, wpc, wuid, cur, baseCh, bpc, rkey, fpc, fobj>>
  PROVE  /\ \A m \in Mails : Places(m)' = Places(m)
         /\ OneEach => OneEach'
BY DEF Places, Reclaimed, OneEach, mail
-----------------------------------------------------------------------------
(* The next steps say what each step that moves mails does to the places.   *)

(* The file that is removed is in the hands of the goroutine. *)
LEMMA RemoveMoves ==
  ASSUME IInv, NEW w \in Workers, Remove(w)
  PROVE  /\ gfile[w] \in disk /\ gfile[w] \in UID /\ mail(gfile[w]) \in Mails
         /\ gpc' = [gpc EXCEPT ![w] = "done"]
         /\ \A m \in Mails :
              /\ AtDisk(m)' = AtDisk(m) \ {<<"disk", gfile[w]>>}
              /\ AtGet(m)' = AtGet(m) \cup (IF m = mail(gfile[w]) THEN {<<"get", w>>} ELSE {})
              /\ UNCHANGED <<AtAdd(m), AtCur(m), AtBase(m), AtHand(m), AtForward(m)>>
<1> USE DEF storeVars, condVars, workerVars, baseVars, fwdVars
<1>1. /\ gfile[w] \in disk /\ gfile[w] \in UID /\ gfile[w] # None
      /\ mail(gfile[w]) \in Mails
  BY MailsAssumption DEF Remove, IInv, LockInv, TypeOK, UID, mail
<1>2. /\ \A x \in Workers : gpc'[x] = IF x = w THEN "done" ELSE gpc[x]
      /\ gpc' = [gpc EXCEPT ![w] = "done"] /\ gpc[w] = "remove"
      /\ disk' = disk \ {gfile[w]}
      /\ UNCHANGED <<gfile, wpc, wuid, cur, baseCh, bpc, rkey, fpc, fobj>>
  BY DEF Remove, Ended, IInv, TypeOK
<1>3. ASSUME NEW m \in Mails
      PROVE  /\ AtDisk(m)' = AtDisk(m) \ {<<"disk", gfile[w]>>}
             /\ AtGet(m)' = AtGet(m) \cup (IF m = mail(gfile[w]) THEN {<<"get", w>>} ELSE {})
             /\ UNCHANGED <<AtAdd(m), AtCur(m), AtBase(m), AtHand(m), AtForward(m)>>
  <2>1. AtDisk(m)' = AtDisk(m) \ {<<"disk", gfile[w]>>}
    BY <1>2 DEF AtDisk, mail
  <2>2. AtGet(m)' = AtGet(m) \cup (IF m = mail(gfile[w]) THEN {<<"get", w>>} ELSE {})
    BY <1>1, <1>2 DEF AtGet, mail
  <2>3. UNCHANGED <<AtAdd(m), AtCur(m), AtBase(m), AtHand(m), AtForward(m)>>
    BY <1>2 DEF AtAdd, AtCur, AtBase, AtHand, AtForward, Reclaimed, mail
  <2> QED BY <2>1, <2>2, <2>3
<1> QED BY <1>1, <1>2, <1>3

(* What the goroutine of Get has taken is given to its caller. *)
LEMMA GetReturnMoves ==
  ASSUME IInv, NEW w \in Workers, GetReturn(w), NEW m \in Mails
  PROVE  /\ AtGet(m)' = AtGet(m) \ {<<"get", w>>}
         /\ AtAdd(m)' = AtAdd(m) \cup (IF <<"get", w>> \in AtGet(m) THEN {<<"add", w>>} ELSE {})
         /\ UNCHANGED <<AtDisk(m), AtCur(m), AtBase(m), AtHand(m), AtForward(m)>>
<1> USE DEF storeVars, condVars, workerVars, baseVars, fwdVars
<1>1. /\ \A x \in Workers :
           /\ gpc'[x] = IF x = w THEN "none" ELSE gpc[x]
           /\ gfile'[x] = IF x = w THEN None ELSE gfile[x]
           /\ wuid'[x] = IF x = w THEN gfile[w] ELSE wuid[x]
           /\ wpc'[x] = IF x = w THEN IF gfile[w] = None THEN "left" ELSE "add" ELSE wpc[x]
      /\ wpc[w] = "get" /\ gpc[w] = "done"
      /\ UNCHANGED <<disk, cur, baseCh, bpc, rkey, fpc, fobj>>
  BY DEF GetReturn, IInv, TypeOK
<1>2. AtGet(m)' = AtGet(m) \ {<<"get", w>>}
  BY <1>1 DEF AtGet, mail
<1>3. <<"get", w>> \in AtGet(m) <=> gfile[w] # None /\ mail(gfile[w]) = m
  BY <1>1 DEF AtGet
<1>4. AtAdd(m)' = AtAdd(m) \cup (IF <<"get", w>> \in AtGet(m) THEN {<<"add", w>>} ELSE {})
  BY <1>1, <1>3 DEF AtAdd, mail
<1>5. UNCHANGED <<AtDisk(m), AtCur(m), AtBase(m), AtHand(m), AtForward(m)>>
  BY <1>1 DEF AtDisk, AtCur, AtBase, AtHand, AtForward, Reclaimed, mail
<1> QED BY <1>2, <1>4, <1>5

(* A mail pulled is filed in Cur, under another UID than the entry that is
   about to be deleted. *)
LEMMA AddMoves ==
  ASSUME IInv, NEW w \in Workers, Add(w)
  PROVE  /\ wuid[w] \in UID /\ mail(wuid[w]) \in Mails /\ ~Reclaimed(wuid[w])
         /\ \A m \in Mails :
              /\ AtAdd(m)' = AtAdd(m) \ {<<"add", w>>}
              /\ AtCur(m)' = AtCur(m) \cup (IF m = mail(wuid[w]) THEN {<<"cur", wuid[w]>>} ELSE {})
              /\ UNCHANGED <<AtDisk(m), AtGet(m), AtBase(m), AtHand(m), AtForward(m)>>
<1> USE DEF storeVars, condVars, workerVars, baseVars, fwdVars
<1>1. /\ wuid[w] \in UID /\ mail(wuid[w]) \in Mails /\ wpc[w] = "add"
      /\ wuid[w][2] = turn[mail(wuid[w])]
  BY DEF Add, IInv, HandInv, InHands, TurnInv, Last, UID, mail
<1>2. /\ \A x \in Workers : /\ x # w => wpc'[x] = wpc[x]
                            /\ wpc'[w] # "add"
      /\ cur' = cur \cup {wuid[w]}
      /\ UNCHANGED <<disk, gpc, gfile, wuid, baseCh, bpc, rkey, fpc, fobj>>
  BY DEF Add, IInv, TypeOK
<1>3. ~Reclaimed(wuid[w])
  <2> SUFFICES ASSUME bpc = "delete", rkey = wuid[w] PROVE FALSE
    BY DEF Reclaimed
  <2>1. <<"add", w>> \in AtAdd(mail(wuid[w])) BY <1>1 DEF AtAdd
  <2>2. ~(rkey[2] < turn[mail(rkey)])
    BY <1>1 DEF IInv, TypeOK
  <2>3. AtBase(mail(rkey)) # {} \/ AtForward(mail(rkey)) # {}
    BY <2>2 DEF IInv, ReclaimInv, AtBase, AtForward
  <2> QED BY <1>1, <2>1, <2>3, Apart DEF IInv
<1>4. ASSUME NEW m \in Mails
      PROVE  /\ AtAdd(m)' = AtAdd(m) \ {<<"add", w>>}
             /\ AtCur(m)' = AtCur(m) \cup (IF m = mail(wuid[w]) THEN {<<"cur", wuid[w]>>} ELSE {})
             /\ UNCHANGED <<AtDisk(m), AtGet(m), AtBase(m), AtHand(m), AtForward(m)>>
  <2>1. AtAdd(m)' = AtAdd(m) \ {<<"add", w>>}
    BY <1>2 DEF AtAdd, mail
  <2>2. \A u : Reclaimed(u)' = Reclaimed(u)
    BY <1>2 DEF Reclaimed
  <2>3. AtCur(m)' = AtCur(m) \cup (IF m = mail(wuid[w]) THEN {<<"cur", wuid[w]>>} ELSE {})
    BY <1>2, <1>3, <2>2 DEF AtCur, mail
  <2>4. UNCHANGED <<AtDisk(m), AtGet(m), AtBase(m), AtHand(m), AtForward(m)>>
    BY <1>2 DEF AtDisk, AtGet, AtBase, AtHand, AtForward, mail
  <2> QED BY <2>1, <2>3, <2>4
<1> QED BY <1>1, <1>3, <1>4

(* The entry that RePush or the stop has chosen goes to Base.Ch. *)
LEMMA SendMoves ==
  ASSUME IInv, RePushSend \/ DrainSend
  PROVE  /\ rkey \in UID /\ mail(rkey) \in Mails /\ bpc \in {"send", "drainSend"}
         /\ \A m \in Mails :
              /\ AtHand(m)' = {}
              /\ AtCur(m)' \subseteq AtCur(m)
              /\ m = mail(rkey) => <<"cur", rkey>> \in AtHand(m) /\ <<"cur", rkey>> \notin AtCur(m)'
              /\ m # mail(rkey) => AtHand(m) = {} /\ AtCur(m)' = AtCur(m)
              /\ AtBase(m)' = AtBase(m) \cup
                   (IF m = mail(rkey) THEN {<<"base", Len(baseCh) + 1>>} ELSE {})
              /\ UNCHANGED <<AtDisk(m), AtGet(m), AtAdd(m), AtForward(m)>>
<1> USE DEF storeVars, condVars, workerVars, baseVars, fwdVars
<1>1. /\ rkey \in UID /\ mail(rkey) \in Mails /\ bpc \in {"send", "drainSend"}
  BY DEF RePushSend, DrainSend, IInv, HandInv, UID, mail
<1>2. /\ baseCh' = Append(baseCh, rkey) /\ baseCh \in Seq(UID) /\ cur' = cur
      /\ (bpc' = "delete" /\ rkey' = rkey /\ bpc = "send") \/ (bpc' = "drain" /\ bpc = "drainSend")
      /\ UNCHANGED <<disk, gpc, gfile, wpc, wuid, fpc, fobj>>
  BY DEF RePushSend, DrainSend, IInv, TypeOK
<1>3. ASSUME NEW m \in Mails
      PROVE  /\ AtHand(m)' = {}
             /\ AtCur(m)' \subseteq AtCur(m)
             /\ m = mail(rkey) => <<"cur", rkey>> \in AtHand(m) /\ <<"cur", rkey>> \notin AtCur(m)'
             /\ m # mail(rkey) => AtHand(m) = {} /\ AtCur(m)' = AtCur(m)
  BY <1>1, <1>2 DEF AtHand, AtCur, Reclaimed, mail, IInv, ReclaimInv
<1>5. ASSUME NEW m \in Mails
      PROVE  AtBase(m)' = AtBase(m) \cup
                   (IF m = mail(rkey) THEN {<<"base", Len(baseCh) + 1>>} ELSE {})
  BY <1>1, <1>2, AppendElements DEF AtBase, mail
<1>6. ASSUME NEW m \in Mails
      PROVE  UNCHANGED <<AtDisk(m), AtGet(m), AtAdd(m), AtForward(m)>>
  BY <1>2 DEF AtDisk, AtGet, AtAdd, AtForward, mail
<1> QED BY <1>1, <1>3, <1>5, <1>6

(* The goroutine of Start receives from Base.Ch. *)
LEMMA RecvMoves ==
  ASSUME IInv, ForwardRecv
  PROVE  /\ baseCh \in Seq(UID) /\ Head(baseCh) \in UID /\ mail(Head(baseCh)) \in Mails
         /\ \A m \in Mails :
              /\ AtForward(m) = {}
              /\ AtForward(m)' = IF m = mail(Head(baseCh)) THEN {<<"forward", Head(baseCh)>>} ELSE {}
              /\ m = mail(Head(baseCh)) => <<"base", 1>> \in AtBase(m)
              /\ \A p \in AtBase(m)' :
                   \E i \in Nat : p = <<"base", i>> /\ <<"base", i + 1>> \in AtBase(m) /\ i + 1 # 1
              /\ \A p \in AtBase(m) : p = <<"base", 1>> \/ AtBase(m)' # {}
              /\ AtBase(m) # {} => AtBase(m)' \cup AtForward(m)' # {}
              /\ UNCHANGED <<AtDisk(m), AtGet(m), AtAdd(m), AtCur(m), AtHand(m)>>
<1> USE DEF storeVars, condVars, workerVars, baseVars, fwdVars
<1>1. /\ baseCh \in Seq(UID) /\ baseCh # <<>> /\ fpc = "recv" /\ fpc' = "stamp"
      /\ fobj' = Head(baseCh) /\ baseCh' = Tail(baseCh)
      /\ UNCHANGED <<disk, gpc, gfile, wpc, wuid, cur, bpc, rkey>>
  BY DEF ForwardRecv, IInv, TypeOK
<1>2. Head(baseCh) \in UID /\ mail(Head(baseCh)) \in Mails /\ baseCh[1] = Head(baseCh)
  BY <1>1, TailElements, TailType DEF UID, mail
<1>3. ASSUME NEW m \in Mails
      PROVE  /\ AtForward(m) = {}
             /\ AtForward(m)' = IF m = mail(Head(baseCh)) THEN {<<"forward", Head(baseCh)>>} ELSE {}
             /\ UNCHANGED <<AtDisk(m), AtGet(m), AtAdd(m), AtCur(m), AtHand(m)>>
  BY <1>1 DEF AtForward, AtDisk, AtGet, AtAdd, AtCur, AtHand, Reclaimed, mail
<1>4. ASSUME NEW m \in Mails, m = mail(Head(baseCh)) PROVE <<"base", 1>> \in AtBase(m)
  BY <1>1, <1>2, <1>4, TailElements DEF AtBase
<1>5. ASSUME NEW m \in Mails, NEW p \in AtBase(m)'
      PROVE  \E i \in Nat : p = <<"base", i>> /\ <<"base", i + 1>> \in AtBase(m) /\ i + 1 # 1
  <2>1. PICK i \in DOMAIN baseCh' : p = <<"base", i>> /\ mail(baseCh'[i]) = m
    BY <1>5 DEF AtBase, mail
  <2>2. i \in Nat /\ i + 1 \in DOMAIN baseCh /\ i + 1 # 1 /\ baseCh'[i] = baseCh[i + 1]
    BY <1>1, <2>1, TailElements
  <2> QED BY <2>1, <2>2 DEF AtBase
<1>6. ASSUME NEW m \in Mails, NEW p \in AtBase(m), p # <<"base", 1>> PROVE AtBase(m)' # {}
  <2>1. PICK i \in DOMAIN baseCh : p = <<"base", i>> /\ mail(baseCh[i]) = m
    BY <1>6 DEF AtBase
  <2>2. i - 1 \in DOMAIN baseCh' /\ baseCh'[i - 1] = baseCh[i]
    BY <1>1, <1>6, <2>1, TailElements
  <2>3. <<"base", i - 1>> \in AtBase(m)'
    BY <2>1, <2>2 DEF AtBase, mail
  <2> QED BY <2>3
<1>7. ASSUME NEW m \in Mails, <<"base", 1>> \in AtBase(m) PROVE m = mail(Head(baseCh))
  BY <1>2, <1>7 DEF AtBase
<1>8. ASSUME NEW m \in Mails, AtBase(m) # {} PROVE AtBase(m)' \cup AtForward(m)' # {}
  BY <1>3, <1>6, <1>7, <1>8
<1> QED BY <1>1, <1>2, <1>3, <1>4, <1>5, <1>6, <1>8
(* A mail that Push has not accepted is nowhere. *)
LEMMA Nowhere ==
  ASSUME IInv, NEW m \in Mails, ~Accepted(m)
  PROVE  Places(m) = {}
BY DEF Places, IInv, TurnInv, Last, TypeOK

(* A goroutine that changes hands without a file moves no mail. *)
LEMMA NoFileMoved ==
  ASSUME UNCHANGED <<disk, wpc, wuid, cur, baseCh, bpc, rkey, fpc, fobj>>,
         \A w \in Workers :
           /\ gpc[w] = "done" /\ gfile[w] # None => gpc'[w] = "done" /\ gfile'[w] = gfile[w]
           /\ gpc'[w] = "done" /\ gfile'[w] # None => gpc[w] = "done" /\ gfile'[w] = gfile[w]
  PROVE  \A m \in Mails : Places(m)' = Places(m)
<1> SUFFICES ASSUME NEW m \in Mails PROVE Places(m)' = Places(m)
  OBVIOUS
<1>1. AtGet(m)' = AtGet(m)
  BY DEF AtGet, mail
<1>2. UNCHANGED <<AtDisk(m), AtAdd(m), AtCur(m), AtBase(m), AtHand(m), AtForward(m)>>
  BY DEF AtDisk, AtAdd, AtCur, AtBase, AtHand, AtForward, Reclaimed, mail
<1> QED BY <1>1, <1>2, Kinds, KindsNext

(* The steps of a worker or of a get goroutine that move no mail. *)
LEMMA WorkerSame ==
  ASSUME IInv, NEW w \in Workers,
         \/ Get(w) \/ Look(w) \/ Transfer(w) \/ Checked(w) \/ GetCanceled(w)
         \/ Reply(w) \/ Parse(w) \/ Leave(w) \/ Die(w)
  PROVE  \A m \in Mails : Places(m)' = Places(m)
<1> USE DEF storeVars, condVars, workerVars, baseVars, fwdVars
<1>1. CASE Get(w) \/ GetCanceled(w) \/ Reply(w) \/ Parse(w) \/ Leave(w) \/ Die(w)
  <2>1. \A m \in Mails : AtAdd(m)' = AtAdd(m)
    BY <1>1 DEF Get, GetCanceled, Reply, Parse, Leave, Die, AtAdd, mail, IInv, TypeOK
  <2>2. \A m \in Mails : AtGet(m)' = AtGet(m)
    BY <1>1 DEF Get, GetCanceled, Reply, Parse, Leave, Die, AtGet, mail, IInv, TypeOK
  <2>3. \A m \in Mails :
          UNCHANGED <<AtDisk(m), AtCur(m), AtBase(m), AtHand(m), AtForward(m)>>
    BY <1>1 DEF Get, GetCanceled, Reply, Parse, Leave, Die, AtDisk, AtCur, AtBase, AtHand,
       AtForward, Reclaimed, mail
  <2> QED BY <2>1, <2>2, <2>3, Kinds, KindsNext
<1>2. CASE Look(w)
  <2>1. /\ gpc[w] = "lock" /\ gpc'[w] # "done"
        /\ \A x \in Workers : x # w => gpc'[x] = gpc[x] /\ gfile'[x] = gfile[x]
    BY <1>2 DEF Look, IInv, TypeOK
  <2>2. UNCHANGED <<disk, wpc, wuid, cur, baseCh, bpc, rkey, fpc, fobj>>
    BY <1>2 DEF Look
  <2> QED BY <2>1, <2>2, NoFileMoved
<1>3. CASE Checked(w)
  BY <1>3, NoFileMoved DEF Checked, IInv, TypeOK
<1>4. CASE Transfer(w)
  <2>1. /\ Ended(w) \in [Workers -> {"none", "lock", "wait", "check", "remove", "done"}]
        /\ \A x \in Workers : Ended(w)[x] = IF x = w THEN "done" ELSE gpc[x]
        /\ \A i \in DOMAIN waiters : waiters[i] \in Workers /\ waiters[i] # w
        /\ \A i \in DOMAIN waiters : gpc[waiters[i]] = "wait"
    BY <1>4 DEF Ended, Transfer, IInv, LockInv, TypeOK
  <2>2. \A x \in Workers :
          gpc'[x] = Ended(w)[x] \/ (gpc'[x] = "lock" /\ Ended(w)[x] = "wait")
    <3>1. \A i \in DOMAIN waiters : Ended(w)[waiters[i]] = "wait"
      BY <2>1
    <3>2. /\ Signal(Ended(w)) /\ waiters \in Seq(Workers)
          /\ \A i, j \in DOMAIN waiters : waiters[i] = waiters[j] => i = j
      BY <1>4 DEF Transfer, IInv, LockInv, TypeOK
    <3> QED BY <2>1, <3>1, <3>2, SignalWakes
  <2>3. /\ gpc[w] = "check" /\ gfile'[w] = None
        /\ \A x \in Workers : x # w => gfile'[x] = gfile[x]
        /\ UNCHANGED <<disk, wpc, wuid, cur, baseCh, bpc, rkey, fpc, fobj>>
    BY <1>4 DEF Transfer, IInv, TypeOK
  <2> QED BY <2>1, <2>2, <2>3, NoFileMoved
<1> QED BY <1>1, <1>2, <1>3, <1>4

(* Nor does the watcher. *)
LEMMA WatchSame ==
  ASSUME IInv, Watch
  PROVE  \A m \in Mails : Places(m)' = Places(m)
<1> USE DEF storeVars, condVars, workerVars, baseVars, fwdVars
<1>1. \A x \in Workers : gpc'[x] = gpc[x] \/ (gpc'[x] = "lock" /\ gpc[x] = "wait")
  BY SignalWakes DEF Watch, IInv, LockInv, TypeOK
<1> QED BY <1>1, NoFileMoved DEF Watch

(* A request that takes the place of another drops what that one's get
   goroutine has taken. *)
LEMMA NextRequestMoves ==
  ASSUME IInv, NEW w \in Workers, NextRequest(w), NEW m \in Mails
  PROVE  /\ AtGet(m)' = AtGet(m) \ {<<"get", w>>}
         /\ UNCHANGED <<AtDisk(m), AtAdd(m), AtCur(m), AtBase(m), AtHand(m), AtForward(m)>>
<1> USE DEF storeVars, condVars, workerVars, baseVars, fwdVars
<1>1. /\ \A x \in Workers : x # w => /\ gpc'[x] = gpc[x] /\ gfile'[x] = gfile[x]
                                     /\ wpc'[x] = wpc[x]
      /\ wpc[w] = "left" /\ wpc'[w] = "idle" /\ gpc'[w] = "none"
      /\ UNCHANGED <<disk, wuid, cur, baseCh, bpc, rkey, fpc, fobj>>
  BY DEF NextRequest, IInv, TypeOK
<1>2. AtGet(m)' = AtGet(m) \ {<<"get", w>>} BY <1>1 DEF AtGet, mail
<1>3. AtAdd(m)' = AtAdd(m) BY <1>1 DEF AtAdd, mail
<1>4. UNCHANGED <<AtDisk(m), AtCur(m), AtBase(m), AtHand(m), AtForward(m)>>
  BY <1>1 DEF AtDisk, AtCur, AtBase, AtHand, AtForward, Reclaimed, mail
<1> QED BY <1>2, <1>3, <1>4

(* ACK, RePush and the stop take entries out of Cur; what RePush and Drain
   have chosen stays in the hands of the base goroutine. *)
LEMMA CurMoves ==
  ASSUME IInv,
         \/ \E w \in Workers : ACK(w)
         \/ \E u \in cur : RePush(u)
         \/ \E u \in todo : Drain(u)
         \/ RePushDelete \/ RePushStop \/ DrainStart \/ DrainReturn,
         NEW m \in Mails
  PROVE  /\ AtCur(m)' \cup AtHand(m)' \subseteq AtCur(m) \cup AtHand(m)
         /\ UNCHANGED <<AtDisk(m), AtGet(m), AtAdd(m), AtBase(m), AtForward(m)>>
         /\ (~\E w \in Workers : ACK(w)) /\ ~RePushStop =>
              AtCur(m)' \cup AtHand(m)' = AtCur(m) \cup AtHand(m)
<1> USE DEF storeVars, condVars, workerVars, baseVars, fwdVars
<1>1. UNCHANGED <<disk, gpc, gfile, baseCh, fpc, fobj>>
  BY DEF ACK, RePush, Drain, RePushDelete, RePushStop, DrainStart, DrainReturn
<1>2. UNCHANGED <<AtDisk(m), AtGet(m), AtBase(m), AtForward(m)>>
  BY <1>1 DEF AtDisk, AtGet, AtBase, AtForward, mail
<1>3. AtAdd(m)' = AtAdd(m)
  BY DEF ACK, RePush, Drain, RePushDelete, RePushStop, DrainStart, DrainReturn, AtAdd, mail,
     IInv, TypeOK
<1> USE DEF AtCur, AtHand, Reclaimed, mail
<1>4. ASSUME NEW w \in Workers, ACK(w)
      PROVE  AtCur(m)' \cup AtHand(m)' \subseteq AtCur(m) \cup AtHand(m)
  BY <1>4 DEF ACK
<1>5. ASSUME NEW u \in cur, RePush(u)
      PROVE  AtCur(m)' \cup AtHand(m)' = AtCur(m) \cup AtHand(m)
  BY <1>5 DEF RePush
<1>6. ASSUME NEW u \in todo, Drain(u)
      PROVE  AtCur(m)' \cup AtHand(m)' = AtCur(m) \cup AtHand(m)
  <2>1. CASE u \in cur BY <1>6, <2>1 DEF Drain
  <2>2. CASE u \notin cur BY <1>6, <2>2 DEF Drain
  <2> QED BY <2>1, <2>2
<1>7. CASE RePushDelete \/ DrainStart \/ DrainReturn
  <2>1. AtCur(m)' \cup AtHand(m)' = AtCur(m) \cup AtHand(m)
    BY <1>7 DEF RePushDelete, DrainStart, DrainReturn
  <2> QED BY <1>2, <1>3, <2>1
<1>8. CASE RePushStop
  <2>1. AtCur(m)' \cup AtHand(m)' \subseteq AtCur(m) \cup AtHand(m)
    BY <1>8 DEF RePushStop
  <2> QED BY <1>2, <1>3, <1>8, <2>1
<1> QED BY <1>2, <1>3, <1>4, <1>5, <1>6, <1>7, <1>8

(* An acknowledgement takes out no other mail than the one that was parsed. *)
LEMMA AckMoves ==
  ASSUME IInv, NEW w \in Workers, ACK(w)
  PROVE  /\ mail(wuid[w]) \in Mails \cap parsed /\ Accepted(mail(wuid[w]))
         /\ \A m \in Mails : m # mail(wuid[w]) => Places(m)' = Places(m)
<1> USE DEF storeVars, condVars, workerVars, baseVars, fwdVars
<1>1. /\ mail(wuid[w]) \in Mails \cap parsed /\ Accepted(mail(wuid[w]))
      /\ wack[w] # None => mail(wack[w]) = mail(wuid[w])
  BY DEF ACK, IInv, HandInv, InHands, UID, mail
<1>2. ASSUME NEW m \in Mails, m # mail(wuid[w]) PROVE Places(m)' = Places(m)
  <2>1. cur \subseteq UID /\ None \notin UID
    BY MailsAssumption DEF IInv, TypeOK, UID
  <2>2. \A u \in cur : mail(u) = m => u # wack[w]
    BY <1>1, <1>2, <2>1
  <2>3. AtCur(m)' = AtCur(m)
    BY <2>2 DEF ACK, AtCur, Reclaimed, mail
  <2>4. AtHand(m)' = AtHand(m)
    BY DEF ACK, AtHand, mail
  <2> QED BY <2>3, <2>4, CurMoves, Kinds, KindsNext
<1> QED BY <1>1, <1>2

(* A mail that RePush or the stop has sent goes back to disk, or nowhere when
   the disk is full. *)
LEMMA StoreMoves ==
  ASSUME IInv, ForwardStore \/ ForwardFail, NEW m \in Mails
  PROVE  /\ mail(fobj) \in Mails /\ <<"forward", fobj>> \in AtForward(mail(fobj))
         /\ AtForward(m)' = {}
         /\ m # mail(fobj) => AtForward(m) = {}
         /\ AtDisk(m)' = AtDisk(m) \cup (IF ForwardStore /\ m = mail(fobj)
                                THEN {<<"disk", <<mail(fobj), fobj[2] + 1>> >>} ELSE {})
         /\ UNCHANGED <<AtGet(m), AtAdd(m), AtCur(m), AtBase(m), AtHand(m)>>
<1> USE DEF storeVars, condVars, workerVars, baseVars, fwdVars
<1>1. /\ fpc = "store" /\ fobj \in UID /\ mail(fobj) \in Mails /\ fpc' = "recv"
      /\ UNCHANGED <<gpc, gfile, wpc, wuid, cur, baseCh, bpc, rkey>>
  BY DEF ForwardStore, ForwardFail, IInv, HandInv, UID, mail
<1>2. /\ <<"forward", fobj>> \in AtForward(mail(fobj)) /\ AtForward(m)' = {}
      /\ m # mail(fobj) => AtForward(m) = {}
  BY <1>1 DEF AtForward
<1>3. UNCHANGED <<AtGet(m), AtAdd(m), AtCur(m), AtBase(m), AtHand(m)>>
  BY <1>1 DEF AtGet, AtAdd, AtCur, AtBase, AtHand, Reclaimed, mail
<1>4. CASE ForwardStore
  <2> DEFINE u == <<mail(fobj), fobj[2] + 1>>
  <2>1. mail(u) = mail(fobj) /\ disk' = disk \cup {u}
    BY <1>4 DEF ForwardStore, Renamed, mail
  <2> HIDE DEF u
  <2>2. AtDisk(m)' = AtDisk(m) \cup (IF m = mail(fobj) THEN {<<"disk", u>>} ELSE {})
    BY <2>1 DEF AtDisk, mail
  <2> QED BY <1>1, <1>2, <1>3, <1>4, <2>2 DEF u
<1>5. CASE ForwardFail
  <2>1. UNCHANGED disk
    BY <1>5 DEF ForwardFail
  <2>2. AtDisk(m)' = AtDisk(m) BY <2>1 DEF AtDisk, mail
  <2>3. ~ForwardStore
    BY <1>5 DEF ForwardStore, ForwardFail, Renamed, Fault, IInv, TypeOK
  <2> QED BY <1>1, <1>2, <1>3, <2>2, <2>3
<1> QED BY <1>4, <1>5
-----------------------------------------------------------------------------
(* After a step of any kind a mail is in one place. *)
LEMMA OneEachStep == IInv /\ [Next]_vars => OneEach'
<1> SUFFICES ASSUME IInv, [Next]_vars PROVE OneEach'
  OBVIOUS
<1> USE DEF storeVars, condVars, workerVars, baseVars, fwdVars
<1>0. OneEach BY DEF IInv
<1>a. ASSUME \A m \in Mails : Places(m)' \subseteq Places(m) PROVE OneEach'
  BY <1>0, <1>a DEF OneEach
<1>1. ASSUME NEW m \in Mails, IntakeStore(m) PROVE OneEach'
  <2> DEFINE u == <<m, 1>>
  <2>1. mail(u) = m /\ disk' = disk \cup {u} /\ ~Accepted(m)
    <3>1. mail(u) = m BY DEF mail
    <3>2. ~Accepted(m) BY <1>1 DEF IntakeStore, Accepted
    <3> QED BY <1>1, <3>1, <3>2 DEF IntakeStore, Renamed
  <2> HIDE DEF u
  <2>2. UNCHANGED <<gpc, gfile, wpc, wuid, cur, baseCh, bpc, rkey, fpc, fobj>>
    BY <1>1 DEF IntakeStore
  <2>3. ASSUME NEW n \in Mails
        PROVE  /\ UNCHANGED <<AtGet(n), AtAdd(n), AtCur(n), AtBase(n), AtHand(n), AtForward(n)>>
               /\ AtDisk(n)' = AtDisk(n) \cup (IF n = m THEN {<<"disk", u>>} ELSE {})
    <3>1. UNCHANGED <<AtGet(n), AtAdd(n), AtCur(n), AtBase(n), AtHand(n), AtForward(n)>>
      BY <2>2 DEF AtGet, AtAdd, AtCur, AtBase, AtHand, AtForward, Reclaimed, mail
    <3>2. AtDisk(n)' = AtDisk(n) \cup (IF n = m THEN {<<"disk", u>>} ELSE {})
      BY <2>1 DEF AtDisk, mail
    <3> QED BY <3>1, <3>2
  <2>4. ASSUME NEW n \in Mails, n # m PROVE Places(n)' = Places(n)
    <3>1. UNCHANGED <<AtDisk(n), AtGet(n), AtAdd(n), AtCur(n), AtBase(n), AtHand(n),
                      AtForward(n)>>
      BY <2>3, <2>4
    <3> QED BY <3>1, Kinds, KindsNext
  <2>5. Places(m)' = {<<"disk", u>>}
    <3>1. Places(m) = {} BY <2>1, Nowhere
    <3> QED BY <2>3, <3>1, Kinds, KindsNext
  <2> QED BY <1>0, <2>4, <2>5 DEF OneEach
<1>2. CASE \E m \in Mails : IntakeFail(m)
  BY <1>0, <1>2, SamePlaces DEF IntakeFail
<1>3. CASE Watch BY <1>a, <1>3, WatchSame
<1>4. ASSUME NEW w \in Workers,
             \/ Get(w) \/ Look(w) \/ Transfer(w) \/ Checked(w) \/ GetCanceled(w)
             \/ Reply(w) \/ Parse(w) \/ Leave(w) \/ Die(w)
      PROVE  OneEach'
  BY <1>a, <1>4, WorkerSame
<1>5. ASSUME NEW w \in Workers, Remove(w) PROVE OneEach'
  <2> PICK n \in Mails : n = mail(gfile[w])
    BY <1>5, RemoveMoves
  <2>1. <<"disk", gfile[w]>> \in AtDisk(n)
    BY <1>5, RemoveMoves DEF AtDisk
  <2>2. Places(n)' \subseteq (Places(n) \ {<<"disk", gfile[w]>>}) \cup {<<"get", w>>}
    <3>1. \A p \in Places(n) : p # <<"disk", gfile[w]>> => p[1] # "disk"
      BY <1>0, <2>1, Kinds, Tags DEF OneEach
    <3>2. \A p \in AtGet(n) \cup AtAdd(n) \cup AtCur(n) \cup AtBase(n) \cup AtHand(n)
                   \cup AtForward(n) : p # <<"disk", gfile[w]>>
      BY Tags
    <3> QED BY <1>5, <2>1, <3>2, RemoveMoves, Kinds, KindsNext
  <2>3. \A x, y \in Places(n)' : x = y
    BY <1>0, <2>1, <2>2, Kinds, Moved
  <2>4. \A m \in Mails : m # n => Places(m)' \subseteq Places(m)
    BY <1>5, RemoveMoves, Kinds, KindsNext
  <2> QED BY <1>0, <2>3, <2>4 DEF OneEach
<1>6. ASSUME NEW w \in Workers, GetReturn(w) PROVE OneEach'
  <2> SUFFICES ASSUME NEW m \in Mails PROVE \A x, y \in Places(m)' : x = y
    BY DEF OneEach
  <2>1. CASE <<"get", w>> \in AtGet(m)
    <3>1. Places(m)' \subseteq (Places(m) \ {<<"get", w>>}) \cup {<<"add", w>>}
      <4>1. \A p \in AtDisk(m) \cup AtAdd(m) \cup AtCur(m) \cup AtBase(m) \cup AtHand(m)
                   \cup AtForward(m) : p # <<"get", w>>
        BY Tags
      <4> QED BY <1>6, <2>1, <4>1, GetReturnMoves, Kinds, KindsNext
    <3> QED BY <1>0, <2>1, <3>1, Kinds, Moved
  <2>2. CASE <<"get", w>> \notin AtGet(m)
    <3>1. Places(m)' \subseteq Places(m)
      BY <1>6, <2>2, GetReturnMoves, Kinds, KindsNext
    <3> QED BY <1>0, <3>1 DEF OneEach
  <2> QED BY <2>1, <2>2
<1>7. ASSUME NEW w \in Workers, NextRequest(w) PROVE OneEach'
  BY <1>a, <1>7, NextRequestMoves, Kinds, KindsNext
<1>8. ASSUME NEW w \in Workers, Add(w) PROVE OneEach'
  <2> PICK n \in Mails : n = mail(wuid[w])
    BY <1>8, AddMoves
  <2>1. <<"add", w>> \in AtAdd(n)
    BY <1>8, AddMoves DEF AtAdd, Add
  <2>2. Places(n)' \subseteq (Places(n) \ {<<"add", w>>}) \cup {<<"cur", wuid[w]>>}
    <3>1. \A p \in AtDisk(n) \cup AtGet(n) \cup AtCur(n) \cup AtBase(n) \cup AtHand(n)
                   \cup AtForward(n) : p # <<"add", w>>
      BY Tags
    <3> QED BY <1>8, <2>1, <3>1, AddMoves, Kinds, KindsNext
  <2>3. \A x, y \in Places(n)' : x = y
    BY <1>0, <2>1, <2>2, Kinds, Moved
  <2>4. \A m \in Mails : m # n => Places(m)' \subseteq Places(m)
    BY <1>8, AddMoves, Kinds, KindsNext
  <2> QED BY <1>0, <2>3, <2>4 DEF OneEach
<1>9. ASSUME \/ \E w \in Workers : ACK(w)
             \/ \E u \in cur : RePush(u)
             \/ \E u \in todo : Drain(u)
             \/ RePushDelete \/ RePushStop \/ DrainStart \/ DrainReturn
      PROVE  OneEach'
  BY <1>a, <1>9, CurMoves, Kinds, KindsNext
<1>10. ASSUME RePushSend \/ DrainSend PROVE OneEach'
  <2> PICK n \in Mails : n = mail(rkey)
    BY <1>10, SendMoves
  <2>1. <<"cur", rkey>> \in AtHand(n)
    BY <1>10, SendMoves
  <2>2. Places(n)' \subseteq (Places(n) \ {<<"cur", rkey>>}) \cup {<<"base", Len(baseCh) + 1>>}
    <3>1. \A p \in AtDisk(n) \cup AtGet(n) \cup AtAdd(n) \cup AtBase(n) \cup AtForward(n) :
            p # <<"cur", rkey>>
      BY Tags
    <3> QED BY <1>10, <2>1, <3>1, SendMoves, Kinds, KindsNext
  <2>3. \A x, y \in Places(n)' : x = y
    BY <1>0, <2>1, <2>2, Kinds, Moved
  <2>4. \A m \in Mails : m # n => Places(m)' \subseteq Places(m)
    BY <1>10, SendMoves, Kinds, KindsNext
  <2> QED BY <1>0, <2>3, <2>4 DEF OneEach
<1>11. ASSUME ForwardRecv PROVE OneEach'
  <2> SUFFICES ASSUME NEW m \in Mails PROVE \A x, y \in Places(m)' : x = y
    BY DEF OneEach
  <2>1. CASE AtBase(m) = {}
    <3>1. Places(m)' \subseteq Places(m)
      BY <1>11, <2>1, RecvMoves, Kinds, KindsNext
    <3> QED BY <1>0, <3>1 DEF OneEach
  <2>2. CASE AtBase(m) # {}
    <3>1. Places(m)' = AtBase(m)' \cup AtForward(m)'
      BY <1>0, <1>11, <2>2, Apart, RecvMoves, KindsNext
    <3>2. \A p, q \in AtBase(m) : p = q
      BY <1>0, Kinds DEF OneEach
    <3>3. ASSUME NEW p \in AtBase(m)', NEW q \in AtBase(m)' PROVE p = q
      <4>1. PICK i \in Nat : p = <<"base", i>> /\ <<"base", i + 1>> \in AtBase(m)
        BY <1>11, <3>3, RecvMoves
      <4>2. PICK j \in Nat : q = <<"base", j>> /\ <<"base", j + 1>> \in AtBase(m)
        BY <1>11, <3>3, RecvMoves
      <4>3. <<"base", i + 1>> = <<"base", j + 1>> BY <3>2, <4>1, <4>2
      <4>4. i + 1 = j + 1 BY <4>3
      <4>5. i = j BY <4>1, <4>2, <4>4
      <4> QED BY <4>1, <4>2, <4>5
    <3>4. AtForward(m)' # {} => AtBase(m)' = {}
      <4> SUFFICES ASSUME AtForward(m)' # {}, NEW p \in AtBase(m)' PROVE FALSE
        OBVIOUS
      <4>1. <<"base", 1>> \in AtBase(m) BY <1>11, RecvMoves
      <4>2. PICK i \in Nat : <<"base", i + 1>> \in AtBase(m) /\ i + 1 # 1
        BY <1>11, RecvMoves
      <4>3. <<"base", i + 1>> = <<"base", 1>> BY <3>2, <4>1, <4>2
      <4> QED BY <4>2, <4>3
    <3>5. \A p, q \in AtForward(m)' : p = q
      BY <1>11, RecvMoves
    <3> QED BY <3>1, <3>3, <3>4, <3>5
  <2> QED BY <2>1, <2>2
<1>12. ASSUME ForwardStore \/ ForwardFail PROVE OneEach'
  <2> PICK n \in Mails : n = mail(fobj)
    BY <1>12 DEF ForwardStore, ForwardFail, IInv, HandInv, UID, mail
  <2> DEFINE u == <<mail(fobj), fobj[2] + 1>>
  <2>1. <<"forward", fobj>> \in AtForward(n)
    BY <1>12, StoreMoves
  <2>2. Places(n)' \subseteq (Places(n) \ {<<"forward", fobj>>}) \cup {<<"disk", u>>}
    <3>1. \A p \in AtDisk(n) \cup AtGet(n) \cup AtAdd(n) \cup AtCur(n) \cup AtBase(n)
                   \cup AtHand(n) : p # <<"forward", fobj>>
      BY Tags
    <3> QED BY <1>12, <2>1, <3>1, StoreMoves, Kinds, KindsNext
  <2>3. \A x, y \in Places(n)' : x = y
    BY <1>0, <2>1, <2>2, Kinds, Moved
  <2>4. \A m \in Mails : m # n => Places(m)' \subseteq Places(m)
    BY <1>12, StoreMoves, Kinds, KindsNext
  <2> QED BY <1>0, <2>3, <2>4 DEF OneEach
<1>13. ASSUME ForwardStamp \/ ForwardReturn \/ StopParser \/ StopCollector \/ Close
              \/ UNCHANGED vars
       PROVE  OneEach'
  <2>1. UNCHANGED <<disk, gpc, gfile, wpc, wuid, cur, baseCh, bpc, rkey, fobj>>
    BY <1>13 DEF ForwardStamp, ForwardReturn, StopParser, StopCollector, Close, vars
  <2>2. (fpc' \in {"stamp", "store"}) <=> (fpc \in {"stamp", "store"})
    BY <1>13 DEF ForwardStamp, ForwardReturn, StopParser, StopCollector, Close, vars
  <2>3. \A m \in Mails : Places(m)' = Places(m)
    BY <2>1, <2>2 DEF Places, Reclaimed, mail
  <2> QED BY <1>a, <2>3
<1>14. CASE Restart \/ Crash
  <2>1. Boot BY <1>14 DEF Restart, Crash
  <2>2. \A m \in Mails : Places(m)' \subseteq AtDisk(m)
    BY <2>1 DEF Boot, Empty, Places, AtDisk, mail
  <2> QED BY <1>a, <2>2, Kinds
<1> QED
  BY <1>1, <1>2, <1>3, <1>4, <1>5, <1>6, <1>7, <1>8, <1>9, <1>10, <1>11, <1>12, <1>13,
     <1>14 DEF Next
-----------------------------------------------------------------------------
(* Wherever a mail is, it carries the last UID it was given: what is given a
   new one is nowhere else. *)
LEMMA TurnStep == IInv /\ [Next]_vars => TurnInv'
<1> SUFFICES ASSUME IInv, [Next]_vars PROVE TurnInv'
  OBVIOUS
<1> USE DEF storeVars, condVars, workerVars, baseVars, fwdVars
<1>0. TypeOK /\ LockInv /\ HandInv /\ TurnInv /\ OneEach
  BY DEF IInv
<1>a. ASSUME UNCHANGED <<turn, intake>>
      PROVE  \A u : Last(u)' <=> Last(u)
  BY <1>a DEF Last, Accepted, mail
<1>b. ASSUME UNCHANGED <<turn, intake, disk, wpc, wuid, cur, baseCh, bpc, rkey, fpc, fobj>>,
             \A w \in Workers :
               gpc'[w] = "done" /\ gfile'[w] # None => gpc[w] = "done" /\ gfile'[w] = gfile[w]
      PROVE  TurnInv'
  BY <1>0, <1>b DEF TurnInv, Last, Accepted, mail, Reclaimed
<1>c. ASSUME UNCHANGED <<turn, intake, disk, gpc, gfile, cur, baseCh, bpc, rkey, fpc, fobj>>,
             \A w \in Workers : wpc'[w] = "add" => wpc[w] = "add" /\ wuid'[w] = wuid[w]
      PROVE  TurnInv'
  BY <1>0, <1>c DEF TurnInv, Last, Accepted, mail, Reclaimed
<1>d. ASSUME UNCHANGED <<turn, intake, disk, gpc, gfile, wpc, wuid>>
      PROVE  /\ \A u \in disk' : Last(u)'
             /\ \A w \in Workers : /\ gpc'[w] = "done" /\ gfile'[w] # None => Last(gfile[w])'
                                   /\ wpc'[w] = "add" => Last(wuid[w])'
  BY <1>0, <1>d DEF TurnInv, Last, Accepted, mail
<1>1. ASSUME NEW m \in Mails, IntakeStore(m) PROVE TurnInv'
  <2> DEFINE v == <<m, 1>>
  <2>1. mail(v) = m /\ v[2] = 1 BY DEF mail
  <2>2. Renamed(v) BY <1>1 DEF IntakeStore
  <2> HIDE DEF v
  <2>3. /\ disk' = disk \cup {v} /\ turn' = [turn EXCEPT ![m] = 1]
        /\ intake' = [intake EXCEPT ![m] = "accepted"] /\ intake[m] = "new"
        /\ UNCHANGED <<gpc, gfile, wpc, wuid, cur, baseCh, bpc, rkey, fpc, fobj>>
    BY <1>1, <2>1, <2>2 DEF IntakeStore, Renamed
  <2>4. /\ \A n \in Mails : n # m => turn'[n] = turn[n] /\ intake'[n] = intake[n]
        /\ turn'[m] = 1 /\ intake'[m] = "accepted"
    BY <1>0, <2>3 DEF TypeOK
  <2>5. \A u \in UID : mail(u) \in Mails BY DEF UID, mail
  <2>6. ASSUME NEW u \in UID, Last(u) PROVE Last(u)'
    BY <2>3, <2>4, <2>5, <2>6 DEF Last, Accepted, mail
  <2>7. Last(v)'
    BY <2>1, <2>4 DEF Last, Accepted, mail
  <2>8. \A u \in disk' : Last(u)'
    BY <1>0, <2>3, <2>6, <2>7 DEF TurnInv, TypeOK
  <2>9. \A u \in cur' : ~Reclaimed(u)' => Last(u)'
    BY <1>0, <2>3, <2>6 DEF TurnInv, TypeOK, Reclaimed
  <2>10. \A w \in Workers : /\ gpc'[w] = "done" /\ gfile'[w] # None => Last(gfile[w])'
                            /\ wpc'[w] = "add" => Last(wuid[w])'
    <3> SUFFICES ASSUME NEW w \in Workers
                 PROVE  /\ gpc'[w] = "done" /\ gfile'[w] # None => Last(gfile[w])'
                        /\ wpc'[w] = "add" => Last(wuid[w])'
      OBVIOUS
    <3>1. gpc[w] = "done" /\ gfile[w] # None => gfile[w] \in UID /\ Last(gfile[w])
      BY <1>0 DEF TurnInv, TypeOK
    <3>2. wpc[w] = "add" => wuid[w] \in UID /\ Last(wuid[w])
      BY <1>0 DEF TurnInv, TypeOK, HandInv, InHands
    <3> QED BY <2>3, <2>4, <2>5, <3>1, <3>2 DEF Last, Accepted, mail
  <2>11. \A i \in DOMAIN baseCh' : Last(baseCh[i])'
    <3> SUFFICES ASSUME NEW i \in DOMAIN baseCh PROVE Last(baseCh[i])'
      BY <2>3
    <3>1. baseCh[i] \in UID /\ Last(baseCh[i])
      BY <1>0 DEF TurnInv, TypeOK
    <3> QED BY <2>3, <2>4, <2>5, <3>1 DEF Last, Accepted, mail
  <2>12. /\ bpc' \in {"send", "drainSend"} => Last(rkey)'
         /\ fpc' \in {"stamp", "store"} => Last(fobj)'
    <3>1. bpc \in {"send", "drainSend"} => rkey \in UID /\ Last(rkey)
      BY <1>0 DEF TurnInv, HandInv
    <3>2. fpc \in {"stamp", "store"} => fobj \in UID /\ Last(fobj)
      BY <1>0 DEF TurnInv, HandInv
    <3> QED BY <2>3, <2>4, <2>5, <3>1, <3>2 DEF Last, Accepted, mail
  <2> QED BY <2>8, <2>9, <2>10, <2>11, <2>12 DEF TurnInv
<1>2. ASSUME NEW m \in Mails, IntakeFail(m) PROVE TurnInv'
  <2>1. \A n \in Mails : intake[n] = "accepted" => intake'[n] = "accepted"
    BY <1>0, <1>2 DEF IntakeFail, TypeOK
  <2>2. \A u \in UID : mail(u) \in Mails BY DEF UID, mail
  <2>3. UNCHANGED <<turn, disk, gpc, gfile, wpc, wuid, cur, baseCh, bpc, rkey, fpc, fobj>>
    BY <1>2 DEF IntakeFail
  <2>4. ASSUME NEW u \in UID, Last(u) PROVE Last(u)'
    BY <2>1, <2>2, <2>3, <2>4 DEF Last, Accepted, mail
  <2>5. /\ \A u \in disk : u \in UID
        /\ \A w \in Workers : /\ gpc[w] = "done" /\ gfile[w] # None => gfile[w] \in UID
                              /\ wpc[w] = "add" => wuid[w] \in UID
        /\ \A u \in cur : u \in UID
        /\ \A i \in DOMAIN baseCh : baseCh[i] \in UID
        /\ bpc \in {"send", "drainSend"} => rkey \in UID
        /\ fpc \in {"stamp", "store"} => fobj \in UID
    BY <1>0 DEF TypeOK, HandInv, InHands
  <2> QED BY <1>0, <2>1, <2>2, <2>3, <2>5 DEF TurnInv, Last, Accepted, mail, Reclaimed
<1>3. CASE Watch
  <2>1. \A x \in Workers : gpc'[x] = gpc[x] \/ (gpc'[x] = "lock" /\ gpc[x] = "wait")
    BY <1>0, <1>3, SignalWakes DEF Watch, LockInv, TypeOK
  <2> QED BY <1>3, <1>b, <2>1 DEF Watch
<1>4. ASSUME NEW w \in Workers, Get(w) \/ GetCanceled(w) PROVE TurnInv'
  <2>1. /\ \A x \in Workers : gpc'[x] = "done" => gpc[x] = "done"
        /\ \A x \in Workers : wpc'[x] = "add" => wpc[x] = "add"
        /\ UNCHANGED <<turn, intake, disk, gfile, wuid, cur, baseCh, bpc, rkey, fpc, fobj>>
    BY <1>0, <1>4 DEF Get, GetCanceled, TypeOK
  <2> QED BY <1>0, <2>1 DEF TurnInv, Last, Accepted, mail, Reclaimed
<1>5. ASSUME NEW w \in Workers, Look(w) \/ Checked(w) PROVE TurnInv'
  <2>1. \A x \in Workers : gpc'[x] = "done" => gpc[x] = "done" /\ gfile'[x] = gfile[x]
    BY <1>0, <1>5 DEF Look, Checked, TypeOK
  <2> QED BY <1>5, <1>b, <2>1 DEF Look, Checked
<1>6. ASSUME NEW w \in Workers, Transfer(w) PROVE TurnInv'
  <2>1. \A x \in Workers : x # w => gpc'[x] = gpc[x] \/ gpc'[x] = "lock"
    BY <1>0, <1>6 DEF Transfer, Signal, Ended, TypeOK
  <2>2. /\ gfile'[w] = None
        /\ \A x \in Workers : x # w => gfile'[x] = gfile[x]
    BY <1>0, <1>6 DEF Transfer, TypeOK
  <2> QED BY <1>6, <1>b, <2>1, <2>2 DEF Transfer
<1>7. ASSUME NEW w \in Workers, Remove(w) PROVE TurnInv'
  <2>1. gfile[w] \in disk /\ Last(gfile[w])
    BY <1>0, <1>7 DEF Remove, LockInv, TurnInv
  <2>2. /\ disk' \subseteq disk /\ gfile' = gfile
        /\ \A x \in Workers : x # w => gpc'[x] = gpc[x]
        /\ UNCHANGED <<turn, intake, wpc, wuid, cur, baseCh, bpc, rkey, fpc, fobj>>
    BY <1>0, <1>7 DEF Remove, Ended, TypeOK
  <2> QED BY <1>0, <2>1, <2>2 DEF TurnInv, Last, Accepted, mail, Reclaimed
<1>8. ASSUME NEW w \in Workers, GetReturn(w) PROVE TurnInv'
  <2>1. /\ gfile[w] # None => Last(gfile[w])
        /\ \A x \in Workers : x # w => /\ gpc'[x] = gpc[x] /\ gfile'[x] = gfile[x]
                                       /\ wpc'[x] = wpc[x] /\ wuid'[x] = wuid[x]
        /\ gpc'[w] = "none" /\ wuid'[w] = gfile[w] /\ (wpc'[w] = "add" => gfile[w] # None)
        /\ UNCHANGED <<turn, intake, disk, cur, baseCh, bpc, rkey, fpc, fobj>>
    BY <1>0, <1>8 DEF GetReturn, TurnInv, TypeOK
  <2> QED BY <1>0, <2>1 DEF TurnInv, Last, Accepted, mail, Reclaimed
<1>9. ASSUME NEW w \in Workers, NextRequest(w) PROVE TurnInv'
  <2>1. /\ \A x \in Workers : x # w => /\ gpc'[x] = gpc[x] /\ gfile'[x] = gfile[x]
                                       /\ wpc'[x] = wpc[x]
        /\ gpc'[w] = "none" /\ wpc'[w] = "idle"
        /\ UNCHANGED <<turn, intake, disk, wuid, cur, baseCh, bpc, rkey, fpc, fobj>>
    BY <1>0, <1>9 DEF NextRequest, TypeOK
  <2> QED BY <1>0, <2>1 DEF TurnInv, Last, Accepted, mail, Reclaimed
<1>10. ASSUME NEW w \in Workers, Add(w) PROVE TurnInv'
  <2>1. /\ cur' = cur \cup {wuid[w]} /\ Last(wuid[w])
        /\ \A x \in Workers : wpc'[x] = "add" => wpc[x] = "add"
        /\ UNCHANGED <<turn, intake, disk, gpc, gfile, wuid, baseCh, bpc, rkey, fpc, fobj>>
    BY <1>0, <1>10 DEF Add, TurnInv, TypeOK
  <2> QED BY <1>0, <2>1 DEF TurnInv, Last, Accepted, mail, Reclaimed
<1>11. ASSUME NEW w \in Workers, Reply(w) \/ Parse(w) \/ Leave(w) \/ Die(w) PROVE TurnInv'
  <2>1. \A x \in Workers : wpc'[x] = "add" => wpc[x] = "add" /\ wuid'[x] = wuid[x]
    BY <1>0, <1>11 DEF Reply, Parse, Leave, Die, TypeOK
  <2> QED BY <1>11, <1>c, <2>1 DEF Reply, Parse, Leave, Die
<1>12. ASSUME NEW w \in Workers, ACK(w) PROVE TurnInv'
  <2>1. /\ cur' \subseteq cur
        /\ \A x \in Workers : wpc'[x] = "add" => wpc[x] = "add" /\ wuid'[x] = wuid[x]
        /\ UNCHANGED <<turn, intake, disk, gpc, gfile, baseCh, bpc, rkey, fpc, fobj>>
    BY <1>0, <1>12 DEF ACK, TypeOK
  <2> QED BY <1>0, <2>1 DEF TurnInv, Last, Accepted, mail, Reclaimed
<1>13. ASSUME NEW u \in cur, RePush(u) PROVE TurnInv'
  BY <1>0, <1>13, <1>d DEF RePush, TurnInv, Last, Accepted, mail, Reclaimed
<1>14. ASSUME NEW u \in todo, Drain(u) PROVE TurnInv'
  BY <1>0, <1>14, <1>d DEF Drain, TurnInv, Last, Accepted, mail, Reclaimed
<1>15. CASE RePushSend \/ DrainSend
  <2>1. /\ baseCh' = Append(baseCh, rkey) /\ Last(rkey) /\ rkey \in UID
        /\ baseCh \in Seq(UID)
        /\ UNCHANGED <<turn, intake, cur, fpc, fobj>>
        /\ bpc' \notin {"send", "drainSend"}
    BY <1>0, <1>15 DEF RePushSend, DrainSend, TurnInv, HandInv, TypeOK
  <2>2. \A i \in DOMAIN baseCh' : Last(baseCh[i])'
    BY <1>0, <2>1, AppendElements DEF TurnInv, Last, Accepted, mail
  <2>3. \A u \in cur' : ~Reclaimed(u)' => Last(u)'
    BY <1>0, <1>15, <2>1 DEF RePushSend, DrainSend, TurnInv, Last, Accepted, mail, Reclaimed
  <2>4. fpc' \in {"stamp", "store"} => Last(fobj)'
    BY <1>0, <2>1 DEF TurnInv, Last, Accepted, mail
  <2> QED BY <1>15, <1>d, <2>1, <2>2, <2>3, <2>4 DEF RePushSend, DrainSend, TurnInv
<1>16. CASE RePushDelete \/ RePushStop \/ DrainStart \/ DrainReturn
  BY <1>0, <1>16, <1>d DEF RePushDelete, RePushStop, DrainStart, DrainReturn, TurnInv, Last,
     Accepted, mail, Reclaimed
<1>17. CASE ForwardRecv
  <2>1. /\ baseCh \in Seq(UID) /\ baseCh # <<>> /\ baseCh' = Tail(baseCh)
        /\ fobj' = baseCh[1] /\ 1 \in DOMAIN baseCh
        /\ UNCHANGED <<turn, intake, cur, bpc, rkey>>
    BY <1>0, <1>17, TailElements DEF ForwardRecv, TypeOK
  <2>2. \A i \in DOMAIN baseCh' : Last(baseCh[i])'
    BY <1>0, <2>1, TailElements DEF TurnInv, Last, Accepted, mail
  <2>3. Last(fobj)'
    BY <1>0, <2>1 DEF TurnInv, Last, Accepted, mail
  <2>4. /\ \A u \in cur' : ~Reclaimed(u)' => Last(u)'
        /\ bpc' \in {"send", "drainSend"} => Last(rkey)'
    BY <1>0, <2>1 DEF TurnInv, Last, Accepted, mail, Reclaimed
  <2> QED BY <1>17, <1>d, <2>2, <2>3, <2>4 DEF ForwardRecv, TurnInv
<1>18. CASE ForwardStore \/ ForwardFail
  <2>m. PICK m \in Mails : m = mail(fobj)
    BY <1>0, <1>18 DEF ForwardStore, ForwardFail, HandInv, UID, mail
  <2>0. PICK v \in UID : v = <<mail(fobj), fobj[2] + 1>>
    BY <1>0, <1>18 DEF ForwardStore, ForwardFail, HandInv, UID, mail
  <2>1. mail(v) = m /\ v[2] = fobj[2] + 1 BY <2>0, <2>m DEF mail
  <2>2. /\ fobj \in UID /\ Accepted(m) /\ fpc = "store" /\ fpc' = "recv"
        /\ turn' = [turn EXCEPT ![m] = v[2]] /\ intake' = intake
        /\ disk' = disk \cup {v} \/ disk' = disk
        /\ UNCHANGED <<gpc, gfile, wpc, wuid, cur, baseCh, bpc, rkey>>
    BY <1>0, <1>18, <2>0, <2>1, <2>m
       DEF ForwardStore, ForwardFail, Renamed, HandInv, TurnInv, Last
  <2>3. AtForward(m) # {} BY <2>2, <2>m DEF AtForward
  <2>4. /\ AtDisk(m) = {} /\ AtGet(m) = {} /\ AtAdd(m) = {} /\ AtCur(m) = {}
        /\ AtHand(m) = {} /\ AtBase(m) = {}
    BY <1>0, <2>3, Apart
  <2>5. /\ \A n \in Mails : n # m => turn'[n] = turn[n]
        /\ turn'[m] = v[2]
    BY <1>0, <2>2 DEF TypeOK
  <2>6. ASSUME NEW u \in UID, mail(u) # m, Last(u) PROVE Last(u)'
    <3>1. mail(u) \in Mails BY DEF UID, mail
    <3>2. turn'[mail(u)] = turn[mail(u)] BY <2>5, <2>6, <3>1
    <3>3. Accepted(mail(u))' BY <2>2, <2>6 DEF Last, Accepted, mail
    <3> QED BY <2>6, <3>2, <3>3 DEF Last, mail
  <2>7. \A u \in disk' : Last(u)'
    <3>1. \A u \in disk : u \in UID /\ mail(u) # m /\ Last(u)
      BY <1>0, <2>4, Nothing DEF TypeOK, TurnInv
    <3>2. \A u \in disk : Last(u)'
      BY <2>6, <3>1
    <3>3. Last(v)' BY <2>1, <2>2, <2>5 DEF Last, Accepted, mail
    <3> QED BY <2>2, <3>2, <3>3
  <2>8. ASSUME NEW w \in Workers
        PROVE  /\ gpc'[w] = "done" /\ gfile'[w] # None => Last(gfile[w])'
               /\ wpc'[w] = "add" => Last(wuid[w])'
    <3>1. gpc[w] = "done" /\ gfile[w] # None =>
            gfile[w] \in UID /\ mail(gfile[w]) # m /\ Last(gfile[w])
      BY <1>0, <2>4, Nothing DEF TypeOK, TurnInv
    <3>2. wpc[w] = "add" => wuid[w] \in UID /\ mail(wuid[w]) # m /\ Last(wuid[w])
      BY <1>0, <2>4, Nothing DEF HandInv, InHands, TurnInv
    <3>3. ASSUME gpc[w] = "done", gfile[w] # None PROVE Last(gfile[w])'
      <4> PICK u \in UID : u = gfile[w] BY <3>1, <3>3
      <4>1. Last(u)' BY <2>6, <3>1, <3>3
      <4> QED BY <2>2, <4>1 DEF Last, Accepted, mail
    <3>4. ASSUME wpc[w] = "add" PROVE Last(wuid[w])'
      <4> PICK u \in UID : u = wuid[w] BY <3>2, <3>4
      <4>1. Last(u)' BY <2>6, <3>2, <3>4
      <4> QED BY <2>2, <4>1 DEF Last, Accepted, mail
    <3> QED BY <2>2, <3>3, <3>4
  <2>9. \A u \in cur' : ~Reclaimed(u)' => Last(u)'
    <3>1. \A u \in cur : ~Reclaimed(u) => u \in UID /\ mail(u) # m /\ Last(u)
      BY <1>0, <2>4, Nothing DEF TypeOK, TurnInv
    <3>2. ASSUME NEW u \in cur', ~Reclaimed(u)' PROVE Last(u)'
      <4>1. u \in cur /\ ~Reclaimed(u) BY <2>2, <3>2 DEF Reclaimed
      <4>2. u \in UID /\ mail(u) # m /\ Last(u) BY <3>1, <4>1
      <4> QED BY <2>6, <4>2
    <3> QED BY <3>2
  <2>10. \A i \in DOMAIN baseCh' : Last(baseCh[i])'
    <3>1. \A i \in DOMAIN baseCh : baseCh[i] \in UID /\ mail(baseCh[i]) # m /\ Last(baseCh[i])
      <4>1. \A i \in DOMAIN baseCh : baseCh[i] \in UID BY <1>0 DEF TypeOK
      <4>2. \A i \in DOMAIN baseCh : Last(baseCh[i]) BY <1>0 DEF TurnInv
      <4>3. \A i \in DOMAIN baseCh : mail(baseCh[i]) # m BY <2>4, Nothing
      <4> QED BY <4>1, <4>2, <4>3
    <3>2. ASSUME NEW i \in DOMAIN baseCh PROVE Last(baseCh[i])'
      <4> PICK u \in UID : u = baseCh[i] BY <3>1
      <4> QED BY <2>2, <2>6, <3>1 DEF Last, Accepted, mail
    <3> QED BY <2>2, <3>2
  <2>11. bpc' \in {"send", "drainSend"} => Last(rkey)'
    <3>1. bpc \in {"send", "drainSend"} => rkey \in UID /\ mail(rkey) # m /\ Last(rkey)
      BY <1>0, <2>4, Nothing DEF HandInv, TurnInv
    <3> SUFFICES ASSUME bpc' \in {"send", "drainSend"} PROVE Last(rkey)'
      OBVIOUS
    <3> PICK u \in UID : u = rkey BY <2>2, <3>1
    <3>2. Last(u)' BY <2>2, <2>6, <3>1
    <3> QED BY <2>2, <3>2 DEF Last, Accepted, mail
  <2> QED BY <2>2, <2>7, <2>8, <2>9, <2>10, <2>11 DEF TurnInv
<1>19. CASE ForwardStamp \/ ForwardReturn \/ StopParser \/ StopCollector \/ Close
            \/ UNCHANGED vars
  <2>1. UNCHANGED <<turn, intake, disk, gpc, gfile, wpc, wuid, cur, baseCh, bpc, rkey, fobj>>
    BY <1>19 DEF ForwardStamp, ForwardReturn, StopParser, StopCollector, Close, vars
  <2>2. fpc' \in {"stamp", "store"} => fpc \in {"stamp", "store"}
    BY <1>19 DEF ForwardStamp, ForwardReturn, StopParser, StopCollector, Close, vars
  <2> QED BY <1>0, <2>1, <2>2 DEF TurnInv, Last, Accepted, mail, Reclaimed
<1>20. CASE Restart \/ Crash
  <2>1. Boot BY <1>20 DEF Restart, Crash
  <2> QED BY <1>0, <2>1 DEF Boot, Empty, TurnInv, Last, Accepted, mail, Reclaimed
<1> QED
  BY <1>1, <1>2, <1>3, <1>4, <1>5, <1>6, <1>7, <1>8, <1>9, <1>10, <1>11, <1>12, <1>13,
     <1>14, <1>15, <1>16, <1>17, <1>18, <1>19, <1>20 DEF Next
-----------------------------------------------------------------------------
(* The entry that RePush has sent is not filed again before it is deleted. *)
LEMMA ReclaimStep == IInv /\ [Next]_vars => ReclaimInv'
<1> SUFFICES ASSUME IInv, [Next]_vars PROVE ReclaimInv'
  OBVIOUS
<1> USE DEF storeVars, condVars, workerVars, baseVars, fwdVars
<1>0. TypeOK /\ HandInv /\ TurnInv /\ ReclaimInv /\ OneEach
  BY DEF IInv
<1>a. \A m \in Mails : Accepted(m) => Accepted(m)'
  BY <1>0, AcceptedStays
<1>b. bpc \in {"send", "delete", "drainSend"} => rkey \in UID /\ mail(rkey) \in Mails
  BY <1>0 DEF HandInv, UID, mail
<1>c. ASSUME UNCHANGED <<turn, baseCh, bpc, rkey, fpc, fobj>>, bpc = "delete" \/ cur' \subseteq cur
      PROVE  ReclaimInv'
  BY <1>0, <1>a, <1>b, <1>c DEF ReclaimInv, Accepted, mail
<1>d. ASSUME bpc' \notin {"delete", "drainSend"} PROVE ReclaimInv'
  BY <1>d DEF ReclaimInv
<1>1. ASSUME NEW m \in Mails, IntakeStore(m) PROVE ReclaimInv'
  <2>1. /\ turn' = [turn EXCEPT ![m] = 1] /\ ~Accepted(m)
        /\ UNCHANGED <<cur, baseCh, bpc, rkey, fpc, fobj>>
    BY <1>1 DEF IntakeStore, Renamed, Accepted, mail
  <2>2. bpc = "delete" => turn'[mail(rkey)] = turn[mail(rkey)]
    BY <1>0, <1>b, <2>1 DEF ReclaimInv, TypeOK
  <2> QED BY <1>0, <1>a, <1>b, <2>1, <2>2 DEF ReclaimInv, Accepted, mail
<1>2. CASE \E m \in Mails : IntakeFail(m)
  BY <1>c, <1>2 DEF IntakeFail
<1>3. CASE Watch BY <1>c, <1>3 DEF Watch
<1>4. ASSUME NEW w \in Workers,
             \/ Get(w) \/ Look(w) \/ Transfer(w) \/ Checked(w) \/ Remove(w) \/ GetReturn(w)
             \/ GetCanceled(w) \/ NextRequest(w) \/ Reply(w) \/ Parse(w) \/ ACK(w)
             \/ Leave(w) \/ Die(w)
      PROVE  ReclaimInv'
  BY <1>c, <1>4 DEF Get, Look, Transfer, Checked, Remove, GetReturn, GetCanceled, NextRequest,
     Reply, Parse, ACK, Leave, Die
<1>5. ASSUME NEW w \in Workers, Add(w) PROVE ReclaimInv'
  <2>1. /\ cur' = cur \cup {wuid[w]}
        /\ UNCHANGED <<turn, intake, baseCh, bpc, rkey, fpc, fobj>>
    BY <1>5 DEF Add
  <2>2. ASSUME bpc = "drainSend" PROVE rkey # wuid[w]
    <3>1. AtHand(mail(rkey)) # {} BY <2>2 DEF AtHand
    <3>2. AtAdd(mail(wuid[w])) # {} BY <1>5 DEF Add, AtAdd
    <3> QED BY <1>0, <1>b, <2>2, <3>1, <3>2, Apart
  <2> QED BY <1>0, <2>1, <2>2 DEF ReclaimInv, Accepted, mail
<1>6. CASE \E u \in cur : RePush(u) BY <1>d, <1>6 DEF RePush
<1>7. ASSUME NEW u \in todo, Drain(u) PROVE ReclaimInv'
  <2>1. CASE u \in cur
    <3>1. bpc' = "drainSend" /\ rkey' = u /\ u \notin cur' BY <1>7, <2>1 DEF Drain
    <3> QED BY <3>1 DEF ReclaimInv
  <2>2. CASE u \notin cur BY <1>7, <1>d, <2>2 DEF Drain
  <2> QED BY <2>1, <2>2
<1>8. CASE RePushSend
  <2>1. /\ baseCh' = Append(baseCh, rkey) /\ baseCh \in Seq(UID) /\ rkey \in UID
        /\ bpc' = "delete" /\ rkey' = rkey /\ Accepted(mail(rkey)) /\ intake' = intake
    BY <1>0, <1>8 DEF RePushSend, TurnInv, HandInv, TypeOK, Last
  <2>2. Len(baseCh) + 1 \in DOMAIN baseCh' /\ baseCh'[Len(baseCh) + 1] = rkey
    BY <2>1, AppendElements
  <2> QED BY <2>1, <2>2 DEF ReclaimInv, Accepted, mail
<1>9. CASE RePushDelete \/ RePushStop \/ DrainStart \/ DrainSend \/ DrainReturn
  BY <1>9, <1>d DEF RePushDelete, RePushStop, DrainStart, DrainSend, DrainReturn
<1>10. CASE ForwardRecv
  <2>1. /\ baseCh \in Seq(UID) /\ baseCh # <<>> /\ baseCh' = Tail(baseCh)
        /\ fobj' = baseCh[1] /\ fpc = "recv" /\ fpc' = "stamp"
        /\ UNCHANGED <<turn, intake, cur, bpc, rkey>>
    BY <1>0, <1>10, TailElements DEF ForwardRecv, TypeOK
  <2>2. \A i \in DOMAIN baseCh :
          i = 1 \/ (i - 1 \in DOMAIN baseCh' /\ baseCh'[i - 1] = baseCh[i])
    BY <2>1, TailElements
  <2>3. ASSUME NEW i \in DOMAIN baseCh, baseCh[i] = rkey
        PROVE  fobj' = rkey \/ \E j \in DOMAIN baseCh' : baseCh'[j] = rkey
    <3>1. CASE i = 1 BY <2>1, <2>3, <3>1
    <3>2. CASE i # 1 BY <2>2, <2>3, <3>2
    <3> QED BY <3>1, <3>2
  <2> QED BY <1>0, <2>1, <2>3 DEF ReclaimInv, Accepted, mail
<1>11. CASE ForwardStore \/ ForwardFail
  <2>1. PICK m \in Mails, k \in Nat : m = mail(fobj) /\ k = fobj[2]
    BY <1>0, <1>11 DEF ForwardStore, ForwardFail, HandInv, UID, mail
  <2>2. /\ fobj \in UID /\ turn[m] = k
        /\ turn' = [turn EXCEPT ![m] = k + 1]
        /\ UNCHANGED <<intake, cur, baseCh, bpc, rkey>>
    BY <1>0, <1>11, <2>1
       DEF ForwardStore, ForwardFail, Renamed, HandInv, TurnInv, Last, mail
  <2>3. \A n \in Mails : turn'[n] = IF n = m THEN k + 1 ELSE turn[n]
    BY <1>0, <2>2 DEF TypeOK
  <2>4. ASSUME bpc = "delete", rkey[2] < turn[mail(rkey)] PROVE rkey[2] < turn'[mail(rkey)]
    <3>1. rkey[2] \in Nat /\ mail(rkey) \in Mails BY <1>b, <2>4 DEF UID
    <3> QED BY <2>2, <2>3, <2>4, <3>1
  <2>5. ASSUME bpc = "delete", fobj = rkey PROVE rkey[2] < turn'[mail(rkey)]
    BY <1>b, <2>1, <2>3, <2>5
  <2> QED BY <1>0, <2>2, <2>4, <2>5 DEF ReclaimInv, Accepted, mail
<1>12. CASE ForwardStamp \/ ForwardReturn
  <2>1. /\ fpc \in {"stamp", "store"} => fpc' \in {"stamp", "store"}
        /\ UNCHANGED <<turn, intake, cur, baseCh, bpc, rkey, fobj>>
    BY <1>12 DEF ForwardStamp, ForwardReturn
  <2> QED BY <1>0, <2>1 DEF ReclaimInv, Accepted, mail
<1>13. CASE StopParser \/ StopCollector \/ Close \/ UNCHANGED vars
  BY <1>13, <1>c DEF StopParser, StopCollector, Close, vars
<1>14. CASE Restart \/ Crash BY <1>14, <1>d DEF Restart, Crash, Boot
<1> QED
  BY <1>1, <1>2, <1>3, <1>4, <1>5, <1>6, <1>7, <1>8, <1>9, <1>10, <1>11, <1>12, <1>13,
     <1>14 DEF Next
-----------------------------------------------------------------------------
(* A collector on an empty directory satisfies the invariant. *)
LEMMA InitInv == Init => IInv
<1> SUFFICES ASSUME Init PROVE IInv
  OBVIOUS
<1>1. TypeOK
  <2>1. <<>> \in Seq(Workers) /\ <<>> \in Seq(UID) /\ Len(<<>>) = 0
    OBVIOUS
  <2> QED BY <2>1, BoundsAssumption DEF Init, Empty, TypeOK
<1>2. LockInv /\ HandInv /\ TurnInv /\ ReclaimInv /\ TroubleInv
  BY DEF Init, Empty, LockInv, HandInv, TurnInv, ReclaimInv, TroubleInv, InHands
<1>3. OneEach
  <2>1. \A m \in Mails : Places(m) = {}
    BY DEF Init, Empty, Places
  <2> QED BY <2>1 DEF OneEach
<1> QED BY <1>1, <1>2, <1>3 DEF IInv

(* No step breaks it. *)
LEMMA StepInv == IInv /\ [Next]_vars => IInv'
BY TypeStep, LockStep, HandStep, TurnStep, ReclaimStep, TroubleStep, OneEachStep DEF IInv

(* Every state of the collector satisfies the invariant. *)
LEMMA Inductive == Spec => []IInv
BY InitInv, StepInv, PTL DEF Spec

(* However many mails, workers and faults: what the program keeps has the
   types of the code, and a mail is in one place. *)
THEOREM MailsInOnePlace == Spec => []OnePlace
<1>1. IInv => OnePlace
  BY DEF IInv, OnePlace, OneEach
<1> QED BY <1>1, Inductive, PTL
-----------------------------------------------------------------------------
(* A step that moves no mail between disk and memory, nor accepts or parses
   one, is no step of the spool. *)
LEMMA SpoolStutters ==
  ASSUME UNCHANGED <<intake, parsed, faults>>,
         \A m \in Mails : (OnDisk(m)' <=> OnDisk(m)) /\ (InMemory(m)' <=> InMemory(m))
  PROVE  UNCHANGED Disk!vars
<1>1. \A m \in Mails : Accepted(m)' <=> Accepted(m)
  BY DEF Accepted
<1>2. /\ {m \in Mails : Accepted(m)}' = {m \in Mails : Accepted(m)}
      /\ {m \in Mails : OnDisk(m)}' = {m \in Mails : OnDisk(m)}
      /\ {m \in Mails : InMemory(m)}' = {m \in Mails : InMemory(m)}
      /\ (faults = {})' = (faults = {})
  BY <1>1
<1> QED BY <1>2 DEF Disk!vars

(* The same for a step that is known only to leave the places alone. *)
LEMMA PlacesSame ==
  ASSUME \A m \in Mails : Places(m)' = Places(m)
  PROVE  \A m \in Mails : (OnDisk(m)' <=> OnDisk(m)) /\ (InMemory(m)' <=> InMemory(m))
<1> SUFFICES ASSUME NEW m \in Mails
             PROVE  (OnDisk(m)' <=> OnDisk(m)) /\ (InMemory(m)' <=> InMemory(m))
  OBVIOUS
<1>1. InMemory(m)' <=> InMemory(m) BY DEF InMemory
<1>2. /\ \A p \in Places(m) : p[1] = "disk" <=> p \in AtDisk(m)
      /\ AtDisk(m) \subseteq Places(m)
  BY Kinds, Tags
<1>3. OnDisk(m) <=> \E p \in Places(m) : p[1] = "disk"
  BY <1>2, WhereIs
<1>4. /\ OnDisk(m)' <=> AtDisk(m)' # {}
      /\ \A p \in Places(m)' : p[1] = "disk" <=> p \in AtDisk(m)'
      /\ AtDisk(m)' \subseteq Places(m)'
  <2>1. OnDisk(m)' <=> AtDisk(m)' # {} BY DEF OnDisk, AtDisk
  <2>2. /\ \A p \in AtDisk(m)' : p[1] = "disk"
        /\ \A p \in AtGet(m)' \cup AtAdd(m)' \cup AtCur(m)' \cup AtBase(m)' \cup AtHand(m)'
                    \cup AtForward(m)' : p[1] # "disk"
    BY DEF AtDisk, AtGet, AtAdd, AtCur, AtBase, AtHand, AtForward
  <2> QED BY <2>1, <2>2, KindsNext
<1>5. OnDisk(m)' <=> \E p \in Places(m)' : p[1] = "disk"
  BY <1>4
<1> QED BY <1>1, <1>3, <1>5

(* What is in memory or on disk after a step. *)
LEMMA WhereIsNext ==
  ASSUME NEW m \in Mails
  PROVE  /\ OnDisk(m)' <=> AtDisk(m)' # {}
         /\ InMemory(m)' <=> AtGet(m)' \cup AtAdd(m)' \cup AtCur(m)' \cup AtBase(m)'
                             \cup AtHand(m)' \cup AtForward(m)' # {}
<1>1. OnDisk(m)' <=> AtDisk(m)' # {}
  BY DEF OnDisk, AtDisk
<1>2. /\ \A p \in AtDisk(m)' : p[1] = "disk"
      /\ \A p \in AtGet(m)' \cup AtAdd(m)' \cup AtCur(m)' \cup AtBase(m)' \cup AtHand(m)'
                  \cup AtForward(m)' : p[1] # "disk"
  BY DEF AtDisk, AtGet, AtAdd, AtCur, AtBase, AtHand, AtForward
<1>3. InMemory(m)' <=> AtGet(m)' \cup AtAdd(m)' \cup AtCur(m)' \cup AtBase(m)' \cup AtHand(m)'
                       \cup AtForward(m)' # {}
  BY <1>2, KindsNext DEF InMemory
<1> QED BY <1>1, <1>3

(* Once something has gone wrong, leased mails may be forgotten. *)
LEMMA SpoolTroubled ==
  ASSUME UNCHANGED <<intake, parsed>>, faults' # {},
         \A m \in Mails : (OnDisk(m)' <=> OnDisk(m)) /\ (InMemory(m)' => InMemory(m))
  PROVE  Disk!Trouble
<1> DEFINE lost == {m \in Mails : InMemory(m) /\ ~InMemory(m)'}
<1>1. {m \in Mails : Accepted(m)}' = {m \in Mails : Accepted(m)}
  BY DEF Accepted
<1>2. {m \in Mails : OnDisk(m)}' = {m \in Mails : OnDisk(m)}
  OBVIOUS
<1>3. {m \in Mails : InMemory(m)}' = {m \in Mails : InMemory(m)} \ lost
  OBVIOUS
<1>4. lost \in SUBSET {m \in Mails : InMemory(m)}
  OBVIOUS
<1>5. (faults = {})' = FALSE
  OBVIOUS
<1> HIDE DEF lost
<1> QED BY <1>1, <1>2, <1>3, <1>4, <1>5 DEF Disk!Trouble

(* Every step of the collector is one of the spool, or none. *)
LEMMA SpoolStep == IInv /\ [Next]_vars => [Disk!Next]_Disk!vars
<1> SUFFICES ASSUME IInv, [Next]_vars PROVE [Disk!Next]_Disk!vars
  OBVIOUS
<1> USE DEF storeVars, condVars, workerVars, baseVars, fwdVars
<1>0. TypeOK /\ HandInv /\ TurnInv /\ TroubleInv /\ OneEach
  BY DEF IInv
<1>a. ASSUME UNCHANGED <<intake, parsed, faults>>, \A m \in Mails : Places(m)' = Places(m)
      PROVE  [Disk!Next]_Disk!vars
  BY <1>a, PlacesSame, SpoolStutters
<1>b. ASSUME UNCHANGED <<intake, parsed>>, faults' # {},
             \A m \in Mails : Places(m)' = Places(m)
      PROVE  [Disk!Next]_Disk!vars
  BY <1>b, PlacesSame, SpoolTroubled DEF Disk!Next
<1>1. ASSUME NEW m \in Mails, IntakeStore(m) PROVE [Disk!Next]_Disk!vars
  <2> DEFINE u == <<m, 1>>
  <2>1. mail(u) = m BY DEF mail
  <2>2. Renamed(u) BY <1>1 DEF IntakeStore
  <2> HIDE DEF u
  <2>3. disk' = disk \cup {u}
    BY <2>2 DEF Renamed
  <2>4. \A n \in Mails : OnDisk(n)' <=> OnDisk(n) \/ n = m
    BY <2>1, <2>3 DEF OnDisk, mail
  <2>5. \A n \in Mails : InMemory(n)' <=> InMemory(n)
    <3> SUFFICES ASSUME NEW n \in Mails PROVE InMemory(n)' <=> InMemory(n)
      OBVIOUS
    <3>1. UNCHANGED <<AtGet(n), AtAdd(n), AtCur(n), AtBase(n), AtHand(n), AtForward(n)>>
      BY <1>1 DEF IntakeStore, AtGet, AtAdd, AtCur, AtBase, AtHand, AtForward, Reclaimed, mail
    <3> QED BY <3>1, WhereIs, WhereIsNext
  <2>6. /\ ~Accepted(m)
        /\ \A n \in Mails : Accepted(n)' <=> Accepted(n) \/ n = m
    BY <1>0, <1>1 DEF IntakeStore, Accepted, TypeOK
  <2>7. UNCHANGED <<parsed, faults>>
    BY <1>1 DEF IntakeStore
  <2>8. /\ {n \in Mails : Accepted(n)}' = {n \in Mails : Accepted(n)} \cup {m}
        /\ {n \in Mails : OnDisk(n)}' = {n \in Mails : OnDisk(n)} \cup {m}
        /\ {n \in Mails : InMemory(n)}' = {n \in Mails : InMemory(n)}
    BY <2>4, <2>5, <2>6
  <2>9. Disk!Accept(m) BY <2>6, <2>7, <2>8 DEF Disk!Accept
  <2> QED BY <2>9 DEF Disk!Next
<1>2. ASSUME NEW m \in Mails, IntakeFail(m) PROVE [Disk!Next]_Disk!vars
  <2>1. /\ {n \in Mails : Accepted(n)}' = {n \in Mails : Accepted(n)}
        /\ UNCHANGED parsed /\ faults' # {}
    BY <1>0, <1>2 DEF IntakeFail, Fault, Accepted, TypeOK
  <2>2. \A n \in Mails : Places(n)' = Places(n)
    BY <1>2, SamePlaces DEF IntakeFail
  <2>3. /\ {n \in Mails : OnDisk(n)}' = {n \in Mails : OnDisk(n)}
        /\ {n \in Mails : InMemory(n)}' = {n \in Mails : InMemory(n)} \ {}
        /\ (faults = {})' = FALSE
    BY <2>1, <2>2, PlacesSame
  <2>4. Disk!Trouble BY <2>1, <2>3 DEF Disk!Trouble
  <2> QED BY <2>4 DEF Disk!Next
<1>3. CASE Watch
  <2>1. \A m \in Mails : Places(m)' = Places(m) BY <1>3, WatchSame
  <2> QED BY <1>3, <1>a, <2>1 DEF Watch
<1>4. ASSUME NEW w \in Workers,
             Get(w) \/ Look(w) \/ Transfer(w) \/ Checked(w) \/ GetCanceled(w) \/ Reply(w)
      PROVE  [Disk!Next]_Disk!vars
  <2>1. \A m \in Mails : Places(m)' = Places(m) BY <1>4, WorkerSame
  <2>2. UNCHANGED <<intake, parsed, faults>>
    BY <1>4 DEF Get, Look, Transfer, Checked, GetCanceled, Reply
  <2> QED BY <1>a, <2>1, <2>2
<1>5. ASSUME NEW w \in Workers, Leave(w) \/ Die(w) PROVE [Disk!Next]_Disk!vars
  <2>1. \A m \in Mails : Places(m)' = Places(m) BY <1>5, WorkerSame
  <2>2. UNCHANGED <<intake, parsed>> /\ faults' # {}
    BY <1>5 DEF Leave, Die, Fault
  <2> QED BY <1>b, <2>1, <2>2
<1>6. ASSUME NEW w \in Workers, Parse(w) PROVE [Disk!Next]_Disk!vars
  <2>1. \A m \in Mails : Places(m)' = Places(m) BY <1>6, WorkerSame
  <2>2. PICK n \in Mails : n = mail(wuid[w]) /\ Accepted(n)
    BY <1>0, <1>6 DEF Parse, HandInv, InHands, UID, mail
  <2>3. parsed' = parsed \cup {n} /\ UNCHANGED <<intake, faults>>
    BY <1>6, <2>2 DEF Parse
  <2>4. /\ {m \in Mails : Accepted(m)}' = {m \in Mails : Accepted(m)}
        /\ {m \in Mails : OnDisk(m)}' = {m \in Mails : OnDisk(m)}
        /\ {m \in Mails : InMemory(m)}' = {m \in Mails : InMemory(m)}
    BY <2>1, <2>3, PlacesSame DEF Accepted
  <2>5. Disk!Parse(n) BY <2>2, <2>3, <2>4 DEF Disk!Parse
  <2> QED BY <2>5 DEF Disk!Next
<1>7. ASSUME NEW w \in Workers, Remove(w) PROVE [Disk!Next]_Disk!vars
  <2> PICK n \in Mails : n = mail(gfile[w])
    BY <1>7, RemoveMoves
  <2>1. <<"disk", gfile[w]>> \in AtDisk(n) /\ AtDisk(n) \subseteq Places(n)
    BY <1>7, RemoveMoves, Kinds DEF AtDisk
  <2>2. OnDisk(n) /\ ~InMemory(n)
    BY <1>0, <2>1, Apart, WhereIs
  <2>3. ~OnDisk(n)'
    <3>1. AtDisk(n) = {<<"disk", gfile[w]>>} BY <1>0, <2>1 DEF OneEach
    <3> QED BY <1>7, <3>1, RemoveMoves, WhereIsNext
  <2>4. InMemory(n)' BY <1>7, RemoveMoves, WhereIsNext
  <2>5. ASSUME NEW m \in Mails, m # n
        PROVE  (OnDisk(m)' <=> OnDisk(m)) /\ (InMemory(m)' <=> InMemory(m))
    <3>1. <<"disk", gfile[w]>> \notin AtDisk(m) BY <2>5 DEF AtDisk
    <3> QED BY <1>7, <2>5, <3>1, RemoveMoves, WhereIs, WhereIsNext
  <2>6. UNCHANGED <<intake, parsed, faults>> BY <1>7 DEF Remove
  <2>7. /\ {m \in Mails : Accepted(m)}' = {m \in Mails : Accepted(m)}
        /\ {m \in Mails : OnDisk(m)}' = {m \in Mails : OnDisk(m)} \ {n}
        /\ {m \in Mails : InMemory(m)}' = {m \in Mails : InMemory(m)} \cup {n}
        /\ (faults = {})' = (faults = {})
    BY <2>2, <2>3, <2>4, <2>5, <2>6 DEF Accepted
  <2>8. Disk!Take(n) BY <2>2, <2>6, <2>7 DEF Disk!Take
  <2> QED BY <2>8 DEF Disk!Next
<1>8. ASSUME NEW w \in Workers, GetReturn(w) PROVE [Disk!Next]_Disk!vars
  <2>1. \A m \in Mails : (OnDisk(m)' <=> OnDisk(m)) /\ (InMemory(m)' <=> InMemory(m))
    <3> SUFFICES ASSUME NEW m \in Mails
                 PROVE  (OnDisk(m)' <=> OnDisk(m)) /\ (InMemory(m)' <=> InMemory(m))
      OBVIOUS
    <3>1. /\ AtGet(m)' = AtGet(m) \ {<<"get", w>>}
          /\ AtAdd(m)' = AtAdd(m) \cup (IF <<"get", w>> \in AtGet(m) THEN {<<"add", w>>} ELSE {})
          /\ UNCHANGED <<AtDisk(m), AtCur(m), AtBase(m), AtHand(m), AtForward(m)>>
      BY <1>8, GetReturnMoves
    <3>2. CASE <<"get", w>> \in AtGet(m) BY <3>1, <3>2, WhereIs, WhereIsNext
    <3>3. CASE <<"get", w>> \notin AtGet(m)
      <4>1. AtGet(m)' = AtGet(m) /\ AtAdd(m)' = AtAdd(m) BY <3>1, <3>3
      <4> QED BY <3>1, <4>1, WhereIs, WhereIsNext
    <3> QED BY <3>2, <3>3
  <2>2. UNCHANGED <<intake, parsed, faults>> BY <1>8 DEF GetReturn
  <2> QED BY <2>1, <2>2, SpoolStutters
<1>9. ASSUME NEW w \in Workers, NextRequest(w) PROVE [Disk!Next]_Disk!vars
  <2>1. \A m \in Mails : (OnDisk(m)' <=> OnDisk(m)) /\ (InMemory(m)' => InMemory(m))
    BY <1>9, NextRequestMoves, WhereIs, WhereIsNext
  <2>2. UNCHANGED <<intake, parsed>> /\ faults' # {}
    BY <1>0, <1>9 DEF NextRequest, TroubleInv
  <2> QED BY <2>1, <2>2, SpoolTroubled DEF Disk!Next
<1>10. ASSUME NEW w \in Workers, Add(w) PROVE [Disk!Next]_Disk!vars
  <2>1. \A m \in Mails : <<"add", w>> \in AtAdd(m) <=> m = mail(wuid[w])
    BY <1>10 DEF Add, AtAdd
  <2>2. \A m \in Mails : (OnDisk(m)' <=> OnDisk(m)) /\ (InMemory(m)' <=> InMemory(m))
    <3> SUFFICES ASSUME NEW m \in Mails
                 PROVE  (OnDisk(m)' <=> OnDisk(m)) /\ (InMemory(m)' <=> InMemory(m))
      OBVIOUS
    <3>1. /\ AtAdd(m)' = AtAdd(m) \ {<<"add", w>>}
          /\ AtCur(m)' = AtCur(m) \cup (IF m = mail(wuid[w]) THEN {<<"cur", wuid[w]>>} ELSE {})
          /\ UNCHANGED <<AtDisk(m), AtGet(m), AtBase(m), AtHand(m), AtForward(m)>>
      BY <1>10, AddMoves
    <3>2. CASE m = mail(wuid[w]) BY <2>1, <3>1, <3>2, WhereIs, WhereIsNext
    <3>3. CASE m # mail(wuid[w])
      <4>1. AtAdd(m)' = AtAdd(m) /\ AtCur(m)' = AtCur(m) BY <2>1, <3>1, <3>3
      <4> QED BY <3>1, <4>1, WhereIs, WhereIsNext
    <3> QED BY <3>2, <3>3
  <2>3. UNCHANGED <<intake, parsed, faults>> BY <1>10 DEF Add
  <2> QED BY <2>2, <2>3, SpoolStutters
<1>11. ASSUME NEW w \in Workers, ACK(w) PROVE [Disk!Next]_Disk!vars
  <2>1. PICK n \in Mails : n = mail(wuid[w]) /\ n \in parsed /\ Accepted(n)
    BY <1>11, AckMoves
  <2>2. \A m \in Mails : m # n => Places(m)' = Places(m)
    BY <1>11, <2>1, AckMoves
  <2>3. \A m \in Mails : /\ OnDisk(m)' <=> OnDisk(m)
                         /\ InMemory(m)' => InMemory(m)
    BY <1>11, CurMoves, WhereIs, WhereIsNext
  <2>4. ASSUME NEW m \in Mails, m # n PROVE InMemory(m)' <=> InMemory(m)
    BY <2>2, <2>4 DEF InMemory
  <2>5. UNCHANGED <<intake, parsed, faults>> BY <1>11 DEF ACK
  <2>6. CASE InMemory(n)' <=> InMemory(n)
    BY <2>3, <2>4, <2>5, <2>6, SpoolStutters
  <2>7. CASE InMemory(n) /\ ~InMemory(n)'
    <3>1. /\ {m \in Mails : Accepted(m)}' = {m \in Mails : Accepted(m)}
          /\ {m \in Mails : OnDisk(m)}' = {m \in Mails : OnDisk(m)}
          /\ {m \in Mails : InMemory(m)}' = {m \in Mails : InMemory(m)} \ {n}
          /\ (faults = {})' = (faults = {})
      BY <2>3, <2>4, <2>5, <2>7 DEF Accepted
    <3>2. Disk!Acknowledge(n) BY <2>1, <2>5, <2>7, <3>1 DEF Disk!Acknowledge
    <3> QED BY <3>2 DEF Disk!Next
  <2> QED BY <2>3, <2>6, <2>7
<1>12. ASSUME (\E u \in cur : RePush(u)) \/ (\E u \in todo : Drain(u)) \/ RePushDelete
              \/ DrainStart \/ DrainReturn
       PROVE  [Disk!Next]_Disk!vars
  <2>1. UNCHANGED <<intake, parsed, faults, wpc>>
    BY <1>12 DEF RePush, Drain, RePushDelete, DrainStart, DrainReturn
  <2>2. ~(\E w \in Workers : ACK(w))
    BY <1>0, <2>1 DEF ACK, TypeOK
  <2>3. ~RePushStop
    BY <1>12 DEF RePush, Drain, RePushDelete, DrainStart, DrainReturn, RePushStop
  <2>4. \A m \in Mails :
          /\ AtCur(m)' \cup AtHand(m)' = AtCur(m) \cup AtHand(m)
          /\ UNCHANGED <<AtDisk(m), AtGet(m), AtAdd(m), AtBase(m), AtForward(m)>>
    BY <1>12, <2>2, <2>3, CurMoves
  <2>5. \A m \in Mails : (OnDisk(m)' <=> OnDisk(m)) /\ (InMemory(m)' <=> InMemory(m))
    BY <2>4, WhereIs, WhereIsNext
  <2> QED BY <2>1, <2>5, SpoolStutters
<1>13. CASE RePushStop
  <2>1. \A m \in Mails : (OnDisk(m)' <=> OnDisk(m)) /\ (InMemory(m)' => InMemory(m))
    BY <1>13, CurMoves, WhereIs, WhereIsNext
  <2>2. UNCHANGED <<intake, parsed>> /\ faults' # {}
    BY <1>0, <1>13 DEF RePushStop, CtxDone, TroubleInv
  <2> QED BY <2>1, <2>2, SpoolTroubled DEF Disk!Next
<1>14. CASE RePushSend \/ DrainSend
  <2>1. \A m \in Mails : (OnDisk(m)' <=> OnDisk(m)) /\ (InMemory(m)' <=> InMemory(m))
    BY <1>14, SendMoves, WhereIs, WhereIsNext
  <2>2. UNCHANGED <<intake, parsed, faults>> BY <1>14 DEF RePushSend, DrainSend
  <2> QED BY <2>1, <2>2, SpoolStutters
<1>15. CASE ForwardRecv
  <2>1. \A m \in Mails : AtBase(m)' # {} => AtBase(m) # {}
    BY <1>15, RecvMoves
  <2>2. \A m \in Mails : (OnDisk(m)' <=> OnDisk(m)) /\ (InMemory(m)' <=> InMemory(m))
    BY <1>15, <2>1, RecvMoves, WhereIs, WhereIsNext
  <2>3. UNCHANGED <<intake, parsed, faults>> BY <1>15 DEF ForwardRecv
  <2> QED BY <2>2, <2>3, SpoolStutters
<1>16. CASE ForwardStore
  <2>1. PICK n \in Mails : n = mail(fobj) /\ AtForward(n) # {}
    <3>1. mail(fobj) \in Mails BY <1>0, <1>16 DEF ForwardStore, HandInv, UID, mail
    <3> QED BY <1>16, <3>1, StoreMoves
  <2>2. ~OnDisk(n) /\ InMemory(n)
    BY <1>0, <2>1, Apart, WhereIs
  <2>3. OnDisk(n)' /\ ~InMemory(n)'
    <3>1. AtGet(n) \cup AtAdd(n) \cup AtCur(n) \cup AtBase(n) \cup AtHand(n) = {}
      BY <1>0, <2>1, Apart
    <3>2. UNCHANGED <<AtGet(n), AtAdd(n), AtCur(n), AtBase(n), AtHand(n)>> /\ AtForward(n)' = {}
      BY <1>16, StoreMoves
    <3>3. AtDisk(n)' # {} BY <1>16, <2>1, StoreMoves
    <3> QED BY <3>1, <3>2, <3>3, WhereIsNext
  <2>4. ASSUME NEW m \in Mails, m # n
        PROVE  (OnDisk(m)' <=> OnDisk(m)) /\ (InMemory(m)' <=> InMemory(m))
    <3>1. AtDisk(m)' = AtDisk(m) /\ AtForward(m)' = AtForward(m)
      BY <1>16, <2>1, <2>4, StoreMoves
    <3>2. UNCHANGED <<AtGet(m), AtAdd(m), AtCur(m), AtBase(m), AtHand(m)>>
      BY <1>16, StoreMoves
    <3> QED BY <3>1, <3>2, WhereIs, WhereIsNext
  <2>5. UNCHANGED <<intake, parsed, faults>> BY <1>16 DEF ForwardStore
  <2>6. /\ {m \in Mails : Accepted(m)}' = {m \in Mails : Accepted(m)}
        /\ {m \in Mails : OnDisk(m)}' = {m \in Mails : OnDisk(m)} \cup {n}
        /\ {m \in Mails : InMemory(m)}' = {m \in Mails : InMemory(m)} \ {n}
        /\ (faults = {})' = (faults = {})
    BY <2>2, <2>3, <2>4, <2>5 DEF Accepted
  <2>7. Disk!StoreAgain(n) BY <2>2, <2>5, <2>6 DEF Disk!StoreAgain
  <2> QED BY <2>7 DEF Disk!Next
<1>17. CASE ForwardFail
  <2>1. UNCHANGED <<intake, parsed>> /\ faults' # {} /\ UNCHANGED disk
    BY <1>17 DEF ForwardFail, Fault
  <2>2. \A m \in Mails : OnDisk(m)' <=> OnDisk(m)
    BY <2>1 DEF OnDisk
  <2>3. \A m \in Mails : InMemory(m)' => InMemory(m)
    BY <1>17, StoreMoves, WhereIs, WhereIsNext
  <2> QED BY <2>1, <2>2, <2>3, SpoolTroubled DEF Disk!Next
<1>18. CASE ForwardStamp \/ ForwardReturn
  <2>1. UNCHANGED <<disk, gpc, gfile, wpc, wuid, cur, baseCh, bpc, rkey, fobj, intake, parsed, faults>>
        /\ (fpc' \in {"stamp", "store"} <=> fpc \in {"stamp", "store"})
    BY <1>18 DEF ForwardStamp, ForwardReturn
  <2>2. ASSUME NEW m \in Mails
        PROVE  UNCHANGED <<AtDisk(m), AtGet(m), AtAdd(m), AtCur(m), AtBase(m), AtHand(m),
                           AtForward(m)>>
    BY <2>1 DEF AtDisk, AtGet, AtAdd, AtCur, AtBase, AtHand, AtForward, Reclaimed, mail
  <2>3. \A m \in Mails : (OnDisk(m)' <=> OnDisk(m)) /\ (InMemory(m)' <=> InMemory(m))
    BY <2>2, WhereIs, WhereIsNext
  <2> QED BY <2>1, <2>3, SpoolStutters
<1>19. CASE StopParser
  <2>1. \A m \in Mails : Places(m)' = Places(m)
    BY <1>19, SamePlaces DEF StopParser
  <2> QED BY <1>19, <1>b, <2>1 DEF StopParser, Fault
<1>20. CASE StopCollector \/ Close \/ UNCHANGED vars
  <2>1. \A m \in Mails : Places(m)' = Places(m)
    BY <1>20, SamePlaces DEF StopCollector, Close, vars
  <2> QED BY <1>20, <1>a, <2>1 DEF StopCollector, Close, vars
<1>21. CASE Restart \/ Crash
  <2>1. Boot /\ faults' # {}
    BY <1>0, <1>21 DEF Restart, Crash, Fault, TroubleInv
  <2>2. \A m \in Mails : OnDisk(m)' <=> OnDisk(m)
    BY <2>1 DEF Boot, OnDisk
  <2>3. ASSUME NEW m \in Mails PROVE ~InMemory(m)'
    <3>1. /\ AtGet(m)' = {} /\ AtAdd(m)' = {} /\ AtCur(m)' = {} /\ AtBase(m)' = {}
          /\ AtHand(m)' = {} /\ AtForward(m)' = {}
      BY <2>1 DEF Boot, Empty, AtGet, AtAdd, AtCur, AtBase, AtHand, AtForward
    <3> QED BY <3>1, WhereIsNext
  <2>4. UNCHANGED <<intake, parsed>> BY <2>1 DEF Boot
  <2> QED BY <2>1, <2>2, <2>3, <2>4, SpoolTroubled DEF Disk!Next
<1> QED
  BY <1>1, <1>2, <1>3, <1>4, <1>5, <1>6, <1>7, <1>8, <1>9, <1>10, <1>11, <1>12, <1>13,
     <1>14, <1>15, <1>16, <1>17, <1>18, <1>19, <1>20, <1>21 DEF Next

(* The collector on disk implements the spool: a stored mail is never lost,
   whatever happens, and neither is a leased one until something goes wrong. *)
THEOREM ImplementsSpool == Spec => RefinesSpool
<1>1. Init => Disk!Init
  <2> SUFFICES ASSUME Init PROVE Disk!Init
    OBVIOUS
  <2>1. \A m \in Mails : ~Accepted(m) /\ ~OnDisk(m) /\ ~InMemory(m)
    BY DEF Init, Empty, Accepted, OnDisk, InMemory, Places
  <2> QED BY <2>1 DEF Init, Disk!Init
<1> QED BY Inductive, <1>1, SpoolStep, PTL DEF Spec, RefinesSpool, Disk!Spec
-----------------------------------------------------------------------------
(* A worker gives its object up when it acknowledges, or when it dies. *)
LEMMA IdleStep == IInv /\ IdleInv /\ [Next]_vars => IdleInv'
<1> SUFFICES ASSUME IInv, IdleInv, [Next]_vars PROVE IdleInv'
  OBVIOUS
<1> USE DEF storeVars, condVars, workerVars, baseVars, fwdVars, InHands
<1>0. TypeOK BY DEF IInv
<1>a. ASSUME UNCHANGED <<wpc, wuid>> PROVE IdleInv'
  BY <1>a DEF IdleInv
<1>1. CASE \E m \in Mails : IntakeStore(m) \/ IntakeFail(m)
  BY <1>a, <1>1 DEF IntakeStore, IntakeFail
<1>2. CASE Watch BY <1>a, <1>2 DEF Watch
<1>3. ASSUME NEW w \in Workers, Look(w) \/ Transfer(w) \/ Checked(w) \/ Remove(w) \/ Leave(w)
      PROVE  IdleInv'
  BY <1>a, <1>3 DEF Look, Transfer, Checked, Remove, Leave
<1>4. ASSUME NEW w \in Workers, Get(w) \/ GetCanceled(w) \/ NextRequest(w) PROVE IdleInv'
  BY <1>0, <1>4 DEF Get, GetCanceled, NextRequest, IdleInv, TypeOK
<1>5. ASSUME NEW w \in Workers, GetReturn(w) PROVE IdleInv'
  BY <1>0, <1>5 DEF GetReturn, IdleInv, TypeOK
<1>6. ASSUME NEW w \in Workers, Add(w) \/ Reply(w) \/ Parse(w) PROVE IdleInv'
  BY <1>0, <1>6 DEF Add, Reply, Parse, IdleInv, TypeOK
<1>7. ASSUME NEW w \in Workers, ACK(w) \/ Die(w) PROVE IdleInv'
  BY <1>0, <1>7 DEF ACK, Die, IdleInv, TypeOK
<1>8. CASE (\E u \in cur : RePush(u)) \/ (\E u \in todo : Drain(u)) \/ RePushSend \/ RePushDelete
           \/ RePushStop \/ DrainStart \/ DrainSend \/ DrainReturn
  BY <1>a, <1>8 DEF RePush, Drain, RePushSend, RePushDelete, RePushStop, DrainStart, DrainSend,
     DrainReturn
<1>9. CASE ForwardRecv \/ ForwardStamp \/ ForwardStore \/ ForwardFail \/ ForwardReturn
  BY <1>a, <1>9 DEF ForwardRecv, ForwardStamp, ForwardStore, ForwardFail, ForwardReturn
<1>10. CASE StopParser \/ StopCollector \/ Close \/ UNCHANGED vars
  BY <1>a, <1>10 DEF StopParser, StopCollector, Close, vars
<1>11. CASE Restart \/ Crash
  BY <1>11 DEF Restart, Crash, Boot, Empty, IdleInv
<1> QED
  BY <1>1, <1>2, <1>3, <1>4, <1>5, <1>6, <1>7, <1>8, <1>9, <1>10, <1>11 DEF Next

(* The first run does not begin again, and its stop goes one way. *)
LEMMA FirstRunBefore ==
  ASSUME IInv, [Next]_vars, FirstRun'
  PROVE  /\ FirstRun /\ faults \subseteq faults'
         /\ phase # "up" => phase' # "up"
         /\ CtxDone => CtxDone'
<1> USE DEF storeVars, condVars, workerVars, baseVars, fwdVars
<1>0. phase # "up" => "stop" \in faults BY DEF IInv, TroubleInv
<1>1. ~Crash BY DEF Crash, Fault, FirstRun
<1>2. ~Restart BY <1>0 DEF Restart, Boot, FirstRun
<1>3. CASE StopParser BY <1>3 DEF StopParser, Fault, FirstRun, CtxDone
<1>4. CASE StopCollector \/ Close \/ UNCHANGED vars
  BY <1>4 DEF StopCollector, Close, vars, FirstRun, CtxDone
<1>5. CASE (\E m \in Mails : IntakeStore(m) \/ IntakeFail(m)) \/ Watch
  BY <1>5 DEF IntakeStore, IntakeFail, Watch, Fault, FirstRun, CtxDone
<1>6. CASE \E w \in Workers : \/ Get(w) \/ Look(w) \/ Transfer(w) \/ Checked(w) \/ Remove(w)
                              \/ GetReturn(w) \/ GetCanceled(w) \/ NextRequest(w)
                              \/ Add(w) \/ Reply(w) \/ Parse(w) \/ ACK(w) \/ Leave(w) \/ Die(w)
  BY <1>6 DEF Get, Look, Transfer, Checked, Remove, GetReturn, GetCanceled, NextRequest, Add,
     Reply, Parse, ACK, Leave, Die, Fault, FirstRun, CtxDone
<1>7. CASE (\E u \in cur : RePush(u)) \/ (\E u \in todo : Drain(u)) \/ RePushSend \/ RePushDelete
           \/ RePushStop \/ DrainStart \/ DrainSend \/ DrainReturn
  BY <1>7 DEF RePush, Drain, RePushSend, RePushDelete, RePushStop, DrainStart, DrainSend,
     DrainReturn, FirstRun, CtxDone
<1>8. CASE ForwardRecv \/ ForwardStamp \/ ForwardStore \/ ForwardFail \/ ForwardReturn
  BY <1>8 DEF ForwardRecv, ForwardStamp, ForwardStore, ForwardFail, ForwardReturn, Fault,
     FirstRun, CtxDone
<1> QED BY <1>1, <1>2, <1>3, <1>4, <1>5, <1>6, <1>7, <1>8 DEF Next

(* While the process is up nobody stops waiting for a mail. *)
LEMMA WaitStep ==
  ASSUME IInv, WaitInv, FirstRun, [Next]_vars, FirstRun'
  PROVE  WaitInv'
<1> USE DEF storeVars, condVars, workerVars, baseVars, fwdVars
<1> SUFFICES ASSUME phase' = "up" PROVE WaitInv'
  BY DEF WaitInv
<1>0. TypeOK /\ LockInv /\ phase = "up" BY FirstRunBefore DEF IInv
<1>a. gone = {} /\ \A w \in Workers : ~Stopped(w)
  BY <1>0 DEF WaitInv, Stopped
<1>b. ASSUME UNCHANGED <<gone, wpc, gpc, gfile>> PROVE WaitInv'
  BY <1>0, <1>b DEF WaitInv
<1>1. CASE \E m \in Mails : IntakeStore(m) \/ IntakeFail(m)
  BY <1>b, <1>1 DEF IntakeStore, IntakeFail
<1>2. CASE Watch
  <2>1. \A w \in Workers : gpc'[w] = "done" => gpc[w] = "done"
    BY <1>0, <1>2 DEF Watch, Signal, TypeOK
  <2> QED BY <1>0, <1>2, <2>1 DEF Watch, WaitInv
<1>3. ASSUME NEW w \in Workers, Get(w) \/ Look(w) \/ Checked(w) PROVE WaitInv'
  <2>1. /\ \A x \in Workers : gpc'[x] = "done" => gpc[x] = "done" /\ gfile'[x] = gfile[x]
        /\ \A x \in Workers : wpc'[x] = "left" => wpc[x] = "left"
        /\ UNCHANGED gone
    BY <1>0, <1>3 DEF Get, Look, Checked, TypeOK
  <2> QED BY <1>0, <2>1 DEF WaitInv
<1>4. ASSUME NEW w \in Workers, Transfer(w) \/ GetCanceled(w) PROVE WaitInv'
  BY <1>4, <1>a DEF Transfer, GetCanceled
<1>5. ASSUME NEW w \in Workers, Remove(w) PROVE WaitInv'
  <2>1. gfile[w] # None
    BY <1>0, <1>5, MailsAssumption DEF Remove, LockInv, TypeOK, UID
  <2>2. \A x \in Workers : gpc'[x] = "done" => x = w \/ gpc[x] = "done"
    BY <1>0, <1>5 DEF Remove, Ended, TypeOK
  <2> QED BY <1>0, <1>5, <2>1, <2>2 DEF Remove, WaitInv
<1>6. ASSUME NEW w \in Workers, GetReturn(w) PROVE WaitInv'
  BY <1>0, <1>6 DEF GetReturn, WaitInv, TypeOK
<1>7. ASSUME NEW w \in Workers, NextRequest(w) PROVE WaitInv'
  BY <1>0, <1>7 DEF NextRequest, WaitInv
<1>8. ASSUME NEW w \in Workers, Add(w) \/ Reply(w) \/ Parse(w) \/ ACK(w) \/ Die(w)
      PROVE  WaitInv'
  <2>1. /\ \A x \in Workers : wpc'[x] = "left" => wpc[x] = "left"
        /\ UNCHANGED <<gone, gpc, gfile>>
    BY <1>0, <1>8 DEF Add, Reply, Parse, ACK, Die, TypeOK
  <2> QED BY <1>0, <2>1 DEF WaitInv
<1>9. ASSUME NEW w \in Workers, Leave(w) PROVE WaitInv'
  BY <1>9 DEF Leave, Fault, FirstRun
<1>10. CASE (\E u \in cur : RePush(u)) \/ (\E u \in todo : Drain(u)) \/ RePushSend \/ RePushDelete
           \/ RePushStop \/ DrainStart \/ DrainSend \/ DrainReturn
  BY <1>b, <1>10 DEF RePush, Drain, RePushSend, RePushDelete, RePushStop, DrainStart, DrainSend,
     DrainReturn
<1>11. CASE ForwardRecv \/ ForwardStamp \/ ForwardStore \/ ForwardFail \/ ForwardReturn
  BY <1>b, <1>11 DEF ForwardRecv, ForwardStamp, ForwardStore, ForwardFail, ForwardReturn
<1>12. CASE StopParser \/ StopCollector \/ Close
  BY <1>0, <1>12 DEF StopParser, StopCollector, Close
<1>13. CASE UNCHANGED vars BY <1>b, <1>13 DEF vars
<1>14. CASE Restart \/ Crash
  BY <1>0, <1>14 DEF Restart, Crash, Fault, FirstRun
<1> QED
  BY <1>1, <1>2, <1>3, <1>4, <1>5, <1>6, <1>7, <1>8, <1>9, <1>10, <1>11, <1>12, <1>13,
     <1>14 DEF Next

(* The stop goes from the parser to the base goroutine, and then to Start. *)
LEMMA StopStep ==
  ASSUME IInv, StopInv, FirstRun, [Next]_vars, FirstRun'
  PROVE  StopInv'
<1> USE DEF storeVars, condVars, workerVars, baseVars, fwdVars
<1>0. TypeOK /\ (CtxDone => CtxDone') BY FirstRunBefore DEF IInv
<1>a. ASSUME UNCHANGED <<phase, bpc, todo, baseCh, fpc>>,
             \A w \in Local : wpc[w] = "left" => wpc'[w] = "left"
      PROVE  StopInv'
  BY <1>a DEF StopInv, CtxDone
<1>1. CASE \E m \in Mails : IntakeStore(m) \/ IntakeFail(m)
  BY <1>a, <1>1 DEF IntakeStore, IntakeFail
<1>2. CASE Watch BY <1>a, <1>2 DEF Watch
<1>3. ASSUME NEW w \in Workers,
             \/ Get(w) \/ Look(w) \/ Transfer(w) \/ Checked(w) \/ Remove(w) \/ GetReturn(w)
             \/ GetCanceled(w) \/ NextRequest(w) \/ Add(w) \/ Reply(w) \/ Parse(w) \/ ACK(w)
             \/ Leave(w) \/ Die(w)
      PROVE  StopInv'
  <2>1. UNCHANGED <<phase, bpc, todo, baseCh, fpc>>
    BY <1>3 DEF Get, Look, Transfer, Checked, Remove, GetReturn, GetCanceled, NextRequest, Add,
       Reply, Parse, ACK, Leave, Die
  <2>2. \A x \in Local : wpc[x] = "left" => wpc'[x] = "left"
    BY <1>0, <1>3, WorkersAssumption
       DEF Get, Look, Transfer, Checked, Remove, GetReturn, GetCanceled, NextRequest, Add,
       Reply, Parse, ACK, Leave, Die, TypeOK, Workers
  <2> QED BY <1>a, <2>1, <2>2
<1>4. ASSUME NEW u \in cur, RePush(u) PROVE StopInv'
  BY <1>4 DEF RePush, StopInv, CtxDone
<1>5. ASSUME NEW u \in todo, Drain(u) PROVE StopInv'
  BY <1>5 DEF Drain, StopInv, CtxDone
<1>6. CASE RePushSend \/ DrainSend
  BY <1>6 DEF RePushSend, DrainSend, StopInv, CtxDone
<1>7. CASE RePushDelete \/ RePushStop \/ DrainStart \/ DrainReturn
  BY <1>7 DEF RePushDelete, RePushStop, DrainStart, DrainReturn, StopInv, CtxDone
<1>8. CASE ForwardRecv \/ ForwardStamp \/ ForwardStore \/ ForwardFail \/ ForwardReturn
  BY <1>8 DEF ForwardRecv, ForwardStamp, ForwardStore, ForwardFail, ForwardReturn, StopInv, CtxDone
<1>9. CASE StopParser \/ StopCollector \/ Close
  BY <1>9 DEF StopParser, StopCollector, Close, StopInv, CtxDone
<1>10. CASE UNCHANGED vars BY <1>a, <1>10 DEF vars
<1>11. CASE Restart \/ Crash
  BY <1>11 DEF Restart, Crash, Boot, StopInv, CtxDone
<1> QED
  BY <1>1, <1>2, <1>3, <1>4, <1>5, <1>6, <1>7, <1>8, <1>9, <1>10, <1>11 DEF Next

(* Until the process ends, a mail that RePush gives up, or that is filed when
   the stop has begun, was parsed or is in the hands of a request. *)
LEMMA DrainStep ==
  ASSUME IInv, IdleInv, StopInv, DrainInv, FirstRun, [Next]_vars, FirstRun'
  PROVE  DrainInv'
<1> USE DEF storeVars, condVars, workerVars, baseVars, fwdVars
<1> DEFINE Draining == bpc \in {"drain", "drainSend", "closed"}
           Out(u) == mail(u) \in parsed \/ \E w \in Remote : wuid[w] = u
<1>0. /\ TypeOK /\ HandInv /\ cur \subseteq UID /\ None \notin UID
      /\ Draining => CtxDone /\ \A w \in Local : wpc[w] = "left"
  BY MailsAssumption DEF IInv, TypeOK, UID, StopInv
<1>a. ASSUME UNCHANGED <<cur, bpc, todo, rkey>>, parsed \subseteq parsed',
             Draining => \A u \in cur \ todo : Out(u) => Out(u)'
      PROVE  DrainInv'
  BY <1>a DEF DrainInv, mail
<1>b. ASSUME UNCHANGED <<cur, bpc, todo, rkey, wuid>>, parsed \subseteq parsed'
      PROVE  DrainInv'
  BY <1>a, <1>b DEF mail
<1>c. ASSUME bpc' \notin {"send", "drain", "drainSend", "closed"} PROVE DrainInv'
  BY <1>c DEF DrainInv
<1>1. CASE \E m \in Mails : IntakeStore(m) \/ IntakeFail(m)
  BY <1>b, <1>1 DEF IntakeStore, IntakeFail
<1>2. CASE Watch BY <1>b, <1>2 DEF Watch
<1>3. ASSUME NEW w \in Workers,
             \/ Get(w) \/ Look(w) \/ Transfer(w) \/ Checked(w) \/ Remove(w) \/ GetCanceled(w)
             \/ NextRequest(w) \/ Reply(w) \/ Parse(w) \/ Leave(w)
      PROVE  DrainInv'
  BY <1>b, <1>3 DEF Get, Look, Transfer, Checked, Remove, GetCanceled, NextRequest, Reply,
     Parse, Leave
<1>4. ASSUME NEW w \in Workers, GetReturn(w) PROVE DrainInv'
  <2>1. /\ wuid[w] = None /\ \A x \in Workers : x # w => wuid'[x] = wuid[x]
        /\ UNCHANGED <<cur, bpc, todo, rkey, parsed>>
    BY <1>0, <1>4 DEF GetReturn, IdleInv, InHands, TypeOK
  <2>2. ASSUME NEW u \in cur, Out(u) PROVE Out(u)'
    <3>1. \A x \in Remote : wuid[x] = u => wuid'[x] = u
      BY <1>0, <2>1 DEF Workers
    <3> QED BY <2>1, <2>2, <3>1 DEF mail
  <2> QED BY <1>a, <2>1, <2>2
<1>5. ASSUME NEW w \in Workers, Add(w) PROVE DrainInv'
  <2>1. /\ cur' = cur \cup {wuid[w]} /\ wpc[w] = "add"
        /\ UNCHANGED <<bpc, todo, rkey, parsed, wuid>>
    BY <1>5 DEF Add
  <2>2. Draining => w \in Remote
    BY <1>0, <2>1 DEF Workers
  <2> QED BY <2>1, <2>2 DEF DrainInv, mail
<1>6. ASSUME NEW w \in Workers, ACK(w) PROVE DrainInv'
  <2>1. /\ cur' = cur \ {wack[w]} /\ \A x \in Workers : x # w => wuid'[x] = wuid[x]
        /\ UNCHANGED <<bpc, todo, rkey, parsed>>
    BY <1>0, <1>6 DEF ACK, TypeOK
  <2>2. /\ mail(wuid[w]) \in parsed
        /\ wack[w] # None => mail(wack[w]) \in parsed
    BY <1>0, <1>6 DEF ACK, HandInv
  <2>3. bpc = "send" => rkey \in UID
    BY <1>0 DEF HandInv
  <2>4. bpc' = "send" /\ rkey' \notin cur' => mail(rkey)' \in parsed'
    BY <1>0, <2>1, <2>2, <2>3 DEF DrainInv, mail
  <2>5. ASSUME NEW u \in cur', Out(u) PROVE Out(u)'
    <3>1. ASSUME NEW x \in Remote, wuid[x] = u PROVE mail(u) \in parsed \/ wuid'[x] = u
      BY <2>1, <2>2, <3>1 DEF Workers
    <3> QED BY <2>1, <2>5, <3>1 DEF mail
  <2> QED BY <2>1, <2>4, <2>5 DEF DrainInv
<1>7. ASSUME NEW w \in Workers, Die(w) PROVE DrainInv'
  <2>1. UNCHANGED <<cur, bpc, todo, rkey, parsed>> /\ ~Draining
    BY <1>0, <1>7 DEF Die, CtxDone
  <2> QED BY <1>a, <2>1
<1>8. ASSUME NEW u \in cur, RePush(u) PROVE DrainInv'
  BY <1>8 DEF RePush, DrainInv, mail
<1>9. CASE RePushSend \/ RePushDelete \/ RePushStop
  BY <1>c, <1>9 DEF RePushSend, RePushDelete, RePushStop
<1>10. CASE DrainStart
  BY <1>10 DEF DrainStart, DrainInv, mail
<1>11. ASSUME NEW u \in todo, Drain(u) PROVE DrainInv'
  <2>1. /\ cur' = cur \ {u} /\ todo' = todo \ {u} /\ UNCHANGED <<parsed, wuid>>
        /\ Draining /\ bpc' # "send"
    BY <1>11 DEF Drain
  <2> QED BY <2>1 DEF DrainInv, mail
<1>12. CASE DrainSend \/ DrainReturn
  BY <1>12 DEF DrainSend, DrainReturn, DrainInv, mail
<1>13. CASE ForwardRecv \/ ForwardStamp \/ ForwardStore \/ ForwardFail \/ ForwardReturn
  BY <1>b, <1>13 DEF ForwardRecv, ForwardStamp, ForwardStore, ForwardFail, ForwardReturn
<1>14. CASE StopParser \/ StopCollector \/ Close \/ UNCHANGED vars
  BY <1>b, <1>14 DEF StopParser, StopCollector, Close, vars
<1>15. CASE Restart \/ Crash BY <1>c, <1>15 DEF Restart, Crash, Boot
<1> QED
  BY <1>1, <1>2, <1>3, <1>4, <1>5, <1>6, <1>7, <1>8, <1>9, <1>10, <1>11, <1>12, <1>13,
     <1>14, <1>15 DEF Next

(* Until the process ends, a mail that was accepted and not parsed is
   somewhere. *)
LEMMA KeptStep ==
  ASSUME IInv, WaitInv, DrainInv, KeptInv, FirstRun, [Next]_vars, FirstRun'
  PROVE  KeptInv'
<1> USE DEF storeVars, condVars, workerVars, baseVars, fwdVars
<1>0. TypeOK /\ HandInv /\ TroubleInv BY DEF IInv
<1>a. ASSUME UNCHANGED intake, parsed \subseteq parsed',
             \A m \in Mails : m \notin parsed /\ Places(m) # {} => Places(m)' # {}
      PROVE  KeptInv'
  BY <1>a DEF KeptInv, Accepted
<1>1. ASSUME NEW m \in Mails, IntakeStore(m) PROVE KeptInv'
  <2> DEFINE u == <<m, 1>>
  <2>1. mail(u) = m BY DEF mail
  <2>2. Renamed(u) BY <1>1 DEF IntakeStore
  <2> HIDE DEF u
  <2>3. disk' = disk \cup {u} BY <2>2 DEF Renamed
  <2>4. AtDisk(m)' # {}
    <3>1. <<"disk", u>> \in AtDisk(m)' BY <2>1, <2>3 DEF AtDisk, mail
    <3> QED BY <3>1
  <2>5. ASSUME NEW n \in Mails PROVE Places(n) \subseteq Places(n)'
    <3>1. UNCHANGED <<AtGet(n), AtAdd(n), AtCur(n), AtBase(n), AtHand(n), AtForward(n)>>
      BY <1>1 DEF IntakeStore, AtGet, AtAdd, AtCur, AtBase, AtHand, AtForward, Reclaimed, mail
    <3>2. AtDisk(n) \subseteq AtDisk(n)' BY <2>3 DEF AtDisk, mail
    <3> QED BY <3>1, <3>2, Kinds, KindsNext
  <2>6. /\ \A n \in Mails : n # m => intake'[n] = intake[n]
        /\ UNCHANGED parsed
    BY <1>0, <1>1 DEF IntakeStore, TypeOK
  <2> QED BY <2>4, <2>5, <2>6, KindsNext DEF KeptInv, Accepted
<1>2. CASE \E m \in Mails : IntakeFail(m) BY <1>2 DEF IntakeFail, Fault, FirstRun
<1>3. CASE Watch
  <2>1. \A m \in Mails : Places(m)' = Places(m) BY <1>3, WatchSame
  <2> QED BY <1>a, <1>3, <2>1 DEF Watch
<1>4. ASSUME NEW w \in Workers,
             \/ Get(w) \/ Look(w) \/ Transfer(w) \/ Checked(w) \/ GetCanceled(w)
             \/ Reply(w) \/ Parse(w) \/ Leave(w) \/ Die(w)
      PROVE  KeptInv'
  <2>1. \A m \in Mails : Places(m)' = Places(m) BY <1>4, WorkerSame
  <2>2. UNCHANGED intake /\ parsed \subseteq parsed'
    BY <1>4 DEF Get, Look, Transfer, Checked, GetCanceled, Reply, Parse, Leave, Die
  <2> QED BY <1>a, <2>1, <2>2
<1>5. ASSUME NEW w \in Workers, Remove(w) PROVE KeptInv'
  <2>1. ASSUME NEW m \in Mails, Places(m) # {} PROVE Places(m)' # {}
    <3>1. CASE m = mail(gfile[w])
      <4>1. <<"get", w>> \in AtGet(m)' BY <1>5, <3>1, RemoveMoves
      <4> QED BY <4>1, KindsNext
    <3>2. CASE m # mail(gfile[w])
      <4>1. <<"disk", gfile[w]>> \notin AtDisk(m) BY <3>2 DEF AtDisk
      <4> QED BY <1>5, <2>1, <3>2, <4>1, RemoveMoves, Kinds, KindsNext
    <3> QED BY <3>1, <3>2
  <2> QED BY <1>5, <1>a, <2>1 DEF Remove
<1>6. ASSUME NEW w \in Workers, GetReturn(w) PROVE KeptInv'
  <2>1. ASSUME NEW m \in Mails, Places(m) # {} PROVE Places(m)' # {}
    <3>1. CASE <<"get", w>> \in AtGet(m)
      <4>1. <<"add", w>> \in AtAdd(m)' BY <1>6, <3>1, GetReturnMoves
      <4> QED BY <4>1, KindsNext
    <3>2. CASE <<"get", w>> \notin AtGet(m)
      <4>1. AtGet(m)' = AtGet(m) /\ AtAdd(m)' = AtAdd(m) BY <1>6, <3>2, GetReturnMoves
      <4> QED BY <1>6, <2>1, <4>1, GetReturnMoves, Kinds, KindsNext
    <3> QED BY <3>1, <3>2
  <2> QED BY <1>6, <1>a, <2>1 DEF GetReturn
<1>7. ASSUME NEW w \in Workers, NextRequest(w) PROVE KeptInv'
  BY <1>7 DEF NextRequest, WaitInv
<1>8. ASSUME NEW w \in Workers, Add(w) PROVE KeptInv'
  <2>1. ASSUME NEW m \in Mails, Places(m) # {} PROVE Places(m)' # {}
    <3>1. CASE m = mail(wuid[w])
      <4>1. <<"cur", wuid[w]>> \in AtCur(m)' BY <1>8, <3>1, AddMoves
      <4> QED BY <4>1, KindsNext
    <3>2. CASE m # mail(wuid[w])
      <4>1. <<"add", w>> \notin AtAdd(m) BY <3>2 DEF AtAdd
      <4> QED BY <1>8, <2>1, <3>2, <4>1, AddMoves, Kinds, KindsNext
    <3> QED BY <3>1, <3>2
  <2> QED BY <1>8, <1>a, <2>1 DEF Add
<1>9. ASSUME NEW w \in Workers, ACK(w) PROVE KeptInv'
  <2>1. \A m \in Mails : m \notin parsed => Places(m)' = Places(m)
    BY <1>9, AckMoves
  <2> QED BY <1>9, <1>a, <2>1 DEF ACK
<1>10. ASSUME (\E u \in cur : RePush(u)) \/ (\E u \in todo : Drain(u)) \/ RePushDelete
              \/ DrainStart \/ DrainReturn
       PROVE  KeptInv'
  <2>1. UNCHANGED <<intake, parsed, wpc>>
    BY <1>10 DEF RePush, Drain, RePushDelete, DrainStart, DrainReturn
  <2>2. ~(\E w \in Workers : ACK(w))
    BY <1>0, <2>1 DEF ACK, TypeOK
  <2>3. ~RePushStop
    BY <1>10 DEF RePush, Drain, RePushDelete, DrainStart, DrainReturn, RePushStop
  <2>4. \A m \in Mails :
          /\ AtCur(m)' \cup AtHand(m)' = AtCur(m) \cup AtHand(m)
          /\ UNCHANGED <<AtDisk(m), AtGet(m), AtAdd(m), AtBase(m), AtForward(m)>>
    BY <1>10, <2>2, <2>3, CurMoves
  <2>5. \A m \in Mails : Places(m)' = Places(m)
    BY <2>4, Kinds, KindsNext
  <2> QED BY <1>a, <2>1, <2>5
<1>11. CASE RePushStop
  <2>1. ASSUME NEW m \in Mails, m \notin parsed, Places(m) # {} PROVE Places(m)' # {}
    <3>1. UNCHANGED <<AtDisk(m), AtGet(m), AtAdd(m), AtBase(m), AtForward(m)>>
      BY <1>11, CurMoves
    <3>2. AtCur(m) \subseteq AtCur(m)'
      BY <1>11 DEF RePushStop, AtCur, Reclaimed, mail
    <3>3. AtHand(m) \subseteq AtCur(m)'
      <4> SUFFICES ASSUME mail(rkey) = m PROVE <<"cur", rkey>> \in AtCur(m)'
        BY DEF AtHand
      <4>1. rkey \in cur /\ bpc = "send" BY <1>11, <2>1 DEF RePushStop, DrainInv
      <4> QED BY <1>11, <4>1 DEF RePushStop, AtCur, Reclaimed, mail
    <3> QED BY <2>1, <3>1, <3>2, <3>3, Kinds, KindsNext
  <2> QED BY <1>11, <1>a, <2>1 DEF RePushStop
<1>12. CASE RePushSend \/ DrainSend
  <2>1. ASSUME NEW m \in Mails, Places(m) # {} PROVE Places(m)' # {}
    <3>1. CASE m = mail(rkey)
      <4>1. AtBase(m)' # {} BY <1>12, <3>1, SendMoves
      <4> QED BY <4>1, KindsNext
    <3>2. CASE m # mail(rkey)
      BY <1>12, <2>1, <3>2, SendMoves, Kinds, KindsNext
    <3> QED BY <3>1, <3>2
  <2> QED BY <1>12, <1>a, <2>1 DEF RePushSend, DrainSend
<1>13. CASE ForwardRecv
  <2>1. ASSUME NEW m \in Mails, Places(m) # {} PROVE Places(m)' # {}
    <3>1. /\ AtBase(m) # {} => AtBase(m)' \cup AtForward(m)' # {} /\ AtForward(m) = {}
          /\ UNCHANGED <<AtDisk(m), AtGet(m), AtAdd(m), AtCur(m), AtHand(m)>>
          /\ AtForward(m) = {}
      BY <1>13, RecvMoves
    <3> QED BY <2>1, <3>1, Kinds, KindsNext
  <2> QED BY <1>13, <1>a, <2>1 DEF ForwardRecv
<1>14. CASE ForwardStore
  <2>1. ASSUME NEW m \in Mails, Places(m) # {} PROVE Places(m)' # {}
    <3>1. CASE m = mail(fobj)
      <4>1. AtDisk(m)' # {} BY <1>14, <3>1, StoreMoves
      <4> QED BY <4>1, KindsNext
    <3>2. CASE m # mail(fobj)
      BY <1>14, <2>1, <3>2, StoreMoves, Kinds, KindsNext
    <3> QED BY <3>1, <3>2
  <2> QED BY <1>14, <1>a, <2>1 DEF ForwardStore
<1>15. CASE ForwardFail BY <1>15 DEF ForwardFail, Fault, FirstRun
<1>16. CASE ForwardStamp \/ ForwardReturn
  <2>1. UNCHANGED <<disk, gpc, gfile, wpc, wuid, cur, baseCh, bpc, rkey, fobj, intake, parsed>>
        /\ (fpc' \in {"stamp", "store"} <=> fpc \in {"stamp", "store"})
    BY <1>16 DEF ForwardStamp, ForwardReturn
  <2>2. ASSUME NEW m \in Mails
        PROVE  UNCHANGED <<AtDisk(m), AtGet(m), AtAdd(m), AtCur(m), AtBase(m), AtHand(m),
                           AtForward(m)>>
    BY <2>1 DEF AtDisk, AtGet, AtAdd, AtCur, AtBase, AtHand, AtForward, Reclaimed, mail
  <2>3. \A m \in Mails : Places(m)' = Places(m)
    BY <2>2, Kinds, KindsNext
  <2> QED BY <1>a, <2>1, <2>3
<1>17. CASE StopParser \/ StopCollector \/ Close \/ UNCHANGED vars
  <2>1. \A m \in Mails : Places(m)' = Places(m)
    BY <1>17, SamePlaces DEF StopParser, StopCollector, Close, vars
  <2> QED BY <1>17, <1>a, <2>1 DEF StopParser, StopCollector, Close, vars
<1>18. CASE Crash BY <1>18 DEF Crash, Fault, FirstRun
<1>19. CASE Restart BY <1>0, <1>19 DEF Restart, Boot, FirstRun, TroubleInv
<1> QED
  BY <1>1, <1>2, <1>3, <1>4, <1>5, <1>6, <1>7, <1>8, <1>9, <1>10, <1>11, <1>12, <1>13,
     <1>14, <1>15, <1>16, <1>17, <1>18, <1>19 DEF Next

(* After an orderly stop every mail nobody has parsed is a file again, but for
   one that a request, or a Get whose caller had left, has in hand. *)
THEOREM CleanStop == Spec => []CleanStopKeepsAll
<1>1. Init => KeepInv
  <2> SUFFICES ASSUME Init PROVE KeepInv
    OBVIOUS
  <2>1. IdleInv /\ WaitInv /\ StopInv /\ DrainInv
    BY DEF Init, Empty, IdleInv, WaitInv, StopInv, DrainInv, CtxDone
  <2>2. KeptInv BY DEF Init, KeptInv, Accepted
  <2> QED BY <2>1, <2>2 DEF KeepInv
<1>2. IInv /\ KeepInv /\ [Next]_vars => KeepInv'
  <2> SUFFICES ASSUME IInv, KeepInv, [Next]_vars PROVE KeepInv'
    OBVIOUS
  <2>1. IdleInv' BY IdleStep DEF KeepInv
  <2>2. ASSUME FirstRun' PROVE WaitInv' /\ StopInv' /\ DrainInv' /\ KeptInv'
    <3>1. FirstRun BY <2>2, FirstRunBefore
    <3> QED BY <2>2, <3>1, WaitStep, StopStep, DrainStep, KeptStep DEF KeepInv
  <2> QED BY <2>1, <2>2 DEF KeepInv
<1>3. IInv /\ KeepInv => CleanStopKeepsAll
  <2> SUFFICES ASSUME IInv, KeepInv, phase = "closed", faults \subseteq {"stop", "die"},
                      NEW m \in Mails, Accepted(m), m \notin parsed
               PROVE  \/ OnDisk(m)
                      \/ \E w \in Workers : <<"get", w>> \in Places(m)
                      \/ \E w \in Remote : wuid[w] # None /\ mail(wuid[w]) = m
    BY DEF CleanStopKeepsAll
  <2>1. StopInv /\ DrainInv /\ KeptInv BY DEF KeepInv, FirstRun
  <2>2. /\ fpc = "returned" /\ bpc = "closed" /\ baseCh = <<>> /\ todo = {}
        /\ \A w \in Local : wpc[w] = "left"
    BY <2>1 DEF StopInv, CtxDone
  <2>3. AtBase(m) = {} /\ AtHand(m) = {} /\ AtForward(m) = {}
    BY <2>2 DEF AtBase, AtHand, AtForward
  <2>4. AtDisk(m) \cup AtGet(m) \cup AtAdd(m) \cup AtCur(m) # {}
    BY <2>1, <2>3, Kinds DEF KeptInv
  <2>5. CASE AtDisk(m) # {} BY <2>5, WhereIs
  <2>6. CASE AtGet(m) # {}
    <3>1. PICK w \in Workers : <<"get", w>> \in AtGet(m) BY <2>6 DEF AtGet
    <3> QED BY <3>1, Kinds
  <2>7. CASE AtAdd(m) # {}
    <3>1. PICK w \in Workers : wpc[w] = "add" /\ mail(wuid[w]) = m BY <2>7 DEF AtAdd
    <3>2. w \in Remote BY <2>2, <3>1 DEF Workers
    <3>3. wuid[w] # None
      BY <3>1, MailsAssumption DEF IInv, HandInv, InHands, UID
    <3> QED BY <3>1, <3>2, <3>3
  <2>8. CASE AtCur(m) # {}
    <3>1. PICK u \in cur : mail(u) = m BY <2>8 DEF AtCur
    <3>2. PICK w \in Remote : wuid[w] = u BY <2>1, <2>2, <3>1 DEF DrainInv
    <3>3. u # None
      BY MailsAssumption DEF IInv, TypeOK, UID
    <3> QED BY <3>1, <3>2, <3>3
  <2> QED BY <2>4, <2>5, <2>6, <2>7, <2>8
<1> QED BY <1>1, <1>2, <1>3, Inductive, PTL DEF Spec
=============================================================================
