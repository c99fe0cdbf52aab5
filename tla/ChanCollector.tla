---------------------------- MODULE ChanCollector ----------------------------
(***************************************************************************)
(* The in-memory collector (collectors/channel.go, collectors/base.go) with *)
(* the goroutines that use it: the intake handlers that Push, the parser's  *)
(* workers and the remote workers behind the HTTP master that Pull and ACK, *)
(* the base goroutine that takes back what nobody acknowledged within a     *)
(* minute, the goroutine of ChanCollector.Start that pushes it again, and   *)
(* the one that mints ULIDs (utils/ulid.go).                                *)
(*                                                                          *)
(* Mails are pointers shared by all of them, so the UID field of a mail is  *)
(* one piece of state, uid[m], that Push rewrites.  The key of a mail in    *)
(* Cur is the value that field had when the mail was pulled.                *)
(***************************************************************************)
EXTENDS Integers, Sequences, Functions

CONSTANTS Mails,      \* the mails the intake services receive
          Patient,    \* those whose handler pushes with context.Background()
          Local,      \* the workers of parser.Start
          Remote,     \* the workers served by /worker/work
          Size,       \* the capacity of both channels
          Minute,     \* the acknowledgment delay, in ticks of the clock
          UIDs,       \* bound: as many ULIDs as may be referenced at once
          NoUID,      \* the zero ULID, also what a torn read is worth
          MaxDeaths,  \* bound: how often a remote worker may disappear
          Stops,      \* bound: whether the process is ever stopped
          None

Workers == Local \cup Remote

ASSUME MailsAssumption == /\ None \notin Mails
                          /\ Patient \subseteq Mails
ASSUME UIDsAssumption == NoUID \notin UIDs
ASSUME WorkersAssumption == Local \cap Remote = {}
ASSUME BoundsAssumption == /\ Size \in Nat \ {0}
                           /\ Minute \in Nat \ {0}
                           /\ MaxDeaths \in Nat
                           /\ Stops \in BOOLEAN

VARIABLES
  minted,     \* the ULID the generator goroutine offers, or NoUID
  uid,        \* the UID field of each mail
  age,        \* age of each ULID, counted up to Minute
  timer,      \* time since the base goroutine armed time.After
  intake,     \* where each mail's intake handler is
  ch,         \* ChanCollector.ch
  chClosed,   \* Close has closed it
  cur,        \* BaseCollector.Cur
  baseCh,     \* BaseCollector.Ch
  bpc,        \* where the base goroutine is
  todo,       \* the keys its Range has still to visit
  rkey, rmail,\* the entry its callback is working on
  fpc, fmail, \* where the goroutine of ChanCollector.Start is, and its mail
  wpc, wmail, wuid,  \* the workers: position, mail, UID to acknowledge
  deaths,
  parsed,     \* the mails some worker is done with (history)
  phase       \* "up", "stopping" (parser and servers), "done" (collector)

clockVars == <<age, timer>>
baseVars == <<bpc, todo, rkey, rmail>>
fwdVars == <<fpc, fmail>>
workerVars == <<wpc, wmail, wuid, deaths, parsed>>
vars == <<minted, uid, clockVars, intake, ch, chClosed, cur, baseCh, baseVars,
          fwdVars, workerVars, phase>>

TypeOK ==
  /\ minted \in UIDs \cup {NoUID}
  /\ uid \in [Mails -> UIDs \cup {NoUID}]
  /\ age \in [UIDs -> 0..Minute]
  /\ timer \in 0..Minute
  /\ intake \in [Mails -> {"new", "sending", "accepted", "refused", "panic"}]
  /\ ch \in Seq(Mails) /\ Len(ch) <= Size
  /\ chClosed \in BOOLEAN
  /\ cur \in [UIDs -> Mails \cup {None}]
  /\ baseCh \in Seq(Mails) /\ Len(baseCh) <= Size
  /\ bpc \in {"timer", "range", "send", "delete", "drain", "drainSend", "closed"}
  /\ todo \subseteq UIDs
  /\ rkey \in UIDs \cup {NoUID}
  /\ rmail \in Mails \cup {None}
  /\ bpc \in {"send", "delete"} => rkey \in UIDs
  /\ bpc \in {"send", "delete", "drainSend"} => rmail \in Mails
  /\ fpc \in {"recv", "stamp", "push", "returned"}
  /\ fmail \in Mails \cup {None}
  /\ fpc \in {"stamp", "push"} => fmail \in Mails
  /\ wpc \in [Workers -> {"idle", "add", "reply", "parse", "ack", "gone"}]
  /\ wmail \in [Workers -> Mails \cup {None}]
  /\ \A w \in Workers : wpc[w] \notin {"idle", "gone"} => wmail[w] \in Mails
  /\ wuid \in [Workers -> UIDs \cup {NoUID}]
  /\ deaths \in 0..MaxDeaths
  /\ parsed \subseteq Mails
  /\ phase \in {"up", "stopping", "done"}

Init ==
  /\ minted = NoUID /\ uid = [m \in Mails |-> NoUID]
  /\ age = [u \in UIDs |-> 0] /\ timer = 0
  /\ intake = [m \in Mails |-> "new"]
  /\ ch = <<>> /\ chClosed = FALSE
  /\ cur = [u \in UIDs |-> None]
  /\ baseCh = <<>>
  /\ bpc = "timer" /\ todo = {} /\ rkey = NoUID /\ rmail = None
  /\ fpc = "recv" /\ fmail = None
  /\ wpc = [w \in Workers |-> "idle"]
  /\ wmail = [w \in Workers |-> None]
  /\ wuid = [w \in Workers |-> NoUID]
  /\ deaths = 0 /\ parsed = {}
  /\ phase = "up"

CtxDone == phase = "done"
Parked(u) == cur[u] # None              \* sync.Map: u is a key of Cur
Delete(u) == [v \in UIDs |-> IF v = u THEN None ELSE cur[v]]
Store(u, m) == [v \in UIDs |-> IF v = u THEN m ELSE cur[v]]

(***************************************************************************)
(* The ULID generator.  The ULID is made, with its timestamp, before the    *)
(* send on the unbuffered channel, hence before anybody asks for it.  Names *)
(* nothing refers to any more stand for the ULIDs never seen before.        *)
(***************************************************************************)
Referenced(u) == \/ u = minted \/ Parked(u)
                 \/ u \in todo \cup {rkey} \cup Range(uid) \cup Range(wuid)
Free == {u \in UIDs : ~Referenced(u)}

Mint == /\ minted = NoUID
        /\ \E u \in Free : minted' = u
        /\ age' = [u \in UIDs |-> IF u \in Free THEN 0 ELSE age[u]]
        /\ UNCHANGED <<uid, timer, intake, ch, chClosed, cur, baseCh, baseVars,
                       fwdVars, workerVars, phase>>

\* NewULID, assigned to the UID field of m
Stamp(m) == /\ minted # NoUID
            /\ uid' = [uid EXCEPT ![m] = minted]
            /\ minted' = NoUID

(* What a goroutine reads in the UID field of m: while the forwarding       *)
(* goroutine writes it without a lock, possibly half of each value, which   *)
(* names no mail.                                                           *)
Readings(m) == {uid[m]} \cup (IF fpc = "stamp" /\ fmail = m THEN {NoUID} ELSE {})

Older(n) == IF n < Minute THEN n + 1 ELSE n

Tick == /\ timer < Minute \/ \E u \in UIDs \ Free : age[u] < Minute
        /\ age' = [u \in UIDs |-> IF u \in Free THEN 0 ELSE Older(age[u])]
        /\ timer' = Older(timer)
        /\ UNCHANGED <<minted, uid, intake, ch, chClosed, cur, baseCh, baseVars,
                       fwdVars, workerVars, phase>>
-----------------------------------------------------------------------------
(* An intake handler: CollectAndForward, then ChanCollector.Push.           *)

IntakeStamp(m) == /\ intake[m] = "new"
                  /\ Stamp(m)
                  /\ intake' = [intake EXCEPT ![m] = "sending"]
                  /\ UNCHANGED <<clockVars, ch, chClosed, cur, baseCh, baseVars,
                                 fwdVars, workerVars, phase>>

IntakeSend(m) == /\ intake[m] = "sending" /\ ~chClosed
                 /\ Len(ch) < Size
                 /\ ch' = Append(ch, m)
                 /\ intake' = [intake EXCEPT ![m] = "accepted"]
                 /\ UNCHANGED <<minted, uid, clockVars, chClosed, cur, baseCh,
                                baseVars, fwdVars, workerVars, phase>>

\* Mutant: the handler that has given up leaves the send behind.
MutIntakeCancel(m) == /\ intake[m] = "sending" /\ m \notin Patient
                      /\ ~chClosed /\ Len(ch) < Size
                      /\ ch' = Append(ch, m)
                      /\ intake' = [intake EXCEPT ![m] = "refused"]
                      /\ UNCHANGED <<minted, uid, clockVars, chClosed, cur, baseCh,
                                     baseVars, fwdVars, workerVars, phase>>

\* The client of an impatient handler goes away: the select sees stop.
IntakeCancel(m) == /\ intake[m] = "sending" /\ m \notin Patient
                   /\ intake' = [intake EXCEPT ![m] = "refused"]
                   /\ UNCHANGED <<minted, uid, clockVars, ch, chClosed, cur, baseCh,
                                  baseVars, fwdVars, workerVars, phase>>

\* A handler still in its select when Close closes the channel.
IntakePanic(m) == /\ intake[m] = "sending" /\ chClosed
                  /\ intake' = [intake EXCEPT ![m] = "panic"]
                  /\ UNCHANGED <<minted, uid, clockVars, ch, chClosed, cur, baseCh,
                                 baseVars, fwdVars, workerVars, phase>>
-----------------------------------------------------------------------------
(* BaseCollector.Start and RePush.                                          *)

Overdue(u) == Parked(u) /\ age[u] = Minute

\* Mutant: strictly more than a minute on a clock that stops there.
MutRePush == /\ bpc = "timer" /\ timer = Minute
             /\ bpc' = "range"
             /\ todo' = {u \in UIDs : Parked(u) /\ age[u] > Minute}
             /\ UNCHANGED <<minted, uid, clockVars, intake, ch, chClosed, cur, baseCh,
                            rkey, rmail, fwdVars, workerVars, phase>>

RePush == /\ bpc = "timer" /\ timer = Minute
          /\ bpc' = "range"
          /\ todo' = {u \in UIDs : Overdue(u)}
          /\ UNCHANGED <<minted, uid, clockVars, intake, ch, chClosed, cur, baseCh,
                         rkey, rmail, fwdVars, workerVars, phase>>

\* Range loads the value of the next key, unless it was deleted meanwhile.
Visit(u) == /\ bpc = "range" /\ u \in todo
            /\ todo' = todo \ {u}
            /\ IF Parked(u)
                 THEN bpc' = "send" /\ rkey' = u /\ rmail' = cur[u]
                 ELSE UNCHANGED <<bpc, rkey, rmail>>
            /\ UNCHANGED <<minted, uid, clockVars, intake, ch, chClosed, cur, baseCh,
                           fwdVars, workerVars, phase>>

RePushSend == /\ bpc = "send" /\ Len(baseCh) < Size
              /\ baseCh' = Append(baseCh, rmail)
              /\ bpc' = "delete"
              /\ UNCHANGED <<minted, uid, clockVars, intake, ch, chClosed, cur, todo,
                             rkey, rmail, fwdVars, workerVars, phase>>

\* Mutant: the entry pushed back stays in Cur.
MutRePushDelete == /\ bpc = "delete"
                   /\ bpc' = "range" /\ rkey' = NoUID /\ rmail' = None
                   /\ UNCHANGED <<minted, uid, clockVars, intake, ch, chClosed, cur,
                                  baseCh, todo, fwdVars, workerVars, phase>>

RePushDelete == /\ bpc = "delete"
                /\ cur' = Delete(rkey)
                /\ bpc' = "range" /\ rkey' = NoUID /\ rmail' = None
                /\ UNCHANGED <<minted, uid, clockVars, intake, ch, chClosed, baseCh,
                               todo, fwdVars, workerVars, phase>>

RePushStop == /\ bpc = "send" /\ CtxDone
              /\ bpc' = "timer" /\ timer' = 0
              /\ todo' = {} /\ rkey' = NoUID /\ rmail' = None
              /\ UNCHANGED <<minted, uid, age, intake, ch, chClosed, cur, baseCh,
                             fwdVars, workerVars, phase>>

RePushReturn == /\ bpc = "range" /\ todo = {}
                /\ bpc' = "timer" /\ timer' = 0
                /\ UNCHANGED <<minted, uid, age, intake, ch, chClosed, cur, baseCh,
                               todo, rkey, rmail, fwdVars, workerVars, phase>>

DrainStart == /\ bpc = "timer" /\ CtxDone
              /\ bpc' = "drain" /\ todo' = {u \in UIDs : Parked(u)}
              /\ UNCHANGED <<minted, uid, clockVars, intake, ch, chClosed, cur, baseCh,
                             rkey, rmail, fwdVars, workerVars, phase>>

\* Mutant: the entry drained stays in Cur.
MutDrain(u) == /\ bpc = "drain" /\ u \in todo
               /\ todo' = todo \ {u}
               /\ IF Parked(u)
                    THEN bpc' = "drainSend" /\ rmail' = cur[u]
                    ELSE UNCHANGED <<bpc, rmail>>
               /\ UNCHANGED <<minted, uid, clockVars, intake, ch, chClosed, cur,
                              baseCh, rkey, fwdVars, workerVars, phase>>

Drain(u) == /\ bpc = "drain" /\ u \in todo
            /\ todo' = todo \ {u}
            /\ IF Parked(u)
                 THEN bpc' = "drainSend" /\ rmail' = cur[u] /\ cur' = Delete(u)
                 ELSE UNCHANGED <<bpc, rmail, cur>>
            /\ UNCHANGED <<minted, uid, clockVars, intake, ch, chClosed, baseCh,
                           rkey, fwdVars, workerVars, phase>>

DrainSend == /\ bpc = "drainSend" /\ Len(baseCh) < Size
             /\ baseCh' = Append(baseCh, rmail)
             /\ bpc' = "drain" /\ rmail' = None
             /\ UNCHANGED <<minted, uid, clockVars, intake, ch, chClosed, cur, todo,
                            rkey, fwdVars, workerVars, phase>>

DrainReturn == /\ bpc = "drain" /\ todo = {}
               /\ bpc' = "closed"
               /\ UNCHANGED <<minted, uid, clockVars, intake, ch, chClosed, cur, baseCh,
                              todo, rkey, rmail, fwdVars, workerVars, phase>>
-----------------------------------------------------------------------------
(* ChanCollector.Start: it pushes again whatever comes out of Base.Ch, and  *)
(* ignores the error of a Push its context has interrupted.                 *)

ForwardRecv == /\ fpc = "recv" /\ baseCh # <<>>
               /\ fpc' = "stamp" /\ fmail' = Head(baseCh)
               /\ baseCh' = Tail(baseCh)
               /\ UNCHANGED <<minted, uid, clockVars, intake, ch, chClosed, cur,
                              baseVars, workerVars, phase>>

\* Mutant: a mail pushed back keeps its UID.
MutForwardStamp == /\ fpc = "stamp" /\ minted # NoUID
                   /\ fpc' = "push"
                   /\ UNCHANGED <<minted, uid, clockVars, intake, ch, chClosed, cur,
                                  baseCh, baseVars, fmail, workerVars, phase>>

ForwardStamp == /\ fpc = "stamp"
                /\ Stamp(fmail)
                /\ fpc' = "push"
                /\ UNCHANGED <<clockVars, intake, ch, chClosed, cur, baseCh, baseVars,
                               fmail, workerVars, phase>>

\* Mutant: a Push that does not wait when the channel is full.
MutForwardSend == /\ fpc = "push"
                  /\ ch' = IF Len(ch) < Size THEN Append(ch, fmail) ELSE ch
                  /\ fpc' = "recv" /\ fmail' = None
                  /\ UNCHANGED <<minted, uid, clockVars, intake, chClosed, cur, baseCh,
                                 baseVars, workerVars, phase>>

ForwardSend == /\ fpc = "push" /\ Len(ch) < Size
               /\ ch' = Append(ch, fmail)
               /\ fpc' = "recv" /\ fmail' = None
               /\ UNCHANGED <<minted, uid, clockVars, intake, chClosed, cur, baseCh,
                              baseVars, workerVars, phase>>

\* Mutant: context.Background(), as in the intake handlers.
MutForwardDropNever == FALSE /\ UNCHANGED vars

ForwardDrop == /\ fpc = "push" /\ CtxDone
               /\ fpc' = "recv" /\ fmail' = None
               /\ UNCHANGED <<minted, uid, clockVars, intake, ch, chClosed, cur, baseCh,
                              baseVars, workerVars, phase>>

ForwardReturn == /\ fpc = "recv" /\ baseCh = <<>> /\ bpc = "closed"
                 /\ fpc' = "returned"
                 /\ UNCHANGED <<minted, uid, clockVars, intake, ch, chClosed, cur,
                                baseCh, baseVars, fmail, workerVars, phase>>

\* The fx hook calls Close once Start has returned.
Close == /\ fpc = "returned" /\ ~chClosed
         /\ chClosed' = TRUE
         /\ UNCHANGED <<minted, uid, clockVars, intake, ch, cur, baseCh, baseVars,
                        fwdVars, workerVars, phase>>
-----------------------------------------------------------------------------
(* The workers.  Pull takes the mail off the channel and only then files it *)
(* in Cur.  A remote worker is sent a copy, with the UID of that moment; a  *)
(* worker of this process reads the UID again when it acknowledges.         *)

PullRecv(w) == /\ wpc[w] = "idle" /\ ch # <<>>
               /\ wpc' = [wpc EXCEPT ![w] = "add"]
               /\ wmail' = [wmail EXCEPT ![w] = Head(ch)]
               /\ ch' = Tail(ch)
               /\ UNCHANGED <<minted, uid, clockVars, intake, chClosed, cur, baseCh,
                              baseVars, fwdVars, wuid, deaths, parsed, phase>>

PullStop(w) == /\ wpc[w] = "idle"
               /\ phase # "up" \/ (chClosed /\ ch = <<>>)
               /\ wpc' = [wpc EXCEPT ![w] = "gone"]
               /\ UNCHANGED <<minted, uid, clockVars, intake, ch, chClosed, cur, baseCh,
                              baseVars, fwdVars, wmail, wuid, deaths, parsed, phase>>

PullAdd(w) == /\ wpc[w] = "add"
              /\ cur' = Store(uid[wmail[w]], wmail[w])
              /\ wpc' = [wpc EXCEPT ![w] = IF w \in Local THEN "parse" ELSE "reply"]
              /\ UNCHANGED <<minted, uid, clockVars, intake, ch, chClosed, baseCh,
                             baseVars, fwdVars, wmail, wuid, deaths, parsed, phase>>

\* Mutant: acknowledged as soon as it is sent.
MutRemoteReply(w) == /\ wpc[w] = "reply"
                     /\ \E u \in Readings(wmail[w]) : wuid' = [wuid EXCEPT ![w] = u]
                     /\ wpc' = [wpc EXCEPT ![w] = "ack"]
                     /\ UNCHANGED <<minted, uid, clockVars, intake, ch, chClosed, cur,
                                    baseCh, baseVars, fwdVars, wmail, deaths, parsed,
                                    phase>>

RemoteReply(w) == /\ wpc[w] = "reply"
                  /\ \E u \in Readings(wmail[w]) : wuid' = [wuid EXCEPT ![w] = u]
                  /\ wpc' = [wpc EXCEPT ![w] = "parse"]
                  /\ UNCHANGED <<minted, uid, clockVars, intake, ch, chClosed, cur,
                                 baseCh, baseVars, fwdVars, wmail, deaths, parsed, phase>>

\* Parse, whether or not it fails, then the argument of ACK.
LocalParse(w) == /\ wpc[w] = "parse" /\ w \in Local
                 /\ \E u \in Readings(wmail[w]) : wuid' = [wuid EXCEPT ![w] = u]
                 /\ parsed' = parsed \cup {wmail[w]}
                 /\ wpc' = [wpc EXCEPT ![w] = "ack"]
                 /\ UNCHANGED <<minted, uid, clockVars, intake, ch, chClosed, cur,
                                baseCh, baseVars, fwdVars, wmail, deaths, phase>>

RemoteParse(w) == /\ wpc[w] = "parse" /\ w \in Remote
                  /\ parsed' = parsed \cup {wmail[w]}
                  /\ wpc' = [wpc EXCEPT ![w] = "ack"]
                  /\ UNCHANGED <<minted, uid, clockVars, intake, ch, chClosed, cur,
                                 baseCh, baseVars, fwdVars, wmail, wuid, deaths, phase>>

ACK(w) == /\ wpc[w] = "ack"
          /\ cur' = Delete(wuid[w])
          /\ wpc' = [wpc EXCEPT ![w] = "idle"]
          /\ wmail' = [wmail EXCEPT ![w] = None]
          /\ wuid' = [wuid EXCEPT ![w] = NoUID]
          /\ UNCHANGED <<minted, uid, clockVars, intake, ch, chClosed, baseCh,
                         baseVars, fwdVars, deaths, parsed, phase>>

\* The client, its connection or its host disappears, and another one comes.
RemoteDies(w) == /\ w \in Remote /\ wpc[w] \in {"reply", "parse", "ack"}
                 /\ deaths < MaxDeaths
                 /\ deaths' = deaths + 1
                 /\ wpc' = [wpc EXCEPT ![w] = "idle"]
                 /\ wmail' = [wmail EXCEPT ![w] = None]
                 /\ wuid' = [wuid EXCEPT ![w] = NoUID]
                 /\ UNCHANGED <<minted, uid, clockVars, intake, ch, chClosed, cur,
                                baseCh, baseVars, fwdVars, parsed, phase>>
-----------------------------------------------------------------------------
(* fx stops the parser, then cancels the collector's context.               *)

StopParser == /\ phase = "up" /\ Stops
              /\ phase' = "stopping"
              /\ UNCHANGED <<minted, uid, clockVars, intake, ch, chClosed, cur, baseCh,
                             baseVars, fwdVars, workerVars>>

StopCollector == /\ phase = "stopping" /\ \A w \in Local : wpc[w] = "gone"
                 /\ phase' = "done"
                 /\ UNCHANGED <<minted, uid, clockVars, intake, ch, chClosed, cur, baseCh,
                                baseVars, fwdVars, workerVars>>

\* The process exits when the last service is closed.
Exited == chClosed /\ UNCHANGED vars

Next ==
  \/ Mint \/ Tick
  \/ \E m \in Mails : \/ IntakeStamp(m) \/ IntakeSend(m)
                      \/ IntakeCancel(m) \/ IntakePanic(m)
  \/ RePush \/ RePushSend \/ RePushDelete \/ RePushStop \/ RePushReturn
  \/ DrainStart \/ DrainSend \/ DrainReturn
  \/ \E u \in UIDs : Visit(u) \/ Drain(u)
  \/ ForwardRecv \/ ForwardStamp \/ ForwardSend \/ ForwardDrop \/ ForwardReturn
  \/ Close
  \/ \E w \in Workers : \/ PullRecv(w) \/ PullStop(w) \/ PullAdd(w)
                        \/ RemoteReply(w) \/ LocalParse(w) \/ RemoteParse(w)
                        \/ ACK(w) \/ RemoteDies(w)
  \/ StopParser \/ StopCollector
  \/ Exited

(* A goroutine that can run does run, and the clock advances.  Go queues    *)
(* the senders and the receivers waiting for a channel first come, first    *)
(* served, so none is passed over forever, and a select with several ready  *)
(* cases picks one at random.  Nothing obliges a client to leave, a remote  *)
(* worker to answer or the process to stop.                                 *)
BaseStep == \/ RePush \/ RePushSend \/ RePushDelete \/ RePushStop \/ RePushReturn
            \/ DrainStart \/ DrainSend \/ DrainReturn
            \/ \E u \in UIDs : Visit(u) \/ Drain(u)
ForwardStep == \/ ForwardRecv \/ ForwardStamp \/ ForwardSend \/ ForwardDrop
               \/ ForwardReturn \/ Close
LocalStep(w) == PullRecv(w) \/ PullStop(w) \/ PullAdd(w) \/ LocalParse(w) \/ ACK(w)

Fairness ==
  /\ WF_vars(Mint) /\ WF_vars(Tick)
  /\ WF_vars(BaseStep) /\ SF_vars(DrainStart)
  /\ SF_vars(ForwardStep)
  /\ \A m \in Mails : SF_vars(IntakeStamp(m) \/ IntakeSend(m))
  /\ \A w \in Local : SF_vars(LocalStep(w)) /\ SF_vars(PullStop(w))
  /\ \A w \in Remote : WF_vars(PullAdd(w) \/ RemoteReply(w))
  /\ WF_vars(StopCollector)

Spec == Init /\ [][Next]_vars /\ Fairness
-----------------------------------------------------------------------------
(* Where a mail is.  An entry of Cur whose mail has just gone back to       *)
(* Base.Ch no longer counts: RePush is about to delete it.                  *)
Reclaimed(u) == bpc = "delete" /\ u = rkey

InCur(m) == \E u \in UIDs : cur[u] = m /\ ~Reclaimed(u)
InHand(m) == \E w \in Workers : wpc[w] = "add" /\ wmail[w] = m
InForward(m) == fpc \in {"stamp", "push"} /\ fmail = m

Waiting(m) == \/ m \in Range(baseCh) \/ m \in Range(ch)
              \/ InForward(m) \/ InHand(m)
              \/ bpc = "drainSend" /\ rmail = m
Held(m) == InCur(m) \/ (bpc = "send" /\ rmail = m)
Accepted(m) == intake[m] = "accepted"

(* While the collector runs, a mail it has accepted can only disappear once *)
(* some worker has parsed it: it is in a channel, in the hands of one of    *)
(* the goroutines that move it, or in Cur.  The mail is moved in several    *)
(* steps by Pull (dequeue, Add) and by RePush (send, Delete).               *)
NothingLost ==
  ~CtxDone => \A m \in Mails : Accepted(m) => Waiting(m) \/ Held(m) \/ m \in parsed

(* A mail has one turn at a time: however slow the worker, however the      *)
(* acknowledgment and RePush cross, the mail is not queued twice, nor       *)
(* queued while it is filed in Cur.                                         *)
Turns(m) == {<<"base", i>> : i \in {j \in DOMAIN baseCh : baseCh[j] = m}}
       \cup {<<"ch", i>> : i \in {j \in DOMAIN ch : ch[j] = m}}
       \cup {<<"cur", u>> : u \in {v \in UIDs : cur[v] = m /\ ~Reclaimed(v)}}
       \cup {<<"hand", w>> : w \in {x \in Workers : wpc[x] = "add" /\ wmail[x] = m}}
       \cup (IF InForward(m) THEN {<<"forward", 0>>} ELSE {})
       \cup (IF bpc = "drainSend" /\ rmail = m THEN {<<"drain", 0>>} ELSE {})
OneTurn == \A m \in Mails : \A s, t \in Turns(m) : s = t

(* The key of an entry of Cur is the UID its mail bears now, although Push  *)
(* renews the UID of a mail a worker may still be parsing: an               *)
(* acknowledgment with the present UID finds the entry.                     *)
KeyIsCurrent == \A u \in UIDs : Parked(u) => uid[cur[u]] = u \/ Reclaimed(u)

(* No acknowledgment, late, repeated or crossed with a re-push, takes out   *)
(* of Cur a mail that nobody has parsed.                                    *)
OnlyParsedLeaveCur ==
  [][\A u \in UIDs : Parked(u) /\ ~Parked(u)' =>
        cur[u] \in parsed \/ Reclaimed(u) \/ CtxDone]_vars

(* Unless the service is stopped, every accepted mail is parsed, though a   *)
(* remote worker may leave with it.                                         *)
EventuallyParsed ==
  \A m \in Mails : Accepted(m) ~> (m \in parsed \/ phase # "up")

(* Once its context is done the collector stops: Range empties Cur, where   *)
(* mails are still leased, through two channels that fill up and that       *)
(* nobody reads any more.                                                   *)
ShutdownCompletes == CtxDone ~> chClosed

Queue == INSTANCE MailQueue WITH
  accepted <- {m \in Mails : Accepted(m)},
  waiting <- {m \in Mails : Accepted(m) /\ Waiting(m)},
  held <- {m \in Mails : Accepted(m) /\ Held(m)},
  open <- ~CtxDone

(* The collector implements the abstract at-least-once queue.               *)
RefinesMailQueue == Queue!Spec
-----------------------------------------------------------------------------
(* The inductive invariant behind NothingLost, KeyIsCurrent and             *)
(* OnlyParsedLeaveCur.  A mail has one place, which its intake handler      *)
(* holds until Push returns; the UID it bears is its own, and names it      *)
(* wherever it was copied: in Cur, by RePush and by the workers.            *)
NoRepeat(s) == \A i, j \in DOMAIN s : s[i] = s[j] => i = j

Count(p) == IF p THEN 1 ELSE 0
Places(m) == Count(~Accepted(m)) + Count(m \in Range(baseCh)) + Count(m \in Range(ch))
             + Count(InForward(m)) + Count(InHand(m))
             + Count(bpc = "drainSend" /\ rmail = m) + Count(Held(m))

OnePlace == /\ NoRepeat(baseCh) /\ NoRepeat(ch)
            /\ \A w, x \in Workers :
                 wpc[w] = "add" /\ wpc[x] = "add" /\ wmail[w] = wmail[x] => w = x
            /\ \A m \in Mails : Places(m) <= 1

OwnUID ==
  /\ \A m, n \in Mails : uid[m] = uid[n] /\ uid[m] # NoUID => m = n
  /\ \A m \in Mails : uid[m] = NoUID => intake[m] = "new"
  /\ minted # NoUID => /\ \A m \in Mails : uid[m] # minted
                       /\ \A w \in Workers : wuid[w] # minted
                       /\ minted # rkey /\ ~Parked(minted)

CopiedUID ==
  /\ \A w \in Workers : /\ wpc[w] \notin {"parse", "ack"} => wuid[w] = NoUID
                        /\ \A m \in Mails : uid[m] = wuid[w] /\ wuid[w] # NoUID
                                              => m = wmail[w]
  /\ \A w \in Workers : wpc[w] = "ack" => wmail[w] \in parsed
  /\ bpc = "send" => uid[rmail] = rkey /\ cur[rkey] \in {rmail, None}
  /\ bpc = "delete" => \A m \in Mails :
        uid[m] = rkey => m \in Range(baseCh) \/ (fpc = "stamp" /\ fmail = m)

DrainsWhenDone == bpc \in {"drain", "drainSend", "closed"} => CtxDone

PulledIsAccepted == \A w \in Workers : wmail[w] # None => Accepted(wmail[w])

IInv == /\ TypeOK /\ OnePlace /\ OwnUID /\ CopiedUID /\ KeyIsCurrent
        /\ NothingLost /\ DrainsWhenDone /\ PulledIsAccepted
=============================================================================
