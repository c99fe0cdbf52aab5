----------------------------- MODULE FSCollector -----------------------------
(***************************************************************************)
(* The collector on the file system (collectors/fs.go, filestore.go, with   *)
(* base.go), which survives the process.  A mail is a file of new/, named   *)
(* by its UID.  Pull starts a goroutine that takes the store's lock, waits  *)
(* on its condition variable while new/ is empty, decodes a file and        *)
(* removes it; the caller may stop waiting for that goroutine at any time,  *)
(* and the goroutine lives on.  A watcher of new/ signals the condition.    *)
(*                                                                          *)
(* The timing of RePush is left out (ChanCollector has it): any entry of    *)
(* Cur may be overdue.                                                      *)
(***************************************************************************)
EXTENDS Integers, Sequences, Functions

CONSTANTS Mails,
          Local,      \* the workers of parser.Start
          Remote,     \* the workers served by /worker/work
          Size,       \* the capacity of Base.Ch
          Faults,     \* bound: what may go wrong, once each
          MaxTurns,   \* bound: how many UIDs a mail is given but for shutdowns
          None

Workers == Local \cup Remote

ASSUME MailsAssumption == None \notin Mails \cup (Mails \X Nat) \cup Workers
ASSUME WorkersAssumption == Local \cap Remote = {}
ASSUME FaultsAssumption == Faults \subseteq {"crash", "stop", "leave", "die", "disk"}
ASSUME BoundsAssumption == Size \in Nat \ {0} /\ MaxTurns \in Nat \ {0}

(* The nth ULID that Push gives to m.  Each Pull decodes a new object: it is *)
(* named by the UID it was decoded with.                                     *)
UID == Mails \X Nat
mail(u) == u[1]

VARIABLES
  turn,      \* how many UIDs each mail has been given
  intake,    \* what Push answered to the intake handler of each mail
  disk,      \* the files of new/
  events,    \* Create events the watcher goroutine has not handled
  lock,      \* who holds FileStore.lock
  waiters,   \* the goroutines waiting on FileStore.cond, oldest first
  gpc, gfile,        \* the get goroutine of each worker, and the file it took
  wpc, wuid, wack,   \* the workers: position, object, UID to acknowledge
  gone,      \* the remote workers whose request's context is done
  cur,       \* the keys of BaseCollector.Cur
  baseCh,    \* BaseCollector.Ch
  bpc, todo, rkey,   \* the base goroutine
  fpc, fobj,         \* the goroutine of FSCollector.Start
  parsed,    \* the mails some worker is done with (history)
  phase,     \* "up", "stopping" (parser and servers), "done", "closed"
  faults     \* what has gone wrong

storeVars == <<turn, disk, events>>
condVars == <<lock, waiters, gpc, gfile>>
workerVars == <<wpc, wuid, wack, gone, parsed>>
baseVars == <<cur, bpc, todo, rkey>>
fwdVars == <<fpc, fobj>>
vars == <<storeVars, intake, condVars, workerVars, baseVars, baseCh, fwdVars,
          phase, faults>>

TypeOK ==
  /\ turn \in [Mails -> Nat]
  /\ intake \in [Mails -> {"new", "accepted", "refused"}]
  /\ disk \subseteq UID
  /\ events \in Nat
  /\ lock \in Workers \cup {None}
  /\ waiters \in Seq(Workers)
  /\ gpc \in [Workers -> {"none", "lock", "wait", "check", "remove", "done"}]
  /\ gfile \in [Workers -> UID \cup {None}]
  /\ wpc \in [Workers -> {"idle", "get", "left", "add", "reply", "parse", "ack"}]
  /\ wuid \in [Workers -> UID \cup {None}]
  /\ wack \in [Workers -> UID \cup {None}]
  /\ gone \subseteq Remote
  /\ cur \subseteq UID
  /\ baseCh \in Seq(UID) /\ Len(baseCh) <= Size
  /\ bpc \in {"timer", "send", "delete", "drain", "drainSend", "closed"}
  /\ todo \subseteq UID
  /\ rkey \in UID \cup {None}
  /\ fpc \in {"recv", "stamp", "store", "returned"}
  /\ fobj \in UID \cup {None}
  /\ parsed \subseteq Mails
  /\ phase \in {"up", "stopping", "done", "closed"}
  /\ faults \subseteq Faults

\* What a process starts with.
Empty == [w \in Workers |-> None]

Init ==
  /\ turn = [m \in Mails |-> 0] /\ intake = [m \in Mails |-> "new"]
  /\ disk = {} /\ events = 0
  /\ lock = None /\ waiters = <<>>
  /\ gpc = [w \in Workers |-> "none"] /\ gfile = Empty
  /\ wpc = [w \in Workers |-> "idle"] /\ wuid = Empty /\ wack = Empty
  /\ gone = {} /\ parsed = {}
  /\ cur = {} /\ baseCh = <<>> /\ bpc = "timer" /\ todo = {} /\ rkey = None
  /\ fpc = "recv" /\ fobj = None
  /\ phase = "up" /\ faults = {}

\* The same, with the files, the counters and the histories it finds.
Boot ==
  /\ events' = 0 /\ lock' = None /\ waiters' = <<>>
  /\ gpc' = [w \in Workers |-> "none"] /\ gfile' = Empty
  /\ wpc' = [w \in Workers |-> "idle"] /\ wuid' = Empty /\ wack' = Empty
  /\ gone' = {}
  /\ cur' = {} /\ baseCh' = <<>> /\ bpc' = "timer" /\ todo' = {} /\ rkey' = None
  /\ fpc' = "recv" /\ fobj' = None
  /\ phase' = "up"
  /\ UNCHANGED <<turn, disk, intake, parsed>>

Fault(f) == f \in Faults \ faults /\ faults' = faults \cup {f}
CtxDone == phase \in {"done", "closed"}

(* The context that PullCtx was given: the parser's, or the request's, which *)
(* is done when the client leaves or the server closes its connections.      *)
Stopped(w) == IF w \in Local THEN phase # "up" ELSE w \in gone

\* cond.Signal wakes the goroutine that has waited longest, if there is one.
Signal(pcs) == IF waiters = <<>> THEN gpc' = pcs /\ UNCHANGED waiters
               ELSE /\ waiters' = Tail(waiters)
                    /\ gpc' = [pcs EXCEPT ![Head(waiters)] = "lock"]
-----------------------------------------------------------------------------
(* FSCollector.Push for an intake handler: the file is written in tmp/ and   *)
(* then renamed, so that it appears complete or not at all.                  *)
Renamed(u) == /\ turn' = [turn EXCEPT ![mail(u)] = u[2]]
              /\ disk' = disk \cup {u}
              /\ events' = events + 1

IntakeStore(m) == /\ intake[m] = "new" /\ phase # "closed"
                  /\ Renamed(<<m, 1>>)
                  /\ intake' = [intake EXCEPT ![m] = "accepted"]
                  /\ UNCHANGED <<condVars, workerVars, baseVars, baseCh, fwdVars,
                                 phase, faults>>

IntakeFail(m) == /\ intake[m] = "new"
                 /\ Fault("disk")
                 /\ intake' = [intake EXCEPT ![m] = "refused"]
                 /\ UNCHANGED <<storeVars, condVars, workerVars, baseVars, baseCh,
                                fwdVars, phase>>

\* The watcher goroutine: a Signal under the lock for each Create event.
Watch == /\ events > 0 /\ lock = None /\ phase # "closed"
         /\ events' = events - 1
         /\ Signal(gpc)
         /\ UNCHANGED <<turn, disk, lock, gfile, intake, workerVars, baseVars, baseCh,
                        fwdVars, phase, faults>>
-----------------------------------------------------------------------------
(* FileStore.Get and the goroutine it starts.                               *)

Get(w) == /\ wpc[w] = "idle" /\ gpc[w] = "none" /\ phase # "closed"
          /\ w \in Remote => phase = "up"
          /\ wpc' = [wpc EXCEPT ![w] = "get"]
          /\ gpc' = [gpc EXCEPT ![w] = "lock"]
          /\ UNCHANGED <<storeVars, lock, waiters, gfile, intake, wuid, wack, gone,
                         parsed, baseVars, baseCh, fwdVars, phase, faults>>

\* Mutant: the directory is read, and a file decoded, without the lock.
MutLook(w) == /\ gpc[w] = "lock"
              /\ IF disk = {}
                   THEN /\ gpc' = [gpc EXCEPT ![w] = "wait"]
                        /\ waiters' = Append(waiters, w)
                        /\ UNCHANGED <<lock, gfile>>
                   ELSE /\ gpc' = [gpc EXCEPT ![w] = "check"]
                        /\ \E u \in disk : gfile' = [gfile EXCEPT ![w] = u]
                        /\ UNCHANGED <<lock, waiters>>
              /\ UNCHANGED <<storeVars, intake, workerVars, baseVars, baseCh, fwdVars,
                             phase, faults>>

\* Readdirnames(1) returns any of the files; Wait releases the lock.
Look(w) == /\ gpc[w] = "lock" /\ lock = None
           /\ IF disk = {}
                THEN /\ gpc' = [gpc EXCEPT ![w] = "wait"]
                     /\ waiters' = Append(waiters, w)
                     /\ UNCHANGED <<lock, gfile>>
                ELSE /\ gpc' = [gpc EXCEPT ![w] = "check"]
                     /\ lock' = w
                     /\ \E u \in disk : gfile' = [gfile EXCEPT ![w] = u]
                     /\ UNCHANGED waiters
           /\ UNCHANGED <<storeVars, intake, workerVars, baseVars, baseCh, fwdVars,
                          phase, faults>>

Ended(w) == [gpc EXCEPT ![w] = "done"]

\* Mutant: the signal is not passed on to another waiter.
MutTransfer(w) == /\ gpc[w] = "check" /\ Stopped(w)
                  /\ gpc' = Ended(w)
                  /\ gfile' = [gfile EXCEPT ![w] = None]
                  /\ lock' = None
                  /\ UNCHANGED <<storeVars, waiters, intake, workerVars, baseVars,
                                 baseCh, fwdVars, phase, faults>>

\* The client is already gone: leave the file to another waiter.
Transfer(w) == /\ gpc[w] = "check" /\ Stopped(w)
               /\ Signal(Ended(w))
               /\ gfile' = [gfile EXCEPT ![w] = None]
               /\ lock' = None
               /\ UNCHANGED <<storeVars, intake, workerVars, baseVars, baseCh, fwdVars,
                              phase, faults>>

Checked(w) == /\ gpc[w] = "check" /\ ~Stopped(w)
              /\ gpc' = [gpc EXCEPT ![w] = "remove"]
              /\ UNCHANGED <<storeVars, lock, waiters, gfile, intake, workerVars,
                             baseVars, baseCh, fwdVars, phase, faults>>

Remove(w) == /\ gpc[w] = "remove"
             /\ disk' = disk \ {gfile[w]}
             /\ gpc' = Ended(w)
             /\ lock' = None
             /\ UNCHANGED <<turn, events, waiters, gfile, intake, workerVars, baseVars,
                            baseCh, fwdVars, phase, faults>>

\* The select of Get on the end of its goroutine ...
GetReturn(w) == /\ wpc[w] = "get" /\ gpc[w] = "done"
                /\ wpc' = [wpc EXCEPT ![w] = IF gfile[w] = None THEN "left" ELSE "add"]
                /\ wuid' = [wuid EXCEPT ![w] = gfile[w]]
                /\ gpc' = [gpc EXCEPT ![w] = "none"]
                /\ gfile' = [gfile EXCEPT ![w] = None]
                /\ UNCHANGED <<storeVars, lock, waiters, intake, wack, gone, parsed,
                               baseVars, baseCh, fwdVars, phase, faults>>

\* ... and on stop: the goroutine is left behind, whatever it has done.
GetCanceled(w) == /\ wpc[w] = "get" /\ Stopped(w)
                  /\ wpc' = [wpc EXCEPT ![w] = "left"]
                  /\ UNCHANGED <<storeVars, condVars, intake, wuid, wack, gone, parsed,
                                 baseVars, baseCh, fwdVars, phase, faults>>

\* Another request takes the place of the one that left.
NextRequest(w) == /\ w \in Remote /\ wpc[w] = "left" /\ gpc[w] \in {"none", "done"}
                  /\ phase = "up"
                  /\ wpc' = [wpc EXCEPT ![w] = "idle"]
                  /\ gone' = gone \ {w}
                  /\ gpc' = [gpc EXCEPT ![w] = "none"]
                  /\ gfile' = [gfile EXCEPT ![w] = None]
                  /\ UNCHANGED <<storeVars, lock, waiters, intake, wuid, wack, parsed,
                                 baseVars, baseCh, fwdVars, phase, faults>>
-----------------------------------------------------------------------------
(* The workers.  The object that Pull decoded is the one filed in Cur: its  *)
(* UID field changes when RePush has it pushed again.                       *)

Add(w) == /\ wpc[w] = "add"
          /\ cur' = cur \cup {wuid[w]}
          /\ wpc' = [wpc EXCEPT ![w] = IF w \in Local THEN "parse" ELSE "reply"]
          /\ UNCHANGED <<storeVars, condVars, intake, wuid, wack, gone, parsed, bpc,
                         todo, rkey, baseCh, fwdVars, phase, faults>>

(* What the UID field of object u holds, possibly torn while it is written. *)
Restamped(u) == turn[mail(u)] > u[2] \/ (fpc = "store" /\ fobj = u)
Readings(u) == {IF Restamped(u) THEN <<mail(u), u[2] + 1>> ELSE u}
          \cup (IF fpc = "stamp" /\ fobj = u THEN {None} ELSE {})

\* Mutant: acknowledged as soon as it is sent.
MutReply(w) == /\ wpc[w] = "reply"
               /\ \E u \in Readings(wuid[w]) : wack' = [wack EXCEPT ![w] = u]
               /\ wpc' = [wpc EXCEPT ![w] = "ack"]
               /\ UNCHANGED <<storeVars, condVars, intake, wuid, gone, parsed, baseVars,
                              baseCh, fwdVars, phase, faults>>

\* A remote worker is sent a copy of the mail as it is now.
Reply(w) == /\ wpc[w] = "reply"
            /\ \E u \in Readings(wuid[w]) : wack' = [wack EXCEPT ![w] = u]
            /\ wpc' = [wpc EXCEPT ![w] = "parse"]
            /\ UNCHANGED <<storeVars, condVars, intake, wuid, gone, parsed, baseVars,
                           baseCh, fwdVars, phase, faults>>

\* Parse, whether or not it fails, then, in the process, the argument of ACK.
Parse(w) == /\ wpc[w] = "parse"
            /\ parsed' = parsed \cup {mail(wuid[w])}
            /\ IF w \in Local
                 THEN \E u \in Readings(wuid[w]) : wack' = [wack EXCEPT ![w] = u]
                 ELSE UNCHANGED wack
            /\ wpc' = [wpc EXCEPT ![w] = "ack"]
            /\ UNCHANGED <<storeVars, condVars, intake, wuid, gone, baseVars, baseCh,
                           fwdVars, phase, faults>>

ACK(w) == /\ wpc[w] = "ack"
          /\ cur' = cur \ {wack[w]}
          /\ wpc' = [wpc EXCEPT ![w] = "idle"]
          /\ wuid' = [wuid EXCEPT ![w] = None]
          /\ wack' = [wack EXCEPT ![w] = None]
          /\ UNCHANGED <<storeVars, condVars, intake, gone, parsed, bpc, todo, rkey,
                         baseCh, fwdVars, phase, faults>>

\* A client goes away while its request waits for a mail ...
Leave(w) == /\ wpc[w] = "get" /\ w \in Remote \ gone /\ Fault("leave")
            /\ gone' = gone \cup {w}
            /\ UNCHANGED <<storeVars, condVars, intake, wpc, wuid, wack, parsed,
                           baseVars, baseCh, fwdVars, phase>>

\* ... or with the mail.
Die(w) == /\ wpc[w] \in {"reply", "parse", "ack"} /\ w \in Remote
          /\ phase = "up" /\ Fault("die")
          /\ wpc' = [wpc EXCEPT ![w] = "idle"]
          /\ wuid' = [wuid EXCEPT ![w] = None]
          /\ wack' = [wack EXCEPT ![w] = None]
          /\ UNCHANGED <<storeVars, condVars, intake, gone, parsed, baseVars, baseCh,
                         fwdVars, phase>>
-----------------------------------------------------------------------------
(* BaseCollector: an overdue entry of Cur goes to Base.Ch, and is then      *)
(* deleted; at the end, all entries are deleted and go to Base.Ch.          *)

RePush(u) == /\ bpc = "timer" /\ u \in cur /\ turn[mail(u)] < MaxTurns
             /\ bpc' = "send" /\ rkey' = u
             /\ UNCHANGED <<storeVars, intake, condVars, workerVars, cur, todo, baseCh,
                            fwdVars, phase, faults>>

RePushSend == /\ bpc = "send" /\ Len(baseCh) < Size
              /\ baseCh' = Append(baseCh, rkey)
              /\ bpc' = "delete"
              /\ UNCHANGED <<storeVars, intake, condVars, workerVars, cur, todo, rkey,
                             fwdVars, phase, faults>>

RePushDelete == /\ bpc = "delete"
                /\ cur' = cur \ {rkey}
                /\ bpc' = "timer" /\ rkey' = None
                /\ UNCHANGED <<storeVars, intake, condVars, workerVars, todo, baseCh,
                               fwdVars, phase, faults>>

RePushStop == /\ bpc = "send" /\ CtxDone
              /\ bpc' = "timer" /\ rkey' = None
              /\ UNCHANGED <<storeVars, intake, condVars, workerVars, cur, todo, baseCh,
                             fwdVars, phase, faults>>

DrainStart == /\ bpc = "timer" /\ CtxDone
              /\ bpc' = "drain" /\ todo' = cur
              /\ UNCHANGED <<storeVars, intake, condVars, workerVars, cur, rkey, baseCh,
                             fwdVars, phase, faults>>

Drain(u) == /\ bpc = "drain" /\ u \in todo
            /\ todo' = todo \ {u}
            /\ IF u \in cur THEN bpc' = "drainSend" /\ rkey' = u ELSE UNCHANGED <<bpc, rkey>>
            /\ cur' = cur \ {u}
            /\ UNCHANGED <<storeVars, intake, condVars, workerVars, baseCh, fwdVars,
                           phase, faults>>

DrainSend == /\ bpc = "drainSend" /\ Len(baseCh) < Size
             /\ baseCh' = Append(baseCh, rkey)
             /\ bpc' = "drain" /\ rkey' = None
             /\ UNCHANGED <<storeVars, intake, condVars, workerVars, cur, todo, fwdVars,
                            phase, faults>>

DrainReturn == /\ bpc = "drain" /\ todo = {}
               /\ bpc' = "closed"
               /\ UNCHANGED <<storeVars, intake, condVars, workerVars, cur, todo, rkey,
                              baseCh, fwdVars, phase, faults>>
-----------------------------------------------------------------------------
(* FSCollector.Start pushes again what comes out of Base.Ch, and ignores    *)
(* the error: a mail that cannot be written again is gone.                  *)

ForwardRecv == /\ fpc = "recv" /\ baseCh # <<>>
               /\ fpc' = "stamp" /\ fobj' = Head(baseCh)
               /\ baseCh' = Tail(baseCh)
               /\ UNCHANGED <<storeVars, intake, condVars, workerVars, baseVars, phase,
                              faults>>

ForwardStamp == /\ fpc = "stamp"
                /\ fpc' = "store"
                /\ UNCHANGED <<storeVars, intake, condVars, workerVars, baseVars, fobj,
                               baseCh, phase, faults>>

ForwardStore == /\ fpc = "store"
                /\ Renamed(<<mail(fobj), fobj[2] + 1>>)
                /\ fpc' = "recv" /\ fobj' = None
                /\ UNCHANGED <<intake, condVars, workerVars, baseVars, baseCh, phase,
                               faults>>

ForwardFail == /\ fpc = "store" /\ Fault("disk")
               /\ turn' = [turn EXCEPT ![mail(fobj)] = fobj[2] + 1]
               /\ fpc' = "recv" /\ fobj' = None
               /\ UNCHANGED <<disk, events, intake, condVars, workerVars, baseVars,
                              baseCh, phase>>

\* Mutant: returns as soon as Base.Ch is closed, as a select would.
MutForwardReturn == /\ fpc = "recv" /\ bpc = "closed"
                    /\ fpc' = "returned"
                    /\ UNCHANGED <<storeVars, intake, condVars, workerVars, baseVars,
                                   baseCh, fobj, phase, faults>>

ForwardReturn == /\ fpc = "recv" /\ baseCh = <<>> /\ bpc = "closed"
                 /\ fpc' = "returned"
                 /\ UNCHANGED <<storeVars, intake, condVars, workerVars, baseVars,
                                baseCh, fobj, phase, faults>>
-----------------------------------------------------------------------------
(* fx: the servers and the parser are stopped first, then the collector.    *)
(* Server.Close ends the requests, without waiting for their handlers.      *)

StopParser == /\ phase = "up" /\ Fault("stop")
              /\ phase' = "stopping" /\ gone' = Remote
              /\ UNCHANGED <<storeVars, intake, condVars, wpc, wuid, wack, parsed,
                             baseVars, baseCh, fwdVars>>

StopCollector == /\ phase = "stopping" /\ \A w \in Local : wpc[w] = "left"
                 /\ phase' = "done"
                 /\ UNCHANGED <<storeVars, intake, condVars, workerVars, baseVars,
                                baseCh, fwdVars, faults>>

\* FileStore.Close: the watcher goroutine ends.
Close == /\ phase = "done" /\ fpc = "returned"
         /\ phase' = "closed"
         /\ UNCHANGED <<storeVars, intake, condVars, workerVars, baseVars, baseCh,
                        fwdVars, faults>>

\* The process ends, and is started again on the same directory.
Restart == phase = "closed" /\ Boot /\ UNCHANGED faults
Crash == Fault("crash") /\ Boot

Next ==
  \/ \E m \in Mails : IntakeStore(m) \/ IntakeFail(m)
  \/ Watch
  \/ \E w \in Workers : \/ Get(w) \/ Look(w) \/ Transfer(w) \/ Checked(w) \/ Remove(w)
                        \/ GetReturn(w) \/ GetCanceled(w) \/ NextRequest(w)
                        \/ Add(w) \/ Reply(w) \/ Parse(w) \/ ACK(w) \/ Leave(w) \/ Die(w)
  \/ \E u \in cur : RePush(u)
  \/ RePushSend \/ RePushDelete \/ RePushStop
  \/ DrainStart \/ DrainSend \/ DrainReturn
  \/ \E u \in todo : Drain(u)
  \/ ForwardRecv \/ ForwardStamp \/ ForwardStore \/ ForwardFail \/ ForwardReturn
  \/ StopParser \/ StopCollector \/ Close \/ Restart \/ Crash

(* A goroutine that can run does run.  The lock and the channel of the base *)
(* collector are passed on fairly (sync.Mutex hands over to a goroutine     *)
(* that starves; senders and receivers queue), and the entries of Cur that  *)
(* stay there become overdue.  Clients answer or leave as they please.      *)
GetStep(w) == \/ Look(w) \/ Transfer(w) \/ Checked(w) \/ Remove(w)
Fairness ==
  /\ SF_vars(Watch)
  /\ \A w \in Workers : SF_vars(GetStep(w)) /\ WF_vars(GetReturn(w) \/ Add(w))
  /\ \A w \in Local : WF_vars(Get(w) \/ GetCanceled(w) \/ Parse(w) \/ ACK(w))
  /\ \A w \in Remote : WF_vars(GetCanceled(w))
  /\ WF_vars(\E u \in cur : RePush(u))
  /\ WF_vars(RePushSend \/ RePushDelete \/ DrainSend \/ DrainReturn)
  /\ WF_vars(DrainStart) /\ WF_vars(\E u \in todo : Drain(u))
  /\ WF_vars(ForwardRecv \/ ForwardStamp \/ ForwardStore \/ ForwardReturn)
  /\ WF_vars(StopCollector) /\ WF_vars(Close) /\ WF_vars(Restart)

Spec == Init /\ [][Next]_vars /\ Fairness
-----------------------------------------------------------------------------
(* Where a mail is: on disk, or in the memory of the process.  An entry of  *)
(* Cur that has just gone to Base.Ch no longer counts.                      *)
Reclaimed(u) == bpc = "delete" /\ u = rkey

Places(m) ==
  {<<"disk", u>> : u \in {v \in disk : mail(v) = m}}
  \cup {<<"get", w>> : w \in {x \in Workers : gpc[x] = "done" /\ gfile[x] # None
                                               /\ mail(gfile[x]) = m}}
  \cup {<<"add", w>> : w \in {x \in Workers : wpc[x] = "add" /\ mail(wuid[x]) = m}}
  \cup {<<"cur", u>> : u \in {v \in cur : mail(v) = m /\ ~Reclaimed(v)}}
  \cup {<<"base", i>> : i \in {j \in DOMAIN baseCh : mail(baseCh[j]) = m}}
  \cup (IF bpc \in {"send", "drainSend"} /\ mail(rkey) = m
          THEN {<<"cur", rkey>>} ELSE {})
  \cup (IF fpc \in {"stamp", "store"} /\ mail(fobj) = m
          THEN {<<"forward", fobj>>} ELSE {})

OnDisk(m) == \E u \in disk : mail(u) = m
InMemory(m) == \E p \in Places(m) : p[1] # "disk"
Accepted(m) == intake[m] = "accepted"

(* However callers leave, goroutines survive them and the process crashes,  *)
(* a mail is in one place: no file is taken twice, or taken and kept.       *)
OnePlace == TypeOK /\ \A m \in Mails : \A p, q \in Places(m) : p = q

(* After an orderly stop, every mail nobody has parsed is a file again, but *)
(* for the one a Get took for a worker that had stopped waiting for it, and *)
(* the one the handler of a request was given: nobody waits for handlers.   *)
CleanStopKeepsAll ==
  phase = "closed" /\ faults \subseteq {"stop", "die"} =>
    \A m \in Mails : Accepted(m) /\ m \notin parsed =>
      \/ OnDisk(m)
      \/ \E w \in Workers : <<"get", w>> \in Places(m)
      \/ \E w \in Remote : wuid[w] # None /\ mail(wuid[w]) = m

(* What the comment of FileStore.get says of a client that is already gone: *)
(* its Get has been canceled, so the file is left to another waiter.        *)
CanceledKeepsFile ==
  \A w \in Workers : wpc[w] = "left" => ~(gpc[w] = "done" /\ gfile[w] # None)

(* A mail on disk is taken, though the goroutines of canceled Gets compete  *)
(* for the signals of the watcher.                                          *)
StoredIsTaken == \A m \in Mails : OnDisk(m) ~> (~OnDisk(m) \/ phase # "up")

Disk == INSTANCE Spool WITH
  accepted <- {m \in Mails : Accepted(m)},
  stored <- {m \in Mails : OnDisk(m)},
  leased <- {m \in Mails : InMemory(m)},
  sound <- faults = {}

(* The collector implements the abstract spool: a stored mail is never lost *)
(* and, until something goes wrong, neither is a leased one.                *)
RefinesSpool == Disk!Spec
=============================================================================
