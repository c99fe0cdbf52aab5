------------------------- MODULE MasterWorkerProofs -------------------------
(***************************************************************************)
(* Theorems about MasterWorker, for every set of mails and parsers and      *)
(* however many timeouts, restarts and leases: what the numbering of        *)
(* requests promises, and what an upload the worker believes in is worth.   *)
(***************************************************************************)
EXTENDS MasterWorker, TLAPS

(* The requests of the worker, live and given up. *)
MsgInv ==
  /\ \A x \in msgs :
       /\ x.id <= me
       /\ x.wait => x.id = me
       /\ x.st \notin {"net", "pull"} => x.wait
       /\ x.wait /\ x.kind = "init" => wst = "init"
       /\ x.wait /\ x.kind = "auth" => wst = "auth"
       /\ x.wait /\ x.kind \in {"work", "submit"} => wst \in {"run", "wind"}
       /\ x.wait /\ x.kind = "submit" => x.uid \in upload
       /\ x.kind = "submit" \/ x.st = "mail" => x.uid \in UID
       /\ x.kind = "work" /\ x.id = me => wst \notin {"init", "auth"}
  /\ \A x, y \in msgs :
       /\ x.wait /\ y.wait /\ x.kind = y.kind
       /\ x.kind = "submit" => x.uid = y.uid
       => x = y
  /\ poll \in {"wait", "hand"} => wst \in {"run", "wind"}
  /\ wst \in {"init", "auth"} => poll = "idle" /\ requestID = 0

(* The requests for work of this session that the master has not counted. *)
Uncounted == {x \in msgs : x.kind = "work" /\ x.st = "net" /\ x.id = me}

(* The two counts differ by the request on its way, if there is one. *)
CountInv ==
  restarts = 0 =>
    /\ \A x \in msgs : x.kind = "auth" /\ x.st = "ok" => me \in keys /\ inc[me] = 0
    /\ wst \in {"run", "wind"} => me \in keys
    /\ wst = "run" /\ ~late =>
         /\ inc[me] # None
         /\ \A x \in Uncounted : x.wait /\ x.n = requestID
         /\ requestID = inc[me] + (IF Uncounted = {} THEN 0 ELSE 1)

(* Only a worker with a session submits, and a session lives on. *)
SubmitInv ==
  restarts = 0 =>
    /\ \A x \in msgs : x.kind = "submit" => x.id \in keys /\ (x.st = "ok" => x.uid \in acked)
    /\ uploaded \subseteq acked

IInv == TypeOK /\ MsgInv /\ CountInv /\ SubmitInv

PollWaits == (poll = "wait") <=> \E x \in msgs : x.kind = "work" /\ x.wait
St == {"net", "pull", "mail", "ok", "bad", "empty", "eof"}
-----------------------------------------------------------------------------
(* What the handlers and the client's timer make of a request. *)
LEMMA Changed ==
  ASSUME NEW x \in Msg
  PROVE  /\ \A s \in St : LET y == [x EXCEPT !.st = s]
                          IN  /\ y \in Msg /\ y.kind = x.kind /\ y.id = x.id /\ y.n = x.n
                              /\ y.uid = x.uid /\ y.wait = x.wait /\ y.st = s
         /\ \A u \in UID : LET y == [x EXCEPT !.uid = u, !.st = "mail"]
                           IN  /\ y \in Msg /\ y.kind = x.kind /\ y.id = x.id /\ y.n = x.n
                               /\ y.uid = u /\ y.wait = x.wait /\ y.st = "mail"
         /\ LET y == [x EXCEPT !.wait = FALSE]
            IN  /\ y \in Msg /\ y.kind = x.kind /\ y.id = x.id /\ y.n = x.n
                /\ y.uid = x.uid /\ y.wait = FALSE /\ y.st = x.st
BY DEF Msg, St

(* The numbers of sessions are numbers. *)
LEMMA IDsAreNat == \A i \in IDs : i \in Nat \ {0} /\ i <= 1 + MaxTimeouts + MaxRestarts
BY BoundsAssumption DEF IDs

(* A handler of the master answers a request the worker waits for, or drops
   one that it gave up; the requests stay in order. *)
LEMMA Served ==
  ASSUME TypeOK, MsgInv, NEW x \in msgs,
         UNCHANGED <<me, wst, upload, poll, requestID>>,
         \/ msgs' = msgs \ {x} /\ ~x.wait
         \/ \E y \in Msg : /\ msgs' = (msgs \ {x}) \cup {y}
                           /\ y.kind = x.kind /\ y.id = x.id /\ y.wait = x.wait
                           /\ y.st \notin {"net", "pull"} => x.wait
                           /\ y.kind # "work" => y.uid = x.uid
                           /\ y.st = "mail" => y.uid \in UID
  PROVE  msgs' \subseteq Msg /\ MsgInv' /\ PollWaits'
<1>0. msgs \subseteq Msg /\ PollWaits BY DEF TypeOK, PollWaits
<1>1. CASE msgs' = msgs \ {x} /\ ~x.wait
  BY <1>0, <1>1 DEF MsgInv, PollWaits
<1>2. ASSUME NEW y \in Msg, msgs' = (msgs \ {x}) \cup {y},
             y.kind = x.kind, y.id = x.id, y.wait = x.wait,
             y.st \notin {"net", "pull"} => x.wait,
             y.kind # "work" => y.uid = x.uid,
             y.st = "mail" => y.uid \in UID
      PROVE  msgs' \subseteq Msg /\ MsgInv' /\ PollWaits'
  <2>1. PollWaits' BY <1>0, <1>2 DEF PollWaits
  <2>2. \A z \in msgs' :
       /\ z.id <= me
       /\ z.wait => z.id = me
       /\ z.st \notin {"net", "pull"} => z.wait
       /\ z.wait /\ z.kind = "init" => wst = "init"
       /\ z.wait /\ z.kind = "auth" => wst = "auth"
       /\ z.wait /\ z.kind \in {"work", "submit"} => wst \in {"run", "wind"}
       /\ z.wait /\ z.kind = "submit" => z.uid \in upload
       /\ z.kind = "submit" \/ z.st = "mail" => z.uid \in UID
       /\ z.kind = "work" /\ z.id = me => wst \notin {"init", "auth"}
    BY <1>2 DEF MsgInv
  <2>3. ASSUME NEW a \in msgs', NEW b \in msgs', a.wait, b.wait, a.kind = b.kind,
               a.kind = "submit" => a.uid = b.uid
        PROVE  a = b
    <3>1. CASE a \in msgs \ {x} /\ b \in msgs \ {x} BY <2>3, <3>1 DEF MsgInv
    <3>2. CASE a = y /\ b = y BY <3>2
    <3>3. CASE a = y /\ b \in msgs \ {x}
      <4>1. x.wait /\ b.wait /\ x.kind = b.kind /\ (x.kind = "submit" => x.uid = b.uid)
        BY <1>2, <2>3, <3>3
      <4> QED BY <3>3, <4>1 DEF MsgInv
    <3>4. CASE b = y /\ a \in msgs \ {x}
      <4>1. x.wait /\ a.wait /\ x.kind = a.kind /\ (x.kind = "submit" => x.uid = a.uid)
        BY <1>2, <2>3, <3>4
      <4> QED BY <3>4, <4>1 DEF MsgInv
    <3> QED BY <1>2, <3>1, <3>2, <3>3, <3>4
  <2>4. /\ poll' \in {"wait", "hand"} => wst' \in {"run", "wind"}
        /\ wst' \in {"init", "auth"} => poll' = "idle" /\ requestID' = 0
    BY DEF MsgInv
  <2> QED BY <1>0, <1>2, <2>1, <2>2, <2>3, <2>4 DEF MsgInv
<1> QED BY <1>1, <1>2

(* What is left of a request that the worker no longer waits for. *)
Left(x) ==
  /\ \A z \in msgs' : \/ z \in msgs \ {x}
                      \/ /\ z.kind = x.kind /\ z.id = x.id
                         /\ z.st = x.st /\ z.st \in {"net", "pull"}
  /\ \A z \in msgs : z = x \/ z \in msgs'

(* A request the worker no longer waits for is gone, or goes on without it. *)
LEMMA GivenUp ==
  ASSUME TypeOK, MsgInv, NEW x \in msgs, x.wait, me' = me,
         \/ msgs' = msgs \ {x}
         \/ x.st \in {"net", "pull"} /\ msgs' = (msgs \ {x}) \cup {[x EXCEPT !.wait = FALSE]},
         \/ wst' = wst
         \/ wst \in {"run", "wind"} /\ wst' \in {"run", "wind"}
         \/ wst \in {"init", "auth"} /\ wst' \in {"run", "retry", "down"},
         \A u \in upload : u \in upload' \/ (x.kind = "submit" /\ u = x.uid),
         poll' \in {"wait", "hand"} => wst' \in {"run", "wind"},
         wst' \in {"init", "auth"} => poll' = "idle" /\ requestID' = 0
  PROVE  /\ msgs' \subseteq Msg /\ MsgInv'
         /\ (\E z \in msgs' : z.kind = "work" /\ z.wait)
              <=> (x.kind # "work" /\ \E z \in msgs : z.kind = "work" /\ z.wait)
         /\ \A z \in msgs' : z.wait => z \in msgs /\ z # x
         /\ Left(x)
<1> DEFINE y == [x EXCEPT !.wait = FALSE]
<1>0. /\ y \in Msg /\ y.kind = x.kind /\ y.id = x.id /\ y.n = x.n
      /\ y.uid = x.uid /\ y.wait = FALSE /\ y.st = x.st
      /\ msgs \subseteq Msg
  BY Changed DEF TypeOK
<1>1. \/ msgs' = msgs \ {x}
      \/ x.st \in {"net", "pull"} /\ msgs' = (msgs \ {x}) \cup {y}
  OBVIOUS
<1> HIDE DEF y
<1>2. \A z \in msgs' : (z \in msgs /\ z # x) \/ (z = y /\ y.st \in {"net", "pull"})
  BY <1>0, <1>1
<1>3. \A z \in msgs' : z.wait => z \in msgs /\ z # x
  BY <1>0, <1>2
<1>4. \A z \in msgs : z.wait /\ z # x => z \in msgs'
  BY <1>1
<1>5. msgs' \subseteq Msg BY <1>0, <1>2
<1>6. ASSUME wst \in {"init", "auth"}, NEW z \in msgs', z.wait PROVE FALSE
  <2>1. z \in msgs /\ z # x BY <1>3, <1>6
  <2>2. z.kind \in {"init", "auth", "work", "submit"} /\ x.kind \in {"init", "auth", "work", "submit"}
    BY <1>0, <2>1 DEF Msg
  <2>3. z.kind = x.kind /\ x.kind # "submit" BY <1>6, <2>1, <2>2 DEF MsgInv
  <2> QED BY <1>6, <2>1, <2>3 DEF MsgInv
<1>7. \A z \in msgs' :
       /\ z.id <= me
       /\ z.wait => z.id = me
       /\ z.st \notin {"net", "pull"} => z.wait
       /\ z.kind = "submit" \/ z.st = "mail" => z.uid \in UID
  BY <1>0, <1>2 DEF MsgInv
<1>8. \A z \in msgs' :
       /\ z.wait /\ z.kind = "init" => wst' = "init"
       /\ z.wait /\ z.kind = "auth" => wst' = "auth"
       /\ z.wait /\ z.kind \in {"work", "submit"} => wst' \in {"run", "wind"}
  BY <1>3, <1>6 DEF MsgInv
<1>9. ASSUME NEW z \in msgs', z.wait, z.kind = "submit" PROVE z.uid \in upload'
  <2>1. z \in msgs /\ z # x /\ z.uid \in upload BY <1>3, <1>9 DEF MsgInv
  <2>2. ~(x.kind = "submit" /\ z.uid = x.uid) BY <1>9, <2>1 DEF MsgInv
  <2> QED BY <2>1, <2>2
<1>10. \A z \in msgs' : z.kind = "work" /\ z.id = me => wst' \notin {"init", "auth"}
  BY <1>0, <1>2 DEF MsgInv
<1>11. \A a, b \in msgs' : /\ a.wait /\ b.wait /\ a.kind = b.kind
                           /\ a.kind = "submit" => a.uid = b.uid
                           => a = b
  BY <1>3 DEF MsgInv
<1>12. MsgInv' BY <1>7, <1>8, <1>9, <1>10, <1>11 DEF MsgInv
<1>13. ASSUME NEW z \in msgs, z.kind = "work", z.wait, x.kind # "work"
       PROVE  z \in msgs'
  BY <1>4, <1>13
<1>14. ASSUME NEW z \in msgs', z.kind = "work", z.wait PROVE x.kind # "work"
  BY <1>3, <1>14 DEF MsgInv
<1>15. Left(x) BY <1>0, <1>1, <1>2 DEF Left
<1> QED BY <1>3, <1>5, <1>12, <1>13, <1>14, <1>15

(* A request the worker sends is the only one of its kind. *)
LEMMA Sent ==
  ASSUME TypeOK, MsgInv, NEW y \in Msg, y.id = me, y.wait, y.st = "net",
         NEW rest \in SUBSET msgs, msgs' = rest \cup {y},
         me' = me, upload' = upload,
         wst' = wst \/ (y.kind = "auth" /\ wst' = "auth" /\ \A z \in rest : ~z.wait),
         y.kind = "init" => wst' = "init", y.kind = "auth" => wst' = "auth",
         y.kind \in {"work", "submit"} => wst' = "run" /\ wst = "run",
         y.kind = "submit" => y.uid \in upload /\ y.uid \in UID,
         \A z \in rest : z.wait /\ z.kind = y.kind => y.kind = "submit" /\ z.uid # y.uid,
         poll' \in {"wait", "hand"} => wst' \in {"run", "wind"},
         wst \in {"init", "auth"} \/ wst' = wst,
         wst' \in {"init", "auth"} => poll' = "idle" /\ requestID' = 0
  PROVE  msgs' \subseteq Msg /\ MsgInv'
<1>0. msgs \subseteq Msg /\ me \in Nat BY IDsAreNat DEF TypeOK
<1>1. y.kind \in {"init", "auth", "work", "submit"} BY DEF Msg
<1>2. \A z \in msgs' :
       /\ z.id <= me
       /\ z.wait => z.id = me
       /\ z.st \notin {"net", "pull"} => z.wait
       /\ z.kind = "submit" \/ z.st = "mail" => z.uid \in UID
       /\ z.wait /\ z.kind = "submit" => z.uid \in upload
  BY <1>0 DEF MsgInv
<1>3. \A z \in msgs' :
       /\ z.wait /\ z.kind = "init" => wst' = "init"
       /\ z.wait /\ z.kind = "auth" => wst' = "auth"
       /\ z.wait /\ z.kind \in {"work", "submit"} => wst' \in {"run", "wind"}
       /\ z.kind = "work" /\ z.id = me => wst' \notin {"init", "auth"}
  BY <1>0, <1>1 DEF MsgInv
<1>4. ASSUME NEW a \in msgs', NEW b \in msgs', a.wait, b.wait, a.kind = b.kind,
             a.kind = "submit" => a.uid = b.uid
      PROVE  a = b
  <2>1. CASE a \in rest /\ b \in rest BY <1>4, <2>1 DEF MsgInv
  <2>2. CASE a \in rest /\ b = y BY <1>4, <2>2
  <2>3. CASE b \in rest /\ a = y BY <1>4, <2>3
  <2> QED BY <2>1, <2>2, <2>3
<1>5. MsgInv' BY <1>2, <1>3, <1>4 DEF MsgInv
<1> QED BY <1>0, <1>5

(* What a handler's answer leaves among the requests. *)
LEMMA Answered ==
  ASSUME TypeOK, MsgInv, NEW x \in msgs, NEW s \in St \ {"mail"}, Answer(x, s),
         s \in {"net", "pull"} => x.wait,
         UNCHANGED <<me, wst, upload, poll, requestID>>
  PROVE  /\ msgs' \subseteq Msg /\ MsgInv' /\ PollWaits'
         /\ \A z \in msgs' : \/ z \in msgs \ {x}
                             \/ /\ x.wait /\ z.kind = x.kind /\ z.id = x.id
                                /\ z.n = x.n /\ z.uid = x.uid /\ z.st = s
         /\ \A z \in msgs : z = x \/ z \in msgs'
<1> DEFINE y == [x EXCEPT !.st = s]
<1>0. /\ y \in Msg /\ y.kind = x.kind /\ y.id = x.id /\ y.n = x.n
      /\ y.uid = x.uid /\ y.wait = x.wait /\ y.st = s
  <2>1. x \in Msg BY DEF TypeOK
  <2> QED BY <2>1 DEF Msg, St
<1>1. \/ msgs' = msgs \ {x} /\ ~x.wait
      \/ x.wait /\ msgs' = (msgs \ {x}) \cup {y}
  BY DEF Answer, Become
<1> HIDE DEF y
<1>2. msgs' \subseteq Msg /\ MsgInv' /\ PollWaits' BY <1>0, <1>1, Served
<1> QED BY <1>0, <1>1, <1>2

(* What a step may do without putting the two counts out of step. *)
LEMMA CountFrame ==
  ASSUME CountInv, restarts' = restarts, me' = me, keys \subseteq keys',
         inc'[me] = inc[me],
         \A z \in msgs' : z.kind = "auth" /\ z.st = "ok" => z \in msgs,
         wst' \in {"run", "wind"} => wst \in {"run", "wind"},
         wst' = "run" /\ ~late' => /\ wst = "run" /\ ~late /\ requestID' = requestID
                                   /\ Uncounted' = Uncounted
  PROVE  CountInv'
<1>1. SUFFICES ASSUME restarts = 0 PROVE CountInv' BY DEF CountInv
<1>2. \A z \in msgs' : z.kind = "auth" /\ z.st = "ok" => me' \in keys' /\ inc'[me'] = 0
  BY <1>1 DEF CountInv
<1>3. wst' \in {"run", "wind"} => me' \in keys' BY <1>1 DEF CountInv
<1>4. ASSUME wst' = "run", ~late'
      PROVE  /\ inc'[me'] # None
             /\ \A z \in Uncounted' : z.wait /\ z.n = requestID'
             /\ requestID' = inc'[me'] + (IF Uncounted' = {} THEN 0 ELSE 1)
  <2> DEFINE U == Uncounted
  <2>1. U' = U /\ wst = "run" /\ ~late /\ requestID' = requestID BY <1>4
  <2>2. /\ inc[me] # None /\ \A z \in U : z.wait /\ z.n = requestID
        /\ requestID = inc[me] + (IF U = {} THEN 0 ELSE 1)
    BY <1>1, <2>1 DEF CountInv
  <2> HIDE DEF U
  <2>3. /\ inc'[me'] # None /\ \A z \in U' : z.wait /\ z.n = requestID'
        /\ requestID' = inc'[me'] + (IF U' = {} THEN 0 ELSE 1)
    BY <2>1, <2>2
  <2> QED BY <2>3 DEF U
<1> QED BY <1>2, <1>3, <1>4 DEF CountInv

(* What a step may do to the uploads that are under way or done. *)
LEMMA SubmitFrame ==
  ASSUME SubmitInv, restarts' = restarts, keys \subseteq keys', acked \subseteq acked',
         uploaded' = uploaded,
         \A z \in msgs' : z.kind = "submit" =>
            \E w \in msgs : /\ w.kind = "submit" /\ w.id = z.id
                            /\ z.st = "ok" => w.st = "ok" /\ w.uid = z.uid
  PROVE  SubmitInv'
<1>1. SUFFICES ASSUME restarts = 0 PROVE SubmitInv' BY DEF SubmitInv
<1>2. ASSUME NEW z \in msgs', z.kind = "submit"
      PROVE  z.id \in keys' /\ (z.st = "ok" => z.uid \in acked')
  <2>1. PICK w \in msgs : /\ w.kind = "submit" /\ w.id = z.id
                          /\ z.st = "ok" => w.st = "ok" /\ w.uid = z.uid
    BY <1>2
  <2>2. w.id \in keys /\ (w.st = "ok" => w.uid \in acked) BY <1>1, <2>1 DEF SubmitInv
  <2>3. z.id \in keys' BY <2>1, <2>2
  <2>4. z.st = "ok" => z.uid \in acked' BY <2>1, <2>2
  <2> QED BY <2>3, <2>4
<1>3. uploaded' \subseteq acked' BY <1>1 DEF SubmitInv
<1> QED BY <1>2, <1>3 DEF SubmitInv
-----------------------------------------------------------------------------
(* A handler of the master keeps the invariant: the count it keeps moves only
   with a request it has received. *)
LEMMA MasterStep ==
  ASSUME IInv, NEW x \in msgs,
         \/ HandleInit(x) \/ HandleAuth(x) \/ HandleWork(x) \/ PullCanceled(x)
         \/ HandleSubmit(x) \/ HandleAck(x) \/ Lose(x) \/ \E u \in queue : Pull(x, u)
  PROVE  IInv'
<1> USE DEF IInv
<1>0. x \in Msg /\ x.id \in IDs /\ me \in IDs /\ x.n \in Nat
  BY DEF TypeOK, Msg
<1>1. ASSUME HandleInit(x) PROVE IInv'
  <2>1. PICK s \in {"bad", "ok"} : Answer(x, s) BY <1>1 DEF HandleInit
  <2>2. UNCHANGED <<collVars, keys, inc, consumeVars, workVars, mainVars, envVars>>
        /\ x.kind = "init" /\ x.st = "net" /\ recipients' \subseteq IDs
    BY <1>0, <1>1 DEF HandleInit, TypeOK
  <2>3. /\ msgs' \subseteq Msg /\ MsgInv' /\ PollWaits'
        /\ \A z \in msgs' : \/ z \in msgs \ {x}
                            \/ /\ x.wait /\ z.kind = x.kind /\ z.id = x.id
                               /\ z.n = x.n /\ z.uid = x.uid /\ z.st = s
        /\ \A z \in msgs : z = x \/ z \in msgs'
    BY <2>1, <2>2, Answered DEF St, workVars, mainVars
  <2>4. TypeOK'
    BY <2>2, <2>3 DEF TypeOK, PollWaits, collVars, consumeVars, workVars, mainVars, envVars
  <2>5. Uncounted' = Uncounted BY <2>2, <2>3 DEF Uncounted, mainVars
  <2>6. CountInv' BY <2>2, <2>3, <2>5, CountFrame DEF workVars, mainVars, envVars
  <2>7. SubmitInv' BY <2>2, <2>3, SubmitFrame DEF consumeVars, workVars, envVars
  <2> QED BY <2>3, <2>4, <2>6, <2>7
<1>2. ASSUME HandleAuth(x) PROVE IInv'
  <2>1. PICK s \in {"bad", "ok"} : Answer(x, s) BY <1>2 DEF HandleAuth
  <2>2. UNCHANGED <<collVars, consumeVars, workVars, mainVars, envVars>>
        /\ x.kind = "auth" /\ x.st = "net"
    BY <1>2 DEF HandleAuth
  <2>3. /\ msgs' \subseteq Msg /\ MsgInv' /\ PollWaits'
        /\ \A z \in msgs' : \/ z \in msgs \ {x}
                            \/ /\ x.wait /\ z.kind = x.kind /\ z.id = x.id
                               /\ z.n = x.n /\ z.uid = x.uid /\ z.st = s
        /\ \A z \in msgs : z = x \/ z \in msgs'
    BY <2>1, <2>2, Answered DEF St, workVars, mainVars
  <2>4. /\ recipients' \subseteq IDs /\ keys' \subseteq IDs /\ keys \subseteq keys'
        /\ inc' \in [IDs -> Nat \cup {None}]
    BY <1>0, <1>2 DEF HandleAuth, TypeOK
  <2>5. TypeOK'
    BY <2>2, <2>3, <2>4
       DEF TypeOK, PollWaits, collVars, consumeVars, workVars, mainVars, envVars
  <2>6. Uncounted' = Uncounted BY <2>2, <2>3 DEF Uncounted, mainVars
  <2>7. CountInv'
    <3>1. CASE x.id \in keys \/ x.id \notin recipients
      <4>1. UNCHANGED <<keys, inc>> /\ Answer(x, "bad") BY <1>2, <3>1 DEF HandleAuth
      <4>2. \A z \in msgs' : z.kind = "auth" /\ z.st = "ok" => z \in msgs
        BY <4>1, <2>2, Answered DEF St, workVars, mainVars
      <4> QED BY <2>2, <2>6, <4>1, <4>2, CountFrame DEF workVars, mainVars, envVars
    <3>2. CASE ~(x.id \in keys \/ x.id \notin recipients)
      <4>1. keys' = keys \cup {x.id} /\ inc' = [inc EXCEPT ![x.id] = 0]
        BY <1>2, <3>2 DEF HandleAuth
      <4>2. inc \in [IDs -> Nat \cup {None}] BY DEF TypeOK
      <4>3. CASE x.id # me
        <5>1. inc'[me] = inc[me] BY <1>0, <4>1, <4>2, <4>3
        <5>2. ~x.wait BY <4>3 DEF MsgInv
        <5> QED
          BY <2>2, <2>3, <2>6, <4>1, <5>1, <5>2, CountFrame DEF workVars, mainVars, envVars
      <4>4. CASE x.id = me
        <5>1. inc'[me] = 0 /\ me \in keys' BY <1>0, <4>1, <4>2, <4>4
        <5>2. restarts = 0 => wst \notin {"run", "wind"} BY <3>2, <4>4 DEF CountInv
        <5> QED BY <2>2, <5>1, <5>2 DEF CountInv, mainVars, envVars
      <4> QED BY <4>3, <4>4
    <3> QED BY <3>1, <3>2
  <2>9. SubmitInv' BY <2>2, <2>3, <2>4, SubmitFrame DEF consumeVars, workVars, envVars
  <2> QED BY <2>3, <2>5, <2>7, <2>9
<1>3. ASSUME HandleWork(x) PROVE IInv'
  <2>1. UNCHANGED <<collVars, recipients, keys, consumeVars, workVars, mainVars, envVars>>
        /\ x.kind = "work" /\ x.st = "net"
    BY <1>3 DEF HandleWork
  <2>2. inc \in [IDs -> Nat \cup {None}] BY DEF TypeOK
  <2>3. inc' \in [IDs -> Nat \cup {None}] BY <1>0, <1>3, <2>2 DEF HandleWork
  <2>4. x.id # me => inc'[me] = inc[me] BY <1>0, <1>3, <2>2 DEF HandleWork
  <2>5. /\ msgs' \subseteq Msg /\ MsgInv' /\ PollWaits'
        /\ \A z \in msgs' : \/ z \in msgs \ {x}
                            \/ /\ z.kind = "work" /\ z.st \in {"pull", "empty"}
                               /\ z.id = x.id /\ z.uid = x.uid
        /\ \A z \in msgs : z = x \/ z \in msgs'
    <3>1. CASE InStep(x)
      <4> DEFINE y == [x EXCEPT !.st = "pull"]
      <4>1. /\ y \in Msg /\ y.kind = x.kind /\ y.id = x.id /\ y.n = x.n
            /\ y.uid = x.uid /\ y.wait = x.wait /\ y.st = "pull"
        BY <1>0 DEF Msg
      <4>2. msgs' = (msgs \ {x}) \cup {y} BY <1>3, <3>1 DEF HandleWork, Become
      <4> HIDE DEF y
      <4>3. msgs' \subseteq Msg /\ MsgInv' /\ PollWaits'
        BY <2>1, <4>1, <4>2, Served DEF workVars, mainVars
      <4> QED BY <2>1, <4>1, <4>2, <4>3
    <3>2. CASE ~InStep(x)
      <4>1. Answer(x, "empty") BY <1>3, <3>2 DEF HandleWork
      <4> QED BY <2>1, <4>1, Answered DEF St, workVars, mainVars
    <3> QED BY <3>1, <3>2
  <2>6. TypeOK'
    BY <2>1, <2>3, <2>5
       DEF TypeOK, PollWaits, collVars, consumeVars, workVars, mainVars, envVars
  <2>7. CountInv'
    <3>1. \A z \in msgs' : z.kind = "auth" /\ z.st = "ok" => z \in msgs BY <2>5
    <3>2. CASE x.id # me
      <4>1. Uncounted' = Uncounted BY <2>1, <2>5, <3>2 DEF Uncounted, mainVars
      <4> QED BY <2>1, <2>4, <3>1, <3>2, <4>1, CountFrame DEF workVars, mainVars, envVars
    <3>3. CASE x.id = me
      <4>1. wst \notin {"init", "auth"} BY <2>1, <3>3 DEF MsgInv
      <4>2. ASSUME NEW z \in msgs', z.kind = "auth", z.st = "ok" PROVE FALSE
        BY <3>1, <4>1, <4>2 DEF MsgInv
      <4>3. ASSUME restarts = 0, wst = "run", ~late
            PROVE  inc'[me] = requestID /\ Uncounted' = {} /\ requestID \in Nat
        <5>1. x \in Uncounted BY <2>1, <3>3 DEF Uncounted
        <5>2. /\ inc[me] # None /\ me \in keys
              /\ \A z \in Uncounted : z.wait /\ z.n = requestID
              /\ requestID = inc[me] + (IF Uncounted = {} THEN 0 ELSE 1)
          BY <4>3 DEF CountInv
        <5>3. requestID = inc[me] + 1 /\ x.n = requestID BY <5>1, <5>2
        <5>4. InStep(x) BY <3>3, <5>2, <5>3 DEF InStep, Known
        <5>5. inc'[me] = requestID BY <1>0, <1>3, <2>2, <3>3, <5>3, <5>4 DEF HandleWork
        <5>6. \A z \in Uncounted : z = x
          BY <2>1, <5>1, <5>2 DEF Uncounted, MsgInv
        <5>7. ASSUME NEW z \in Uncounted' PROVE FALSE
          <6>1. z \in msgs' /\ z.kind = "work" /\ z.st = "net" /\ z.id = me
            BY <2>1, <5>7 DEF Uncounted, mainVars
          <6>2. z \in msgs \ {x} BY <2>5, <6>1
          <6> QED BY <5>6, <6>1, <6>2 DEF Uncounted
        <5> QED BY <5>5, <5>7 DEF TypeOK
      <4>4. ASSUME restarts = 0, wst \in {"run", "wind"} PROVE me \in keys
        BY <4>4 DEF CountInv
      <4>5. None \notin Nat BY NoneAssumption
      <4> QED BY <2>1, <4>2, <4>3, <4>4, <4>5 DEF CountInv, workVars, mainVars, envVars
    <3> QED BY <3>2, <3>3
  <2>8. SubmitInv' BY <2>1, <2>5, SubmitFrame DEF consumeVars, workVars, envVars
  <2> QED BY <2>5, <2>6, <2>7, <2>8
<1>4. ASSUME PullCanceled(x) \/ Lose(x) PROVE IInv'
  <2>1. /\ UNCHANGED <<collVars, masterVars, workVars, mainVars, envVars>>
        /\ msgs' = msgs \ {x} /\ ~x.wait
        /\ x.st = "pull" \/ x.st = "net"
    BY <1>4 DEF PullCanceled, Lose
  <2>2. msgs' \subseteq Msg /\ MsgInv' /\ PollWaits'
    BY <2>1, Served DEF workVars, mainVars
  <2>3. TypeOK'
    BY <2>1, <2>2
       DEF TypeOK, PollWaits, collVars, masterVars, consumeVars, workVars, mainVars, envVars
  <2>4. CountInv'
    <3>1. Uncounted' \subseteq Uncounted BY <2>1 DEF Uncounted, mainVars
    <3>2. restarts = 0 /\ wst = "run" /\ ~late => x \notin Uncounted
      BY <2>1 DEF CountInv
    <3>3. restarts = 0 /\ wst = "run" /\ ~late => Uncounted' = Uncounted
      BY <2>1, <3>1, <3>2 DEF Uncounted, mainVars
    <3> QED
      BY <2>1, <3>3, CountFrame
         DEF CountInv, masterVars, consumeVars, workVars, mainVars, envVars
  <2>5. SubmitInv' BY <2>1, SubmitFrame DEF masterVars, consumeVars, workVars, envVars
  <2> QED BY <2>2, <2>3, <2>4, <2>5
<1>5. ASSUME HandleSubmit(x) \/ HandleAck(x) PROVE IInv'
  <2>1. UNCHANGED <<turn, queue, recipients, keys, inc, workVars, mainVars, envVars>>
        /\ x.kind = "submit" /\ x.st = "net" /\ Answer(x, "ok")
        /\ acked \subseteq acked' /\ (Known(x) => x.uid \in acked')
    BY <1>5 DEF HandleSubmit, HandleAck, EndLease
  <2>2. x.uid \in UID BY <2>1 DEF MsgInv
  <2>3. /\ cur' \subseteq UID /\ acked' \subseteq UID /\ results' \subseteq UID
        /\ lost' \subseteq UID /\ consuming' \subseteq UID \X Nat
    BY <1>0, <1>5, <2>2 DEF HandleSubmit, HandleAck, EndLease, TypeOK
  <2>4. /\ msgs' \subseteq Msg /\ MsgInv' /\ PollWaits'
        /\ \A z \in msgs' : \/ z \in msgs \ {x}
                            \/ /\ x.wait /\ z.kind = x.kind /\ z.id = x.id
                               /\ z.n = x.n /\ z.uid = x.uid /\ z.st = "ok"
        /\ \A z \in msgs : z = x \/ z \in msgs'
    BY <2>1, Answered DEF St, workVars, mainVars
  <2>5. TypeOK'
    BY <2>1, <2>3, <2>4 DEF TypeOK, PollWaits, workVars, mainVars, envVars
  <2>6. Uncounted' = Uncounted BY <2>1, <2>4 DEF Uncounted, mainVars
  <2>7. CountInv' BY <2>1, <2>4, <2>6, CountFrame DEF workVars, mainVars, envVars
  <2>8. SubmitInv'
    <3>1. SUFFICES ASSUME restarts = 0 PROVE SubmitInv'
      BY <2>1 DEF SubmitInv, envVars
    <3>2. x.id \in keys /\ x.uid \in acked'
      BY <2>1, <3>1 DEF SubmitInv, Known
    <3>3. ASSUME NEW z \in msgs', z.kind = "submit"
          PROVE  z.id \in keys' /\ (z.st = "ok" => z.uid \in acked')
      <4>1. CASE z \in msgs \ {x} BY <2>1, <3>1, <3>3, <4>1 DEF SubmitInv
      <4>2. CASE z \notin msgs \ {x} BY <2>1, <2>4, <3>2, <4>2
      <4> QED BY <4>1, <4>2
    <3>4. uploaded' \subseteq acked' BY <2>1, <3>1 DEF SubmitInv, workVars
    <3> QED BY <3>3, <3>4 DEF SubmitInv
  <2> QED BY <2>4, <2>5, <2>7, <2>8
<1>6. ASSUME NEW u \in queue, Pull(x, u) PROVE IInv'
  <2>1. UNCHANGED <<turn, masterVars, workVars, mainVars, envVars>>
        /\ x.kind = "work" /\ x.st = "pull" /\ u \in UID
    BY <1>6 DEF Pull, TypeOK
  <2>2. queue' \subseteq UID /\ cur' \subseteq UID BY <1>6, <2>1 DEF Pull, TypeOK
  <2> DEFINE y == [x EXCEPT !.uid = u, !.st = "mail"]
  <2>3. /\ y \in Msg /\ y.kind = x.kind /\ y.id = x.id /\ y.n = x.n
        /\ y.uid = u /\ y.wait = x.wait /\ y.st = "mail"
    BY <1>0, <2>1 DEF Msg
  <2>4. \/ msgs' = msgs \ {x} /\ ~x.wait
        \/ x.wait /\ msgs' = (msgs \ {x}) \cup {y}
    BY <1>6 DEF Pull, Become
  <2> HIDE DEF y
  <2>5. msgs' \subseteq Msg /\ MsgInv' /\ PollWaits'
    BY <2>1, <2>3, <2>4, Served DEF workVars, mainVars
  <2>6. TypeOK'
    BY <2>1, <2>2, <2>5
       DEF TypeOK, PollWaits, masterVars, consumeVars, workVars, mainVars, envVars
  <2>7. Uncounted' = Uncounted BY <2>1, <2>3, <2>4 DEF Uncounted, mainVars
  <2>8. CountInv'
    BY <2>1, <2>3, <2>4, <2>7, CountFrame
       DEF masterVars, consumeVars, workVars, mainVars, envVars
  <2>9. SubmitInv'
    BY <2>1, <2>3, <2>4, SubmitFrame DEF masterVars, consumeVars, workVars, envVars
  <2> QED BY <2>5, <2>6, <2>8, <2>9
<1> QED BY <1>1, <1>2, <1>3, <1>4, <1>5, <1>6

(* The worker's answers and its timer keep the invariant: only a request that
   was given up before the master had it makes the counts differ. *)
LEMMA AnswerStep ==
  ASSUME IInv, NEW x \in msgs,
         \/ Timeout(x) \/ AuthAnswer(x) \/ WorkAnswer(x) \/ WorkFails(x)
         \/ SubmitAnswer(x) \/ InitAnswer(x)
  PROVE  IInv'
<1> USE DEF IInv
<1>0. x \in Msg /\ x.kind \in {"init", "auth", "work", "submit"} BY DEF TypeOK, Msg
<1>1. ASSUME Timeout(x) PROVE IInv'
  <2>1. /\ UNCHANGED <<collVars, masterVars, requestID, hand, busy, upload, uploaded, me,
                       outcome, stop, unparseable, restarts>>
        /\ x.wait /\ wst # "wind" /\ timeouts' \in 0..MaxTimeouts
        /\ late' = (late \/ (x.kind = "work" /\ x.st \notin {"pull", "mail"}))
    BY <1>1, BoundsAssumption DEF Timeout, TypeOK
  <2>2. \/ msgs' = msgs \ {x}
        \/ x.st \in {"net", "pull"} /\ msgs' = (msgs \ {x}) \cup {[x EXCEPT !.wait = FALSE]}
    BY <1>1 DEF Timeout, Abandoned, GiveUp, Become
  <2>3. \/ /\ x.kind \in {"init", "auth"} /\ wst \in {"init", "auth"} /\ wst' = "retry"
           /\ poll' = poll /\ poll = "idle"
        \/ /\ x.kind = "work" /\ wst' = wst /\ wst = "run" /\ poll' = "idle" /\ poll = "wait"
        \/ x.kind = "submit" /\ wst' = wst /\ wst = "run" /\ poll' = poll
    BY <1>0, <1>1, <2>1 DEF Timeout, MsgInv, TypeOK
  <2>4. /\ msgs' \subseteq Msg /\ MsgInv'
        /\ (\E z \in msgs' : z.kind = "work" /\ z.wait)
              <=> (x.kind # "work" /\ \E z \in msgs : z.kind = "work" /\ z.wait)
        /\ Left(x)
    <3>1. /\ poll' \in {"wait", "hand"} => wst' \in {"run", "wind"}
          /\ wst' \in {"init", "auth"} => poll' = "idle" /\ requestID' = 0
      BY <2>3 DEF MsgInv
    <3> QED BY <2>1, <2>2, <2>3, <3>1, GivenUp
  <2>5. PollWaits' BY <2>3, <2>4 DEF TypeOK, PollWaits
  <2>6. TypeOK'
    BY <2>1, <2>3, <2>4, <2>5 DEF TypeOK, PollWaits, collVars, masterVars, consumeVars
  <2>7. CountInv'
    <3>1. ASSUME wst' = "run", ~late'
          PROVE  wst = "run" /\ ~late /\ Uncounted' = Uncounted
      <4>1. ~(x.kind = "work" /\ x.st = "net") /\ ~late BY <2>1, <3>1
      <4> QED BY <2>1, <2>3, <2>4, <3>1, <4>1 DEF Uncounted, Left
    <3>2. \A z \in msgs' : z.kind = "auth" /\ z.st = "ok" => z \in msgs BY <2>4 DEF Left
    <3>3. wst' \in {"run", "wind"} => wst \in {"run", "wind"} BY <2>3
    <3> QED BY <2>1, <3>1, <3>2, <3>3, CountFrame DEF masterVars, consumeVars
  <2>8. SubmitInv' BY <2>1, <2>4, SubmitFrame DEF masterVars, consumeVars, Left
  <2> QED BY <2>4, <2>6, <2>7, <2>8
<1>2. ASSUME AuthAnswer(x) PROVE IInv'
  <2>1. /\ UNCHANGED <<collVars, masterVars, workVars, me, outcome, stop, envVars>>
        /\ x.wait /\ x.kind = "auth" /\ wst = "auth" /\ msgs' = msgs \ {x}
        /\ (wst' = "run" /\ x.st = "ok") \/ wst' \in {"retry", "down"}
    BY <1>2 DEF AuthAnswer, Waiting, HandshakeFails, MsgInv
  <2>2. poll = "idle" /\ requestID = 0 BY <2>1 DEF MsgInv
  <2>3. /\ msgs' \subseteq Msg /\ MsgInv'
        /\ (\E z \in msgs' : z.kind = "work" /\ z.wait)
              <=> (x.kind # "work" /\ \E z \in msgs : z.kind = "work" /\ z.wait)
    BY <2>1, <2>2, GivenUp DEF workVars
  <2>4. TypeOK'
    BY <2>1, <2>2, <2>3 DEF TypeOK, collVars, masterVars, consumeVars, workVars, envVars
  <2>5. CountInv'
    <3>1. CASE wst' # "run"
      BY <2>1, <3>1, CountFrame DEF masterVars, consumeVars, workVars, envVars
    <3>2. CASE wst' = "run"
      <4>1. restarts = 0 => me \in keys /\ inc[me] = 0 BY <2>1, <3>2 DEF CountInv
      <4>2. Uncounted' = {} BY <2>1 DEF Uncounted, MsgInv
      <4>3. None # 0 BY NoneAssumption
      <4> QED
        BY <2>1, <2>2, <4>1, <4>2, <4>3
           DEF CountInv, masterVars, consumeVars, workVars, envVars
    <3> QED BY <3>1, <3>2
  <2>6. SubmitInv' BY <2>1, SubmitFrame DEF masterVars, consumeVars, workVars, envVars
  <2> QED BY <2>3, <2>4, <2>5, <2>6
<1>3. ASSUME WorkAnswer(x) \/ WorkFails(x) PROVE IInv'
  <2>1. /\ UNCHANGED <<collVars, masterVars, requestID, busy, upload, uploaded, me, stop,
                       envVars>>
        /\ x.wait /\ x.kind = "work" /\ x.st \in {"mail", "empty", "eof"}
        /\ msgs' = msgs \ {x}
    BY <1>3 DEF WorkAnswer, WorkFails, Waiting, mainVars
  <2>2. \/ /\ UNCHANGED <<wst, outcome>>
           /\ poll' = "hand" /\ hand' = x.uid /\ x.st = "mail"
        \/ /\ wst = "run" /\ wst' = "wind" /\ outcome' \in {"retry", "exit"}
           /\ poll' = "closed" /\ hand' = hand
        \/ UNCHANGED <<wst, outcome>> /\ poll' = "closed" /\ hand' = hand
    BY <1>3 DEF WorkAnswer, WorkFails, Fail, mainVars
  <2>3. wst \in {"run", "wind"} /\ poll = "wait" BY <2>1 DEF MsgInv, TypeOK
  <2>4. /\ msgs' \subseteq Msg /\ MsgInv'
        /\ (\E z \in msgs' : z.kind = "work" /\ z.wait)
              <=> (x.kind # "work" /\ \E z \in msgs : z.kind = "work" /\ z.wait)
    BY <2>1, <2>2, <2>3, GivenUp
  <2>5. /\ hand' \in UID \cup {None} /\ hand' # None <=> poll' = "hand"
        /\ outcome' \in {"retry", "exit", None}
        /\ outcome' # None <=> wst' = "wind"
    <3>1. hand = None BY <2>3 DEF TypeOK
    <3>2. x.st = "mail" => x.uid \in UID /\ x.uid # None
      BY NoneAssumption DEF MsgInv, UID
    <3>3. None \notin {"retry", "exit"} BY NoneAssumption
    <3>4. outcome \in {"retry", "exit", None} /\ (outcome # None <=> wst = "wind")
      BY DEF TypeOK
    <3> QED BY <2>2, <3>1, <3>2, <3>3, <3>4
  <2>6. TypeOK'
    BY <2>1, <2>2, <2>3, <2>4, <2>5 DEF TypeOK, collVars, masterVars, consumeVars, envVars
  <2>7. Uncounted' = Uncounted BY <2>1 DEF Uncounted
  <2>8. CountInv' BY <2>1, <2>2, <2>3, <2>7, CountFrame DEF masterVars, consumeVars, envVars
  <2>9. SubmitInv' BY <2>1, SubmitFrame DEF masterVars, consumeVars, envVars
  <2> QED BY <2>4, <2>6, <2>8, <2>9
<1>4. ASSUME SubmitAnswer(x) PROVE IInv'
  <2>1. /\ UNCHANGED <<collVars, masterVars, requestID, poll, hand, busy, me, stop, envVars>>
        /\ x.wait /\ x.kind = "submit" /\ x.st \in {"ok", "eof"}
        /\ msgs' = msgs \ {x} /\ upload' = upload \ {x.uid}
    BY <1>4 DEF SubmitAnswer, Waiting
  <2>2. \/ UNCHANGED <<wst, outcome>>
        \/ wst = "run" /\ wst' = "wind" /\ outcome' \in {"retry", "exit"}
    BY <1>4 DEF SubmitAnswer, Fail
  <2>3. \/ x.st = "ok" /\ uploaded' = uploaded \cup {x.uid}
        \/ uploaded' = uploaded
    BY <1>4 DEF SubmitAnswer
  <2>4. wst \in {"run", "wind"} /\ x.uid \in UID BY <2>1 DEF MsgInv
  <2>5. /\ msgs' \subseteq Msg /\ MsgInv'
        /\ (\E z \in msgs' : z.kind = "work" /\ z.wait)
              <=> (x.kind # "work" /\ \E z \in msgs : z.kind = "work" /\ z.wait)
    BY <2>1, <2>2, <2>4, GivenUp
  <2>6. outcome' \in {"retry", "exit", None} /\ (outcome' # None <=> wst' = "wind")
    BY <2>2, NoneAssumption DEF TypeOK
  <2>7. TypeOK'
    BY <2>1, <2>2, <2>3, <2>4, <2>5, <2>6
       DEF TypeOK, collVars, masterVars, consumeVars, envVars
  <2>8. Uncounted' = Uncounted BY <2>1 DEF Uncounted
  <2>9. CountInv' BY <2>1, <2>2, <2>4, <2>8, CountFrame DEF masterVars, consumeVars, envVars
  <2>10. SubmitInv' BY <2>1, <2>3 DEF SubmitInv, masterVars, consumeVars, envVars
  <2> QED BY <2>5, <2>7, <2>9, <2>10
<1>5. ASSUME InitAnswer(x) PROVE IInv'
  <2>1. /\ UNCHANGED <<collVars, masterVars, workVars, me, outcome, stop, envVars>>
        /\ x.wait /\ x.kind = "init" /\ wst = "init"
        /\ \/ wst' = "auth" /\ msgs' = (msgs \ {x}) \cup {Request("auth", 0, None)}
           \/ wst' \in {"retry", "down"} /\ msgs' = msgs \ {x}
    BY <1>5 DEF InitAnswer, Waiting, HandshakeFails, Become, MsgInv
  <2>2. poll = "idle" /\ requestID = 0 BY <2>1 DEF MsgInv
  <2>3. CASE msgs' = msgs \ {x} /\ wst' \in {"retry", "down"}
    <3>1. /\ msgs' \subseteq Msg /\ MsgInv'
          /\ (\E z \in msgs' : z.kind = "work" /\ z.wait)
                <=> (x.kind # "work" /\ \E z \in msgs : z.kind = "work" /\ z.wait)
      BY <2>1, <2>2, <2>3, GivenUp DEF workVars
    <3>2. TypeOK'
      BY <2>1, <2>2, <2>3, <3>1
         DEF TypeOK, collVars, masterVars, consumeVars, workVars, envVars
    <3>3. CountInv' BY <2>1, <2>3, CountFrame DEF masterVars, consumeVars, workVars, envVars
    <3>4. SubmitInv' BY <2>1, <2>3, SubmitFrame
                        DEF masterVars, consumeVars, workVars, envVars
    <3> QED BY <3>1, <3>2, <3>3, <3>4
  <2>4. CASE wst' = "auth" /\ msgs' = (msgs \ {x}) \cup {Request("auth", 0, None)}
    <3>1. ASSUME NEW z \in msgs \ {x}, z.wait PROVE FALSE
      <4>1. z.kind \in {"init", "auth", "work", "submit"} BY DEF TypeOK, Msg
      <4>2. z.kind = "init" BY <2>1, <3>1, <4>1 DEF MsgInv
      <4> QED BY <2>1, <3>1, <4>2 DEF MsgInv
    <3> DEFINE y == Request("auth", 0, None)
    <3>2. y \in Msg /\ y.kind = "auth" /\ y.id = me /\ y.wait /\ y.st = "net"
      BY DEF Request, Msg, TypeOK
    <3>3. msgs' = (msgs \ {x}) \cup {y} BY <2>4
    <3> HIDE DEF y
    <3>4. msgs' \subseteq Msg /\ MsgInv'
      BY <2>1, <2>2, <2>4, <3>1, <3>2, <3>3, Sent DEF workVars
    <3>5. PollWaits' BY <2>1, <2>2, <3>1, <3>2, <3>3 DEF PollWaits, workVars
    <3>6. TypeOK'
      BY <2>1, <2>2, <2>4, <3>4, <3>5
      DEF TypeOK, PollWaits, collVars, masterVars, consumeVars, workVars, envVars
    <3>7. CountInv' BY <2>1, <2>4, <3>2, <3>3, CountFrame
                       DEF masterVars, consumeVars, workVars, envVars
    <3>8. SubmitInv' BY <2>1, <3>2, <3>3, SubmitFrame
                        DEF masterVars, consumeVars, workVars, envVars
    <3> QED BY <3>4, <3>6, <3>7, <3>8
  <2> QED BY <2>1, <2>3, <2>4
<1> QED BY <1>1, <1>2, <1>3, <1>4, <1>5

(* So do the requests the worker sends, numbered as the master counts them. *)
LEMMA SendStep ==
  ASSUME IInv, SendInit \/ Poll \/ \E u \in upload : Submit(u)
  PROVE  IInv'
<1> USE DEF IInv
<1>1. ASSUME SendInit PROVE IInv'
  <2>1. /\ UNCHANGED <<collVars, masterVars, workVars, mainVars, envVars>>
        /\ wst = "init" /\ msgs' = msgs \cup {Request("init", 0, None)}
        /\ \A z \in msgs : z.wait => z.kind # "init"
    BY <1>1 DEF SendInit, Waiting
  <2> DEFINE y == Request("init", 0, None)
  <2>3. /\ y \in Msg /\ y.kind = "init" /\ y.id = me /\ y.wait /\ y.st = "net"
        /\ msgs' = msgs \cup {y}
    BY <2>1 DEF Request, Msg, TypeOK
  <2> HIDE DEF y
  <2>2. msgs' \subseteq Msg /\ MsgInv'
    BY <2>1, <2>3, Sent DEF workVars, mainVars, MsgInv
  <2>4. PollWaits' BY <2>1, <2>3 DEF TypeOK, PollWaits, workVars
  <2>5. TypeOK'
    BY <2>1, <2>2, <2>4
       DEF TypeOK, PollWaits, collVars, masterVars, consumeVars, workVars, mainVars, envVars
  <2>6. CountInv' BY <2>1, <2>3, CountFrame
                     DEF masterVars, consumeVars, workVars, mainVars, envVars
  <2>7. SubmitInv' BY <2>1, <2>3, SubmitFrame DEF masterVars, consumeVars, workVars, envVars
  <2> QED BY <2>2, <2>5, <2>6, <2>7
<1>2. ASSUME Poll PROVE IInv'
  <2>1. /\ UNCHANGED <<collVars, masterVars, hand, busy, upload, uploaded, mainVars, envVars>>
        /\ poll = "idle" /\ wst = "run" /\ poll' = "wait" /\ requestID' = requestID + 1
        /\ msgs' = msgs \cup {Request("work", requestID', None)}
    BY <1>2 DEF Poll
  <2>2. requestID \in Nat /\ hand = None /\ ~\E z \in msgs : z.kind = "work" /\ z.wait
    BY <2>1 DEF TypeOK
  <2>3. msgs' = msgs \cup {Request("work", requestID + 1, None)} BY <2>1
  <2> DEFINE y == Request("work", requestID + 1, None)
  <2>5. /\ y \in Msg /\ y.kind = "work" /\ y.id = me /\ y.n = requestID + 1
        /\ y.wait /\ y.st = "net" /\ msgs' = msgs \cup {y}
    BY <2>2, <2>3 DEF Request, Msg, TypeOK
  <2> HIDE DEF y
  <2>4. msgs' \subseteq Msg /\ MsgInv'
    BY <2>1, <2>2, <2>5, Sent DEF mainVars
  <2>6. PollWaits' BY <2>1, <2>5 DEF PollWaits
  <2>7. TypeOK'
    BY <2>1, <2>2, <2>4, <2>6
       DEF TypeOK, PollWaits, collVars, masterVars, consumeVars, mainVars, envVars
  <2>8. CountInv'
    <3>1. Uncounted' = Uncounted \cup {y} BY <2>1, <2>5 DEF Uncounted, mainVars
    <3>2. ASSUME restarts = 0, ~late
          PROVE  inc[me] # None /\ Uncounted = {} /\ requestID = inc[me]
      <4>1. \A z \in Uncounted : z.wait BY <2>1, <3>2 DEF CountInv
      <4>2. Uncounted = {} BY <2>2, <4>1 DEF Uncounted
      <4>3. inc[me] # None /\ inc[me] \in Nat \cup {None} BY <2>1, <3>2 DEF CountInv, TypeOK
      <4> QED BY <2>1, <3>2, <4>2, <4>3 DEF CountInv
    <3>3. restarts = 0 => me \in keys BY <2>1 DEF CountInv
    <3>4. \A z \in msgs' : ~(z.kind = "auth" /\ z.st = "ok") BY <2>1, <2>5 DEF MsgInv
    <3>5. UNCHANGED <<restarts, late, me, keys, inc, wst>>
      BY <2>1 DEF masterVars, consumeVars, mainVars, envVars
    <3>6. restarts = 0 /\ ~late =>
            /\ \A z \in Uncounted' : z.wait /\ z.n = requestID'
            /\ Uncounted' # {} /\ requestID' = inc[me] + 1
      BY <2>1, <2>5, <3>1, <3>2
    <3> QED BY <2>1, <3>2, <3>3, <3>4, <3>5, <3>6 DEF CountInv
  <2>9. SubmitInv' BY <2>1, <2>5, SubmitFrame DEF masterVars, consumeVars, envVars
  <2> QED BY <2>4, <2>7, <2>8, <2>9
<1>3. ASSUME NEW u \in upload, Submit(u) PROVE IInv'
  <2>1. /\ UNCHANGED <<collVars, masterVars, workVars, mainVars, envVars>>
        /\ wst = "run" /\ msgs' = msgs \cup {Request("submit", timeouts, u)}
        /\ \A z \in msgs : z.wait /\ z.kind = "submit" => z.uid # u
    BY <1>3 DEF Submit, Uploading, Waiting
  <2>2. u \in UID /\ timeouts \in Nat BY BoundsAssumption DEF TypeOK
  <2> DEFINE y == Request("submit", timeouts, u)
  <2>4. /\ y \in Msg /\ y.kind = "submit" /\ y.id = me /\ y.uid = u
        /\ y.wait /\ y.st = "net" /\ msgs' = msgs \cup {y}
    BY <2>1, <2>2 DEF Request, Msg, TypeOK
  <2> HIDE DEF y
  <2>3. msgs' \subseteq Msg /\ MsgInv'
    <3>1. /\ UNCHANGED <<me, upload, wst, poll, requestID>> /\ wst = "run"
          /\ y.uid \in upload /\ y.uid \in UID
      BY <2>1, <2>2, <2>4 DEF workVars, mainVars
    <3>2. \A z \in msgs : z.wait /\ z.kind = y.kind => y.kind = "submit" /\ z.uid # y.uid
      BY <2>1, <2>4
    <3>3. poll' \in {"wait", "hand"} => wst' \in {"run", "wind"} BY <3>1
    <3> QED BY <2>4, <3>1, <3>2, <3>3, Sent
  <2>5. PollWaits' BY <2>1, <2>4 DEF TypeOK, PollWaits, workVars
  <2>6. TypeOK'
    <3>1. UNCHANGED <<turn, queue, cur, recipients, keys, inc, acked, consuming, results, lost,
                      requestID, poll, hand, busy, upload, uploaded, me, wst, outcome, stop,
                      unparseable, timeouts, restarts, late>>
      BY <2>1 DEF collVars, masterVars, consumeVars, workVars, mainVars, envVars
    <3> QED BY <2>3, <2>5, <3>1 DEF TypeOK, PollWaits
  <2>7. Uncounted' = Uncounted BY <2>1, <2>4 DEF Uncounted, mainVars
  <2>8. CountInv' BY <2>1, <2>4, <2>7, CountFrame
                     DEF masterVars, consumeVars, workVars, mainVars, envVars
  <2>9. SubmitInv'
    <3>1. restarts = 0 => me \in keys BY <2>1 DEF CountInv
    <3> QED BY <2>1, <2>4, <3>1
               DEF SubmitInv, masterVars, consumeVars, workVars, mainVars, envVars
  <2> QED BY <2>3, <2>6, <2>8, <2>9
<1> QED BY <1>1, <1>2, <1>3

(* And so does the end of a session, whatever is under way. *)
LEMMA WindStep ==
  ASSUME IInv, PollCanceled \/ (\E u \in upload : SubmitCanceled(u)) \/ Return \/ Stop
  PROVE  IInv'
<1> USE DEF IInv
<1>1. ASSUME PollCanceled PROVE IInv'
  <2>1. /\ UNCHANGED <<collVars, masterVars, requestID, hand, busy, upload, uploaded,
                       mainVars, envVars>>
        /\ wst = "wind" /\ poll \in {"idle", "wait"} /\ poll' = "closed"
    BY <1>1 DEF PollCanceled
  <2>2. CASE ~\E z \in msgs : z.kind = "work" /\ z.wait
    <3>1. msgs' = msgs BY <1>1, <2>2 DEF PollCanceled, Waiting
    <3>2. MsgInv' BY <2>1, <3>1 DEF MsgInv, mainVars
    <3>3. TypeOK'
      BY <2>1, <2>2, <3>1 DEF TypeOK, collVars, masterVars, consumeVars, mainVars, envVars
    <3>4. CountInv' BY <2>1, <3>1, CountFrame DEF masterVars, consumeVars, mainVars, envVars
    <3>5. SubmitInv' BY <2>1, <3>1, SubmitFrame DEF masterVars, consumeVars, envVars
    <3> QED BY <3>2, <3>3, <3>4, <3>5
  <2>3. CASE \E z \in msgs : z.kind = "work" /\ z.wait
    <3>1. PICK x \in msgs : x.kind = "work" /\ x.wait /\ Abandoned(x)
      BY <1>1, <2>3 DEF PollCanceled, Waiting
    <3>2. \/ msgs' = msgs \ {x}
          \/ x.st \in {"net", "pull"} /\ msgs' = (msgs \ {x}) \cup {[x EXCEPT !.wait = FALSE]}
      BY <3>1 DEF Abandoned, GiveUp, Become
    <3>3. /\ msgs' \subseteq Msg /\ MsgInv' /\ Left(x)
          /\ (\E z \in msgs' : z.kind = "work" /\ z.wait)
                <=> (x.kind # "work" /\ \E z \in msgs : z.kind = "work" /\ z.wait)
      BY <2>1, <3>1, <3>2, GivenUp DEF mainVars
    <3>4. TypeOK'
      BY <2>1, <3>1, <3>3 DEF TypeOK, collVars, masterVars, consumeVars, mainVars, envVars
    <3>5. CountInv'
      BY <2>1, <3>3, CountFrame DEF Left, masterVars, consumeVars, mainVars, envVars
    <3>6. SubmitInv' BY <2>1, <3>3, SubmitFrame DEF Left, masterVars, consumeVars, envVars
    <3> QED BY <3>3, <3>4, <3>5, <3>6
  <2> QED BY <2>2, <2>3
<1>2. ASSUME NEW u \in upload, SubmitCanceled(u) PROVE IInv'
  <2>1. /\ UNCHANGED <<collVars, masterVars, requestID, poll, hand, busy, uploaded,
                       mainVars, envVars>>
        /\ wst = "wind" /\ upload' = upload \ {u}
    BY <1>2 DEF SubmitCanceled
  <2>2. CASE Uploading(u) = {}
    <3>1. msgs' = msgs BY <1>2, <2>2 DEF SubmitCanceled
    <3>2. MsgInv' BY <2>1, <2>2, <3>1 DEF MsgInv, mainVars, Uploading, Waiting
    <3>3. TypeOK'
      BY <2>1, <3>1 DEF TypeOK, collVars, masterVars, consumeVars, mainVars, envVars
    <3>4. CountInv' BY <2>1, <3>1, CountFrame DEF masterVars, consumeVars, mainVars, envVars
    <3>5. SubmitInv' BY <2>1, <3>1, SubmitFrame DEF masterVars, consumeVars, envVars
    <3> QED BY <3>2, <3>3, <3>4, <3>5
  <2>3. CASE Uploading(u) # {}
    <3>1. PICK x \in msgs : x.kind = "submit" /\ x.wait /\ x.uid = u /\ Abandoned(x)
      BY <1>2, <2>3 DEF SubmitCanceled, Uploading, Waiting
    <3>2. \/ msgs' = msgs \ {x}
          \/ x.st \in {"net", "pull"} /\ msgs' = (msgs \ {x}) \cup {[x EXCEPT !.wait = FALSE]}
      BY <3>1 DEF Abandoned, GiveUp, Become
    <3>3. poll' \in {"wait", "hand"} => wst' \in {"run", "wind"}
      BY <2>1 DEF mainVars
    <3>4. /\ msgs' \subseteq Msg /\ MsgInv' /\ Left(x)
          /\ (\E z \in msgs' : z.kind = "work" /\ z.wait)
                <=> (x.kind # "work" /\ \E z \in msgs : z.kind = "work" /\ z.wait)
      BY <2>1, <3>1, <3>2, <3>3, GivenUp DEF mainVars
    <3>5. TypeOK'
      BY <2>1, <3>1, <3>4 DEF TypeOK, collVars, masterVars, consumeVars, mainVars, envVars
    <3>6. CountInv'
      BY <2>1, <3>4, CountFrame DEF Left, masterVars, consumeVars, mainVars, envVars
    <3>7. SubmitInv' BY <2>1, <3>4, SubmitFrame DEF Left, masterVars, consumeVars, envVars
    <3> QED BY <3>4, <3>5, <3>6, <3>7
  <2> QED BY <2>2, <2>3
<1>3. ASSUME Return PROVE IInv'
  <2>1. /\ UNCHANGED <<collVars, masterVars, msgs, workVars, me, stop, envVars>>
        /\ wst = "wind" /\ poll = "closed" /\ upload = {}
        /\ wst' \in {"retry", "down"} /\ outcome' = None
    BY <1>3 DEF Return
  <2>2. ASSUME NEW z \in msgs, z.wait PROVE FALSE
    <3>1. z.kind \in {"init", "auth", "work", "submit"} BY DEF TypeOK, Msg
    <3>2. z.kind # "work" BY <2>1, <2>2 DEF TypeOK
    <3> QED BY <2>1, <2>2, <3>1, <3>2 DEF MsgInv
  <2>3. MsgInv' BY <2>1, <2>2 DEF MsgInv, workVars
  <2>4. TypeOK' BY <2>1 DEF TypeOK, collVars, masterVars, consumeVars, workVars, envVars
  <2>5. CountInv' BY <2>1, CountFrame DEF masterVars, consumeVars, workVars, envVars
  <2>6. SubmitInv' BY <2>1, SubmitFrame DEF masterVars, consumeVars, workVars, envVars
  <2> QED BY <2>3, <2>4, <2>5, <2>6
<1>4. ASSUME Stop PROVE IInv'
  <2>1. /\ UNCHANGED <<collVars, masterVars, msgs, workVars, me, envVars>>
        /\ stop' = TRUE
        /\ \/ wst = "run" /\ wst' = "wind" /\ outcome' = "exit"
           \/ UNCHANGED <<wst, outcome>>
    BY <1>4 DEF Stop
  <2>2. MsgInv' BY <2>1 DEF MsgInv, workVars
  <2>3. "exit" # None BY NoneAssumption
  <2>4. TypeOK' BY <2>1, <2>3
                   DEF TypeOK, collVars, masterVars, consumeVars, workVars, envVars
  <2>5. Uncounted' = Uncounted BY <2>1 DEF Uncounted
  <2>6. CountInv' BY <2>1, <2>5, CountFrame DEF masterVars, consumeVars, workVars, envVars
  <2>7. SubmitInv' BY <2>1, SubmitFrame DEF masterVars, consumeVars, workVars, envVars
  <2> QED BY <2>2, <2>4, <2>6, <2>7
<1> QED BY <1>1, <1>2, <1>3, <1>4

(* And what takes place between two sessions. *)
LEMMA BetweenStep ==
  ASSUME IInv, Restart \/ Retry \/ Stopped
  PROVE  IInv'
<1> USE DEF IInv
<1>1. ASSUME Restart PROVE IInv'
  <2>1. /\ UNCHANGED <<collVars, acked, results, workVars, mainVars, unparseable, timeouts,
                       late>>
        /\ consuming' = {} /\ lost' = lost \cup {c[1] : c \in consuming}
        /\ restarts' \in 0..MaxRestarts /\ restarts' # 0
        /\ recipients' = {} /\ keys' = {} /\ inc' = [i \in IDs |-> None]
    BY <1>1, BoundsAssumption DEF Restart, TypeOK
  <2>2. msgs \subseteq Msg BY DEF TypeOK
  <2>3. ASSUME NEW z \in msgs'
        PROVE  \E x \in msgs : /\ x.wait /\ z \in Msg /\ z.kind = x.kind /\ z.id = x.id
                               /\ z.uid = x.uid /\ z.wait /\ z.st = "eof"
                               /\ z = [x EXCEPT !.st = "eof"]
    <3>1. PICK x \in msgs : x.wait /\ z = [x EXCEPT !.st = "eof"]
      BY <1>1, <2>3 DEF Restart
    <3>2. x \in Msg BY <2>2
    <3>3. z \in Msg /\ z.kind = x.kind /\ z.id = x.id /\ z.uid = x.uid /\ z.wait /\ z.st = "eof"
      BY <3>1, <3>2 DEF Msg
    <3> QED BY <3>1, <3>3
  <2>4. ASSUME NEW x \in msgs, x.wait, x.kind = "work"
        PROVE  \E z \in msgs' : z.kind = "work" /\ z.wait
    <3>1. [x EXCEPT !.st = "eof"] \in msgs' BY <1>1, <2>4 DEF Restart
    <3>2. x \in Msg BY <2>2
    <3>3. LET z == [x EXCEPT !.st = "eof"] IN z.kind = "work" /\ z.wait
      BY <2>4, <3>2 DEF Msg
    <3> QED BY <3>1, <3>3
  <2>5. PollWaits' BY <2>1, <2>3, <2>4 DEF TypeOK, PollWaits, workVars
  <2>6. TypeOK'
    <3>1. msgs' \subseteq Msg BY <2>3
    <3>2. inc' \in [IDs -> Nat \cup {None}] BY <2>1
    <3>3. lost' \subseteq UID BY <2>1 DEF TypeOK
    <3> QED
      BY <2>1, <2>5, <3>1, <3>2, <3>3
         DEF TypeOK, PollWaits, collVars, consumeVars, workVars, mainVars
  <2>7. MsgInv'
    <3>1. \A z \in msgs' :
       /\ z.id <= me
       /\ z.wait => z.id = me
       /\ z.st \notin {"net", "pull"} => z.wait
       /\ z.wait /\ z.kind = "init" => wst = "init"
       /\ z.wait /\ z.kind = "auth" => wst = "auth"
       /\ z.wait /\ z.kind \in {"work", "submit"} => wst \in {"run", "wind"}
       /\ z.wait /\ z.kind = "submit" => z.uid \in upload
       /\ z.kind = "submit" \/ z.st = "mail" => z.uid \in UID
       /\ z.kind = "work" /\ z.id = me => wst \notin {"init", "auth"}
      BY <2>3 DEF MsgInv
    <3>2. ASSUME NEW a \in msgs', NEW b \in msgs', a.kind = b.kind,
                 a.kind = "submit" => a.uid = b.uid
          PROVE  a = b
      <4>1. PICK c \in msgs : /\ c.wait /\ a.kind = c.kind /\ a.uid = c.uid
                              /\ a = [c EXCEPT !.st = "eof"]
        BY <2>3
      <4>2. PICK d \in msgs : /\ d.wait /\ b.kind = d.kind /\ b.uid = d.uid
                              /\ b = [d EXCEPT !.st = "eof"]
        BY <2>3
      <4>3. c.kind = d.kind /\ (c.kind = "submit" => c.uid = d.uid) BY <3>2, <4>1, <4>2
      <4>4. c = d BY <4>1, <4>2, <4>3 DEF MsgInv
      <4> QED BY <4>1, <4>2, <4>4
    <3> QED BY <2>1, <3>1, <3>2 DEF MsgInv, workVars, mainVars
  <2>8. CountInv' /\ SubmitInv' BY <2>1 DEF CountInv, SubmitInv
  <2> QED BY <2>6, <2>7, <2>8
<1>2. ASSUME Retry PROVE IInv'
  <2>1. /\ UNCHANGED <<collVars, masterVars, msgs, hand, upload, uploaded, outcome, stop,
                       envVars>>
        /\ wst = "retry" /\ me' \in IDs /\ me' = me + 1 /\ wst' = "init"
        /\ requestID' = 0 /\ poll' = "idle" /\ busy' = [p \in Parsers |-> None]
    BY <1>2 DEF Retry
  <2>2. ASSUME NEW z \in msgs
        PROVE  ~z.wait /\ z.id \in Nat /\ z.id <= me /\ z.id # me' /\ z.id <= me'
    <3>1. z.kind \in {"init", "auth", "work", "submit"} /\ z.id \in IDs /\ me \in IDs
      BY DEF TypeOK, Msg
    <3>2. z.id \in Nat /\ me \in Nat BY <3>1, IDsAreNat
    <3>3. ~z.wait /\ z.id <= me BY <2>1, <3>1 DEF MsgInv
    <3> QED BY <2>1, <3>2, <3>3
  <2>3. poll # "hand" /\ poll # "wait" BY <2>1 DEF MsgInv
  <2>4. MsgInv' BY <2>1, <2>2 DEF MsgInv
  <2>5. TypeOK'
    <3>1. busy' \in [Parsers -> UID \cup {None}] BY <2>1
    <3> QED BY <2>1, <2>2, <2>3, <3>1 DEF TypeOK, collVars, masterVars, consumeVars, envVars
  <2>6. \A z \in msgs' : ~(z.kind = "auth" /\ z.st = "ok") BY <2>1, <2>2 DEF MsgInv
  <2>7. CountInv' BY <2>1, <2>6 DEF CountInv
  <2>8. SubmitInv' BY <2>1, SubmitFrame DEF masterVars, consumeVars, envVars
  <2> QED BY <2>4, <2>5, <2>7, <2>8
<1>3. ASSUME Stopped PROVE IInv'
  <2>1. /\ UNCHANGED <<collVars, masterVars, workVars, me, outcome, stop, envVars>>
        /\ wst \in {"init", "auth", "retry"} /\ wst' = "down"
    BY <1>3 DEF Stopped
  <2>2. msgs \subseteq Msg /\ poll \notin {"wait", "hand"} BY <2>1 DEF TypeOK, MsgInv
  <2>3. ASSUME NEW z \in msgs'
        PROVE  /\ z \in Msg /\ ~z.wait /\ z.st \in {"net", "pull"}
               /\ \E x \in msgs : /\ z.kind = x.kind /\ z.id = x.id
                                  /\ z.uid = x.uid /\ z.st = x.st
    <3>1. PICK x \in msgs : (x.wait => x.st = "net") /\ z = [x EXCEPT !.wait = FALSE]
      BY <1>3, <2>3 DEF Stopped
    <3>2. x \in Msg BY <2>2
    <3>3. /\ z \in Msg /\ z.kind = x.kind /\ z.id = x.id /\ z.uid = x.uid /\ ~z.wait
          /\ z.st = x.st
      BY <3>1, <3>2 DEF Msg
    <3>4. x.st \in {"net", "pull"} BY <3>1 DEF MsgInv
    <3> QED BY <3>3, <3>4
  <2>4. MsgInv' BY <2>1, <2>2, <2>3 DEF MsgInv, workVars
  <2>5. TypeOK' BY <2>1, <2>2, <2>3
                   DEF TypeOK, collVars, masterVars, consumeVars, workVars, envVars
  <2>6. CountInv' BY <2>1, <2>3, CountFrame DEF masterVars, consumeVars, workVars, envVars
  <2>7. SubmitInv' BY <2>1, <2>3, SubmitFrame DEF masterVars, consumeVars, workVars, envVars
  <2> QED BY <2>4, <2>5, <2>6, <2>7
<1> QED BY <1>1, <1>2, <1>3

(* Neither the parsing, nor a lease that is taken back, nor a Consume that
   returns touches a request. *)
LEMMA LocalStep ==
  ASSUME IInv, \/ \E p \in Parsers : Take(p) \/ Parse(p)
               \/ \E u \in cur : RePush(u)
               \/ \E c \in consuming : Consumed(c) \/ ConsumeFails(c)
               \/ UNCHANGED vars
  PROVE  IInv'
<1> USE DEF IInv
<1>1. ASSUME NEW p \in Parsers, Take(p) PROVE IInv'
  <2>1. /\ UNCHANGED <<collVars, masterVars, msgs, requestID, upload, uploaded, mainVars,
                       envVars>>
        /\ poll = "hand" /\ poll' = "idle" /\ hand' = None
        /\ busy' = [busy EXCEPT ![p] = hand]
    BY <1>1 DEF Take
  <2>2. busy' \in [Parsers -> UID \cup {None}] BY <2>1 DEF TypeOK
  <2>3. TypeOK' BY <2>1, <2>2
                   DEF TypeOK, collVars, masterVars, consumeVars, mainVars, envVars
  <2>4. MsgInv' BY <2>1 DEF MsgInv, mainVars
  <2>5. Uncounted' = Uncounted BY <2>1 DEF Uncounted, mainVars
  <2>6. CountInv' BY <2>1, <2>5, CountFrame DEF masterVars, consumeVars, mainVars, envVars
  <2>7. SubmitInv' BY <2>1, SubmitFrame DEF masterVars, consumeVars, envVars
  <2> QED BY <2>3, <2>4, <2>6, <2>7
<1>2. ASSUME NEW p \in Parsers, Parse(p) PROVE IInv'
  <2>1. /\ UNCHANGED <<collVars, masterVars, msgs, requestID, poll, hand, uploaded,
                       mainVars, envVars>>
        /\ busy[p] # None /\ busy' = [busy EXCEPT ![p] = None]
        /\ upload' = upload \cup {busy[p]}
    BY <1>2 DEF Parse
  <2>2. busy' \in [Parsers -> UID \cup {None}] /\ upload' \subseteq UID
    BY <2>1 DEF TypeOK
  <2>3. TypeOK' BY <2>1, <2>2
                   DEF TypeOK, collVars, masterVars, consumeVars, mainVars, envVars
  <2>4. MsgInv' BY <2>1 DEF MsgInv, mainVars
  <2>5. Uncounted' = Uncounted BY <2>1 DEF Uncounted, mainVars
  <2>6. CountInv' BY <2>1, <2>5, CountFrame DEF masterVars, consumeVars, mainVars, envVars
  <2>7. SubmitInv' BY <2>1, SubmitFrame DEF masterVars, consumeVars, envVars
  <2> QED BY <2>3, <2>4, <2>6, <2>7
<1>3. ASSUME NEW u \in cur, RePush(u) PROVE IInv'
  <2>1. /\ UNCHANGED <<masterVars, msgs, workVars, mainVars, unparseable, restarts, late>>
        /\ cur' = cur \ {u} /\ timeouts' \in 0..MaxTimeouts
    BY <1>3, BoundsAssumption DEF RePush, TooOld, TypeOK
  <2>2. u \in UID /\ mail(u) \in Mails /\ turn[mail(u)] + 1 \in Nat
    BY DEF TypeOK, UID, mail
  <2>3. turn' \in [Mails -> Nat] BY <1>3, <2>2 DEF RePush, TypeOK
  <2>4. queue' \subseteq UID
    <3>1. <<mail(u), turn[mail(u)] + 1>> \in UID BY <2>2 DEF UID
    <3> QED BY <1>3, <3>1 DEF RePush, TypeOK
  <2>5. TypeOK' BY <2>1, <2>3, <2>4 DEF TypeOK, masterVars, consumeVars, workVars, mainVars
  <2>6. MsgInv' BY <2>1 DEF MsgInv, workVars, mainVars
  <2>7. Uncounted' = Uncounted BY <2>1 DEF Uncounted, mainVars
  <2>8. CountInv' BY <2>1, <2>7, CountFrame DEF masterVars, consumeVars, workVars, mainVars
  <2>9. SubmitInv' BY <2>1, SubmitFrame DEF masterVars, consumeVars, workVars
  <2> QED BY <2>5, <2>6, <2>8, <2>9
<1>5. ASSUME NEW c \in consuming, Consumed(c) \/ ConsumeFails(c) PROVE IInv'
  <2>1. /\ UNCHANGED <<collVars, recipients, keys, inc, acked, msgs, workVars, mainVars,
                       envVars>>
        /\ consuming' \subseteq consuming
        /\ results' \subseteq results \cup {c[1]} /\ lost' \subseteq lost \cup {c[1]}
    BY <1>5 DEF Consumed, ConsumeFails
  <2>2. c[1] \in UID /\ consuming' \subseteq UID \X Nat BY <2>1 DEF TypeOK
  <2>3. results' \subseteq UID /\ lost' \subseteq UID BY <2>1, <2>2 DEF TypeOK
  <2>4. TypeOK' BY <2>1, <2>2, <2>3 DEF TypeOK, collVars, workVars, mainVars, envVars
  <2>5. MsgInv' BY <2>1 DEF MsgInv, workVars, mainVars
  <2>6. Uncounted' = Uncounted BY <2>1 DEF Uncounted, mainVars
  <2>7. CountInv' BY <2>1, <2>6, CountFrame DEF workVars, mainVars, envVars
  <2>8. SubmitInv' BY <2>1, SubmitFrame DEF workVars, mainVars, envVars
  <2> QED BY <2>4, <2>5, <2>7, <2>8
<1>4. ASSUME UNCHANGED vars PROVE IInv'
  <2>1. UNCHANGED <<collVars, masterVars, msgs, workVars, mainVars, envVars>>
    BY <1>4 DEF vars
  <2>2. TypeOK'
    BY <2>1 DEF TypeOK, collVars, masterVars, consumeVars, workVars, mainVars, envVars
  <2>3. MsgInv' BY <2>1 DEF MsgInv, workVars, mainVars
  <2>4. Uncounted' = Uncounted BY <2>1 DEF Uncounted, mainVars
  <2>5. CountInv' BY <2>1, <2>4, CountFrame
                     DEF masterVars, consumeVars, workVars, mainVars, envVars
  <2>6. SubmitInv' BY <2>1, SubmitFrame DEF masterVars, consumeVars, workVars, envVars
  <2> QED BY <2>2, <2>3, <2>5, <2>6
<1> QED BY <1>1, <1>2, <1>3, <1>4, <1>5
-----------------------------------------------------------------------------
(* At first nothing is asked, and nobody has a session. *)
LEMMA InitInv == Init => IInv
<1> SUFFICES ASSUME Init PROVE IInv OBVIOUS
<1>1. 1 \in IDs BY BoundsAssumption DEF IDs
<1>2. queue \subseteq UID BY DEF Init, UID
<1>3. turn \in [Mails -> Nat] /\ busy \in [Parsers -> UID \cup {None}] BY DEF Init
<1>4. inc \in [IDs -> Nat \cup {None}] BY DEF Init
<1>5. timeouts \in 0..MaxTimeouts /\ restarts \in 0..MaxRestarts
  BY BoundsAssumption DEF Init
<1>6. /\ cur \subseteq UID /\ acked \subseteq UID /\ results \subseteq UID /\ lost \subseteq UID
      /\ consuming \subseteq UID \X Nat /\ msgs \subseteq Msg /\ hand \in UID \cup {None}
      /\ recipients \subseteq IDs /\ keys \subseteq IDs /\ upload \subseteq UID
      /\ uploaded \subseteq UID
  BY DEF Init
<1>7. TypeOK BY <1>1, <1>2, <1>3, <1>4, <1>5, <1>6 DEF Init, TypeOK
<1>8. MsgInv /\ CountInv /\ SubmitInv BY DEF Init, MsgInv, CountInv, SubmitInv
<1> QED BY <1>7, <1>8 DEF IInv

(* Every step keeps the invariant. *)
LEMMA StepInv == IInv /\ [Next]_vars => IInv'
<1> SUFFICES ASSUME IInv, [Next]_vars PROVE IInv' OBVIOUS
<1>1. ASSUME NEW x \in msgs,
             \/ HandleInit(x) \/ HandleAuth(x) \/ HandleWork(x) \/ PullCanceled(x)
             \/ HandleSubmit(x) \/ HandleAck(x) \/ Lose(x) \/ \E u \in queue : Pull(x, u)
      PROVE  IInv'
  BY <1>1, MasterStep
<1>2. ASSUME NEW x \in msgs,
             \/ Timeout(x) \/ AuthAnswer(x) \/ WorkAnswer(x) \/ WorkFails(x)
             \/ SubmitAnswer(x) \/ InitAnswer(x)
      PROVE  IInv'
  BY <1>2, AnswerStep
<1>3. CASE SendInit \/ Poll \/ \E u \in upload : Submit(u) BY <1>3, SendStep
<1>4. CASE PollCanceled \/ (\E u \in upload : SubmitCanceled(u)) \/ Return \/ Stop
  BY <1>4, WindStep
<1>5. CASE Restart \/ Retry \/ Stopped BY <1>5, BetweenStep
<1>6. CASE \/ \E p \in Parsers : Take(p) \/ Parse(p)
           \/ \E u \in cur : RePush(u)
           \/ \E c \in consuming : Consumed(c) \/ ConsumeFails(c)
           \/ UNCHANGED vars
  BY <1>6, LocalStep
<1> QED BY <1>1, <1>2, <1>3, <1>4, <1>5, <1>6 DEF Next

(* What always holds. *)
LEMMA Inductive == Spec => []IInv
BY InitInv, StepInv, PTL DEF Spec

(* Timeouts of the long polls never make the master forget a worker: only a
   request given up before the master had counted it, or a restart, does
   (httpmaster.go, CurrentIncrements.Check; worker.go, getWork). *)
THEOREM OnlyLateForgets == Spec => []ForgottenOnlyIfLate
<1>1. IInv => ForgottenOnlyIfLate
  BY DEF IInv, CountInv, ForgottenOnlyIfLate, Forgotten, TypeOK
<1> QED BY <1>1, Inductive, PTL

-----------------------------------------------------------------------------
(* The UIDs of the mails the worker, or a request of its, still holds. *)
InFlight(u) == \/ \E x \in msgs : x.uid = u
               \/ u = hand \/ u \in upload \/ \E p \in Parsers : busy[p] = u

(* A UID is given once: it waits in the collector, or somebody has had it. *)
LeaseInv ==
  /\ \A u \in UID : u \in queue \cup cur \cup acked \/ InFlight(u) => u[2] <= turn[mail(u)]
  /\ \A u \in queue : u \notin cur /\ u \notin acked /\ ~InFlight(u)
  /\ \A u \in acked : u \notin cur

(* Where the result of an acknowledged mail is, and where every mail is. *)
FateInv ==
  /\ \A u \in acked : \/ \E c \in consuming : c[1] = u
                      \/ u \in results \/ u \in lost \/ mail(u) \in unparseable
  /\ \A m \in Mails : \E u \in queue \cup cur \cup acked : mail(u) = m

LMsgs == \A z \in msgs' : z.uid = None \/ \E x \in msgs : x.uid = z.uid

(* What the handlers and the client's timer make of a request is still about
   the same mail. *)
LEMMA SameMail ==
  ASSUME NEW x \in Msg
  PROVE  /\ \A s \in St : [x EXCEPT !.st = s].uid = x.uid
         /\ [x EXCEPT !.wait = FALSE].uid = x.uid
BY DEF Msg, St

(* A request that is answered, given up or sent brings no new UID. *)
LEMMA SameMails ==
  ASSUME TypeOK,
         \/ \E x \in msgs : \/ \E s \in St : Answer(x, s) \/ Become(x, [x EXCEPT !.st = s])
                            \/ msgs' = msgs \ {x}
                            \/ Abandoned(x)
         \/ msgs' = msgs
  PROVE  LMsgs
<1>1. msgs \subseteq Msg BY DEF TypeOK
<1>2. CASE msgs' = msgs BY <1>2 DEF LMsgs
<1>3. ASSUME NEW x \in msgs,
             \/ \E s \in St : msgs' = (msgs \ {x}) \cup {[x EXCEPT !.st = s]}
             \/ msgs' = msgs \ {x}
             \/ msgs' = (msgs \ {x}) \cup {[x EXCEPT !.wait = FALSE]}
      PROVE  LMsgs
  <2>1. x \in Msg BY <1>1
  <2>2. \A z \in msgs' : z \in msgs \/ z.uid = x.uid
    <3>1. \A s \in St : [x EXCEPT !.st = s].uid = x.uid BY <2>1, SameMail
    <3>2. [x EXCEPT !.wait = FALSE].uid = x.uid BY <2>1, SameMail
    <3> QED BY <1>3, <3>1, <3>2
  <2> QED BY <2>2 DEF LMsgs
<1> QED BY <1>2, <1>3 DEF Answer, Become, Abandoned, GiveUp

(* A step that gives no UID and acknowledges none. *)
LEMMA LeaseFrame ==
  ASSUME TypeOK, LeaseInv, FateInv, UNCHANGED <<collVars, consumeVars, unparseable>>,
         \A u \in UID : InFlight(u)' => InFlight(u)
  PROVE  LeaseInv' /\ FateInv'
<1>1. queue \subseteq UID BY DEF TypeOK
<1>2. LeaseInv' BY <1>1 DEF LeaseInv, collVars, consumeVars
<1>3. FateInv' BY DEF FateInv, collVars, consumeVars
<1> QED BY <1>2, <1>3

(* None is no UID. *)
LEMMA NoneIsNoUID == None \notin UID
BY NoneAssumption DEF UID

(* What the worker holds when its own state stays, or only a request ends. *)
LEMMA MsgFrame ==
  ASSUME TypeOK, LeaseInv, FateInv, LMsgs,
         UNCHANGED <<collVars, consumeVars, unparseable>>,
         hand' = hand, upload' \subseteq upload, busy' = busy
  PROVE  LeaseInv' /\ FateInv'
<1>1. ASSUME NEW u \in UID, InFlight(u)' PROVE InFlight(u)
  <2>1. CASE \E x \in msgs' : x.uid = u
    BY <2>1, NoneIsNoUID DEF LMsgs, InFlight
  <2>2. CASE ~\E x \in msgs' : x.uid = u BY <1>1, <2>2 DEF InFlight
  <2> QED BY <2>1, <2>2
<1> QED BY <1>1, LeaseFrame

(* The handlers of the master, and the collector behind it. *)
LEMMA LeaseMaster ==
  ASSUME TypeOK, MsgInv, LeaseInv, FateInv, NEW x \in msgs,
         \/ HandleInit(x) \/ HandleAuth(x) \/ HandleWork(x) \/ PullCanceled(x)
         \/ HandleSubmit(x) \/ HandleAck(x) \/ Lose(x) \/ \E u \in queue : Pull(x, u)
  PROVE  LeaseInv' /\ FateInv'
<1>0. /\ x \in Msg /\ msgs \subseteq Msg /\ queue \subseteq UID /\ cur \subseteq UID
      /\ acked \subseteq UID
  BY DEF TypeOK
<1>1. CASE HandleInit(x) \/ HandleAuth(x) \/ HandleWork(x) \/ PullCanceled(x) \/ Lose(x)
  <2>1. UNCHANGED <<collVars, consumeVars, unparseable, hand, upload, busy>>
    BY <1>1 DEF HandleInit, HandleAuth, HandleWork, PullCanceled, Lose, workVars, envVars,
                masterVars
  <2>2. \/ \E s \in St : Answer(x, s) \/ Become(x, [x EXCEPT !.st = s])
        \/ msgs' = msgs \ {x}
    BY <1>1 DEF HandleInit, HandleAuth, HandleWork, PullCanceled, Lose, St
  <2>3. LMsgs BY <2>2, SameMails
  <2> QED BY <2>1, <2>3, MsgFrame
<1>2. CASE HandleSubmit(x) \/ HandleAck(x)
  <2>1. /\ UNCHANGED <<turn, queue, results, lost, unparseable, hand, upload, busy>>
        /\ x.kind = "submit" /\ Answer(x, "ok") /\ consuming \subseteq consuming'
    BY <1>2 DEF HandleSubmit, HandleAck, workVars, envVars
  <2>2. x.uid \in UID BY <2>1 DEF MsgInv
  <2>3. LMsgs BY <2>1, SameMails DEF St
  <2>4. \A u \in UID : InFlight(u)' => InFlight(u)
    BY <2>1, <2>3, NoneIsNoUID DEF LMsgs, InFlight
  <2>5. CASE ~Known(x)
    <3>1. UNCHANGED <<cur, acked, consuming>>
      BY <1>2, <2>5 DEF HandleSubmit, HandleAck, masterVars, consumeVars
    <3> QED BY <2>1, <2>4, <3>1, LeaseFrame DEF collVars, consumeVars
  <2>6. CASE Known(x)
    <3>0. <<x.uid, x.n>>[1] = x.uid OBVIOUS
    <3>1. /\ cur' = cur \ {x.uid} /\ acked' = acked \cup {x.uid}
          /\ mail(x.uid) \in unparseable \/ \E c \in consuming' : c[1] = x.uid
      <4>1. CASE HandleSubmit(x)
        <5>1. /\ cur' = cur \ {x.uid} /\ acked' = acked \cup {x.uid}
              /\ <<x.uid, x.n>> \in consuming'
          BY <2>6, <4>1 DEF HandleSubmit, EndLease
        <5> QED BY <3>0, <5>1
      <4>2. CASE HandleAck(x) BY <2>6, <4>2 DEF HandleAck, EndLease
      <4> QED BY <1>2, <4>1, <4>2
    <3>2. InFlight(x.uid) BY DEF InFlight
    <3>3. LeaseInv' BY <1>0, <2>1, <2>2, <2>4, <3>1, <3>2 DEF LeaseInv
    <3>4. FateInv'
      <4>1. ASSUME NEW u \in acked'
            PROVE  \/ \E c \in consuming' : c[1] = u
                   \/ u \in results \/ u \in lost \/ mail(u) \in unparseable
        BY <2>1, <3>1, <4>1 DEF FateInv
      <4>2. queue \cup cur \cup acked \subseteq queue' \cup cur' \cup acked'
        BY <2>1, <3>1
      <4>3. \A m \in Mails : \E u \in queue' \cup cur' \cup acked' : mail(u) = m
        BY <4>2 DEF FateInv
      <4> QED BY <2>1, <4>1, <4>3 DEF FateInv
    <3> QED BY <3>3, <3>4
  <2> QED BY <2>5, <2>6
<1>3. ASSUME NEW v \in queue, Pull(x, v) PROVE LeaseInv' /\ FateInv'
  <2>1. /\ UNCHANGED <<turn, consumeVars, unparseable, hand, upload, busy>>
        /\ queue' = queue \ {v} /\ cur' = cur \cup {v} /\ v \in UID
    BY <1>0, <1>3 DEF Pull, masterVars, workVars, envVars
  <2>2. ASSUME NEW z \in msgs' PROVE z.uid = v \/ \E y \in msgs : y.uid = z.uid
    <3>1. [x EXCEPT !.uid = v, !.st = "mail"].uid = v BY <1>0 DEF Msg
    <3> QED BY <1>3, <2>2, <3>1 DEF Pull, Become
  <2>3. \A u \in UID : InFlight(u)' => u = v \/ InFlight(u)
    BY <2>1, <2>2 DEF InFlight
  <2>4. acked' = acked BY <2>1 DEF consumeVars
  <2>5. LeaseInv' BY <1>0, <2>1, <2>3, <2>4 DEF LeaseInv
  <2>6. queue' \cup cur' \cup acked' = queue \cup cur \cup acked BY <2>1, <2>4
  <2>7. FateInv' BY <2>1, <2>6 DEF FateInv, consumeVars
  <2> QED BY <2>5, <2>7
<1> QED BY <1>1, <1>2, <1>3

(* The worker, its client's timer and the network. *)
LEMMA LeaseWorker ==
  ASSUME TypeOK, MsgInv, LeaseInv, FateInv,
         \/ \E x \in msgs : \/ Timeout(x) \/ AuthAnswer(x) \/ WorkAnswer(x) \/ WorkFails(x)
                            \/ SubmitAnswer(x) \/ InitAnswer(x)
         \/ SendInit \/ Poll \/ \E u \in upload : Submit(u) \/ SubmitCanceled(u)
         \/ PollCanceled \/ Return \/ Stop \/ Retry \/ Stopped
         \/ \E p \in Parsers : Take(p) \/ Parse(p)
         \/ UNCHANGED vars
  PROVE  LeaseInv' /\ FateInv'
<1>0. /\ msgs \subseteq Msg /\ upload \subseteq UID /\ me \in IDs
      /\ busy \in [Parsers -> UID \cup {None}]
  BY DEF TypeOK
<1>1. ASSUME NEW x \in msgs,
             Timeout(x) \/ AuthAnswer(x) \/ WorkFails(x) \/ SubmitAnswer(x)
      PROVE  LeaseInv' /\ FateInv'
  <2>1. UNCHANGED <<collVars, consumeVars, unparseable, hand, busy>> /\ upload' \subseteq upload
    BY <1>1 DEF Timeout, AuthAnswer, WorkFails, SubmitAnswer, workVars, envVars, masterVars
  <2>2. msgs' = msgs \ {x} \/ Abandoned(x)
    BY <1>1 DEF Timeout, AuthAnswer, WorkFails, SubmitAnswer
  <2>3. LMsgs BY <2>2, SameMails
  <2> QED BY <2>1, <2>3, MsgFrame
<1>2. ASSUME NEW x \in msgs, InitAnswer(x) PROVE LeaseInv' /\ FateInv'
  <2>1. UNCHANGED <<collVars, consumeVars, unparseable, hand, busy, upload>>
    BY <1>2 DEF InitAnswer, workVars, envVars, masterVars
  <2>2. LMsgs BY <1>2 DEF InitAnswer, Become, Request, LMsgs
  <2> QED BY <2>1, <2>2, MsgFrame
<1>3. ASSUME NEW x \in msgs, WorkAnswer(x) PROVE LeaseInv' /\ FateInv'
  <2>1. UNCHANGED <<collVars, consumeVars, unparseable, busy, upload>> /\ hand' = x.uid
        /\ msgs' = msgs \ {x}
    BY <1>3 DEF WorkAnswer, envVars, masterVars
  <2>2. \A u \in UID : InFlight(u)' => InFlight(u) BY <2>1 DEF InFlight
  <2> QED BY <2>1, <2>2, LeaseFrame
<1>4. CASE SendInit \/ Poll \/ \E u \in upload : Submit(u)
  <2>1. UNCHANGED <<collVars, consumeVars, unparseable, hand, busy, upload>>
    BY <1>4 DEF SendInit, Poll, Submit, workVars, envVars, masterVars
  <2>2. PICK u \in upload \cup {None}, k \in {"init", "work", "submit"}, n \in {0, requestID', timeouts} :
          msgs' = msgs \cup {Request(k, n, u)}
    BY <1>4 DEF SendInit, Poll, Submit
  <2>3. \A v \in UID : InFlight(v)' => InFlight(v)
    <3>1. Request(k, n, u).uid = u BY DEF Request
    <3> QED BY <2>1, <2>2, <3>1, NoneIsNoUID DEF InFlight
  <2> QED BY <2>1, <2>3, LeaseFrame
<1>5. ASSUME NEW u \in upload, SubmitCanceled(u) PROVE LeaseInv' /\ FateInv'
  <2>1. /\ UNCHANGED <<collVars, consumeVars, unparseable, hand, busy>>
        /\ upload' \subseteq upload
    BY <1>5 DEF SubmitCanceled, envVars, masterVars
  <2>2. msgs' = msgs \/ \E x \in msgs : Abandoned(x)
    BY <1>5 DEF SubmitCanceled, Uploading, Waiting
  <2>3. LMsgs BY <2>2, SameMails
  <2> QED BY <2>1, <2>3, MsgFrame
<1>6. CASE PollCanceled
  <2>1. UNCHANGED <<collVars, consumeVars, unparseable, hand, busy, upload>>
    BY <1>6 DEF PollCanceled, envVars, masterVars
  <2>2. msgs' = msgs \/ \E x \in msgs : Abandoned(x) BY <1>6 DEF PollCanceled, Waiting
  <2>3. LMsgs BY <2>2, SameMails
  <2> QED BY <2>1, <2>3, MsgFrame
<1>7. CASE Return \/ Stop \/ UNCHANGED vars
  <2>1. UNCHANGED <<collVars, consumeVars, unparseable, hand, busy, upload, msgs>>
    BY <1>7 DEF Return, Stop, vars, workVars, envVars, masterVars
  <2>2. LMsgs BY <2>1 DEF LMsgs
  <2> QED BY <2>1, <2>2, MsgFrame
<1>8. CASE Retry
  <2>1. /\ UNCHANGED <<collVars, consumeVars, unparseable, hand, upload, msgs>>
        /\ busy' = [p \in Parsers |-> None]
    BY <1>8 DEF Retry, envVars, masterVars
  <2>2. \A u \in UID : InFlight(u)' => InFlight(u)
    BY <2>1, NoneIsNoUID DEF InFlight
  <2> QED BY <2>1, <2>2, LeaseFrame
<1>9. CASE Stopped
  <2>1. UNCHANGED <<collVars, consumeVars, unparseable, hand, busy, upload>>
    BY <1>9 DEF Stopped, workVars, envVars, masterVars
  <2>2. ASSUME NEW z \in msgs' PROVE \E y \in msgs : y.uid = z.uid
    <3>1. PICK y \in msgs : z = [y EXCEPT !.wait = FALSE] BY <1>9, <2>2 DEF Stopped
    <3>2. y \in Msg BY <1>0
    <3> QED BY <3>1, <3>2, SameMail
  <2>3. LMsgs BY <2>2 DEF LMsgs
  <2> QED BY <2>1, <2>3, MsgFrame
<1>10. ASSUME NEW p \in Parsers, Take(p) \/ Parse(p) PROVE LeaseInv' /\ FateInv'
  <2>1. UNCHANGED <<collVars, consumeVars, unparseable, msgs>>
    BY <1>10 DEF Take, Parse, envVars, masterVars
  <2>2. ASSUME NEW u \in UID, InFlight(u)' PROVE InFlight(u)
    <3>1. u # None BY NoneIsNoUID
    <3>2. CASE Take(p)
      <4>1. hand' = None /\ upload' = upload /\ busy' = [busy EXCEPT ![p] = hand]
        BY <3>2 DEF Take
      <4> QED BY <1>0, <2>1, <2>2, <3>1, <4>1 DEF InFlight
    <3>3. CASE Parse(p)
      <4>1. /\ hand' = hand /\ upload' = upload \cup {busy[p]}
            /\ busy' = [busy EXCEPT ![p] = None]
        BY <3>3 DEF Parse
      <4> QED BY <1>0, <2>1, <2>2, <3>1, <4>1 DEF InFlight
    <3> QED BY <1>10, <3>2, <3>3
  <2> QED BY <2>1, <2>2, LeaseFrame
<1> QED BY <1>1, <1>2, <1>3, <1>4, <1>5, <1>6, <1>7, <1>8, <1>9, <1>10

(* A lease taken back gives a UID nobody has had; a Consume that returns, or is
   cut, decides what becomes of a result. *)
LEMMA LeaseRest ==
  ASSUME TypeOK, LeaseInv, FateInv,
         \/ \E u \in cur : RePush(u)
         \/ \E c \in consuming : Consumed(c) \/ ConsumeFails(c)
         \/ Restart
  PROVE  LeaseInv' /\ FateInv'
<1>0. /\ queue \subseteq UID /\ cur \subseteq UID /\ acked \subseteq UID
      /\ turn \in [Mails -> Nat] /\ msgs \subseteq Msg
  BY DEF TypeOK
<1>1. ASSUME NEW v \in cur, RePush(v) PROVE LeaseInv' /\ FateInv'
  <2> DEFINE m == mail(v)  w == <<m, turn[m] + 1>>
  <2>1. /\ UNCHANGED <<consumeVars, unparseable, msgs, hand, upload, busy>>
        /\ turn' = [turn EXCEPT ![m] = @ + 1] /\ cur' = cur \ {v} /\ queue' = queue \cup {w}
    BY <1>1 DEF RePush, masterVars, workVars
  <2>2. acked' = acked BY <2>1 DEF consumeVars
  <2>3. m \in Mails /\ w \in UID /\ mail(w) = m /\ w[2] = turn[m] + 1 /\ turn[m] \in Nat
    BY <1>0 DEF UID, mail
  <2>4. \A u \in UID : mail(u) \in Mails /\ u[2] \in Nat BY DEF UID, mail
  <2>5. /\ turn'[m] = turn[m] + 1
        /\ \A n \in Mails : turn'[n] \in Nat /\ turn[n] \in Nat /\ turn[n] <= turn'[n]
    BY <1>0, <2>1, <2>3
  <2> HIDE DEF m, w
  <2>6. \A u \in UID : InFlight(u)' <=> InFlight(u) BY <2>1 DEF InFlight
  <2>7. ASSUME NEW u \in UID, u \in queue \cup cur \cup acked \/ InFlight(u)
        PROVE  u[2] <= turn'[mail(u)] /\ u # w
    <3>1. u[2] <= turn[mail(u)] BY <2>7 DEF LeaseInv
    <3>2. turn[mail(u)] <= turn'[mail(u)] /\ turn[mail(u)] \in Nat /\ turn'[mail(u)] \in Nat
          /\ u[2] \in Nat
      BY <2>4, <2>5
    <3>3. u[2] <= turn'[mail(u)] BY <3>1, <3>2
    <3>4. u # w BY <2>3, <3>1
    <3> QED BY <3>3, <3>4
  <2>8. \A u \in UID : u \in queue' \cup cur' \cup acked' \/ InFlight(u)' => u[2] <= turn'[mail(u)]
    BY <2>1, <2>2, <2>3, <2>5, <2>6, <2>7
  <2>9. \A u \in queue' : u \notin cur' /\ u \notin acked' /\ ~InFlight(u)'
    BY <1>0, <2>1, <2>2, <2>3, <2>6, <2>7 DEF LeaseInv
  <2>10. LeaseInv' BY <2>1, <2>2, <2>8, <2>9 DEF LeaseInv
  <2>11. FateInv'
    <3>1. ASSUME NEW n \in Mails PROVE \E u \in queue' \cup cur' \cup acked' : mail(u) = n
      <4>1. PICK u \in queue \cup cur \cup acked : mail(u) = n BY DEF FateInv
      <4>2. CASE u = v BY <2>1, <2>3, <4>1, <4>2 DEF m
      <4>3. CASE u # v BY <2>1, <2>2, <4>1, <4>3
      <4> QED BY <4>2, <4>3
    <3> QED BY <2>1, <3>1 DEF FateInv, consumeVars
  <2> QED BY <2>10, <2>11
<1>2. ASSUME NEW c \in consuming, Consumed(c) \/ ConsumeFails(c)
      PROVE  LeaseInv' /\ FateInv'
  <2>1. /\ UNCHANGED <<collVars, acked, unparseable, msgs, hand, upload, busy>>
        /\ consuming' = consuming \ {c} /\ c[1] \in results' \cup lost'
        /\ results \subseteq results' /\ lost \subseteq lost'
    BY <1>2 DEF Consumed, ConsumeFails, workVars, envVars
  <2>2. LeaseInv' BY <2>1 DEF LeaseInv, InFlight, collVars
  <2>3. FateInv' BY <2>1 DEF FateInv, collVars
  <2> QED BY <2>2, <2>3
<1>3. CASE Restart
  <2>1. /\ UNCHANGED <<collVars, acked, unparseable, results, hand, upload, busy>>
        /\ consuming' = {} /\ lost' = lost \cup {c[1] : c \in consuming}
    BY <1>3 DEF Restart, workVars
  <2>2. ASSUME NEW z \in msgs' PROVE \E y \in msgs : y.uid = z.uid
    <3>1. PICK y \in msgs : z = [y EXCEPT !.st = "eof"] BY <1>3, <2>2 DEF Restart
    <3>2. y \in Msg BY <1>0
    <3> QED BY <3>1, <3>2, SameMail DEF St
  <2>3. \A u \in UID : InFlight(u)' => InFlight(u) BY <2>1, <2>2 DEF InFlight
  <2>4. LeaseInv' BY <1>0, <2>1, <2>3 DEF LeaseInv, collVars
  <2>5. FateInv' BY <2>1 DEF FateInv, collVars
  <2> QED BY <2>4, <2>5
<1> QED BY <1>1, <1>2, <1>3

(* At first every mail waits under its first UID. *)
LEMMA LeaseInit == Init => LeaseInv /\ FateInv
<1> SUFFICES ASSUME Init PROVE LeaseInv /\ FateInv OBVIOUS
<1>1. /\ queue = Mails \X {1} /\ cur = {} /\ acked = {} /\ msgs = {} /\ hand = None
      /\ upload = {} /\ busy = [p \in Parsers |-> None] /\ turn = [m \in Mails |-> 1]
  BY DEF Init
<1>2. \A u \in UID : ~InFlight(u) BY <1>1, NoneIsNoUID DEF InFlight
<1>3. \A u \in queue : u \in UID /\ mail(u) \in Mails /\ u[2] = 1 BY <1>1 DEF UID, mail
<1>4. LeaseInv BY <1>1, <1>2, <1>3 DEF LeaseInv
<1>5. \A m \in Mails : <<m, 1>> \in queue /\ mail(<<m, 1>>) = m BY <1>1 DEF mail
<1>6. FateInv BY <1>1, <1>5 DEF FateInv
<1> QED BY <1>4, <1>6

(* Every step keeps both. *)
LEMMA LeaseStep == IInv /\ LeaseInv /\ FateInv /\ [Next]_vars => LeaseInv' /\ FateInv'
<1> SUFFICES ASSUME TypeOK, MsgInv, LeaseInv, FateInv, [Next]_vars PROVE LeaseInv' /\ FateInv'
  BY DEF IInv
<1>1. ASSUME NEW x \in msgs,
             \/ HandleInit(x) \/ HandleAuth(x) \/ HandleWork(x) \/ PullCanceled(x)
             \/ HandleSubmit(x) \/ HandleAck(x) \/ Lose(x) \/ \E u \in queue : Pull(x, u)
      PROVE  LeaseInv' /\ FateInv'
  BY <1>1, LeaseMaster
<1>2. CASE \/ \E x \in msgs : \/ Timeout(x) \/ AuthAnswer(x) \/ WorkAnswer(x) \/ WorkFails(x)
                              \/ SubmitAnswer(x) \/ InitAnswer(x)
           \/ SendInit \/ Poll \/ \E u \in upload : Submit(u) \/ SubmitCanceled(u)
           \/ PollCanceled \/ Return \/ Stop \/ Retry \/ Stopped
           \/ \E p \in Parsers : Take(p) \/ Parse(p)
           \/ UNCHANGED vars
  BY <1>2, LeaseWorker
<1>3. CASE \/ \E u \in cur : RePush(u)
           \/ \E c \in consuming : Consumed(c) \/ ConsumeFails(c)
           \/ Restart
  BY <1>3, LeaseRest
<1> QED BY <1>1, <1>2, <1>3 DEF Next

(* The 200 of the master is worth an acknowledgement even when prepare fails,
   since the worker that submits has a session and a session lives until a
   restart; and a mail that is acknowledged leaves the collector for good, its
   result consumed, being consumed, or lost by a Consume that failed or was cut
   (httpmaster.go, /worker/submit and /worker/ack; worker.go, submit). *)
THEOREM BelievedIsAccounted == Spec => []UploadedIsAccounted
<1>1. IInv /\ LeaseInv /\ FateInv => UploadedIsAccounted
  <2> SUFFICES ASSUME IInv, LeaseInv, FateInv PROVE UploadedIsAccounted OBVIOUS
  <2>1. restarts = 0 => uploaded \subseteq acked BY DEF IInv, SubmitInv
  <2>2. acked \cap (queue \cup cur) = {} BY DEF LeaseInv
  <2>3. acked \subseteq {c[1] : c \in consuming} \cup results \cup lost
                        \cup {u \in acked : mail(u) \in unparseable}
    BY DEF FateInv
  <2> QED BY <2>1, <2>2, <2>3 DEF FateInv, UploadedIsAccounted
<1> QED BY <1>1, Inductive, LeaseInit, LeaseStep, PTL DEF Spec
=============================================================================
