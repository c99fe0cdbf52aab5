----------------------------- MODULE IMAPMonitor -----------------------------
(***************************************************************************)
(* The service that collects what arrives in an IMAP mailbox                *)
(* (services/imapmonitor.go): fetch searches for new messages, waits in     *)
(* IDLE while there is none, and hands each round to a forwarding goroutine *)
(* of its own; collect takes the messages from imapMessages; reactUpdates    *)
(* turns the updates of the server into the end of IDLE.                    *)
(*                                                                          *)
(* The IMAP client is modelled by what these see of it: one goroutine reads *)
(* the connection, and blocks on each update or message it has to hand out. *)
(***************************************************************************)
EXTENDS Naturals, Sequences, SequencesExt, FiniteSetsExt

CONSTANTS MaxUID,    \* bound: the messages that ever exist are 1 .. MaxUID
          Updates,   \* the capacity of updates, and of stopIdle (256 both)
          Faults,    \* bound: what may go wrong, once each
          MaxFaults  \* bound: how much of it in one behavior

UID == 1 .. MaxUID

VARIABLES
  box, next,        \* the mailbox: its messages, the UID of the next
  dirty,            \* a message has arrived that the server has not announced
  reader,           \* the client's reader holds a MailboxUpdate
  updates, stopIdle,   \* how many elements the channels hold
  fpc, max, todo,   \* fetch, its max, and what UidFetch has still to deliver
  cur, old,         \* what the forwarders hold: of this round (or 0), of others
  cpc, cmail,       \* collect
  rpc,              \* reactUpdates
  failed,           \* a goroutine of the group has returned an error
  start,            \* max at the start (history)
  collected,        \* how often each message was collected (history)
  expunged,         \* the messages expunged (history)
  discarded,        \* an update was discarded when a message was new (history)
  faults            \* what has gone wrong, with "stop"

serverVars == <<box, next, dirty, expunged>>
chanVars == <<reader, updates, stopIdle>>
fetchVars == <<fpc, max, start, todo, cur, old, discarded>>
collectVars == <<cpc, cmail, collected>>
vars == <<serverVars, chanVars, fetchVars, collectVars, rpc, failed, faults>>

TypeOK ==
  /\ box \subseteq UID /\ next \in 1 .. MaxUID + 1 /\ dirty \in BOOLEAN
  /\ reader \in BOOLEAN /\ updates \in 0 .. Updates /\ stopIdle \in 0 .. Updates
  /\ fpc \in {"max", "search", "reset", "idle", "wake", "fetch", "returned", "panic"}
  /\ max \in 0 .. MaxUID /\ start \in 0 .. MaxUID /\ todo \subseteq UID /\ cur \in 0 .. MaxUID /\ old \in Seq(UID)
  /\ cpc \in {"recv", "push", "returned"} /\ cmail \in 0 .. MaxUID
  /\ rpc \in {"select", "signal", "returned"} /\ failed \in BOOLEAN
  /\ collected \in [UID -> Nat] /\ expunged \subseteq UID /\ discarded \in BOOLEAN
  /\ faults \subseteq Faults

InitIn(p) ==
  /\ box \in SUBSET {1} /\ next = 2 /\ dirty = FALSE /\ reader = FALSE
  /\ updates = 0 /\ stopIdle = 0
  /\ fpc = p /\ max = 0 /\ start = 0 /\ todo = {} /\ cur = 0 /\ old = <<>>
  /\ cpc = "recv" /\ cmail = 0 /\ rpc = "select" /\ failed = FALSE
  /\ collected = [u \in UID |-> 0] /\ expunged = {} /\ discarded = FALSE /\ faults = {}

Init == InitIn("max")

Fault(f) ==
  /\ f \in Faults \ faults /\ Cardinality(faults) < MaxFaults
  /\ faults' = faults \cup {f}
Done == failed \/ "stop" \in faults
Alive == fpc # "panic"
New == {u \in box : u > max}

\* The server and the reader of the connection.
Arrive ==
  /\ Alive /\ next <= MaxUID
  /\ box' = box \cup {next} /\ next' = next + 1 /\ dirty' = TRUE
  /\ UNCHANGED <<expunged, chanVars, fetchVars, collectVars, rpc, failed, faults>>

Expunge(u) ==
  /\ Alive /\ u \in box /\ Fault("expunge")
  /\ box' = box \ {u} /\ expunged' = expunged \cup {u}
  /\ UNCHANGED <<next, dirty, chanVars, fetchVars, collectVars, rpc, failed>>

Announce ==
  /\ Alive /\ dirty /\ ~reader /\ fpc # "returned"
  /\ reader' = TRUE /\ dirty' = FALSE
  /\ UNCHANGED <<box, next, expunged, updates, stopIdle, fetchVars, collectVars, rpc, failed, faults>>

Update ==
  /\ Alive /\ reader /\ updates < Updates
  /\ reader' = FALSE /\ updates' = updates + 1
  /\ UNCHANGED <<serverVars, stopIdle, fetchVars, collectVars, rpc, failed, faults>>

\* reactUpdates.  It does not look at its context while it sends.
React ==
  /\ Alive /\ rpc = "select" /\ updates > 0
  /\ updates' = updates - 1 /\ rpc' = "signal"
  /\ UNCHANGED <<serverVars, reader, stopIdle, fetchVars, collectVars, failed, faults>>

\* Mutant: the update is read and fetch is not told.
MutSignal ==
  /\ Alive /\ rpc = "signal" /\ rpc' = "select"
  /\ UNCHANGED <<serverVars, chanVars, fetchVars, collectVars, failed, faults>>

Signal ==
  /\ Alive /\ rpc = "signal" /\ stopIdle < Updates
  /\ stopIdle' = stopIdle + 1 /\ rpc' = "select"
  /\ UNCHANGED <<serverVars, reader, updates, fetchVars, collectVars, failed, faults>>

ReactReturns ==
  /\ Alive /\ rpc = "select" /\ Done
  /\ rpc' = "returned"
  /\ UNCHANGED <<serverVars, chanVars, fetchVars, collectVars, failed, faults>>

(* The end of fetch closes imapMessages: a forwarder that is sending to it   *)
(* panics.                                                                   *)
FetchReturns(err) ==
  /\ fpc' = IF cur = 0 /\ old = <<>> THEN "returned" ELSE "panic"
  /\ failed' = (failed \/ err)

getMaxUID ==
  /\ fpc = "max" /\ ~reader
  /\ IF box = {} THEN fpc' = "panic" /\ UNCHANGED <<max, start>>
     ELSE fpc' = "search" /\ max' = Max(box) /\ start' = max'
  /\ UNCHANGED <<serverVars, chanVars, todo, cur, old, discarded, collectVars, rpc, failed, faults>>

(* The range max+1:* always holds the last message, whatever its UID.  A     *)
(* first UID other than max is taken for a new message.                      *)
getNewUIDs == IF New # {} \/ box = {} THEN New ELSE {Max(box)}

\* Mutant: every answer of the search is taken for new messages.
MutSearch ==
  /\ fpc = "search" /\ ~reader
  /\ IF getNewUIDs # {}
     THEN fpc' = "fetch" /\ max' = Max(getNewUIDs) /\ todo' = getNewUIDs
     ELSE fpc' = "reset" /\ UNCHANGED <<max, todo>>
  /\ UNCHANGED <<serverVars, chanVars, start, cur, old, discarded, collectVars, rpc, failed, faults>>

Search ==
  /\ fpc = "search" /\ ~reader
  /\ LET uids == getNewUIDs IN
       IF uids # {} /\ Min(uids) # max
       THEN fpc' = "fetch" /\ max' = Max(uids) /\ todo' = uids
       ELSE fpc' = "reset" /\ UNCHANGED <<max, todo>>
  /\ UNCHANGED <<serverVars, chanVars, start, cur, old, discarded, collectVars, rpc, failed, faults>>

\* Before IDLE stopIdle is emptied.
Reset ==
  /\ fpc = "reset"
  /\ IF Done THEN FetchReturns(FALSE) /\ UNCHANGED <<stopIdle, discarded>>
     ELSE /\ fpc' = "idle" /\ stopIdle' = 0 /\ UNCHANGED failed
          /\ discarded' = (discarded \/ (stopIdle > 0 /\ New # {}))
  /\ UNCHANGED <<serverVars, reader, updates, max, start, todo, cur, old, collectVars, rpc, faults>>

\* IDLE ends with an element of stopIdle, or its close by reactUpdates, and
\* the server's answer.
Idle ==
  /\ fpc = "idle" /\ (stopIdle > 0 \/ rpc = "returned")
  /\ fpc' = "wake" /\ stopIdle' = IF stopIdle > 0 THEN stopIdle - 1 ELSE 0
  /\ UNCHANGED <<serverVars, reader, updates, max, start, todo, cur, old, discarded, collectVars, rpc, failed, faults>>

Wake ==
  /\ fpc = "wake" /\ ~reader
  /\ IF Done THEN FetchReturns(FALSE) ELSE fpc' = "search" /\ UNCHANGED failed
  /\ UNCHANGED <<serverVars, chanVars, max, start, todo, cur, old, discarded, collectVars, rpc, faults>>

\* UidFetch: the reader hands each message, the oldest first, to the forwarder
\* of this round.
Deliver ==
  /\ fpc = "fetch" /\ todo # {} /\ cur = 0 /\ ~reader
  /\ todo' = todo \ {Min(todo)} /\ cur' = IF Min(todo) \in box THEN Min(todo) ELSE 0
  /\ UNCHANGED <<serverVars, chanVars, fpc, max, start, old, discarded, collectVars, rpc, failed, faults>>

FetchEnd ==
  /\ fpc = "fetch" /\ todo = {} /\ ~reader
  /\ fpc' = "search" /\ cur' = 0
  /\ old' = IF cur = 0 THEN old ELSE Append(old, cur)
  /\ UNCHANGED <<serverVars, chanVars, max, start, todo, discarded, collectVars, rpc, failed, faults>>

\* The connection is lost, which a command under way returns.
ClientFails ==
  /\ fpc \in {"max", "search", "idle", "wake", "fetch"} /\ ~reader /\ Fault("connection")
  /\ FetchReturns(TRUE)
  /\ UNCHANGED <<serverVars, chanVars, max, start, todo, cur, old, discarded, collectVars, rpc>>

\* A forwarder meets collect.
Forward(i) ==
  /\ Alive /\ cpc = "recv"
  /\ \/ i = 0 /\ cur # 0 /\ cmail' = cur /\ cur' = 0 /\ UNCHANGED old
     \/ i \in DOMAIN old /\ cmail' = old[i] /\ old' = RemoveAt(old, i) /\ UNCHANGED cur
  /\ cpc' = "push"
  /\ UNCHANGED <<serverVars, chanVars, fpc, max, start, todo, discarded, collected, rpc, failed, faults>>

\* CollectAndForward: the collector may be slow, canceled or out of order.
Collect ==
  /\ Alive /\ cpc = "push"
  /\ \/ /\ collected' = [collected EXCEPT ![cmail] = @ + 1]
        /\ cpc' = "recv" /\ UNCHANGED <<failed, faults>>
     \/ /\ IF Done THEN UNCHANGED faults ELSE Fault("collector")
        /\ cpc' = "returned" /\ failed' = TRUE /\ UNCHANGED collected
  /\ cmail' = 0
  /\ UNCHANGED <<serverVars, chanVars, fetchVars, rpc>>

CollectEnds ==
  /\ cpc = "recv" /\ fpc = "returned"
  /\ cpc' = "returned"
  /\ UNCHANGED <<serverVars, chanVars, fetchVars, cmail, collected, rpc, failed, faults>>

Stop ==
  /\ Alive /\ Fault("stop")
  /\ UNCHANGED <<serverVars, chanVars, fetchVars, collectVars, rpc, failed>>

Fetch == getMaxUID \/ Search \/ Reset \/ Idle \/ Wake \/ Deliver \/ FetchEnd
Reacts == React \/ Signal \/ ReactReturns
Collects == (\E i \in 0 .. Len(old) : Forward(i)) \/ Collect \/ CollectEnds

Next ==
  \/ Arrive \/ (\E u \in UID : Expunge(u)) \/ Announce \/ Update
  \/ Fetch \/ ClientFails \/ Reacts \/ Collects \/ Stop

(* Goroutines run, the server announces what has arrived.                    *)
Fairness ==
  /\ WF_vars(Announce) /\ WF_vars(Update)
  /\ WF_vars(Fetch) /\ WF_vars(Reacts) /\ WF_vars(Collects)

Spec == Init /\ [][Next]_vars /\ Fairness
-----------------------------------------------------------------------------
Ended == fpc = "panic" \/ (fpc = "returned" /\ cpc = "returned" /\ rpc = "returned")

(* A message is collected once, and never one that was there at the start;   *)
(* unless the newest is expunged: then the range of the search comes back to *)
(* an older one (imapmonitor.go:218, :360).                                  *)
CollectedOnce ==
  expunged = {} => \A u \in UID : collected[u] <= (IF u > start THEN 1 ELSE 0)

(* The messages that neither are collected nor on their way are those an     *)
(* error or the end dropped; none is skipped by max.                         *)
NoneSkipped ==
  ~Done /\ Alive =>
    \A u \in box : start < u /\ u <= max =>
      collected[u] > 0 \/ u \in todo \cup ToSet(old) \cup {cur, cmail}

(* updates is full and the reader holds one more, before the answer that     *)
(* fetch waits for, while reactUpdates has returned or waits for fetch to    *)
(* read stopIdle, which is full too; or fetch, which reads it, has returned. *)
Clogged ==
  LET stuck == rpc = "signal" /\ stopIdle = Updates
  IN  \/ reader /\ updates = Updates /\ (rpc = "returned" \/ stuck)
      \/ fpc = "returned" /\ stuck

Waiting == {u \in box : u > start /\ collected[u] = 0}

(* The messages that arrive are collected, or the service is clogged, or the *)
(* update that announced one was emptied from stopIdle after the search and  *)
(* before IDLE (imapmonitor.go:225).  A stop, or a failure, ends the service, *)
(* unless it is clogged, or collect has left with a message it did not take, *)
(* on which the reader waits.                                                *)
MonitorGoesOn ==
  (fpc # "max" /\ Waiting # {}) \/ Done ~>
    IF Done THEN \/ Ended \/ Clogged
                 \/ fpc = "fetch" /\ cpc = "returned" /\ cur # 0 /\ todo # {}
            ELSE Waiting = {} \/ ~Alive \/ Clogged \/ discarded
=============================================================================
