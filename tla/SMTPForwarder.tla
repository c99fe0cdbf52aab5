--------------------------- MODULE SMTPForwarder ---------------------------
(***************************************************************************)
(* The goroutine that forwards every received mail to another SMTP server   *)
(* (forwarders/smtp.go).  Forward sends on a channel; Start empties the     *)
(* channel, puts the mails it failed to send behind the new ones, and sends *)
(* the lot over one connection up to the first failure.                     *)
(*                                                                          *)
(* A mail without sender or recipient is passed over as if sent.  The       *)
(* channel is closed once Start has returned, so Start never sees it        *)
(* closed.                                                                  *)
(***************************************************************************)
EXTENDS Naturals, SequencesExt

CONSTANTS Mails,
          Size         \* of mailsChan

ASSUME SizeAssumption == Size \in Nat \ {0}

VARIABLES
  refused,             \* the mails the remote server does not want, ever
  silent,              \* it has yet to answer the command forwardBatch waits for
  todo, calling,       \* the mails to come, and those at the send of Forward
  panicked,            \* the mails whose Forward found the channel closed
  mailsChan, batchOfMessages, rest,
  pc,                  \* where Start is
  ctxDone, closed,
  sent                 \* what went out, in that order

intakeVars == <<todo, calling, panicked>>
serverVars == <<refused, silent>>
vars == <<serverVars, intakeVars, mailsChan, batchOfMessages, rest, pc, ctxDone, closed,
          sent>>

Init ==
  /\ refused \in SUBSET Mails /\ silent = FALSE
  /\ todo = Mails /\ calling = {} /\ panicked = {}
  /\ mailsChan = <<>> /\ batchOfMessages = <<>> /\ rest = <<>>
  /\ pc = "drain" /\ ctxDone = FALSE /\ closed = FALSE /\ sent = <<>>
-----------------------------------------------------------------------------
(* CollectAndForward, from a handler of an intake service.                  *)
Call(m) ==
  /\ m \in todo
  /\ todo' = todo \ {m} /\ calling' = calling \cup {m}
  /\ UNCHANGED <<serverVars, panicked, mailsChan, batchOfMessages, rest, pc, ctxDone,
                 closed, sent>>

Forward(m) ==
  /\ m \in calling /\ ~closed /\ Len(mailsChan) < Size
  /\ calling' = calling \ {m}
  /\ mailsChan' = Append(mailsChan, m)
  /\ UNCHANGED <<serverVars, todo, panicked, batchOfMessages, rest, pc, ctxDone, closed,
                 sent>>

\* A send on a closed channel, even one that was waiting, panics.
ForwardPanic(m) ==
  /\ m \in calling /\ closed
  /\ calling' = calling \ {m} /\ panicked' = panicked \cup {m}
  /\ UNCHANGED <<serverVars, todo, mailsChan, batchOfMessages, rest, pc, ctxDone, closed,
                 sent>>
-----------------------------------------------------------------------------
(* The loop of Start.                                                       *)

\* chan2buffer
Receive ==
  /\ pc = "drain" /\ mailsChan # <<>>
  /\ batchOfMessages' = Append(batchOfMessages, Head(mailsChan))
  /\ mailsChan' = Tail(mailsChan)
  /\ UNCHANGED <<serverVars, intakeVars, rest, pc, ctxDone, closed, sent>>

\* Mutant: the mails that failed go first.
MutDrained ==
  /\ pc = "drain" /\ mailsChan = <<>>
  /\ batchOfMessages' = rest \o batchOfMessages
  /\ pc' = IF batchOfMessages' = <<>> THEN "idle" ELSE "dial"
  /\ UNCHANGED <<serverVars, intakeVars, mailsChan, rest, ctxDone, closed, sent>>

Drained ==
  /\ pc = "drain" /\ mailsChan = <<>>
  /\ batchOfMessages' = batchOfMessages \o rest
  /\ pc' = IF batchOfMessages' = <<>> THEN "idle" ELSE "dial"
  /\ UNCHANGED <<serverVars, intakeVars, mailsChan, rest, ctxDone, closed, sent>>

\* No command of forwardBatch has a deadline or looks at the context: neither
\* those of Connect, Send and Fail nor the QUIT that ends them and AllSent.
Silent ==
  /\ pc \in {"dial", "send"} /\ ~silent /\ silent' = TRUE
  /\ UNCHANGED <<refused, intakeVars, mailsChan, batchOfMessages, rest, pc, ctxDone,
                 closed, sent>>

\* Dial, HELO, STARTTLS and AUTH.
Connect ==
  /\ pc = "dial" /\ pc' = "send"
  /\ silent' = FALSE
  /\ UNCHANGED <<refused, intakeVars, mailsChan, batchOfMessages, rest, ctxDone, closed,
                 sent>>

\* forwardOne succeeds.
Send ==
  /\ pc = "send" /\ batchOfMessages # <<>> /\ Head(batchOfMessages) \notin refused
  /\ sent' = Append(sent, Head(batchOfMessages))
  /\ batchOfMessages' = Tail(batchOfMessages)
  /\ silent' = FALSE
  /\ UNCHANGED <<refused, intakeVars, mailsChan, rest, pc, ctxDone, closed>>

\* Mutant: the batch is tried again until it goes through.
MutFail ==
  /\ pc = "dial" \/ (pc = "send" /\ batchOfMessages # <<>>)
  /\ pc' = "dial"
  /\ silent' = FALSE
  /\ UNCHANGED <<refused, intakeVars, mailsChan, batchOfMessages, rest, ctxDone, closed,
                 sent>>

\* No connection, a connection that breaks, or a mail the server refuses.
Fail ==
  /\ pc = "dial" \/ (pc = "send" /\ batchOfMessages # <<>>)
  /\ rest' = batchOfMessages /\ batchOfMessages' = <<>>
  /\ pc' = "retry"
  /\ silent' = FALSE
  /\ UNCHANGED <<refused, intakeVars, mailsChan, ctxDone, closed, sent>>

\* Mutant: the rest is not cleared once everything is sent.
MutAllSent ==
  /\ pc = "send" /\ batchOfMessages = <<>>
  /\ pc' = "drain"
  /\ silent' = FALSE
  /\ UNCHANGED <<refused, intakeVars, mailsChan, batchOfMessages, rest, ctxDone, closed,
                 sent>>

AllSent ==
  /\ pc = "send" /\ batchOfMessages = <<>>
  /\ rest' = <<>> /\ pc' = "drain"
  /\ silent' = FALSE
  /\ UNCHANGED <<refused, intakeVars, mailsChan, batchOfMessages, ctxDone, closed, sent>>

\* Ten seconds after a failure, two without anything to forward.
Waited ==
  /\ pc \in {"retry", "idle"} /\ ~ctxDone
  /\ pc' = "drain"
  /\ UNCHANGED <<serverVars, intakeVars, mailsChan, batchOfMessages, rest, ctxDone, closed,
                 sent>>

\* Mutant: the wait after a failure does not look at the context.
MutReturn ==
  /\ pc = "idle" /\ ctxDone
  /\ pc' = "done"
  /\ UNCHANGED <<serverVars, intakeVars, mailsChan, batchOfMessages, rest, ctxDone, closed,
                 sent>>

Return ==
  /\ pc \in {"retry", "idle"} /\ ctxDone
  /\ pc' = "done"
  /\ UNCHANGED <<serverVars, intakeVars, mailsChan, batchOfMessages, rest, ctxDone, closed,
                 sent>>

Stop ==
  /\ ~ctxDone /\ ctxDone' = TRUE
  /\ UNCHANGED <<serverVars, intakeVars, mailsChan, batchOfMessages, rest, pc, closed, sent>>

Close ==
  /\ pc = "done" /\ ~closed /\ closed' = TRUE
  /\ UNCHANGED <<serverVars, intakeVars, mailsChan, batchOfMessages, rest, pc, ctxDone,
                 sent>>

Next ==
  \/ \E m \in Mails : Call(m) \/ Forward(m) \/ ForwardPanic(m)
  \/ Receive \/ Drained \/ Silent \/ Connect \/ Send \/ Fail \/ AllSent \/ Waited \/ Return
  \/ Stop \/ Close

(* Start runs, but for a command nobody answers, and a Forward with room in *)
(* the channel proceeds.  A server that can be reached again and again is   *)
(* reached some day, and takes some day the mails it does not refuse.       *)
ForwardBatch == ~silent /\ (Connect \/ Send \/ Fail \/ AllSent)
Fairness ==
  /\ WF_vars(Receive \/ Drained \/ ForwardBatch \/ Waited \/ Return)
  /\ SF_vars(~silent /\ Connect) /\ SF_vars(~silent /\ Send)
  /\ \A m \in Mails : SF_vars(Forward(m))
  /\ WF_vars(Close)

Spec == Init /\ [][Next]_vars /\ Fairness
-----------------------------------------------------------------------------
TypeOK ==
  /\ refused \subseteq Mails
  /\ todo \subseteq Mails /\ calling \subseteq Mails /\ panicked \subseteq Mails
  /\ mailsChan \in Seq(Mails) /\ Len(mailsChan) <= Size
  /\ batchOfMessages \in Seq(Mails) /\ rest \in Seq(Mails) /\ sent \in Seq(Mails)
  /\ pc \in {"drain", "dial", "send", "retry", "idle", "done"}
  /\ ctxDone \in BOOLEAN /\ closed \in BOOLEAN /\ silent \in BOOLEAN
  /\ silent => pc \in {"dial", "send"}
  /\ pc = "idle" => rest = <<>>

(* All the mails Start knows of: while a batch is sent it includes rest.    *)
Everywhere ==
  mailsChan \o batchOfMessages \o (IF pc \in {"dial", "send"} THEN <<>> ELSE rest) \o sent

(* However often a batch fails, every mail is kept and none goes out twice; *)
(* after the stop, those not sent are still in the channel or the rest.     *)
SentOnce ==
  /\ TypeOK
  /\ IsInjective(Everywhere)
  /\ ToSet(Everywhere) \cup todo \cup calling \cup panicked = Mails
  /\ ToSet(sent) \cap refused = {}

(* The remote server leaves no command unanswered for ever.                 *)
Answers == []<>~silent

(* Forward, which holds up the intake and the collector behind it, waits    *)
(* for the channel only: it goes on although the server refuses mails or    *)
(* connections, as long as it answers.                                      *)
IntakeNotHeld == Answers => (calling # {} ~> (calling = {} \/ pc = "done"))

(* Once the refused mails have all been refused, a mail that comes is not   *)
(* held up by them.                                                         *)
RefusedDoNotBlock ==
  Answers => \A m \in Mails :
    (m \in ToSet(mailsChan) \ refused /\ refused \subseteq ToSet(rest))
      ~> (m \in ToSet(sent) \/ pc = "done")

(* Start returns when told to, reachable server or not, unless a command    *)
(* is never answered: then only the end of the process ends it.             *)
StopEnds == Answers => (ctxDone ~> pc = "done")
=============================================================================
