---------------------------- MODULE BatchAction ----------------------------
(***************************************************************************)
(* The commands that parse a finite set of mails: an mbox file              *)
(* (actions/mbox.go), mail directories (actions/maildir.go) or an IMAP      *)
(* mailbox (actions/imapdownload.go).  A reader hands the mails over to the *)
(* workers of ParseMany (parser/mailparser.go), these hand the features to  *)
(* a goroutine that consumes them; all channels are unbuffered.  The        *)
(* goroutines form a group: the first error ends the group's context.       *)
(***************************************************************************)
EXTENDS Naturals, FiniteSets

CONSTANTS Mails,
          Workers,      \* those of ParseMany
          None

ASSUME NoneAssumption == None \notin Mails

VARIABLES
  action,               \* "scan" for mbox and maildir, "imap"
  broken,               \* the mails that Parse refuses
  todo,                 \* the mails nobody has read yet
  fetch, fetched,       \* imap: the goroutine of UidFetch, its message on imapMsgs
  reader, incoming,     \* the reader, and its mail on incomings
  work, job,            \* the workers, and what each holds
  results,              \* "open" or "closed"
  cons, feature,        \* the goroutine that consumes
  consumed, dropped,    \* dropped: not parsed, or in the hands of who returned
  ctxDone,              \* a signal has ended the context
  failed                \* a goroutine of the group has returned an error

fetchVars == <<fetch, fetched>>
readVars == <<reader, incoming>>
workVars == <<work, job>>
consVars == <<cons, feature, consumed>>
vars == <<action, broken, todo, fetchVars, readVars, workVars, results, consVars,
          dropped, ctxDone, failed>>

TypeOK ==
  /\ action \in {"scan", "imap"} /\ broken \subseteq Mails
  /\ todo \subseteq Mails /\ consumed \subseteq Mails /\ dropped \subseteq Mails
  /\ fetch \in {"search", "run", "closed", "lost"} /\ fetched \in Mails \cup {None}
  /\ reader \in {"run", "done"} /\ incoming \in Mails \cup {None}
  /\ work \in [Workers -> {"recv", "parse", "send", "done"}]
  /\ job \in [Workers -> Mails \cup {None}]
  /\ results \in {"open", "closed"}
  /\ cons \in {"recv", "consume", "done"} /\ feature \in Mails \cup {None}
  /\ ctxDone \in BOOLEAN /\ failed \in BOOLEAN
  /\ \A w \in Workers : job[w] = None <=> work[w] \in {"recv", "done"}
  /\ feature = None <=> cons # "consume"

Init ==
  /\ action \in {"scan", "imap"} /\ broken \in SUBSET Mails
  /\ todo = Mails
  /\ fetch = "search" /\ fetched = None
  /\ reader = "run" /\ incoming = None
  /\ work = [w \in Workers |-> "recv"] /\ job = [w \in Workers |-> None]
  /\ results = "open" /\ cons = "recv" /\ feature = None
  /\ consumed = {} /\ dropped = {} /\ ctxDone = FALSE /\ failed = FALSE

lctxDone == ctxDone \/ failed
-----------------------------------------------------------------------------
(* scanMbox and readDir.                                                    *)

Read ==
  /\ action = "scan" /\ reader = "run" /\ incoming = None
  /\ \E m \in todo : incoming' = m /\ todo' = todo \ {m}
  /\ UNCHANGED <<action, broken, fetchVars, reader, workVars, results, consVars,
                 dropped, ctxDone, failed>>

\* Returns and closes incomings.
ReadEnd ==
  /\ action = "scan" /\ reader = "run" /\ incoming = None /\ todo = {}
  /\ reader' = "done"
  /\ UNCHANGED <<action, broken, todo, fetchVars, incoming, workVars, results, consVars,
                 dropped, ctxDone, failed>>

(* imapdownload: UidSearch, then UidFetch that closes imapMsgs at its end.  *)
Search ==
  /\ action = "imap" /\ fetch = "search" /\ fetch' = "run"
  /\ UNCHANGED <<action, broken, todo, fetched, readVars, workVars, results, consVars,
                 dropped, ctxDone, failed>>

\* When the search fails nobody closes imapMsgs.
SearchFails ==
  /\ action = "imap" /\ fetch = "search"
  /\ fetch' = "lost" /\ failed' = TRUE
  /\ UNCHANGED <<action, broken, todo, fetched, readVars, workVars, results, consVars,
                 dropped, ctxDone>>

Fetch ==
  /\ fetch = "run" /\ fetched = None
  /\ \E m \in todo : fetched' = m /\ todo' = todo \ {m}
  /\ UNCHANGED <<action, broken, fetch, readVars, workVars, results, consVars, dropped,
                 ctxDone, failed>>

FetchEnd ==
  /\ fetch = "run" /\ fetched = None /\ todo = {} /\ fetch' = "closed"
  /\ UNCHANGED <<action, broken, todo, fetched, readVars, workVars, results, consVars,
                 dropped, ctxDone, failed>>

\* The connection breaks, or is closed by the signal.
FetchFails ==
  /\ fetch = "run" /\ fetched = None
  /\ fetch' = "closed" /\ failed' = TRUE
  /\ UNCHANGED <<action, broken, todo, fetched, readVars, workVars, results, consVars,
                 dropped, ctxDone>>

ImapRead ==
  /\ fetched # None /\ reader = "run" /\ incoming = None
  /\ incoming' = fetched /\ fetched' = None
  /\ UNCHANGED <<action, broken, todo, fetch, reader, workVars, results, consVars,
                 dropped, ctxDone, failed>>

ImapReadEnd ==
  /\ fetch = "closed" /\ fetched = None /\ reader = "run" /\ incoming = None
  /\ reader' = "done"
  /\ UNCHANGED <<action, broken, todo, fetchVars, incoming, workVars, results, consVars,
                 dropped, ctxDone, failed>>

\* Mutant: this goroutine too forgets the context.
MutReadCancel ==
  /\ action = "imap" /\ incoming # None /\ ctxDone
  /\ reader' = "done" /\ incoming' = None /\ dropped' = dropped \cup {incoming}
  /\ UNCHANGED <<action, broken, todo, fetchVars, workVars, results, consVars, ctxDone,
                 failed>>

\* imapdownload looks at the context of the signal, not at the group's.
ReadCancel ==
  /\ incoming # None /\ IF action = "imap" THEN ctxDone ELSE lctxDone
  /\ reader' = "done" /\ incoming' = None /\ dropped' = dropped \cup {incoming}
  /\ UNCHANGED <<action, broken, todo, fetchVars, workVars, results, consVars, ctxDone,
                 failed>>
-----------------------------------------------------------------------------
(* ParseMany.                                                               *)

Receive(w) ==
  /\ incoming # None /\ work[w] = "recv"
  /\ work' = [work EXCEPT ![w] = "parse"] /\ job' = [job EXCEPT ![w] = incoming]
  /\ incoming' = None
  /\ UNCHANGED <<action, broken, todo, fetchVars, reader, results, consVars, dropped,
                 ctxDone, failed>>

Parse(w) ==
  /\ work[w] = "parse"
  /\ IF job[w] \in broken
       THEN /\ work' = [work EXCEPT ![w] = "recv"] /\ job' = [job EXCEPT ![w] = None]
            /\ dropped' = dropped \cup {job[w]}
       ELSE work' = [work EXCEPT ![w] = "send"] /\ UNCHANGED <<job, dropped>>
  /\ UNCHANGED <<action, broken, todo, fetchVars, readVars, results, consVars, ctxDone,
                 failed>>

\* Mutant: the worker keeps what it has sent.
MutSend(w) ==
  /\ work[w] = "send" /\ cons = "recv"
  /\ cons' = "consume" /\ feature' = job[w]
  /\ work' = [work EXCEPT ![w] = "recv"]
  /\ UNCHANGED <<action, broken, todo, fetchVars, readVars, job, results, consumed,
                 dropped, ctxDone, failed>>

\* The send on results, which no select accompanies.
Send(w) ==
  /\ work[w] = "send" /\ cons = "recv"
  /\ cons' = "consume" /\ feature' = job[w]
  /\ work' = [work EXCEPT ![w] = "recv"] /\ job' = [job EXCEPT ![w] = None]
  /\ UNCHANGED <<action, broken, todo, fetchVars, readVars, results, consumed, dropped,
                 ctxDone, failed>>

\* incomings is closed, or the context done.
WorkerEnd(w) ==
  /\ work[w] = "recv" /\ (lctxDone \/ reader = "done")
  /\ work' = [work EXCEPT ![w] = "done"]
  /\ UNCHANGED <<action, broken, todo, fetchVars, readVars, job, results, consVars,
                 dropped, ctxDone, failed>>

\* Mutant: the results are closed as soon as the mails are.
MutParseManyReturn ==
  /\ results = "open" /\ reader = "done" /\ \A w \in Workers : work[w] # "parse"
  /\ results' = "closed"
  /\ UNCHANGED <<action, broken, todo, fetchVars, readVars, workVars, consVars, dropped,
                 ctxDone, failed>>

ParseManyReturn ==
  /\ results = "open" /\ \A w \in Workers : work[w] = "done"
  /\ results' = "closed"
  /\ UNCHANGED <<action, broken, todo, fetchVars, readVars, workVars, consVars, dropped,
                 ctxDone, failed>>
-----------------------------------------------------------------------------
Consume ==
  /\ cons = "consume"
  /\ consumed' = consumed \cup {feature} /\ cons' = "recv" /\ feature' = None
  /\ UNCHANGED <<action, broken, todo, fetchVars, readVars, workVars, results, dropped,
                 ctxDone, failed>>

ConsumeFails ==
  /\ cons = "consume"
  /\ dropped' = dropped \cup {feature} /\ cons' = "done" /\ feature' = None
  /\ failed' = TRUE
  /\ UNCHANGED <<action, broken, todo, fetchVars, readVars, workVars, results, consumed,
                 ctxDone>>

ConsumerEnd ==
  /\ cons = "recv" /\ (lctxDone \/ results = "closed")
  /\ cons' = "done"
  /\ UNCHANGED <<action, broken, todo, fetchVars, readVars, workVars, results, feature,
                 consumed, dropped, ctxDone, failed>>

Signal ==
  /\ ~ctxDone /\ ctxDone' = TRUE
  /\ UNCHANGED <<action, broken, todo, fetchVars, readVars, workVars, results, consVars,
                 dropped, failed>>

Next ==
  \/ Read \/ ReadEnd \/ ReadCancel
  \/ Search \/ SearchFails \/ Fetch \/ FetchEnd \/ FetchFails \/ ImapRead \/ ImapReadEnd
  \/ \E w \in Workers : Receive(w) \/ Parse(w) \/ Send(w) \/ WorkerEnd(w)
  \/ ParseManyReturn \/ Consume \/ ConsumeFails \/ ConsumerEnd
  \/ Signal

(* Every goroutine that can go on does; the server answers, or the          *)
(* connection breaks.                                                       *)
Fairness ==
  /\ WF_vars(Read \/ ReadEnd \/ ReadCancel \/ ImapRead \/ ImapReadEnd)
  /\ WF_vars(Search \/ SearchFails \/ Fetch \/ FetchEnd \/ FetchFails)
  /\ \A w \in Workers : /\ WF_vars(Receive(w) \/ Parse(w) \/ WorkerEnd(w))
                        /\ SF_vars(Send(w))
  /\ WF_vars(ParseManyReturn)
  /\ WF_vars(Consume \/ ConsumeFails \/ ConsumerEnd)

Spec == Init /\ [][Next]_vars /\ Fairness
-----------------------------------------------------------------------------
(* Where a mail is on its way.                                              *)
Holders(m) ==
  (IF m \in todo THEN {"todo"} ELSE {}) \cup (IF m = fetched THEN {"fetched"} ELSE {})
  \cup (IF m = incoming THEN {"incoming"} ELSE {})
  \cup {w \in Workers : job[w] = m}
  \cup (IF m = feature THEN {"feature"} ELSE {})
  \cup (IF m \in consumed THEN {"consumed"} ELSE {})
  \cup (IF m \in dropped THEN {"dropped"} ELSE {})

(* Whatever the interleaving, the error or the signal, no mail is consumed  *)
(* twice, and none that is not accounted for goes missing.                  *)
OneHolder == TypeOK /\ \A m \in Mails : Cardinality(Holders(m)) = 1

(* g.Wait: all the goroutines have returned.                                *)
Returned ==
  /\ reader = "done" /\ results = "closed" /\ cons = "done"
  /\ action = "imap" => fetch \in {"closed", "lost"}

(* A command that ends undisturbed has consumed all that could be parsed.   *)
AllConsumed == Returned /\ ~lctxDone => consumed = Mails \ broken

(* The four ways to hang after an error or a signal.  A worker sends to a   *)
(* goroutine that has returned, so that ParseMany waits for it; and in      *)
(* imapdownload the client's own goroutine does, or the reader waits for    *)
(* workers that have returned, or for a channel that nobody will close.     *)
ResultHeld == cons = "done" /\ \E w \in Workers : work[w] = "send"
MessageHeld == reader = "done" /\ fetched # None
MailHeld ==
  /\ action = "imap" /\ ~ctxDone
  /\ incoming # None /\ \A w \in Workers : work[w] = "done"
SearchLost == fetch = "lost" /\ reader = "run" /\ incoming = None

(* Undisturbed the command ends; after an error or a signal it ends as      *)
(* well, or hangs in one of these ways, a scan only in the first.            *)
CommandEnds ==
  <>[](Returned \/ (lctxDone /\ (ResultHeld \/ MessageHeld \/ MailHeld \/ SearchLost)))
=============================================================================
