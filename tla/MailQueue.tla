------------------------------ MODULE MailQueue ------------------------------
(***************************************************************************)
(* What every collector promises its callers (collectors.Collector): a     *)
(* mail that Push has accepted is handed to a worker again and again until *)
(* a worker has parsed it and acknowledged it.  Delivery is at least once; *)
(* a mail has one turn at a time, and only a parsed mail may leave while   *)
(* the service is running.                                                 *)
(***************************************************************************)
CONSTANT Mails

VARIABLES accepted,   \* mails for which Push has returned nil
          waiting,    \* mails whose turn with a worker is still to come
          held,       \* mails a worker has pulled and not acknowledged
          parsed,     \* mails some worker has parsed
          open        \* the collector's context is not done

vars == <<accepted, waiting, held, parsed, open>>

TypeOK == /\ accepted \subseteq Mails
          /\ waiting \subseteq accepted
          /\ held \subseteq accepted
          /\ parsed \subseteq accepted
          /\ open \in BOOLEAN

Init == /\ accepted = {} /\ waiting = {} /\ held = {} /\ parsed = {}
        /\ open = TRUE

Accept(m) == /\ m \notin accepted
             /\ accepted' = accepted \cup {m}
             /\ waiting' = waiting \cup {m}
             /\ UNCHANGED <<held, parsed, open>>

Lease(m) == /\ m \in waiting \ held
            /\ waiting' = waiting \ {m}
            /\ held' = held \cup {m}
            /\ UNCHANGED <<accepted, parsed, open>>

\* The lease ran out: the mail takes another turn.
GiveBack(m) == /\ m \in held \ waiting
               /\ held' = held \ {m}
               /\ waiting' = waiting \cup {m}
               /\ UNCHANGED <<accepted, parsed, open>>

Parse(m) == /\ m \in accepted
            /\ parsed' = parsed \cup {m}
            /\ UNCHANGED <<accepted, waiting, held, open>>

Acknowledge(m) == /\ m \in held \cap parsed
                  /\ held' = held \ {m}
                  /\ UNCHANGED <<accepted, waiting, parsed, open>>

Shut == /\ open
        /\ open' = FALSE
        /\ UNCHANGED <<accepted, waiting, held, parsed>>

\* An in-memory queue keeps nothing past its shutdown.
Drop(m) == /\ ~open
           /\ m \in waiting \cup held
           /\ waiting' = waiting \ {m}
           /\ held' = held \ {m}
           /\ UNCHANGED <<accepted, parsed, open>>

Next == \/ Shut
        \/ \E m \in Mails : \/ Accept(m) \/ Lease(m) \/ GiveBack(m)
                            \/ Parse(m) \/ Acknowledge(m) \/ Drop(m)

Spec == Init /\ [][Next]_vars
=============================================================================
