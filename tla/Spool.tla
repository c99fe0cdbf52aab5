-------------------------------- MODULE Spool --------------------------------
(***************************************************************************)
(* What a collector that keeps its mails on disk promises: a mail is either *)
(* stored, or leased to the process, and a stored mail is never forgotten,  *)
(* whatever happens to the process.  A leased one is stored again or        *)
(* acknowledged by the worker that parsed it; it may only be forgotten once *)
(* something has gone wrong: a crash, a stop, a client that left, a disk    *)
(* that refused a file.                                                     *)
(***************************************************************************)
CONSTANT Mails

VARIABLES accepted,  \* mails for which Push has returned nil
          stored,    \* mails whose file is complete
          leased,    \* mails the process has taken off the disk
          parsed,    \* mails some worker has parsed
          sound      \* nothing has gone wrong yet

vars == <<accepted, stored, leased, parsed, sound>>

Init == /\ accepted = {} /\ stored = {} /\ leased = {} /\ parsed = {}
        /\ sound = TRUE

Accept(m) == /\ m \notin accepted
             /\ accepted' = accepted \cup {m}
             /\ stored' = stored \cup {m}
             /\ UNCHANGED <<leased, parsed, sound>>

Take(m) == /\ m \in stored \ leased
           /\ stored' = stored \ {m}
           /\ leased' = leased \cup {m}
           /\ UNCHANGED <<accepted, parsed, sound>>

StoreAgain(m) == /\ m \in leased \ stored
                 /\ leased' = leased \ {m}
                 /\ stored' = stored \cup {m}
                 /\ UNCHANGED <<accepted, parsed, sound>>

Parse(m) == /\ m \in accepted
            /\ parsed' = parsed \cup {m}
            /\ UNCHANGED <<accepted, stored, leased, sound>>

Acknowledge(m) == /\ m \in leased \cap parsed
                  /\ leased' = leased \ {m}
                  /\ UNCHANGED <<accepted, stored, parsed, sound>>

\* Something goes wrong, and takes some of the leased mails with it.
Trouble == /\ sound' = FALSE
           /\ \E lost \in SUBSET leased : leased' = leased \ lost
           /\ UNCHANGED <<accepted, stored, parsed>>

Next == \/ Trouble
        \/ \E m \in Mails : \/ Accept(m) \/ Take(m) \/ StoreAgain(m)
                            \/ Parse(m) \/ Acknowledge(m)

Spec == Init /\ [][Next]_vars
=============================================================================
