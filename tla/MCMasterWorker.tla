--------------------------- MODULE MCMasterWorker ---------------------------
(* One mail, which may be leased several times over; one parsing goroutine. *)
EXTENDS MasterWorker

CONSTANTS m1, p1

MCMails == {m1}
MCParsers == {p1}
=============================================================================
