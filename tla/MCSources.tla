------------------------------ MODULE MCSources ------------------------------
(***************************************************************************)
(* The services that get something from outside: the IMAP monitor, the      *)
(* servers mails come in by, and the feed of phishing URLs.  They share no   *)
(* state.  Init chooses which of the three runs, the other two have ended    *)
(* and stay so.                                                             *)
(***************************************************************************)
EXTENDS Naturals, Sequences, FiniteSets, TLC

CONSTANTS MaxUID, Updates, MonitorFaults, MaxMonitorFaults,
          Feeds, FeedFaults, MaxFeedFaults,
          Conns, Mails, Rcpts, Uses, MaxAborts, MaxFails

ASSUME MonitorAssumption == MaxUID \in Nat \ {0} /\ Updates \in Nat \ {0}
ASSUME FeedsAssumption ==
  /\ Feeds \in Seq(Seq([url : STRING, id : Nat, ok : BOOLEAN]))
  /\ Feeds # <<>>
ASSUME ConnsAssumption == IsFiniteSet(Conns)
ASSUME MailsAssumption == {} \notin Mails      \* {} stands for no mail
ASSUME FailsAssumption == MaxFails \in Nat

VARIABLES box, next, dirty, reader, updates, stopIdle, fpc, max, todo, cur, old,
          cpc, cmail, rpc, failed, start, collected, expunged, discarded, faults
Monitor == INSTANCE IMAPMonitor
  WITH Faults <- MonitorFaults, MaxFaults <- MaxMonitorFaults

VARIABLES feedServer, feed, etag, dl, sees, pos, offer, open, acc, tree, loop, locked,
          feedDone, feedLeft
Feed == INSTANCE Phishtank
  WITH Faults <- FeedFaults, MaxFaults <- MaxFeedFaults,
       server <- feedServer, done <- feedDone, faults <- feedLeft

VARIABLES server, done, conn, message, aborted, forwarded, pushed, accepted, lost, fails,
          held
Servers == INSTANCE Intake WITH collected <- pushed

MonitorOver == Monitor!InitIn("panic") /\ box = {}
FeedOver    == Feed!InitIn("over", "returned", {}) /\ feedServer = Len(Feeds)
ServersOver == Servers!InitIn(TRUE, {[k \in Servers!Kinds |-> "returned"]})

Init ==
  \/ Monitor!Init /\ FeedOver /\ ServersOver
  \/ MonitorOver /\ Feed!Init /\ ServersOver
  \/ MonitorOver /\ FeedOver /\ Servers!Init

monitor == <<box, next, dirty, reader, updates, stopIdle, fpc, max, todo, cur, old,
             cpc, cmail, rpc, failed, start, collected, expunged, discarded, faults>>
phishtank == <<feedServer, feed, etag, dl, sees, pos, offer, open, acc, tree, loop,
               locked, feedDone, feedLeft>>
intake == <<server, done, conn, message, aborted, forwarded, pushed, accepted, lost, fails,
            held>>
vars == <<monitor, phishtank, intake>>

Next ==
  \/ Monitor!Next /\ UNCHANGED <<phishtank, intake>>
  \/ Feed!Next /\ UNCHANGED <<monitor, intake>>
  \/ Servers!Next /\ UNCHANGED <<monitor, phishtank>>

Spec == Init /\ [][Next]_vars /\ Monitor!Fairness /\ Feed!Fairness /\ Servers!Fairness
-----------------------------------------------------------------------------
\* services/imapmonitor.go: a message is collected once, and none is skipped.
MonitorOnce == Monitor!TypeOK /\ Monitor!CollectedOnce /\ Monitor!NoneSkipped

\* services/imapmonitor.go: what arrives is collected, and a stop ends the service.
MonitorGoesOn == Monitor!MonitorGoesOn

\* phishtank/: the tree is always all of one version of the feed.
TreeIsWhole == Feed!TypeOK /\ Feed!TreeIsWhole

\* phishtank/: the tree becomes the newest version, and a stop ends the service.
RefreshGoesOn == Feed!RefreshGoesOn

\* services/milter.go, smtp.go, http.go: what is collected is the client's own
\* mail, and what the client was told is true.
HandedOnce == Servers!TypeOK /\ Servers!MessageIsOwn /\ Servers!AnswerIsTrue

\* services/: servers and handlers end.
IntakeEnds == Servers!IntakeEnds
-----------------------------------------------------------------------------
(* The instance of the run: two connections, and three versions of the feed, *)
(* with an entry that does not parse and a URL that has two.                 *)
CONSTANTS c1, c2

MCUses == c1 :> {"milter", "http"} @@ c2 :> {"smtp", "http"}

Entry(u, i, o) == [url |-> u, id |-> i, ok |-> o]
MCFeeds == << <<Entry("a", 1, TRUE), Entry("b", 2, FALSE)>>,
              <<Entry("a", 1, TRUE), Entry("a", 3, TRUE), Entry("c", 4, TRUE)>>,
              <<Entry("c", 4, TRUE)>> >>
=============================================================================
