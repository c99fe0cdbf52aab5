---------------------------- MODULE SourcesProofs ----------------------------
(***************************************************************************)
(* Theorems about the services that get something from outside: the feed of *)
(* phishing URLs, the servers mails come in by, and the IMAP monitor.  Each  *)
(* has an invariant of its own, which the steps of the two others leave     *)
(* alone; it holds in the component Init runs and in one that has ended.    *)
(***************************************************************************)
EXTENDS MCSources, FiniteSetTheorems, WellFoundedInduction, TLAPS

-----------------------------------------------------------------------------
(* phishtank/.  What the first n entries of a version say of each URL: what  *)
(* BuildTree has made of them.                                              *)
Partial(v, n) == [u \in Feed!URLs |->
  {Feeds[v][i].id : i \in {j \in 1..n : Feeds[v][j].url = u /\ Feeds[v][j].ok}}]

(* The ETag is that of a version whose whole body was written; a feed newer  *)
(* than it may be cut.                                                      *)
CacheInv ==
  /\ etag <= feedServer /\ feed.v <= feedServer /\ sees <= feedServer
  /\ etag # 0 => etag <= feed.v
  /\ etag # 0 /\ feed.v = etag => feed.n = Len(Feeds[etag])

\* Between the requests and the parse the old ETag is older than what is written.
DownloadInv ==
  /\ dl \in {"lock", "head", "get", "copy", "etag"} => pos = 0 /\ acc = Feed!Empty /\ ~offer
  /\ dl = "get" => etag < feedServer
  /\ dl \in {"copy", "etag"} => etag < sees /\ sees # 0
  /\ dl = "etag" => feed.v = sees /\ feed.n = Len(Feeds[sees])
  /\ dl = "parse" => /\ sees # 0 /\ feed.v = sees /\ feed.n = Len(Feeds[sees])
                     /\ pos <= feed.n /\ acc = Partial(sees, pos) /\ ~offer

\* What BuildTree is about to give to Start.
BuildInv ==
  /\ dl \in {"clean", "over"} /\ loop = "build" /\ ~offer => acc = Feed!Whole(sees) /\ sees # 0
  /\ open = {} => dl = "over" /\ ~offer

FeedInv == Feed!TypeOK /\ CacheInv /\ DownloadInv /\ BuildInv /\ Feed!TreeIsWhole

\* A version is a sequence of entries.
LEMMA VersionsAreFeeds ==
  \A v \in Feed!Versions : /\ Len(Feeds[v]) \in Nat /\ DOMAIN Feeds[v] = 1..Len(Feeds[v])
                           /\ \A i \in 1..Len(Feeds[v]) : Feeds[v][i].id \in Nat /\ Feeds[v][i].ok \in BOOLEAN
<1> DEFINE R == [url : STRING, id : Nat, ok : BOOLEAN]
<1>1. \A e \in R : e.id \in Nat /\ e.ok \in BOOLEAN OBVIOUS
<1> HIDE DEF R
<1>2. \A v \in Feed!Versions : Feeds[v] \in Seq(R)
  BY FeedsAssumption DEF Feed!Versions, R
<1>3. \A s \in Seq(R) : Len(s) \in Nat /\ DOMAIN s = 1..Len(s) /\ \A i \in 1..Len(s) : s[i] \in R
  OBVIOUS
<1> QED BY <1>1, <1>2, <1>3

\* All the entries of a version say what the version says.
LEMMA PartialIsWhole ==
  ASSUME NEW v \in Feed!Versions
  PROVE  Partial(v, Len(Feeds[v])) = Feed!Whole(v)
BY VersionsAreFeeds DEF Partial, Feed!Whole

\* An entry adds to the tree what it says.
LEMMA EntryIsAdded ==
  ASSUME NEW v \in Feed!Versions, NEW n \in Nat, n < Len(Feeds[v])
  PROVE  Feed!BuildTree(Partial(v, n), Feeds[v][n + 1]) = Partial(v, n + 1)
<1> DEFINE e == Feeds[v][n + 1]
           Ids(u, k) == {Feeds[v][i].id : i \in {j \in 1..k : Feeds[v][j].url = u /\ Feeds[v][j].ok}}
<1>1. n + 1 \in DOMAIN Feeds[v] /\ 1..n + 1 = (1..n) \cup {n + 1} /\ e.ok \in BOOLEAN
  BY VersionsAreFeeds
<1>2. e.url \in Feed!URLs
  <2> DEFINE URLsOf == {Feeds[v][i].url : i \in DOMAIN Feeds[v]}
  <2>1. e.url \in URLsOf BY <1>1
  <2> QED BY <2>1 DEF Feed!URLs
<1>3. ASSUME NEW u
      PROVE  Ids(u, n + 1) = IF e.url = u /\ e.ok THEN Ids(u, n) \cup {e.id} ELSE Ids(u, n)
  <2> DEFINE Old == {j \in 1..n : Feeds[v][j].url = u /\ Feeds[v][j].ok}
             New == {j \in 1..n + 1 : Feeds[v][j].url = u /\ Feeds[v][j].ok}
  <2>1. New = IF e.url = u /\ e.ok THEN Old \cup {n + 1} ELSE Old BY <1>1
  <2> HIDE DEF Old, New
  <2>2. {Feeds[v][i].id : i \in New} =
          IF e.url = u /\ e.ok THEN {Feeds[v][i].id : i \in Old} \cup {e.id}
          ELSE {Feeds[v][i].id : i \in Old}
    BY <2>1
  <2> QED BY <2>2 DEF Old, New
<1>4. /\ Partial(v, n) = [u \in Feed!URLs |-> Ids(u, n)]
      /\ Partial(v, n + 1) = [u \in Feed!URLs |-> Ids(u, n + 1)]
  BY DEF Partial
<1> HIDE DEF Ids, e
<1>5. Feed!BuildTree([u \in Feed!URLs |-> Ids(u, n)], e) = [u \in Feed!URLs |-> Ids(u, n + 1)]
  BY <1>1, <1>2, <1>3 DEF Feed!BuildTree
<1> QED BY <1>4, <1>5 DEF e

\* The trees are trees.
LEMMA TreesAreTyped ==
  /\ Feed!Empty \in [Feed!URLs -> SUBSET Nat]
  /\ \A v \in Feed!Versions : Partial(v, 0) = Feed!Empty
  /\ \A v \in Feed!Versions, n \in Nat : n <= Len(Feeds[v]) =>
       Partial(v, n) \in [Feed!URLs -> SUBSET Nat]
<1>1. Feed!Empty \in [Feed!URLs -> SUBSET Nat] BY DEF Feed!Empty
<1>2. ASSUME NEW v \in Feed!Versions PROVE Partial(v, 0) = Feed!Empty
  <2>1. 1..0 = {} OBVIOUS
  <2>2. \A u : {Feeds[v][i].id : i \in {j \in 1..0 : Feeds[v][j].url = u /\ Feeds[v][j].ok}} = {}
    BY <2>1
  <2> QED BY <2>2 DEF Feed!Empty, Partial
<1>3. ASSUME NEW v \in Feed!Versions, NEW n \in Nat, n <= Len(Feeds[v])
      PROVE  Partial(v, n) \in [Feed!URLs -> SUBSET Nat]
  <2>1. \A j \in 1..n : Feeds[v][j].id \in Nat BY <1>3, VersionsAreFeeds
  <2>2. \A u : {Feeds[v][i].id : i \in {j \in 1..n : Feeds[v][j].url = u /\ Feeds[v][j].ok}} \in SUBSET Nat
    BY <2>1
  <2> QED BY <2>2 DEF Partial
<1> QED BY <1>1, <1>2, <1>3

\* Both starts of the refresh satisfy the invariant.
LEMMA FeedInit == (Feed!Init \/ FeedOver) => FeedInv
<1>1. Feed!Versions \subseteq Nat \ {0} BY FeedsAssumption DEF Feed!Versions
<1>2. ASSUME NEW d \in {"lock", "over"}, NEW l \in {"build", "returned"}, NEW F \in SUBSET FeedFaults,
             Feed!InitIn(d, l, F), d = "over" => l = "returned"
      PROVE  FeedInv
  <2> USE DEF Feed!InitIn
  <2>1. Feed!TypeOK BY <1>1, <1>2, TreesAreTyped DEF Feed!TypeOK
  <2>2. CacheInv BY <1>1, <1>2 DEF CacheInv
  <2>3. DownloadInv BY <1>2 DEF DownloadInv
  <2>4. BuildInv /\ Feed!TreeIsWhole BY <1>2 DEF BuildInv, Feed!TreeIsWhole
  <2> QED BY <2>1, <2>2, <2>3, <2>4 DEF FeedInv
<1> QED BY <1>2 DEF Feed!Init, FeedOver

\* The versions are numbers, and so is what the feed counts.
LEMMA FeedNumbers ==
  ASSUME FeedInv
  PROVE  /\ Feed!Versions \subseteq Nat \ {0} /\ \A v \in Feed!Versions : Len(Feeds[v]) \in Nat
         /\ feedServer \in Nat /\ etag \in Int /\ sees \in Nat
         /\ feed.v \in Nat /\ feed.n \in Nat
<1>1. Feed!Versions \subseteq Nat \ {0} BY FeedsAssumption DEF Feed!Versions
<1>2. \A v \in Feed!Versions : Len(Feeds[v]) \in Nat BY VersionsAreFeeds
<1>3. /\ feedServer \in Feed!Versions /\ feed.n \in Nat
      /\ etag \in Feed!Versions \cup {0, -1} /\ feed.v \in Feed!Versions \cup {0}
      /\ sees \in Feed!Versions \cup {0}
  BY DEF FeedInv, Feed!TypeOK, Feed!Torn
<1>4. \A v \in Feed!Versions \cup {0} : v \in Nat BY <1>1
<1>5. feedServer \in Nat /\ feed.v \in Nat /\ sees \in Nat /\ feed.n \in Nat BY <1>3, <1>4
<1>6. etag \in Int
  <2>1. etag = -1 \/ etag \in Feed!Versions \cup {0} BY <1>3
  <2>2. -1 \in Int OBVIOUS
  <2>3. \A v \in Nat : v \in Int OBVIOUS
  <2> QED BY <1>4, <2>1, <2>2, <2>3
<1> QED BY <1>1, <1>2, <1>5, <1>6

\* A step of Download keeps the invariant.
LEMMA DownloadSteps ==
  ASSUME FeedInv, Feed!Download
  PROVE  FeedInv'
<1> USE DEF FeedInv, Feed!TypeOK, CacheInv, DownloadInv, BuildInv, Feed!TreeIsWhole, Feed!Error, Feed!Fails,
            Feed!net, Feed!Torn
<1>1. CASE Feed!Lock BY FeedNumbers, <1>1 DEF Feed!Lock
<1>2. CASE Feed!Ask
  <2> USE DEF Feed!Ask
  <2>1. Feed!TypeOK' BY FeedNumbers, <1>2, TreesAreTyped
  <2>2. CacheInv' BY FeedNumbers, <1>2, TreesAreTyped
  <2>3. DownloadInv' BY FeedNumbers, <1>2, TreesAreTyped
  <2>4. BuildInv' /\ Feed!TreeIsWhole' BY FeedNumbers, <1>2, TreesAreTyped
  <2> QED BY <2>1, <2>2, <2>3, <2>4
<1>3. CASE Feed!Get
  <2> USE DEF Feed!Get
  <2>1. Feed!TypeOK' BY FeedNumbers, <1>3
  <2>2. CacheInv' BY FeedNumbers, <1>3
  <2>3. DownloadInv' BY FeedNumbers, <1>3
  <2>4. BuildInv' /\ Feed!TreeIsWhole' BY FeedNumbers, <1>3
  <2> QED BY <2>1, <2>2, <2>3, <2>4
<1>4. CASE Feed!Copy
  <2> USE DEF Feed!Copy
  <2>1. Feed!TypeOK'
    <3>1. sees \in Feed!Versions BY FeedNumbers, <1>4
    <3>2. feed'.v \in Feed!Versions /\ feed'.n \in Nat BY FeedNumbers, <1>4, <3>1
    <3> QED BY FeedNumbers, <1>4, <3>2
  <2>2. CacheInv' BY FeedNumbers, <1>4
  <2>3. DownloadInv' BY FeedNumbers, <1>4
  <2>4. BuildInv' /\ Feed!TreeIsWhole' BY FeedNumbers, <1>4
  <2> QED BY <2>1, <2>2, <2>3, <2>4
<1>5. CASE Feed!WriteETag
  <2> USE DEF Feed!WriteETag
  <2>1. Feed!TypeOK' BY FeedNumbers, <1>5, TreesAreTyped
  <2>2. CacheInv' BY FeedNumbers, <1>5, TreesAreTyped
  <2>3. DownloadInv' BY FeedNumbers, <1>5, TreesAreTyped
  <2>4. BuildInv' /\ Feed!TreeIsWhole' BY FeedNumbers, <1>5, TreesAreTyped
  <2> QED BY <2>1, <2>2, <2>3, <2>4
<1>6. CASE Feed!Entry
  <2> USE DEF Feed!Entry
  <2>1. Feed!TypeOK' BY FeedNumbers, <1>6, TreesAreTyped, EntryIsAdded
  <2>2. CacheInv' BY FeedNumbers, <1>6, TreesAreTyped, EntryIsAdded
  <2>3. DownloadInv' BY FeedNumbers, <1>6, TreesAreTyped, EntryIsAdded
  <2>4. BuildInv' /\ Feed!TreeIsWhole' BY FeedNumbers, <1>6, TreesAreTyped, EntryIsAdded
  <2> QED BY <2>1, <2>2, <2>3, <2>4
<1>7. CASE Feed!ParseEnds BY FeedNumbers, <1>7, PartialIsWhole DEF Feed!ParseEnds
<1>8. CASE Feed!Clean BY FeedNumbers, <1>8 DEF Feed!Clean
<1> QED BY <1>1, <1>2, <1>3, <1>4, <1>5, <1>6, <1>7, <1>8 DEF Feed!Download

\* A step of Start, a stop, a restart and a change of the site keep it.
LEMMA StartSteps ==
  ASSUME FeedInv, Feed!Start \/ Feed!Stop \/ Feed!Publish \/ Feed!Restart
  PROVE  FeedInv'
<1> USE DEF FeedInv, Feed!TypeOK, CacheInv, DownloadInv, BuildInv, Feed!TreeIsWhole,
            Feed!Started, Feed!Fails, Feed!net, Feed!pipe, Feed!Torn
<1>1. CASE Feed!Store BY FeedNumbers, <1>1 DEF Feed!Store
<1>2. CASE Feed!BuildFails BY FeedNumbers, <1>2 DEF Feed!BuildFails
<1>3. CASE Feed!Refresh
  <2> USE DEF Feed!Refresh
  <2>1. Feed!TypeOK' BY FeedNumbers, <1>3, TreesAreTyped
  <2>2. CacheInv' BY FeedNumbers, <1>3
  <2>3. DownloadInv' BY FeedNumbers, <1>3
  <2>4. BuildInv' /\ Feed!TreeIsWhole' BY FeedNumbers, <1>3
  <2> QED BY <2>1, <2>2, <2>3, <2>4
<1>4. CASE Feed!Returns BY FeedNumbers, <1>4 DEF Feed!Returns
<1>5. CASE Feed!Stop BY FeedNumbers, <1>5 DEF Feed!Stop
<1>6. CASE Feed!Publish
  <2> USE DEF Feed!Publish
  <2>1. Feed!TypeOK' BY FeedNumbers, <1>6
  <2>2. CacheInv' BY FeedNumbers, <1>6
  <2>3. DownloadInv' BY FeedNumbers, <1>6
  <2>4. BuildInv' /\ Feed!TreeIsWhole' BY FeedNumbers, <1>6
  <2> QED BY <2>1, <2>2, <2>3, <2>4
<1>7. CASE Feed!Restart
  <2> USE DEF Feed!Restart
  <2>1. Feed!TypeOK'
    <3>1. CASE UNCHANGED feed BY FeedNumbers, <1>7, <3>1, TreesAreTyped
    <3>2. CASE dl = "copy" /\ \E n \in 0..Len(Feeds[sees]) : feed' = [v |-> sees, n |-> n]
      <4>1. feed'.v \in Feed!Versions /\ feed'.n \in Nat BY FeedNumbers, <3>2
      <4> QED BY FeedNumbers, <1>7, <4>1, TreesAreTyped
    <3> QED BY <1>7, <3>1, <3>2
  <2>2. CacheInv' BY FeedNumbers, <1>7, TreesAreTyped
  <2>3. DownloadInv' BY FeedNumbers, <1>7, TreesAreTyped
  <2>4. BuildInv' /\ Feed!TreeIsWhole' BY FeedNumbers, <1>7, TreesAreTyped
  <2> QED BY <2>1, <2>2, <2>3, <2>4
<1> QED BY <1>1, <1>2, <1>3, <1>4, <1>5, <1>6, <1>7 DEF Feed!Start

(* The tree that answers is all of one version of the feed, whatever fails,  *)
(* crashes or changes on the site while it is downloaded or cached, however  *)
(* many versions there are and whatever is in them.                         *)
THEOREM TreeOfOneVersion == Spec => []TreeIsWhole
<1>1. Init => FeedInv BY FeedInit DEF Init
<1>2. FeedInv /\ [Next]_vars => FeedInv'
  <2>1. ASSUME FeedInv, UNCHANGED phishtank PROVE FeedInv'
    BY <2>1 DEF phishtank, FeedInv, Feed!TypeOK, CacheInv, DownloadInv, BuildInv, Feed!TreeIsWhole
  <2>2. ASSUME FeedInv, Feed!Next PROVE FeedInv'
    BY <2>2, DownloadSteps, StartSteps DEF Feed!Next
  <2> QED BY <2>1, <2>2 DEF Next, vars
<1>3. FeedInv => TreeIsWhole BY DEF FeedInv, TreeIsWhole
<1> QED BY <1>1, <1>2, <1>3, PTL DEF Spec

-----------------------------------------------------------------------------
(* services/milter.go, smtp.go, http.go.  The parts of a mail.               *)
Senders     == Mails \cup {Servers!Nothing}
Lines       == Mails \X {"header", "blank", "body"}
Messages    == [from : Senders, to : SUBSET (Mails \X Rcpts), data : Seq(Lines)]
Places      == {"free", "open", "rcpt", "headers", "body", "forwarding", "pushing", "pushed",
                "refused", "over"}
Connections == [kind : Servers!Kinds, mail : Senders, at : Places]

ServersType ==
  /\ conn \in [Conns -> Connections]
  /\ message \in [Conns -> Messages] /\ pushed \in [Conns -> Messages]
  /\ server \in [Servers!Kinds -> {"up", "closing", "returned"}] /\ done \in BOOLEAN
  /\ held \in {"forwarder", "collector", "nobody"}
  /\ aborted \in [Conns -> SUBSET Mails] /\ forwarded \subseteq Conns /\ lost \subseteq Conns
  /\ accepted \subseteq Mails /\ fails \in 0..MaxFails

\* The bytes of what was aborted on a milter connection, without a blank line.
Left(d, n, gone) == \A i \in 1 .. n : d[i][1] \in gone /\ d[i][2] # "blank"

\* The bytes of the mail a milter connection has, after those.
Given(d, m, gone) ==
  /\ Len(d) >= 2 /\ Left(d, Len(d) - 2, gone)
  /\ d[Len(d) - 1] = <<m, "header">> /\ d[Len(d)] = <<m, "body">>

\* What a handler has of a mail: its own parts, and those of mails given up on.
MessageInv(c) ==
  LET m == conn[c].mail
      d == message[c].data
      at == conn[c].at
  IN /\ at = "free" <=> m = Servers!Nothing
     /\ \A p \in message[c].to : p[1] = m \/ p[1] \in aborted[c]
     /\ at \in {"rcpt", "headers", "body", "forwarding", "pushing"} => message[c].from = m
     /\ at \in {"headers", "body", "forwarding", "pushing"} => {m} \X Rcpts \subseteq message[c].to
     /\ at \in {"rcpt", "headers", "body"} => conn[c].kind = "milter"
     /\ at \in {"open", "rcpt"} => Left(d, Len(d), aborted[c])
     /\ at = "headers" => /\ Len(d) >= 1 /\ Left(d, Len(d) - 1, aborted[c])
                          /\ d[Len(d)] = <<m, "header">>
     /\ at = "body" => Given(d, m, aborted[c])
     /\ at \in {"forwarding", "pushing"} =>
          IF conn[c].kind = "milter" THEN Given(d, m, aborted[c])
          ELSE d = Servers!Whole(m) /\ message[c].to = {m} \X Rcpts

\* What was pushed, where, and with which forward.
PushedInv(c) ==
  /\ Servers!Has(c) => conn[c].at \in {"pushed", "over"}
  /\ conn[c].at = "pushed" => Servers!Has(c)
  /\ conn[c].at \in {"pushing", "pushed"} \/ Servers!Has(c) => c \in forwarded
  /\ LET m == conn[c].mail
         d == pushed[c].data
     IN Servers!Has(c) =>
       /\ pushed[c].from = m /\ {m} \X Rcpts \subseteq pushed[c].to
       /\ \A p \in pushed[c].to : p[1] = m \/ p[1] \in aborted[c]
       /\ IF conn[c].kind = "milter" THEN Given(d, m, aborted[c])
          ELSE d = Servers!Whole(m) /\ pushed[c].to = {m} \X Rcpts

ConnInv == \A c \in Conns : MessageInv(c) /\ PushedInv(c)

(* A client that was answered knows whether its mail was accepted, and only  *)
(* one that knows it was not tries again.                                   *)
AcceptedInv ==
  /\ \A m \in accepted : \E c \in Conns : conn[c].mail = m /\ Servers!Has(c)
  /\ \A c \in Conns : conn[c].at = "over" /\ Servers!Has(c) /\ c \notin lost =>
       conn[c].mail \in accepted
  /\ \A c, d \in Conns \ lost :
       c # d /\ conn[c].mail = conn[d].mail /\ conn[c].mail # Servers!Nothing =>
         \E e \in {c, d} : conn[e].at = "over" /\ ~Servers!Has(e)

ServersInv == ServersType /\ ConnInv /\ AcceptedInv

\* What the fields of the records are.
LEMMA ServersRecords ==
  /\ Servers!New \in Messages /\ Servers!Free \in Connections
  /\ \A y \in Connections, a \in Places : LET z == [y EXCEPT !.at = a] IN
       z \in Connections /\ z.kind = y.kind /\ z.mail = y.mail /\ z.at = a
  /\ \A g \in Messages, m \in Senders : LET z == [g EXCEPT !.from = m] IN
       z \in Messages /\ z.from = m /\ z.to = g.to /\ z.data = g.data
  /\ \A g \in Messages, T \in SUBSET (Mails \X Rcpts) : LET z == [g EXCEPT !.to = g.to \cup T] IN
       z \in Messages /\ z.from = g.from /\ z.to = g.to \cup T /\ z.data = g.data
  /\ \A g \in Messages, e \in Seq(Lines) : LET z == [g EXCEPT !.data = e] IN
       z \in Messages /\ z.from = g.from /\ z.to = g.to /\ z.data = e
BY DEF Messages, Connections, Senders, Places, Servers!New, Servers!Free, Servers!Kinds, Servers!Nothing

\* The types of the records are those the component says.
LEMMA ServersTyped == ServersType => Servers!TypeOK
<1> SUFFICES ASSUME ServersType PROVE Servers!TypeOK OBVIOUS
<1>1. ASSUME NEW c \in Conns
      PROVE  /\ conn[c].kind \in Servers!Kinds /\ conn[c].mail \in Senders /\ conn[c].at \in Places
             /\ message[c].to \subseteq Mails \X Rcpts
             /\ message[c].data \in Seq(Lines)
  BY DEF ServersType, Connections, Messages
<1> QED BY <1>1 DEF ServersType, Servers!TypeOK, Senders, Places, Lines

\* Both starts of the servers satisfy the invariant.
LEMMA ServersInit == (Servers!Init \/ ServersOver) => ServersInv
<1> SUFFICES ASSUME NEW d \in BOOLEAN,
                    NEW up \in SUBSET [Servers!Kinds -> {"up", "closing", "returned"}],
                    Servers!InitIn(d, up)
             PROVE  ServersInv
  BY DEF Servers!Init, ServersOver, Servers!Prestart, Servers!Runs, Servers!Kinds
<1> USE DEF Servers!InitIn
<1>1. ServersType BY ServersRecords, FailsAssumption DEF ServersType
<1>2. \A c \in Conns : conn[c].at = "free" /\ conn[c].mail = Servers!Nothing /\ ~Servers!Has(c)
  BY DEF Servers!Free, Servers!Has
<1>3. ConnInv BY <1>2 DEF ConnInv, MessageInv, PushedInv, Servers!New
<1>4. AcceptedInv BY <1>2 DEF AcceptedInv
<1> QED BY <1>1, <1>3, <1>4 DEF ServersInv

\* Where a connection goes changes nothing else of it, and no other one.
LEMMA Going ==
  ASSUME ServersType, NEW c \in Conns, NEW a \in Places, Servers!Goes(c, a)
  PROVE  /\ conn' \in [Conns -> Connections]
         /\ conn'[c].kind = conn[c].kind /\ conn'[c].mail = conn[c].mail /\ conn'[c].at = a
         /\ \A d \in Conns \ {c} : conn'[d] = conn[d]
<1>1. conn[c] \in Connections BY DEF ServersType
<1> DEFINE z == [conn[c] EXCEPT !.at = a]
<1>2. z \in Connections /\ z.kind = conn[c].kind /\ z.mail = conn[c].mail /\ z.at = a
  BY <1>1, ServersRecords
<1>3. conn' = [conn EXCEPT ![c] = z] BY DEF Servers!Goes
<1> HIDE DEF z
<1> QED BY <1>2, <1>3 DEF ServersType

\* What one connection does leaves what holds of another.
LEMMA OthersKept ==
  ASSUME ConnInv, NEW d \in Conns,
         conn'[d] = conn[d], message'[d] = message[d], aborted'[d] = aborted[d],
         pushed'[d] = pushed[d], forwarded \subseteq forwarded'
  PROVE  MessageInv(d)' /\ PushedInv(d)'
BY DEF ConnInv, MessageInv, PushedInv, Servers!Has

(* A connection that is not over, and neither pushes nor changes its mail,    *)
(* leaves the accepted mails accounted for when it ends with nothing pushed,  *)
(* or lost.                                                                 *)
LEMMA AcceptedKept ==
  ASSUME ServersInv, NEW c \in Conns, conn[c].at # "over",
         \A d \in Conns \ {c} : conn'[d] = conn[d],
         conn'[c].mail = conn[c].mail, pushed' = pushed,
         conn'[c].at = "over" => ~Servers!Has(c) \/ c \in lost',
         accepted' = accepted, lost \subseteq lost'
  PROVE  AcceptedInv'
<1>1. \A d \in Conns : conn'[d].mail = conn[d].mail /\ (Servers!Has(d)' <=> Servers!Has(d))
  BY DEF Servers!Has
<1>2. \A d \in Conns : d \notin lost' => d \notin lost OBVIOUS
<1>3. \A d \in Conns : conn[d].at = "over" => conn'[d].at = "over" OBVIOUS
<1>4. \A d \in Conns : conn'[d].at = "over" /\ Servers!Has(d) /\ d \notin lost' => conn[d].at = "over"
  OBVIOUS
<1> QED BY <1>1, <1>2, <1>3, <1>4 DEF ServersInv, AcceptedInv

\* The stop of the servers, and a forwarder or a collector that does not
\* answer, keep the invariant.
LEMMA StopsKept ==
  ASSUME ServersInv,
         \/ Servers!Stop
         \/ \E k \in Servers!Kinds : Servers!CloseListener(k) \/ Servers!StartReturns(k)
         \/ \E h \in {"forwarder", "collector"} : Servers!Holds(h)
  PROVE  ServersInv'
<1>1. /\ UNCHANGED <<conn, message, aborted, forwarded, pushed, accepted, fails>>
      /\ lost \subseteq lost' /\ lost' \subseteq Conns
  BY DEF Servers!Stop, Servers!CloseListener, Servers!StartReturns, Servers!Holds, Servers!results,
         ServersInv, ServersType
<1>2. ServersType'
  <2>1. /\ server' \in [Servers!Kinds -> {"up", "closing", "returned"}] /\ done' \in BOOLEAN
        /\ held' \in {"forwarder", "collector", "nobody"}
    BY DEF Servers!Stop, Servers!CloseListener, Servers!StartReturns, Servers!Holds,
           ServersInv, ServersType
  <2> QED BY <1>1, <2>1 DEF ServersInv, ServersType
<1>3. ConnInv' BY <1>1 DEF ServersInv, ConnInv, MessageInv, PushedInv, Servers!Has
<1>4. AcceptedInv'
  BY <1>1 DEF ServersInv, AcceptedInv, Servers!Has
<1> QED BY <1>2, <1>3, <1>4 DEF ServersInv

\* A client leaves.
LEMMA LeavesKept ==
  ASSUME ServersInv, NEW c \in Conns, Servers!Leaves(c)
  PROVE  ServersInv'
<1> DEFINE a == IF conn[c].at \in Servers!Handling THEN conn[c].at ELSE "over"
<1>1. a \in Places /\ Servers!Goes(c, a) BY DEF Servers!Leaves, Servers!Handling, Places
<1>2. /\ conn' \in [Conns -> Connections]
      /\ conn'[c].kind = conn[c].kind /\ conn'[c].mail = conn[c].mail /\ conn'[c].at = a
      /\ \A d \in Conns \ {c} : conn'[d] = conn[d]
  BY <1>1, Going DEF ServersInv
<1>3. /\ UNCHANGED <<message, aborted, forwarded, pushed, accepted, fails, server, done, held>>
      /\ lost' = lost \cup {c} /\ conn[c].at \notin {"free", "over"}
  BY DEF Servers!Leaves, Servers!lifecycle
<1>4. ServersType' BY <1>2, <1>3 DEF ServersInv, ServersType
<1>5. MessageInv(c)' /\ PushedInv(c)'
  BY <1>2, <1>3 DEF ServersInv, ConnInv, MessageInv, PushedInv, Servers!Has, Servers!Handling
<1>6. ConnInv'
  BY <1>2, <1>3, <1>5, OthersKept DEF ServersInv, ConnInv
<1>7. AcceptedInv' BY <1>2, <1>3, AcceptedKept
<1> QED BY <1>4, <1>6, <1>7 DEF ServersInv

\* A connection is accepted, of a mail that no other client still tries.
LEMMA AcceptKept ==
  ASSUME ServersInv, NEW c \in Conns, NEW k \in Servers!Kinds, NEW m \in Mails,
         Servers!Accept(c, k, m)
  PROVE  ServersInv'
<1>1. [kind |-> k, mail |-> m, at |-> "open"] \in Connections
  BY DEF Connections, Senders, Places
<1>2. /\ UNCHANGED <<aborted, forwarded, pushed, accepted, lost, fails, server, done, held>>
      /\ conn' = [conn EXCEPT ![c] = [kind |-> k, mail |-> m, at |-> "open"]]
      /\ message' = [message EXCEPT ![c] = Servers!New]
      /\ conn[c].at = "free" /\ m \notin accepted
      /\ \A d \in Conns : conn[d].mail = m => conn[d].at = "over" \/ d \in lost
  BY DEF Servers!Accept, Servers!lifecycle, Servers!results, Servers!At
<1>3. /\ conn'[c].mail = m /\ conn'[c].at = "open" /\ message'[c] = Servers!New
      /\ \A d \in Conns \ {c} : conn'[d] = conn[d] /\ message'[d] = message[d]
  BY <1>2 DEF ServersInv, ServersType
<1>4. ServersType'
  <2>1. conn' \in [Conns -> Connections] BY <1>1, <1>2 DEF ServersInv, ServersType
  <2>2. message' \in [Conns -> Messages] BY <1>2, ServersRecords DEF ServersInv, ServersType
  <2> QED BY <1>2, <2>1, <2>2 DEF ServersInv, ServersType
<1>5. ~Servers!Has(c) BY <1>2 DEF ServersInv, ConnInv, PushedInv
<1>6. ConnInv'
  <2>3. Left(<<>>, Len(<<>>), aborted'[c]) BY DEF Left
  <2>5. Servers!New.to = {} /\ Servers!New.data = <<>> BY DEF Servers!New
  <2>6. m # Servers!Nothing BY MailsAssumption DEF Servers!Nothing
  <2>4. message'[c].to = {} /\ message'[c].data = <<>> /\ m # Servers!Nothing
    BY <1>3, <2>5, <2>6
  <2>1. MessageInv(c)' BY <1>3, <2>3, <2>4 DEF MessageInv
  <2>2. PushedInv(c)' BY <1>2, <1>3, <1>5 DEF PushedInv, Servers!Has
  <2> QED BY <1>2, <1>3, <2>1, <2>2, OthersKept DEF ServersInv, ConnInv
<1>7. AcceptedInv'
  <2>1. \A d \in Conns : Servers!Has(d)' <=> Servers!Has(d) BY <1>2 DEF Servers!Has
  <2>2. \A d \in Conns \ lost : d # c /\ conn[d].mail = m => conn[d].at = "over" /\ ~Servers!Has(d)
    BY <1>2 DEF ServersInv, AcceptedInv
  <2> QED BY <1>2, <1>3, <1>5, <2>1, <2>2 DEF ServersInv, AcceptedInv
<1> QED BY <1>4, <1>6, <1>7 DEF ServersInv

(* What a handler is told of its mail, or what it takes of a whole one, keeps *)
(* the invariant when what it has is what it should have then.              *)
LEMMA MessageKept ==
  ASSUME ServersInv, NEW c \in Conns, NEW a \in {"rcpt", "headers", "body", "forwarding"},
         NEW g \in Messages,
         conn' \in [Conns -> Connections], conn'[c].mail = conn[c].mail, conn'[c].at = a,
         \A d \in Conns \ {c} : conn'[d] = conn[d],
         conn[c].at \in {"open", "rcpt", "headers", "body"},
         message' = [message EXCEPT ![c] = g], MessageInv(c)',
         UNCHANGED <<forwarded, aborted, pushed, accepted, lost, fails, server, done, held>>
  PROVE  ServersInv'
<1>1. message' \in [Conns -> Messages] /\ \A d \in Conns \ {c} : message'[d] = message[d]
  BY DEF ServersInv, ServersType
<1>2. ServersType' BY <1>1 DEF ServersInv, ServersType
<1>3. ~Servers!Has(c) BY DEF ServersInv, ConnInv, PushedInv
<1>4. ConnInv'
  <2>1. PushedInv(c)' BY <1>3 DEF PushedInv, Servers!Has
  <2> QED BY <1>1, <2>1, OthersKept DEF ServersInv, ConnInv
<1>5. AcceptedInv' BY AcceptedKept
<1> QED BY <1>2, <1>4, <1>5 DEF ServersInv

\* The events of a milter session keep it.
LEMMA EventsKept ==
  ASSUME ServersInv, NEW c \in Conns,
         \/ Servers!MailFrom(c) \/ Servers!Headers(c) \/ Servers!BodyChunk(c)
         \/ \E r \in Rcpts : Servers!RcptTo(c, r)
  PROVE  ServersInv'
<1> DEFINE m == conn[c].mail
<1> USE DEF Servers!Milter, Servers!At, Servers!milterRest, Servers!lifecycle, Servers!results
<1>1. /\ message[c] \in Messages /\ m \in Senders /\ ServersType /\ MessageInv(c)
      /\ DOMAIN message = Conns
  BY DEF ServersInv, ServersType, ConnInv, Connections
<1>2. conn[c].at # "free" => m \in Mails BY <1>1 DEF MessageInv, Senders
<1>3. CASE Servers!MailFrom(c)
  <2> DEFINE g == [message[c] EXCEPT !.from = m]
  <2>1. g \in Messages /\ g.from = m /\ g.to = message[c].to /\ g.data = message[c].data
    BY <1>1, ServersRecords
  <2>2. message' = [message EXCEPT ![c] = g] BY <1>3 DEF Servers!MailFrom
  <2>3. /\ conn[c].at = "open" /\ conn[c].kind = "milter" /\ Servers!Goes(c, "rcpt")
        /\ UNCHANGED <<forwarded, aborted, pushed, accepted, lost, fails, server, done, held>>
    BY <1>3 DEF Servers!MailFrom
  <2>4. /\ conn' \in [Conns -> Connections] /\ conn'[c].mail = m /\ conn'[c].at = "rcpt"
        /\ conn'[c].kind = conn[c].kind
        /\ \A d \in Conns \ {c} : conn'[d] = conn[d]
    BY <1>1, <2>3, Going DEF Places
  <2> HIDE DEF g
  <2>5. message'[c] = g BY <1>1, <2>2
  <2>6. MessageInv(c)' BY <1>1, <2>1, <2>3, <2>4, <2>5 DEF MessageInv
  <2> QED BY <2>1, <2>2, <2>3, <2>4, <2>6, MessageKept DEF ServersInv, ServersType
<1>4. ASSUME NEW r \in Rcpts, Servers!RcptTo(c, r) PROVE ServersInv'
  <2> DEFINE T == {<<m, r>>}
             g == [message[c] EXCEPT !.to = message[c].to \cup T]
  <2>1. /\ conn[c].at = "rcpt"
        /\ UNCHANGED <<conn, forwarded, aborted, pushed, accepted, lost, fails, server, done, held>>
    BY <1>4 DEF Servers!RcptTo
  <2>2. T \in SUBSET (Mails \X Rcpts) BY <1>2, <2>1
  <2>3. message' = [message EXCEPT ![c] = g] BY <1>4 DEF Servers!RcptTo
  <2>4. g \in Messages /\ g.from = message[c].from /\ g.to = message[c].to \cup T /\ g.data = message[c].data
    BY <1>1, <2>2, ServersRecords
  <2> HIDE DEF g
  <2>5. message'[c] = g BY <1>1, <2>3
  <2>6. MessageInv(c)' BY <1>1, <2>1, <2>4, <2>5 DEF MessageInv
  <2> QED BY <1>1, <2>1, <2>3, <2>4, <2>6, MessageKept DEF ServersInv, ServersType
<1>5. CASE Servers!Headers(c)
  <2> DEFINE e == Append(message[c].data, <<m, "header">>)
             g == [message[c] EXCEPT !.data = e]
  <2>1. /\ conn[c].at = "rcpt" /\ Servers!Goes(c, "headers") /\ {m} \X Rcpts \subseteq message[c].to
        /\ UNCHANGED <<forwarded, aborted, pushed, accepted, lost, fails, server, done, held>>
    BY <1>5 DEF Servers!Headers
  <2>2. e \in Seq(Lines) /\ Len(e) = Len(message[c].data) + 1
    BY <1>1, <1>2, <2>1 DEF Lines, Messages
  <2>8. /\ e[Len(e)] = <<m, "header">>
        /\ \A i \in 1 .. Len(message[c].data) : e[i] = message[c].data[i]
    BY <1>1, <1>2, <2>1 DEF Lines, Messages
  <2>3. message' = [message EXCEPT ![c] = g] BY <1>5 DEF Servers!Headers
  <2>4. g \in Messages /\ g.from = message[c].from /\ g.to = message[c].to /\ g.data = e
    BY <1>1, <2>2, ServersRecords
  <2>5. /\ conn' \in [Conns -> Connections] /\ conn'[c].mail = m /\ conn'[c].at = "headers"
        /\ conn'[c].kind = conn[c].kind
        /\ \A d \in Conns \ {c} : conn'[d] = conn[d]
    BY <1>1, <2>1, Going DEF Places
  <2> HIDE DEF g
  <2>6. message'[c] = g BY <1>1, <2>3
  <2>9. message[c].data \in Seq(Lines) BY <1>1 DEF Messages
  <2> HIDE DEF e
  <2>10. /\ Left(message[c].data, Len(message[c].data), aborted[c]) /\ conn[c].kind = "milter"
         /\ \A p \in message[c].to : p[1] = m \/ p[1] \in aborted[c]
         /\ message[c].from = m /\ m # Servers!Nothing
    BY <1>1, <2>1 DEF MessageInv
  <2>11. Len(e) >= 1 /\ Left(e, Len(e) - 1, aborted'[c]) /\ e[Len(e)] = <<m, "header">>
    <3> DEFINE L == Len(message[c].data)
    <3>1. L \in Nat /\ Len(e) = L + 1 /\ Len(e) - 1 = L BY <2>2, <2>9
    <3>2. aborted' = aborted BY <2>1
    <3> HIDE DEF L
    <3>3. \A i \in 1 .. L : e[i][1] \in aborted[c] /\ e[i][2] # "blank"
      BY <2>8, <2>10 DEF Left, L
    <3> QED BY <2>8, <3>1, <3>2, <3>3 DEF Left
  <2>12. /\ message'[c].to = message[c].to /\ message'[c].from = m /\ message'[c].data = e
         /\ conn'[c].mail = m /\ conn'[c].at = "headers" /\ conn'[c].kind = "milter"
         /\ aborted' = aborted
    BY <2>1, <2>4, <2>5, <2>6, <2>10
  <2> HIDE DEF m
  <2>7. MessageInv(c)'
    BY <2>1, <2>10, <2>11, <2>12 DEF MessageInv
  <2> USE DEF m
  <2> QED BY <2>1, <2>3, <2>4, <2>5, <2>7, MessageKept DEF ServersInv, ServersType
<1>6. CASE Servers!BodyChunk(c)
  <2> DEFINE e == Append(message[c].data, <<m, "body">>)
             g == [message[c] EXCEPT !.data = e]
  <2>1. /\ conn[c].at = "headers" /\ Servers!Goes(c, "body")
        /\ UNCHANGED <<forwarded, aborted, pushed, accepted, lost, fails, server, done, held>>
    BY <1>6 DEF Servers!BodyChunk
  <2>2. e \in Seq(Lines) /\ Len(e) = Len(message[c].data) + 1
    BY <1>1, <1>2, <2>1 DEF Lines, Messages
  <2>8. /\ e[Len(e)] = <<m, "body">>
        /\ \A i \in 1 .. Len(message[c].data) : e[i] = message[c].data[i]
    BY <1>1, <1>2, <2>1 DEF Lines, Messages
  <2>3. message' = [message EXCEPT ![c] = g] BY <1>6 DEF Servers!BodyChunk
  <2>4. g \in Messages /\ g.from = message[c].from /\ g.to = message[c].to /\ g.data = e
    BY <1>1, <2>2, ServersRecords
  <2>5. /\ conn' \in [Conns -> Connections] /\ conn'[c].mail = m /\ conn'[c].at = "body"
        /\ conn'[c].kind = conn[c].kind
        /\ \A d \in Conns \ {c} : conn'[d] = conn[d]
    BY <1>1, <2>1, Going DEF Places
  <2> HIDE DEF g
  <2>6. message'[c] = g BY <1>1, <2>3
  <2>9. message[c].data \in Seq(Lines) BY <1>1 DEF Messages
  <2> HIDE DEF e
  <2>10. /\ Left(message[c].data, Len(message[c].data) - 1, aborted[c]) /\ conn[c].kind = "milter"
         /\ Len(message[c].data) >= 1 /\ message[c].data[Len(message[c].data)] = <<m, "header">>
         /\ \A p \in message[c].to : p[1] = m \/ p[1] \in aborted[c]
         /\ message[c].from = m /\ m # Servers!Nothing /\ {m} \X Rcpts \subseteq message[c].to
    BY <1>1, <2>1 DEF MessageInv
  <2>11. Given(e, m, aborted'[c])
    <3> DEFINE L == Len(message[c].data)
    <3>1. L \in Nat /\ L >= 1 /\ Len(e) = L + 1 /\ Len(e) - 1 = L /\ Len(e) - 2 = L - 1
      BY <2>2, <2>9, <2>10
    <3>2. aborted' = aborted BY <2>1
    <3> HIDE DEF L
    <3>3. \A i \in 1 .. L - 1 : e[i][1] \in aborted[c] /\ e[i][2] # "blank"
      <4>1. \A i \in 1 .. L - 1 : e[i] = message[c].data[i] BY <2>8, <3>1 DEF L
      <4> QED BY <2>10, <4>1 DEF Left, L
    <3>4. e[L] = <<m, "header">>
      <4>1. L \in 1 .. L BY <3>1
      <4> QED BY <2>8, <2>10, <4>1 DEF L
    <3> QED BY <2>8, <3>1, <3>2, <3>3, <3>4 DEF Left, Given
  <2>12. /\ message'[c].to = message[c].to /\ message'[c].from = m /\ message'[c].data = e
         /\ conn'[c].mail = m /\ conn'[c].at = "body" /\ conn'[c].kind = "milter"
         /\ aborted' = aborted
    BY <2>1, <2>4, <2>5, <2>6, <2>10
  <2> HIDE DEF m
  <2>7. MessageInv(c)'
    BY <2>1, <2>10, <2>11, <2>12 DEF MessageInv
  <2> USE DEF m
  <2> QED BY <2>1, <2>3, <2>4, <2>5, <2>7, MessageKept DEF ServersInv, ServersType
<1> QED BY <1>3, <1>4, <1>5, <1>6

\* CollectAndForward is called with a whole mail.
LEMMA CollectKept ==
  ASSUME ServersInv, NEW c \in Conns, Servers!CollectAndForward(c)
  PROVE  ServersInv'
<1> DEFINE m == conn[c].mail
           g == IF conn[c].kind = "milter" THEN message[c]
                ELSE [from |-> m, to |-> {m} \X Rcpts, data |-> Servers!Whole(m)]
<1>1. /\ message[c] \in Messages /\ m \in Senders /\ ServersType /\ MessageInv(c)
      /\ message = [message EXCEPT ![c] = message[c]] /\ DOMAIN message = Conns
  BY DEF ServersInv, ServersType, ConnInv, Connections
<1>2. /\ IF conn[c].kind = "milter" THEN conn[c].at = "body" ELSE conn[c].at = "open"
      /\ Servers!Goes(c, "forwarding")
      /\ UNCHANGED <<forwarded, aborted, pushed, accepted, lost, fails, server, done, held>>
  BY <1>1 DEF Servers!CollectAndForward, Servers!Milter, Servers!At, Servers!lifecycle,
              Servers!results, MessageInv
<1>3. m \in Mails BY <1>1, <1>2 DEF MessageInv, Senders
<1>4. g \in Messages
  <2>1. Servers!Whole(m) \in Seq(Lines) BY <1>3 DEF Servers!Whole, Lines
  <2> QED BY <1>1, <1>3, <2>1 DEF Messages, Senders
<1>5. message' = [message EXCEPT ![c] = g] BY <1>1 DEF Servers!CollectAndForward
<1>6. /\ conn' \in [Conns -> Connections] /\ conn'[c].mail = m /\ conn'[c].at = "forwarding"
      /\ conn'[c].kind = conn[c].kind /\ \A d \in Conns \ {c} : conn'[d] = conn[d]
  BY <1>1, <1>2, Going DEF Places
<1>7. message'[c] = g BY <1>1, <1>5
<1>8. MessageInv(c)'
  <2>1. m # Servers!Nothing BY <1>3, MailsAssumption DEF Servers!Nothing
  <2>2. CASE conn[c].kind = "milter"
    BY <1>1, <1>2, <1>6, <1>7, <2>1, <2>2 DEF MessageInv
  <2>3. CASE conn[c].kind # "milter"
    BY <1>1, <1>2, <1>6, <1>7, <2>1, <2>3 DEF MessageInv
  <2> QED BY <2>2, <2>3
<1> HIDE DEF g
<1> QED BY <1>2, <1>4, <1>5, <1>6, <1>8, MessageKept DEF ServersInv, ServersType

\* The forwarder takes the mail of a handler.
LEMMA GivenKept ==
  ASSUME ServersInv, NEW c \in Conns, Servers!Forward(c)
  PROVE  ServersInv'
<1>1. /\ conn[c].at = "forwarding" /\ Servers!Goes(c, "pushing") /\ forwarded' = forwarded \cup {c}
      /\ UNCHANGED <<message, aborted, pushed, accepted, lost, fails, server, done, held>>
  BY DEF Servers!Forward, Servers!At, Servers!lifecycle
<1>2. ServersType /\ MessageInv(c) /\ PushedInv(c) BY DEF ServersInv, ConnInv
<1>3. /\ conn' \in [Conns -> Connections] /\ conn'[c].mail = conn[c].mail /\ conn'[c].at = "pushing"
      /\ conn'[c].kind = conn[c].kind /\ \A d \in Conns \ {c} : conn'[d] = conn[d]
  BY <1>1, <1>2, Going DEF Places
<1>4. ServersType' BY <1>1, <1>2, <1>3 DEF ServersType
<1>5. ~Servers!Has(c) BY <1>1, <1>2 DEF PushedInv
<1>6. ConnInv'
  <2>1. MessageInv(c)' BY <1>1, <1>2, <1>3 DEF MessageInv
  <2>2. PushedInv(c)' BY <1>1, <1>3, <1>5 DEF PushedInv, Servers!Has
  <2> QED BY <1>1, <1>3, <2>1, <2>2, OthersKept DEF ServersInv, ConnInv
<1>7. AcceptedInv' BY <1>1, <1>3, AcceptedKept
<1> QED BY <1>4, <1>6, <1>7 DEF ServersInv

\* A milter transaction is given up, and another begins on its connection.
LEMMA AbortKept ==
  ASSUME ServersInv, NEW c \in Conns, NEW m \in Mails, Servers!Abort(c, m)
  PROVE  ServersInv'
<1> DEFINE y == [conn[c] EXCEPT !.mail = m, !.at = "open"]
<1>1. conn[c] \in Connections /\ ServersType /\ MessageInv(c) /\ PushedInv(c)
  BY DEF ServersInv, ServersType, ConnInv
<1>2. y \in Connections /\ y.mail = m /\ y.at = "open" /\ y.kind = conn[c].kind BY <1>1 DEF Connections, Senders, Places
<1>3. /\ conn' = [conn EXCEPT ![c] = y] /\ conn[c].at \in {"rcpt", "headers", "body"}
      /\ aborted' = [aborted EXCEPT ![c] = @ \cup {conn[c].mail}]
      /\ m \notin accepted /\ \A d \in Conns : conn[d].mail # m
      /\ UNCHANGED <<message, forwarded, pushed, accepted, lost, fails, server, done, held>>
  BY DEF Servers!Abort, Servers!lifecycle, Servers!results
<1> HIDE DEF y
<1>4. /\ conn' \in [Conns -> Connections] /\ conn'[c].mail = m /\ conn'[c].at = "open"
      /\ conn'[c].kind = conn[c].kind
      /\ \A d \in Conns \ {c} : conn'[d] = conn[d] /\ aborted'[d] = aborted[d]
      /\ aborted'[c] = aborted[c] \cup {conn[c].mail}
  BY <1>1, <1>2, <1>3 DEF ServersType
<1>5. conn[c].mail \in Mails BY <1>1, <1>3 DEF MessageInv, Connections, Senders
<1>6. ServersType' BY <1>1, <1>3, <1>4, <1>5 DEF ServersType
<1>7. ~Servers!Has(c) BY <1>1, <1>3 DEF PushedInv
<1>8. ConnInv'
  <2>3. message[c].data \in Seq(Lines) /\ m # Servers!Nothing
    BY <1>1, MailsAssumption DEF ServersType, Messages, Servers!Nothing
  <2>4. Left(message[c].data, Len(message[c].data), aborted'[c])
    BY <1>1, <1>3, <1>4, <2>3 DEF MessageInv, Left, Given
  <2>1. MessageInv(c)' BY <1>1, <1>3, <1>4, <2>3, <2>4 DEF MessageInv
  <2>2. PushedInv(c)' BY <1>3, <1>4, <1>7 DEF PushedInv, Servers!Has
  <2> QED BY <1>3, <1>4, <2>1, <2>2, OthersKept DEF ServersInv, ConnInv
<1>9. AcceptedInv'
  <2>1. \A d \in Conns : Servers!Has(d)' <=> Servers!Has(d) BY <1>3 DEF Servers!Has
  <2> QED BY <1>3, <1>4, <1>7, <2>1 DEF ServersInv, AcceptedInv
<1> QED BY <1>6, <1>8, <1>9 DEF ServersInv

\* The collector takes the message of a handler.
LEMMA PushedKept ==
  ASSUME ServersInv, NEW c \in Conns, Servers!Pushed(c)
  PROVE  ServersInv'
<1>1. /\ conn[c].at = "pushing" /\ Servers!Goes(c, "pushed")
      /\ pushed' = [pushed EXCEPT ![c] = message[c]]
      /\ UNCHANGED <<message, aborted, forwarded, accepted, lost, fails, server, done, held>>
  BY DEF Servers!Pushed, Servers!At, Servers!lifecycle
<1>2. ServersType /\ MessageInv(c) /\ PushedInv(c) /\ message[c] \in Messages
  BY DEF ServersInv, ServersType, ConnInv
<1>3. /\ conn' \in [Conns -> Connections] /\ conn'[c].mail = conn[c].mail /\ conn'[c].at = "pushed"
      /\ conn'[c].kind = conn[c].kind
      /\ \A d \in Conns \ {c} : conn'[d] = conn[d]
  BY <1>1, <1>2, Going DEF Places
<1>4. pushed' \in [Conns -> Messages] /\ pushed'[c] = message[c] /\ \A d \in Conns \ {c} : pushed'[d] = pushed[d]
  BY <1>1, <1>2 DEF ServersType
<1>5. ServersType' BY <1>1, <1>2, <1>3, <1>4 DEF ServersType
<1>6. Servers!Has(c)' /\ \A d \in Conns \ {c} : Servers!Has(d)' <=> Servers!Has(d)
  BY <1>1, <1>2, <1>4 DEF MessageInv, Servers!Has, Servers!New
<1>7. ConnInv'
  <2>1. MessageInv(c)' BY <1>1, <1>2, <1>3 DEF MessageInv
  <2>2. PushedInv(c)' BY <1>1, <1>2, <1>3, <1>4, <1>6 DEF PushedInv, MessageInv
  <2> QED BY <1>1, <1>3, <1>4, <2>1, <2>2, OthersKept DEF ServersInv, ConnInv
<1>8. AcceptedInv'
  <2>1. ~Servers!Has(c) BY <1>1, <1>2 DEF PushedInv
  <2> QED BY <1>1, <1>3, <1>6, <2>1 DEF ServersInv, AcceptedInv
<1> QED BY <1>5, <1>7, <1>8 DEF ServersInv

\* The collector does not take it, or the handler answers.
LEMMA AnswersKept ==
  ASSUME ServersInv, NEW c \in Conns,
         Servers!PushFails(c) \/ Servers!PushCanceled(c) \/ Servers!Answer(c)
  PROVE  ServersInv'
<1> DEFINE a == IF Servers!PushFails(c) \/ Servers!PushCanceled(c) THEN "refused" ELSE "over"
<1>1. /\ a \in Places /\ Servers!Goes(c, a)
      /\ UNCHANGED <<message, aborted, forwarded, pushed, server, done, held>>
      /\ lost \subseteq lost' /\ lost' \subseteq lost \cup {c}
      /\ conn[c].at \in {"open", "pushing", "pushed", "refused"}
      /\ a = "refused" => conn[c].at = "pushing"
      /\ conn[c].at = "pushed" => lost' = lost
  BY DEF Servers!PushFails, Servers!PushCanceled, Servers!Answer, Servers!lifecycle,
         Servers!results, Servers!At, Places
<1> HIDE DEF a
<1>2. ServersType /\ MessageInv(c) /\ PushedInv(c) BY DEF ServersInv, ConnInv
<1>3. /\ conn' \in [Conns -> Connections] /\ conn'[c].mail = conn[c].mail /\ conn'[c].at = a
      /\ conn'[c].kind = conn[c].kind /\ \A d \in Conns \ {c} : conn'[d] = conn[d]
  BY <1>1, <1>2, Going
<1>4. conn[c].mail \in Mails BY <1>1, <1>2 DEF ServersType, MessageInv, Connections, Senders
<1>5. /\ fails' \in 0..MaxFails /\ accepted' \subseteq Mails
      /\ accepted' = IF a = "over" /\ conn[c].at = "pushed" /\ c \notin lost
                     THEN accepted \cup {conn[c].mail} ELSE accepted
  BY <1>1, <1>2, <1>4, FailsAssumption
     DEF ServersType, Servers!PushFails, Servers!PushCanceled, Servers!Answer, Servers!At,
         Servers!results, a
<1>6. ServersType' BY <1>1, <1>2, <1>3, <1>5 DEF ServersType
<1>7. ConnInv'
  <2>1. MessageInv(c)' BY <1>1, <1>2, <1>3 DEF MessageInv, a
  <2>2. PushedInv(c)' BY <1>1, <1>2, <1>3 DEF PushedInv, Servers!Has, a
  <2> QED BY <1>1, <1>3, <2>1, <2>2, OthersKept DEF ServersInv, ConnInv
<1>8. AcceptedInv'
  <2>1. CASE ~(a = "over" /\ conn[c].at = "pushed" /\ c \notin lost)
    <3>1. a = "over" => ~Servers!Has(c) \/ c \in lost BY <1>1, <1>2, <2>1 DEF PushedInv
    <3> QED BY <1>1, <1>3, <1>5, <2>1, <3>1, AcceptedKept
  <2>2. CASE accepted' = accepted \cup {conn[c].mail} /\ conn[c].at = "pushed"
    <3>1. Servers!Has(c) BY <1>2, <2>2 DEF PushedInv
    <3>2. \A d \in Conns : conn'[d].mail = conn[d].mail /\ (Servers!Has(d)' <=> Servers!Has(d))
      BY <1>1, <1>3 DEF Servers!Has
    <3> QED BY <1>1, <1>3, <2>2, <3>1, <3>2 DEF ServersInv, AcceptedInv
  <2> QED BY <1>5, <2>1, <2>2
<1> QED BY <1>6, <1>7, <1>8 DEF ServersInv

\* Of the copies of a mail all but one are of clients that saw no answer.
LEMMA CopiesCounted ==
  ASSUME ServersInv, NEW m \in Mails
  PROVE  LET copies == {c \in Conns : conn[c].mail = m /\ Servers!Has(c)}
         IN  Servers!Cardinality(copies) <= 1 + Servers!Cardinality(copies \cap lost)
<1> DEFINE copies == {c \in Conns : conn[c].mail = m /\ Servers!Has(c)}
<1>1. IsFiniteSet(copies) BY ConnsAssumption, FS_Subset
<1>2. \A S : Servers!Cardinality(S) = Cardinality(S) BY DEF Servers!Cardinality, Cardinality
<1>3. ASSUME NEW c \in copies \ lost, NEW d \in copies \ lost PROVE c = d
  <2>1. /\ c \in Conns \ lost /\ d \in Conns \ lost /\ Servers!Has(c) /\ Servers!Has(d)
        /\ conn[c].mail = m /\ conn[d].mail = m /\ m # Servers!Nothing
    BY MailsAssumption DEF Servers!Nothing
  <2> HIDE DEF copies
  <2> QED BY <2>1 DEF ServersInv, AcceptedInv
<1> HIDE DEF copies
<1>4. CASE copies \ lost = {}
  <2>1. copies \cap lost = copies BY <1>4
  <2> QED BY <1>1, <1>2, <2>1, FS_CardinalityType DEF copies
<1>5. ASSUME NEW c \in copies \ lost
      PROVE  Cardinality(copies) <= 1 + Cardinality(copies \cap lost)
  <2>1. copies \cap lost = copies \ {c} /\ c \in copies BY <1>3, <1>5
  <2>2. Cardinality(copies) \in Nat BY <1>1, FS_CardinalityType
  <2>3. Cardinality(copies \ {c}) = Cardinality(copies) - 1 BY <1>1, <2>1, FS_RemoveElement
  <2> QED BY <2>1, <2>2, <2>3
<1> QED BY <1>2, <1>4, <1>5 DEF copies

(* What is collected is the client's own mail, whole, and what the client     *)
(* was told is true; however many connections, mails and recipients there   *)
(* are, whatever servers they use and wherever clients and servers stop.     *)
THEOREM MailsHandedOnce == Spec => []HandedOnce
<1>1. Init => ServersInv BY ServersInit DEF Init
<1>2. ServersInv /\ [Next]_vars => ServersInv'
  <2>1. ASSUME ServersInv, UNCHANGED intake PROVE ServersInv'
    <3> USE <2>1 DEF intake
    <3>1. ServersType' BY DEF ServersInv, ServersType
    <3>2. ConnInv' BY DEF ServersInv, ConnInv, MessageInv, PushedInv, Servers!Has
    <3>3. AcceptedInv' BY DEF ServersInv, AcceptedInv, Servers!Has
    <3> QED BY <3>1, <3>2, <3>3 DEF ServersInv
  <2>2. ASSUME ServersInv, Servers!Next PROVE ServersInv'
    BY <2>2, StopsKept, AcceptKept, LeavesKept, EventsKept, AbortKept, CollectKept, GivenKept,
       PushedKept, AnswersKept DEF Servers!Next
  <2> QED BY <2>1, <2>2 DEF Next, vars
<1>3. ServersInv => HandedOnce
  <2> SUFFICES ASSUME ServersInv PROVE HandedOnce OBVIOUS
  <2>1. Servers!TypeOK BY ServersTyped DEF ServersInv
  <2>2. Servers!MessageIsOwn
    <3>1. ASSUME NEW c \in Conns, Servers!Has(c), conn[c].kind = "milter"
          PROVE  LET d == pushed[c].data
                     n == Len(d)
                 IN /\ n >= 2 /\ d[n - 1] = <<conn[c].mail, "header">>
                    /\ d[n] = <<conn[c].mail, "body">>
                    /\ \A i \in 1 .. n - 2 : d[i][1] \in aborted[c]
                    /\ \A i \in 1 .. n : d[i][2] # "blank"
      <4> DEFINE d == pushed[c].data
                 n == Len(d)
      <4>1. Given(d, conn[c].mail, aborted[c]) /\ n \in Nat
        BY <3>1 DEF ServersInv, ConnInv, PushedInv, ServersType, Messages
      <4> HIDE DEF d
      <4>2. \A i \in 1 .. n : i \in 1 .. n - 2 \/ i = n - 1 \/ i = n BY <4>1
      <4>3. /\ n >= 2 /\ d[n - 1] = <<conn[c].mail, "header">> /\ d[n] = <<conn[c].mail, "body">>
            /\ \A i \in 1 .. n - 2 : d[i][1] \in aborted[c] /\ d[i][2] # "blank"
        BY <4>1 DEF Given, Left
      <4>4. d[n - 1][2] # "blank" /\ d[n][2] # "blank" BY <4>3
      <4> QED BY <4>2, <4>3, <4>4 DEF d
    <3>2. \A c \in Conns : Servers!Has(c) =>
            /\ pushed[c].from = conn[c].mail
            /\ {conn[c].mail} \X Rcpts \subseteq pushed[c].to
            /\ \A p \in pushed[c].to : p[1] \in {conn[c].mail} \cup aborted[c]
            /\ conn[c].kind # "milter" => /\ pushed[c].data = Servers!Whole(conn[c].mail)
                                         /\ pushed[c].to = {conn[c].mail} \X Rcpts
      BY DEF ServersInv, ConnInv, PushedInv
    <3> QED BY <3>1, <3>2 DEF Servers!MessageIsOwn
  <2>3. Servers!AnswerIsTrue
    BY CopiesCounted DEF ServersInv, ConnInv, PushedInv, AcceptedInv, Servers!AnswerIsTrue
  <2> QED BY <2>1, <2>2, <2>3 DEF HandedOnce
<1> QED BY <1>1, <1>2, <1>3, PTL DEF Spec

-----------------------------------------------------------------------------
(* services/imapmonitor.go.  Who holds a message that was fetched.           *)
Holds == (todo \cup Monitor!ToSet(old) \cup {cur, cmail}) \ {0}

BoxInv ==
  /\ box \subseteq 1 .. next - 1 /\ max < next
  /\ fpc \in {"max", "search", "reset", "idle", "wake"} => todo = {}
  /\ cpc = "push" <=> cmail # 0
  /\ fpc = "max" => max = 0 /\ start = 0 /\ Holds = {}

\* Each message is in one place at most.
OneHolderInv ==
  /\ \A i, j \in DOMAIN old : old[i] = old[j] => i = j
  /\ todo \cap Monitor!ToSet(old) = {} /\ {cur, cmail} \cap (todo \cup Monitor!ToSet(old)) = {}
  /\ cur # 0 => cur # cmail

\* max is in the mailbox as long as the newest message stays there.
OnceInv == expunged = {} =>
  /\ fpc \in {"search", "reset", "idle", "wake", "fetch"} => max \in box /\ start <= max
  /\ OneHolderInv
  /\ \A u \in Holds : start < u /\ u <= max /\ collected[u] = 0
  /\ \A u \in Monitor!UID : collected[u] = 0 \/ (collected[u] = 1 /\ start < u /\ u <= max)

MonitorInv == Monitor!TypeOK /\ BoxInv /\ OnceInv /\ Monitor!NoneSkipped

\* A set of messages that is not empty has an oldest and a newest one.
LEMMA Extremes ==
  ASSUME NEW S \in SUBSET (1..MaxUID), S # {}
  PROVE  /\ Monitor!Min(S) \in S /\ \A u \in S : Monitor!Min(S) <= u
         /\ Monitor!Max(S) \in S /\ \A u \in S : u <= Monitor!Max(S)
<1>1. \A T \in SUBSET Nat : T # {} => \E x \in T : \A y \in T : x <= y
  <2> SUFFICES ASSUME NEW T \in SUBSET Nat, T # {} PROVE \E x \in T : \A y \in T : x <= y OBVIOUS
  <2> DEFINE R == OpToRel(<, Nat)
  <2>1. IsWellFoundedOn(R, Nat) BY NatLessThanWellFounded
  <2>2. \A x, y \in Nat : y < x => <<y, x>> \in R BY DEF OpToRel
  <2> HIDE DEF R
  <2>3. PICK x \in T : \A y \in T : ~(<<y, x>> \in R)
    BY <2>1, WFMin
  <2>4. \A y \in T : ~(y < x) BY <2>2, <2>3
  <2> QED BY <2>4
<1>2. \E x \in S : \A y \in S : x <= y BY <1>1, MonitorAssumption
<1>3. \E x \in S : \A y \in S : x >= y
  <2> DEFINE T == {MaxUID - u : u \in S}
  <2>1. T \in SUBSET Nat /\ T # {}
    <3>1. \A u \in S : MaxUID - u \in Nat BY MonitorAssumption
    <3> QED BY <3>1
  <2>2. PICK t \in T : \A y \in T : t <= y BY <1>1, <2>1
  <2>3. PICK x \in S : t = MaxUID - x BY <2>2
  <2>4. \A y \in S : MaxUID - x <= MaxUID - y BY <2>2, <2>3
  <2> QED BY <2>3, <2>4, MonitorAssumption
<1> QED BY <1>2, <1>3, MonitorAssumption DEF Monitor!Min, Monitor!Max

\* A sequence without one of its elements: those before it and those after it.
LEMMA RemovedAt ==
  ASSUME NEW s \in Seq(Monitor!UID), NEW i \in DOMAIN s
  PROVE  LET t == Monitor!RemoveAt(s, i)
         IN  /\ t \in Seq(Monitor!UID) /\ DOMAIN t = 1..Len(s) - 1
             /\ \A j \in 1..Len(s) - 1 : t[j] = IF j < i THEN s[j] ELSE s[j + 1]
<1> DEFINE a == SubSeq(s, 1, i - 1)
           b == SubSeq(s, i + 1, Len(s))
<1>1. DOMAIN s = 1..Len(s) /\ Len(s) \in Nat /\ i \in 1..Len(s) OBVIOUS
<1>2. a \in Seq(Monitor!UID) /\ Len(a) = i - 1 /\ \A j \in 1..i - 1 : a[j] = s[j]
  BY <1>1
<1>3. /\ b \in Seq(Monitor!UID) /\ Len(b) = Len(s) - i
      /\ \A j \in 1..Len(s) - i : b[j] = s[i + j]
  BY <1>1
<1> HIDE DEF a, b
<1> DEFINE t == a \o b
<1>4. /\ t \in Seq(Monitor!UID) /\ Len(t) = Len(a) + Len(b) /\ DOMAIN t = 1..Len(t)
      /\ \A j \in 1..Len(a) + Len(b) : t[j] = IF j <= Len(a) THEN a[j] ELSE b[j - Len(a)]
  <2>1. a \in Seq(Monitor!UID) /\ b \in Seq(Monitor!UID) BY <1>2, <1>3
  <2>2. t \in Seq(Monitor!UID) BY <2>1
  <2>3. Len(t) = Len(a) + Len(b) BY <2>1
  <2>4. DOMAIN t = 1..Len(t) BY <2>2
  <2>5. \A j \in 1..Len(a) + Len(b) : t[j] = IF j <= Len(a) THEN a[j] ELSE b[j - Len(a)] BY <2>1
  <2> QED BY <2>2, <2>3, <2>4, <2>5
<1> HIDE DEF t
<1>5. DOMAIN t = 1..Len(s) - 1 BY <1>1, <1>2, <1>3, <1>4
<1>6. ASSUME NEW j \in 1..Len(s) - 1 PROVE t[j] = IF j < i THEN s[j] ELSE s[j + 1]
  <2>1. CASE j < i BY <1>1, <1>2, <1>3, <1>4, <2>1
  <2>2. CASE j >= i
    <3>1. t[j] = b[j - (i - 1)] BY <1>1, <1>2, <1>3, <1>4, <2>2
    <3>2. j - (i - 1) \in 1..Len(s) - i /\ i + (j - (i - 1)) = j + 1 BY <1>1, <2>2
    <3> QED BY <1>1, <1>3, <2>2, <3>1, <3>2
  <2> QED BY <1>1, <2>1, <2>2
<1>7. Monitor!RemoveAt(s, i) = t BY DEF Monitor!RemoveAt, a, b, t
<1> QED BY <1>4, <1>5, <1>6, <1>7

\* What the forwarders hold, when one more waits and when one is heard.
LEMMA OldMessages ==
  ASSUME NEW s \in Seq(Monitor!UID)
  PROVE  /\ \A u \in Monitor!UID : /\ Append(s, u) \in Seq(Monitor!UID)
                                   /\ Monitor!ToSet(Append(s, u)) = Monitor!ToSet(s) \cup {u}
         /\ \A i \in DOMAIN s :
              /\ Monitor!RemoveAt(s, i) \in Seq(Monitor!UID)
              /\ s[i] \in Monitor!UID
              /\ Monitor!ToSet(s) = Monitor!ToSet(Monitor!RemoveAt(s, i)) \cup {s[i]}
<1>1. ASSUME NEW u \in Monitor!UID PROVE Monitor!ToSet(Append(s, u)) = Monitor!ToSet(s) \cup {u}
  <2> DEFINE t == Append(s, u)
  <2>1. /\ DOMAIN s = 1..Len(s) /\ DOMAIN t = 1..Len(s) + 1 /\ Len(s) \in Nat
        /\ \A j \in 1..Len(s) : t[j] = s[j]
        /\ t[Len(s) + 1] = u
    OBVIOUS
  <2> HIDE DEF t
  <2>2. \A j \in DOMAIN t : t[j] \in Monitor!ToSet(s) \cup {u} BY <2>1 DEF Monitor!ToSet
  <2>3. \A v \in Monitor!ToSet(s) \cup {u} : \E j \in DOMAIN t : t[j] = v BY <2>1 DEF Monitor!ToSet
  <2> QED BY <2>2, <2>3 DEF Monitor!ToSet, t
<1>2. ASSUME NEW i \in DOMAIN s
      PROVE  /\ Monitor!RemoveAt(s, i) \in Seq(Monitor!UID)
             /\ Monitor!ToSet(s) = Monitor!ToSet(Monitor!RemoveAt(s, i)) \cup {s[i]}
  <2> DEFINE t == Monitor!RemoveAt(s, i)
  <2>1. /\ DOMAIN s = 1..Len(s) /\ Len(s) \in Nat /\ i \in 1..Len(s)
        /\ t \in Seq(Monitor!UID) /\ DOMAIN t = 1..Len(s) - 1
        /\ \A j \in 1..Len(s) - 1 : t[j] = IF j < i THEN s[j] ELSE s[j + 1]
    BY RemovedAt
  <2> HIDE DEF t
  <2>2. \A j \in DOMAIN t : t[j] \in Monitor!ToSet(s) BY <2>1 DEF Monitor!ToSet
  <2>3. ASSUME NEW j \in DOMAIN s, j # i PROVE s[j] \in Monitor!ToSet(t)
    <3>1. CASE j < i BY <2>1, <3>1 DEF Monitor!ToSet
    <3>2. CASE j > i
      <4>1. j - 1 \in DOMAIN t /\ t[j - 1] = s[j] BY <2>1, <3>2
      <4> QED BY <4>1 DEF Monitor!ToSet
    <3> QED BY <2>1, <2>3, <3>1, <3>2
  <2> QED BY <2>1, <2>2, <2>3 DEF Monitor!ToSet, t
<1> QED BY <1>1, <1>2

\* When no message is there twice, the one that is heard is gone.
LEMMA OldHeard ==
  ASSUME NEW s \in Seq(Monitor!UID), \A i, j \in DOMAIN s : s[i] = s[j] => i = j,
         NEW i \in DOMAIN s
  PROVE  LET t == Monitor!RemoveAt(s, i)
         IN  /\ \A j, k \in DOMAIN t : t[j] = t[k] => j = k
             /\ s[i] \notin Monitor!ToSet(t)
<1> DEFINE t == Monitor!RemoveAt(s, i)
<1>1. /\ DOMAIN s = 1..Len(s) /\ Len(s) \in Nat /\ i \in 1..Len(s)
      /\ DOMAIN t = 1..Len(s) - 1
      /\ \A j \in 1..Len(s) - 1 : t[j] = IF j < i THEN s[j] ELSE s[j + 1]
  BY RemovedAt
<1> HIDE DEF t
<1>2. \A j, k \in DOMAIN t : t[j] = t[k] => j = k BY <1>1
<1>3. \A j \in DOMAIN t : t[j] # s[i] BY <1>1
<1> QED BY <1>2, <1>3 DEF t, Monitor!ToSet

\* What is held is messages.
LEMMA HoldsMessages ==
  ASSUME Monitor!TypeOK
  PROVE  Holds \subseteq Monitor!UID /\ Monitor!UID \subseteq Nat \ {0}
<1>1. Monitor!ToSet(old) \subseteq Monitor!UID BY DEF Monitor!TypeOK, Monitor!ToSet
<1>2. Monitor!UID \subseteq Nat \ {0} /\ \A u \in 0..MaxUID : u \in Monitor!UID \cup {0}
  BY MonitorAssumption DEF Monitor!UID
<1>3. cur \in 0..MaxUID /\ cmail \in 0..MaxUID /\ todo \subseteq Monitor!UID
  BY DEF Monitor!TypeOK
<1>4. cur \in Monitor!UID \cup {0} /\ cmail \in Monitor!UID \cup {0} BY <1>2, <1>3
<1>5. ASSUME NEW u \in Holds PROVE u \in Monitor!UID BY <1>1, <1>3, <1>4 DEF Holds
<1> QED BY <1>2, <1>5

\* Both starts of the monitor satisfy the invariant.
LEMMA MonitorInit == (Monitor!Init \/ MonitorOver) => MonitorInv
<1> SUFFICES ASSUME NEW p \in {"max", "panic"}, Monitor!InitIn(p), p = "panic" => box = {}
             PROVE  MonitorInv
  BY DEF Monitor!Init, MonitorOver
<1> USE MonitorAssumption DEF Monitor!InitIn
<1>1. Monitor!TypeOK
  <2>1. /\ box \subseteq 1..MaxUID /\ next \in 1..MaxUID + 1 /\ 0 \in 0..MaxUID /\ 0 \in 0..Updates
        /\ old \in Seq(1..MaxUID) /\ collected \in [1..MaxUID -> Nat]
    BY DEF Monitor!UID
  <2> QED BY <2>1 DEF Monitor!TypeOK, Monitor!UID
<1>2. Holds = {} BY DEF Holds, Monitor!ToSet
<1>3. BoxInv BY <1>2 DEF BoxInv
<1>4. OnceInv BY <1>2 DEF OnceInv, OneHolderInv, Monitor!ToSet, Monitor!UID
<1>5. Monitor!NoneSkipped BY DEF Monitor!NoneSkipped
<1> QED BY <1>1, <1>3, <1>4, <1>5 DEF MonitorInv

\* A step that moves no message keeps the invariant.
LEMMA QuietKept ==
  ASSUME MonitorInv, Monitor!TypeOK',
         UNCHANGED <<box, next, max, start, todo, cur, old, cmail, collected, expunged>>,
         cpc' = cpc \/ {cpc, cpc'} \subseteq {"recv", "returned"},
         \/ fpc' = fpc
         \/ fpc # "panic" /\ fpc' \in {"returned", "panic"}
         \/ {fpc, fpc'} \subseteq {"search", "reset", "idle", "wake"},
         Monitor!Done => Monitor!Done'
  PROVE  MonitorInv'
<1>1. Holds' = Holds BY DEF Holds, Monitor!ToSet
<1>2. BoxInv' BY <1>1 DEF MonitorInv, BoxInv
<1>3. OnceInv' BY <1>1 DEF MonitorInv, OnceInv, OneHolderInv, Monitor!ToSet
<1>4. Monitor!NoneSkipped'
  BY DEF MonitorInv, Monitor!NoneSkipped, Monitor!Alive, Monitor!ToSet
<1> QED BY <1>2, <1>3, <1>4 DEF MonitorInv

\* The updates of the server, the reader, reactUpdates and the stop.
LEMMA UpdatesKept ==
  ASSUME MonitorInv,
         \/ Monitor!Announce \/ Monitor!Update \/ Monitor!React \/ Monitor!Signal
         \/ Monitor!ReactReturns \/ Monitor!Stop \/ Monitor!CollectEnds
  PROVE  MonitorInv'
<1> USE MonitorAssumption DEF Monitor!serverVars, Monitor!chanVars, Monitor!fetchVars, Monitor!collectVars
<1>1. Monitor!TypeOK'
  <2> USE DEF MonitorInv, Monitor!TypeOK
  <2>1. CASE Monitor!Announce BY <2>1 DEF Monitor!Announce
  <2>2. CASE Monitor!Update
    <3>1. updates' \in 0..Updates BY <2>2 DEF Monitor!Update
    <3> QED BY <2>2, <3>1 DEF Monitor!Update
  <2>3. CASE Monitor!React BY <2>3 DEF Monitor!React
  <2>4. CASE Monitor!Signal BY <2>4 DEF Monitor!Signal
  <2>5. CASE Monitor!ReactReturns BY <2>5 DEF Monitor!ReactReturns
  <2>6. CASE Monitor!Stop BY <2>6 DEF Monitor!Stop, Monitor!Fault
  <2>7. CASE Monitor!CollectEnds BY <2>7 DEF Monitor!CollectEnds
  <2> QED BY <2>1, <2>2, <2>3, <2>4, <2>5, <2>6, <2>7
<1>2. /\ UNCHANGED <<box, next, fpc, max, start, todo, cur, old, cmail, collected, expunged, failed>>
      /\ cpc' = cpc \/ {cpc, cpc'} \subseteq {"recv", "returned"}
      /\ faults \subseteq faults'
  BY DEF Monitor!Announce, Monitor!Update, Monitor!React, Monitor!Signal, Monitor!ReactReturns,
         Monitor!Stop, Monitor!CollectEnds, Monitor!Fault
<1>3. Monitor!Done => Monitor!Done' BY <1>2 DEF Monitor!Done
<1> QED BY <1>1, <1>2, <1>3, QuietKept

\* The steps of fetch that move no message.
LEMMA WaitsKept ==
  ASSUME MonitorInv, Monitor!Reset \/ Monitor!Idle \/ Monitor!Wake \/ Monitor!ClientFails
  PROVE  MonitorInv'
<1> USE MonitorAssumption DEF Monitor!serverVars, Monitor!chanVars, Monitor!fetchVars, Monitor!collectVars,
        Monitor!FetchReturns
<1>1. Monitor!TypeOK'
  <2> USE DEF MonitorInv, Monitor!TypeOK
  <2>1. CASE Monitor!Reset
    <3>1. stopIdle' \in 0..Updates /\ fpc' \in {"idle", "returned", "panic"}
      BY <2>1 DEF Monitor!Reset
    <3>2. discarded' \in BOOLEAN BY <2>1, Zenon DEF Monitor!Reset
    <3>3. failed' \in BOOLEAN BY <2>1, Zenon DEF Monitor!Reset
    <3> QED BY <2>1, <3>1, <3>2, <3>3 DEF Monitor!Reset
  <2>2. CASE Monitor!Idle BY <2>2 DEF Monitor!Idle
  <2>3. CASE Monitor!Wake BY <2>3 DEF Monitor!Wake
  <2>4. CASE Monitor!ClientFails BY <2>4 DEF Monitor!ClientFails, Monitor!Fault
  <2> QED BY <2>1, <2>2, <2>3, <2>4
<1>2. UNCHANGED <<box, next, max, start, todo, cur, old, cpc, cmail, collected, expunged>>
  BY DEF Monitor!Reset, Monitor!Idle, Monitor!Wake, Monitor!ClientFails
<1>3. \/ fpc # "panic" /\ fpc' \in {"returned", "panic"}
      \/ {fpc, fpc'} \subseteq {"search", "reset", "idle", "wake"}
  BY DEF Monitor!Reset, Monitor!Idle, Monitor!Wake, Monitor!ClientFails
<1>4. faults \subseteq faults'
  BY DEF Monitor!Reset, Monitor!Idle, Monitor!Wake, Monitor!ClientFails, Monitor!Fault
<1>5. failed => failed' BY DEF Monitor!Reset, Monitor!Idle, Monitor!Wake, Monitor!ClientFails
<1>6. Monitor!Done => Monitor!Done' BY <1>4, <1>5 DEF Monitor!Done
<1> QED BY <1>1, <1>2, <1>3, <1>6, QuietKept

\* A message arrives in the mailbox, or leaves it.
LEMMA MailboxKept ==
  ASSUME MonitorInv, Monitor!Arrive \/ \E u \in Monitor!UID : Monitor!Expunge(u)
  PROVE  MonitorInv'
<1> USE MonitorAssumption DEF Monitor!serverVars, Monitor!chanVars, Monitor!fetchVars, Monitor!collectVars,
        Monitor!Fault
<1>1. CASE Monitor!Arrive
  <2> USE <1>1 DEF Monitor!Arrive
  <2>1. Monitor!TypeOK' BY DEF MonitorInv, Monitor!TypeOK, Monitor!UID
  <2>2. Holds' = Holds BY DEF Holds, Monitor!ToSet
  <2>3. BoxInv' BY <2>2 DEF MonitorInv, BoxInv, Monitor!TypeOK
  <2>4. OnceInv' BY <2>2 DEF MonitorInv, OnceInv, OneHolderInv, Monitor!ToSet
  <2>5. \A u \in box' : u <= max => u \in box BY DEF MonitorInv, BoxInv, Monitor!TypeOK
  <2>6. Monitor!NoneSkipped'
    BY <2>5 DEF MonitorInv, Monitor!NoneSkipped, Monitor!Alive, Monitor!Done, Monitor!ToSet
  <2> QED BY <2>1, <2>3, <2>4, <2>6 DEF MonitorInv
<1>2. ASSUME NEW u \in Monitor!UID, Monitor!Expunge(u) PROVE MonitorInv'
  <2> USE <1>2 DEF Monitor!Expunge
  <2>1. Monitor!TypeOK' BY DEF MonitorInv, Monitor!TypeOK
  <2>2. Holds' = Holds BY DEF Holds, Monitor!ToSet
  <2>3. BoxInv' BY <2>2 DEF MonitorInv, BoxInv
  <2>4. OnceInv' BY DEF OnceInv
  <2>5. Monitor!NoneSkipped'
    BY DEF MonitorInv, Monitor!NoneSkipped, Monitor!Alive, Monitor!Done, Monitor!ToSet
  <2> QED BY <2>1, <2>3, <2>4, <2>5 DEF MonitorInv
<1> QED BY <1>1, <1>2

\* getMaxUID begins with the newest message of the mailbox.
LEMMA BeginsKept ==
  ASSUME MonitorInv, Monitor!getMaxUID
  PROVE  MonitorInv'
<1> USE DEF Monitor!serverVars, Monitor!chanVars, Monitor!collectVars
<1>1. CASE box = {}
  <2> USE <1>1 DEF Monitor!getMaxUID
  <2>1. Monitor!TypeOK' BY DEF MonitorInv, Monitor!TypeOK
  <2>2. fpc # "panic" /\ fpc' = "panic" /\ UNCHANGED <<box, next, max, start, todo, cur, old, cpc, cmail,
                                                       collected, expunged, failed, faults>>
    OBVIOUS
  <2>3. Monitor!Done => Monitor!Done' BY DEF Monitor!Done
  <2> QED BY <2>1, <2>2, <2>3, QuietKept
<1>2. CASE box # {}
  <2> DEFINE m == Monitor!Max(box)
  <2>0. box \in SUBSET (1..MaxUID) /\ next \in Nat
    BY MonitorAssumption DEF MonitorInv, Monitor!TypeOK, Monitor!UID
  <2>1. m \in box /\ m \in 1..MaxUID /\ next \in Nat /\ \A u \in box : u <= m
    BY <1>2, <2>0, Extremes
  <2>2. /\ fpc = "max" /\ fpc' = "search" /\ max' = m /\ start' = m
        /\ UNCHANGED <<box, next, todo, cur, old, cpc, cmail, collected, expunged>>
    BY <1>2 DEF Monitor!getMaxUID
  <2>3. Monitor!TypeOK'
    BY <1>2, <2>1, <2>2, MonitorAssumption DEF MonitorInv, Monitor!TypeOK, Monitor!getMaxUID
  <2> HIDE DEF m
  <2>4. Holds = {} /\ Holds' = {} /\ max = 0 /\ start = 0
    BY <2>2 DEF MonitorInv, BoxInv, Holds, Monitor!ToSet
  <2>5. m < next /\ box \subseteq 1..next - 1 BY <2>1 DEF MonitorInv, BoxInv
  <2>6. BoxInv' BY <2>2, <2>4, <2>5 DEF MonitorInv, BoxInv
  <2>7. OnceInv'
    <3>1. OneHolderInv' <=> OneHolderInv BY <2>2 DEF OneHolderInv, Monitor!ToSet
    <3>2. expunged = {} => \A u \in Monitor!UID : collected[u] = 0
      BY <2>4 DEF MonitorInv, OnceInv, Monitor!UID
    <3> QED BY <2>1, <2>2, <2>4, <3>1, <3>2 DEF MonitorInv, OnceInv
  <2>8. Monitor!NoneSkipped'
    BY <2>1, <2>2 DEF Monitor!NoneSkipped, MonitorInv, Monitor!TypeOK, Monitor!UID
  <2> QED BY <2>3, <2>6, <2>7, <2>8 DEF MonitorInv
<1> QED BY <1>1, <1>2

(* What the search finds is newer than max, as long as the newest message is  *)
(* there; whatever was expunged, it leaves out nothing that is newer.        *)
LEMMA SearchFinds ==
  ASSUME MonitorInv, Monitor!Search
  PROVE  LET uids == Monitor!getNewUIDs
         IN  /\ uids \subseteq box
             /\ uids # {} => Monitor!Max(uids) \in uids /\ \A u \in uids : u <= Monitor!Max(uids)
             /\ \A u \in box : u > max => u \in uids
             /\ expunged = {} /\ uids # {} /\ Monitor!Min(uids) # max => \A u \in uids : u > max
<1> DEFINE uids == Monitor!getNewUIDs
<1>1. box \subseteq 1..MaxUID /\ max \in Nat /\ fpc = "search"
  BY MonitorAssumption DEF MonitorInv, Monitor!TypeOK, Monitor!UID, Monitor!Search
<1>2. box # {} => Monitor!Max(box) \in box /\ \A u \in box : u <= Monitor!Max(box)
  BY <1>1, Extremes
<1>3. uids \subseteq box BY <1>2 DEF Monitor!getNewUIDs, Monitor!New
<1>4. uids # {} => Monitor!Max(uids) \in uids /\ \A u \in uids : u <= Monitor!Max(uids)
  <2> HIDE DEF uids
  <2> QED BY <1>1, <1>3, Extremes
<1>5. \A u \in box : u > max => u \in uids BY DEF Monitor!getNewUIDs, Monitor!New
<1>6. ASSUME expunged = {}, uids # {}, Monitor!Min(uids) # max PROVE \A u \in uids : u > max
  <2>1. max \in box BY <1>1, <1>6 DEF MonitorInv, OnceInv
  <2>2. CASE Monitor!New # {} BY <2>2 DEF Monitor!getNewUIDs, Monitor!New
  <2>3. CASE Monitor!New = {}
    <3>1. uids = {max}
      <4>1. \A u \in box : u <= max BY <1>1, <2>3 DEF Monitor!New
      <4>2. \A x \in box : (\A u \in box : u <= x) => x = max BY <1>1, <2>1, <4>1
      <4>3. Monitor!Max(box) = max BY <1>2, <2>1, <4>2
      <4> QED BY <2>1, <2>3, <4>3 DEF Monitor!getNewUIDs
    <3>2. Monitor!Min({max}) = max
      <4>1. max \in 1..MaxUID BY <1>1, <2>1
      <4> QED BY <4>1, Extremes
    <3> QED BY <1>6, <3>1, <3>2
  <2> QED BY <2>2, <2>3
<1> QED BY <1>3, <1>4, <1>5, <1>6

\* The search of new messages.
LEMMA SearchKept ==
  ASSUME MonitorInv, Monitor!Search
  PROVE  MonitorInv'
<1> USE DEF Monitor!serverVars, Monitor!chanVars, Monitor!collectVars
<1> DEFINE uids == Monitor!getNewUIDs
<1>1. /\ fpc = "search" /\ todo = {}
      /\ UNCHANGED <<box, next, start, cur, old, cpc, cmail, collected, expunged, failed, faults>>
  BY DEF Monitor!Search, MonitorInv, BoxInv
<1>2. CASE ~(uids # {} /\ Monitor!Min(uids) # max)
  <2>1. fpc' = "reset" /\ UNCHANGED <<max, todo>> BY <1>2 DEF Monitor!Search
  <2>2. Monitor!TypeOK' BY <2>1 DEF MonitorInv, Monitor!TypeOK, Monitor!Search
  <2>3. Monitor!Done => Monitor!Done' BY <1>1 DEF Monitor!Done
  <2> QED BY <1>1, <2>1, <2>2, <2>3, QuietKept
<1>3. CASE uids # {} /\ Monitor!Min(uids) # max
  <2> DEFINE m == Monitor!Max(uids)
  <2>1. fpc' = "fetch" /\ max' = m /\ todo' = uids BY <1>3 DEF Monitor!Search
  <2>2. /\ uids \subseteq box /\ m \in uids /\ \A u \in uids : u <= m
        /\ \A u \in box : u > max => u \in uids
        /\ expunged = {} => \A u \in uids : u > max
    BY <1>3, SearchFinds
  <2>3. /\ box \subseteq 1..MaxUID /\ box \subseteq 1..next - 1 /\ next \in Nat /\ max \in Nat /\ start \in Nat
        /\ cur \in Nat /\ cmail \in Nat /\ old \in Seq(1..MaxUID) /\ collected \in [1..MaxUID -> Nat]
    BY MonitorAssumption DEF MonitorInv, Monitor!TypeOK, Monitor!UID, BoxInv
  <2>4. m \in 1..MaxUID /\ m < next
    <3>1. \A u \in box : u \in 1..MaxUID /\ u < next BY <2>3
    <3> QED BY <2>2, <3>1
  <2>5. Monitor!TypeOK'
    BY <2>1, <2>2, <2>4 DEF MonitorInv, Monitor!TypeOK, Monitor!UID, Monitor!Search
  <2> HIDE DEF m, uids
  <2>6. BoxInv' BY <1>1, <2>1, <2>3, <2>4 DEF MonitorInv, BoxInv
  <2>7. Monitor!ToSet(old)' = Monitor!ToSet(old) BY <1>1 DEF Monitor!ToSet
  <2>8. Holds = (Monitor!ToSet(old) \cup {cur, cmail}) \ {0} /\ Holds' = (uids \cup Holds)
    BY <1>1, <2>1, <2>2, <2>3, <2>7 DEF Holds
  <2>9. OnceInv'
    <3> SUFFICES ASSUME expunged = {} PROVE OnceInv' BY <1>1 DEF OnceInv
    <3>1. /\ OneHolderInv /\ max < m /\ \A u \in uids : start < u /\ u > max /\ u <= m
          /\ \A u \in Holds : start < u /\ u <= max /\ collected[u] = 0
          /\ \A u \in Monitor!UID : collected[u] = 0 \/ (collected[u] = 1 /\ start < u /\ u <= max)
      <4>1. OneHolderInv /\ max \in box /\ start <= max BY <1>1 DEF MonitorInv, OnceInv
      <4>2. /\ \A u \in Holds : start < u /\ u <= max /\ collected[u] = 0
            /\ \A u \in Monitor!UID : collected[u] = 0 \/ (collected[u] = 1 /\ start < u /\ u <= max)
        BY DEF MonitorInv, OnceInv
      <4>3. \A u \in uids : u \in Nat /\ u > max /\ u <= m BY <2>2, <2>3
      <4> QED BY <2>2, <2>3, <4>1, <4>2, <4>3
    <3>2. \A u \in Holds : u \notin uids /\ start < u /\ u <= m /\ collected[u] = 0
      <4>1. Holds \subseteq Nat BY HoldsMessages DEF MonitorInv
      <4> QED BY <2>3, <2>4, <3>1, <4>1
    <3>3. \A u \in uids : collected[u] = 0 BY <2>2, <2>3, <3>1 DEF Monitor!UID
    <3>4. OneHolderInv'
      BY <1>1, <2>1, <2>3, <2>7, <2>8, <3>1, <3>2 DEF OneHolderInv, Holds
    <3>5. \A u \in Monitor!UID : collected[u] = 0 \/ (collected[u] = 1 /\ start < u /\ u <= m)
      BY <2>3, <2>4, <3>1 DEF Monitor!UID
    <3>6. start <= m /\ m \in box BY <2>2, <2>3, <2>4, <3>1
    <3> QED BY <1>1, <2>1, <2>8, <3>1, <3>2, <3>3, <3>4, <3>5, <3>6 DEF OnceInv
  <2>10. Monitor!NoneSkipped'
    <3>1. \A u \in box : u <= m => u \in uids \/ u <= max BY <2>2, <2>3
    <3> QED BY <1>1, <2>1, <2>7, <3>1 DEF MonitorInv, Monitor!NoneSkipped, Monitor!Alive, Monitor!Done
  <2> QED BY <2>5, <2>6, <2>9, <2>10 DEF MonitorInv
<1> QED BY <1>2, <1>3

\* A message is delivered to the forwarder of the round, if it is still there.
LEMMA DeliverKept ==
  ASSUME MonitorInv, Monitor!Deliver
  PROVE  MonitorInv'
<1> USE DEF Monitor!serverVars, Monitor!chanVars, Monitor!collectVars
<1> DEFINE m == Monitor!Min(todo)
<1>1. /\ fpc = "fetch" /\ todo # {} /\ cur = 0 /\ todo' = todo \ {m}
      /\ cur' = IF m \in box THEN m ELSE 0
      /\ UNCHANGED <<box, next, fpc, max, start, old, cpc, cmail, collected, expunged, failed, faults>>
  BY DEF Monitor!Deliver
<1>2. todo \in SUBSET (1..MaxUID) /\ m \in todo BY <1>1, Extremes DEF MonitorInv, Monitor!TypeOK, Monitor!UID
<1> HIDE DEF m
<1>3. m \in 1..MaxUID /\ m # 0 /\ m \in 0..MaxUID /\ 0 \in 0..MaxUID
  <2>1. \A u \in 1..MaxUID : u # 0 /\ u \in 0..MaxUID BY MonitorAssumption
  <2> QED BY <1>2, <2>1, MonitorAssumption
<1>4. Monitor!TypeOK'
  <2>1. todo' \subseteq Monitor!UID /\ cur' \in 0..MaxUID BY <1>1, <1>2, <1>3 DEF Monitor!UID
  <2> QED BY <2>1 DEF MonitorInv, Monitor!TypeOK, Monitor!Deliver
<1>5. Monitor!ToSet(old)' = Monitor!ToSet(old) BY <1>1 DEF Monitor!ToSet
<1>6. Holds' \subseteq Holds BY <1>1, <1>2, <1>5 DEF Holds
<1>7. BoxInv' BY <1>1, <1>6 DEF MonitorInv, BoxInv
<1>8. OnceInv'
  <2>1. OneHolderInv => OneHolderInv'
    BY <1>1, <1>2, <1>3, <1>5 DEF OneHolderInv
  <2> QED BY <1>1, <1>6, <2>1 DEF MonitorInv, OnceInv
<1>9. Monitor!NoneSkipped'
  <2>1. \A u \in box : u \in todo => u \in todo' \cup {cur'} BY <1>1
  <2>2. cur = 0 /\ \A u \in box : u # 0
    BY <1>1, MonitorAssumption DEF MonitorInv, Monitor!TypeOK, Monitor!UID
  <2> QED BY <1>1, <1>5, <2>1, <2>2 DEF MonitorInv, Monitor!NoneSkipped, Monitor!Alive, Monitor!Done
<1> QED BY <1>4, <1>7, <1>8, <1>9 DEF MonitorInv

\* The round ends, and its forwarder may still hold a message.
LEMMA FetchEndKept ==
  ASSUME MonitorInv, Monitor!FetchEnd
  PROVE  MonitorInv'
<1> USE DEF Monitor!serverVars, Monitor!chanVars, Monitor!collectVars
<1>1. /\ fpc = "fetch" /\ todo = {} /\ fpc' = "search" /\ cur' = 0
      /\ old' = IF cur = 0 THEN old ELSE Append(old, cur)
      /\ UNCHANGED <<box, next, max, start, todo, cpc, cmail, collected, expunged, failed, faults>>
  BY DEF Monitor!FetchEnd
<1>2. old \in Seq(Monitor!UID) /\ (cur # 0 => cur \in Monitor!UID) /\ 0 \in 0..MaxUID /\ 0 \notin Monitor!UID
  BY MonitorAssumption DEF MonitorInv, Monitor!TypeOK, Monitor!UID
<1>3. /\ old' \in Seq(Monitor!UID)
      /\ Monitor!ToSet(old)' = Monitor!ToSet(old) \cup ({cur} \ {0})
  <2>1. Monitor!ToSet(old)' = Monitor!ToSet(old') BY DEF Monitor!ToSet
  <2>2. CASE cur = 0 BY <1>1, <1>2, <2>1, <2>2
  <2>3. CASE cur # 0 BY <1>1, <1>2, <2>1, <2>3, OldMessages
  <2> QED BY <2>2, <2>3
<1>4. Monitor!TypeOK' BY <1>1, <1>2, <1>3 DEF MonitorInv, Monitor!TypeOK, Monitor!FetchEnd
<1>5. Holds' = Holds BY <1>1, <1>2, <1>3 DEF Holds
<1>6. BoxInv' BY <1>1, <1>5 DEF MonitorInv, BoxInv
<1>7. OnceInv'
  <2>1. ASSUME OneHolderInv PROVE OneHolderInv'
    <3>1. \A i, j \in DOMAIN old' : old'[i] = old'[j] => i = j
      <4>1. CASE cur = 0 BY <1>1, <2>1, <4>1 DEF OneHolderInv
      <4>2. CASE cur # 0
        <5>1. /\ old' = Append(old, cur) /\ \A i \in DOMAIN old : old[i] # cur
              /\ \A i, j \in DOMAIN old : old[i] = old[j] => i = j
          BY <1>1, <2>1, <4>2 DEF OneHolderInv, Monitor!ToSet
        <5> QED BY <1>2, <5>1
      <4> QED BY <4>1, <4>2
    <3>2. /\ todo' \cap Monitor!ToSet(old)' = {}
          /\ {cur', cmail'} \cap (todo' \cup Monitor!ToSet(old)') = {}
          /\ cur' = 0
      <4>1. 0 \notin Monitor!ToSet(old)
        BY <1>2 DEF Monitor!ToSet
      <4> QED BY <1>1, <1>3, <2>1, <4>1 DEF OneHolderInv
    <3> QED BY <3>1, <3>2 DEF OneHolderInv
  <2> QED BY <1>1, <1>5, <2>1 DEF MonitorInv, OnceInv
<1>8. Monitor!NoneSkipped'
  BY <1>1, <1>3 DEF MonitorInv, Monitor!NoneSkipped, Monitor!Alive, Monitor!Done, Monitor!UID
<1> QED BY <1>4, <1>6, <1>7, <1>8 DEF MonitorInv

\* A forwarder meets collect.
LEMMA ForwardKept ==
  ASSUME MonitorInv, NEW i \in 0..Len(old), Monitor!Forward(i)
  PROVE  MonitorInv'
<1> USE DEF Monitor!serverVars, Monitor!chanVars
<1>1. /\ cpc = "recv" /\ cmail = 0 /\ cpc' = "push" /\ fpc # "panic"
      /\ UNCHANGED <<box, next, fpc, max, start, todo, collected, expunged, failed, faults>>
  BY DEF Monitor!Forward, Monitor!Alive, MonitorInv, BoxInv
<1>2. /\ old \in Seq(Monitor!UID) /\ (cur # 0 => cur \in Monitor!UID) /\ 0 \in 0..MaxUID
      /\ 0 \notin Monitor!UID /\ Monitor!UID \subseteq 0..MaxUID
  BY MonitorAssumption DEF MonitorInv, Monitor!TypeOK, Monitor!UID
<1>3. /\ old' \in Seq(Monitor!UID) /\ cmail' \in Monitor!UID /\ cur' \in {0, cur}
      /\ Holds' = Holds /\ (OneHolderInv => OneHolderInv')
  <2>1. Monitor!ToSet(old)' = Monitor!ToSet(old') BY DEF Monitor!ToSet
  <2>2. CASE cur # 0 /\ cmail' = cur /\ cur' = 0 /\ UNCHANGED old
    <3>1. 0 \notin todo \cup Monitor!ToSet(old)
      BY <1>2 DEF MonitorInv, Monitor!TypeOK, Monitor!ToSet
    <3> QED BY <1>1, <1>2, <2>1, <2>2, <3>1 DEF Holds, OneHolderInv
  <2>3. CASE i \in DOMAIN old /\ cmail' = old[i] /\ old' = Monitor!RemoveAt(old, i) /\ UNCHANGED cur
    <3>1. /\ old' \in Seq(Monitor!UID) /\ cmail' \in Monitor!UID
          /\ Monitor!ToSet(old) = Monitor!ToSet(old') \cup {cmail'}
      BY <1>2, <2>3, OldMessages
    <3>2. Holds' = Holds BY <1>1, <1>2, <2>1, <2>3, <3>1 DEF Holds
    <3>3. ASSUME OneHolderInv PROVE OneHolderInv'
      <4>1. /\ \A j, k \in DOMAIN old' : old'[j] = old'[k] => j = k
            /\ cmail' \notin Monitor!ToSet(old')
        BY <1>2, <2>3, <3>3, OldHeard DEF OneHolderInv
      <4> QED BY <1>1, <2>1, <2>3, <3>1, <3>3, <4>1 DEF OneHolderInv
    <3> QED BY <2>3, <3>1, <3>2, <3>3
  <2> QED BY <2>2, <2>3 DEF Monitor!Forward
<1>4. Monitor!TypeOK' BY <1>2, <1>3 DEF MonitorInv, Monitor!TypeOK, Monitor!Forward
<1>5. BoxInv' BY <1>1, <1>2, <1>3 DEF MonitorInv, BoxInv
<1>6. OnceInv' BY <1>1, <1>3 DEF MonitorInv, OnceInv
<1>7. Monitor!NoneSkipped'
  <2>1. Monitor!UID \subseteq Nat \ {0} BY HoldsMessages DEF MonitorInv
  <2>2. \A u \in box : u # 0 BY <2>1 DEF MonitorInv, Monitor!TypeOK
  <2>3. \A u \in box : u \in todo \cup Monitor!ToSet(old) \cup {cur, cmail} =>
          u \in todo' \cup Monitor!ToSet(old)' \cup {cur', cmail'}
    BY <1>3, <2>2 DEF Holds
  <2> QED BY <1>1, <2>3 DEF MonitorInv, Monitor!NoneSkipped, Monitor!Alive, Monitor!Done
<1> QED BY <1>4, <1>5, <1>6, <1>7 DEF MonitorInv

\* The collector takes the message, or collect ends with an error.
LEMMA CollectorKept ==
  ASSUME MonitorInv, Monitor!Collect
  PROVE  MonitorInv'
<1> USE DEF Monitor!serverVars, Monitor!chanVars, Monitor!fetchVars
<1>1. /\ cpc = "push" /\ cmail # 0 /\ cmail' = 0 /\ fpc # "panic"
      /\ UNCHANGED <<box, next, fpc, max, start, todo, cur, old, expunged>>
  BY DEF Monitor!Collect, Monitor!Alive, MonitorInv, BoxInv
<1>2. cmail \in Monitor!UID /\ 0 \in 0..MaxUID /\ Monitor!UID \subseteq Nat \ {0} /\ collected \in [Monitor!UID -> Nat]
  <2>1. cmail \in Holds BY <1>1 DEF Holds
  <2> QED BY <2>1, HoldsMessages, MonitorAssumption DEF MonitorInv, Monitor!TypeOK
<1>3. Monitor!ToSet(old)' = Monitor!ToSet(old) BY <1>1 DEF Monitor!ToSet
<1>4. Holds' \subseteq Holds /\ Holds \subseteq Holds' \cup {cmail} BY <1>1, <1>3 DEF Holds
<1>5. CASE collected' = [collected EXCEPT ![cmail] = @ + 1] /\ cpc' = "recv" /\ UNCHANGED <<failed, faults>>
  <2>1. /\ collected' \in [Monitor!UID -> Nat] /\ collected'[cmail] = collected[cmail] + 1
        /\ \A u \in Monitor!UID \ {cmail} : collected'[u] = collected[u]
    BY <1>2, <1>5
  <2>2. Monitor!TypeOK' BY <1>2, <1>5, <2>1 DEF MonitorInv, Monitor!TypeOK, Monitor!Collect
  <2>3. BoxInv' BY <1>1, <1>4, <1>5 DEF MonitorInv, BoxInv
  <2>4. OnceInv'
    <3> SUFFICES ASSUME expunged = {} PROVE OnceInv' BY <1>1 DEF OnceInv
    <3>1. OneHolderInv /\ cmail \in Holds BY <1>1 DEF MonitorInv, OnceInv, Holds
    <3>2. cmail \notin Holds' /\ OneHolderInv'
      <4>1. 0 \notin todo \cup Monitor!ToSet(old)
        BY <1>2 DEF MonitorInv, Monitor!TypeOK, Monitor!ToSet
      <4> QED BY <1>1, <1>3, <3>1, <4>1 DEF OneHolderInv, Holds
    <3>3. collected[cmail] = 0 /\ start < cmail /\ cmail <= max BY <3>1 DEF MonitorInv, OnceInv
    <3>4. \A u \in Holds' : u \in Monitor!UID /\ u # cmail /\ u \in Holds
      BY <1>4, <3>2, HoldsMessages DEF MonitorInv
    <3>5. \A u \in Holds' : start < u /\ u <= max /\ collected'[u] = 0
      BY <2>1, <3>4 DEF MonitorInv, OnceInv
    <3>6. \A u \in Monitor!UID : collected'[u] = 0 \/ (collected'[u] = 1 /\ start < u /\ u <= max)
      <4>1. collected'[cmail] = 1 BY <2>1, <3>3
      <4> QED BY <2>1, <3>3, <4>1 DEF MonitorInv, OnceInv
    <3> QED BY <1>1, <3>2, <3>5, <3>6 DEF MonitorInv, OnceInv
  <2>5. Monitor!NoneSkipped'
    <3>1. \A u \in box : u \in Monitor!UID BY DEF MonitorInv, Monitor!TypeOK
    <3> QED BY <1>1, <1>2, <1>3, <1>5, <2>1, <3>1
          DEF MonitorInv, Monitor!NoneSkipped, Monitor!Alive, Monitor!Done
  <2> QED BY <2>2, <2>3, <2>4, <2>5 DEF MonitorInv
<1>6. CASE /\ IF Monitor!Done THEN UNCHANGED faults ELSE Monitor!Fault("collector")
           /\ cpc' = "returned" /\ failed' = TRUE /\ UNCHANGED collected
  <2>1. Monitor!TypeOK' BY <1>2, <1>6 DEF MonitorInv, Monitor!TypeOK, Monitor!Collect, Monitor!Fault
  <2>2. BoxInv' BY <1>1, <1>4, <1>6 DEF MonitorInv, BoxInv
  <2>3. OnceInv'
    <3>1. OneHolderInv => OneHolderInv'
      <4>1. 0 \notin todo \cup Monitor!ToSet(old)
        BY <1>2 DEF MonitorInv, Monitor!TypeOK, Monitor!ToSet
      <4> QED BY <1>1, <1>3, <4>1 DEF OneHolderInv
    <3> QED BY <1>1, <1>4, <1>6, <3>1 DEF MonitorInv, OnceInv
  <2>4. Monitor!NoneSkipped' BY <1>6 DEF Monitor!NoneSkipped, Monitor!Done
  <2> QED BY <2>1, <2>2, <2>3, <2>4 DEF MonitorInv
<1> QED BY <1>5, <1>6 DEF Monitor!Collect

(* The monitor collects a message once and skips none, whatever the mailbox,  *)
(* the server, the collector and the connection do, and however many         *)
(* messages there are and faults come.                                      *)
THEOREM MessagesCollectedOnce == Spec => []MonitorOnce
<1>1. Init => MonitorInv BY MonitorInit DEF Init
<1>2. MonitorInv /\ [Next]_vars => MonitorInv'
  <2>1. ASSUME MonitorInv, UNCHANGED monitor PROVE MonitorInv'
    <3> USE <2>1 DEF monitor
    <3>1. Monitor!TypeOK' BY DEF MonitorInv, Monitor!TypeOK
    <3>2. Monitor!Done => Monitor!Done' BY DEF Monitor!Done
    <3> QED BY <3>1, <3>2, QuietKept
  <2>2. ASSUME MonitorInv, Monitor!Next PROVE MonitorInv'
    BY <2>2, UpdatesKept, WaitsKept, MailboxKept, BeginsKept, SearchKept, DeliverKept, FetchEndKept,
       ForwardKept, CollectorKept
       DEF Monitor!Next, Monitor!Fetch, Monitor!Reacts, Monitor!Collects
  <2> QED BY <2>1, <2>2 DEF Next, vars
<1>3. MonitorInv => MonitorOnce
  <2> SUFFICES ASSUME MonitorInv PROVE Monitor!CollectedOnce
    BY DEF MonitorInv, MonitorOnce
  <2>1. Monitor!UID \subseteq Nat BY HoldsMessages DEF MonitorInv
  <2>2. start \in Nat /\ \A u \in Monitor!UID : collected[u] \in Nat
    BY MonitorAssumption DEF MonitorInv, Monitor!TypeOK
  <2> QED BY <2>1, <2>2 DEF MonitorInv, OnceInv, Monitor!CollectedOnce
<1> QED BY <1>1, <1>2, <1>3, PTL DEF Spec
=============================================================================
