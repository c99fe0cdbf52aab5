------------------------------ MODULE Phishtank ------------------------------
(***************************************************************************)
(* The hourly refresh of the tree of phishing URLs (phishtank/).  Start     *)
(* runs Download and BuildTree, which meet on two unbuffered channels; the  *)
(* feed and its ETag are cached in two files that survive a crash.  Version *)
(* v of the feed is the sequence Feeds[v] of entries.                       *)
(***************************************************************************)
EXTENDS Integers, Sequences, FiniteSets

CONSTANTS Feeds,   \* the versions of the feed: sequences of [url, id, ok]
          Faults,  \* bound: what may go wrong, once each
          MaxFaults \* bound: how much of it in one behavior

Versions == DOMAIN Feeds
URLs     == UNION {{Feeds[v][i].url : i \in DOMAIN Feeds[v]} : v \in Versions}
Torn     == -1

VARIABLES
  server,   \* the version the site serves
  feed,     \* the file feed: the version that starts it, and how much of it (0: no file)
  etag,     \* the file etag (0: none; Torn: the start of one and the end of another)
  dl,       \* where Download is
  sees,     \* the version Download has asked for or reads
  pos,      \* the entries parseFile has sent
  offer,    \* an error waits on errs
  open,     \* the channels BuildTree still reads
  acc,      \* the tree BuildTree makes
  tree,     \* the tree Start has stored last, and its version (0: none)
  loop,     \* Start: "build", "sleep", "returned"
  locked,   \* lock
  done,     \* ctx
  faults    \* what may still go wrong

net   == <<server, feed, etag>>
pipe  == <<dl, sees, pos, offer, open, acc>>
vars  == <<net, pipe, tree, loop, locked, done, faults>>

Empty == [u \in URLs |-> {}]

\* Entry.Parse returns nil for a URL that does not parse; BuildTree skips it.
BuildTree(t, e) == IF e.ok THEN [t EXCEPT ![e.url] = @ \cup {e.id}] ELSE t

\* What a version says of each URL: the tree it should give.
Whole(v) == [u \in URLs |->
  {Feeds[v][i].id : i \in {j \in DOMAIN Feeds[v] : Feeds[v][j].url = u /\ Feeds[v][j].ok}}]

TypeOK ==
  /\ server \in Versions /\ etag \in Versions \cup {0, Torn} /\ sees \in Versions \cup {0}
  /\ feed.v \in Versions \cup {0} /\ feed.n \in Nat
  /\ dl \in {"lock", "head", "get", "copy", "etag", "parse", "clean", "over"}
  /\ pos \in Nat /\ offer \in BOOLEAN /\ open \subseteq {"entries", "errs"}
  /\ acc \in [URLs -> SUBSET Nat] /\ tree.v \in Versions \cup {0}
  /\ loop \in {"build", "sleep", "returned"} /\ locked \in BOOLEAN /\ done \in BOOLEAN
  /\ faults \subseteq Faults

Started(d) ==
  /\ dl' = d /\ sees' = 0 /\ pos' = 0 /\ offer' = FALSE
  /\ open' = {"entries", "errs"} /\ acc' = Empty

InitIn(d, l, F) ==
  /\ server \in Versions /\ feed = [v |-> 0, n |-> 0] /\ etag = 0
  /\ dl = d /\ sees = 0 /\ pos = 0 /\ offer = FALSE
  /\ open = {"entries", "errs"} /\ acc = Empty
  /\ tree = [v |-> 0, t |-> Empty] /\ loop = l /\ locked = FALSE /\ done = FALSE
  /\ faults = F

Init == InitIn("lock", "build", Faults)

Fails(f) ==
  /\ f \in faults /\ Cardinality(Faults \ faults) < MaxFaults
  /\ faults' = faults \ {f}
Error    == dl' = "clean" /\ offer' = TRUE

(*------------------------------ Download ---------------------------------*)
Lock ==
  /\ dl = "lock" /\ ~locked /\ locked' = TRUE /\ dl' = "head"
  /\ UNCHANGED <<net, sees, pos, offer, open, acc, tree, loop, done, faults>>

\* The ETag of the file is read, then the site's is asked for: when they are
\* the same and there is a feed, the file is parsed as it is.
Ask ==
  /\ dl = "head"
  /\ \/ /\ sees' = IF etag = server /\ feed.v # 0 THEN feed.v ELSE server
        /\ dl' = IF etag = server /\ feed.v # 0 THEN "parse" ELSE "get"
        /\ UNCHANGED <<offer, faults>>
     \/ (Fails("head") \/ (done /\ UNCHANGED faults)) /\ Error /\ UNCHANGED sees
  /\ UNCHANGED <<net, pos, open, acc, tree, loop, locked, done>>

\* Mutant: the ETag is written before the body is there.
MutGet ==
  /\ dl = "get"
  /\ \/ sees' = server /\ etag' = server /\ dl' = "copy" /\ UNCHANGED <<offer, faults>>
     \/ (Fails("get") \/ (done /\ UNCHANGED faults)) /\ Error /\ UNCHANGED <<sees, etag>>
  /\ UNCHANGED <<server, feed, pos, open, acc, tree, loop, locked, done>>

\* The second request may be answered with a later version.
Get ==
  /\ dl = "get"
  /\ \/ sees' = server /\ dl' = "copy" /\ UNCHANGED <<offer, faults>>
     \/ (Fails("get") \/ (done /\ UNCHANGED faults)) /\ Error /\ UNCHANGED sees
  /\ UNCHANGED <<net, pos, open, acc, tree, loop, locked, done>>

\* io.Copy over the old content, which is not truncated: what is left of it is
\* behind the end of the compressed stream, where nobody reads.
Copy ==
  /\ dl = "copy"
  /\ \/ /\ feed' = [v |-> sees, n |-> Len(Feeds[sees])] /\ dl' = "etag"
        /\ UNCHANGED <<offer, faults>>
     \/ /\ Fails("copy") \/ (done /\ UNCHANGED faults)
        /\ \E n \in 0..Len(Feeds[sees]) - 1 : feed' = [v |-> sees, n |-> n]
        /\ Error
  /\ UNCHANGED <<server, etag, sees, pos, open, acc, tree, loop, locked, done>>

\* A failure to write the ETag is only logged.  The file is not truncated: behind
\* a shorter ETag the end of the old one stays.
WriteETag ==
  /\ dl = "etag" /\ dl' = "parse"
  /\ \/ etag' = sees /\ UNCHANGED faults
     \/ etag # 0 /\ etag' = Torn /\ UNCHANGED faults
     \/ Fails("etag") /\ UNCHANGED etag
  /\ UNCHANGED <<server, feed, sees, pos, offer, open, acc, tree, loop, locked, done>>

\* parseFile: an entry, or the end of what can be read of the file, whatever ends it.
Entry ==
  /\ dl = "parse" /\ loop = "build" /\ "entries" \in open /\ pos < feed.n
  /\ acc' = BuildTree(acc, Feeds[feed.v][pos + 1]) /\ pos' = pos + 1
  /\ UNCHANGED <<net, dl, sees, offer, open, tree, loop, locked, done, faults>>

ParseEnds ==
  /\ dl = "parse" /\ pos = feed.n /\ dl' = "clean"
  /\ UNCHANGED <<net, sees, pos, offer, open, acc, tree, loop, locked, done, faults>>

\* Mutant: the lock is not released.
MutClean ==
  /\ dl = "clean" /\ ~offer /\ dl' = "over" /\ open' = {}
  /\ UNCHANGED <<net, sees, pos, offer, acc, tree, loop, locked, done, faults>>

Clean ==
  /\ dl = "clean" /\ ~offer
  /\ dl' = "over" /\ open' = {} /\ locked' = FALSE
  /\ UNCHANGED <<net, sees, pos, offer, acc, tree, loop, done, faults>>

(*------------------------------- Start -----------------------------------*)
\* BuildTree has seen both channels closed.
Store ==
  /\ loop = "build" /\ open = {} /\ tree' = [v |-> sees, t |-> acc] /\ loop' = "sleep"
  /\ UNCHANGED <<net, pipe, locked, done, faults>>

\* BuildTree has an error: the tree stays as it was.
BuildFails ==
  /\ loop = "build" /\ offer /\ offer' = FALSE /\ loop' = "sleep"
  /\ UNCHANGED <<net, dl, sees, pos, open, acc, tree, locked, done, faults>>

\* An hour later, when the last Download has long cleaned up.
Refresh ==
  /\ loop = "sleep" /\ ~done /\ dl = "over" /\ loop' = "build" /\ Started("lock")
  /\ UNCHANGED <<net, tree, locked, done, faults>>

\* A Download that still sends to BuildTree when it leaves waits for ever.
Returns ==
  /\ loop \in {"build", "sleep"} /\ done /\ loop' = "returned"
  /\ UNCHANGED <<net, pipe, tree, locked, done, faults>>

Stop ==
  /\ Fails("stop") /\ done' = TRUE
  /\ UNCHANGED <<net, pipe, tree, loop, locked>>

(*---------------------------- environment --------------------------------*)
Publish ==
  /\ server + 1 \in Versions /\ server' = server + 1
  /\ UNCHANGED <<feed, etag, pipe, tree, loop, locked, done, faults>>

\* The process dies and is started again: the two files remain.
Restart ==
  /\ Fails("crash") /\ Started("lock")
  /\ tree' = [v |-> 0, t |-> Empty] /\ loop' = "build" /\ locked' = FALSE /\ done' = FALSE
  /\ \/ UNCHANGED feed
     \/ dl = "copy" /\ \E n \in 0..Len(Feeds[sees]) : feed' = [v |-> sees, n |-> n]
  /\ UNCHANGED <<server, etag>>

Download == Lock \/ Ask \/ Get \/ Copy \/ WriteETag \/ Entry \/ ParseEnds \/ Clean
Start    == Store \/ BuildFails \/ Refresh \/ Returns

Next == Download \/ Start \/ Stop \/ Publish \/ Restart

Fairness == WF_vars(Download) /\ WF_vars(Store) /\ WF_vars(BuildFails)
            /\ WF_vars(Refresh) /\ WF_vars(Returns)

Spec == Init /\ [][Next]_vars /\ Fairness

-----------------------------------------------------------------------------
\* The tree that answers is all of one version of the feed, whatever failed,
\* crashed or changed on the site while it was downloaded or cached.
TreeIsWhole == tree.v # 0 => tree.t = Whole(tree.v)

\* After the last change of the site and the last failure, the tree becomes
\* that version; a service that is stopped returns, wherever Download is.
RefreshGoesOn ==
  <>[](\/ loop = "returned"
       \/ ~done /\ tree = [v |-> server, t |-> Whole(server)])
=============================================================================
