------------------------------ MODULE MCParser ------------------------------
(***************************************************************************)
(* The functions of the analysis on bounded inputs: a state is an input,    *)
(* one step computes what the code answers, the invariants compare it with  *)
(* what a reader expects of the input.  Or a command that parses three      *)
(* mails with two workers (BatchAction, whose behaviors are those of the    *)
(* command), so that one can wait to hand over a result while the other     *)
(* parses and a mail is still to be read.                                   *)
(***************************************************************************)
EXTENDS BatchAction, Sequences

CONSTANTS Str, Words,                   \* addresses, domains and URLs; words
          Depth, Contents,              \* how deep parts and files lie in each other
          Stem, Size, StopWords, Less,
          Trees, Outers,                \* mails, and mails that others are put into
          Attached, Extras,             \* attachments, and files put into them
          Texts, Names, Sentences, Hops, Forms,
          Lists                         \* values of the fields of addresses

Mime == INSTANCE MimeParts
Att  == INSTANCE Attachments
Form == INSTANCE FormMail
Feat == INSTANCE Features

\* A mail put into another lies two parts deeper, a file put into an archive one.
ASSUME DepthAssumption == Depth \in Nat \ {0, 1}
ASSUME TreesAssumption == Trees \subseteq Mime!PartsTo[Depth - 2] /\ Outers \subseteq Mime!Parts /\ 0 \in Contents
ASSUME FilesAssumption == Attached \subseteq Att!Files /\ Extras \subseteq Att!FilesTo[Depth - 1]
ASSUME WordsAssumption ==
  /\ Sentences \subseteq Seq(Words) /\ \A w \in Words : Size[w] \in Nat
  /\ \A v, w \in Words : Less[v][w] \in BOOLEAN /\ ~(Less[v][w] /\ Less[w][v])
  /\ \A v, w \in Words : v # w => Less[v][w] \/ Less[w][v]
  /\ \A u, v, w \in Words : Less[u][v] /\ Less[v][w] => Less[u][w]
ASSUME TextsAssumption == \A m \in Texts :
  /\ \A f \in DOMAIN m.headers : m.headers[f] \in Seq([v : Str, dec : BOOLEAN, ok : BOOLEAN])
  /\ m.links \in Seq(Str) /\ m.texts \in Seq([v : Str, ok : BOOLEAN]) /\ m.dkim \in Seq(BOOLEAN)
ASSUME NamesAssumption ==
  LET Address == [v : Str, domain : Str]
  IN /\ Names \subseteq [name : [addrs : Seq(Address), letters : Nat, marks : Nat], addr : Address]
     \* The domain is a part of the address.
     /\ \A n \in Names : \A i \in DOMAIN n.name.addrs :
          n.name.addrs[i].v = n.addr.v => n.name.addrs[i].domain = n.addr.domain
ASSUME FormsAssumption ==
  LET Values == Seq(Seq(Str))
  IN /\ Forms \subseteq [multipart : BOOLEAN, from : Seq(Str), to : Values, cc : Values, bcc : Values,
                         text : Str, html : Str, files : Seq([name : Str, data : Contents])]
     /\ Lists \subseteq Values

VARIABLES part, in, out
analysis == <<part, in, out>>

(*-------------------------------- the step -------------------------------*)
AnalysisInit ==
        out = <<>> /\ \/ part = "mime" /\ in \in Trees
                      \/ part = "attachment" /\ in \in Attached \X BOOLEAN
                      \/ part = "features" /\ in \in Texts
                      \/ part = "address" /\ in \in Names
                      \/ part = "words" /\ in \in Sentences
                      \/ part = "received" /\ in \in Hops \X BOOLEAN
                      \/ part = "form" /\ in \in Forms

Does(p, answer) == part = p /\ out = <<>> /\ out' = <<answer>> /\ UNCHANGED <<part, in, vars>>

ParsePart           == part = "mime" /\ Does("mime", Mime!ParsePart[in])
AnalyseAttachment   == part = "attachment" /\ Does("attachment", Att!AnalyseAttachment(in[1], in[2]))
ParseText           == part = "features" /\ Does("features", Feat!Features(in))
nameContainsAddress == part = "address" /\ Does("address", Feat!nameContainsAddress(in.name, in.addr))
BagOfWords          == part = "words" /\ Does("words", Feat!StemmedBag(in))
ParseReceivedHeader == part = "received" /\ Does("received", Feat!ParseReceivedHeader(in[1], in[2]))
analyze             == part = "form" /\ Does("form", Form!analyze(in))

NoCommand ==
  /\ action = "scan" /\ broken = {} /\ todo = {} /\ fetch = "search" /\ fetched = None
  /\ reader = "done" /\ incoming = None
  /\ work = [w \in Workers |-> "done"] /\ job = [w \in Workers |-> None]
  /\ results = "closed" /\ cons = "done" /\ feature = None
  /\ consumed = Mails /\ dropped = {} /\ ctxDone = TRUE /\ failed = FALSE

MCInit == \/ AnalysisInit /\ NoCommand
          \/ part = "command" /\ in = <<>> /\ out = <<>> /\ Init

MCNext == \/ ParsePart \/ AnalyseAttachment \/ ParseText \/ nameContainsAddress \/ BagOfWords
          \/ ParseReceivedHeader \/ analyze
          \/ Next /\ UNCHANGED analysis

MCSpec == MCInit /\ [][MCNext]_<<analysis, vars>> /\ Fairness

Done(p) == part = p /\ out # <<>>

-----------------------------------------------------------------------------
\* Every part of a mail that says something is kept once, in its place and as
\* what it is, at any depth, and a mail in a mail says what it said alone.
PartsAreKept == Done("mime") =>
  Mime!PartsAreKept(in, out[1]) /\ \A x \in Outers : Mime!ForwardingKeeps(in, x)

\* A program in an attachment is reported exactly when nothing broken and no
\* compression inside an archive hides it; what kills the process is known.
ExecutablesAreSeen == Done("attachment") =>
  /\ Att!ExecutablesAreSeen(in[1], out[1]) /\ Att!PanicsWithoutTool(in[1], in[2], out[1])
  /\ \A e \in Extras : Att!MoreIsSeen(in[1], e, in[2])

\* What Parse says of headers, links, signatures, senders, words and hops
\* is in the mail, and what it does not say is known.
FeaturesAreTrue ==
  /\ Done("features") => /\ Feat!HeadersAccounted(in, out[1]) /\ Feat!LinksAccounted(in, out[1].urls)
                         /\ Feat!SignaturesAccounted(in, out[1].dkim)
  /\ Done("address")  => Feat!SpoofingIsSeen(in.name, in.addr)
  /\ Done("words")    => Feat!WordsAreCounted(in, out[1])
  /\ Done("received") => Feat!ReceivedIsRead(in[1], in[2], out[1])

\* The mail and the envelope made of a form have its sender, recipients, copies,
\* texts and files, each in its field and nothing else, and what is left of them
\* when the mail is handed in again is known (analyze, analyzeMime of http.go).
FormIsKept == Done("form") =>
  /\ Form!FieldsAreKept(in)
  /\ Form!EnvelopeSurvives(in) /\ Form!BlindStaysBlind(in) /\ Form!FilesAreNamed(in)
  /\ \A t \in Lists : \A i \in DOMAIN t : Form!GivenEnvelopeWins(in, t[i], t)
-----------------------------------------------------------------------------
(* The bounded inputs. *)
CONSTANTS a, b, c

SeqsTo(S, n) == UNION {[1..k -> S] : k \in 0..n}

Leaf(id) == [ct : {"none", "bad", "plain", "html", "other"}, file : {"none", "ok", "bad"},
             read : {"ok", "BASE64", "empty", "corrupt"}, id : {id}, sub : {<<>>}]
Few(id)  == [ct : {"none", "plain", "html"}, file : {"none", "ok"}, read : {"ok"}, id : {id}, sub : {<<>>}]
            \cup [ct : {"plain"}, file : {"none"}, read : {"broken"}, id : {id}, sub : {<<>>}]
Holder(t, s) == [ct |-> t, file |-> "none", read |-> "ok", id |-> 0, sub |-> s]
Multis(n)    == {Holder("multipart", <<x, y>>) : x \in Few(n), y \in Few(n + 1)}
                \cup {Holder("unbounded", <<x>>) : x \in Few(n)}
                \cup {[Holder(t, <<x>>) EXCEPT !.read = "base64"] : t \in {"multipart", "message"}, x \in Few(n)}
Nodes(n)     == Leaf(n) \cup Multis(n + 1)
                \cup {Holder("message", <<x>>) : x \in Leaf(n + 3) \cup Multis(n + 4)}
                \cup {Holder("multipart", <<Holder("message", <<x>>)>>) : x \in Multis(n + 6)}
MCTrees    == Leaf(1) \cup Multis(1) \cup
              {Holder("multipart", <<x, y>>) : x \in Few(1) \cup {Holder("multipart", <<z>>) : z \in Few(1)},
                                               y \in Nodes(2)}
MCOuters   == Multis(20)

File(t, ok, s) == [type |-> t, ok |-> ok, sub |-> s]
MCExtras == {File(t, ok, <<>>) : t \in {"exe", "doc", "png", "pdf"}, ok \in BOOLEAN}
In(S)    == {File(t, ok, <<x>>) : t \in {"gz", "zip", "tar"}, ok \in BOOLEAN, x \in S}
Exe      == {File("exe", TRUE, <<>>)}
Shallow  == MCExtras \cup In(MCExtras)
MCAttached == Shallow \cup In(In(MCExtras)) \cup In(In(In(Exe))) \cup In(In(In(In(Exe))))
            \cup {File(t, TRUE, <<x, y>>) : t \in {"zip", "rar"}, x \in Shallow, y \in Shallow}

Values  == SeqsTo([v : {a, b}, dec : BOOLEAN, ok : BOOLEAN], 2)
Headers == {[f \in {h} |-> s] : h \in {"date", "from", "to", "subject", "received", "x"}, s \in Values}
MCTexts == {[headers |-> h, links |-> <<>>, texts |-> <<>>, dkim |-> <<>>] : h \in Headers}
           \cup {[headers |-> [f \in {} |-> <<>>], links |-> l, texts |-> t, dkim |-> d] :
                   l \in SeqsTo({a, b}, 2), t \in SeqsTo([v : {b, c}, ok : BOOLEAN], 2), d \in SeqsTo(BOOLEAN, 3)}
Address == {[v |-> a, domain |-> "d"], [v |-> b, domain |-> "d"], [v |-> c, domain |-> "e"],
            [v |-> "@", domain |-> ""]}
MCNames == [name : [addrs : SeqsTo(Address, 2), letters : 0..6, marks : 0..4], addr : Address]
MCHops  == [name : {a, b}, nameIsIP : BOOLEAN, ip : {a, c}, rdns : {b}, helo : {"", b}, public : SUBSET {a, b, c}]

MCLists == {<<>>, <<<<a>>>>, <<<<b>>>>, <<<<a, b>>>>, <<<<a>>, <<b>>>>, <<<<a, b>>, <<c>>>>}
MCForms == [multipart : BOOLEAN, from : {<<>>, <<a>>, <<a, b>>}, to : MCLists, cc : MCLists, bcc : {<<>>, <<<<c>>>>, <<<<a>>, <<c>>>>},
          text : {"t"}, html : {""}, files : SeqsTo([name : {"f", "g"}, data : {1, 2}], 2)]

MCStr       == {a, b, c, "", "@", "d", "e", "t", "f", "g"}
MCWords     == {a, b, c, "the"}
MCStem      == [w \in MCWords |-> IF w = b THEN a ELSE w]
MCSize      == [w \in MCWords |-> IF w = a THEN 5 ELSE 4]
MCLess      == [v \in MCWords |-> [w \in MCWords |-> v # w /\ (v = a \/ w = "the" \/ (v = b /\ w = c))]]
MCSentences == SeqsTo(MCWords, 4)
=============================================================================
