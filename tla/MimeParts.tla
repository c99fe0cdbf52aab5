------------------------------ MODULE MimeParts ------------------------------
(***************************************************************************)
(* What ParsePart (parser/mailparser.go) keeps of the parts of a mail.  A   *)
(* part is a record                                                         *)
(*   ct     its Content-Type: "none" (no header), "bad" (does not parse),   *)
(*          "plain", "html", "markdown", "other", "multipart", "unbounded"  *)
(*          (multipart without a boundary) or "message"                     *)
(*   file   its file name: "none", "ok", or "bad" when it does not decode   *)
(*   read   its body: "ok" as it stands, encoded as "base64" or, the name   *)
(*          of the encoding not in small letters, "BASE64", "empty",         *)
(*          "corrupt" (does not decode), "broken" (headers do not parse)     *)
(*   id     its content                                                     *)
(*   sub    its parts; those of a message are <<the message>>               *)
(***************************************************************************)
EXTENDS Naturals, Sequences, FiniteSets, SequencesExt

CONSTANTS Depth,     \* parts lie at most so deep in each other
          Contents   \* what a part can hold

Types == {"none", "bad", "plain", "html", "markdown", "other", "multipart", "unbounded"}

Bodies == {"ok", "base64", "BASE64", "empty", "corrupt", "broken"}

\* The parts with others at most n deep in them; a message holds one.
PartsTo[n \in 0..Depth] ==
  LET inner    == IF n = 0 THEN {} ELSE PartsTo[n - 1]
      Of(S, T) == [ct : S, file : {"none", "ok", "bad"}, read : Bodies, id : Contents, sub : T]
  IN Of(Types, Seq(inner)) \cup Of({"message"}, [1..1 -> inner])

Parts == PartsTo[Depth]

Kept(p, h, a) == [plain |-> p, htmls |-> h, atts |-> a]
NothingKept   == Kept(<<>>, <<>>, <<>>)

Readable(p) == p.read \in {"ok", "base64", "BASE64"}

\* Once a reader of an encoding has failed it fails again, so that no other
\* charset helps: the body is empty.  An unknown charset is read as UTF-8.
decodeBody(p) == IF Readable(p) THEN <<p.id>> ELSE <<>>

Text(p) ==
  CASE p.ct = "plain"                -> Kept(decodeBody(p), <<>>, <<>>)
    [] p.ct \in {"html", "markdown"} -> Kept(<<>>, <<decodeBody(p)>>, <<>>)
    [] OTHER                         -> NothingKept

\* A part with a file name.  Only an encoding called base64 is taken off; the
\* kind of nothing cannot be guessed, nor a corrupt encoding read to its end.
attachment(p) == [of |-> p.id, decoded |-> p.read # "BASE64"]

AnalysePart(p) ==
  IF p.file = "ok" /\ Readable(p) THEN Kept(<<>>, <<>>, <<attachment(p)>>) ELSE NothingKept

\* The encoding of what holds other parts is not looked at: they are found in a
\* body that is not encoded.
Holds(p)  == p.read \in {"ok", "corrupt"}
Unread(s) == s.read = "broken" \/ s.ct \in {"none", "bad"} \/ (s.ct = "message" /\ ~Holds(s))

\* Mutant: the file name is looked at first.
MutSubPart(parse, s) ==
  IF Unread(s) THEN NothingKept
  ELSE IF s.file # "none" THEN AnalysePart(s)
  ELSE CASE s.ct = "message"                    -> parse[s.sub[1]]
         [] s.ct \in {"multipart", "unbounded"} -> parse[s]
         [] OTHER                               -> Text(s)

\* The body of the loop over the parts of a multipart; parse is ParsePart again.
SubPart(parse, s) ==
  IF Unread(s) THEN NothingKept
  ELSE CASE s.ct = "message"                    -> parse[s.sub[1]]
         [] s.ct \in {"multipart", "unbounded"} -> parse[s]
         [] OTHER                               -> IF s.file # "none" THEN AnalysePart(s) ELSE Text(s)

\* What is kept of a sequence of parts, one after the other.
Join(ks) == Kept(FlattenSeq([i \in DOMAIN ks |-> ks[i].plain]), FlattenSeq([i \in DOMAIN ks |-> ks[i].htmls]),
                 FlattenSeq([i \in DOMAIN ks |-> ks[i].atts]))

\* A mail, a mail in a mail, or a multipart whose header is built again.
ParsePart[p \in Parts] ==
  LET subs == [i \in DOMAIN p.sub |-> SubPart(ParsePart, p.sub[i])]
  IN IF p.read = "broken" \/ p.ct \in {"bad", "unbounded"} THEN NothingKept
     ELSE CASE p.ct = "none"      -> Text([p EXCEPT !.ct = "plain"])
            [] p.ct = "multipart" -> IF Holds(p) THEN Join(subs) ELSE NothingKept
            [] OTHER              -> Text(p)

-----------------------------------------------------------------------------
(* The same by paths.  A part is reached when each part above it is opened:  *)
(* what is kept is a matter of the part alone and of what is right above it. *)
\* Sub[p]: the parts of p, itself included, by their paths.
Sub[p \in Parts] ==
  [q \in {<<>>} \cup UNION {{<<i>> \o r : r \in DOMAIN Sub[p.sub[i]]} : i \in DOMAIN p.sub} |->
     IF q = <<>> THEN p ELSE Sub[p.sub[q[1]]][Tail(q)]]

Above(p, q) == Sub[p][SubSeq(q, 1, Len(q) - 1)]
IsMail(p, q) == q = <<>> \/ Above(p, q).ct = "message"
Reached(p, q) == \A n \in 0..Len(q) - 1 :
  LET r == SubSeq(q, 1, n) IN
    /\ Holds(Sub[p][r])
    /\ Sub[p][r].ct = "multipart" \/ (Sub[p][r].ct = "message" /\ ~IsMail(p, r))

Shows(p, q, field) ==
  LET s == Sub[p][q]
      mail == IsMail(p, q)
      text == mail \/ s.file = "none"
  IN /\ Reached(p, q) /\ s.read # "broken"
     /\ CASE field = "plain" -> text /\ Readable(s) /\ (s.ct = "plain" \/ (mail /\ s.ct = "none"))
          [] field = "htmls" -> text /\ s.ct \in {"html", "markdown"}
          [] field = "atts"  -> /\ ~mail /\ s.file = "ok" /\ Readable(s)
                                /\ s.ct \in {"plain", "html", "markdown", "other"}

Before(q, r) == \E n \in 0..Len(q) :
  /\ n <= Len(r) /\ SubSeq(q, 1, n) = SubSeq(r, 1, n)
  /\ IF n = Len(q) THEN n < Len(r) ELSE n < Len(r) /\ q[n + 1] < r[n + 1]

Shown(p, field) == {q \in DOMAIN Sub[p] : Shows(p, q, field)}
Content(p, q, field) ==
  LET s == Sub[p][q] IN
  CASE field = "plain" -> s.id [] field = "htmls" -> decodeBody(s) [] field = "atts" -> attachment(s)

\* PartsAreKept (parser/mailparser.go:510): each part of a mail that has something to show is kept once, in the order
\* of the mail and as what it is, however deep it lies and whatever its
\* neighbours are; nothing else is.
PartsAreKept(p, k) == \A field \in {"plain", "htmls", "atts"} :
  LET shown == Shown(p, field) IN
    /\ Len(k[field]) = Cardinality(shown)
    /\ \A q \in shown : k[field][1 + Cardinality({r \in shown : Before(r, q)})] = Content(p, q, field)

\* ForwardingKeeps (parser/mailparser.go:537): an attachment of the mail itself is kept, and a forwarded mail is opened
\* whatever it is called: putting a mail in another keeps all that it shows.
ForwardingKeeps(p, outer) ==
  LET mail == [ct |-> "message", file |-> "ok", read |-> "ok", id |-> 0, sub |-> <<p>>]
  IN outer.ct = "multipart" /\ outer.read = "ok" =>
       ParsePart[[outer EXCEPT !.sub = Append(@, mail)]] = Join(<<ParsePart[outer], ParsePart[p]>>)
=============================================================================
