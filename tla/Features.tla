------------------------------- MODULE Features -------------------------------
(***************************************************************************)
(* What Parse (parser/mailparser.go) says of a mail, once its parts are     *)
(* known, with the extractors of words and of Received headers it calls.    *)
(* Addresses, URLs, words and dates are found by libraries: a mail is       *)
(*   headers  field -> sequence of values [v, dec, ok]: the text, whether   *)
(*            it decodes (RFC 2047), and whether it parses as what it is    *)
(*   links    the links of the HTML parts; a text URL is [v, ok]            *)
(*   texts    the URLs found in the text, in order                          *)
(*   dkim     what dkim.Verify answers: one Boolean per signature           *)
(***************************************************************************)
EXTENDS Naturals, Integers, Sequences, FiniteSets, SequencesExt, FiniteSetsExt

CONSTANTS Stem,      \* word -> its stem (snowball)
          Size,      \* word -> its length
          StopWords, \* the words of the language that say nothing
          Less       \* Less[v][w]: v < w as strings

Parsed == {"date", "from", "to", "subject", "received"}   \* given features of their own

(*-------------------------------- headers --------------------------------*)
\* A value that does not decode is left out, its field is not.
Decoded(m) == [f \in DOMAIN m.headers |->
                 FlattenSeq([i \in DOMAIN m.headers[f] |-> IF m.headers[f][i].dec THEN <<m.headers[f][i]>> ELSE <<>>])]

\* The features made of headers, from the first value of the field or from all.
FromHeaders(h) ==
  LET has(f)   == f \in DOMAIN h /\ h[f] # <<>>
      first(f) == IF has(f) THEN {h[f][1]} ELSE {}
      \* A From that does not parse is kept as it is; a To stays a header.
      gone     == {f \in Parsed : has(f) /\ (f = "to" => h[f][1].ok)}
  IN [date |-> {x \in first("date") : x.ok}, from |-> first("from"),
      to |-> {x \in first("to") : x.ok}, subject |-> first("subject"),
      received |-> IF has("received") THEN ToSet(h["received"]) ELSE {},
      headers |-> [f \in DOMAIN h \ gone |-> h[f]]]

(*---------------------------------- URLs ---------------------------------*)
\* The list is started again from features.URLs, still nil, at each text URL.
TextURLs(urls, texts) ==
  LET after[i \in 0..Len(texts)] == IF i = 0 THEN urls ELSE IF texts[i].ok THEN <<texts[i].v>> ELSE after[i - 1]
  IN after[Len(texts)]

URLs(m) == ToSet(TextURLs(m.links, m.texts))     \* distinct

(*---------------------------------- DKIM ---------------------------------*)
DKIM(m) ==
  IF \E i \in DOMAIN m.dkim : ~m.dkim[i] THEN [err |-> TRUE, of |-> {}]
  ELSE [err |-> FALSE, of |-> DOMAIN m.dkim]

(*------------------------------- addresses -------------------------------*)
\* A name holds addresses [v, domain], letters (that is, letters and
\* digits outside of them) and marks (any other sign outside of them).
nameContainsAddress(name, addr) ==
  LET no    == <<FALSE, FALSE, FALSE, FALSE>>
      valid == FlattenSeq([i \in DOMAIN name.addrs |->
                 IF name.addrs[i].domain # "" THEN <<name.addrs[i]>> ELSE <<>>])
  IN IF addr.domain = "" \/ name.addrs = <<>> \/ name.letters + name.marks > 5 - name.marks THEN no
     ELSE CASE Len(valid) = 0 -> no
            [] Len(valid) > 1 -> <<TRUE, TRUE, FALSE, FALSE>>
            [] OTHER          -> <<TRUE, FALSE, valid[1].v # addr.v, valid[1].domain # addr.domain>>

(*--------------------------------- words ---------------------------------*)
BagOfWords(words) ==
  [w \in ToSet(words) \ StopWords |-> Cardinality({i \in DOMAIN words : words[i] = w})]

\* The shortest, and the first of the shortest.
shortestWord(ws) == CHOOSE w \in ws : \A v \in ws \ {w} :
                      Size[w] < Size[v] \/ (Size[w] = Size[v] /\ Less[w][v])

Occurrences(bag, ws) == FoldSet(LAMBDA w, n : n + bag[w], 0, ws)

Stems(bag) == [w \in DOMAIN bag |-> shortestWord({v \in DOMAIN bag : Stem[v] = Stem[w]})]

\* Mutant: the words of a stem replace each other.
MutStemmedBag(words) ==
  LET bag == BagOfWords(words)
      s   == Stems(bag)
  IN [t \in {s[w] : w \in DOMAIN bag} |-> bag[CHOOSE w \in DOMAIN bag : s[w] = t]]

StemmedBag(words) ==
  LET bag == BagOfWords(words)
      s   == Stems(bag)
  IN [t \in {s[w] : w \in DOMAIN bag} |-> Occurrences(bag, {w \in DOMAIN bag : s[w] = t})]

(*---------------------------- Received headers ---------------------------*)
\* What the expression finds: the name after "from" and whether it is an
\* address, the name and the address in brackets, and the HELO name (or "").
ParseReceivedHeader(r, geoip) ==
  LET ip   == IF r.nameIsIP THEN r.name ELSE r.ip
      name == IF r.nameIsIP /\ r.helo # "" THEN r.helo ELSE r.name
  IN [name |-> name, rdns |-> r.rdns, ip |-> ip,
      \* The database is opened into one variable and read through another.
      panic |-> geoip /\ ip \in r.public]

Features(m) == [of |-> FromHeaders(Decoded(m)), urls |-> URLs(m), dkim |-> DKIM(m)]

-----------------------------------------------------------------------------
\* Every decoded value of a header is in a feature or still in the headers,
\* except a date that is no date, and the second and later values of a field
\* of which there should be one.
HeadersAccounted(m, o) ==
  LET h == Decoded(m) IN
    \A f \in DOMAIN h : \A i \in DOMAIN h[f] :
      LET kept == f \in DOMAIN o.of.headers /\ h[f][i] \in ToSet(o.of.headers[f])
          used == f \in Parsed /\ h[f][i] \in o.of[f]
      IN kept \/ used \/ (f \in Parsed \ {"received"} /\ (i > 1 \/ (f = "date" /\ ~h[f][i].ok)))

\* Links are lost only to an URL of the text, and then all but that one.
LinksAccounted(m, urls) ==
  LET good == {i \in DOMAIN m.texts : m.texts[i].ok} IN
    IF good = {} THEN urls = ToSet(m.links) ELSE urls = {m.texts[Max(good)].v}

\* One bad signature hides the good ones, and no signature is said good that
\* is not.
SignaturesAccounted(m, d) ==
  (d.err <=> \E i \in DOMAIN m.dkim : ~m.dkim[i]) /\ \A i \in d.of : m.dkim[i]

\* An address is spoofed when the only one in the name has another domain; a
\* name that is its own address never is, and up to two marks around it, with
\* nothing else, hide nothing.
SpoofingIsSeen(name, addr) ==
  LET r == nameContainsAddress(name, addr)
      bare == [name EXCEPT !.letters = 0, !.marks = 0]
      one  == [bare EXCEPT !.marks = 2]
  IN /\ r[4] => r[1] /\ r[3] /\ \E i \in DOMAIN name.addrs : name.addrs[i].domain \notin {"", addr.domain}
     /\ r[1] /\ ~r[2] /\ ~r[3] => \E i \in DOMAIN name.addrs : name.addrs[i].v = addr.v
     /\ r[1] => nameContainsAddress(bare, addr) = r
     /\ nameContainsAddress(one, addr) = nameContainsAddress(bare, addr)

\* Stemming neither loses nor invents an occurrence: the words that say
\* something are all counted, each under a word of the text that is the same
\* for all words of its stem and as short as any of them.
WordsAreCounted(words, b) ==
  LET said == {i \in DOMAIN words : words[i] \notin StopWords} IN
    /\ Occurrences(b, DOMAIN b) = Cardinality(said)
    /\ \A w \in DOMAIN b :
         /\ b[w] = Cardinality({i \in said : Stem[words[i]] = Stem[w]})
         /\ \A i \in said : Stem[words[i]] = Stem[w] => Size[w] <= Size[words[i]]

\* The process dies of a Received header only with GeoIP on, and then of every
\* public address; the address in the name is preferred to the bracketed one.
ReceivedIsRead(r, geoip, e) ==
  /\ e.panic <=> geoip /\ (IF r.nameIsIP THEN r.name ELSE r.ip) \in r.public
  /\ e.name = r.name \/ (e.name = r.helo /\ e.ip = r.name)
=============================================================================
