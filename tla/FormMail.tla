------------------------------- MODULE FormMail -------------------------------
(***************************************************************************)
(* How services/http.go makes a mail of a form.  /messages and /analyze     *)
(* build it of its fields; /messages.mime and /analyze.mime take one that   *)
(* is built, with or without an envelope.  A field of addresses is a        *)
(* sequence of values, each the sequence of the addresses it lists: what    *)
(* mail.ParseAddress accepts is a list of one.  "" is a field left out.     *)
(***************************************************************************)
EXTENDS Naturals, Sequences, SequencesExt

\* Values that do not parse are skipped without a word.
Sender(v)         == IF Len(v) = 1 THEN v ELSE <<>>
Addresses(values) == FlattenSeq([i \in DOMAIN values |-> Sender(values[i])])

Refused(status) == [status |-> status, mail |-> [from |-> <<>>], env |-> [from |-> <<>>, to |-> <<>>]]

\* Mutant: the list of the To header is not a new one when the copies are read.
MutBuilt(r) ==
  [from  |-> Sender(r.from),
   To    |-> IF Addresses(r.to) = <<>> THEN <<>> ELSE <<Addresses(r.to)>>,
   Cc    |-> Addresses(r.to) \o Addresses(r.cc), text |-> r.text, html |-> r.html,
   atts  |-> [i \in DOMAIN r.files |-> [name |-> r.files[i].name, data |-> r.files[Len(r.files)].data]]]

\* The blind copies are set on the message, and gomail does not write them.
\* The functions that copy the attachments run once all are attached, and share
\* the variable of the loop: each copies the last file.
Built(r) ==
  [from  |-> Sender(r.from),
   To    |-> IF Addresses(r.to) = <<>> THEN <<>> ELSE <<Addresses(r.to)>>,
   Cc    |-> Addresses(r.cc),
   text  |-> r.text, html |-> r.html,
   atts  |-> [i \in DOMAIN r.files |-> [name |-> r.files[i].name, data |-> r.files[Len(r.files)].data]]]

\* analyze: the form must be a multipart one, which is asked for at the end.
analyze(r) ==
  IF ~r.multipart THEN Refused(500)
  ELSE [status |-> 200, mail |-> Built(r),
        env |-> [from |-> Sender(r.from), to |-> Addresses(r.to)]]

\* analyzeMime: r.kind says whether r.mail is "empty" or "malformed".  A form that is not
\* multipart fails when the file is asked for, before the field is.
analyzeMime(r) ==
  LET m  == r.mail
      to == Addresses(r.to)
  IN IF ~r.multipart THEN Refused(500)
     ELSE CASE r.kind = "empty"     -> Refused(400)
            [] r.kind = "malformed" -> Refused(500)
            [] OTHER -> [status |-> 200, mail |-> m,
                         env |-> [from |-> IF Sender(r.from) # <<>> THEN Sender(r.from) ELSE Sender(m.from),
                                  to   |-> IF to # <<>> THEN to ELSE Addresses(m.To)]]

-----------------------------------------------------------------------------
\* s is, in their order, the addresses of those values that are one address.
AreThoseOf(s, values) ==
  \E at \in [DOMAIN s -> DOMAIN values] :
    /\ {at[i] : i \in DOMAIN s} = {k \in DOMAIN values : Len(values[k]) = 1}
    /\ \A i, j \in DOMAIN s : i < j => at[i] < at[j]
    /\ \A i \in DOMAIN s : s[i] = values[at[i]][1]

\* Each field of the form is where it belongs in the mail and the envelope, and
\* nothing else is there: the sender, the recipients in one header and in the
\* envelope, the copies, the texts.
FieldsAreKept(r) ==
  LET o == analyze(r)
  IN /\ o.status = 200 <=> r.multipart
     /\ r.multipart => /\ AreThoseOf(o.env.from, <<r.from>>) /\ o.mail.from = o.env.from
                       /\ AreThoseOf(o.env.to, r.to) /\ AreThoseOf(o.mail.Cc, r.cc)
                       /\ o.mail.To = IF o.env.to = <<>> THEN <<>> ELSE <<o.env.to>>
                       /\ o.mail.text = r.text /\ o.mail.html = r.html

Repost(o) == analyzeMime([multipart |-> TRUE, kind |-> "mail", mail |-> o.mail, from |-> <<>>, to |-> <<>>])

\* A mail that was built of a form and is handed in again as it is gets the
\* envelope it had, except that of several recipients none is left: they are
\* one header then, and a header must be one address.
EnvelopeSurvives(r) ==
  LET o == analyze(r)
      p == Repost(o)
  IN o.status = 200 =>
       /\ p.status = 200 /\ p.env.from = o.env.from
       /\ p.env.to = IF Len(o.env.to) <= 1 THEN o.env.to ELSE <<>>

\* An envelope that is given is used even for a mail with one of its own, and
\* one that does not parse is as good as none.
GivenEnvelopeWins(r, from, to) ==
  LET o == analyze(r)
      p == analyzeMime([multipart |-> TRUE, kind |-> "mail", mail |-> o.mail, from |-> from, to |-> to])
  IN o.status = 200 /\ Addresses(to) # <<>> /\ Sender(from) # <<>> => p.env = [from |-> from, to |-> Addresses(to)]

\* An address given only as a blind copy is in neither the mail nor the
\* envelope: it gets nothing, and nobody learns it.
BlindStaysBlind(r) ==
  LET o == analyze(r)
      open == UNION {ToSet(v) : v \in ToSet(r.to) \cup ToSet(r.cc)}
  IN o.status = 200 =>
       \A v \in ToSet(r.bcc) : \A a \in ToSet(v) \ open :
         a \notin ToSet(o.env.to) \cup ToSet(o.mail.Cc) \cup UNION {ToSet(t) : t \in ToSet(o.mail.To)}

\* Each attached file is there under its name; only the last has its content.
FilesAreNamed(r) ==
  LET o == analyze(r) IN o.status = 200 =>
    /\ Len(o.mail.atts) = Len(r.files)
    /\ \A i \in DOMAIN r.files : o.mail.atts[i].name = r.files[i].name
    /\ \A i \in DOMAIN r.files : o.mail.atts[i].data = r.files[i].data <=>
                                   r.files[i].data = Last(r.files).data
=============================================================================
