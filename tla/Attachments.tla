----------------------------- MODULE Attachments -----------------------------
(***************************************************************************)
(* What is said of an attachment (parser/attachments.go, archives.go).  A   *)
(* file is [type, ok, sub]: the type utils.Guess gives it, whether it can   *)
(* be read as that type, and the files in it - one for a compressed file,   *)
(* any number for an archive.  A file that is not ok in a tar or rar file   *)
(* is where the archive breaks off.                                         *)
(***************************************************************************)
EXTENDS Naturals, Sequences, SequencesExt

CONSTANT Depth       \* files lie at most so deep in each other

Compressed == {"gz", "bz2", "xz"}
Packed     == {"zip", "tar", "rar"}
Documents  == {"pdf", "docx", "odt", "doc", "html", "markdown"}
Images     == {"png", "jpeg"}
Types      == Packed \cup Documents \cup Images \cup {"exe", "ical", "other"}

\* The files with others at most n deep in them; a compressed file holds one.
FilesTo[n \in 0..Depth] ==
  LET inner == IF n = 0 THEN {} ELSE FilesTo[n - 1]
  IN [type : Types, ok : BOOLEAN, sub : Seq(inner)] \cup [type : Compressed, ok : BOOLEAN, sub : [1..1 -> inner]]

Files == FilesTo[Depth]

Failed == [err |-> TRUE]     \* what failed, or is not there

\* replaceCompressed: one layer, whose content replaces the file.
replaceCompressed(f) == IF f.type \in Compressed /\ f.ok THEN f.sub[1] ELSE f

\* Mutant: what an inner archive reports is forgotten.
MutEntry(analyze, f) ==
  LET g == replaceCompressed(f)
  IN [type |-> g.type, sub |-> IF g.type \in Packed THEN analyze[g] ELSE Failed, exe |-> f.type = "exe"]

\* An archive in the archive is given to analyze, AnalyzeArchive again.  Whether
\* it is executable is asked before it is decompressed, and not after.
analyzeEntry(analyze, f) ==
  LET g   == replaceCompressed(f)
      sub == IF g.type \in Packed THEN analyze[g] ELSE Failed
  IN [type |-> g.type, sub |-> sub, exe |-> f.type = "exe" \/ (sub # Failed /\ sub.exe)]

Readable(files) == FlattenSeq([i \in DOMAIN files |-> IF files[i].ok THEN <<files[i]>> ELSE <<>>])

\* AnalyzeZip skips the files it cannot open; AnalyzeTar and AnalyzeRar return
\* an error, and every caller drops what they have found before.
AnalyzeArchive[a \in Files] ==
  LET files   == Readable(a.sub)
      entries == [i \in DOMAIN files |-> analyzeEntry(AnalyzeArchive, files[i])]
  IN IF ~a.ok \/ (a.type # "zip" /\ Len(files) < Len(a.sub)) THEN Failed
     ELSE [err |-> FALSE, type |-> a.type, files |-> entries,
           exe |-> \E i \in DOMAIN entries : entries[i].exe]

\* The metadata of the types that have some.  Those of an image are asked for
\* only when there is a tool; those of a .doc file and of a program always.
Metadata(f, tool) ==
  IF f.ok /\ (f.type \in Documents \cup {"ical"} \/ (f.type \in Images /\ tool)) THEN f.type ELSE "none"

AnalyseAttachment(f, tool) ==
  LET analyse[g \in Files] ==
        LET inner == IF g.type \in Compressed /\ g.ok THEN analyse[g.sub[1]] ELSE Failed
            arch  == IF g.type \in Packed THEN AnalyzeArchive[g] ELSE Failed
            panic == (g.type = "exe" \/ (g.type = "doc" /\ g.ok)) /\ ~tool
        IN [err |-> FALSE, type |-> g.type, meta |-> Metadata(g, tool), archive |-> arch,
            sub |-> inner, exe |-> g.type = "exe" \/ (inner # Failed /\ inner.exe),
            panic |-> panic \/ (inner # Failed /\ inner.panic)]
  IN analyse[f]

-----------------------------------------------------------------------------
\* An executable is reported somewhere in a, or in what a was decompressed to.
Flagged(a) ==
  LET layer[n \in 0..Depth] == IF n = 0 THEN a ELSE IF layer[n - 1] = Failed THEN Failed ELSE layer[n - 1].sub
  IN \E n \in 0..Depth : /\ layer[n] # Failed
                         /\ layer[n].exe \/ (layer[n].archive # Failed /\ layer[n].archive.exe)

\* A chain of files, each in the one before it.
Chains[f \in Files] == {<<f>>} \cup UNION {{<<f>> \o c : c \in Chains[f.sub[i]]} : i \in DOMAIN f.sub}

\* A file cannot be seen past one that is broken, and a broken file of a tar or
\* rar file hides all the others.
Opens(f) == f.ok /\ (f.type \in {"tar", "rar"} => \A i \in DOMAIN f.sub : f.sub[i].ok)

\* Compressed files as often as wanted, then archives, each at most compressed
\* once; what an archive holds directly must be the program itself.
Visible(c) ==
  LET n == Len(c) IN
    /\ c[n].type = "exe" /\ c[n].ok /\ \A i \in 1..n - 1 : Opens(c[i])
    /\ \E k \in 0..n - 1 :
         /\ \A i \in 1..k : c[i].type \in Compressed
         /\ \A i \in k + 1..n - 1 :
              \/ c[i].type \in Packed
              \/ i > k + 1 /\ c[i].type \in Compressed /\ c[i - 1].type \in Packed
                   /\ i + 1 < n /\ c[i + 1].type \in Packed

Handled(c, types) ==   \* the attachment, or what it is the compressed form of
  LET n == Len(c) IN
    c[n].type \in types /\ \A i \in 1..n - 1 : c[i].type \in Compressed /\ c[i].ok

\* A program is reported exactly when it lies under compressed files and
\* archives that can be read, and is not compressed inside an archive.
ExecutablesAreSeen(f, a) ==
  Flagged(a) <=> \E c \in Chains[f] : Visible(c) \/ (Handled(c, {"exe"}))

\* The parser's process dies of an attachment only when exiftool is missing,
\* and then of programs and of .doc files, not of images or of archives.
PanicsWithoutTool(f, tool, a) ==
  a.panic <=> ~tool /\ \E c \in Chains[f] :
                 Handled(c, {"exe"}) \/ (Handled(c, {"doc"}) /\ c[Len(c)].ok)

\* An archive or a compressed file says no less when one more file is added to
\* it that can be read.
MoreIsSeen(f, extra, tool) ==
  f.type \in Packed /\ extra.ok /\ Flagged(AnalyseAttachment(f, tool)) =>
    Flagged(AnalyseAttachment([f EXCEPT !.sub = Append(@, extra)], tool))
=============================================================================
