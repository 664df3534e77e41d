------------------------------ MODULE Replies -------------------------------
(***************************************************************************)
(* What servers answer, as the client reads it off a socket: FTP replies   *)
(* (ftp.c), HTTP headers (http.c) and the line LIST sends about a file     *)
(* (ftpparse.c).  A stream is [lines, end]: the lines that will come, and  *)
(* whether the server then closes the connection or stays silent until the *)
(* timeout.                                                                *)
(***************************************************************************)
EXTENDS Integers, SequencesExt

CONSTANT Debugging    \* debug_mode of the library: on unless the preferences say libdebug=0

Streams(lines) == {[lines |-> l, end |-> e] : l \in lines, e \in {"closed", "silent"}}

(* krecv at the end of the stream: 0, or -1 after the timeout. *)
AtEnd(end, closed, silent) == IF end = "closed" THEN closed ELSE silent

-----------------------------------------------------------------------------
(***************************************************************************)
(* FTP.  A line is [code, sep]: the number of its first three characters   *)
(* (0: they are none) and the character behind them.                       *)
(***************************************************************************)
FtpError(rest) == [err |-> "FTPERR", code |-> 0, rest |-> rest]
FtpReply(code, rest) == [err |-> "FTPOK", code |-> code, rest |-> rest]

(* MUTANT of LastLine: the character behind the code is not looked at. *)
LastLineByCode(line, code) == line.code = code

(* The line that ends a reply of several lines. *)
LastLine(line, code) == line.code = code /\ line.sep = " "

(* A closed connection reads as an empty line, which is refused. *)
ReadToLast(lines, code) ==
  LET last == SelectInSeq(lines, LAMBDA line : LastLine(line, code))
  IN IF last = 0 THEN FtpError(<<>>)
     ELSE FtpReply(code, SubSeq(lines, last + 1, Len(lines)))

(* ftp_get_reply. *)
FtpGetReply(lines) ==
  IF lines = <<>> THEN FtpError(<<>>)
  ELSE LET first == Head(lines)
       IN IF first.code = 0 THEN FtpError(Tail(lines))
          ELSE IF first.sep = "-" THEN ReadToLast(Tail(lines), first.code)
          ELSE FtpReply(first.code, Tail(lines))

-----------------------------------------------------------------------------
(***************************************************************************)
(* HTTP.  A line is [folds, name, words]: does it begin with a space or a  *)
(* tab, what it begins with, and the words behind that; blanks at its end  *)
(* are the word "".  The status line is a header like the others, in the   *)
(* first place.                                                            *)
(***************************************************************************)
Blank == [folds |-> FALSE, name |-> "", words |-> <<>>]

Folds(line) == line.folds

(* The words of a header and those of the lines that continue it. *)
Unfolded(words, lines) == FoldLeft(LAMBDA acc, line : acc \o line.words, words, lines)

(* fetch_next_header: a header goes on while the next line, of which one   *)
(* character is peeked at, folds; the empty one that ends the headers does *)
(* not look further.                                                       *)
NextHeader(header, lines, end) ==
  LET next   == SelectInSeq(lines, LAMBDA line : ~Folds(line))
      folded == IF next = 0 THEN lines ELSE SubSeq(lines, 1, next - 1)
      whole  == [header EXCEPT !.words = Unfolded(@, folded)]
  IN IF next = 0 THEN [err |-> AtEnd(end, "HEOF", "HERR"), header |-> whole, rest |-> <<>>]
     ELSE [err |-> "HOK", header |-> whole, rest |-> SubSeq(lines, next, Len(lines))]

FetchNextHeader(lines, end) ==
  IF lines = <<>> THEN [err |-> AtEnd(end, "HEOF", "HERR"), header |-> Blank, rest |-> lines]
  ELSE IF Head(lines) = Blank THEN [err |-> "HOK", header |-> Blank, rest |-> Tail(lines)]
  ELSE NextHeader(Head(lines), Tail(lines), end)

(* Words that are numbers. *)
Number(w) == CASE w = "0" -> 0 [] w = "7" -> 7 [] OTHER -> -1

(* hgetlen.  Its debug message prints the character behind the number as   *)
(* if it were a string: the end of the header is a null pointer, which is  *)
(* printed as such; at any other the process dies.                         *)
Dies == -2
Length(words) ==
  IF Debugging /\ Number(words[1]) # -1 /\ Len(words) > 1 THEN Dies ELSE Number(words[1])
GetLen(h) == IF h.name = "Content-Length:" /\ h.words # <<>> THEN Length(h.words) ELSE -1

(* hgetaccept_ranges, hgetlocation. *)
GetAcceptRanges(h) ==
  IF h.name # "Accept-Ranges:" THEN -1 ELSE IF Contains(h.words, "none") THEN 0 ELSE 1
GetLocation(h) == IF h.name = "Location:" THEN h.words ELSE <<"none">>

(* The error for a status; -1 is a status line that is none. *)
StatusErr(code, newloc) ==
  CASE code \in 200 .. 299 -> "HOK"
    [] code \in {301, 302} -> "NEWLOCATION"
    [] code = 300 -> IF newloc = <<"none">> THEN "HOK" ELSE "NEWLOCATION"
    [] code = 401 -> "HAUTHREQ"
    [] code = 404 -> "HTTPNSFOD"
    [] code = 500 -> "INTERNALSERVERR"
    [] code = 501 -> "UNKNOWNREQ"
    [] code = 502 -> "BADGATEWAY"
    [] code = 503 -> "SERVICEUNAVAIL"
    [] code = 504 -> "GATEWAYTIMEOUT"
    [] OTHER -> "HERR"

(* hparsestatline. *)
ParseStatLine(h) == IF h.name = "HTTP/1.0" THEN h.words[1] ELSE -1

(* http_fetch_headers: of each field the first that says something; what   *)
(* follows the empty header is the body.                                   *)
NoFields == [statcode |-> -1, contlen |-> -1, accept |-> -1, newloc |-> <<"none">>]

Noted(f, h, isFirst) ==
  [statcode |-> IF isFirst THEN ParseStatLine(h) ELSE f.statcode,
   contlen |-> IF f.contlen = -1 THEN GetLen(h) ELSE f.contlen,
   accept |-> IF f.accept = -1 THEN GetAcceptRanges(h) ELSE f.accept,
   newloc |-> IF f.newloc = <<"none">> THEN GetLocation(h) ELSE f.newloc]

(* Its loop, until err says how it ended.  A header is at least a line of  *)
(* the stream, hence one round for each and one to see the end.            *)
FetchHeaders(g, end) ==
  LET next == FetchNextHeader(g.rest, end)
      err  == IF next.err # "HOK" THEN next.err
              ELSE IF next.header = Blank THEN StatusErr(g.fields.statcode, g.fields.newloc)
              ELSE "none"
  IN IF g.err # "none" THEN g
     ELSE [err |-> err, rest |-> next.rest, isFirst |-> FALSE,
           fields |-> IF err = "none" THEN Noted(g.fields, next.header, g.isFirst) ELSE g.fields]

ReadHeaders(stream) ==
  FoldLeft(LAMBDA g, round : FetchHeaders(g, stream.end),
           [err |-> "none", rest |-> stream.lines, isFirst |-> TRUE, fields |-> NoFields],
           Append(stream.lines, Blank))

(* Of a process that died in its loop nothing more is known. *)
HttpFetchHeaders(stream) ==
  LET read == ReadHeaders(stream)
  IN IF read.fields.contlen = Dies THEN [err |-> "DIES"] ELSE read

-----------------------------------------------------------------------------
(***************************************************************************)
(* LIST.  A field is [text, digit, size]: does it begin with a digit, and  *)
(* the number it begins with.                                              *)
(***************************************************************************)
FileKinds == {"b", "c", "d", "l", "p", "s", "-"}

(* The fourth field is the group or, when no number follows, the size. *)
SizeField(line) == IF Len(line) > 4 /\ line[5].digit THEN 5 ELSE 4

(* ftp_parse: the size.  The date behind it is not used, but a line that   *)
(* ends too early to hold one and a name fails an assertion.               *)
FtpParse(line) ==
  IF line = <<>> THEN [err |-> "FTPPARSENOTEXIST"]
  ELSE IF line[1].text \notin FileKinds \/ Len(line) < 4 THEN [err |-> "FTPPARSEFAIL"]
  ELSE IF Len(line) - SizeField(line) < 4 THEN [err |-> "DIES"]
  ELSE [err |-> "FTPPARSEOK", size |-> line[SizeField(line)].size]

-----------------------------------------------------------------------------
(***************************************************************************)
(* What was sent, and how it is written.                                   *)
(***************************************************************************)

(* A reply [code, text], where no line of the text looks like the last. *)
ReplyLines(r) ==
  IF r.text = <<>> THEN <<[code |-> r.code, sep |-> " "]>>
  ELSE <<[code |-> r.code, sep |-> "-"]>> \o r.text \o <<[code |-> r.code, sep |-> " "]>>

(* A header [name, parts], folded before each part but the first. *)
HeaderLines(h) ==
  [i \in DOMAIN h.parts |->
     [folds |-> i > 1, name |-> IF i = 1 THEN h.name ELSE "", words |-> h.parts[i]]]

StatusLine(code) == [folds |-> FALSE, name |-> "HTTP/1.0", words |-> <<code>>]
HeadLines(r) == <<StatusLine(r.code)>> \o FlattenSeq([i \in DOMAIN r.headers |-> HeaderLines(r.headers[i])])
            \o <<Blank>>

(* Of what was sent the first n lines arrive. *)
FtpSent(sent) == FlattenSeq([i \in DOMAIN sent |-> ReplyLines(sent[i])])
HttpSent(sent) == HeadLines(sent) \o sent.body
FtpLines(sent, n) == SubSeq(FtpSent(sent), 1, n)
HttpLines(sent, n) == SubSeq(HttpSent(sent), 1, n)

(* The first of the replies was read, to its end and no further, or none. *)
ReadsReply(sent, n, got) ==
  LET l == Len(ReplyLines(sent[1]))
  IN got = IF n < l THEN FtpError(<<>>)
           ELSE FtpReply(sent[1].code, FtpLines(Tail(sent), n - l))

(* The headers were read, to their end and no further, or not at all; the  *)
(* process may die only when it debugs and the first length is followed by *)
(* anything, and does when the headers are whole.                          *)
ValueOf(h) == FlattenSeq(h.parts)
Said(sent, name) == {i \in DOMAIN sent.headers : sent.headers[i].name = name}

ReadsHeaders(sent, n, got) ==
  LET l        == Len(HeadLines(sent))
      value(i) == ValueOf(sent.headers[i])
      lengths  == {i \in Said(sent, "Content-Length:") : value(i) # <<>> /\ Number(Head(value(i))) # -1}
      ranges   == Said(sent, "Accept-Ranges:")
      location == Said(sent, "Location:")
      deadly   == Debugging /\ lengths # {} /\ Len(value(Min(lengths))) > 1
  IN IF n < l THEN got.err \in {"HEOF", "HERR"} \/ (deadly /\ got.err = "DIES")
     ELSE IF deadly THEN got.err = "DIES"
     ELSE /\ got.err = StatusErr(sent.code, got.fields.newloc)
          /\ got.rest = SubSeq(sent.body, 1, n - l)
          /\ got.fields.contlen = IF lengths = {} THEN -1 ELSE Number(Head(value(Min(lengths))))
          /\ got.fields.accept = IF ranges = {} THEN -1
                                 ELSE IF Contains(value(Min(ranges)), "none") THEN 0 ELSE 1
          /\ got.fields.newloc = IF location = {} THEN <<"none">> ELSE value(Min(location))

(* A file's line in the forms the comments list: with or without a group,  *)
(* and the fields of a NetWare server.                                     *)
Word(t) == [text |-> t, digit |-> FALSE, size |-> 0]
Figure(n) == [text |-> "n", digit |-> TRUE, size |-> n]
ListLine(form, size) ==
  CASE form = "group" -> <<Word("-"), Figure(1), Word("root"), Word("other"), Figure(size)>>
    [] form = "numbers" -> <<Word("-"), Figure(1), Figure(0), Figure(0), Figure(size)>>
    [] form = "plain" -> <<Word("-"), Figure(1), Word("root"), Figure(size)>>
    [] form = "netware" -> <<Word("-"), Word("[R----F--]"), Word("rhesus"), Figure(size)>>
Listed(form, size) == ListLine(form, size) \o <<Word("Jan"), Figure(29), Figure(1996), Word("f")>>
=============================================================================
