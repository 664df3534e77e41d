------------------------------- MODULE Inputs -------------------------------
(***************************************************************************)
(* What the program reads: URLs and locations, replies, headers and        *)
(* listings, ~/.netrc, the preferences file and the command line, the      *)
(* pages of a mirror search; and the arithmetic of the bandwidth cap.      *)
(* Each is an algorithm without state of its own: a behaviour is one call, *)
(* job is what it is given and got what it returns.                        *)
(***************************************************************************)
EXTENDS Integers, Sequences

CONSTANTS Paths, Addresses, Locations,             \* Urls
          Answers, Responses, Forms, Sizes,        \* Replies
          Debugging,                               \* Replies: the library's debug_mode
          NetrcFiles, Logins,                      \* Accounts
          PrefsFiles, CommandLines,                \* Settings
          Mirrors, Owns, Sections,                 \* MirrorSearch
          Caps, Loads, Sleeps                      \* Throttle

U == INSTANCE Urls
R == INSTANCE Replies
A == INSTANCE Accounts
S == INSTANCE Settings
M == INSTANCE MirrorSearch
T == INSTANCE Throttle

(* The values of settings that are numbers have been read with atoi; there *)
(* are no other options than main knows.  A connection's rate and limit    *)
(* are not negative, and times are read off one clock.                     *)
ASSUME InputsAssumption ==
  /\ \A file \in PrefsFiles :
       /\ file.missing \in BOOLEAN /\ (file.missing => file.lines = <<>>)
       /\ DOMAIN file.lines = 1 .. Len(file.lines) /\ Len(file.lines) \in Nat
       /\ \A i \in DOMAIN file.lines : file.lines[i].key \in S!Numbers => file.lines[i].value \in Int
  /\ \A options \in CommandLines :
       /\ DOMAIN options = 1 .. Len(options) /\ Len(options) \in Nat
       /\ \A i \in DOMAIN options :
            /\ options[i].name \in DOMAIN S!NumberOf \cup DOMAIN S!FlagOf \cup {"debug", "P"}
            /\ options[i].name \in DOMAIN S!NumberOf => options[i].arg \in Int
  /\ Caps \subseteq Nat
  /\ Loads \subseteq Seq([busy : BOOLEAN, rate : Nat, limit : Nat])
  /\ \A s \in Sleeps :
       /\ s.limit \in Nat /\ s.bytes \in Nat /\ s.timeout \in Nat
       /\ s.began \in Int /\ s.now \in Int /\ (s.began = T!None \/ s.began <= s.now)

IsSeq(s) == Len(s) \in Nat /\ s = [i \in 1 .. Len(s) |-> s[i]]

(* The codes of replies are positive, and no line of a reply but its last  *)
(* looks like the last.  A header has a name, a line that continues it a   *)
(* word, and the value of a location is not the mark for none.             *)
ASSUME AnswersAssumption ==
  /\ \A sent \in Answers :
       /\ IsSeq(sent) /\ sent # <<>>
       /\ \A i \in DOMAIN sent :
            /\ sent[i].code \in Nat \ {0} /\ IsSeq(sent[i].text)
            /\ \A j \in DOMAIN sent[i].text :
                 sent[i].text[j].code = sent[i].code => sent[i].text[j].sep # " "
  /\ \A sent \in Responses :
       /\ sent.code \in Nat /\ IsSeq(sent.headers) /\ IsSeq(sent.body)
       /\ \A i \in DOMAIN sent.headers :
            LET h == sent.headers[i]
            IN /\ h.name \notin {"", "HTTP/1.0"}
               /\ IsSeq(h.parts) /\ h.parts # <<>>
               /\ \A j \in DOMAIN h.parts : IsSeq(h.parts[j]) /\ (j > 1 => h.parts[j] # <<>>)
               /\ h.name = "Location:" => R!ValueOf(h) # <<"none">>
  /\ Forms \subseteq {"group", "numbers", "plain", "netware"}

(* No token of an account is the mark of a comment.                        *)
ASSUME AccountsAssumption ==
  \A entries \in NetrcFiles :
    /\ IsSeq(entries)
    /\ \A i \in DOMAIN entries :
         /\ entries[i].layout \in A!Layouts /\ entries[i].swap \in BOOLEAN
         /\ A!Comment \notin {entries[i].host, entries[i].account, entries[i].password}

(* Directories are written without a slash behind them.                    *)
ASSUME MirrorsAssumption ==
  /\ \A mirrors \in Mirrors :
       /\ IsSeq(mirrors)
       /\ \A i \in DOMAIN mirrors :
            /\ mirrors[i] = [server |-> mirrors[i].server, path |-> mirrors[i].path, file |-> mirrors[i].file]
            /\ IsSeq(mirrors[i].path)
            /\ mirrors[i].path # <<>> => mirrors[i].path[Len(mirrors[i].path)] # "/"
  /\ Sections \subseteq Nat \cup {-1}

VARIABLES job, got
inputVars == <<job, got>>

Idle == [of |-> "nothing"]
Init == job = Idle /\ got = "nothing"

Call(given, result) == job' = given /\ got' = result

-----------------------------------------------------------------------------
Simplify == \E p \in Paths : Call([of |-> "path", path |-> p], U!PathSimplify(p))

Parse == \E a \in Addresses : Call([of |-> "url", url |-> a], U!ParseUrl(a))

(* The redirection of a URL that was parsed before. *)
Merge ==
  \E a \in Addresses, link \in Locations :
    LET u == U!ParseUrl(a)
    IN /\ U!IsUrl(u)
       /\ Call([of |-> "location", url |-> u, link |-> link],
               U!ParseUrl(U!UriMerge(U!StrUrl(u), link)))

(* Of two replies the first n lines have come when the stream ends. *)
GetReply ==
  \E sent \in Answers : \E n \in 0 .. Len(R!FtpSent(sent)) :
    Call([of |-> "reply", sent |-> sent, n |-> n], R!FtpGetReply(R!FtpLines(sent, n)))

GetHeaders ==
  \E sent \in Responses : \E n \in 0 .. Len(R!HttpSent(sent)) :
    \E stream \in R!Streams({R!HttpLines(sent, n)}) :
      Call([of |-> "headers", sent |-> sent, n |-> n, end |-> stream.end], R!HttpFetchHeaders(stream))

GetListing ==
  \E form \in Forms, size \in Sizes :
    Call([of |-> "listing", form |-> form, size |-> size], R!FtpParse(R!Listed(form, size)))

FindAccount ==
  \E entries \in NetrcFiles, proto \in {"ftp", "http"}, login \in Logins :
    Call([of |-> "account", entries |-> entries, proto |-> proto, login |-> login],
         A!Account(proto, login.user, login.passwd, A!ParseNetrc(A!NetrcLines(entries)), "h"))

StartUp ==
  \E file \in PrefsFiles, options \in CommandLines :
    Call([of |-> "settings", file |-> file, options |-> options], S!Main(file, options))

(* A page whose first n tokens arrive before the stream ends. *)
SearchMirrors ==
  \E service \in {"LYCOS", "FILESEARCH_RU"}, mirrors \in Mirrors, before \in Sections, own \in Owns,
     status \in {200, 404, 503} :
    LET page == M!Page(mirrors, before) IN
    \E n \in 0 .. Len(page) : \E stream \in R!Streams({SubSeq(page, 1, n)}) :
      Call([of |-> "mirrors", mirrors |-> mirrors, own |-> own, isPage |-> status = 200,
            whole |-> n = Len(page) /\ stream.end = "closed"],
           M!GetMirrorList(service, status, stream, own))

(* The connections change while their shares are computed, or do not. *)
ShareCap ==
  \E cap \in Caps, counted \in Loads : \E seen \in Loads, now \in {counted} \cup Loads :
    /\ Len(seen) = Len(counted) /\ Len(now) = Len(counted)
    /\ Call([of |-> "cap", cap |-> cap, counted |-> counted, seen |-> seen, now |-> now],
            T!CalcThrottleFactor(cap, counted, seen, now))

Sleep ==
  \E s \in Sleeps :
    Call([of |-> "sleep", call |-> s], T!Received(s.limit, s.began, s.now, s.bytes, s.timeout))

Next ==
  /\ job = Idle
  /\ \/ Simplify \/ Parse \/ Merge
     \/ GetReply \/ GetHeaders \/ GetListing
     \/ FindAccount \/ StartUp \/ SearchMirrors
     \/ ShareCap \/ Sleep

Spec == Init /\ [][Next]_inputVars

-----------------------------------------------------------------------------
(***************************************************************************)
(* Properties.                                                             *)
(***************************************************************************)

(* path_simplify leads where the path leads, without "." and ".."; the     *)
(* clean form of a URL, with which every redirection begins, parses to a   *)
(* URL with the same clean form; and a relative or absolute location leads *)
(* from there to where a browser would go, with the same account, host and *)
(* port (url.c).                                                           *)
UrlsResolve ==
  /\ job.of = "path" => U!PathIsSimple(job.path, got)
  /\ job.of = "url" /\ U!IsUrl(got) =>
       LET again == U!ParseUrl(U!StrUrl(got))
       IN U!IsUrl(again) /\ U!StrUrl(again) = U!StrUrl(got)
  /\ job.of = "location" /\ job.url.proto = "http:" /\ ~U!HasProto(job.link) =>
       U!LeadsTo(job.url, job.link, got)

(* A reply of several lines is read to its own last line, headers with     *)
(* their continuation lines to the empty one, neither further, so that     *)
(* what follows is the next reply or the body; a cut one is an error; the  *)
(* process dies of no header but a length with anything behind it, of      *)
(* which it does die while it debugs; and the size of a file is found in   *)
(* each form of listing (ftp.c, http.c, ftpparse.c).                       *)
AnswersReadWhole ==
  /\ job.of = "reply" => R!ReadsReply(job.sent, job.n, got)
  /\ job.of = "headers" => R!ReadsHeaders(job.sent, job.n, got)
  /\ job.of = "listing" => got = [err |-> "FTPPARSEOK", size |-> job.size]

(* A session logs in with the account of the first entry that is for its   *)
(* host, however the file breaks it into lines, and never with the         *)
(* password of another (netrc.c, ftp.c, http.c).                           *)
AccountIsFound ==
  job.of = "account" =>
    A!IsAccountOf(job.entries, "h", job.proto, job.login.user, job.login.passwd, got)

(* The last word wins, options as their documentation has them before the  *)
(* file before the documented defaults, wherever it is read, in this run   *)
(* and in the next; the three options and three defaults of which the      *)
(* documentation is wrong change nothing (prefs.cpp, main.cpp, init.cpp).  *)
SettingsObeyed == job.of = "settings" => S!Obeys(job.file, job.options, got)

(* The list of a whole page has its hits and the user's own server; that   *)
(* of a page that was cut short names no other server, and an answer that  *)
(* is no page gives none (ftpsearch.c).                                    *)
MirrorsAreListed ==
  job.of = "mirrors" =>
    /\ job.whole /\ job.isPage => M!ListsHits(job.mirrors, job.own, got)
    /\ \A i \in DOMAIN got.list :
         job.isPage /\ \/ got.list[i] = job.own.mirror
                       \/ \E j \in DOMAIN job.mirrors : got.list[i] = job.mirrors[j]

(* The connections together stay within the cap, none is held below its    *)
(* fair share for the sake of another, and each keeps to its limit as long *)
(* as its timeout lets it (download.c, connection.c).                      *)
CapIsShared ==
  /\ job.of = "cap" => T!SharesCap(job.cap, job.counted, job.seen, job.now, got)
  /\ job.of = "sleep" =>
       T!KeepsTo(job.call.limit, job.call.began, job.call.now, job.call.bytes, job.call.timeout, got)
=============================================================================
