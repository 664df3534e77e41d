-------------------------------- MODULE Urls --------------------------------
(***************************************************************************)
(* URLs (url.c): parsing, the clean form, and the merge of a redirection's *)
(* location with the URL it came from.  A URL is a sequence of tokens: the *)
(* scheme with its colon, the characters the parser looks for, and names,  *)
(* "." and ".." among them; no two names are adjacent, so that positions   *)
(* in the string and in the sequence correspond.                           *)
(***************************************************************************)
EXTENDS Integers, SequencesExt

(* protostrings, of which sup_protos are the supported ones. *)
Schemes == {"http:", "ftp:", "mailto:"}
DefaultPort(proto) == IF proto = "http:" THEN "80" ELSE "21"

(* Tokens that are numbers, and the two-character names that begin with a  *)
(* dot, which parse_dir takes for "..": its macro tests the first          *)
(* character twice.                                                        *)
Numbers == {"0", "80", "21"}
DotNames == {"..", ".z"}

(* Two unsafe characters and their %xx forms. *)
Decoded(t) == CASE t = "%20" -> " " [] t = "%40" -> "@" [] OTHER -> t
Encoded(t) == CASE t = " " -> "%20" [] t = "@" -> "%40" [] OTHER -> t
DecodeAll(s) == [i \in DOMAIN s |-> Decoded(s[i])]
EncodeAll(s) == [i \in DOMAIN s |-> Encoded(s[i])]

From(s, i) == SubSeq(s, i, Len(s))
UpTo(s, i) == SubSeq(s, 1, i)
FirstOf(s, i, T) == Min({j \in i .. Len(s) : s[j] \in T} \cup {Len(s) + 1})
LastOf(s, i, T) == Max({j \in 1 .. i : s[j] \in T} \cup {0})
FirstNotSlash(s, i) == Min({j \in i .. Len(s) : s[j] # "/"} \cup {Len(s) + 1})

-----------------------------------------------------------------------------
(***************************************************************************)
(* path_simplify.                                                          *)
(***************************************************************************)

(* "./" and "../" in front go, a "../" leaves a "/". *)
Leading(p) ==
  LET dots == Max({k \in 0 .. Len(p) \div 2 :
                     \A j \in 1 .. k : p[2 * j - 1] \in {".", ".."} /\ p[2 * j] = "/"})
      rest == From(p, 2 * dots + 1)
  IN IF \E j \in 1 .. dots : p[2 * j - 1] = ".." THEN <<"/">> \o rest ELSE rest

(* ".." after the slash at start: it goes with the name before it. *)
StepBack(p, start, next) == UpTo(p, LastOf(p, start - 1, {"/"})) \o From(p, next + 1)

(* The loop over the slashes, from i on. *)
Walk(path) ==
  LET walk[p \in Seq(STRING), i \in Nat] ==
        LET start == FirstOf(p, i, {"/"})
            next  == start + 1
            q     == UpTo(p, start) \o From(p, FirstNotSlash(p, next))
            ends  == next > Len(q)
        IN CASE start > Len(p) -> p
             [] start <= Len(p) /\ ends -> IF start > 1 THEN UpTo(q, start - 1) ELSE q
             [] ~ends /\ q[next] = "." /\ next = Len(q) -> UpTo(q, start - 1)
             [] ~ends /\ q[next] = "." /\ next < Len(q) -> walk[RemoveAt(q, next), start]
             [] ~ends /\ q[next] = ".." ->
                  walk[StepBack(q, start, next), Max({1, LastOf(q, start - 1, {"/"})})]
             [] OTHER -> walk[q, next]
  IN walk[path, 1]

PathSimplify(path) ==
  LET p == Leading(path)
  IN IF path = <<>> THEN path
     ELSE IF p \in {<<".">>, <<"..">>} THEN <<"/">>
     ELSE LET w == Walk(p) IN IF w = <<>> THEN <<"/">> ELSE w

-----------------------------------------------------------------------------
(***************************************************************************)
(* proz_parse_url and str_url.                                             *)
(***************************************************************************)
HasProto(s) == s # <<>> /\ s[1] \in Schemes
Supported(s) == Len(s) >= 3 /\ s[1] \in {"http:", "ftp:"} /\ s[2] = "/" /\ s[3] = "/"
PathLength(s) == FirstOf(s, 1, {"?"}) - 1

(* parse_dir: the query stays with the file; "." and ".." are directories. *)
ParseDir(path) ==
  LET l     == PathLength(path)
      slash == LastOf(path, l, {"/"})
      last  == SubSeq(path, slash + 1, l)
  IN IF last = <<".">> \/ \E d \in DotNames : last = <<d>>
     THEN [dir |-> UpTo(path, l), file |-> From(path, l + 1)]
     ELSE [dir |-> IF slash = 1 THEN <<"/">> ELSE UpTo(path, slash - 1),
           file |-> From(path, slash + 1)]

(* parse_uname: user and password stand before the last "@" of the host    *)
(* part, the first colon separates them; a colon behind the "@" (a user    *)
(* without password and a port) makes it ask for a negative length, and    *)
(* the program ends.                                                       *)
Host(s) == FirstOf(s, 4, {"/"}) - 1
LengthNegative(s) ==
  LET at == LastOf(s, Host(s), {"@"})
      colon == FirstOf(s, 4, {":"})
  IN Supported(s) /\ at > 0 /\ at < colon /\ colon <= Host(s)

ParseUname(s) ==
  LET at    == LastOf(s, Host(s), {"@"})
      colon == FirstOf(s, 4, {":"})
  IN IF at = 0 THEN [user |-> <<>>, passwd |-> <<>>]
     ELSE IF colon < at THEN [user |-> SubSeq(s, 4, colon - 1), passwd |-> SubSeq(s, colon + 1, at - 1)]
     ELSE [user |-> SubSeq(s, 4, at - 1), passwd |-> <<>>]

(* skip_uname: where the host begins. *)
HostStart(s) ==
  IF Supported(s) THEN Max({4, LastOf(s, Host(s), {"@"}) + 1}) ELSE 1

(* A location [proto, user, passwd, host, port, dir, file], or the error.  *)
Failed(e) == [err |-> e]
IsUrl(u) == u.err = "URLOK"

(* The simplified directory; HTTP's has no leading slash. *)
CleanDir(proto, dir) ==
  LET d == PathSimplify(dir)
  IN IF proto = "http:" /\ d # <<>> /\ d[1] = "/" THEN Tail(d) ELSE d

(* The path begins at i; HTTP's without slashes, FTP's ends before its type. *)
Type == ";type=a"
PathFrom(s, proto, i) ==
  IF proto = "http:" THEN From(s, FirstNotSlash(s, i))
  ELSE IF i <= Len(s) /\ Last(s) = Type THEN SubSeq(s, i, Len(s) - 1)
  ELSE From(s, i)

Located(s, proto, port, i) ==
  LET pd   == ParseDir(PathFrom(s, proto, i))
      un   == IF Supported(s) THEN ParseUname(s) ELSE [user |-> <<>>, passwd |-> <<>>]
      h    == HostStart(s)
  IN IF LengthNegative(s) THEN Failed("DIES") ELSE
     [err |-> "URLOK", proto |-> proto, port |-> port,
      user |-> DecodeAll(un.user), passwd |-> DecodeAll(un.passwd),
      host |-> DecodeAll(SubSeq(s, h, FirstOf(s, h, {":", "/"}) - 1)),
      dir |-> CleanDir(proto, pd.dir), file |-> pd.file]

(* Without a scheme "host:dir" is FTP, "host:port" and "host" are HTTP. *)
ParseUrl(s) ==
  LET h     == HostStart(s)
      i     == FirstOf(s, h, {":", "/"})
      colon == i <= Len(s) /\ s[i] = ":"
      digit == colon /\ i < Len(s) /\ s[i + 1] \in Numbers
      known == IF Supported(s) THEN s[1] ELSE "none"
      proto == IF known # "none" THEN known ELSE IF colon /\ ~digit THEN "ftp:" ELSE "http:"
      after == FirstOf(s, i, {"/"})
  IN IF HasProto(s) /\ ~Supported(s) THEN Failed("URLUNKNOWN")
     ELSE IF i = h THEN Failed("URLBADHOST")
     ELSE IF colon /\ digit
     THEN IF after = i + 2 /\ s[i + 1] # "0" THEN Located(s, proto, s[i + 1], after + 1)
          ELSE Failed("URLBADPORT")
     ELSE IF colon
     THEN IF known = "none" THEN Located(s, proto, DefaultPort(proto), i + 1)
          ELSE Failed("URLBADPORT")
     ELSE Located(s, proto, DefaultPort(proto), i + 1)

(* str_url: an absolute FTP directory begins with %2F. *)
StrUrl(u) ==
  LET user == IF u.user = <<>> THEN <<>>
              ELSE EncodeAll(u.user) \o (IF u.passwd = <<>> THEN <<>> ELSE <<":">> \o EncodeAll(u.passwd))
                   \o <<"@">>
      port == IF u.port = DefaultPort(u.proto) THEN <<>> ELSE <<":", u.port>>
      dir  == EncodeAll(IF u.proto = "ftp:" /\ u.dir # <<>> /\ u.dir[1] = "/"
                        THEN <<"%2F">> \o Tail(u.dir) ELSE u.dir)
  IN <<u.proto, "/", "/">> \o user \o EncodeAll(u.host) \o port \o <<"/">> \o dir
     \o (IF u.dir = <<>> THEN <<>> ELSE <<"/">>) \o EncodeAll(u.file)

-----------------------------------------------------------------------------
(***************************************************************************)
(* uri_merge: base is the clean form of a URL.                             *)
(***************************************************************************)

(* MUTANT of MergeRelative: the query of the base is not cut off. *)
MergeAfterQuery(base, link) == UpTo(base, LastOf(base, Len(base), {"/"})) \o link

(* link replaces what follows the last slash before the query. *)
MergeRelative(base, link) ==
  UpTo(base, LastOf(base, PathLength(base), {"/"})) \o link

(* link replaces everything from the first slash after the host. *)
MergeAbsolute(base, link) == UpTo(base, FirstOf(base, 4, {"/"}) - 1) \o link

UriMerge(base, link) ==
  IF HasProto(link) THEN link
  ELSE IF link # <<>> /\ link[1] = "/" THEN MergeAbsolute(base, link)
  ELSE MergeRelative(base, link)

-----------------------------------------------------------------------------
(***************************************************************************)
(* What they are for, of one path, one redirection and one URL.            *)
(***************************************************************************)
IsName(t) == t \notin {"/", ".", ".."}
Names(p) == SelectSeq(p, IsName)

(* The names a path leads through, "." and ".." taken one after the other. *)
Trail(p) ==
  FoldLeft(LAMBDA seen, t : IF IsName(t) THEN Append(seen, t)
                            ELSE IF t = ".." /\ seen # <<>> THEN Front(seen) ELSE seen,
           <<>>, p)

Canonical(p) ==
  /\ \A i \in DOMAIN p : p[i] \notin {".", ".."}
  /\ \A i \in 2 .. Len(p) : p[i] = "/" => p[i - 1] # "/" /\ i < Len(p)

PathIsSimple(p, q) ==
  Canonical(q) /\ Names(q) = Trail(p) /\ (Head(p) = "/" => Head(q) = "/")

(* Where a link leads: to the directory and file of the joined path. *)
Resolved(u, link) ==
  LET path  == IF link # <<>> /\ link[1] = "/" THEN link ELSE EncodeAll(u.dir) \o <<"/">> \o link
      l     == PathLength(path)
      slash == LastOf(path, l, {"/"})
      isDir == SubSeq(path, slash + 1, l) \in {<<".">>, <<"..">>}
  IN [trail |-> Trail(IF isDir THEN UpTo(path, l) ELSE UpTo(path, slash)),
      file |-> IF isDir THEN From(path, l + 1) ELSE From(path, slash + 1)]

(* A redirection from u with this Location leads to r. *)
LeadsTo(u, link, r) ==
  /\ IsUrl(r)
  /\ <<r.proto, r.user, r.passwd, r.host, r.port>> = <<u.proto, u.user, u.passwd, u.host, u.port>>
  /\ [trail |-> Trail(r.dir), file |-> r.file] = Resolved(u, link)
=============================================================================
