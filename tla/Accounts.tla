------------------------------ MODULE Accounts ------------------------------
(***************************************************************************)
(* ~/.netrc (netrc.c): the parser, a machine that goes through the lines'  *)
(* tokens, the search for a host's entry, and the account a session then   *)
(* uses (ftp.c, http.c).  A line is a sequence of tokens, quotes removed.  *)
(***************************************************************************)
EXTENDS Integers, SequencesExt

None == "none"
Comment == "#"

(* netrc_entry: host None is the default entry's. *)
NoEntry == [host |-> None, account |-> None, password |-> None]

(* last: the keyword whose value is expected; current: the entry that is   *)
(* being read, if isOpen; list: the entries in file order.                 *)
Start == [last |-> "nothing", isOpen |-> FALSE, current |-> NoEntry, list |-> <<>>]

(* MUTANT of MaybeAdd: an entry without an account is kept. *)
AddAlways(p) ==
  [p EXCEPT !.list = IF p.isOpen THEN Append(@, p.current) ELSE @,
            !.isOpen = TRUE, !.current = NoEntry]

(* maybe_add_to_list: an entry without an account is dropped. *)
MaybeAdd(p) ==
  [p EXCEPT !.list = IF p.isOpen /\ p.current.account # None THEN Append(@, p.current) ELSE @,
            !.isOpen = TRUE, !.current = NoEntry]

Keyword(tok) ==
  CASE tok \in {"login", "user"} -> "login"
    [] tok \in {"password", "passwd"} -> "password"
    [] tok \in {"machine", "macdef", "account"} -> tok
    [] OTHER -> "nothing"

(* A value: those before the first entry are only warned about. *)
Value(p, tok) ==
  CASE p.last = "machine" -> [MaybeAdd(p) EXCEPT !.current.host = tok, !.last = "nothing"]
    [] p.last = "login" /\ p.isOpen -> [p EXCEPT !.current.account = tok, !.last = "nothing"]
    [] p.last = "password" /\ p.isOpen -> [p EXCEPT !.current.password = tok, !.last = "nothing"]
    [] OTHER -> [p EXCEPT !.last = "nothing"]

Token(p, tok) ==
  IF p.last # "nothing" THEN Value(p, tok)
  ELSE IF tok = "default" THEN MaybeAdd(p)
  ELSE [p EXCEPT !.last = Keyword(tok)]

(* A comment ends the line; so does "macdef", whose name is skipped.       *)
BeforeComment(toks) ==
  SubSeq(toks, 1, SelectInSeq(toks \o <<Comment>>, LAMBDA t : t = Comment) - 1)
Tokens(p, toks) ==
  FoldLeft(LAMBDA q, tok : IF q.last = "macdef" THEN q ELSE Token(q, tok), p, BeforeComment(toks))

(* An empty line ends a macro; the lines of a macro are skipped. *)
Line(p, toks) ==
  IF toks = <<>> THEN [p EXCEPT !.last = IF @ = "macdef" THEN "nothing" ELSE @]
  ELSE Tokens(p, toks)

ParseNetrc(lines) == MaybeAdd(FoldLeft(Line, Start, lines)).list

(* search_netrc: the first entry for the host or without one, 0 if none is. *)
SearchNetrc(list, host) == SelectInSeq(list, LAMBDA e : e.host \in {None, host})

(* The account of a session: an entry replaces what the URL says; what is  *)
(* missing then is anonymous for FTP and empty for HTTP.                   *)
DefaultUser(proto) == IF proto = "ftp" THEN "anonymous" ELSE ""
DefaultPasswd(proto) == IF proto = "ftp" THEN "billg@hotmail.com" ELSE ""

Account(proto, user, passwd, list, host) ==
  LET i == SearchNetrc(list, host)
      u == IF i # 0 THEN list[i].account ELSE user
      w == IF i # 0 THEN list[i].password ELSE passwd
  IN [user |-> IF u = None THEN DefaultUser(proto) ELSE u,
      passwd |-> IF w = None THEN DefaultPasswd(proto) ELSE w]

-----------------------------------------------------------------------------
(***************************************************************************)
(* What a file means, and how it may be written.                           *)
(***************************************************************************)

(* The tokens of an entry, in either order of account and password. *)
Field(key, value) == IF value = None THEN <<>> ELSE <<key, value>>
Written(e, passwordFirst) ==
  LET user == Field("login", e.account)
      pass == Field("password", e.password)
  IN (IF e.host = None THEN <<"default">> ELSE <<"machine", e.host>>)
     \o (IF passwordFirst THEN pass \o user ELSE user \o pass)

(* The ways to break an entry's tokens into lines, with comments, empty    *)
(* lines, and a macro whose lines look like an entry.                      *)
Macro == <<<<"macdef", "init">>, <<"machine", "k">>, <<"login", "x">>, <<>>>>
OneLine(toks) == <<toks>>
OneEach(toks) == [i \in DOMAIN toks |-> <<toks[i], Comment, "password">>]
Broken(toks) == <<SubSeq(toks, 1, 1), <<>>, <<Comment, "machine", "k">>, Tail(toks)>>
Layouts == {"line", "each", "broken", "macro"}
Laid(layout, toks) ==
  CASE layout = "line" -> OneLine(toks) [] layout = "each" -> OneEach(toks)
    [] layout = "broken" -> Broken(toks) [] layout = "macro" -> OneLine(toks) \o Macro

(* entries: [host, account, password, layout, swap]. *)
NetrcLines(entries) ==
  FlattenSeq([i \in DOMAIN entries |-> Laid(entries[i].layout, Written(entries[i], entries[i].swap))])

(* The entry meant for a host: the first that names it, or stands for all, *)
(* and has an account; without one the URL counts.                         *)
Meant(entries, host) ==
  LET for == {i \in DOMAIN entries : entries[i].host \in {None, host} /\ entries[i].account # None}
  IN IF for = {} THEN NoEntry
     ELSE LET e == entries[CHOOSE i \in for : \A j \in for : i <= j]
          IN [host |-> e.host, account |-> e.account, password |-> e.password]

(* The session for a URL's host logs in as that entry says, with nothing   *)
(* of another entry's, and else as the URL says.                           *)
IsAccountOf(entries, host, proto, user, passwd, got) ==
  LET e == Meant(entries, host)
      Or(v, default) == IF v = None THEN default ELSE v
  IN got = IF e = NoEntry
           THEN [user |-> Or(user, DefaultUser(proto)), passwd |-> Or(passwd, DefaultPasswd(proto))]
           ELSE [user |-> e.account, passwd |-> Or(e.password, DefaultPasswd(proto))]
=============================================================================
