---------------------------- MODULE MirrorSearch ----------------------------
(***************************************************************************)
(* The mirror search (ftpsearch.c): one HTTP request to the search server, *)
(* whose page lists, for each hit, links to the server, the directory and  *)
(* the file.  A page is a sequence of [kind, text]: the marks the parser   *)
(* looks for and the links' texts.  What it makes of them is the list that *)
(* Mirrors groups by server and pings.                                     *)
(***************************************************************************)
EXTENDS Replies

Mark(kind) == [kind |-> kind, text |-> <<>>]
Link(text) == [kind |-> "link", text |-> text]
Has(page, kind) == \E i \in DOMAIN page : page[i].kind = kind
Places(page, kind) == {i \in DOMAIN page : page[i].kind = kind}
Least(S) == CHOOSE i \in S : \A j \in S : i <= j
Most(S) == CHOOSE i \in S : \A j \in S : j <= i
Single(S) == \E i \in S : S = {i}

NoList(err) == [err |-> err, list |-> <<>>]

(* MUTANT of ListStart: the first section. *)
ListStartFirst(page) == Least(Places(page, "PRE"))

(* The section with the hits: the only one, or the last that begins before *)
(* "reported hits".                                                        *)
ListStart(page) ==
  LET pre == Places(page, "PRE")
  IN IF Single(pre) THEN Most(pre)
     ELSE Most({i \in pre : i < Least(Places(page, "reported hits"))})

(* An only section ends at the page's first end of one. *)
ListEnd(page) ==
  LET ends == Places(page, "/PRE")
  IN Least(IF Single(Places(page, "PRE")) THEN ends
           ELSE {i \in ends : i > ListStart(page)})

(* Neither of the two looks is possible; without a section in front of     *)
(* "reported hits" the parser would read what lies before the page.        *)
Unlisted(page) ==
  LET pre == Places(page, "PRE")
  IN IF Single(pre) THEN ~Has(page, "/PRE")
     ELSE \/ ~Has(page, "reported hits")
          \/ \A i \in Places(page, "/PRE") : \A j \in pre : i < j

(* The directory without its leading and, for filesearching, its trailing  *)
(* slash.                                                                  *)
Stripped(service, path) ==
  LET p == IF service = "FILESEARCH_RU" /\ path # <<>> /\ Last(path) = "/" THEN Front(path) ELSE path
  IN IF p # <<>> /\ p[1] = "/" THEN Tail(p) ELSE p

(* The texts of the links in a part of the page. *)
AddLink(links, t) == IF t.kind = "link" THEN Append(links, t.text) ELSE links
Links(tokens) == FoldLeft(AddLink, <<>>, tokens)

Hit(service, links, k) ==
  [server |-> links[3 * k - 2], path |-> Stripped(service, links[3 * k - 1]), file |-> links[3 * k]]

(* The server the user named goes behind the hits if it is an FTP server. *)
WithOwn(hits, own) == hits \o (IF own.proto = "ftp" THEN <<own.mirror>> ELSE <<>>)

(* parse_lycos_html_mirror_list and parse_filesearching_html_mirror_list.  *)
ParseMirrorList(service, page, own) ==
  LET links == Links(SubSeq(page, ListStart(page), ListEnd(page)))
      hits  == [k \in 1 .. Len(links) \div 3 |-> Hit(service, links, k)]
  IN CASE Has(page, "No hits") -> NoList("MIRINFOK")
       [] ~Has(page, "No hits") /\ Unlisted(page) -> NoList("MIRPARSEFAIL")
       [] OTHER -> [err |-> "MIRINFOK",
                    list |-> IF links = <<>> THEN <<>> ELSE WithOwn(hits, own)]

(* get_mirror_info: the page ends when the server closes the connection.   *)
ReadPage(end) == AtEnd(end, "HOK", "READERR")

GetMirrorInfo(status, end) ==
  IF StatusErr(status, <<"none">>) = "HOK" THEN ReadPage(end)
  ELSE StatusErr(status, <<"none">>)

(* get_complete_mirror_list: on a redirection it merges with the location  *)
(* of another record, which has none, and the program ends.                *)
GetMirrorList(service, status, stream, own) ==
  LET err == GetMirrorInfo(status, stream.end)
  IN CASE err = "HOK" -> ParseMirrorList(service, stream.lines, own)
       [] err = "NEWLOCATION" -> NoList("DIES")
       [] OTHER -> NoList(err)

-----------------------------------------------------------------------------
(***************************************************************************)
(* What a page shows, and how it may look.                                 *)
(***************************************************************************)

(* A hit's links: the directory is shown with slashes around it. *)
Shown(mirror) ==
  <<Link(mirror.server), Link(<<"/">> \o mirror.path), Link(mirror.file)>>
Section(tokens) == <<Mark("PRE")>> \o tokens \o <<Mark("/PRE")>>
Hits(mirrors) == Section(FlattenSeq([i \in DOMAIN mirrors |-> Shown(mirrors[i])]))

(* Before -1: only the hits; else that many sections before them, of the   *)
(* same kind, and one behind "reported hits".                              *)
Advert == Section(<<Link(<<"advert">>)>>)
Page(mirrors, before) ==
  IF before = -1 THEN <<Link(<<"home">>)>> \o Hits(mirrors)
  ELSE FlattenSeq([i \in 1 .. before |-> Advert]) \o Hits(mirrors)
       \o <<Mark("reported hits")>> \o Advert

(* The list has the hits in their order, then the user's own server; no    *)
(* hit, no list.                                                           *)
ListsHits(mirrors, own, got) ==
  got = [err |-> "MIRINFOK",
         list |-> IF mirrors = <<>> THEN <<>>
                  ELSE mirrors \o (IF own.proto = "ftp" THEN <<own.mirror>> ELSE <<>>)]
=============================================================================
