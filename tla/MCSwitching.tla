---------------------------- MODULE MCSwitching -----------------------------
(***************************************************************************)
(* Switching with two servers, where what A and B hold varies, and with    *)
(* three: fresh and resumed downloads, with PASV, without, over a proxy.   *)
(***************************************************************************)
EXTENDS Switching

On(s, p) == [server |-> s, path |-> p]

(* The user's own server comes last; one list has an empty path.           *)
Found == {<<On("A", "p"), On("A", "q"), On("A", "r"), On("B", "p")>>,
          <<On("C", ""), On("D", "p")>>,
          <<On("A", "p"), On("B", "p"), On("C", "p")>>}

(* url.c makes the empty path "/"; the others stay as they are. *)
AsParsed == [x \in {"p", "q", "r", ""} |-> IF x = "" THEN "/" ELSE x]

(* One session each; what CWD and RETR do with p, q and r; nothing in "/". *)
Like(refuse, rest, busy, p, q, r) ==
  [slots |-> 1, refuse |-> refuse, rest |-> rest, pasv |-> TRUE, busy |-> busy,
   has |-> [x \in {"p", "q", "r", "/"} |->
              CASE x = "p" -> p [] x = "q" -> q [] x = "r" -> r [] x = "/" -> "nofile"]]

Pair(a, b) == [s \in {"A", "B"} |-> IF s = "A" THEN a ELSE b]

A(busy, p, q, r) == Like("greeting", TRUE, busy, p, q, r)
B(rest, p)       == Like("password", rest, FALSE, p, p, p)
All  == A(FALSE, "ok", "ok", "ok")
Some == A(TRUE, "nofile", "ok", "ok")
None == A(FALSE, "nofile", "nofile", "nofile")
Odd  == A(FALSE, "nocwd", "ok", "nofile")

Fresh(s) == [site |-> s, proxied |-> FALSE, logged |-> {}, begun |-> FALSE]

TwoSites ==
  {Pair(All, B(FALSE, "ok")), Pair(Some, B(TRUE, "ok")), Pair(Odd, B(TRUE, "nofile"))}
    \cup {Pair(None, B(TRUE, p)) : p \in {"ok", "nofile"}}

OtherSites ==
  {[s \in {"C", "D"} |-> IF s = "C" THEN All ELSE B(TRUE, "ok")],
   [s \in {"A", "B", "C"} |->
      IF s = "C" THEN Like("password", TRUE, FALSE, "ok", "ok", "ok")
      ELSE Like("greeting", TRUE, FALSE, "nofile", "ok", "ok")]}

(* Connection 0 or 1 is complete; A holds the file on some paths, or on    *)
(* none, B on its only one, or not.                                        *)
Complete(i, a, p) == [Fresh(Pair(a, B(TRUE, p))) EXCEPT !.logged = {i}, !.begun = TRUE]
Resumed == {Complete(0, Some, "ok"), Complete(1, Some, "ok"), Complete(0, None, "ok"), Complete(1, None, "nofile")}

(* A does not take PASV; A does not take REST and B is not at hand.        *)
Active == {Fresh(Pair([All EXCEPT !.pasv = FALSE], B(TRUE, "nofile")))}
Proxied ==
  {[Fresh(Pair(All, B(rest, "ok"))) EXCEPT !.proxied = TRUE] : rest \in BOOLEAN}

SomeDownloads == {Fresh(s) : s \in TwoSites \cup OtherSites} \cup Resumed \cup Active \cup Proxied
=============================================================================
