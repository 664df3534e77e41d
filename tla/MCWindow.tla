------------------------------ MODULE MCWindow ------------------------------
(***************************************************************************)
(* Window on a small instance: HTTP servers and proxies with each answer,  *)
(* an FTP server that has everything, and one for each thing it may lack.  *)
(***************************************************************************)
EXTENDS Window

Http(code, contlen, accept) ==
  [proto |-> "http", proxy |-> "none", status |-> code, contlen |-> contlen, accept |-> accept,
   location |-> "none"]
Moved(location) == [Http(302, -1, -1) EXCEPT !.location = location]
Proxied(s) == [s EXCEPT !.proto = "ftp", !.proxy = "HTTPPROXY"]

Plain ==
  [proto |-> "ftp", proxy |-> "none", size |-> 2, login |-> TRUE, dir |-> "there", rest |-> TRUE,
   what |-> "file", knowsSize |-> TRUE, pasv |-> TRUE, list |-> "readable"]

FtpSites ==
  {Plain, [Plain EXCEPT !.login = FALSE], [Plain EXCEPT !.dir = "absent"], [Plain EXCEPT !.dir = "none"],
   [Plain EXCEPT !.rest = FALSE], [Plain EXCEPT !.what = "directory"],
   [Plain EXCEPT !.what = "absent"], [Plain EXCEPT !.pasv = FALSE]}
  \cup {[Plain EXCEPT !.knowsSize = FALSE, !.list = l] : l \in {"readable", "refused"}}

HttpSites ==
  {Http(200, -1, -1), Http(200, 2, 0), Http(200, 1, 1), Http(404, 1, -1), Http(503, 1, 1)}

AllSites ==
  HttpSites \cup FtpSites \cup {Moved("good"), Moved("bad")}
  \cup {Proxied(s) : s \in {Http(200, 2, 1), Http(404, 1, -1), Moved("good")}}
=============================================================================
