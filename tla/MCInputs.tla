------------------------------ MODULE MCInputs ------------------------------
(***************************************************************************)
(* Inputs on small sets of everything the program reads.                   *)
(***************************************************************************)
EXTENDS Inputs, FiniteSets

SeqsUpTo(X, n) == UNION {[1 .. k -> X] : k \in 0 .. n}

-----------------------------------------------------------------------------
(* Paths of up to seven tokens, no two names adjacent. *)
IsPath(p) == \A i \in 2 .. Len(p) : p[i] = "/" \/ p[i - 1] = "/"
SomePaths == {p \in SeqsUpTo({"/", ".", "..", "a", "b"}, 7) : p # <<>> /\ IsPath(p)}

Tails ==
  {p \in SeqsUpTo({"/", "..", "a"}, 3) : IsPath(p)}
  \cup {<<" ">>, <<".", "/", " ">>, <<" ", "/", ".">>,
        <<"a", "/", "b", "?", "x", "/", "y">>, <<"?", "b">>}

SomeAddresses ==
  {scheme \o user \o <<"h">> \o port \o tail :
     scheme \in {<<>>, <<"http:", "/", "/">>, <<"ftp:", "/", "/">>},
     user \in {<<>>, <<"u", "@">>, <<"u", ":", "p%20", "@">>},
     port \in {<<>>, <<":", "80">>, <<":", "21">>, <<":">>},
     tail \in {<<>>, <<"/", "a", ";type=a">>, <<"/", ";type=a">>} \cup {<<"/">> \o p : p \in Tails}}

SomeLocations == Tails \cup {<<"/", "?", "b">>, <<"http:", "/", "/", "k", "/", "b">>}

-----------------------------------------------------------------------------
(* FTP replies of up to four lines whose text looks like other replies. *)
TextLines == {[code |-> c, sep |-> s] : c \in {0, 150, 226}, s \in {" ", "-"}}
SomeReplies ==
  {r \in [code : {150, 226}, text : SeqsUpTo(TextLines, 2)] :
     \A i \in DOMAIN r.text : r.text[i] # [code |-> r.code, sep |-> " "]}
SomeAnswers == {<<r, [code |-> c, text |-> t]>> : r \in SomeReplies, c \in {226}, t \in {<<>>, <<[code |-> 0, sep |-> " "]>>}}

SomeHeaders ==
  [name : {"Content-Length:"}, parts : {<<<<"7">>>>, <<<<"x">>>>, <<<<"0">>, <<"7">>>>, <<<<"7", "">>>>}]
  \cup [name : {"Accept-Ranges:"}, parts : {<<<<"bytes">>>>, <<<<"bytes">>, <<"none">>>>}]
  \cup [name : {"Location:"}, parts : {<<<<"l">>>>, <<<<"l">>, <<"m">>>>}]
  \cup [name : {"Server:"}, parts : {<<<<"x">>, <<"none">>, <<"y">>>>}]
BodyLines == {R!Blank, [folds |-> TRUE, name |-> "", words |-> <<"7">>]}
SomeResponses ==
  [code : {200, 300, 302, 404, 600}, headers : SeqsUpTo(SomeHeaders, 2), body : SeqsUpTo(BodyLines, 1)]

-----------------------------------------------------------------------------
(* Entries for this host, another and all, complete or not. *)
SomeEntries ==
  [host : {A!None, "h", "k"}, account : {A!None, "u", "v"}, password : {A!None, "p"},
   layout : A!Layouts, swap : BOOLEAN]
SomeNetrcs == SeqsUpTo(SomeEntries, 2)
SomeLogins == {[user |-> A!None, passwd |-> A!None], [user |-> "w", passwd |-> "s"]}

-----------------------------------------------------------------------------
(* Values at the ends of their ranges and beyond them. *)
Setting(key, value) == [key |-> key, value |-> value, bad |-> FALSE]
SomeLines ==
  {Setting("threads", v) : v \in {0, 1, 30, 31}} \cup {Setting("mirrorsreq", v) : v \in {0, 1000}}
  \cup {Setting("maxsimulpings", v) : v \in {-1, 31}} \cup {Setting("retrydelay", -1)}
  \cup {Setting("pasv", 0), Setting("debug", 1), Setting("colour", 1), [Setting("threads", 7) EXCEPT !.bad = TRUE]}
SomePrefsFiles ==
  {[missing |-> TRUE, lines |-> <<>>]} \cup [missing : {FALSE}, lines : SeqsUpTo(SomeLines, 2)]
Opt(name, arg) == [name |-> name, arg |-> arg]
SomeCommandLines ==
  SeqsUpTo({Opt("k", v) : v \in {-1, 0, 2, 31}} \cup {Opt("pao", 3), Opt("max_ftps_servers", 0), Opt("retry_delay", 0)}
           \cup {Opt(name, 0) : name \in {"one", "use_port", "debug", "force", "resume", "no_netrc"}}
           \cup {Opt("timeout", 7)}, 2)

-----------------------------------------------------------------------------
Mirror(server, path, file) == [server |-> server, path |-> path, file |-> file]
SomeMirrors == SeqsUpTo({Mirror(<<"s">>, <<"d">>, <<"f">>), Mirror(<<"t">>, <<"d", "/", "e">>, <<"f">>)}, 3)
SomeSections == -1 .. 2
SomeOwns == [proto : {"ftp", "http"}, mirror : {Mirror(<<"o">>, <<>>, <<"f">>)}]

-----------------------------------------------------------------------------
SomeLoads ==
  {<<>>} \cup [1 .. 2 -> [busy : BOOLEAN, rate : {2, 7}, limit : {3}]]
  \cup [1 .. 3 -> [busy : {TRUE}, rate : {1, 4, 7}, limit : {0}]]
SomeSleeps ==
  [limit : {0, 1, 2, 5}, began : {T!None, 0}, now : 0 .. 6, bytes : 0 .. 6, timeout : {0, 20, 25}]
=============================================================================
