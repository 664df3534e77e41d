------------------------------ MODULE Mirrors -------------------------------
(***************************************************************************)
(* What happens between the answer of the mirror search and the download:  *)
(* the list is grouped by server (ftpsearch.c), every server is pinged, at *)
(* most max_simul_pings at a time (ping.c), the window sorts the list when *)
(* the pings are over, and the connections are handed to the servers that  *)
(* answered fast enough (download.c).                                      *)
(***************************************************************************)
EXTENDS Integers, SequencesExt

CONSTANTS
  N,           \* connections asked for
  Results,     \* search results: sequences of [server, path], the user's own last
  Parsed,      \* the directory that url.c finds in a URL built with a path
  MaxPings,    \* request->max_simul_pings
  Times        \* ping times in milliseconds

ASSUME MirrorsAssumption ==
  /\ N \in Nat \ {0} /\ MaxPings \in Nat \ {0}
  /\ Times \subseteq Nat

Conn == 0 .. (N - 1)

VARIABLES
  mirrors,     \* request->mirrors
  step,        \* mass_ping: "create" or "join" threads of a batch; "done"
  lo, k,       \* mass_ping: the batch's first mirror, the next one
  alive,       \* mirrors whose ping thread runs
  answer,      \* ping_requests: the time of a ping that succeeded, or NoAnswer
  phase        \* the window: "ping", "sorted", "run", or "original" server

NoAnswer == -1

mirrorVars == <<mirrors, step, lo, k, alive, answer, phase>>
pingVars == <<mirrors, step, lo, k, alive, answer>>

(* reprocess_mirror_list: one entry per server, with all its paths. *)
AddServer(names, e) == IF Contains(names, e.server) THEN names ELSE Append(names, e.server)
AddPath(paths, e, s) == IF e.server = s THEN Append(paths, e.path) ELSE paths

NamesOf(list) == FoldLeft(AddServer, <<>>, list)
PathsOf(list, s) == FoldLeft(LAMBDA paths, e : AddPath(paths, e, s), <<>>, list)

Reprocess(list) ==
  [j \in DOMAIN NamesOf(list) |->
     [name |-> NamesOf(list)[j], paths |-> PathsOf(list, NamesOf(list)[j]), status |-> "UNTESTED", ms |-> 0]]

Entries == UNION {{list[j] : j \in DOMAIN list} : list \in Results}
Paths == {e.path : e \in Entries}
Dirs == {Parsed[p] : p \in Paths}
Mirror ==
  [name : {e.server : e \in Entries}, paths : Seq(Paths),
   status : {"UNTESTED", "RESPONSEOK", "NORESPONSE"}, ms : Times \cup {0}]

(* With no server at all the window downloads from the original one, as if *)
(* no search had been made (handle_ftpsearch).                             *)
ASSUME ResultsAssumption ==
  \A list \in Results : Len(list) \in Nat \ {0} /\ DOMAIN list = 1 .. Len(list)

InitMirrors ==
  /\ \E list \in Results : mirrors = Reprocess(list)
  /\ step = "create" /\ lo = 1 /\ k = 1
  /\ alive = {} /\ answer = [j \in DOMAIN mirrors |-> NoAnswer]
  /\ phase = "ping"

hi == IF lo + MaxPings - 1 < Len(mirrors) THEN lo + MaxPings - 1 ELSE Len(mirrors)

(* mass_ping starts the threads of a batch ... *)
CreatePing ==
  /\ step = "create"
  /\ alive' = alive \cup {k}
  /\ IF k = hi THEN step' = "join" /\ k' = lo ELSE k' = k + 1 /\ UNCHANGED step
  /\ UNCHANGED <<mirrors, lo, answer, phase>>

(* tcp_ping: the first bytes of the greeting came after t, or did not. *)
PingEnds(j) ==
  /\ j \in alive
  /\ alive' = alive \ {j}
  /\ \E t \in Times \cup {NoAnswer} : answer' = [answer EXCEPT ![j] = t]
  /\ UNCHANGED <<mirrors, step, lo, k, phase>>

(* The result of a ping; a time is only noted if there is one. *)
Note(j) ==
  mirrors' = [mirrors EXCEPT ![j] =
    IF answer[j] = NoAnswer THEN [@ EXCEPT !.status = "NORESPONSE"]
    ELSE [@ EXCEPT !.status = "RESPONSEOK", !.ms = answer[j]]]

(* MUTANT of JoinPing: the result is read without waiting for the thread. *)
ReadPing ==
  /\ step = "join"
  /\ Note(k)
  /\ IF k < hi THEN k' = k + 1 /\ UNCHANGED <<lo, step>>
     ELSE /\ k' = k + 1 /\ lo' = k + 1
          /\ step' = IF k = Len(mirrors) THEN "done" ELSE "create"
  /\ UNCHANGED <<alive, answer, phase>>

(* ... and joins them in order, noting each result.                        *)
JoinPing ==
  /\ step = "join" /\ k \notin alive
  /\ Note(k)
  /\ IF k < hi THEN k' = k + 1 /\ UNCHANGED <<lo, step>>
     ELSE /\ k' = k + 1 /\ lo' = k + 1
          /\ step' = IF k = Len(mirrors) THEN "done" ELSE "create"
  /\ UNCHANGED <<alive, answer, phase>>

(* compare_two_servers; servers that did not answer come last, in any order. *)
Before(a, b) ==
  LET ms(m) == IF m.status = "RESPONSEOK" THEN m.ms ELSE 1000000
  IN ms(a) <= ms(b)

(* The window polls mass_ping_running and sorts the list in place.  The    *)
(* results of mass_ping, whose thread is gone, are forgotten.              *)
SortMirrors ==
  /\ phase = "ping" /\ step = "done"
  /\ \E order \in SetToSeqs(DOMAIN mirrors) :
       /\ mirrors' = [j \in DOMAIN mirrors |-> mirrors[order[j]]]
       /\ \A j, g \in DOMAIN mirrors : j < g => Before(mirrors'[j], mirrors'[g])
  /\ phase' = "sorted" /\ answer' = <<>>
  /\ UNCHANGED <<step, lo, k, alive>>

(* Mirrors within twice the ping time of the fastest. *)
NumUsable ==
  Cardinality({j \in DOMAIN mirrors :
                 /\ mirrors[j].status = "RESPONSEOK"
                 /\ mirrors[j].ms <= mirrors[1].ms + (mirrors[1].ms * 100) \div 100})

(* The URL built for a path of the list is parsed again: an empty path     *)
(* becomes "/", a slash at the end goes.                                   *)
UrlOn(m) == [server |-> m.name, path |-> Parsed[m.paths[1]]]

(* MUTANT of Allocated: connections go round the whole list. *)
AllocatedRound(i) == UrlOn(mirrors[(i % Len(mirrors)) + 1])

(* One connection per usable mirror, the others go to the fastest. *)
Allocated(i) == UrlOn(mirrors[IF i < NumUsable THEN i + 1 ELSE 1])

SomeAnswered == mirrors[1].status = "RESPONSEOK"

PingStep == CreatePing \/ JoinPing \/ SortMirrors \/ \E j \in DOMAIN mirrors : PingEnds(j)

(* The position of a server's entry, and of the first path of that name.   *)
ServerPosition(s) == CHOOSE j \in DOMAIN mirrors : mirrors[j].name = s
PathsOn(s) == mirrors[ServerPosition(s)].paths
PathPosition(s, p) ==
  CHOOSE j \in DOMAIN PathsOn(s) :
    PathsOn(s)[j] = p /\ \A g \in 1 .. (j - 1) : PathsOn(s)[g] # p
-----------------------------------------------------------------------------
MirrorsTypeOK ==
  /\ \A j \in DOMAIN mirrors :
       /\ mirrors[j].status \in {"UNTESTED", "RESPONSEOK", "NORESPONSE"}
       /\ mirrors[j].ms \in Times \cup {0}
  /\ step \in {"create", "join", "done"}
  /\ lo \in 1 .. (Len(mirrors) + 1) /\ k \in 1 .. (Len(mirrors) + 1)
  /\ alive \subseteq DOMAIN mirrors
  /\ answer \in [IF phase = "ping" THEN DOMAIN mirrors ELSE {} -> Times \cup {NoAnswer}]
  /\ phase \in {"ping", "sorted", "run", "original"}

(* The list is only sorted, in place, when no ping thread runs any more    *)
(* and every entry has the result of its own ping: a result that came      *)
(* later would be noted for another server.                                *)
PingsAreOver ==
  phase = "ping" =>
    /\ Cardinality(alive) <= MaxPings
    /\ step = "done" =>
         /\ alive = {}
         /\ \A j \in DOMAIN mirrors :
              IF answer[j] = NoAnswer THEN mirrors[j].status = "NORESPONSE"
              ELSE mirrors[j].status = "RESPONSEOK" /\ mirrors[j].ms = answer[j]
=============================================================================
