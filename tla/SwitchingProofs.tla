--------------------------- MODULE SwitchingProofs ---------------------------
(***************************************************************************)
(* Theorems about Switching, and the pings before it, for every number of  *)
(* connections, servers, paths and pings.                                  *)
(***************************************************************************)
EXTENDS Switching, Folding

-----------------------------------------------------------------------------
(***************************************************************************)
(* Before the download: the list and the pings.                            *)
(***************************************************************************)

(* The list has an entry for each server, with a path. *)
ListOK ==
  /\ mirrors \in Seq(Mirror) /\ mirrors # <<>>
  /\ \A j \in DOMAIN mirrors : mirrors[j].paths # <<>>
  /\ \A j, g \in DOMAIN mirrors : mirrors[j].name = mirrors[g].name => j = g

(* The result of the ping of j has been noted. *)
Noted(j) ==
  IF answer[j] = NoAnswer THEN mirrors[j].status = "NORESPONSE"
  ELSE mirrors[j].status = "RESPONSEOK" /\ mirrors[j].ms = answer[j]

(* Ping threads run in the batch that is created or joined; of those joined, *)
(* none runs and the results are noted.                                    *)
PingInv ==
  /\ step \in {"create", "join", "done"} /\ phase \in {"ping", "sorted", "run", "original"}
  /\ lo \in 1 .. (Len(mirrors) + 1)
  /\ phase = "ping" => answer \in [DOMAIN mirrors -> Times \cup {NoAnswer}]
  /\ phase # "ping" => step = "done" /\ answer = <<>>
  /\ step = "done" => k = Len(mirrors) + 1 /\ lo = k /\ alive = {}
  /\ step # "done" => k \in lo .. hi
  /\ step = "create" => alive \subseteq lo .. (k - 1) /\ \A j \in 1 .. (lo - 1) : Noted(j)
  /\ step = "join" => alive \subseteq k .. hi /\ \A j \in 1 .. (k - 1) : Noted(j)
  /\ step = "done" /\ phase = "ping" => \A j \in DOMAIN mirrors : Noted(j)

(* Once sorted, in the order of their answers. *)
InOrder == \A j, g \in DOMAIN mirrors : j < g => Before(mirrors[j], mirrors[g])
SortedInv == phase \in {"sorted", "run"} => InOrder

-----------------------------------------------------------------------------
(***************************************************************************)
(* The download.                                                           *)
(***************************************************************************)
TPcs == {"off", "start", "connect", "login", "request", "accept", "transfer", "return",
         "ended", "cancelled"}
MainPcs == {"off", "poll", "finish", "scan", "next", "readerr", "localfatal", "all", "path",
            "switch", "same", "count", "connecting", "loggingin", "join", "wait", "returned"}
Handling == MainPcs \ {"off", "poll", "finish", "scan", "returned"}
Stages == {"connect", "login", "request", "accept", "transfer"}
Aborts == {"DLREMOTEFATAL", "DLLOCALFATAL", "CANTRESUME", "died"}
AtRest == {"ended", "cancelled"}

(* u is on the list. *)
Listed(u) ==
  \E j \in DOMAIN mirrors : \E g \in DOMAIN mirrors[j].paths :
    u = [server |-> mirrors[j].name, path |-> Parsed[mirrors[j].paths[g]]]

(* u is that of a connection that the log says is complete, or has the file. *)
Trusted(u) == HasFile(u) \/ \E j \in logged : u = url[j]

ThreadTypes ==
  /\ status \in [Conn -> Statuses] /\ err \in [Conn -> Errs] /\ rv \in [Conn -> Errs]
  /\ tpc \in [Conn -> TPcs] /\ begun \in BOOLEAN /\ faults \in 0 .. MaxFaults

MainTypes ==
  /\ mpc \in MainPcs /\ waits \in BOOLEAN /\ again \in BOOLEAN
  /\ mi \in 0 .. N /\ mj \in 0 .. N /\ why \in Statuses \cup Errs
  /\ dling \in 0 .. N /\ maxSimul \in [Servers -> 0 .. N]
  /\ result \in {"none", "DLDONE"} \cup Aborts

PlaceTypes ==
  /\ DOMAIN site = Servers /\ others \subseteq Servers /\ logged \subseteq Conn
  /\ \A h \in Servers : \A p \in Dirs : site[h].has[p] \in {"ok", "nofile", "nocwd"}
  /\ url = [i \in Conn |-> url[i]]

(* There are threads and a main thread exactly when the download runs. *)
PhaseInv ==
  /\ phase = "run" <=> mpc # "off"
  /\ phase = "run" => \A i \in Conn : Listed(url[i])
  /\ \A i \in Conn : tpc[i] = "off" <=> phase # "run"
  /\ phase # "run" => status = [i \in Conn |-> "IDLE"] /\ err = [i \in Conn |-> "none"]
                      /\ rv = [i \in Conn |-> "none"] /\ why = "none"
  /\ phase = "run" => \A i \in logged : status[i] = "COMPLETED"

(* The main thread never handles a connection that the log completed.      *)
MainPlaced ==
  /\ mpc \in Handling => mi < N
  /\ mpc \in Handling \ {"next"} => mi \notin logged
  /\ result # "none" <=> mpc = "returned"
  /\ mpc = "returned" => \A i \in Conn : tpc[i] \in AtRest
  /\ \A i \in Conn : tpc[i] = "cancelled" => mpc = "returned"
  /\ mpc = "join" => Listed(goal)
  /\ mpc = "finish" \/ result = "DLDONE" => AllStatus("COMPLETED")
  /\ result = "DLDONE" => \A i \in Conn : tpc[i] = "ended"

(* A completed connection has nothing left to do but to say so. *)
CompletedRests ==
  \A i \in Conn : status[i] = "COMPLETED" =>
    \/ tpc[i] \in {"start", "cancelled"}
    \/ tpc[i] = "return" /\ rv[i] = "OK"
    \/ tpc[i] = "ended" /\ err[i] = "OK"

IInv ==
  /\ ListOK /\ PingInv /\ SortedInv /\ ThreadTypes /\ MainTypes /\ PlaceTypes
  /\ PhaseInv /\ MainPlaced /\ CompletedRests

(* With every directory there, a connection that transfers is where the    *)
(* file is, and so is one whose status makes others follow it, unless it   *)
(* has the URL of one that the log completed, or the main thread has just  *)
(* sent it elsewhere and waits for it.                                     *)
FoundInv ==
  CwdWorks /\ phase = "run" =>
    /\ why # "FTPCWDFAIL" /\ \A i \in Conn : err[i] # "FTPCWDFAIL" /\ rv[i] # "FTPCWDFAIL"
    /\ \A i \in Conn : tpc[i] \in {"accept", "transfer"} => HasFile(url[i])
    /\ \A i \in Conn : status[i] \in {"DOWNLOADING", "COMPLETED"} =>
         Trusted(url[i]) \/ (mpc = "wait" /\ mi = i)
    /\ mpc \in {"all", "path"} => why \in {"FTPNSFOD", "FTPRESTFAIL"}
    /\ mpc = "path" => why = "FTPNSFOD"
    /\ mpc = "join" => waits /\ (goal.server = url[mi].server \/ Trusted(goal))

-----------------------------------------------------------------------------
(***************************************************************************)
(* The list.                                                               *)
(***************************************************************************)
LEMMA FunctionIsSeq ==
  ASSUME NEW S, NEW n \in Nat, NEW f \in [1 .. n -> S]
  PROVE  f \in Seq(S) /\ Len(f) = n /\ DOMAIN f = 1 .. n
OBVIOUS

LEMMA ListFacts ==
  ASSUME ListOK
  PROVE  /\ Len(mirrors) \in Nat \ {0} /\ DOMAIN mirrors = 1 .. Len(mirrors)
         /\ mirrors \in [1 .. Len(mirrors) -> Mirror]
         /\ \A j \in DOMAIN mirrors :
              /\ mirrors[j] \in Mirror
              /\ Len(mirrors[j].paths) \in Nat \ {0}
              /\ DOMAIN mirrors[j].paths = 1 .. Len(mirrors[j].paths)
              /\ \A g \in DOMAIN mirrors[j].paths : mirrors[j].paths[g] \in Paths
<1>1. mirrors \in Seq(Mirror) /\ mirrors # <<>>
  BY DEF ListOK
<1>2. /\ Len(mirrors) \in Nat /\ DOMAIN mirrors = 1 .. Len(mirrors)
      /\ mirrors \in [1 .. Len(mirrors) -> Mirror]
  BY <1>1
<1>3. Len(mirrors) # 0
  BY <1>1, <1>2
<1>4. ASSUME NEW j \in DOMAIN mirrors
      PROVE  /\ mirrors[j] \in Mirror
             /\ Len(mirrors[j].paths) \in Nat \ {0}
             /\ DOMAIN mirrors[j].paths = 1 .. Len(mirrors[j].paths)
             /\ \A g \in DOMAIN mirrors[j].paths : mirrors[j].paths[g] \in Paths
  <2>1. mirrors[j] \in Mirror /\ mirrors[j].paths \in Seq(Paths) /\ mirrors[j].paths # <<>>
    BY <1>1, <1>2 DEF ListOK, Mirror
  <2> DEFINE p == mirrors[j].paths
  <2>2. p \in Seq(Paths) /\ p # <<>>
    BY <2>1
  <2> HIDE DEF p
  <2>3. Len(p) \in Nat \ {0} /\ DOMAIN p = 1 .. Len(p) /\ \A g \in DOMAIN p : p[g] \in Paths
    BY <2>2
  <2>4. QED
    BY <2>1, <2>3 DEF p
<1>5. QED
  BY <1>2, <1>3, <1>4

(* A new list with the old servers and paths is one, too. *)
SameEntries ==
  /\ mirrors' \in [DOMAIN mirrors -> Mirror]
  /\ \A j \in DOMAIN mirrors :
       mirrors'[j].name = mirrors[j].name /\ mirrors'[j].paths = mirrors[j].paths

LEMMA SameList ==
  ASSUME ListOK, SameEntries
  PROVE  /\ ListOK' /\ Len(mirrors') = Len(mirrors) /\ DOMAIN mirrors' = DOMAIN mirrors
         /\ Servers' = Servers
<1>1. /\ mirrors' \in Seq(Mirror) /\ Len(mirrors') = Len(mirrors)
      /\ DOMAIN mirrors' = DOMAIN mirrors /\ DOMAIN mirrors = 1 .. Len(mirrors)
      /\ Len(mirrors) # 0
  BY ListFacts, FunctionIsSeq DEF SameEntries
<1>2. mirrors' # <<>>
  BY <1>1
<1>3. \A j \in DOMAIN mirrors' : mirrors'[j].paths # <<>>
  BY <1>1 DEF SameEntries, ListOK
<1>4. \A j, g \in DOMAIN mirrors' : mirrors'[j].name = mirrors'[g].name => j = g
  BY <1>1 DEF SameEntries, ListOK
<1>5. Servers' = Servers
  BY <1>1 DEF SameEntries, Servers
<1>6. QED
  BY <1>1, <1>2, <1>3, <1>4, <1>5 DEF ListOK

LEMMA NoteSame ==
  ASSUME ListOK, NEW j \in DOMAIN mirrors, Note(j),
         answer \in [DOMAIN mirrors -> Times \cup {NoAnswer}]
  PROVE  /\ SameEntries
         /\ \A g \in DOMAIN mirrors \ {j} : mirrors'[g] = mirrors[g]
         /\ IF answer[j] = NoAnswer THEN mirrors'[j].status = "NORESPONSE"
            ELSE mirrors'[j].status = "RESPONSEOK" /\ mirrors'[j].ms = answer[j]
<1> DEFINE m == IF answer[j] = NoAnswer THEN [mirrors[j] EXCEPT !.status = "NORESPONSE"]
                ELSE [mirrors[j] EXCEPT !.status = "RESPONSEOK", !.ms = answer[j]]
<1>1. mirrors' = [mirrors EXCEPT ![j] = m]
  BY DEF Note
<1>2. mirrors[j] \in Mirror /\ mirrors \in [DOMAIN mirrors -> Mirror]
  BY ListFacts
<1>3. /\ m \in Mirror /\ m.name = mirrors[j].name /\ m.paths = mirrors[j].paths
      /\ IF answer[j] = NoAnswer THEN m.status = "NORESPONSE"
         ELSE m.status = "RESPONSEOK" /\ m.ms = answer[j]
  BY <1>2 DEF Mirror
<1> HIDE DEF m
<1>4. QED
  BY <1>1, <1>2, <1>3 DEF SameEntries

(* Sorting permutes the list. *)
LEMMA Sorts ==
  ASSUME ListOK, SortMirrors
  PROVE  /\ ListOK' /\ Len(mirrors') = Len(mirrors) /\ DOMAIN mirrors' = DOMAIN mirrors
         /\ Servers' = Servers /\ SortedInv'
<1> DEFINE n == Len(mirrors)
<1>1. PICK order \in SetToSeqs(DOMAIN mirrors) :
        /\ mirrors' = [j \in DOMAIN mirrors |-> mirrors[order[j]]]
        /\ \A j, g \in DOMAIN mirrors : j < g => Before(mirrors'[j], mirrors'[g])
  BY DEF SortMirrors
<1>2. /\ n \in Nat \ {0} /\ DOMAIN mirrors = 1 .. n /\ mirrors \in [1 .. n -> Mirror]
  BY ListFacts
<1>3. IsFiniteSet(1 .. n) /\ Cardinality(1 .. n) = n
  BY <1>2, FS_Interval
<1>4. /\ order \in [1 .. n -> 1 .. n]
      /\ \A j, g \in 1 .. n : j # g => order[j] # order[g]
  BY <1>1, <1>2, <1>3 DEF SetToSeqs
<1>5. \A j \in 1 .. n : \E g \in 1 .. n : order[g] = j
  <2>1. order \in Injection(1 .. n, 1 .. n)
    BY <1>4 DEF Injection, IsInjective
  <2>2. order \in Surjection(1 .. n, 1 .. n)
    BY <1>3, <2>1, FS_Injection
  <2>3. QED
    BY <2>2 DEF Surjection
<1>6. mirrors' \in [1 .. n -> Mirror] /\ \A j \in 1 .. n : mirrors'[j] = mirrors[order[j]]
  BY <1>1, <1>2, <1>4
<1>7. /\ mirrors' \in Seq(Mirror) /\ Len(mirrors') = n /\ DOMAIN mirrors' = 1 .. n
      /\ mirrors' # <<>>
  BY <1>2, <1>6, FunctionIsSeq
<1>8. \A j \in 1 .. n : mirrors'[j].paths # <<>>
  BY <1>2, <1>4, <1>6 DEF ListOK
<1>9. \A j, g \in 1 .. n : mirrors'[j].name = mirrors'[g].name => j = g
  BY <1>2, <1>4, <1>6 DEF ListOK
<1>10. Servers' = Servers
  <2>1. ASSUME NEW j \in 1 .. n PROVE mirrors'[j].name \in Servers
    BY <1>2, <1>4, <1>6, <2>1 DEF Servers
  <2>2. ASSUME NEW j \in 1 .. n PROVE \E g \in 1 .. n : mirrors'[g].name = mirrors[j].name
    <3>1. PICK g \in 1 .. n : order[g] = j
      BY <1>5
    <3>2. mirrors'[g] = mirrors[order[g]]
      BY <1>6
    <3>3. QED
      BY <3>1, <3>2
  <2>3. Servers = {mirrors[j].name : j \in 1 .. n} /\ Servers' = {mirrors'[j].name : j \in 1 .. n}
    BY <1>2, <1>7 DEF Servers
  <2>4. \A h \in Servers' : h \in Servers
    BY <2>1, <2>3
  <2>5. \A h \in Servers : h \in Servers'
    <3>1. SUFFICES ASSUME NEW j \in 1 .. n PROVE mirrors[j].name \in Servers'
      BY <2>3
    <3>2. PICK g \in 1 .. n : mirrors'[g].name = mirrors[j].name
      BY <2>2
    <3>3. QED
      BY <2>3, <3>2
  <2>6. QED
    BY <2>4, <2>5
<1>11. SortedInv'
  BY <1>1, <1>2, <1>7 DEF SortedInv, InOrder, Before
<1>12. QED
  BY <1>2, <1>7, <1>8, <1>9, <1>10, <1>11 DEF ListOK

-----------------------------------------------------------------------------
(***************************************************************************)
(* The list: what reprocess_mirror_list makes of the results.              *)
(***************************************************************************)

(* The servers and the paths are collected one result after the other.     *)
LEMMA NamesAreFolded ==
  ASSUME NEW list, NEW n \in Nat, DOMAIN list = 1 .. n
  PROVE  LET X == {list[i].server : i \in 1 .. n}
         IN  \E a : /\ a \in [0 .. n -> Seq(X)] /\ a[0] = <<>>
                    /\ \A q \in 1 .. n : a[q] = AddServer(a[q - 1], list[q])
                    /\ NamesOf(list) = a[n]
<1> DEFINE X == {list[i].server : i \in 1 .. n}
           V == Seq(X)
           D == DOMAIN list
           g == [e \in (1 .. n) \X V |-> AddServer(e[2], list[e[1]])]
           Raw(h) == h = [s \in SUBSET D |->
                            IF s = {} THEN <<>> ELSE AddServer(h[s \ {Top(s)}], list[Top(s)])]
<1>1. \A q \in 1 .. n, v \in V : AddServer(v, list[q]) \in V
  <2> SUFFICES ASSUME NEW q \in 1 .. n, NEW v \in V PROVE AddServer(v, list[q]) \in V
    OBVIOUS
  <2>1. list[q].server \in X
    OBVIOUS
  <2> HIDE DEF X
  <2> QED
    BY <2>1 DEF AddServer
<1>2. g \in [(1 .. n) \X V -> V] /\ \A q \in 1 .. n, v \in V : g[<<q, v>>] = AddServer(v, list[q])
  <2> HIDE DEF V
  <2> QED
    BY <1>1
<1>3. <<>> \in V
  <2> HIDE DEF X
  <2> QED
    OBVIOUS
<1>4. PICK f, a : LeftFolds(f, a, n, V, <<>>, g)
  <2> HIDE DEF V, g
  <2> QED
    BY <1>2, <1>3, LeftFold, Zenon
<1> HIDE DEF V, g
<1>5. Raw(f)
  <2>1. f \in [SUBSET (1 .. n) -> V] /\ f[{}] = <<>>
    BY <1>4 DEF LeftFolds, FoldsLeft
  <2>2. ASSUME NEW s \in SUBSET (1 .. n), s # {} PROVE f[s] = AddServer(f[s \ {Top(s)}], list[Top(s)])
    <3>1. Top(s) \in 1 .. n /\ f[s \ {Top(s)}] \in V
      BY <1>4, <2>1, <2>2 DEF LeftFolds
    <3>2. f[s] = g[<<Top(s), f[s \ {Top(s)}]>>]
      BY <1>4, <2>2, <3>1 DEF LeftFolds, FoldsLeft
    <3> QED
      BY <1>2, <3>1, <3>2
  <2> QED
    BY <2>1, <2>2
<1>6. PICK h : Raw(h) /\ NamesOf(list) = h[D]
  <2>1. Raw(CHOOSE h : Raw(h))
    <3> HIDE DEF Raw
    <3> QED
      BY <1>5, Zenon
  <2>2. NamesOf(list) = (CHOOSE h : Raw(h))[D]
    BY Zenon DEF NamesOf, FoldLeft, MapThenFoldSet, Max, Top
  <2> QED
    <3> HIDE DEF Raw
    <3> QED
      BY <2>1, <2>2, Zenon
<1>7. FoldsLeft(h, n, V, <<>>, g)
  <2>1. h[{}] = <<>>
    BY <1>6
  <2>2. ASSUME NEW s \in SUBSET (1 .. n), s # {}, h[s \ {Top(s)}] \in V
        PROVE  h[s] = g[<<Top(s), h[s \ {Top(s)}]>>]
    <3>1. Top(s) \in 1 .. n
      BY <1>4, <2>2 DEF LeftFolds
    <3>2. h[s] = AddServer(h[s \ {Top(s)}], list[Top(s)])
      BY <1>6, <2>2
    <3> QED
      BY <1>2, <2>2, <3>1, <3>2
  <2> QED
    BY <2>1, <2>2 DEF FoldsLeft
<1>8. h[1 .. n] = a[n] /\ Folded(a, n, V, <<>>, g)
  BY <1>4, <1>7, Zenon DEF LeftFolds
<1>9. \A q \in 1 .. n : a[q] = AddServer(a[q - 1], list[q])
  <2> SUFFICES ASSUME NEW q \in 1 .. n PROVE a[q] = AddServer(a[q - 1], list[q])
    OBVIOUS
  <2>1. a[q] = g[<<q, a[q - 1]>>] /\ q - 1 \in 0 .. n /\ a \in [0 .. n -> V]
    BY <1>8 DEF Folded
  <2>2. a[q - 1] \in V
    BY <2>1
  <2> QED
    BY <1>2, <2>1, <2>2
<1> QED
  BY <1>6, <1>8, <1>9 DEF Folded, V

(* The paths of a server after each result.                                *)
PathsGrow(a, list, n, server) ==
  /\ a \in [0 .. n -> Seq({list[i].path : i \in 1 .. n})] /\ a[0] = <<>>
  /\ \A q \in 1 .. n : a[q] = AddPath(a[q - 1], list[q], server)
  /\ PathsOf(list, server) = a[n]

LEMMA PathsAreFolded ==
  \A server, list, n : n \in Nat /\ DOMAIN list = 1 .. n => \E a : PathsGrow(a, list, n, server)
<1> SUFFICES ASSUME NEW server, NEW list, NEW n \in Nat, DOMAIN list = 1 .. n
             PROVE  \E a : PathsGrow(a, list, n, server)
  BY Zenon
<1> DEFINE X == {list[i].path : i \in 1 .. n}
           V == Seq(X)
           D == DOMAIN list
           g == [e \in (1 .. n) \X V |-> AddPath(e[2], list[e[1]], server)]
           Raw(h) == h = [s \in SUBSET D |->
                            IF s = {} THEN <<>> ELSE AddPath(h[s \ {Top(s)}], list[Top(s)], server)]
<1>1. \A q \in 1 .. n, v \in V : AddPath(v, list[q], server) \in V
  <2> SUFFICES ASSUME NEW q \in 1 .. n, NEW v \in V PROVE AddPath(v, list[q], server) \in V
    OBVIOUS
  <2>1. list[q].path \in X
    OBVIOUS
  <2> HIDE DEF X
  <2> QED
    BY <2>1 DEF AddPath
<1>2. g \in [(1 .. n) \X V -> V] /\ \A q \in 1 .. n, v \in V : g[<<q, v>>] = AddPath(v, list[q], server)
  <2> HIDE DEF V
  <2> QED
    BY <1>1
<1>3. <<>> \in V
  <2> HIDE DEF X
  <2> QED
    OBVIOUS
<1>4. PICK f, a : LeftFolds(f, a, n, V, <<>>, g)
  <2> HIDE DEF V, g
  <2> QED
    BY <1>2, <1>3, LeftFold, Zenon
<1> HIDE DEF V, g
<1>5. Raw(f)
  <2>1. f \in [SUBSET (1 .. n) -> V] /\ f[{}] = <<>>
    BY <1>4 DEF LeftFolds, FoldsLeft
  <2>2. ASSUME NEW s \in SUBSET (1 .. n), s # {} PROVE f[s] = AddPath(f[s \ {Top(s)}], list[Top(s)], server)
    <3>1. Top(s) \in 1 .. n /\ f[s \ {Top(s)}] \in V
      BY <1>4, <2>1, <2>2 DEF LeftFolds
    <3>2. f[s] = g[<<Top(s), f[s \ {Top(s)}]>>]
      BY <1>4, <2>2, <3>1 DEF LeftFolds, FoldsLeft
    <3> QED
      BY <1>2, <3>1, <3>2
  <2> QED
    BY <2>1, <2>2
<1>6. PICK h : Raw(h) /\ PathsOf(list, server) = h[D]
  <2>1. Raw(CHOOSE h : Raw(h))
    <3> HIDE DEF Raw
    <3> QED
      BY <1>5, Zenon
  <2>2. PathsOf(list, server) = (CHOOSE h : Raw(h))[D]
    BY Zenon DEF PathsOf, FoldLeft, MapThenFoldSet, Max, Top
  <2> QED
    <3> HIDE DEF Raw
    <3> QED
      BY <2>1, <2>2, Zenon
<1>7. FoldsLeft(h, n, V, <<>>, g)
  <2>1. h[{}] = <<>>
    BY <1>6
  <2>2. ASSUME NEW s \in SUBSET (1 .. n), s # {}, h[s \ {Top(s)}] \in V
        PROVE  h[s] = g[<<Top(s), h[s \ {Top(s)}]>>]
    <3>1. Top(s) \in 1 .. n
      BY <1>4, <2>2 DEF LeftFolds
    <3>2. h[s] = AddPath(h[s \ {Top(s)}], list[Top(s)], server)
      BY <1>6, <2>2
    <3> QED
      BY <1>2, <2>2, <3>1, <3>2
  <2> QED
    BY <2>1, <2>2 DEF FoldsLeft
<1>8. h[1 .. n] = a[n] /\ Folded(a, n, V, <<>>, g)
  BY <1>4, <1>7, Zenon DEF LeftFolds
<1>9. \A q \in 1 .. n : a[q] = AddPath(a[q - 1], list[q], server)
  <2> SUFFICES ASSUME NEW q \in 1 .. n PROVE a[q] = AddPath(a[q - 1], list[q], server)
    OBVIOUS
  <2>1. a[q] = g[<<q, a[q - 1]>>] /\ q - 1 \in 0 .. n /\ a \in [0 .. n -> V]
    BY <1>8 DEF Folded
  <2>2. a[q - 1] \in V
    BY <2>1
  <2> QED
    BY <1>2, <2>1, <2>2
<1> QED
  BY <1>6, <1>8, <1>9 DEF Folded, V, PathsGrow

(* A number of results names each of their servers once, and has a path    *)
(* for each.                                                               *)
LEMMA NamesDiffer ==
  ASSUME NEW list, NEW n \in Nat \ {0}, DOMAIN list = 1 .. n
  PROVE  /\ NamesOf(list) \in Seq({list[i].server : i \in 1 .. n}) /\ NamesOf(list) # <<>>
         /\ \A i, j \in DOMAIN NamesOf(list) : NamesOf(list)[i] = NamesOf(list)[j] => i = j
<1> DEFINE X == {list[i].server : i \in 1 .. n}
<1>1. PICK a : /\ a \in [0 .. n -> Seq(X)] /\ a[0] = <<>>
               /\ \A q \in 1 .. n : a[q] = AddServer(a[q - 1], list[q])
               /\ NamesOf(list) = a[n]
  BY NamesAreFolded
<1> DEFINE Good(names, q) ==
             /\ q > 0 => names # <<>>
             /\ \A i, j \in DOMAIN names : names[i] = names[j] => i = j
           P == {q \in Nat : q <= n => Good(a[q], q)}
<1>2. 0 \in P
  BY <1>1
<1>3. ASSUME NEW q \in Nat, q \in P PROVE q + 1 \in P
  <2> SUFFICES ASSUME q + 1 <= n PROVE Good(a[q + 1], q + 1)
    OBVIOUS
  <2>1. q + 1 \in 1 .. n /\ (q + 1) - 1 = q /\ q \in 0 .. n
    OBVIOUS
  <2>e. PICK e : e = list[q + 1]
    OBVIOUS
  <2>2. PICK old \in Seq(X) : old = a[q] /\ e = list[q + 1] /\ a[q + 1] = AddServer(old, e)
    <3> HIDE DEF X
    <3> QED
      BY <1>1, <2>1, <2>e
  <2>3. Good(old, q) /\ e.server \in X
    BY <1>3, <2>1, <2>2
  <2> HIDE DEF X
  <2>4. CASE Contains(old, e.server)
    <3>1. old # <<>>
      BY <2>4 DEF Contains
    <3> QED
      BY <2>2, <2>3, <2>4, <3>1 DEF AddServer
  <2>5. CASE ~Contains(old, e.server)
    <3>1. a[q + 1] = Append(old, e.server) /\ Len(old) \in Nat
      BY <2>2, <2>5 DEF AddServer
    <3>2. \A i \in 1 .. Len(old) : old[i] # e.server
      BY <2>5 DEF Contains
    <3>3. /\ DOMAIN a[q + 1] = 1 .. (Len(old) + 1) /\ a[q + 1][Len(old) + 1] = e.server
          /\ \A i \in 1 .. Len(old) : a[q + 1][i] = old[i]
      BY <2>3, <3>1
    <3>4. \A i, j \in 1 .. Len(old) : old[i] = old[j] => i = j
      BY <2>3
    <3>5. \A i, j \in 1 .. (Len(old) + 1) : a[q + 1][i] = a[q + 1][j] => i = j
      BY <3>1, <3>2, <3>3, <3>4
    <3>6. a[q + 1] # <<>>
      <4>1. Append(old, e.server) # <<>>
        OBVIOUS
      <4> QED
        BY <3>1, <4>1
    <3> QED
      BY <3>3, <3>5, <3>6
  <2> QED
    BY <2>4, <2>5
<1>4. Good(a[n], n)
  <2>1. n \in P
    <3> HIDE DEF P
    <3> QED
      BY <1>2, <1>3, NatInductive
  <2> QED
    BY <2>1
<1> QED
  BY <1>1, <1>4

(* A server among the results has a path.                                  *)
LEMMA PathsAreThere ==
  ASSUME NEW list, NEW n \in Nat, DOMAIN list = 1 .. n, NEW server, NEW w \in 1 .. n, list[w].server = server
  PROVE  PathsOf(list, server) \in Seq({list[i].path : i \in 1 .. n}) /\ PathsOf(list, server) # <<>>
<1> DEFINE X == {list[i].path : i \in 1 .. n}
<1>0. PICK a : PathsGrow(a, list, n, server)
  BY PathsAreFolded, Zenon
<1>1. /\ a \in [0 .. n -> Seq(X)] /\ a[0] = <<>>
      /\ \A q \in 1 .. n : a[q] = AddPath(a[q - 1], list[q], server)
      /\ PathsOf(list, server) = a[n]
  BY <1>0 DEF PathsGrow
<1> DEFINE P == {q \in Nat : w <= q /\ q <= n => a[q] # <<>>}
<1>2. 0 \in P
  OBVIOUS
<1>3. ASSUME NEW q \in Nat, q \in P PROVE q + 1 \in P
  <2> SUFFICES ASSUME w <= q + 1, q + 1 <= n PROVE a[q + 1] # <<>>
    OBVIOUS
  <2>1. q + 1 \in 1 .. n /\ (q + 1) - 1 = q /\ q \in 0 .. n
    OBVIOUS
  <2> HIDE DEF X
  <2>e. PICK e : e = list[q + 1]
    OBVIOUS
  <2>2. PICK old \in Seq(X) : old = a[q] /\ e = list[q + 1] /\ a[q + 1] = AddPath(old, e, server)
    BY <1>1, <2>1, <2>e
  <2>3. Append(old, e.path) # <<>>
    OBVIOUS
  <2>4. CASE w <= q
    BY <1>3, <2>1, <2>2, <2>3, <2>4 DEF AddPath
  <2>5. CASE w = q + 1
    BY <2>2, <2>3, <2>5 DEF AddPath
  <2> QED
    BY <2>4, <2>5
<1>4. n \in P
  <2> HIDE DEF P
  <2> QED
    BY <1>2, <1>3, NatInductive
<1> QED
  BY <1>1, <1>4

(* The list has an entry for each server, with its paths, none pinged yet. *)
LEMMA Grouped ==
  ASSUME NEW list \in Results
  PROVE  LET m == Reprocess(list)
         IN  /\ m \in Seq(Mirror) /\ m # <<>>
             /\ \A j \in DOMAIN m :
                  /\ m[j].paths # <<>> /\ m[j].status = "UNTESTED" /\ m[j].ms = 0
                  /\ \A g \in DOMAIN m : m[g].name = m[j].name => g = j
<1>1. PICK n \in Nat \ {0} : DOMAIN list = 1 .. n
  BY ResultsAssumption
<1>2. PICK names : names = NamesOf(list)
  OBVIOUS
<1>3. /\ names \in Seq({list[i].server : i \in 1 .. n}) /\ names # <<>>
      /\ \A i, j \in DOMAIN names : names[i] = names[j] => i = j
  BY <1>1, <1>2, NamesDiffer
<1>4. PICK m : m = Reprocess(list)
  OBVIOUS
<1>5. m = [j \in DOMAIN names |->
             [name |-> names[j], paths |-> PathsOf(list, names[j]), status |-> "UNTESTED", ms |-> 0]]
  BY <1>2, <1>4 DEF Reprocess
<1>6. PICK l \in Nat \ {0} : DOMAIN names = 1 .. l /\ \A j \in 1 .. l : \E g \in 1 .. n : names[j] = list[g].server
  <2>1. PICK X : X = {list[i].server : i \in 1 .. n}
    OBVIOUS
  <2>2. Len(names) \in Nat \ {0} /\ DOMAIN names = 1 .. Len(names) /\ \A j \in 1 .. Len(names) : names[j] \in X
    BY <1>3, <2>1
  <2> QED
    BY <2>1, <2>2
<1>7. ASSUME NEW j \in 1 .. l
      PROVE  PathsOf(list, names[j]) \in Seq(Paths) /\ PathsOf(list, names[j]) # <<>>
  <2>1. PICK g \in 1 .. n : names[j] = list[g].server
    BY <1>6
  <2>2. PICK X : X = {list[i].path : i \in 1 .. n}
    OBVIOUS
  <2>3. PathsOf(list, names[j]) \in Seq(X) /\ PathsOf(list, names[j]) # <<>>
    BY <1>1, <2>1, <2>2, PathsAreThere
  <2>4. X \subseteq Paths
    BY <1>1, <2>2 DEF Paths, Entries
  <2> QED
    BY <2>3, <2>4
<1>8. ASSUME NEW j \in 1 .. l PROVE m[j] \in Mirror
  <2>1. names[j] \in {e.server : e \in Entries}
    BY <1>1, <1>6 DEF Entries
  <2> QED
    BY <1>5, <1>6, <1>7, <2>1 DEF Mirror
<1>9. DOMAIN m = 1 .. l /\ m \in Seq(Mirror) /\ m # <<>>
  <2>1. m \in [1 .. l -> Mirror]
    BY <1>5, <1>6, <1>8
  <2> QED
    BY <2>1
<1>10. \A j \in 1 .. l : m[j].name = names[j] /\ m[j].paths = PathsOf(list, names[j])
                        /\ m[j].status = "UNTESTED" /\ m[j].ms = 0
  BY <1>5, <1>6
<1> QED
  BY <1>3, <1>4, <1>6, <1>7, <1>9, <1>10

-----------------------------------------------------------------------------
(***************************************************************************)
(* The pings.                                                              *)
(***************************************************************************)

(* Before the download only the list and the pings change. *)
Pings == ListOK /\ PingInv /\ SortedInv

LEMMA InitPings ==
  ASSUME InitMirrors
  PROVE  Pings
<1>1. PICK list \in Results : mirrors = Reprocess(list)
  BY DEF InitMirrors
<1>2. ListOK
  BY <1>1, Grouped DEF ListOK
<1>3. /\ Len(mirrors) \in Nat \ {0} /\ DOMAIN mirrors = 1 .. Len(mirrors)
  BY <1>2, ListFacts
<1>4. answer \in [DOMAIN mirrors -> Times \cup {NoAnswer}]
  BY <1>3 DEF InitMirrors
<1>5. PingInv
  BY <1>3, <1>4, MirrorsAssumption DEF InitMirrors, PingInv, hi
<1>6. QED
  BY <1>2, <1>5 DEF Pings, SortedInv, InOrder, InitMirrors

LEMMA StepPings ==
  ASSUME Pings, PingStep
  PROVE  Pings' /\ Servers' = Servers /\ phase = "ping" /\ phase' \in {"ping", "sorted"}
<1> DEFINE n == Len(mirrors)
<1> USE DEF Pings
<1>1. n \in Nat \ {0} /\ DOMAIN mirrors = 1 .. n
  BY ListFacts
<1>2. lo \in 1 .. (n + 1) /\ (step # "done" => k \in lo .. hi /\ phase = "ping")
  BY DEF PingInv
<1>3. hi \in Int /\ hi <= n /\ hi <= lo + MaxPings - 1
  BY <1>1, <1>2, MirrorsAssumption DEF hi
<1>4. CASE CreatePing
  <2>1. /\ step = "create" /\ phase = "ping" /\ UNCHANGED <<mirrors, lo, answer, phase>>
        /\ alive' = alive \cup {k} /\ hi' = hi
    BY <1>2, <1>4 DEF CreatePing, hi
  <2>2. ListOK' /\ Servers' = Servers /\ SortedInv'
    BY <2>1 DEF ListOK, Servers, SortedInv, InOrder
  <2>3. \A j \in 1 .. (lo - 1) : Noted(j)'
    BY <2>1 DEF PingInv, Noted
  <2>4. PingInv'
    <3>1. CASE k = hi
      <4>1. step' = "join" /\ k' = lo
        BY <1>4, <3>1 DEF CreatePing
      <4>2. alive' \subseteq lo .. hi
        BY <1>2, <1>3, <2>1, <3>1 DEF PingInv
      <4>3. QED
        BY <1>1, <1>2, <1>3, <2>1, <2>3, <4>1, <4>2 DEF PingInv
    <3>2. CASE k # hi
      <4>1. step' = "create" /\ k' = k + 1
        BY <1>4, <3>2 DEF CreatePing
      <4>2. alive' \subseteq lo .. (k' - 1) /\ k' \in lo .. hi
        BY <1>2, <1>3, <2>1, <3>2, <4>1 DEF PingInv
      <4>3. QED
        BY <1>1, <1>2, <1>3, <2>1, <2>3, <4>1, <4>2 DEF PingInv
    <3>3. QED
      BY <3>1, <3>2
  <2>5. QED
    BY <2>1, <2>2, <2>4
<1>5. CASE JoinPing
  <2>1. /\ step = "join" /\ phase = "ping" /\ UNCHANGED <<alive, answer, phase>>
        /\ k \notin alive /\ Note(k) /\ k \in 1 .. n
        /\ answer \in [DOMAIN mirrors -> Times \cup {NoAnswer}]
    BY <1>1, <1>2, <1>3, <1>5 DEF JoinPing, PingInv
  <2>2. SameEntries /\ \A g \in DOMAIN mirrors \ {k} : mirrors'[g] = mirrors[g]
    BY <1>1, <2>1, NoteSame
  <2>3. /\ ListOK' /\ Len(mirrors') = n /\ DOMAIN mirrors' = DOMAIN mirrors
        /\ Servers' = Servers /\ SortedInv'
    BY <2>1, <2>2, SameList DEF SortedInv, InOrder
  <2>4. \A j \in {k} : Noted(j)'
    <3>1. IF answer[k] = NoAnswer THEN mirrors'[k].status = "NORESPONSE"
          ELSE mirrors'[k].status = "RESPONSEOK" /\ mirrors'[k].ms = answer[k]
      BY <1>1, <2>1, NoteSame
    <3>2. QED
      BY <2>1, <3>1 DEF Noted
  <2>5. \A j \in 1 .. (k - 1) : Noted(j)'
    BY <1>1, <2>1, <2>2 DEF PingInv, Noted
  <2>6. \A j \in 1 .. k : Noted(j)'
    BY <2>1, <2>4, <2>5 DEF Noted
  <2>7. alive \subseteq (k + 1) .. hi
    BY <1>2, <1>3, <2>1 DEF PingInv
  <2>8. PingInv'
    <3>1. CASE k < hi
      <4>1. step' = "join" /\ k' = k + 1 /\ lo' = lo /\ hi' = hi
        BY <1>5, <2>1, <2>3, <3>1 DEF JoinPing, hi
      <4>2. QED
        BY <1>1, <1>2, <1>3, <2>1, <2>3, <2>6, <2>7, <3>1, <4>1 DEF PingInv
    <3>2. CASE ~ (k < hi)
      <4>1. /\ k' = k + 1 /\ lo' = k + 1 /\ k = hi
            /\ step' = IF k = n THEN "done" ELSE "create"
        BY <1>2, <1>3, <1>5, <3>2 DEF JoinPing
      <4>2. alive = {}
        BY <1>2, <1>3, <2>7, <4>1
      <4>3. CASE k = n
        BY <1>1, <2>1, <2>3, <2>6, <4>1, <4>2, <4>3 DEF PingInv
      <4>4. CASE k # n
        <5>1. hi' = IF (k + 1) + MaxPings - 1 < n THEN (k + 1) + MaxPings - 1 ELSE n
          BY <2>3, <4>1 DEF hi
        <5>2. k' \in lo' .. hi' /\ lo' \in 1 .. (n + 1)
          <6>1. k \in 1 .. n /\ n \in Nat \ {0} /\ k # n
            BY <1>1, <2>1, <4>4
          <6> HIDE DEF n
          <6>2. k \in 1 .. n /\ k < n
            BY <6>1
          <6>3. QED
            BY <4>1, <5>1, <6>1, <6>2, MirrorsAssumption
        <5>3. step' = "create" /\ phase' = "ping" /\ alive' = {}
              /\ answer' \in [DOMAIN mirrors' -> Times \cup {NoAnswer}]
          BY <2>1, <2>3, <4>1, <4>2, <4>4
        <5>4. \A j \in 1 .. (lo' - 1) : Noted(j)'
          <6>1. lo' - 1 = k
            BY <2>1, <4>1
          <6>2. QED
            BY <2>6, <6>1 DEF Noted
        <5>5. QED
          BY <2>3, <5>2, <5>3, <5>4 DEF PingInv
      <4>5. QED
        BY <4>3, <4>4
    <3>3. QED
      BY <3>1, <3>2
  <2>9. QED
    BY <2>1, <2>3, <2>8
<1>6. CASE SortMirrors
  <2>1. /\ ListOK' /\ Len(mirrors') = n /\ Servers' = Servers /\ SortedInv'
    BY <1>6, Sorts
  <2>2. /\ phase = "ping" /\ step = "done" /\ phase' = "sorted" /\ answer' = <<>>
        /\ UNCHANGED <<step, lo, k, alive>>
    BY <1>6 DEF SortMirrors
  <2>3. PingInv'
    BY <1>1, <2>1, <2>2 DEF PingInv
  <2>4. QED
    BY <2>1, <2>2, <2>3
<1>7. ASSUME NEW j \in DOMAIN mirrors, PingEnds(j)
      PROVE  Pings' /\ Servers' = Servers /\ phase = "ping" /\ phase' = "ping"
  <2>1. /\ j \in alive /\ alive' = alive \ {j} /\ UNCHANGED <<mirrors, step, lo, k, phase>>
    BY <1>7 DEF PingEnds
  <2>2. phase = "ping" /\ answer \in [DOMAIN mirrors -> Times \cup {NoAnswer}] /\ step # "done"
    BY <1>2, <2>1 DEF PingInv
  <2>3. PICK t \in Times \cup {NoAnswer} : answer' = [answer EXCEPT ![j] = t]
    BY <1>7 DEF PingEnds
  <2>4. /\ answer' \in [DOMAIN mirrors -> Times \cup {NoAnswer}]
        /\ \A g \in DOMAIN mirrors \ {j} : answer'[g] = answer[g]
    BY <2>2, <2>3
  <2>5. ListOK' /\ Servers' = Servers /\ SortedInv' /\ hi' = hi
    BY <2>1 DEF ListOK, Servers, SortedInv, InOrder, hi
  <2>6. PingInv'
    <3>1. CASE step = "create"
      <4>1. j >= lo
        BY <1>1, <1>2, <2>1, <3>1 DEF PingInv
      <4>2. \A g \in 1 .. (lo - 1) : Noted(g)'
        BY <1>1, <1>2, <1>3, <2>1, <2>4, <3>1, <4>1 DEF PingInv, Noted
      <4>3. QED
        BY <1>1, <1>2, <2>1, <2>2, <2>4, <2>5, <3>1, <4>2 DEF PingInv
    <3>2. CASE step = "join"
      <4>1. j >= k
        BY <1>1, <1>2, <2>1, <3>2 DEF PingInv
      <4>2. \A g \in 1 .. (k - 1) : Noted(g)'
        BY <1>1, <1>2, <1>3, <2>1, <2>4, <3>2, <4>1 DEF PingInv, Noted
      <4>3. QED
        BY <1>1, <1>2, <2>1, <2>2, <2>4, <2>5, <3>2, <4>2 DEF PingInv
    <3>3. QED
      BY <2>2, <3>1, <3>2 DEF PingInv
  <2>7. QED
    BY <2>1, <2>2, <2>5, <2>6
<1>8. QED
  BY <1>4, <1>5, <1>6, <1>7 DEF PingStep

-----------------------------------------------------------------------------
(***************************************************************************)
(* Where a listed URL stands.                                              *)
(***************************************************************************)
LEMMA Least ==
  ASSUME NEW S \in SUBSET Nat, S # {}
  PROVE  \E m \in S : \A g \in S : m <= g
<1> DEFINE R == StrictSubsetOrdering(Nat)
           T == {0 .. g : g \in S}
<1>1. T \subseteq FiniteSubsetsOf(Nat) /\ T # {}
  <2>1. ASSUME NEW g \in Nat PROVE 0 .. g \in FiniteSubsetsOf(Nat)
    BY FS_Interval, 0 .. g \subseteq Nat, IsFiniteSet(0 .. g) DEF FiniteSubsetsOf
  <2>2. QED
    BY <2>1
<1>2. IsWellFoundedOn(R, FiniteSubsetsOf(Nat))
  BY FS_StrictSubsetOrderingWellFounded
<1> HIDE DEF R
<1>3. \E x \in T : \A y \in T : ~ (<<y, x>> \in R)
  <2> HIDE DEF T
  <2>1. QED
    BY <1>1, <1>2, WFMin
<1>4. PICK m \in S : \A g \in S : ~ (<<0 .. g, 0 .. m>> \in R)
  BY <1>3
<1>5. ASSUME NEW g \in S, g < m PROVE FALSE
  <2>1. 0 .. g \subseteq 0 .. m /\ 0 .. m \subseteq Nat /\ m \in 0 .. m /\ m \notin 0 .. g
    BY <1>5
  <2>2. <<0 .. g, 0 .. m>> \in R
    BY <2>1 DEF R, StrictSubsetOrdering
  <2>3. QED
    BY <1>4, <2>2
<1>6. QED
  BY <1>5

LEMMA ServerAt ==
  ASSUME ListOK, NEW j \in DOMAIN mirrors
  PROVE  ServerPosition(mirrors[j].name) = j
BY DEF ListOK, ServerPosition

LEMMA PathAt ==
  ASSUME ListOK, NEW j \in DOMAIN mirrors, NEW q, Contains(mirrors[j].paths, q)
  PROVE  PathPosition(mirrors[j].name, q) \in DOMAIN mirrors[j].paths
<1> DEFINE paths == mirrors[j].paths
           S == {h \in DOMAIN paths : paths[h] = q}
<1>1. DOMAIN paths = 1 .. Len(paths) /\ Len(paths) \in Nat
  BY ListFacts
<1>2. PathPosition(mirrors[j].name, q) =
        CHOOSE h \in DOMAIN paths : paths[h] = q /\ \A f \in 1 .. (h - 1) : paths[f] # q
  BY ServerAt DEF PathPosition, PathsOn
<1>3. Contains(paths, q)
  OBVIOUS
<1> HIDE DEF paths
<1>4. S \in SUBSET Nat /\ S # {}
  BY <1>1, <1>3 DEF Contains
<1>5. PICK m \in S : \A h \in S : m <= h
  BY <1>4, Least
<1>6. m \in DOMAIN paths /\ paths[m] = q /\ \A f \in 1 .. (m - 1) : paths[f] # q
  BY <1>1, <1>5
<1>7. QED
  BY <1>2, <1>6 DEF paths

(* A listed URL has an entry for its server, and its directory is that of  *)
(* one of the entry's paths.                                               *)
LEMMA ListedAt ==
  ASSUME ListOK, NEW u, Listed(u)
  PROVE  /\ u.server \in Servers /\ u.path \in Dirs
         /\ u = [server |-> u.server, path |-> u.path]
         /\ ServerPosition(u.server) \in DOMAIN mirrors
         /\ mirrors[ServerPosition(u.server)].name = u.server
         /\ \E g \in DOMAIN PathsOn(u.server) : u.path = Parsed[PathsOn(u.server)[g]]
<1>0. PICK j \in DOMAIN mirrors : \E g \in DOMAIN mirrors[j].paths :
        u = [server |-> mirrors[j].name, path |-> Parsed[mirrors[j].paths[g]]]
  BY DEF Listed
<1>1. PICK g \in DOMAIN mirrors[j].paths :
        u = [server |-> mirrors[j].name, path |-> Parsed[mirrors[j].paths[g]]]
  BY <1>0
<1>2. /\ u.server = mirrors[j].name /\ u.path = Parsed[mirrors[j].paths[g]]
      /\ u = [server |-> u.server, path |-> u.path]
  BY <1>1
<1>3. ServerPosition(u.server) = j
  BY <1>2, ServerAt
<1>4. u.server \in Servers /\ u.path \in Dirs
  <2>1. mirrors[j].paths[g] \in Paths
    BY ListFacts
  <2>2. QED
    BY <1>2, <2>1 DEF Servers, Dirs
<1>5. PathsOn(u.server) = mirrors[j].paths
  BY <1>3 DEF PathsOn
<1>6. QED
  BY <1>2, <1>3, <1>4, <1>5

(* The next path of its server is listed again. *)
LEMMA ListedNext ==
  ASSUME ListOK, NEW u, Listed(u), Contains(PathsOn(u.server), u.path),
         PathPosition(u.server, u.path) < Len(PathsOn(u.server))
  PROVE  Listed([u EXCEPT !.path = Parsed[PathsOn(u.server)[PathPosition(u.server, u.path) + 1]]])
<1> DEFINE j == ServerPosition(u.server)
           paths == mirrors[j].paths
           p == PathPosition(u.server, u.path)
<1>1. j \in DOMAIN mirrors /\ mirrors[j].name = u.server /\ u = [server |-> u.server, path |-> u.path]
  BY ListedAt
<1>2. PathsOn(u.server) = paths
  BY DEF PathsOn
<1>3. DOMAIN paths = 1 .. Len(paths) /\ Len(paths) \in Nat
  BY <1>1, ListFacts
<1>4. p \in DOMAIN paths
  BY <1>1, <1>2, PathAt
<1>5. p + 1 \in DOMAIN paths
  <2>1. p < Len(paths)
    BY <1>2
  <2> HIDE DEF p, paths
  <2>2. QED
    BY <1>3, <1>4, <2>1
<1>6. [u EXCEPT !.path = Parsed[paths[p + 1]]] = [server |-> mirrors[j].name, path |-> Parsed[paths[p + 1]]]
  BY <1>1
<1>7. QED
  BY <1>1, <1>2, <1>5, <1>6 DEF Listed

-----------------------------------------------------------------------------
(***************************************************************************)
(* What a step of a thread does to its connection.                         *)
(***************************************************************************)
Has(i) == site[url[i].server].has[url[i].path]

(* The ways in which proz_ftp_get_file comes back. *)
Outcome(i, s, e) ==
  \/ s = "COMPLETED" /\ e = "OK"
  \/ /\ s \in {status[i], "CONREJECT", "LOGINFAIL", "REMOTEFATAL", "LOCALFATAL", "TIMEDOUT"}
     /\ e \in Errs \ {"none", "OK", "FTPCWDFAIL"}
  \/ s = "REMOTEFATAL" /\ e = "FTPCWDFAIL" /\ Has(i) = "nocwd"

Begins(i) ==
  /\ tpc[i] = "start" /\ status[i] # "COMPLETED"
  /\ tpc'[i] = "connect" /\ status'[i] = "CONNECTING"
  /\ err'[i] = err[i] /\ rv'[i] = rv[i]
  /\ mpc = "wait" /\ mi = i => mpc' = "next"

Advances(i) ==
  /\ tpc[i] \in Stages
  /\ \/ tpc'[i] \in {"login", "request"} /\ status'[i] \in {status[i], "LOGGININ"}
     \/ /\ tpc'[i] \in {"accept", "transfer"} /\ status'[i] \in {status[i], "DOWNLOADING"}
        /\ tpc[i] = "accept" \/ Has(i) \notin {"nocwd", "nofile"}
        /\ tpc'[i] = "accept" => status'[i] = status[i]
  /\ err'[i] = err[i] /\ rv'[i] = rv[i]

Returns(i) ==
  /\ \/ /\ tpc[i] \in Stages /\ Outcome(i, status'[i], rv'[i])
        /\ status'[i] = "COMPLETED" => tpc[i] = "transfer" \/ status[i] = "COMPLETED"
     \/ tpc[i] = "start" /\ status[i] = "COMPLETED" /\ status'[i] = "COMPLETED" /\ rv'[i] = "OK"
  /\ tpc'[i] = "return" /\ err'[i] = err[i]

EndsAttempt(i) ==
  /\ tpc[i] = "return" /\ tpc'[i] \in {"start", "ended"}
  /\ rv[i] \in Retried <=> tpc'[i] = "start"
  /\ status'[i] = status[i] /\ err'[i] = rv[i] /\ rv'[i] = "none"

OthersKeep(i) ==
  \A j \in Conn \ {i} :
    /\ status'[j] = status[j] /\ err'[j] = err[j]
    /\ tpc'[j] = tpc[j] /\ rv'[j] = rv[j]

MainKeeps(i) ==
  /\ UNCHANGED <<mirrorVars, caseVars, url, pollVars>>
  /\ others' \subseteq others \cup {url[i].server}
  /\ mpc' = mpc \/ (mpc = "wait" /\ mi = i /\ mpc' = "next" /\ Begins(i))

ThreadEffect(i) ==
  /\ Begins(i) \/ Advances(i) \/ Returns(i) \/ EndsAttempt(i)
  /\ OthersKeep(i) /\ MainKeeps(i) /\ ThreadTypes'

LEMMA SetFacts ==
  ASSUME ThreadTypes, NEW i \in Conn, NEW s \in Statuses, NEW pc \in TPcs, Set(i, s, pc)
  PROVE  /\ status'[i] = s /\ tpc'[i] = pc
         /\ status' \in [Conn -> Statuses] /\ tpc' \in [Conn -> TPcs]
         /\ \A j \in Conn \ {i} : status'[j] = status[j] /\ tpc'[j] = tpc[j]
BY DEF ThreadTypes, Set

LEMMA ReturnFacts ==
  ASSUME ThreadTypes, NEW i \in Conn, NEW s \in Statuses, NEW e \in Errs, Return(i, s, e)
  PROVE  /\ status'[i] = s /\ tpc'[i] = "return" /\ rv'[i] = e
         /\ status' \in [Conn -> Statuses] /\ tpc' \in [Conn -> TPcs] /\ rv' \in [Conn -> Errs]
         /\ \A j \in Conn \ {i} : status'[j] = status[j] /\ tpc'[j] = tpc[j] /\ rv'[j] = rv[j]
<1>1. Set(i, s, "return") /\ "return" \in TPcs
  BY DEF Return, TPcs
<1>2. QED
  BY <1>1, SetFacts DEF Return, ThreadTypes

(* What the server answers to CWD, REST and RETR, or the proxy to GET. *)
LEMMA AnswerFacts ==
  ASSUME NEW i \in Conn
  PROVE  \/ Answer(i) = "FTPCWDFAIL" /\ Has(i) = "nocwd"
         \/ Answer(i) \in {"FTPNSFOD", "CANTRESUME", "FTPRESTFAIL"}
         \/ Answer(i) = "OK" /\ Has(i) \notin {"nocwd", "nofile"}
<1> DEFINE has   == Here(i).has[url[i].path]
           rests == i > 0 \/ begun
           rest  == Here(i).rest
<1>1. Answer(i) =
        CASE proxied /\ has # "ok"                    -> "FTPNSFOD"
          [] proxied /\ has = "ok" /\ rests /\ ~rest  -> "CANTRESUME"
          [] ~proxied /\ has = "nocwd"                -> "FTPCWDFAIL"
          [] ~proxied /\ has # "nocwd" /\ rests /\ ~rest -> "FTPRESTFAIL"
          [] ~proxied /\ has = "nofile" /\ (rest \/ ~rests) -> "FTPNSFOD"
          [] OTHER -> "OK"
  BY DEF Answer
<1>2. has = Has(i)
  BY DEF Here, Host, Has
<1> HIDE DEF has, rests, rest
<1>3. CASE proxied /\ has # "ok"
  <2>1. Answer(i) = "FTPNSFOD"
    BY <1>1, <1>3, Zenon
  <2>2. QED
    BY <2>1
<1>4. CASE proxied /\ has = "ok" /\ rests /\ ~rest
  <2>1. Answer(i) = "CANTRESUME"
    BY <1>1, <1>4, Zenon
  <2>2. QED
    BY <2>1
<1>5. CASE ~proxied /\ has = "nocwd"
  <2>1. Answer(i) = "FTPCWDFAIL"
    BY <1>1, <1>5, Zenon
  <2>2. QED
    BY <1>2, <1>5, <2>1
<1>6. CASE ~proxied /\ has # "nocwd" /\ rests /\ ~rest
  <2>1. Answer(i) = "FTPRESTFAIL"
    BY <1>1, <1>6, Zenon
  <2>2. QED
    BY <2>1
<1>7. CASE ~proxied /\ has = "nofile" /\ (rest \/ ~rests)
  <2>1. Answer(i) = "FTPNSFOD"
    BY <1>1, <1>7, Zenon
  <2>2. QED
    BY <2>1
<1>8. CASE /\ ~(proxied /\ has # "ok") /\ ~(proxied /\ has = "ok" /\ rests /\ ~rest)
           /\ ~(~proxied /\ has = "nocwd") /\ ~(~proxied /\ has # "nocwd" /\ rests /\ ~rest)
           /\ ~(~proxied /\ has = "nofile" /\ (rest \/ ~rests))
  <2>1. Answer(i) = "OK"
    BY <1>1, <1>8, Zenon
  <2>2. has \notin {"nocwd", "nofile"}
    <3>1. CASE proxied
      BY <1>8, <3>1
    <3>2. CASE ~proxied
      BY <1>8, <3>2
    <3>3. QED
      BY <3>1, <3>2
  <2>3. QED
    BY <1>2, <2>1, <2>2
<1>9. QED
  BY <1>3, <1>4, <1>5, <1>6, <1>7, <1>8, Zenon

(* How an attempt breaks. *)
LEMMA BreakFacts ==
  ASSUME ThreadTypes, NEW i \in Conn, NEW b \in Breaks(i)
  PROVE  /\ tpc[i] \in Stages /\ b[1] \in Statuses /\ b[2] \in Errs
         /\ b[1] \in {status[i], "LOGINFAIL", "REMOTEFATAL", "LOCALFATAL", "TIMEDOUT"}
         /\ b[2] \in {"CONERR", "FTPERR", "FTPLOGREFUSED", "ACCEPTERR", "READERR", "FWRITEERR"}
<1>1. Breaks(i) =
        CASE tpc[i] = "connect"  -> {<<IF proxied THEN status[i] ELSE "REMOTEFATAL", "CONERR">>}
          [] tpc[i] = "login"    -> {<<"REMOTEFATAL", "FTPERR">>}
          [] tpc[i] = "request"  -> {<<"REMOTEFATAL", "FTPERR">>}
                                    \cup (IF proxied THEN {<<"LOGINFAIL", "FTPLOGREFUSED">>} ELSE {})
          [] tpc[i] = "accept"   -> {<<status[i], "ACCEPTERR">>}
          [] tpc[i] = "transfer" -> {<<"TIMEDOUT", "READERR">>, <<"REMOTEFATAL", "READERR">>,
                                     <<"LOCALFATAL", "FWRITEERR">>}
          [] OTHER               -> {}
  BY DEF Breaks
<1>2. status[i] \in Statuses
  BY DEF ThreadTypes
<1>3. CASE tpc[i] = "connect"
  <2>1. Breaks(i) = {<<IF proxied THEN status[i] ELSE "REMOTEFATAL", "CONERR">>}
    BY <1>1, <1>3
  <2>2. QED
    BY <1>2, <1>3, <2>1 DEF Stages, Statuses, Errs
<1>4. CASE tpc[i] = "login"
  <2>1. Breaks(i) = {<<"REMOTEFATAL", "FTPERR">>}
    BY <1>1, <1>4
  <2>2. QED
    BY <1>4, <2>1 DEF Stages, Statuses, Errs
<1>5. CASE tpc[i] = "request"
  <2>1. b \in {<<"REMOTEFATAL", "FTPERR">>, <<"LOGINFAIL", "FTPLOGREFUSED">>}
    BY <1>1, <1>5
  <2>2. QED
    BY <1>5, <2>1 DEF Stages, Statuses, Errs
<1>6. CASE tpc[i] = "accept"
  <2>1. Breaks(i) = {<<status[i], "ACCEPTERR">>}
    BY <1>1, <1>6
  <2>2. QED
    BY <1>2, <1>6, <2>1 DEF Stages, Statuses, Errs
<1>7. CASE tpc[i] = "transfer"
  <2>1. b \in {<<"TIMEDOUT", "READERR">>, <<"REMOTEFATAL", "READERR">>, <<"LOCALFATAL", "FWRITEERR">>}
    BY <1>1, <1>7
  <2>2. QED
    BY <1>7, <2>1 DEF Stages, Statuses, Errs
<1>8. CASE tpc[i] \notin {"connect", "login", "request", "accept", "transfer"}
  <2>1. Breaks(i) = {}
    BY <1>1, <1>8
  <2>2. QED
    BY <2>1
<1>9. QED
  BY <1>3, <1>4, <1>5, <1>6, <1>7, <1>8

LEMMA ThreadSteps ==
  ASSUME ThreadTypes, NEW i \in Conn, Thread(i) \/ Break(i)
  PROVE  ThreadEffect(i)
<1> USE DEF ThreadEffect, OthersKeep, MainKeeps, ThreadOnly
<1> DEFINE Kept == UNCHANGED <<mirrorVars, caseVars, others, url, pollVars>>
<1>1. /\ {"COMPLETED", "CONNECTING", "CONREJECT", "LOGGININ", "LOGINFAIL", "REMOTEFATAL",
          "DOWNLOADING"} \subseteq Statuses
      /\ {"OK", "FTPCONREFUSED", "FTPLOGREFUSED", "FTPCWDFAIL", "FTPRESTFAIL", "FTPNSFOD",
          "CANTRESUME", "none"} \subseteq Errs
      /\ {"connect", "login", "request", "accept", "transfer", "return"} \subseteq TPcs
  BY DEF Statuses, Errs, TPcs
<1>2. ASSUME NEW s \in Statuses, NEW e \in Errs, Return(i, s, e), UNCHANGED <<err, mpc>>, Kept,
             tpc[i] \in Stages, Outcome(i, s, e),
             s = "COMPLETED" => tpc[i] = "transfer" \/ status[i] = "COMPLETED",
             begun' \in BOOLEAN, faults' \in 0 .. MaxFaults
      PROVE  ThreadEffect(i)
  <2>1. Returns(i)
    BY <1>2, ReturnFacts DEF Returns
  <2>2. QED
    BY <1>2, <2>1, ReturnFacts DEF ThreadTypes
<1>3. ASSUME NEW s \in Statuses, NEW pc \in TPcs, Set(i, s, pc), UNCHANGED <<err, rv, mpc, begun, faults>>,
             Kept, tpc[i] \in Stages,
             \/ pc \in {"login", "request"} /\ s \in {status[i], "LOGGININ"}
             \/ /\ pc \in {"accept", "transfer"} /\ s \in {status[i], "DOWNLOADING"}
                /\ tpc[i] = "accept" \/ Has(i) \notin {"nocwd", "nofile"}
                /\ pc = "accept" => s = status[i]
      PROVE  ThreadEffect(i)
  <2>1. Advances(i)
    BY <1>3, SetFacts DEF Advances
  <2>2. QED
    BY <1>3, <2>1, SetFacts DEF ThreadTypes
<1>4. CASE Start(i)
  <2>1. tpc[i] = "start" /\ UNCHANGED <<err, begun, faults>> /\ Kept
    BY <1>4 DEF Start
  <2>2. CASE status[i] = "COMPLETED"
    <3>1. Return(i, "COMPLETED", "OK") /\ UNCHANGED mpc
      BY <1>4, <2>2 DEF Start
    <3>2. Returns(i)
      BY <1>1, <2>1, <2>2, <3>1, ReturnFacts DEF Returns
    <3>3. QED
      BY <1>1, <2>1, <3>1, <3>2, ReturnFacts DEF ThreadTypes
  <2>3. CASE status[i] # "COMPLETED"
    <3>1. Set(i, "CONNECTING", "connect") /\ UNCHANGED rv
          /\ mpc' = IF mpc = "wait" /\ mi = i THEN "next" ELSE mpc
      BY <1>4, <2>3 DEF Start
    <3>2. Begins(i)
      BY <1>1, <2>1, <2>3, <3>1, SetFacts DEF Begins
    <3>3. QED
      BY <1>1, <2>1, <3>1, <3>2, SetFacts DEF ThreadTypes
  <2>4. QED
    BY <2>2, <2>3
<1>a. ASSUME tpc' = [tpc EXCEPT ![i] = "request"], UNCHANGED <<status, rv>>, tpc[i] \in Stages,
             UNCHANGED <<err, begun, mpc, faults>>, Kept
      PROVE  ThreadEffect(i)
  <2>1. Set(i, status[i], "request") /\ status[i] \in Statuses
    BY <1>a DEF Set, ThreadTypes
  <2>2. QED
    BY <1>1, <1>3, <1>a, <2>1
<1>5. CASE Connect(i)
  <2>1. tpc[i] \in Stages /\ UNCHANGED <<err, begun, mpc, faults>> /\ Kept
    BY <1>5 DEF Connect, Stages
  <2>2. CASE Return(i, "CONREJECT", "FTPCONREFUSED")
    BY <1>1, <1>2, <2>1, <2>2 DEF Outcome, ThreadTypes
  <2>3. CASE Set(i, "LOGGININ", "login") /\ UNCHANGED rv
    BY <1>1, <1>3, <2>1, <2>3
  <2>4. CASE tpc' = [tpc EXCEPT ![i] = "request"] /\ UNCHANGED <<status, rv>>
    BY <1>a, <2>1, <2>4
  <2>5. QED
    BY <1>5, <2>2, <2>3, <2>4 DEF Connect
<1>6. CASE Login(i)
  <2>1. tpc[i] \in Stages /\ UNCHANGED <<err, begun, mpc, faults>> /\ Kept
    BY <1>6 DEF Login, Stages
  <2>2. CASE Return(i, "LOGINFAIL", "FTPLOGREFUSED")
    BY <1>1, <1>2, <2>1, <2>2 DEF Outcome, ThreadTypes
  <2>3. CASE tpc' = [tpc EXCEPT ![i] = "request"] /\ UNCHANGED <<status, rv>>
    BY <1>a, <2>1, <2>3
  <2>4. QED
    BY <1>6, <2>2, <2>3 DEF Login
<1>7. CASE Request(i)
  <2>1. tpc[i] \in Stages /\ UNCHANGED <<err, begun, mpc, faults>> /\ Kept
    BY <1>7 DEF Request, Stages
  <2>2. CASE Answer(i) # "OK"
    <3>1. Return(i, "REMOTEFATAL", Answer(i))
      BY <1>7, <2>2 DEF Request
    <3>2. Answer(i) \in Errs /\ Outcome(i, "REMOTEFATAL", Answer(i))
      BY <1>1, <2>2, AnswerFacts DEF Outcome, Errs
    <3>3. QED
      BY <1>1, <1>2, <2>1, <3>1, <3>2 DEF ThreadTypes
  <2>3. CASE Answer(i) = "OK"
    <3>1. Has(i) \notin {"nocwd", "nofile"}
      BY <2>3, AnswerFacts
    <3>2. UNCHANGED rv
      BY <1>7, <2>3 DEF Request
    <3>3. CASE Set(i, "DOWNLOADING", "transfer")
      BY <1>1, <1>3, <2>1, <3>1, <3>2, <3>3
    <3>4. CASE tpc' = [tpc EXCEPT ![i] = "accept"] /\ UNCHANGED status
      <4>1. Set(i, status[i], "accept") /\ status[i] \in Statuses
        BY <3>4 DEF Set, ThreadTypes
      <4>2. QED
        BY <1>1, <1>3, <2>1, <3>1, <3>2, <4>1
    <3>5. QED
      BY <1>7, <2>3, <3>3, <3>4 DEF Request
  <2>4. QED
    BY <2>2, <2>3
<1>b. CASE Accept(i)
  <2>1. tpc[i] = "accept" /\ Set(i, "DOWNLOADING", "transfer")
        /\ UNCHANGED <<err, rv, begun, mpc, faults>> /\ Kept
    BY <1>b DEF Accept
  <2>2. tpc[i] \in Stages
    BY <2>1 DEF Stages
  <2>3. QED
    BY <1>1, <1>3, <2>1, <2>2
<1>8. CASE Finish(i)
  <2>1. tpc[i] = "transfer" /\ UNCHANGED <<err, begun, mpc, faults>> /\ Kept
        /\ Return(i, "COMPLETED", "OK")
    BY <1>8 DEF Finish
  <2>2. QED
    BY <1>1, <1>2, <2>1 DEF Outcome, ThreadTypes, Stages
<1>9. CASE Break(i)
  <2>1. /\ UNCHANGED <<err, mpc>> /\ Kept
        /\ faults < MaxFaults /\ faults' = faults + 1
        /\ begun' \in IF i = 0 /\ tpc[i] = "transfer" THEN {begun, TRUE} ELSE {begun}
    BY <1>9 DEF Break
  <2>2. faults' \in 0 .. MaxFaults
    BY <2>1, SwitchingAssumption DEF ThreadTypes
  <2>3. begun' \in BOOLEAN
    BY <2>1 DEF ThreadTypes
  <2>4. PICK b \in Breaks(i) : Return(i, b[1], b[2])
    BY <1>9 DEF Break
  <2>5. Outcome(i, b[1], b[2]) /\ (b[1] = "COMPLETED" => status[i] = "COMPLETED")
    BY <2>4, BreakFacts DEF Outcome, Errs
  <2>6. QED
    BY <1>2, <2>1, <2>2, <2>3, <2>4, <2>5, BreakFacts
<1>10. CASE EndAttempt(i)
  <2>1. /\ tpc[i] = "return" /\ UNCHANGED <<status, begun, mpc, faults>>
        /\ UNCHANGED <<mirrorVars, caseVars, url, pollVars>>
        /\ others' \subseteq others \cup {url[i].server}
        /\ err' = [err EXCEPT ![i] = rv[i]] /\ rv' = [rv EXCEPT ![i] = "none"]
        /\ tpc' = [tpc EXCEPT ![i] = IF rv[i] \in Retried THEN "start" ELSE "ended"]
    BY <1>10 DEF EndAttempt, Host
  <2>2. EndsAttempt(i)
    BY <2>1 DEF EndsAttempt, ThreadTypes
  <2>3. ThreadTypes'
    BY <1>1, <2>1 DEF ThreadTypes, TPcs
  <2>4. QED
    BY <2>1, <2>2, <2>3 DEF ThreadTypes
<1>11. QED
  BY <1>4, <1>5, <1>6, <1>7, <1>b, <1>8, <1>9, <1>10 DEF Thread

-----------------------------------------------------------------------------
(***************************************************************************)
(* A step of a thread keeps the invariant.                                 *)
(***************************************************************************)
LEMMA ThreadIInv ==
  ASSUME IInv, NEW i \in Conn, ThreadEffect(i)
  PROVE  IInv'
<1> USE DEF IInv
<1>1. /\ UNCHANGED <<mirrors, step, lo, k, alive, answer, phase, site, logged, url>>
      /\ UNCHANGED <<mi, mj, why, goal, waits, dling, again, maxSimul, result>>
      /\ mpc' = mpc \/ (mpc = "wait" /\ mpc' = "next")
      /\ others' \subseteq others \cup {url[i].server}
  BY DEF ThreadEffect, MainKeeps, mirrorVars, caseVars, pollVars
<1>2. \A j \in Conn \ {i} :
        status'[j] = status[j] /\ err'[j] = err[j] /\ tpc'[j] = tpc[j] /\ rv'[j] = rv[j]
  BY DEF ThreadEffect, OthersKeep
<1>3. tpc[i] \notin AtRest \cup {"off"} /\ tpc'[i] \notin {"off", "cancelled"}
  BY DEF ThreadEffect, Begins, Advances, Returns, EndsAttempt, Stages, AtRest
<1>4. phase = "run" /\ mpc # "returned" /\ result = "none"
  BY <1>3 DEF PhaseInv, MainPlaced
<1>5. status[i] = "COMPLETED" => status'[i] = "COMPLETED"
  BY DEF ThreadEffect, Begins, Advances, Returns, EndsAttempt, CompletedRests, Stages
<1>6. ListOK' /\ PingInv' /\ SortedInv' /\ ThreadTypes'
  BY <1>1 DEF ListOK, PingInv, SortedInv, InOrder, Noted, hi, Before, ThreadEffect
<1>7. MainTypes' /\ PlaceTypes'
  <2>1. url[i].server \in Servers
    BY <1>4, ListedAt DEF PhaseInv
  <2>2. MainTypes'
    BY <1>1 DEF MainTypes, Servers, MainPcs
  <2>3. PlaceTypes'
    BY <1>1, <2>1 DEF PlaceTypes, Servers
  <2>4. QED
    BY <2>2, <2>3
<1>8. PhaseInv'
  <2>1. \A j \in Conn : tpc'[j] = "off" <=> phase' # "run"
    BY <1>1, <1>2, <1>3, <1>4 DEF PhaseInv
  <2>2. phase' = "run" => \A j \in Conn : Listed(url[j])'
    BY <1>1 DEF PhaseInv, Listed
  <2>3. \A j \in logged : status'[j] = "COMPLETED"
    BY <1>2, <1>4, <1>5 DEF PhaseInv, PlaceTypes
  <2>4. QED
    BY <1>1, <1>4, <2>1, <2>2, <2>3 DEF PhaseInv
<1>9. MainPlaced'
  <2>1. mpc' = "join" => Listed(goal)'
    BY <1>1 DEF MainPlaced, Listed
  <2>2. mpc' = "finish" => \A j \in Conn : status'[j] = "COMPLETED"
    BY <1>1, <1>2, <1>5 DEF MainPlaced, AllStatus
  <2>3. /\ mpc' \in Handling => mi' < N
        /\ mpc' \in Handling \ {"next"} => mi' \notin logged'
    BY <1>1 DEF MainPlaced, Handling, MainPcs
  <2>4. \A j \in Conn : tpc'[j] # "cancelled"
    BY <1>2, <1>3, <1>4 DEF MainPlaced
  <2>5. QED
    BY <1>1, <1>4, <2>1, <2>2, <2>3, <2>4 DEF MainPlaced, AllStatus
<1>10. CompletedRests'
  <2>1. status'[i] = "COMPLETED" =>
          \/ tpc'[i] \in {"start", "cancelled"}
          \/ tpc'[i] = "return" /\ rv'[i] = "OK"
          \/ tpc'[i] = "ended" /\ err'[i] = "OK"
    <3>1. CASE Begins(i) \/ Advances(i)
      BY <3>1 DEF Begins, Advances, CompletedRests, Stages
    <3>2. CASE Returns(i)
      BY <3>2 DEF Returns, Outcome, CompletedRests, Stages
    <3>3. CASE EndsAttempt(i)
      BY <3>3 DEF EndsAttempt, CompletedRests
    <3>4. QED
      BY <3>1, <3>2, <3>3 DEF ThreadEffect
  <2>2. QED
    BY <1>2, <2>1 DEF CompletedRests
<1>11. QED
  BY <1>6, <1>7, <1>8, <1>9, <1>10

-----------------------------------------------------------------------------
(***************************************************************************)
(* What a step of the main thread does.                                    *)
(***************************************************************************)
mainKeeps == <<mirrorVars, caseVars, others, status, err, rv, begun, faults>>

Cancels ==
  /\ mpc' = "returned" /\ result' \in Aborts
  /\ tpc' = [i \in Conn |-> "cancelled"] /\ UNCHANGED <<url, why>>

Relaunches ==
  /\ mpc = "join" /\ tpc[mi] = "ended" /\ mpc' = IF waits THEN "wait" ELSE "next"
  /\ tpc' = [tpc EXCEPT ![mi] = "start"] /\ url' = [url EXCEPT ![mi] = goal]
  /\ UNCHANGED pollVars

(* The URL that the thread of mi is relaunched with. *)
Aims ==
  \/ goal' = url[mi] /\ waits'
  \/ /\ mpc = "path" /\ (why = "FTPNSFOD" => waits')
     /\ LET paths == PathsOn(url[mi].server)
            p     == PathPosition(url[mi].server, url[mi].path)
        IN /\ Contains(paths, url[mi].path) /\ p < Len(paths)
           /\ goal' = [url[mi] EXCEPT !.path = Parsed[paths[p + 1]]]
  \/ mpc = "switch" /\ waits' /\ \E j \in Usable : goal' = url[j]

(* Where the main thread goes without touching a thread, and why. *)
Walks ==
  /\ UNCHANGED <<tpc, url>>
  /\ \/ mpc = "poll" /\ mpc' = "scan" /\ UNCHANGED <<why, result>>
     \/ mpc = "poll" /\ mpc' = "finish" /\ AllStatus("COMPLETED") /\ UNCHANGED <<why, result>>
     \/ /\ mpc = "finish" /\ mpc' = "returned" /\ result' = "DLDONE" /\ UNCHANGED why
        /\ \A i \in Conn : tpc[i] = "ended"
     \/ mpc = "scan" /\ mi = N /\ mpc' = "poll" /\ UNCHANGED <<why, result>>
     \/ mpc = "next" /\ mpc' = "scan" /\ why' = "none" /\ UNCHANGED result
     \/ /\ mpc = "scan" /\ mi < N /\ mpc' \in {"readerr", "localfatal", "same", "next"}
        /\ why' = status[mi] /\ UNCHANGED <<mi, result>>
     \/ /\ mpc = "readerr" /\ why' = err[mi] /\ UNCHANGED <<mi, result>>
        /\ mpc' = "next" \/ (mpc' = "all" /\ why' \in {"FTPNSFOD", "FTPCWDFAIL", "FTPRESTFAIL"})
     \/ /\ mpc = "all" /\ UNCHANGED <<mi, why, result>>
        /\ mpc' \in {"all", "switch"} \/ (mpc' = "path" /\ why # "FTPRESTFAIL")
     \/ /\ mpc \in {"path", "switch", "same", "count", "connecting", "loggingin"}
        /\ UNCHANGED <<mi, why, result>>
        /\ \/ mpc' \in {"switch", "count", "connecting", "loggingin", "next"}
           \/ mpc' = "join" /\ Aims

LEMMA StopFacts ==
  ASSUME NEW r, Stop(r)
  PROVE  /\ UNCHANGED mainKeeps /\ UNCHANGED <<url, mi, mj, why, goal, waits, dling, again, maxSimul>>
         /\ tpc' = [i \in Conn |-> "cancelled"]
         /\ mpc' = "returned" /\ result' = r
BY DEF Stop, mainKeeps

LEMMA ReadStatusFacts ==
  ASSUME ReadStatus
  PROVE  mpc' \in {"readerr", "localfatal", "same", "next"}
<1>1. mpc' = CASE status[mi] = "REMOTEFATAL"                -> "readerr"
               [] status[mi] = "LOCALFATAL"                 -> "localfatal"
               [] status[mi] \in {"LOGINFAIL", "CONREJECT"} -> "same"
               [] OTHER                                     -> "next"
  BY DEF ReadStatus
<1>2. CASE status[mi] = "REMOTEFATAL"
  BY <1>1, <1>2, Zenon
<1>3. CASE status[mi] = "LOCALFATAL"
  BY <1>1, <1>3, Zenon
<1>4. CASE status[mi] \in {"LOGINFAIL", "CONREJECT"}
  BY <1>1, <1>4, Zenon
<1>5. CASE status[mi] \notin {"REMOTEFATAL", "LOCALFATAL", "LOGINFAIL", "CONREJECT"}
  BY <1>1, <1>5, Zenon
<1>6. QED
  BY <1>2, <1>3, <1>4, <1>5

(* A completed connection is not handled. *)
LEMMA ScanStops ==
  ASSUME Main, mpc = "scan", mpc' \in {"readerr", "localfatal", "same"}
  PROVE  status[mi] # "COMPLETED"
<1>1. ReadStatus
  BY DEF Main, Poll, JoinAll, NextConn, EndOfPoll, StopLocalFatal, ReadErr, AllErrs,
         NextPath, Switch, AllSame, CountDownloading, CountBusy, Relaunch
<1>2. mpc' = CASE status[mi] = "REMOTEFATAL"                -> "readerr"
               [] status[mi] = "LOCALFATAL"                 -> "localfatal"
               [] status[mi] \in {"LOGINFAIL", "CONREJECT"} -> "same"
               [] OTHER                                     -> "next"
  BY <1>1 DEF ReadStatus
<1>3. SUFFICES ASSUME status[mi] = "COMPLETED" PROVE mpc' = "next"
  OBVIOUS
<1>4. QED
  BY <1>2, <1>3

LEMMA MainSteps ==
  ASSUME Main
  PROVE  UNCHANGED mainKeeps /\ (Cancels \/ Relaunches \/ Walks)
<1> USE DEF mainKeeps, threadVars, MainOnly, pollVars
<1>1. CASE Poll
  BY <1>1 DEF Poll, Walks
<1>2. CASE JoinAll
  BY <1>2 DEF JoinAll, Walks
<1>3. CASE ReadStatus
  <2>1. UNCHANGED <<mi, result>> /\ MainOnly /\ mpc = "scan" /\ mi < N /\ why' = status[mi]
    BY <1>3 DEF ReadStatus
  <2>2. QED
    BY <1>3, <2>1, ReadStatusFacts DEF Walks
<1>4. CASE NextConn
  BY <1>4 DEF NextConn, Walks
<1>5. CASE EndOfPoll
  BY <1>5 DEF EndOfPoll, Walks
<1>a. ASSUME NEW r \in Aborts, Stop(r) PROVE UNCHANGED mainKeeps /\ Cancels
  BY <1>a, StopFacts DEF Cancels
<1>6. CASE StopLocalFatal
  BY <1>6, <1>a DEF StopLocalFatal, Aborts
<1>7. CASE ReadErr
  <2>1. CASE err[mi] = "CANTRESUME"
    BY <1>7, <1>a, <2>1 DEF ReadErr, Aborts
  <2>2. CASE err[mi] # "CANTRESUME"
    BY <1>7, <2>2 DEF ReadErr, Walks
  <2>3. QED
    BY <2>1, <2>2
<1>8. CASE AllErrs
  <2>1. CASE mj = N
    BY <1>8, <1>a, <2>1 DEF AllErrs, Aborts
  <2>2. CASE mj # N
    BY <1>8, <2>2 DEF AllErrs, Walks
  <2>3. QED
    BY <2>1, <2>2
<1>9. CASE NextPath
  <2> DEFINE paths == PathsOn(Host(mi))
  <2>1. CASE ~Contains(paths, url[mi].path)
    BY <1>9, <1>a, <2>1 DEF NextPath, Aborts
  <2>2. CASE Contains(paths, url[mi].path)
    <3>1. mpc = "path" /\ FollowIn(paths)
      BY <1>9, <2>2 DEF NextPath
    <3>2. UNCHANGED <<mi, mj, why, result>> /\ MainOnly
      BY <3>1 DEF FollowIn
    <3>3. mpc' = "switch" \/ (mpc' = "join" /\ Aims)
      BY <2>2, <3>1 DEF FollowIn, Aims, Host
    <3>4. QED
      BY <3>1, <3>2, <3>3 DEF Walks
  <2>3. QED
    BY <2>1, <2>2
<1>10. CASE Switch
  <2>1. /\ mpc = "switch" /\ UNCHANGED <<mi, mj, why, result>> /\ MainOnly
    BY <1>10 DEF Switch
  <2>2. mpc' \in {"count", "next"} \/ (mpc' = "join" /\ Aims)
    BY <1>10 DEF Switch, Aims
  <2>3. QED
    BY <2>1, <2>2 DEF Walks
<1>11. CASE AllSame
  <2>1. /\ mpc = "same" /\ UNCHANGED <<mi, mj, why, result>> /\ MainOnly
    BY <1>11 DEF AllSame
  <2>2. mpc' = "switch" \/ (mpc' = "join" /\ Aims)
    BY <1>11 DEF AllSame, Aims
  <2>3. QED
    BY <2>1, <2>2 DEF Walks
<1>12. CASE CountDownloading
  BY <1>12 DEF CountDownloading, Walks
<1>13. CASE CountBusy
  <2>1. /\ mpc \in {"connecting", "loggingin"} /\ UNCHANGED <<mi, mj, why, result>> /\ MainOnly
    BY <1>13 DEF CountBusy
  <2>2. mpc' \in {"connecting", "loggingin", "next"} \/ (mpc' = "join" /\ Aims)
    BY <1>13 DEF CountBusy, Aims
  <2>3. QED
    BY <2>1, <2>2 DEF Walks
<1>14. CASE Relaunch
  BY <1>14 DEF Relaunch, Relaunches
<1>15. QED
  BY <1>1, <1>2, <1>3, <1>4, <1>5, <1>6, <1>7, <1>8, <1>9, <1>10, <1>11, <1>12, <1>13, <1>14
     DEF Main

(* What the main thread aims at is listed. *)
LEMMA AimsAtListed ==
  ASSUME IInv, Aims, mpc \in Handling
  PROVE  Listed(goal')
<1>1. mi \in Conn /\ phase = "run"
  BY MirrorsAssumption DEF IInv, MainPlaced, MainTypes, PhaseInv, Conn, Handling
<1>2. \A i \in Conn : Listed(url[i])
  BY <1>1 DEF IInv, PhaseInv
<1>3. CASE \E j \in Usable : goal' = url[j]
  BY <1>2, <1>3 DEF Usable
<1>4. CASE LET paths == PathsOn(url[mi].server)
               p     == PathPosition(url[mi].server, url[mi].path)
           IN /\ Contains(paths, url[mi].path) /\ p < Len(paths)
              /\ goal' = [url[mi] EXCEPT !.path = Parsed[paths[p + 1]]]
  BY <1>1, <1>2, <1>4, ListedNext DEF IInv
<1>5. QED
  BY <1>1, <1>2, <1>3, <1>4 DEF Aims

-----------------------------------------------------------------------------
(***************************************************************************)
(* A step of the main thread keeps the invariant.                          *)
(***************************************************************************)
LEMMA CountType ==
  ASSUME NEW S, S \subseteq Conn
  PROVE  Cardinality(S) \in 0 .. N
<1>1. IsFiniteSet(Conn) /\ Cardinality(Conn) = N
  BY FS_Interval, MirrorsAssumption DEF Conn
<1>2. IsFiniteSet(S) /\ Cardinality(S) <= Cardinality(Conn)
  BY <1>1, FS_Subset
<1>3. QED
  BY <1>1, <1>2, FS_CardinalityType, MirrorsAssumption

LEMMA MainTyped ==
  ASSUME ThreadTypes, MainTypes, mpc \in Handling => mi < N, Main
  PROVE  MainTypes'
<1> USE DEF threadVars, MainOnly, mirrorVars
<1>1. /\ MainPcs = {"off", "poll", "finish", "scan", "next", "readerr", "localfatal", "all", "path",
            "switch", "same", "count", "connecting", "loggingin", "join", "wait", "returned"}
      /\ "none" \in Errs /\ N \in Nat \ {0}
  BY MirrorsAssumption DEF MainPcs, Errs
<1>2. mi < N => status[mi] \in Statuses /\ err[mi] \in Errs
  BY <1>1 DEF ThreadTypes, MainTypes, Conn
<1>3. UNCHANGED mirrors
  BY MainSteps DEF mainKeeps
<1>4. CASE Poll \/ JoinAll \/ EndOfPoll
  BY <1>1, <1>3, <1>4 DEF Poll, JoinAll, EndOfPoll, MainTypes, Servers
<1>5. CASE ReadStatus
  BY <1>1, <1>2, <1>3, <1>5, ReadStatusFacts DEF ReadStatus, MainTypes, Servers
<1>6. CASE NextConn
  <2>1. /\ mpc' \in MainPcs /\ mi' \in 0 .. N /\ mj' \in 0 .. N /\ dling' \in 0 .. N
        /\ why' \in Statuses \cup Errs /\ UNCHANGED <<maxSimul, result>>
    BY <1>1, <1>6 DEF NextConn, MainTypes, Handling
  <2>2. again' \in BOOLEAN /\ waits' \in BOOLEAN
    BY <1>6 DEF NextConn
  <2>3. QED
    BY <1>3, <2>1, <2>2 DEF MainTypes, Servers
<1>7. ASSUME NEW r \in Aborts, Stop(r)
      PROVE  MainTypes'
  BY <1>1, <1>3, <1>7, StopFacts DEF MainTypes, Servers
<1>8. CASE StopLocalFatal
  BY <1>7, <1>8 DEF StopLocalFatal, Aborts
<1>9. CASE ReadErr
  <2>1. CASE err[mi] = "CANTRESUME"
    BY <1>7, <1>9, <2>1 DEF ReadErr, Aborts
  <2>2. CASE err[mi] # "CANTRESUME"
    BY <1>1, <1>2, <1>3, <1>9, <2>2 DEF ReadErr, MainTypes, Servers, Handling
  <2>3. QED
    BY <2>1, <2>2
<1>10. CASE AllErrs
  <2>1. CASE mj = N
    BY <1>7, <1>10, <2>1 DEF AllErrs, Aborts
  <2>2. CASE mj # N
    <3>1. mj + 1 \in 0 .. N
      BY <1>1, <2>2 DEF MainTypes
    <3>2. QED
      BY <1>1, <1>3, <1>10, <2>2, <3>1 DEF AllErrs, MainTypes, Servers
  <2>3. QED
    BY <2>1, <2>2
<1>11. CASE NextPath
  <2> DEFINE paths == PathsOn(Host(mi))
  <2>1. CASE ~Contains(paths, url[mi].path)
    BY <1>7, <1>11, <2>1 DEF NextPath, Aborts
  <2>2. CASE Contains(paths, url[mi].path)
    <3>1. FollowIn(paths)
      BY <1>11, <2>2 DEF NextPath
    <3>2. UNCHANGED <<mi, mj, why, dling, again, maxSimul, result>> /\ mpc' \in MainPcs
      BY <1>1, <3>1 DEF FollowIn
    <3>3. waits' \in BOOLEAN
      BY <3>1 DEF FollowIn, MainTypes
    <3>4. QED
      BY <1>3, <3>2, <3>3 DEF MainTypes, Servers
  <2>3. QED
    BY <2>1, <2>2
<1>12. CASE Switch \/ AllSame
  <2>1. UNCHANGED <<mi, mj, why, dling, again, maxSimul, result>> /\ mpc' \in MainPcs
    BY <1>1, <1>12 DEF Switch, AllSame
  <2>2. waits' \in BOOLEAN
    BY <1>12 DEF Switch, AllSame, MainTypes
  <2>3. QED
    BY <1>3, <2>1, <2>2 DEF MainTypes, Servers
<1>13. CASE CountDownloading
  <2> DEFINE c == CountOn(Host(mi), "DOWNLOADING")
  <2>1. c \in 0 .. N
    BY CountType DEF CountOn
  <2>2. UNCHANGED <<mi, mj, why, goal, waits, again, result>> /\ mpc' \in MainPcs /\ dling' \in 0 .. N
    BY <1>1, <1>13, <2>1 DEF CountDownloading
  <2>3. maxSimul' \in [Servers -> 0 .. N]
    BY <1>13, <2>1 DEF CountDownloading, MainTypes
  <2>4. QED
    BY <1>3, <2>2, <2>3 DEF MainTypes, Servers
<1>14. CASE CountBusy
  <2>1. UNCHANGED <<mi, mj, why, dling, maxSimul, result>> /\ mpc' \in MainPcs
    BY <1>1, <1>14 DEF CountBusy
  <2>2. waits' \in BOOLEAN /\ again' \in BOOLEAN
    BY <1>14 DEF CountBusy, MainTypes
  <2>3. QED
    BY <1>3, <2>1, <2>2 DEF MainTypes, Servers
<1>15. CASE Relaunch
  BY <1>1, <1>3, <1>15 DEF Relaunch, pollVars, MainTypes, Servers
<1>16. QED
  BY <1>4, <1>5, <1>6, <1>8, <1>9, <1>10, <1>11, <1>12, <1>13, <1>14, <1>15 DEF Main

LEMMA MainIInv ==
  ASSUME IInv, Main
  PROVE  IInv'
<1> USE DEF IInv, mainKeeps
<1>1. /\ UNCHANGED <<mirrors, step, lo, k, alive, answer, phase, site, logged, others>>
      /\ UNCHANGED <<status, err, rv, begun, faults>>
      /\ Cancels \/ Relaunches \/ Walks
  BY MainSteps DEF mirrorVars, caseVars
<1>2. mpc # "off" /\ phase = "run" /\ mpc # "returned" /\ mpc # "wait"
  <2>1. mpc # "off" /\ mpc # "returned" /\ mpc # "wait"
    BY DEF Main, Poll, JoinAll, ReadStatus, NextConn, EndOfPoll, StopLocalFatal, ReadErr, AllErrs,
           NextPath, Switch, AllSame, CountDownloading, CountBusy, Relaunch
  <2>2. QED
    BY <2>1 DEF PhaseInv
<1>3. ListOK' /\ PingInv' /\ SortedInv'
  BY <1>1 DEF ListOK, PingInv, SortedInv, InOrder, Noted, hi, Before
<1>4. MainTypes'
  BY MainTyped DEF MainPlaced
<1>5. mpc \in Handling => mi \in Conn
  BY MirrorsAssumption DEF MainPlaced, MainTypes, Conn
<1>6. \A i \in Conn : Listed(url[i])
  BY <1>2 DEF PhaseInv
<1>8. CASE Cancels
  <2>1. ThreadTypes' /\ PlaceTypes'
    BY <1>1, <1>8 DEF Cancels, ThreadTypes, PlaceTypes, TPcs, Servers
  <2>2. PhaseInv'
    <3>1. phase' = "run" /\ mpc' # "off" /\ url' = url /\ \A i \in Conn : tpc'[i] = "cancelled"
      BY <1>1, <1>2, <1>8 DEF Cancels
    <3>2. \A i \in Conn : Listed(url[i])'
      BY <1>1, <1>6, <3>1 DEF Listed
    <3>3. \A i \in logged' : status'[i] = "COMPLETED"
      BY <1>1, <1>2 DEF PhaseInv
    <3>4. QED
      BY <3>1, <3>2, <3>3 DEF PhaseInv
  <2>3. MainPlaced' /\ CompletedRests'
    BY <1>8 DEF Cancels, MainPlaced, CompletedRests, Handling, AtRest, Aborts
  <2>4. QED
    BY <1>3, <1>4, <2>1, <2>2, <2>3
<1>9. CASE Relaunches
  <2>1. mi \in Conn /\ Listed(goal) /\ mpc' \in {"wait", "next"} /\ UNCHANGED pollVars
    BY <1>5, <1>9 DEF Relaunches, Handling, MainPcs, MainPlaced
  <2>2. /\ tpc'[mi] = "start" /\ \A i \in Conn \ {mi} : tpc'[i] = tpc[i]
        /\ url'[mi] = goal /\ \A i \in Conn \ {mi} : url'[i] = url[i]
        /\ tpc' \in [Conn -> TPcs] /\ url' = [i \in Conn |-> url'[i]]
    <3>1. url' = [url EXCEPT ![mi] = goal] /\ tpc' = [tpc EXCEPT ![mi] = "start"]
      BY <1>9 DEF Relaunches
    <3>2. DOMAIN url = Conn /\ tpc \in [Conn -> TPcs] /\ "start" \in TPcs
      BY DEF PlaceTypes, ThreadTypes, TPcs
    <3>3. QED
      BY <2>1, <3>1, <3>2
  <2>3. ThreadTypes' /\ PlaceTypes'
    BY <1>1, <2>2 DEF ThreadTypes, PlaceTypes, Servers
  <2>4. PhaseInv'
    <3>1. \A i \in Conn : Listed(url[i])'
      <4>1. \A i \in Conn : Listed(url'[i])
        BY <1>6, <2>1, <2>2
      <4>2. QED
        BY <1>1, <4>1 DEF Listed
    <3>2. \A i \in Conn : tpc'[i] # "off"
      BY <1>2, <2>2 DEF PhaseInv
    <3>3. QED
      BY <1>1, <1>2, <2>1, <3>1, <3>2 DEF PhaseInv
  <2>5. MainPlaced'
    <3>1. mi' = mi /\ mi < N /\ result' = "none" /\ mi \notin logged /\ logged' = logged
      BY <1>1, <1>2, <1>9, <2>1 DEF pollVars, MainPlaced, Relaunches, Handling, MainPcs
    <3>2. \A i \in Conn : tpc'[i] # "cancelled"
      BY <1>2, <2>2 DEF MainPlaced
    <3>3. QED
      BY <2>1, <3>1, <3>2 DEF MainPlaced
  <2>6. CompletedRests'
    BY <1>1, <2>2 DEF CompletedRests
  <2>7. QED
    BY <1>3, <1>4, <2>3, <2>4, <2>5, <2>6
<1>10. CASE Walks
  <2>1. UNCHANGED <<tpc, url>> /\ mpc' \notin {"off", "wait"}
    BY <1>10 DEF Walks
  <2>2. ThreadTypes' /\ PlaceTypes' /\ CompletedRests'
    BY <1>1, <2>1 DEF ThreadTypes, PlaceTypes, CompletedRests, Servers
  <2>3. PhaseInv'
    <3>1. \A i \in Conn : Listed(url[i])'
      BY <1>1, <1>6, <2>1 DEF Listed
    <3>2. QED
      BY <1>1, <1>2, <2>1, <3>1 DEF PhaseInv
  <2>4. MainPlaced'
    <3>1. mpc' \in Handling => mi' < N
      BY <1>10 DEF Walks, MainPlaced, Handling, MainPcs
    <3>0. mpc' \in Handling \ {"next"} => mi' \notin logged'
      <4>1. SUFFICES ASSUME mpc' \in Handling \ {"next"} PROVE mi' \notin logged
        BY <1>1
      <4>2. CASE mpc = "scan"
        <5>1. mpc' \in {"readerr", "localfatal", "same"} /\ mi' = mi
          BY <1>10, <4>1, <4>2 DEF Walks, Handling, MainPcs
        <5>2. status[mi] # "COMPLETED"
          BY <4>2, <5>1, ScanStops
        <5>3. QED
          BY <1>2, <5>1, <5>2 DEF PhaseInv
      <4>3. CASE mpc # "scan"
        <5>1. mpc \in Handling \ {"next"} /\ mi' = mi
          BY <1>10, <4>1, <4>3 DEF Walks, Handling, MainPcs
        <5>2. QED
          BY <5>1 DEF MainPlaced
      <4>4. QED
        BY <4>2, <4>3
    <3>2. result' # "none" <=> mpc' = "returned"
      BY <1>2, <1>10 DEF Walks, MainPlaced
    <3>3. mpc' = "returned" => \A i \in Conn : tpc'[i] = "ended"
      BY <1>2, <1>10, <2>1 DEF Walks
    <3>4. \A i \in Conn : tpc'[i] # "cancelled"
      BY <1>2, <2>1 DEF MainPlaced
    <3>5. mpc' = "join" => Listed(goal)'
      <4>1. SUFFICES ASSUME mpc' = "join" PROVE Listed(goal')
        BY <1>1 DEF Listed
      <4>2. Aims /\ mpc \in Handling
        BY <1>10, <4>1 DEF Walks, Handling, MainPcs
      <4>3. QED
        BY <4>2, AimsAtListed
    <3>6. mpc' = "finish" \/ result' = "DLDONE" => AllStatus("COMPLETED")
      BY <1>2, <1>10 DEF Walks, MainPlaced
    <3>7. result' = "DLDONE" => mpc' = "returned"
      BY <3>2
    <3>8. QED
      BY <1>1, <3>0, <3>1, <3>2, <3>3, <3>4, <3>5, <3>6, <3>7 DEF MainPlaced, AllStatus, AtRest
  <2>5. QED
    BY <1>3, <1>4, <2>2, <2>3, <2>4
<1>11. QED
  BY <1>1, <1>8, <1>9, <1>10

-----------------------------------------------------------------------------
(***************************************************************************)
(* The invariant.                                                          *)
(***************************************************************************)
LEMMA InitIInv ==
  Init => IInv
<1> SUFFICES ASSUME Init PROVE IInv
  OBVIOUS
<1>1. ListOK /\ PingInv /\ SortedInv /\ phase = "ping"
  BY InitPings DEF Init, Pings, InitMirrors
<1>2. /\ 0 \in 0 .. N /\ 0 \in 0 .. MaxFaults /\ "IDLE" \in Statuses /\ "none" \in Errs
      /\ "off" \in TPcs /\ "off" \in MainPcs
  BY MirrorsAssumption, SwitchingAssumption DEF Statuses, Errs, TPcs, MainPcs
<1>3. ThreadTypes
  <2>1. begun \in BOOLEAN
    <3>1. PICK d \in Downloads : begun = d.begun
      BY DEF Init
    <3>2. QED
      BY <3>1, SwitchingAssumption
  <2>2. QED
    BY <1>2, <2>1 DEF Init, ThreadTypes
<1>4. MainTypes
  <2>1. waits \in BOOLEAN /\ again \in BOOLEAN
    BY DEF Init
  <2>2. QED
    BY <1>2, <2>1 DEF Init, MainTypes
<1>5. PlaceTypes
  <2>1. PICK d \in Downloads : DOMAIN d.site = Servers /\ site = d.site /\ logged = d.logged
    BY DEF Init
  <2>2. /\ logged \subseteq Conn
        /\ \A h \in Servers : \A p \in Dirs : site[h].has[p] \in {"ok", "nofile", "nocwd"}
    BY <2>1, SwitchingAssumption
  <2>3. DOMAIN site = Servers /\ others \subseteq Servers /\ url = [i \in Conn |-> url[i]]
    BY <2>1 DEF Init
  <2>4. QED
    BY <2>2, <2>3 DEF PlaceTypes
<1>6. PhaseInv /\ CompletedRests
  BY <1>1 DEF Init, PhaseInv, CompletedRests
<1>7. MainPlaced
  BY DEF Init, MainPlaced, Handling
<1>8. QED
  BY <1>1, <1>3, <1>4, <1>5, <1>6, <1>7 DEF IInv

LEMMA SearchIInv ==
  ASSUME IInv, Search
  PROVE  IInv'
<1> USE DEF IInv
<1>1. Pings' /\ Servers' = Servers /\ phase = "ping" /\ phase' \in {"ping", "sorted"}
  BY StepPings DEF Search, Pings
<1>2. /\ UNCHANGED <<site, logged, others, url, status, err, tpc, rv, begun, mpc, faults>>
      /\ UNCHANGED <<mi, mj, why, goal, waits, dling, again, maxSimul, result>>
  BY DEF Search, caseVars, threadVars, pollVars
<1>3. ThreadTypes' /\ MainTypes' /\ PlaceTypes'
  BY <1>1, <1>2 DEF ThreadTypes, MainTypes, PlaceTypes
<1>4. PhaseInv' /\ MainPlaced' /\ CompletedRests'
  BY <1>1, <1>2 DEF PhaseInv, MainPlaced, CompletedRests, AllStatus
<1>5. QED
  BY <1>1, <1>3, <1>4 DEF Pings

LEMMA CountsUsable ==
  ASSUME ListOK
  PROVE  NumUsable \in Nat /\ NumUsable <= Len(mirrors)
<1> DEFINE U == {j \in DOMAIN mirrors :
                   /\ mirrors[j].status = "RESPONSEOK"
                   /\ mirrors[j].ms <= mirrors[1].ms + (mirrors[1].ms * 100) \div 100}
<1>1. Len(mirrors) \in Nat \ {0} /\ DOMAIN mirrors = 1 .. Len(mirrors)
  BY ListFacts
<1>2. IsFiniteSet(1 .. Len(mirrors)) /\ Cardinality(1 .. Len(mirrors)) = Len(mirrors)
  BY <1>1, FS_Interval
<1>3. U \subseteq 1 .. Len(mirrors)
  BY <1>1
<1>4. Cardinality(U) \in Nat /\ Cardinality(U) <= Len(mirrors)
  <2> HIDE DEF U
  <2>1. QED
    BY <1>2, <1>3, FS_Subset, FS_CardinalityType
<1>5. QED
  BY <1>4 DEF NumUsable

(* A connection is given the first path of a server on the list.           *)
LEMMA AllocatedAt ==
  ASSUME ListOK, NEW i \in Conn
  PROVE  \E j \in DOMAIN mirrors :
           /\ Allocated(i) = UrlOn(mirrors[j]) /\ Listed(Allocated(i))
           /\ j = IF i < NumUsable THEN i + 1 ELSE 1
<1> DEFINE j == IF i < NumUsable THEN i + 1 ELSE 1
<1>1. Len(mirrors) \in Nat \ {0} /\ DOMAIN mirrors = 1 .. Len(mirrors)
  BY ListFacts
<1>2. NumUsable \in Nat /\ NumUsable <= Len(mirrors)
  BY CountsUsable
<1>3. j \in DOMAIN mirrors
  BY <1>1, <1>2 DEF Conn
<1>4. Allocated(i) = UrlOn(mirrors[j])
  BY DEF Allocated
<1>5. 1 \in DOMAIN mirrors[j].paths
  <2> HIDE DEF j
  <2>1. QED
    BY <1>3, ListFacts
<1>6. Listed(Allocated(i))
  <2> HIDE DEF j
  <2>1. QED
    BY <1>3, <1>4, <1>5 DEF Listed, UrlOn
<1>7. QED
  BY <1>3, <1>4, <1>6

LEMMA SetupIInv ==
  ASSUME IInv, Setup
  PROVE  IInv'
<1> USE DEF IInv
<1>1. /\ UNCHANGED <<mirrors, step, lo, k, alive, answer, site, logged, others>>
      /\ UNCHANGED <<err, rv, begun, faults>>
      /\ UNCHANGED <<mi, mj, why, goal, waits, dling, again, maxSimul, result>>
      /\ phase = "sorted"
  BY DEF Setup, pingVars, caseVars, pollVars
<1>2. mpc = "off" /\ status = [i \in Conn |-> "IDLE"] /\ result = "none"
  BY <1>1 DEF PhaseInv, MainPlaced
<1>3. CASE SomeAnswered
  <2>1. /\ phase' = "run" /\ mpc' = "poll" /\ url' = [i \in Conn |-> Allocated(i)]
        /\ tpc' = [i \in Conn |-> "start"]
        /\ status' = [i \in Conn |-> IF i \in logged THEN "COMPLETED" ELSE "IDLE"]
    BY <1>3 DEF Setup
  <2>2. ListOK' /\ PingInv' /\ SortedInv'
    BY <1>1, <2>1 DEF ListOK, PingInv, SortedInv, InOrder, Noted, hi, Before
  <2>3. ThreadTypes' /\ MainTypes' /\ PlaceTypes'
    BY <1>1, <2>1 DEF ThreadTypes, MainTypes, PlaceTypes, TPcs, MainPcs, Servers, Statuses
  <2>4. PhaseInv'
    <3>1. \A i \in Conn : Listed(url[i])'
      <4>1. \A i \in Conn : Listed(url'[i])
        BY <2>1, AllocatedAt
      <4>2. QED
        BY <1>1, <4>1 DEF Listed
    <3>2. \A i \in logged : status'[i] = "COMPLETED"
      BY <2>1 DEF PlaceTypes
    <3>3. QED
      BY <1>1, <2>1, <3>1, <3>2 DEF PhaseInv
  <2>5. MainPlaced' /\ CompletedRests'
    BY <1>1, <1>2, <2>1 DEF MainPlaced, CompletedRests, Handling
  <2>6. QED
    BY <2>2, <2>3, <2>4, <2>5
<1>4. CASE ~ SomeAnswered
  <2>1. phase' = "original" /\ UNCHANGED <<mpc, url, status, tpc>>
    BY <1>4 DEF Setup
  <2>2. ListOK' /\ PingInv' /\ SortedInv'
    BY <1>1, <2>1 DEF ListOK, PingInv, SortedInv, InOrder, Noted, hi
  <2>3. ThreadTypes' /\ MainTypes' /\ PlaceTypes'
    BY <1>1, <2>1 DEF ThreadTypes, MainTypes, PlaceTypes, Servers
  <2>4. PhaseInv' /\ MainPlaced' /\ CompletedRests'
    BY <1>1, <1>2, <2>1 DEF PhaseInv, MainPlaced, CompletedRests, Handling
  <2>5. QED
    BY <2>2, <2>3, <2>4
<1>5. QED
  BY <1>3, <1>4

LEMMA NextIInv ==
  IInv /\ [Next]_vars => IInv'
<1> SUFFICES ASSUME IInv, [Next]_vars PROVE IInv'
  OBVIOUS
<1>1. CASE Search
  BY <1>1, SearchIInv
<1>2. CASE Setup
  BY <1>2, SetupIInv
<1>3. CASE Main
  BY <1>3, MainIInv
<1>4. CASE \E i \in Conn : Thread(i) \/ Break(i)
  BY <1>4, ThreadSteps, ThreadIInv DEF IInv
<1>5. CASE OtherLeaves \/ UNCHANGED vars
  <2>1. /\ UNCHANGED <<mirrors, step, lo, k, alive, answer, phase, site, logged, url>>
        /\ UNCHANGED <<status, err, tpc, rv, begun, mpc, faults>>
        /\ UNCHANGED <<mi, mj, why, goal, waits, dling, again, maxSimul, result>>
        /\ others' \subseteq others
    BY <1>5 DEF OtherLeaves, vars, mirrorVars, caseVars, threadVars, pollVars
  <2>2. ListOK' /\ PingInv' /\ SortedInv'
    BY <2>1 DEF IInv, ListOK, PingInv, SortedInv, InOrder, Noted, hi, Before
  <2>3. ThreadTypes' /\ MainTypes' /\ PlaceTypes'
    BY <2>1 DEF IInv, ThreadTypes, MainTypes, PlaceTypes, Servers
  <2>4. PhaseInv' /\ MainPlaced' /\ CompletedRests'
    BY <2>1 DEF IInv, PhaseInv, MainPlaced, CompletedRests, AllStatus, Listed
  <2>5. QED
    BY <2>2, <2>3, <2>4 DEF IInv
<1>6. QED
  BY <1>1, <1>2, <1>3, <1>4, <1>5 DEF Next

LEMMA SpecIInv ==
  Spec => []IInv
BY InitIInv, NextIInv, PTL DEF Spec

(* Every variable keeps its type; above all, every connection's URL is one *)
(* that parsing leaves of a path in its server's entry of the list,        *)
(* wherever the main thread has sent it, so that the main thread always    *)
(* finds the entry again, and the path if parsing does not change it       *)
(* (NextPath).                                                             *)
THEOREM TypeCorrect ==
  Spec => []TypeOK
<1>1. IInv => TypeOK
  <2> SUFFICES ASSUME IInv PROVE TypeOK
    OBVIOUS
  <2> USE DEF IInv
  <2>1. Len(mirrors) \in Nat \ {0} /\ DOMAIN mirrors = 1 .. Len(mirrors)
    BY ListFacts
  <2>2. MirrorsTypeOK
    <3>1. \A j \in DOMAIN mirrors :
            /\ mirrors[j].status \in {"UNTESTED", "RESPONSEOK", "NORESPONSE"}
            /\ mirrors[j].ms \in Times \cup {0}
      <4>1. \A j \in DOMAIN mirrors : mirrors[j] \in Mirror
        BY ListFacts
      <4>2. QED
        BY <4>1 DEF Mirror
    <3>2. k \in 1 .. (Len(mirrors) + 1) /\ alive \subseteq DOMAIN mirrors
      <4>1. step # "done" => hi <= Len(mirrors) /\ lo >= 1 /\ hi \in Int /\ lo \in Int
        BY <2>1, MirrorsAssumption DEF hi, PingInv
      <4>2. QED
        BY <2>1, <4>1 DEF PingInv
    <3>3. answer \in [IF phase = "ping" THEN DOMAIN mirrors ELSE {} -> Times \cup {NoAnswer}]
      <4>1. CASE phase = "ping"
        BY <4>1 DEF PingInv
      <4>2. CASE phase # "ping"
        BY <4>2 DEF PingInv
      <4>3. QED
        BY <4>1, <4>2
    <3>4. QED
      BY <3>1, <3>2, <3>3 DEF MirrorsTypeOK, PingInv
  <2>3. ASSUME NEW i \in Conn, phase = "run"
        PROVE  /\ Host(i) \in Servers
               /\ \E g \in DOMAIN PathsOn(Host(i)) : url[i].path = Parsed[PathsOn(Host(i))[g]]
    BY <2>3, ListedAt DEF PhaseInv, Host
  <2>4. QED
    BY <2>2, <2>3 DEF TypeOK, ThreadTypes, MainTypes, PlaceTypes, TPcs, MainPcs, Aborts
<1>2. QED
  BY <1>1, SpecIInv, PTL

(* Before the list is sorted in place, no ping thread is left that could   *)
(* note its result for another server, and every entry has the result of   *)
(* its own ping; never do more pings run at a time than asked for.         *)
THEOREM PingsOver ==
  Spec => []PingsAreOver
<1>1. IInv => PingsAreOver
  <2> SUFFICES ASSUME IInv, phase = "ping"
               PROVE  /\ Cardinality(alive) <= MaxPings
                      /\ step = "done" =>
                           /\ alive = {}
                           /\ \A j \in DOMAIN mirrors :
                                IF answer[j] = NoAnswer THEN mirrors[j].status = "NORESPONSE"
                                ELSE mirrors[j].status = "RESPONSEOK" /\ mirrors[j].ms = answer[j]
    BY DEF PingsAreOver
  <2> USE DEF IInv
  <2>1. step = "done" => alive = {} /\ \A j \in DOMAIN mirrors :
                                IF answer[j] = NoAnswer THEN mirrors[j].status = "NORESPONSE"
                                ELSE mirrors[j].status = "RESPONSEOK" /\ mirrors[j].ms = answer[j]
    BY DEF PingInv, Noted
  <2>2. Cardinality(alive) <= MaxPings
    <3>1. lo \in Nat /\ MaxPings \in Nat \ {0} /\ hi <= lo + MaxPings - 1 /\ hi \in Int
      BY ListFacts, MirrorsAssumption DEF PingInv, hi
    <3>2. alive \subseteq lo .. (lo + MaxPings - 1)
      BY <3>1 DEF PingInv
    <3>3. /\ IsFiniteSet(lo .. (lo + MaxPings - 1))
          /\ Cardinality(lo .. (lo + MaxPings - 1)) = MaxPings
      BY <3>1, FS_Interval
    <3>4. QED
      BY <3>2, <3>3, FS_Subset
  <2>3. QED
    BY <2>1, <2>2
<1>2. QED
  BY <1>1, SpecIInv, PTL

(* When an end is reported, no thread of the download is left, and DLDONE  *)
(* means that every connection completed, whatever servers they were sent  *)
(* to in between (JoinAll, Stop).                                          *)
THEOREM Clean ==
  Spec => []EndIsClean
<1>1. IInv => EndIsClean
  <2> SUFFICES ASSUME IInv, result # "none"
               PROVE  /\ \A i \in Conn : tpc[i] \in {"ended", "cancelled"}
                      /\ result = "DLDONE" =>
                           \A i \in Conn : status[i] = "COMPLETED" /\ err[i] = "OK"
    BY DEF EndIsClean
  <2>1. \A i \in Conn : tpc[i] \in {"ended", "cancelled"}
    BY DEF IInv, MainPlaced, AtRest
  <2>2. ASSUME result = "DLDONE", NEW i \in Conn PROVE status[i] = "COMPLETED" /\ err[i] = "OK"
    BY <2>2 DEF IInv, MainPlaced, AllStatus, CompletedRests
  <2>3. QED
    BY <2>1, <2>2
<1>2. QED
  BY <1>1, SpecIInv, PTL

(* A connection's URL, which its thread reads without a lock, is only set  *)
(* before the thread is created or after it was joined (Setup, Relaunch).  *)
THEOREM UrlsAtRest ==
  Spec => UrlChangesAtRest
<1>1. IInv /\ [Next]_vars => [\A i \in Conn : url'[i] # url[i] => tpc[i] \in {"off", "ended"}]_vars
  <2> SUFFICES ASSUME IInv, Next, NEW i \in Conn, url'[i] # url[i]
               PROVE  tpc[i] \in {"off", "ended"}
    OBVIOUS
  <2>1. CASE Setup
    BY <2>1 DEF Setup, IInv, PhaseInv
  <2>2. CASE Main
    <3>1. CASE Relaunches
      BY <3>1 DEF Relaunches, IInv, PlaceTypes
    <3>2. QED
      BY <2>2, <3>1, MainSteps DEF Cancels, Walks
  <2>3. CASE Search \/ OtherLeaves
    BY <2>3 DEF Search, OtherLeaves
  <2>4. CASE \E j \in Conn : Thread(j) \/ Break(j)
    BY <2>4, ThreadSteps DEF IInv, ThreadEffect, MainKeeps
  <2>5. QED
    BY <2>1, <2>2, <2>3, <2>4 DEF Next
<1>2. QED
  BY <1>1, SpecIInv, PTL DEF Spec, UrlChangesAtRest

-----------------------------------------------------------------------------
(***************************************************************************)
(* The allocation of the connections.                                      *)
(***************************************************************************)

(* compare_two_servers puts a server without an answer after those that    *)
(* answered within 1000 seconds; the preferences allow pings of at most    *)
(* 30 seconds.                                                             *)
PromptPings == \A t \in Times : t < 1000000

(* Then a server before one that answered has answered, no later. *)
LEMMA BeforeAnswered ==
  ASSUME PromptPings, NEW a \in Mirror, NEW b \in Mirror, Before(a, b), b.status = "RESPONSEOK"
  PROVE  a.status = "RESPONSEOK" /\ a.ms \in Nat /\ b.ms \in Nat /\ a.ms <= b.ms
<1>1. a.ms \in Times \cup {0} /\ b.ms \in Times \cup {0}
  BY DEF Mirror
<1>2. \A t \in Times \cup {0} : t \in Nat /\ t < 1000000
  BY SMT, MirrorsAssumption DEF PromptPings
<1>3. a.ms \in Nat /\ b.ms \in Nat /\ b.ms < 1000000
  BY SMT, <1>1, <1>2
<1>4. QED
  BY SMT, <1>3 DEF Before

LEMMA MirrorsAnswer ==
  ASSUME ListOK, NEW j \in DOMAIN mirrors
  PROVE  mirrors[j] \in Mirror /\ mirrors[j].ms \in Nat
<1>1. mirrors[j] \in Mirror
  BY ListFacts
<1>2. \A m \in Mirror : m.ms \in Times \cup {0}
  BY DEF Mirror
<1>3. mirrors[j].ms \in Times \cup {0}
  BY <1>1, <1>2
<1>4. \A t \in Times \cup {0} : t \in Nat
  BY MirrorsAssumption
<1>5. QED
  BY <1>1, <1>3, <1>4, Zenon

(* The usable servers are the first of a sorted list. *)
LEMMA UsableFirst ==
  ASSUME PromptPings, ListOK, SomeAnswered, InOrder,
         NEW j \in DOMAIN mirrors, j <= NumUsable
  PROVE  mirrors[j].status = "RESPONSEOK" /\ mirrors[j].ms <= 2 * mirrors[1].ms
<1> DEFINE n == Len(mirrors)
           U == {g \in DOMAIN mirrors :
                   /\ mirrors[g].status = "RESPONSEOK"
                   /\ mirrors[g].ms <= mirrors[1].ms + (mirrors[1].ms * 100) \div 100}
<1>1. n \in Nat \ {0} /\ DOMAIN mirrors = 1 .. n
  BY ListFacts
<1>2. \A g \in DOMAIN mirrors : mirrors[g] \in Mirror /\ mirrors[g].ms \in Nat
  BY MirrorsAnswer
<1>3. mirrors[1].ms + (mirrors[1].ms * 100) \div 100 = 2 * mirrors[1].ms
  <2> DEFINE m == mirrors[1].ms
  <2>1. m \in Nat
    BY <1>1, <1>2
  <2> HIDE DEF m
  <2>2. (m * 100) \div 100 = m
    BY <2>1
  <2>3. m + (m * 100) \div 100 = 2 * m
    BY <2>1, <2>2
  <2>4. QED
    BY <2>3 DEF m
<1>4. ASSUME NEW g \in U, NEW h \in DOMAIN mirrors, h < g PROVE h \in U
  <2>1. Before(mirrors[h], mirrors[g])
    BY <1>4 DEF InOrder
  <2>2. mirrors[h].status = "RESPONSEOK" /\ mirrors[h].ms <= mirrors[g].ms
    <3>1. g \in DOMAIN mirrors /\ mirrors[g].status = "RESPONSEOK"
      BY <1>4
    <3>2. QED
      BY <1>2, <1>4, <2>1, <3>1, BeforeAnswered
  <2>3. mirrors[h].ms <= 2 * mirrors[1].ms
    BY <1>1, <1>2, <1>3, <1>4, <2>2
  <2>4. QED
    BY <1>3, <2>2, <2>3
<1>5. NumUsable = Cardinality(U)
  BY DEF NumUsable
<1>6. ASSUME j \notin U PROVE FALSE
  <2>1. U \subseteq 1 .. (j - 1)
    BY <1>1, <1>4, <1>6
  <2>2. IsFiniteSet(1 .. (j - 1)) /\ Cardinality(1 .. (j - 1)) = j - 1
    <3>1. j \in Int /\ j >= 1
      BY <1>1
    <3>2. \A a, b \in Int : IsFiniteSet(a .. b) /\ (a <= b => Cardinality(a .. b) = b - a + 1)
                           /\ (a > b => Cardinality(a .. b) = 0)
      BY FS_Interval
    <3>3. 1 \in Int /\ j - 1 \in Int
      BY <3>1
    <3>4. IsFiniteSet(1 .. (j - 1)) /\ (1 <= j - 1 => Cardinality(1 .. (j - 1)) = j - 1 - 1 + 1)
                              /\ (1 > j - 1 => Cardinality(1 .. (j - 1)) = 0)
      BY <3>2, <3>3, Zenon
    <3>5. QED
      BY <3>1, <3>4
  <2>3. Cardinality(U) <= j - 1 /\ Cardinality(U) \in Nat
    <3> HIDE DEF U
    <3>1. QED
      BY <2>1, <2>2, FS_Subset, FS_CardinalityType
  <2>4. QED
    BY <1>1, <1>5, <2>3
<1>7. QED
  BY <1>3, <1>6

(* However many connections are asked for, each starts on a server that    *)
(* answered, and at most twice as late as any other (Setup, NumUsable).    *)
THEOREM Starts ==
  ASSUME PromptPings
  PROVE  Spec => StartsOnFast
<1>1. ASSUME IInv, Next, phase = "sorted", phase' = "run", NEW i \in Conn
      PROVE  \E j \in DOMAIN mirrors :
               /\ mirrors[j].name = url'[i].server /\ mirrors[j].status = "RESPONSEOK"
               /\ \A g \in DOMAIN mirrors :
                    mirrors[g].status = "RESPONSEOK" => mirrors[j].ms <= 2 * mirrors[g].ms
  <2>1. Setup
    <3>1. ~ Search
      BY <1>1, StepPings DEF Search, IInv, Pings
    <3>2. ~ Main
      BY <1>1, MainSteps DEF mainKeeps, mirrorVars
    <3>3. ~ \E j \in Conn : Thread(j) \/ Break(j)
      BY <1>1, ThreadSteps DEF IInv, ThreadEffect, MainKeeps, mirrorVars
    <3>4. ~ OtherLeaves
      BY <1>1 DEF OtherLeaves, mirrorVars
    <3>5. QED
      BY <1>1, <3>1, <3>2, <3>3, <3>4 DEF Next
  <2>2. SomeAnswered /\ url' = [m \in Conn |-> Allocated(m)]
    BY <1>1, <2>1 DEF Setup
  <2>3. /\ Len(mirrors) \in Nat \ {0} /\ DOMAIN mirrors = 1 .. Len(mirrors)
        /\ InOrder
    BY <1>1, ListFacts DEF IInv, SortedInv, InOrder
  <2>4. PICK j \in DOMAIN mirrors :
          /\ Allocated(i) = UrlOn(mirrors[j])
          /\ j = IF i < NumUsable THEN i + 1 ELSE 1
    BY <1>1, AllocatedAt DEF IInv
  <2>5. mirrors[j].name = url'[i].server
    BY <2>2, <2>4 DEF UrlOn
  <2>6. \A g \in DOMAIN mirrors : mirrors[g] \in Mirror /\ mirrors[g].ms \in Nat
    BY <1>1, MirrorsAnswer DEF IInv
  <2>7. mirrors[j].status = "RESPONSEOK" /\ mirrors[j].ms <= 2 * mirrors[1].ms
    <3>1. CASE i < NumUsable
      <4>1. j <= NumUsable
        <5>1. i \in Nat /\ NumUsable \in Int
          BY CountsUsable, <1>1 DEF Conn, IInv
        <5>2. QED
          BY <2>4, <3>1, <5>1
      <4>2. QED
        BY <1>1, <2>2, <2>3, <4>1, UsableFirst DEF IInv
    <3>2. CASE ~ (i < NumUsable)
      <4>1. j = 1
        BY <2>4, <3>2
      <4>2. QED
        BY <2>2, <2>3, <2>6, <4>1 DEF SomeAnswered
    <3>3. QED
      BY <3>1, <3>2
  <2>8. ASSUME NEW g \in DOMAIN mirrors, mirrors[g].status = "RESPONSEOK"
        PROVE  mirrors[1].ms <= mirrors[g].ms
    <3>1. CASE g = 1
      BY <2>3, <2>6, <3>1
    <3>2. CASE g # 1
      <4>1. Before(mirrors[1], mirrors[g])
        BY <2>3, <3>2 DEF InOrder
      <4>2. QED
        BY <2>3, <2>6, <2>8, <4>1, BeforeAnswered
    <3>3. QED
      BY <3>1, <3>2
  <2>9. \A g \in DOMAIN mirrors :
          mirrors[g].status = "RESPONSEOK" => mirrors[j].ms <= 2 * mirrors[g].ms
    BY <2>3, <2>6, <2>7, <2>8
  <2>10. QED
    BY <2>5, <2>7, <2>9
<1>2. IInv /\ [Next]_vars =>
        [phase = "sorted" /\ phase' = "run" =>
           \A i \in Conn : \E j \in DOMAIN mirrors :
             /\ mirrors[j].name = url'[i].server /\ mirrors[j].status = "RESPONSEOK"
             /\ \A g \in DOMAIN mirrors :
                  mirrors[g].status = "RESPONSEOK" => mirrors[j].ms <= 2 * mirrors[g].ms]_vars
  BY <1>1
<1>3. QED
  BY <1>2, SpecIInv, PTL DEF Spec, StartsOnFast
-----------------------------------------------------------------------------
(***************************************************************************)
(* Where connections are sent.                                             *)
(***************************************************************************)

(* On a server that has every listed directory a listed file is there, or  *)
(* the server says that it is not.                                         *)
LEMMA ListedHas ==
  ASSUME IInv, CwdWorks, NEW i \in Conn, phase = "run"
  PROVE  Has(i) \in {"ok", "nofile"}
<1>1. Listed(url[i]) /\ ListOK
  BY DEF IInv, PhaseInv
<1>2. url[i].server \in Servers /\ url[i].path \in Dirs
  BY <1>1, ListedAt
<1>3. Has(i) \in {"ok", "nofile", "nocwd"}
  BY <1>2 DEF Has, IInv, PlaceTypes
<1>4. PICK j \in DOMAIN mirrors : \E g \in DOMAIN mirrors[j].paths :
        url[i] = [server |-> mirrors[j].name, path |-> Parsed[mirrors[j].paths[g]]]
  BY <1>1 DEF Listed
<1>5. PICK g \in DOMAIN mirrors[j].paths :
        url[i] = [server |-> mirrors[j].name, path |-> Parsed[mirrors[j].paths[g]]]
  BY <1>4
<1>6. site[mirrors[j].name].has[Parsed[mirrors[j].paths[g]]] # "nocwd"
  BY DEF CwdWorks
<1>7. Has(i) # "nocwd"
  BY <1>5, <1>6 DEF Has
<1>8. QED
  BY <1>3, <1>7

LEMMA ThreadFound ==
  ASSUME IInv, FoundInv, NEW i \in Conn, ThreadEffect(i)
  PROVE  FoundInv'
<1>1. /\ UNCHANGED <<mirrors, phase, site, logged, url, mi, why, goal, waits>>
      /\ mpc' = mpc \/ (mpc = "wait" /\ mi = i /\ mpc' = "next" /\ Begins(i))
  BY DEF ThreadEffect, MainKeeps, mirrorVars, caseVars, pollVars
<1>2. SUFFICES ASSUME CwdWorks, phase = "run" PROVE FoundInv'
  <2>1. CwdWorks' => CwdWorks
    BY <1>1 DEF CwdWorks
  <2>2. QED
    BY <1>1, <2>1 DEF FoundInv
<1>3. \A j \in Conn \ {i} :
        status'[j] = status[j] /\ err'[j] = err[j] /\ tpc'[j] = tpc[j] /\ rv'[j] = rv[j]
  BY DEF ThreadEffect, OthersKeep
<1>4. Has(i) \in {"ok", "nofile"} /\ (HasFile(url[i]) <=> Has(i) = "ok")
  BY <1>2, ListedHas DEF HasFile, Has
<1>5. err'[i] # "FTPCWDFAIL" /\ rv'[i] # "FTPCWDFAIL"
  <2>1. err[i] # "FTPCWDFAIL" /\ rv[i] # "FTPCWDFAIL"
    BY <1>2 DEF FoundInv
  <2>2. CASE Returns(i)
    BY <1>4, <2>1, <2>2 DEF Returns, Outcome
  <2>3. CASE Begins(i) \/ Advances(i) \/ EndsAttempt(i)
    BY <2>1, <2>3 DEF Begins, Advances, EndsAttempt
  <2>4. QED
    BY <2>2, <2>3 DEF ThreadEffect
<1>6. tpc'[i] \in {"accept", "transfer"} => HasFile(url[i])
  <2>1. tpc[i] = "accept" => HasFile(url[i])
    BY <1>2 DEF FoundInv
  <2>2. QED
    BY <1>4, <2>1 DEF ThreadEffect, Begins, Advances, Returns, EndsAttempt
<1>7. status'[i] \in {"DOWNLOADING", "COMPLETED"} => Trusted(url[i]) \/ (mpc' = "wait" /\ mi = i)
  <2>1. /\ tpc[i] \in {"accept", "transfer"} => Trusted(url[i])
        /\ Has(i) \notin {"nocwd", "nofile"} => Trusted(url[i])
    BY <1>2, <1>4 DEF FoundInv, Trusted
  <2>2. status[i] \in {"DOWNLOADING", "COMPLETED"} => Trusted(url[i]) \/ (mpc = "wait" /\ mi = i)
    BY <1>2 DEF FoundInv
  <2>3. CASE Begins(i)
    BY <2>3 DEF Begins
  <2>4. CASE ~ Begins(i)
    <3>1. mpc' = mpc
      BY <1>1, <2>4
    <3>2. CASE Advances(i)
      BY <2>1, <2>2, <3>1, <3>2 DEF Advances
    <3>3. CASE Returns(i)
      BY <2>1, <2>2, <3>1, <3>3 DEF Returns, Outcome
    <3>4. CASE EndsAttempt(i)
      BY <2>2, <3>1, <3>4 DEF EndsAttempt
    <3>5. QED
      BY <2>4, <3>2, <3>3, <3>4 DEF ThreadEffect
  <2>5. QED
    BY <2>3, <2>4
<1>8. /\ why # "FTPCWDFAIL"
      /\ \A j \in Conn \ {i} :
           /\ err[j] # "FTPCWDFAIL" /\ rv[j] # "FTPCWDFAIL"
           /\ tpc[j] \in {"accept", "transfer"} => HasFile(url[j])
           /\ status[j] \in {"DOWNLOADING", "COMPLETED"} => Trusted(url[j]) \/ (mpc = "wait" /\ mi = j)
      /\ mpc \in {"all", "path"} => why \in {"FTPNSFOD", "FTPRESTFAIL"}
      /\ mpc = "path" => why = "FTPNSFOD"
      /\ mpc = "join" => waits /\ (goal.server = url[mi].server \/ Trusted(goal))
  BY <1>2 DEF FoundInv
<1>10. /\ why' # "FTPCWDFAIL" /\ \A j \in Conn : err'[j] # "FTPCWDFAIL" /\ rv'[j] # "FTPCWDFAIL"
       /\ \A j \in Conn : tpc'[j] \in {"accept", "transfer"} => HasFile(url[j])
       /\ \A j \in Conn : status'[j] \in {"DOWNLOADING", "COMPLETED"} =>
            Trusted(url[j]) \/ (mpc' = "wait" /\ mi' = j)
       /\ mpc' \in {"all", "path"} => why' \in {"FTPNSFOD", "FTPRESTFAIL"}
       /\ mpc' = "path" => why' = "FTPNSFOD"
       /\ mpc' = "join" => waits' /\ (goal.server = url[mi].server \/ Trusted(goal))
  <2>1. \A j \in Conn \ {i} : status'[j] \in {"DOWNLOADING", "COMPLETED"} =>
            Trusted(url[j]) \/ (mpc' = "wait" /\ mi' = j)
    BY <1>1, <1>3, <1>8
  <2>2. mpc' = "join" => waits' /\ (goal.server = url[mi].server \/ Trusted(goal))
    BY <1>1, <1>8, Zenon
  <2>3. QED
    BY <1>1, <1>3, <1>5, <1>6, <1>7, <1>8, <2>1, <2>2
<1>11. QED
  <2>1. \A u : (HasFile(u)' <=> HasFile(u)) /\ (Trusted(u)' <=> Trusted(u))
    BY <1>1 DEF HasFile, Trusted
  <2>2. QED
    BY <1>1, <1>10, <2>1 DEF FoundInv, HasFile, Trusted

LEMMA MainFound ==
  ASSUME IInv, FoundInv, Main
  PROVE  FoundInv'
<1>1. UNCHANGED <<mirrors, phase, site, logged, status, err, rv>>
      /\ (Cancels \/ Relaunches \/ Walks)
  BY MainSteps DEF mainKeeps, mirrorVars, caseVars
<1>2. SUFFICES ASSUME CwdWorks, phase = "run" PROVE FoundInv'
  <2>1. CwdWorks' => CwdWorks
    BY <1>1 DEF CwdWorks
  <2>2. QED
    BY <1>1, <2>1 DEF FoundInv
<1>3. mpc # "wait"
  BY DEF Main, Poll, JoinAll, ReadStatus, NextConn, EndOfPoll, StopLocalFatal, ReadErr, AllErrs,
         NextPath, Switch, AllSame, CountDownloading, CountBusy, Relaunch
<1>4. /\ why # "FTPCWDFAIL" /\ \A i \in Conn : err[i] # "FTPCWDFAIL" /\ rv[i] # "FTPCWDFAIL"
      /\ \A i \in Conn : tpc[i] \in {"accept", "transfer"} => HasFile(url[i])
      /\ \A i \in Conn : status[i] \in {"DOWNLOADING", "COMPLETED"} => Trusted(url[i])
      /\ mpc \in {"all", "path"} => why \in {"FTPNSFOD", "FTPRESTFAIL"}
      /\ mpc = "path" => why = "FTPNSFOD"
      /\ mpc = "join" => waits /\ (goal.server = url[mi].server \/ Trusted(goal))
  BY <1>2, <1>3 DEF FoundInv
<1>5. mpc \in Handling => mi \in Conn
  BY MirrorsAssumption DEF IInv, MainPlaced, MainTypes, Conn
<1>6. CASE Cancels
  <2>1. /\ mpc' = "returned" /\ UNCHANGED <<url, why>> /\ \A i \in Conn : tpc'[i] = "cancelled"
    BY <1>6 DEF Cancels
  <2>2. QED
    BY <1>1, <1>4, <2>1 DEF FoundInv, HasFile, Trusted
<1>7. CASE Relaunches
  <2>1. mi \in Conn /\ waits /\ mpc' = "wait" /\ UNCHANGED <<mi, why, goal, waits>>
    BY <1>4, <1>5, <1>7 DEF Relaunches, Handling, MainPcs, pollVars
  <2>2. /\ tpc'[mi] = "start"
        /\ \A i \in Conn \ {mi} : tpc'[i] = tpc[i] /\ url'[i] = url[i]
    BY <1>7, <2>1 DEF Relaunches, IInv, PlaceTypes, ThreadTypes
  <2>3. \A i \in Conn : tpc'[i] \in {"accept", "transfer"} => HasFile(url'[i])
    BY <1>4, <2>2
  <2>4. \A i \in Conn : status[i] \in {"DOWNLOADING", "COMPLETED"} => Trusted(url'[i]) \/ mi = i
    BY <1>4, <2>2
  <2>5. \A j \in logged : url'[j] = url[j]
    <3>1. mpc \in Handling \ {"next"}
      BY <1>7 DEF Relaunches, Handling, MainPcs
    <3>2. mi \notin logged /\ logged \subseteq Conn
      BY <3>1 DEF IInv, MainPlaced, PlaceTypes
    <3>3. QED
      BY <2>2, <3>2
  <2>6. \A u : (HasFile(u)' <=> HasFile(u)) /\ (Trusted(u)' <=> Trusted(u))
    BY <1>1, <2>5 DEF HasFile, Trusted
  <2>7. QED
    BY <1>1, <1>4, <2>1, <2>3, <2>4, <2>6 DEF FoundInv, HasFile, Trusted
<1>8. CASE Walks
  <2>1. UNCHANGED <<tpc, url>>
    BY <1>8 DEF Walks
  <2>2. why' # "FTPCWDFAIL"
    <3>1. mi \in Conn => status[mi] # "FTPCWDFAIL" /\ err[mi] # "FTPCWDFAIL"
      BY <1>4 DEF IInv, ThreadTypes, Statuses
    <3>2. mpc = "scan" /\ mi < N => mi \in Conn
      BY MirrorsAssumption DEF IInv, MainTypes, Conn
    <3>3. QED
      BY <1>4, <1>5, <1>8, <3>1, <3>2 DEF Walks, Handling, MainPcs
  <2>3. /\ mpc' \in {"all", "path"} => why' \in {"FTPNSFOD", "FTPRESTFAIL"}
        /\ mpc' = "path" => why' = "FTPNSFOD"
    BY <1>4, <1>8, <2>2 DEF Walks
  <2>4. ASSUME mpc' = "join" PROVE waits' /\ (goal'.server = url[mi].server \/ Trusted(goal')) /\ mi' = mi
    <3>1. Aims /\ mpc \in Handling /\ mi' = mi
      BY <1>8, <2>4 DEF Walks, Handling, MainPcs
    <3>2. CASE goal' = url[mi] /\ waits'
      BY <3>1, <3>2
    <3>3. CASE /\ mpc = "path" /\ (why = "FTPNSFOD" => waits')
               /\ LET paths == PathsOn(url[mi].server)
                      p     == PathPosition(url[mi].server, url[mi].path)
                  IN /\ Contains(paths, url[mi].path) /\ p < Len(paths)
                     /\ goal' = [url[mi] EXCEPT !.path = Parsed[paths[p + 1]]]
      <4>1. waits'
        BY <1>4, <3>3
      <4>2. Listed(url[mi]) /\ ListOK
        BY <1>2, <1>5, <3>1 DEF IInv, PhaseInv
      <4>3. url[mi] = [server |-> url[mi].server, path |-> url[mi].path]
        BY <4>2, ListedAt
      <4>4. PICK p : goal' = [url[mi] EXCEPT !.path = p]
        BY <3>3
      <4>5. goal'.server = url[mi].server
        BY <4>3, <4>4
      <4>6. QED
        BY <3>1, <4>1, <4>5
    <3>4. CASE mpc = "switch" /\ waits' /\ \E j \in Usable : goal' = url[j]
      <4>1. PICK j \in Usable : goal' = url[j]
        BY <3>4
      <4>2. Trusted(url[j])
        BY <1>4, <4>1 DEF Usable
      <4>3. QED
        BY <3>1, <3>4, <4>1, <4>2
    <3>5. QED
      BY <3>1, <3>2, <3>3, <3>4 DEF Aims
  <2>5. QED
    BY <1>1, <1>4, <2>1, <2>2, <2>3, <2>4 DEF FoundInv, HasFile, Trusted
<1>9. QED
  BY <1>1, <1>6, <1>7, <1>8

LEMMA NextFound ==
  IInv /\ FoundInv /\ [Next]_vars => FoundInv'
<1> SUFFICES ASSUME IInv, FoundInv, [Next]_vars PROVE FoundInv'
  OBVIOUS
<1>1. CASE Search
  <2>1. phase' # "run"
    BY <1>1, StepPings DEF Search, IInv, Pings
  <2>2. QED
    BY <2>1 DEF FoundInv
<1>2. CASE Setup
  <2>1. /\ UNCHANGED <<logged, err, rv, why>> /\ phase = "sorted"
        /\ phase' = "run" =>
             /\ mpc' = "poll" /\ tpc' = [i \in Conn |-> "start"]
             /\ status' = [i \in Conn |-> IF i \in logged THEN "COMPLETED" ELSE "IDLE"]
    BY <1>2 DEF Setup, caseVars, pollVars
  <2>2. err = [i \in Conn |-> "none"] /\ rv = [i \in Conn |-> "none"]
    BY <2>1 DEF IInv, PhaseInv
  <2>3. why # "FTPCWDFAIL"
    BY <2>1 DEF IInv, PhaseInv
  <2>4. \A i \in logged' : Trusted(url[i])'
    BY DEF Trusted
  <2>5. phase' = "run" => \A i \in Conn : status'[i] \in {"DOWNLOADING", "COMPLETED"} => i \in logged'
    BY <2>1
  <2>6. QED
    BY <2>1, <2>2, <2>3, <2>4, <2>5 DEF FoundInv
<1>3. CASE Main
  BY <1>3, MainFound
<1>4. CASE \E i \in Conn : Thread(i) \/ Break(i)
  BY <1>4, ThreadSteps, ThreadFound DEF IInv
<1>5. CASE OtherLeaves \/ UNCHANGED vars
  <2>1. UNCHANGED <<mirrors, phase, site, logged, url, status, err, rv, tpc, mpc, mi, why, goal, waits>>
    BY <1>5 DEF OtherLeaves, vars, mirrorVars, caseVars, threadVars, pollVars
  <2>2. QED
    BY <2>1 DEF FoundInv, CwdWorks, HasFile, Trusted
<1>6. QED
  BY <1>1, <1>2, <1>3, <1>4, <1>5 DEF Next

(* Where every directory exists, a connection is only sent to another      *)
(* server if the file was found there, although the status that said so    *)
(* was read before its old thread was waited for; or else to the URL of a  *)
(* connection that the log of an earlier run says is complete, which       *)
(* nobody tries in this one (Setup, Switch, Relaunch).                     *)
THEOREM Finds ==
  Spec => SwitchesToFound
<1>1. Init => FoundInv
  BY InitPings DEF Init, InitMirrors, FoundInv
<1>2. ASSUME IInv, FoundInv, Next, NEW i \in Conn, CwdWorks, phase = "run",
             url'[i].server # url[i].server
      PROVE  HasFile(url'[i]) \/ \E j \in logged : url'[i] = url[j]
  <2>1. Main
    <3>1. ~ Search
      BY <1>2, StepPings DEF Search, IInv, Pings
    <3>2. ~ Setup
      BY <1>2 DEF Setup
    <3>3. ~ OtherLeaves
      BY <1>2 DEF OtherLeaves
    <3>4. ~ \E j \in Conn : Thread(j) \/ Break(j)
      BY <1>2, ThreadSteps DEF IInv, ThreadEffect, MainKeeps
    <3>5. QED
      BY <1>2, <3>1, <3>2, <3>3, <3>4 DEF Next
  <2>2. Relaunches
    BY <1>2, <2>1, MainSteps DEF Cancels, Walks
  <2>3. i = mi /\ url'[i] = goal
    BY <1>2, <2>2 DEF Relaunches, IInv, PlaceTypes
  <2>4. goal.server = url[mi].server \/ Trusted(goal)
    BY <1>2, <2>2 DEF FoundInv, Relaunches
  <2>5. QED
    BY <1>2, <2>3, <2>4 DEF Trusted
<1>3. IInv /\ FoundInv /\ [Next]_vars =>
        [\A i \in Conn : CwdWorks /\ phase = "run" /\ url'[i].server # url[i].server =>
           HasFile(url'[i]) \/ \E j \in logged : url'[i] = url[j]]_vars
  BY <1>2
<1>4. QED
  BY <1>1, <1>3, SpecIInv, NextFound, PTL DEF Spec, SwitchesToFound
=============================================================================
