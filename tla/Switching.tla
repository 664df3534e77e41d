----------------------------- MODULE Switching ------------------------------
(***************************************************************************)
(* The control plane of a download from mirrors (download.c,               *)
(* download_handle_threads_ftpsearch): connections talk to different FTP   *)
(* servers, and the main thread sends one that failed to another path of   *)
(* its server or to a server another connection downloads from.  As in     *)
(* Supervision each read of a status, of an err and each count is a step.  *)
(* What servers hold does not change during a download; connections may    *)
(* break.  A download that is resumed begins with what its log says.       *)
(***************************************************************************)
EXTENDS Mirrors

CONSTANTS
  Downloads,   \* what may be downloaded: [site, proxied, logged, begun], where site
               \* is [server -> [slots, refuse, rest, pasv, busy, has]]
  MaxFaults    \* bound: attempts that break

ASSUME SwitchingAssumption ==
  /\ MaxFaults \in Nat
  /\ \A d \in Downloads :
       /\ d.proxied \in BOOLEAN /\ d.logged \subseteq Conn /\ d.begun \in BOOLEAN
       /\ \A h \in DOMAIN d.site : \A p \in Dirs :
            d.site[h].has[p] \in {"ok", "nofile", "nocwd"}

VARIABLES
  site,            \* what the servers are like
  proxied,         \* does the FTP routine hand over to an HTTP proxy?
  logged,          \* connections that the log of an earlier run says are complete
  others,          \* servers where another client holds a session
  url,             \* connection->u
  status, err,     \* connection->status, connection->err
  tpc, rv,         \* where the thread is; what proz_ftp_get_file returns
  begun,           \* has the first connection received bytes of its range?
  mpc, mi, mj,     \* main thread: where it is, its loop indices
  why,             \* main: the status or err it acts on
  goal, waits,     \* main: the URL to relaunch with; will it wait for the start?
  dling, again,    \* main: downloads it counted; second round of counting
  maxSimul,        \* mirrors[].max_simul_connections, by server
  result,          \* what proz_download_handle_threads returned
  faults           \* bound

threadVars == <<status, err, tpc, rv, begun>>
pollVars == <<mi, mj, why, goal, waits, dling, again, maxSimul, result>>
caseVars == <<site, proxied, logged>>
vars == <<mirrorVars, caseVars, others, url, threadVars, mpc, pollVars, faults>>

Servers == {mirrors[j].name : j \in DOMAIN mirrors}
NoUrl == [server |-> "none", path |-> "none"]

Init ==
  /\ InitMirrors
  /\ \E d \in Downloads :
       /\ DOMAIN d.site = Servers
       /\ site = d.site /\ proxied = d.proxied /\ logged = d.logged /\ begun = d.begun
  /\ others = {s \in Servers : site[s].busy}
  /\ url = [i \in Conn |-> NoUrl]
  /\ status = [i \in Conn |-> "IDLE"] /\ err = [i \in Conn |-> "none"]
  /\ tpc = [i \in Conn |-> "off"] /\ rv = [i \in Conn |-> "none"]
  /\ mpc = "off" /\ mi = 0 /\ mj = 0 /\ why = "none" /\ goal = NoUrl /\ waits = FALSE
  /\ dling = 0 /\ again = FALSE /\ maxSimul = [s \in Servers |-> 0]
  /\ result = "none" /\ faults = 0

Search == PingStep /\ UNCHANGED <<caseVars, others, url, threadVars, mpc, pollVars, faults>>

(* The connections are set up, the log of an earlier run is loaded, which  *)
(* may complete some, and a thread is created for each, if a server        *)
(* answered; otherwise the download is one from the original server.       *)
Setup ==
  /\ phase = "sorted"
  /\ IF SomeAnswered
     THEN /\ phase' = "run" /\ mpc' = "poll"
          /\ url' = [i \in Conn |-> Allocated(i)]
          /\ status' = [i \in Conn |-> IF i \in logged THEN "COMPLETED" ELSE "IDLE"]
          /\ tpc' = [i \in Conn |-> "start"]
     ELSE phase' = "original" /\ UNCHANGED <<mpc, url, status, tpc>>
  /\ UNCHANGED <<pingVars, caseVars, others, err, rv, begun, pollVars, faults>>
-----------------------------------------------------------------------------
(***************************************************************************)
(* A connection thread: ftp_loop and proz_ftp_get_file.                    *)
(***************************************************************************)
Set(i, s, pc) ==
  /\ status' = [status EXCEPT ![i] = s]
  /\ tpc' = [tpc EXCEPT ![i] = pc]
Return(i, s, e) == Set(i, s, "return") /\ rv' = [rv EXCEPT ![i] = e]

ThreadOnly == UNCHANGED <<mirrorVars, caseVars, others, url, pollVars>>

Host(i) == url[i].server
Here(i) == site[Host(i)]

(* Nothing to do for a completed connection; otherwise a broadcast, for    *)
(* which the main thread may wait.                                         *)
Start(i) ==
  /\ tpc[i] = "start"
  /\ IF status[i] = "COMPLETED" THEN Return(i, "COMPLETED", "OK") /\ UNCHANGED mpc
     ELSE /\ Set(i, "CONNECTING", "connect") /\ UNCHANGED rv
          /\ mpc' = IF mpc = "wait" /\ mi = i THEN "next" ELSE mpc
  /\ UNCHANGED <<err, begun, faults>> /\ ThreadOnly

(* The connections the server at i's end has logged in, or has greeted     *)
(* when it refuses in the greeting.                                        *)
InSession(j) ==
  \/ tpc[j] \in {"request", "accept", "transfer", "return"}
  \/ tpc[j] = "login" /\ Here(j).refuse = "greeting"
Full(i) ==
  Cardinality({j \in Conn : Host(j) = Host(i) /\ InSession(j)
                 /\ rv[j] \notin {"FTPCONREFUSED", "FTPLOGREFUSED", "CONERR"}})
    + Cardinality(others \cap {Host(i)}) >= Here(i).slots

OtherLeaves ==
  /\ \E s \in others : others' = others \ {s}
  /\ UNCHANGED <<mirrorVars, caseVars, url, threadVars, mpc, pollVars, faults>>

(* A proxy is only connected to, and logs in to the server by itself.      *)
Connect(i) ==
  /\ tpc[i] = "connect"
  /\ IF proxied
     THEN tpc' = [tpc EXCEPT ![i] = "request"] /\ UNCHANGED <<status, rv>>
     ELSE IF Here(i).refuse = "greeting" /\ Full(i)
     THEN Return(i, "CONREJECT", "FTPCONREFUSED")
     ELSE Set(i, "LOGGININ", "login") /\ UNCHANGED rv
  /\ UNCHANGED <<err, begun, mpc, faults>> /\ ThreadOnly

Login(i) ==
  /\ tpc[i] = "login"
  /\ IF Here(i).refuse = "password" /\ Full(i)
     THEN Return(i, "LOGINFAIL", "FTPLOGREFUSED")
     ELSE tpc' = [tpc EXCEPT ![i] = "request"] /\ UNCHANGED <<status, rv>>
  /\ UNCHANGED <<err, begun, mpc, faults>> /\ ThreadOnly

(* The error with which the server answers CWD, REST, unless the range is  *)
(* still to be read from offset 0, or RETR, and the proxy GET.             *)
Answer(i) ==
  LET has   == Here(i).has[url[i].path]
      rests == i > 0 \/ begun
  IN CASE proxied /\ has # "ok"                    -> "FTPNSFOD"
       [] proxied /\ has = "ok" /\ rests /\ ~Here(i).rest -> "CANTRESUME"
       [] ~proxied /\ has = "nocwd"                -> "FTPCWDFAIL"
       [] ~proxied /\ has # "nocwd" /\ rests /\ ~Here(i).rest -> "FTPRESTFAIL"
       [] ~proxied /\ has = "nofile" /\ (Here(i).rest \/ ~rests) -> "FTPNSFOD"
       [] OTHER -> "OK"

(* A server that does not take PASV is asked to connect back, with PORT.   *)
Request(i) ==
  /\ tpc[i] = "request"
  /\ IF Answer(i) # "OK" THEN Return(i, "REMOTEFATAL", Answer(i))
     ELSE /\ IF proxied \/ Here(i).pasv THEN Set(i, "DOWNLOADING", "transfer")
             ELSE tpc' = [tpc EXCEPT ![i] = "accept"] /\ UNCHANGED status
          /\ UNCHANGED rv
  /\ UNCHANGED <<err, begun, mpc, faults>> /\ ThreadOnly

(* accept() has no timeout: it returns when the server connects, if it     *)
(* does.                                                                   *)
Accept(i) ==
  /\ tpc[i] = "accept"
  /\ Set(i, "DOWNLOADING", "transfer")
  /\ UNCHANGED <<err, rv, begun, mpc, faults>> /\ ThreadOnly

Finish(i) ==
  /\ tpc[i] = "transfer"
  /\ Return(i, "COMPLETED", "OK")
  /\ UNCHANGED <<err, begun, mpc, faults>> /\ ThreadOnly

(* The status and the error with which an attempt breaks at its stage: a   *)
(* server or a proxy that cannot be reached or gives up, a data connection *)
(* that cannot be made or accepted, a transfer that stops, a full disk.    *)
Breaks(i) ==
  CASE tpc[i] = "connect"  -> {<<IF proxied THEN status[i] ELSE "REMOTEFATAL", "CONERR">>}
    [] tpc[i] = "login"    -> {<<"REMOTEFATAL", "FTPERR">>}
    [] tpc[i] = "request"  -> {<<"REMOTEFATAL", "FTPERR">>}
                              \cup (IF proxied THEN {<<"LOGINFAIL", "FTPLOGREFUSED">>} ELSE {})
    [] tpc[i] = "accept"   -> {<<status[i], "ACCEPTERR">>}
    [] tpc[i] = "transfer" -> {<<"TIMEDOUT", "READERR">>, <<"REMOTEFATAL", "READERR">>,
                               <<"LOCALFATAL", "FWRITEERR">>}
    [] OTHER               -> {}

(* Before or, in a transfer, after the first bytes of the range.           *)
Break(i) ==
  /\ faults < MaxFaults /\ faults' = faults + 1
  /\ \E b \in Breaks(i) : Return(i, b[1], b[2])
  /\ begun' \in IF i = 0 /\ tpc[i] = "transfer" THEN {begun, TRUE} ELSE {begun}
  /\ UNCHANGED <<err, mpc>> /\ ThreadOnly

(* What ftp_loop does not leave to the main thread. *)
Retried == {"CONERR", "FTPERR", "ACCEPTERR", "READERR", "CANTRESUME"}

(* err is stored, and the loop ends the thread or tries again, after       *)
(* ACCEPTERR without having closed its session with the server.            *)
EndAttempt(i) ==
  /\ tpc[i] = "return"
  /\ err' = [err EXCEPT ![i] = rv[i]]
  /\ rv' = [rv EXCEPT ![i] = "none"]
  /\ tpc' = [tpc EXCEPT ![i] = IF rv[i] \in Retried THEN "start" ELSE "ended"]
  /\ others' = IF rv[i] = "ACCEPTERR" THEN others \cup {Host(i)} ELSE others
  /\ UNCHANGED <<mirrorVars, caseVars, url, status, begun, mpc, pollVars, faults>>

Thread(i) ==
  \/ Start(i) \/ Connect(i) \/ Login(i) \/ Request(i) \/ Accept(i) \/ Finish(i)
  \/ EndAttempt(i)
-----------------------------------------------------------------------------
(***************************************************************************)
(* The main thread: download_handle_threads_ftpsearch.                     *)
(***************************************************************************)
AllStatus(s) == \A i \in Conn : status[i] = s
CountOn(h, s) == Cardinality({i \in Conn : status[i] = s /\ Host(i) = h})

MainOnly == UNCHANGED <<mirrorVars, caseVars, others, url, threadVars, faults>>

Poll ==
  /\ mpc = "poll"
  /\ mpc' = IF AllStatus("COMPLETED") THEN "finish" ELSE "scan"
  /\ mi' = 0
  /\ UNCHANGED <<mj, why, goal, waits, dling, again, maxSimul, result>> /\ MainOnly

(* MUTANT of JoinAll: the threads are not joined. *)
FinishAtOnce ==
  /\ mpc = "finish"
  /\ mpc' = "returned" /\ result' = "DLDONE"
  /\ UNCHANGED <<mi, mj, why, goal, waits, dling, again, maxSimul>> /\ MainOnly

JoinAll ==
  /\ mpc = "finish" /\ \A i \in Conn : tpc[i] = "ended"
  /\ mpc' = "returned" /\ result' = "DLDONE"
  /\ UNCHANGED <<mi, mj, why, goal, waits, dling, again, maxSimul>> /\ MainOnly

ReadStatus ==
  /\ mpc = "scan" /\ mi < N
  /\ why' = status[mi]
  /\ mpc' = CASE status[mi] = "REMOTEFATAL"                -> "readerr"
              [] status[mi] = "LOCALFATAL"                 -> "localfatal"
              [] status[mi] \in {"LOGINFAIL", "CONREJECT"} -> "same"
              [] OTHER                                     -> "next"
  /\ UNCHANGED <<mi, mj, goal, waits, dling, again, maxSimul, result>> /\ MainOnly

NextConn ==
  /\ mpc = "next"
  /\ mpc' = "scan" /\ mi' = mi + 1
  /\ mj' = 0 /\ why' = "none" /\ goal' = NoUrl /\ waits' = FALSE /\ dling' = 0 /\ again' = FALSE
  /\ UNCHANGED <<maxSimul, result>> /\ MainOnly

EndOfPoll ==
  /\ mpc = "scan" /\ mi = N
  /\ mpc' = "poll" /\ mi' = 0
  /\ UNCHANGED <<mj, why, goal, waits, dling, again, maxSimul, result>> /\ MainOnly

Stop(r) ==
  /\ tpc' = [i \in Conn |-> "cancelled"]
  /\ mpc' = "returned" /\ result' = r
  /\ UNCHANGED <<mirrorVars, caseVars, others, url, status, err, rv, begun, faults>>
  /\ UNCHANGED <<mi, mj, why, goal, waits, dling, again, maxSimul>>

StopLocalFatal == mpc = "localfatal" /\ Stop("DLLOCALFATAL")

(* Errors that the main thread deals with, and which other errors count as *)
(* the same when it asks whether all connections met it.                   *)
Alike(e) ==
  CASE e = "FTPCWDFAIL" -> {"FTPNSFOD", "FTPCWDFAIL"}
    [] OTHER            -> {e}

ReadErr ==
  /\ mpc = "readerr"
  /\ IF err[mi] = "CANTRESUME" THEN Stop("CANTRESUME")
     ELSE /\ why' = err[mi]
          /\ mpc' = IF err[mi] \in {"FTPNSFOD", "FTPCWDFAIL", "FTPRESTFAIL"} THEN "all"
                    ELSE "next"
          /\ UNCHANGED <<mi, mj, goal, waits, dling, again, maxSimul, result>> /\ MainOnly

(* proz_download_all_dls_filensfod, _ftpcwdfail and _err read one err at a *)
(* time.                                                                   *)
AllErrs ==
  /\ mpc = "all"
  /\ IF mj = N THEN Stop("DLREMOTEFATAL")
     ELSE /\ IF err[mj] \in Alike(why)
             THEN mj' = mj + 1 /\ mpc' = mpc
             ELSE mj' = 0 /\ mpc' = IF why = "FTPRESTFAIL" THEN "switch" ELSE "path"
          /\ UNCHANGED <<mi, why, goal, waits, dling, again, maxSimul, result>> /\ MainOnly

(* The URL of the next path of a list, after the one that connection mi    *)
(* has; or no path is left, and a server is looked for.  After FTPCWDFAIL  *)
(* the new thread is not waited for.                                       *)
FollowIn(paths) ==
  LET p == PathPosition(Host(mi), url[mi].path) IN
  /\ IF p < Len(paths)
     THEN /\ goal' = [url[mi] EXCEPT !.path = Parsed[paths[p + 1]]]
          /\ waits' = (why = "FTPNSFOD") /\ mpc' = "join"
     ELSE mpc' = "switch" /\ UNCHANGED <<goal, waits>>
  /\ UNCHANGED <<mi, mj, why, dling, again, maxSimul, result>> /\ MainOnly

(* MUTANT of NextPath: the paths of the server at the connection's index. *)
NextPathOfOther ==
  /\ mpc = "path"
  /\ IF Contains(PathsOn(Host(mi)), url[mi].path) THEN FollowIn(mirrors[mi + 1].paths)
     ELSE Stop("died")

(* A directory that parsing has changed is not found in the list, and an   *)
(* assertion ends the process.                                             *)
NextPath ==
  /\ mpc = "path"
  /\ IF Contains(PathsOn(Host(mi)), url[mi].path) THEN FollowIn(PathsOn(Host(mi)))
     ELSE Stop("died")

(* MUTANT of Usable: one that is still logging in is usable, too. *)
UsableSoon ==
  {j \in Conn : /\ status[j] \in {"DOWNLOADING", "COMPLETED", "LOGGININ"}
                /\ why \in {"LOGINFAIL", "CONREJECT"} => j # mi}

(* Connections whose server may be used, and the one that is: the last.    *)
Usable ==
  {j \in Conn : /\ status[j] \in {"DOWNLOADING", "COMPLETED"}
                /\ why \in {"LOGINFAIL", "CONREJECT"} => j # mi}

Switch ==
  /\ mpc = "switch"
  /\ IF Usable = {}
     THEN /\ mpc' = IF why \in {"LOGINFAIL", "CONREJECT"} THEN "count" ELSE "next"
          /\ UNCHANGED <<goal, waits>>
     ELSE /\ \E j \in Usable : (\A g \in Usable : g <= j) /\ goal' = url[j]
          /\ waits' = TRUE /\ mpc' = "join"
  /\ UNCHANGED <<mi, mj, why, dling, again, maxSimul, result>> /\ MainOnly


(* LOGINFAIL and CONREJECT: if every connection was turned away, try this  *)
(* one again; else another server; else count what the server does.        *)
AllSame ==
  /\ mpc = "same"
  /\ IF AllStatus(why)
     THEN goal' = url[mi] /\ waits' = TRUE /\ mpc' = "join"
     ELSE mpc' = "switch" /\ UNCHANGED <<goal, waits>>
  /\ UNCHANGED <<mi, mj, why, dling, again, maxSimul, result>> /\ MainOnly

CountDownloading ==
  LET c == CountOn(Host(mi), "DOWNLOADING") IN
  /\ mpc = "count"
  /\ dling' = c
  /\ maxSimul' = [maxSimul EXCEPT ![Host(mi)] = IF c > @ THEN c ELSE @]
  /\ mpc' = IF c <= maxSimul[Host(mi)] /\ (c = 0 \/ c < maxSimul[Host(mi)])
            THEN "connecting" ELSE "next"
  /\ UNCHANGED <<mi, mj, why, goal, waits, again, result>> /\ MainOnly

(* With no download on the server the code asks twice. *)
CountBusy ==
  /\ mpc \in {"connecting", "loggingin"}
  /\ IF CountOn(Host(mi), IF mpc = "connecting" THEN "CONNECTING" ELSE "LOGGININ") = 0
     THEN /\ UNCHANGED again
          /\ IF mpc = "connecting" THEN mpc' = "loggingin" /\ UNCHANGED <<goal, waits>>
             ELSE mpc' = "join" /\ goal' = url[mi] /\ waits' = TRUE
     ELSE /\ UNCHANGED <<goal, waits>>
          /\ IF dling = 0 /\ dling < maxSimul[Host(mi)] /\ ~again
             THEN mpc' = "connecting" /\ again' = TRUE
             ELSE mpc' = "next" /\ UNCHANGED again
  /\ UNCHANGED <<mi, mj, why, dling, maxSimul, result>> /\ MainOnly

(* MUTANT of Relaunch: the thread is not joined before its URL is changed. *)
RelaunchAtOnce ==
  /\ mpc = "join" /\ tpc[mi] # "return"
  /\ tpc' = [tpc EXCEPT ![mi] = "start"]
  /\ url' = [url EXCEPT ![mi] = goal]
  /\ mpc' = IF waits THEN "wait" ELSE "next"
  /\ UNCHANGED <<mirrorVars, caseVars, others, status, err, rv, begun, pollVars, faults>>

(* pthread_join, the new URL, pthread_create and mostly pthread_cond_wait. *)
Relaunch ==
  /\ mpc = "join" /\ tpc[mi] = "ended"
  /\ tpc' = [tpc EXCEPT ![mi] = "start"]
  /\ url' = [url EXCEPT ![mi] = goal]
  /\ mpc' = IF waits THEN "wait" ELSE "next"
  /\ UNCHANGED <<mirrorVars, caseVars, others, status, err, rv, begun, pollVars, faults>>

Main ==
  \/ Poll \/ JoinAll \/ ReadStatus \/ NextConn \/ EndOfPoll \/ StopLocalFatal
  \/ ReadErr \/ AllErrs \/ NextPath \/ Switch \/ AllSame \/ CountDownloading
  \/ CountBusy \/ Relaunch

Next == Search \/ Setup \/ OtherLeaves \/ Main \/ \E i \in Conn : Thread(i) \/ Break(i)

Spec == Init /\ [][Next]_vars

(* Pings end within their timeout, each thread is scheduled and what it    *)
(* waits for ends, unless it waits in accept(), which has no timeout;      *)
(* other clients log out, and the window keeps polling.                    *)
Fairness ==
  /\ WF_vars(Search) /\ WF_vars(Setup) /\ WF_vars(OtherLeaves) /\ WF_vars(Main)
  /\ \A i \in Conn : WF_vars(tpc[i] # "accept" /\ Thread(i))

FairSpec == Spec /\ Fairness
-----------------------------------------------------------------------------
Statuses == {"IDLE", "CONNECTING", "LOGGININ", "DOWNLOADING", "COMPLETED",
             "LOGINFAIL", "CONREJECT", "REMOTEFATAL", "LOCALFATAL", "TIMEDOUT"}
Errs == {"none", "OK", "FTPCONREFUSED", "FTPLOGREFUSED", "FTPCWDFAIL", "FTPRESTFAIL",
         "FTPNSFOD", "CANTRESUME", "CONERR", "FTPERR", "ACCEPTERR", "READERR", "FWRITEERR"}

TypeOK ==
  /\ MirrorsTypeOK
  /\ \A i \in Conn : phase = "run" =>
       /\ Host(i) \in Servers
       /\ \E g \in DOMAIN PathsOn(Host(i)) : url[i].path = Parsed[PathsOn(Host(i))[g]]
  /\ status \in [Conn -> Statuses] /\ err \in [Conn -> Errs] /\ rv \in [Conn -> Errs]
  /\ tpc \in [Conn -> {"off", "start", "connect", "login", "request", "accept",
                       "transfer", "return", "ended", "cancelled"}]
  /\ others \subseteq Servers /\ begun \in BOOLEAN /\ waits \in BOOLEAN /\ again \in BOOLEAN
  /\ mpc \in {"off", "poll", "finish", "scan", "next", "readerr", "localfatal", "all",
              "path", "switch", "same", "count", "connecting", "loggingin", "join",
              "wait", "returned"}
  /\ mi \in 0 .. N /\ mj \in 0 .. N /\ why \in Statuses \cup Errs
  /\ dling \in 0 .. N /\ maxSimul \in [Servers -> 0 .. N]
  /\ result \in {"none", "DLDONE", "DLREMOTEFATAL", "DLLOCALFATAL", "CANTRESUME", "died"}
  /\ faults \in 0 .. MaxFaults

(* Every directory of the list exists on its server. *)
CwdWorks ==
  \A j \in DOMAIN mirrors : LET m == mirrors[j] IN
    \A g \in DOMAIN m.paths : site[m.name].has[Parsed[m.paths[g]]] # "nocwd"

(* Every connection starts on a server that answered its ping, none on one *)
(* more than twice as slow as another that was left out.                   *)
StartsOnFast ==
  [][phase = "sorted" /\ phase' = "run" =>
       \A i \in Conn : \E j \in DOMAIN mirrors :
         /\ mirrors[j].name = url'[i].server /\ mirrors[j].status = "RESPONSEOK"
         /\ \A g \in DOMAIN mirrors :
              mirrors[g].status = "RESPONSEOK" => mirrors[j].ms <= 2 * mirrors[g].ms]_vars

(* A connection's URL is only changed while it has no thread: a thread     *)
(* reads host, path and file from it without a lock.                       *)
UrlChangesAtRest ==
  [][\A i \in Conn : url'[i] # url[i] => tpc[i] \in {"off", "ended"}]_vars

HasFile(u) == site[u.server].has[u.path] = "ok"

(* A connection is only ever sent to another server where the file was     *)
(* found and a transfer began, although the status that said so may have   *)
(* changed while the connection's old thread was waited for; or else to    *)
(* the URL of a connection that the log says is complete, which nobody has *)
(* tried in this run.  (Not so when a directory is missing: the relaunch   *)
(* that does not wait lets a stale error send a connection that completed  *)
(* to a path nobody tried.)                                                *)
SwitchesToFound ==
  [][\A i \in Conn : CwdWorks /\ phase = "run" /\ url'[i].server # url[i].server =>
       HasFile(url'[i]) \/ \E j \in logged : url'[i] = url[j]]_vars

(* When an end is reported no thread is left that could still write, and   *)
(* DLDONE means that every range was fetched.                              *)
EndIsClean ==
  result # "none" =>
    /\ \A i \in Conn : tpc[i] \in {"ended", "cancelled"}
    /\ result = "DLDONE" => \A i \in Conn : status[i] = "COMPLETED" /\ err[i] = "OK"

(* Servers that support REST, with every directory, none listed twice and  *)
(* each written as parsing leaves it.                                      *)
Plain ==
  /\ CwdWorks
  /\ \A j \in DOMAIN mirrors : LET m == mirrors[j] IN
       /\ site[m.name].rest /\ IsInjective(m.paths)
       /\ \A g \in DOMAIN m.paths : Parsed[m.paths[g]] = m.paths[g]

(* A connection that the log completed was given a URL without the file.   *)
Blind == phase = "run" /\ \E i \in logged : ~HasFile(url[i])

=============================================================================
