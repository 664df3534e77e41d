----------------------------- MODULE Supervision -----------------------------
(***************************************************************************)
(* The control plane of a download (libprozilla download.c, ftp-retr.c,    *)
(* http-retr.c): one thread per connection runs ftp_loop or http_loop; the *)
(* main thread polls the connections' status and err, relaunches the       *)
(* threads that passed an error up to it, and decides when the download is *)
(* done or has failed.                                                     *)
(*                                                                         *)
(* status is only read and written under the shared status_change_mutex    *)
(* and err under (or racing with) access_mutex, each for one access at a   *)
(* time, so an access is a step.  The one place that keeps a mutex across  *)
(* steps, pthread_create followed by pthread_cond_wait, gives it up in the *)
(* wait: the new thread cannot broadcast before the wait has begun.        *)
(***************************************************************************)
EXTENDS Integers, FiniteSets

CONSTANTS
  N,               \* number of connections
  Protos,          \* protocols the URL may have: "ftp", "http"
  Proxied,         \* may FTP go through an HTTP proxy?
  Modes,           \* of FTP data connections: "passive", "active"
  Slots,           \* sessions the server grants to this client at a time
  RefuseAt,        \* where it refuses more: "greeting" or "password"
  Failures,        \* the kinds of failure the server or the network may show
  MaxFaults,       \* bound: how many of them
  MaxAttempts      \* connection->max_attempts; 0 means unlimited

ASSUME SupervisionAssumption ==
  /\ N \in Nat \ {0} /\ Slots \in Nat \ {0}
  /\ MaxFaults \in Nat /\ MaxAttempts \in Nat
  /\ Protos \subseteq {"ftp", "http"} /\ Proxied \subseteq BOOLEAN
  /\ Modes \subseteq {"passive", "active"} /\ RefuseAt \in {"greeting", "password"}

Conn == 0 .. (N - 1)

VARIABLES
  proto,           \* the protocol of the URL
  proxied,         \* does the FTP routine hand over to an HTTP proxy?
  status, err,     \* connection->status, connection->err
  attempts,        \* connection->attempts, not counted further than needed
  tpc, rv,         \* where the thread is; what proz_*_get_file is returning
  loop,            \* which loop the thread runs: "ftp" or "http"
  session,         \* does the server hold a session for the connection?
  lost,            \* sessions the server still holds whose sockets were lost
  mpc, mi, mj,     \* main thread: where it is, its loop indices
  st,              \* main: the status it read
  dling, again,    \* main: downloads it counted; second round of counting
  maxSimul,        \* download->max_simul_connections
  result,          \* what proz_download_handle_threads returned
  faults           \* bound

threadVars == <<proto, proxied, status, err, attempts, tpc, rv, loop, session>>
mainVars == <<mpc, mi, mj, st, dling, again, maxSimul, result>>
vars == <<threadVars, lost, mainVars, faults>>

NotFound == {"FTPNSFOD", "HTTPNSFOD"}

(* What ftp_loop_handle_error and http_loop_handle_error leave to the main *)
(* thread.                                                                 *)
PassedUp(l) ==
  IF l = "ftp"
  THEN {"FTPNSFOD", "FTPLOGREFUSED", "FTPCONREFUSED", "FWRITEERR", "FOPENERR",
        "FTPCWDFAIL", "FTPRESTFAIL"}
  ELSE {"HTTPNSFOD", "FWRITEERR", "FOPENERR", "CANTRESUME"}

Count(s) == Cardinality({i \in Conn : status[i] = s})
AllStatus(s) == \A i \in Conn : status[i] = s

Init ==
  /\ proto \in Protos /\ proxied \in Proxied
  /\ status = [i \in Conn |-> "IDLE"] /\ err = [i \in Conn |-> "none"]
  /\ attempts = [i \in Conn |-> 0]
  /\ tpc = [i \in Conn |-> "start"] /\ rv = [i \in Conn |-> "none"]
  /\ loop = [i \in Conn |-> proto] /\ session = [i \in Conn |-> FALSE] /\ lost = 0
  /\ mpc = "poll" /\ mi = 0 /\ mj = 0 /\ st = "none"
  /\ dling = 0 /\ again = FALSE /\ maxSimul = 0 /\ result = "none"
  /\ faults = 0

-----------------------------------------------------------------------------
(***************************************************************************)
(* A connection thread.                                                    *)
(***************************************************************************)

Set(i, s, pc) ==
  /\ status' = [status EXCEPT ![i] = s]
  /\ tpc' = [tpc EXCEPT ![i] = pc]

(* proz_*_get_file is about to return e, with the status already changed. *)
Return(i, s, e) == Set(i, s, "return") /\ rv' = [rv EXCEPT ![i] = e]

(* MUTANT of Start: the broadcast is forgotten. *)
StartSilently(i) ==
  /\ tpc[i] = "start"
  /\ IF status[i] = "COMPLETED" THEN Return(i, "COMPLETED", "OK")
     ELSE Set(i, "CONNECTING", "connect") /\ UNCHANGED rv
  /\ UNCHANGED <<proto, proxied, err, attempts, loop, session, lost, mainVars, faults>>

(* MUTANT of Start: a completed connection connects again. *)
StartAlways(i) ==
  /\ tpc[i] = "start"
  /\ Set(i, "CONNECTING", "connect")
  /\ mpc' = IF loop[i] = "ftp" /\ mpc = "wait" /\ mi = i THEN "next" ELSE mpc
  /\ UNCHANGED <<proto, proxied, err, attempts, rv, loop, session, lost, mi, mj, st, dling, again,
                 maxSimul, result, faults>>

(* Entry of proz_ftp_get_file and proz_http_get_file: nothing to do for a  *)
(* completed connection, otherwise CONNECTING, which only the FTP routine  *)
(* broadcasts.                                                             *)
Start(i) ==
  /\ tpc[i] = "start"
  /\ IF status[i] = "COMPLETED"
     THEN Return(i, "COMPLETED", "OK") /\ UNCHANGED mainVars
     ELSE /\ Set(i, "CONNECTING", "connect") /\ UNCHANGED rv
          /\ IF loop[i] = "ftp" /\ mpc = "wait" /\ mi = i
             THEN mpc' = "next" /\ UNCHANGED <<mi, mj, st, dling, again, maxSimul, result>>
             ELSE UNCHANGED mainVars
  /\ UNCHANGED <<proto, proxied, err, attempts, loop, session, lost, faults>>

Sessions == Cardinality({i \in Conn : session[i]}) + lost

(* Which routine an attempt runs: proz_ftp_get_file hands over to          *)
(* ftp_get_file_from_http_proxy when such a proxy is used, for any URL.    *)
Routine(i) == IF loop[i] = "ftp" /\ proxied THEN "proxy" ELSE loop[i]

(* The FTP routine without a proxy never gets a greeting from a server     *)
(* that speaks HTTP.                                                       *)
Greeted(i) == Routine(i) = "ftp" => proto = "ftp"

(* ftp_connect_to_server reads the greeting of an FTP server; a proxy is   *)
(* only connected to, and logs in to the server by itself.                 *)
Connect(i) ==
  /\ tpc[i] = "connect" /\ Greeted(i)
  /\ IF Routine(i) # "ftp"
     THEN /\ tpc' = [tpc EXCEPT ![i] = "request"]
          /\ UNCHANGED <<status, rv, session>>
     ELSE IF RefuseAt = "greeting" /\ Sessions >= Slots
     THEN Return(i, "CONREJECT", "FTPCONREFUSED") /\ UNCHANGED session
     ELSE /\ Set(i, "LOGGININ", "login") /\ UNCHANGED rv
          /\ session' = [session EXCEPT ![i] = (RefuseAt = "greeting")]
  /\ UNCHANGED <<proto, proxied, err, attempts, loop, lost, mainVars, faults>>

NoGreeting(i) ==
  /\ tpc[i] = "connect" /\ ~Greeted(i)
  /\ Return(i, "REMOTEFATAL", "FTPERR")
  /\ UNCHANGED <<proto, proxied, err, attempts, loop, session, lost, mainVars, faults>>

Login(i) ==
  /\ tpc[i] = "login"
  /\ IF RefuseAt = "password" /\ Sessions >= Slots
     THEN Return(i, "LOGINFAIL", "FTPLOGREFUSED") /\ UNCHANGED session
     ELSE /\ tpc' = [tpc EXCEPT ![i] = "request"]
          /\ session' = [session EXCEPT ![i] = TRUE]
          /\ UNCHANGED <<status, rv>>
  /\ UNCHANGED <<proto, proxied, err, attempts, loop, lost, mainVars, faults>>

(* CWD, REST and RETR, or GET and its headers, succeed: the transfer runs, *)
(* once the server has connected back if the mode is active.               *)
Transfer(i) ==
  /\ tpc[i] = "request" /\ (Routine(i) = "ftp" => "passive" \in Modes)
  /\ Set(i, "DOWNLOADING", "transfer")
  /\ UNCHANGED <<proto, proxied, err, attempts, rv, loop, session, lost, mainVars, faults>>

Retrieve(i) ==
  /\ tpc[i] = "request" /\ Routine(i) = "ftp" /\ "active" \in Modes
  /\ tpc' = [tpc EXCEPT ![i] = "accept"]
  /\ UNCHANGED <<proto, proxied, status, err, attempts, rv, loop, session, lost, mainVars, faults>>

(* accept() has no timeout: it returns when the server connects, if it     *)
(* does.                                                                   *)
Accept(i) ==
  /\ tpc[i] = "accept"
  /\ Set(i, "DOWNLOADING", "transfer")
  /\ UNCHANGED <<proto, proxied, err, attempts, rv, loop, session, lost, mainVars, faults>>

Finish(i) ==
  /\ tpc[i] = "transfer"
  /\ Return(i, "COMPLETED", "OK")
  /\ UNCHANGED <<proto, proxied, err, attempts, loop, session, lost, mainVars, faults>>

(* The failures of each stage: the status the thread sets and the error it *)
(* returns.  An FTP data connection that cannot be accepted, and a proxy   *)
(* that cannot be connected to, leave the status as it is.                 *)
FailureTable ==
  LET row(r, at, k, s, e) == [routine |-> r, at |-> at, kind |-> k, s |-> s, e |-> e]
  IN {row("ftp",   "connect",  "connect",  "REMOTEFATAL", "CONERR"),
      row("ftp",   "login",    "login",    "REMOTEFATAL", "FTPERR"),
      row("ftp",   "request",  "cwd",      "REMOTEFATAL", "FTPCWDFAIL"),
      row("ftp",   "request",  "pasv",     "REMOTEFATAL", "FTPERR"),
      row("ftp",   "request",  "connect",  "REMOTEFATAL", "CONERR"),
      row("ftp",   "request",  "rest",     "REMOTEFATAL", "FTPRESTFAIL"),
      row("ftp",   "request",  "notfound", "REMOTEFATAL", "FTPNSFOD"),
      row("ftp",   "accept",   "accept",   "LOGGININ",    "ACCEPTERR"),
      row("proxy", "connect",  "connect",  "CONNECTING",  "CONERR"),
      row("proxy", "request",  "auth",     "LOGINFAIL",   "FTPLOGREFUSED"),
      row("proxy", "request",  "headers",  "REMOTEFATAL", "FTPERR"),
      row("proxy", "request",  "notfound", "REMOTEFATAL", "FTPNSFOD"),
      row("proxy", "request",  "norange",  "REMOTEFATAL", "CANTRESUME"),
      row("http",  "connect",  "connect",  "REMOTEFATAL", "CONERR"),
      row("http",  "request",  "headers",  "REMOTEFATAL", "HERR"),
      row("http",  "request",  "notfound", "REMOTEFATAL", "HTTPNSFOD"),
      row("http",  "request",  "norange",  "REMOTEFATAL", "CANTRESUME")}
     \cup UNION {{row(r, "transfer", "timeout", "TIMEDOUT",    "READERR"),
                  row(r, "transfer", "closed",  "REMOTEFATAL", "READERR"),
                  row(r, "transfer", "write",   "LOCALFATAL",  "FWRITEERR")}
                 : r \in {"ftp", "proxy", "http"}}

Fail(i) ==
  /\ faults < MaxFaults /\ faults' = faults + 1
  /\ Greeted(i)
  /\ \E f \in FailureTable :
       /\ f.routine = Routine(i) /\ f.at = tpc[i] /\ f.kind \in Failures
       \* REST is not sent for offset 0, where the first connection starts
       /\ f.kind = "rest" => i > 0 \/ err[i] # "none"
       /\ Return(i, f.s, f.e)
  /\ UNCHANGED <<proto, proxied, err, attempts, loop, session, lost, mainVars>>

(* MUTANT of EndAttempt: attempts are counted without a limit to reach. *)
EndCountsAttempt(i) ==
  /\ tpc[i] = "return"
  /\ session' = [session EXCEPT ![i] = FALSE]
  /\ lost' = IF rv[i] = "ACCEPTERR" THEN lost + 1 ELSE lost
  /\ err' = [err EXCEPT ![i] = rv[i]]
  /\ attempts' = [attempts EXCEPT ![i] = @ + 1]
  /\ tpc' = [tpc EXCEPT ![i] =
       IF rv[i] = "OK" \/ rv[i] \in PassedUp(loop[i]) THEN "ended" ELSE "start"]
  /\ rv' = [rv EXCEPT ![i] = "none"]
  /\ UNCHANGED <<proto, proxied, status, loop, mainVars, faults>>

(* The sockets are closed, except when the data connection could not be    *)
(* accepted: the next attempt forgets the control socket, and the server   *)
(* keeps its session until it times out.  err is stored, and the loop ends *)
(* the thread or tries again.                                              *)
EndAttempt(i) ==
  LET tries == IF MaxAttempts = 0 THEN 0 ELSE attempts[i] + 1
      over  == MaxAttempts # 0 /\ tries >= MaxAttempts IN
  /\ tpc[i] = "return"
  /\ session' = [session EXCEPT ![i] = FALSE]
  /\ lost' = IF rv[i] = "ACCEPTERR" THEN lost + 1 ELSE lost
  /\ err' = [err EXCEPT ![i] = rv[i]]
  /\ attempts' = [attempts EXCEPT ![i] = IF over THEN MaxAttempts ELSE tries]
  /\ tpc' = [tpc EXCEPT ![i] =
       IF rv[i] = "OK" \/ rv[i] \in PassedUp(loop[i]) \/ over THEN "ended" ELSE "start"]
  /\ rv' = [rv EXCEPT ![i] = "none"]
  /\ UNCHANGED <<proto, proxied, status, loop, mainVars, faults>>

(* The server times out an idle session. *)
DropSession ==
  /\ lost > 0 /\ lost' = lost - 1
  /\ UNCHANGED <<threadVars, mainVars, faults>>

Thread(i) ==
  \/ Start(i) \/ Connect(i) \/ NoGreeting(i) \/ Login(i)
  \/ Transfer(i) \/ Retrieve(i) \/ Accept(i)
  \/ Finish(i) \/ Fail(i) \/ EndAttempt(i)

-----------------------------------------------------------------------------
(***************************************************************************)
(* The main thread: download_handle_threads_no_ftpsearch, called again and *)
(* again while it answers DLINPROGRESS.                                    *)
(***************************************************************************)

Goto(pc) == mpc' = pc /\ UNCHANGED <<mi, mj, st, dling, again, maxSimul, result>>

Poll ==
  /\ mpc = "poll"
  /\ mpc' = IF AllStatus("COMPLETED") THEN "finish" ELSE "scan"
  /\ mi' = 0
  /\ UNCHANGED <<mj, st, dling, again, maxSimul, result, threadVars, lost, faults>>

(* MUTANT of JoinAll: the threads are not joined. *)
FinishAtOnce ==
  /\ mpc = "finish"
  /\ mpc' = "returned" /\ result' = "DLDONE"
  /\ UNCHANGED <<mi, mj, st, dling, again, maxSimul, threadVars, lost, faults>>

JoinAll ==
  /\ mpc = "finish" /\ \A i \in Conn : tpc[i] = "ended"
  /\ mpc' = "returned" /\ result' = "DLDONE"
  /\ UNCHANGED <<mi, mj, st, dling, again, maxSimul, threadVars, lost, faults>>

(* The switch on the status of connection mi. *)
ReadStatus ==
  /\ mpc = "scan" /\ mi < N
  /\ st' = status[mi]
  /\ mpc' = CASE status[mi] = "REMOTEFATAL"               -> "readerr"
              [] status[mi] = "LOCALFATAL"                -> "localfatal"
              [] status[mi] \in {"LOGINFAIL", "CONREJECT"} -> "same"
              [] OTHER                                    -> "next"
  /\ UNCHANGED <<mi, mj, dling, again, maxSimul, result, threadVars, lost, faults>>

NextConn ==
  /\ mpc = "next"
  /\ mpc' = "scan" /\ mi' = mi + 1
  /\ st' = "none" /\ mj' = 0 /\ dling' = 0 /\ again' = FALSE
  /\ UNCHANGED <<maxSimul, result, threadVars, lost, faults>>

(* download_calc_throttle_factor, then DLINPROGRESS. *)
EndOfPoll ==
  /\ mpc = "scan" /\ mi = N
  /\ mpc' = "poll" /\ mi' = 0
  /\ UNCHANGED <<mj, st, dling, again, maxSimul, result, threadVars, lost, faults>>

(* proz_download_stop_downloads: every thread is cancelled where it is. *)
Stop(r) ==
  /\ tpc' = [i \in Conn |-> "cancelled"]
  /\ session' = [i \in Conn |-> FALSE]
  /\ mpc' = "returned" /\ result' = r
  /\ UNCHANGED <<proto, proxied, status, err, attempts, rv, loop, lost, mi, mj, st, dling, again,
                 maxSimul, faults>>

StopLocalFatal == mpc = "localfatal" /\ Stop("DLLOCALFATAL")

(* MUTANT of ReadErr: any other error relaunches too. *)
ReadErrJoins ==
  /\ mpc = "readerr"
  /\ IF err[mi] = "CANTRESUME" THEN Stop("CANTRESUME")
     ELSE Goto("join") /\ UNCHANGED <<threadVars, lost, faults>>

(* MUTANT of ReadErr: the break before the next case is missing. *)
ReadErrFallsThrough ==
  /\ mpc = "readerr"
  /\ IF err[mi] = "CANTRESUME" THEN Stop("CANTRESUME")
     ELSE /\ Goto(IF err[mi] \in NotFound THEN "allnotfound"
                  ELSE IF err[mi] = "FTPCWDFAIL" THEN "allcwd" ELSE "localfatal")
          /\ UNCHANGED <<threadVars, lost, faults>>

(* err is read after status, in a step of its own. *)
ReadErr ==
  /\ mpc = "readerr"
  /\ IF err[mi] = "CANTRESUME" THEN Stop("CANTRESUME")
     ELSE /\ Goto(IF err[mi] \in NotFound THEN "allnotfound"
                  ELSE IF err[mi] = "FTPCWDFAIL" THEN "allcwd" ELSE "next")
          /\ UNCHANGED <<threadVars, lost, faults>>

(* proz_download_all_dls_filensfod / _ftpcwdfail read one err at a time. *)
AllErrs(pc, es) ==
  /\ mpc = pc
  /\ IF mj = N THEN Stop("DLREMOTEFATAL")
     ELSE /\ IF err[mj] \in es
             THEN mj' = mj + 1 /\ mpc' = mpc
             ELSE mj' = 0 /\ mpc' = "join"
          /\ UNCHANGED <<mi, st, dling, again, maxSimul, result, threadVars, lost, faults>>

AllNotFound == AllErrs("allnotfound", NotFound)
AllCwdFail  == AllErrs("allcwd", {"FTPNSFOD", "FTPCWDFAIL"})

(* LOGINFAIL and CONREJECT: if every connection was turned away, try this  *)
(* one again; else count the downloads, the connecting and the logging-in  *)
(* connections, one count after the other.                                 *)
AllSame ==
  /\ mpc = "same"
  /\ Goto(IF AllStatus(st) THEN "join" ELSE "count")
  /\ UNCHANGED <<threadVars, lost, faults>>

(* MUTANT of CountDownloading: no relaunch while nothing is downloading. *)
CountSomeDownloading ==
  LET c == Count("DOWNLOADING") IN
  /\ mpc = "count"
  /\ dling' = c
  /\ maxSimul' = IF c > maxSimul THEN c ELSE maxSimul
  /\ mpc' = IF 0 < c /\ c < maxSimul THEN "connecting" ELSE "next"
  /\ UNCHANGED <<mi, mj, st, again, result, threadVars, lost, faults>>

CountDownloading ==
  LET c == Count("DOWNLOADING") IN
  /\ mpc = "count"
  /\ dling' = c
  /\ maxSimul' = IF c > maxSimul THEN c ELSE maxSimul
  /\ mpc' = IF c <= maxSimul /\ (c = 0 \/ c < maxSimul) THEN "connecting" ELSE "next"
  /\ UNCHANGED <<mi, mj, st, again, result, threadVars, lost, faults>>

(* With no download running the code asks twice: first because none runs,  *)
(* then because fewer run than did at some time.                           *)
CountBusy(pc, s, free) ==
  /\ mpc = pc
  /\ IF Count(s) = 0 THEN mpc' = free /\ again' = again
     ELSE IF dling = 0 /\ dling < maxSimul /\ ~again
          THEN mpc' = "connecting" /\ again' = TRUE
          ELSE mpc' = "next" /\ again' = again
  /\ UNCHANGED <<mi, mj, st, dling, maxSimul, result, threadVars, lost, faults>>

CountConnecting == CountBusy("connecting", "CONNECTING", "loggingin")
CountLoggingIn  == CountBusy("loggingin", "LOGGININ", "join")

(* pthread_join, then with the status mutex held pthread_create and        *)
(* pthread_cond_wait: whatever the URL's protocol, the new thread runs     *)
(* ftp_loop.                                                               *)
Relaunch ==
  /\ mpc = "join" /\ tpc[mi] = "ended"
  /\ tpc' = [tpc EXCEPT ![mi] = "start"]
  /\ loop' = [loop EXCEPT ![mi] = "ftp"]
  /\ Goto("wait")
  /\ UNCHANGED <<proto, proxied, status, err, attempts, rv, session, lost, faults>>

Main ==
  \/ Poll \/ JoinAll \/ ReadStatus \/ NextConn \/ EndOfPoll \/ StopLocalFatal
  \/ ReadErr \/ AllNotFound \/ AllCwdFail \/ AllSame \/ CountDownloading
  \/ CountConnecting \/ CountLoggingIn \/ Relaunch

Next == Main \/ DropSession \/ \E i \in Conn : Thread(i)

Spec == Init /\ [][Next]_vars

(* Each thread is scheduled and what it waits for ends, with an answer or  *)
(* its timeout, unless it waits in accept(), which has none; servers drop  *)
(* idle sessions, and the window keeps polling every 700 ms.               *)
Fairness ==
  /\ WF_vars(Main) /\ WF_vars(DropSession)
  /\ \A i \in Conn : WF_vars(tpc[i] # "accept" /\ Thread(i))

FairSpec == Spec /\ Fairness

-----------------------------------------------------------------------------
Statuses == {"IDLE", "CONNECTING", "LOGGININ", "DOWNLOADING", "COMPLETED",
             "LOGINFAIL", "CONREJECT", "REMOTEFATAL", "LOCALFATAL", "TIMEDOUT"}
Errs == NotFound \cup
  {"none", "OK", "CONERR", "FTPERR", "HERR", "READERR", "FTPCONREFUSED",
   "FTPLOGREFUSED", "FTPCWDFAIL", "FTPRESTFAIL", "ACCEPTERR", "FWRITEERR", "CANTRESUME"}
MainPcs == {"poll", "finish", "scan", "next", "readerr", "localfatal", "allnotfound",
            "allcwd", "same", "count", "connecting", "loggingin", "join", "wait",
            "returned"}

TypeOK ==
  /\ status \in [Conn -> Statuses] /\ err \in [Conn -> Errs]
  /\ attempts \in [Conn -> 0 .. MaxAttempts]
  /\ tpc \in [Conn -> {"start", "connect", "login", "request", "accept", "transfer",
                       "return", "ended", "cancelled"}]
  /\ rv \in [Conn -> Errs] /\ loop \in [Conn -> {"ftp", "http"}]
  /\ session \in [Conn -> BOOLEAN] /\ lost \in 0 .. MaxFaults
  /\ mpc \in MainPcs /\ mi \in 0 .. N /\ mj \in 0 .. N
  /\ st \in Statuses \cup {"none"}
  /\ dling \in 0 .. N /\ again \in BOOLEAN /\ maxSimul \in 0 .. N
  /\ result \in {"none", "DLDONE", "DLREMOTEFATAL", "DLLOCALFATAL", "CANTRESUME"}
  /\ faults \in 0 .. MaxFaults

(* The main thread waits on connecting_cond only while the new thread is   *)
(* still going to broadcast it.  A thread that ended, or that will find    *)
(* its connection COMPLETED, never does, and nobody polls any more.        *)
WaitIsAnswered ==
  mpc = "wait" => tpc[mi] = "start" /\ status[mi] # "COMPLETED"

(* pthread_join in a relaunch never blocks the polling on a transfer: the  *)
(* thread joined has stored the error it passes up, or is about to.        *)
JoinsOnlyEndingThreads ==
  mpc = "join" =>
    tpc[mi] = "ended" \/ (tpc[mi] = "return" /\ rv[mi] \in PassedUp(loop[mi]))

(* A completed range stays completed whatever the main thread and the      *)
(* retries do: no relaunch fetches it again or fails it.                   *)
CompletedIsFinal ==
  [][\A i \in Conn : status[i] = "COMPLETED" => status'[i] = "COMPLETED"]_vars

(* When handle_threads reports an end, no thread is left that could still  *)
(* write through the shared FILE, which is then closed or set up again,    *)
(* and DLDONE means that every connection finished without an error.       *)
EndIsClean ==
  result # "none" =>
    /\ \A i \in Conn : tpc[i] \in {"ended", "cancelled"}
    /\ result = "DLDONE" =>
         \A i \in Conn : status[i] = "COMPLETED" /\ err[i] = "OK"

(* The answers that send the window to a restart or to an error message    *)
(* name something that did happen on a connection and was not overcome     *)
(* since, although status and err are read one after the other: it is the  *)
(* outcome of the connection's last attempt, and no other has begun, but   *)
(* where ftp_loop retries by itself what an HTTP proxy did not resume.     *)
ResultHasCause ==
  /\ result = "CANTRESUME" =>
       \E i \in Conn : /\ err[i] = "CANTRESUME"
                       /\ (status[i] = "REMOTEFATAL" \/ Routine(i) = "proxy")
  /\ result = "DLLOCALFATAL" => \E i \in Conn : status[i] = "LOCALFATAL"

(* The download comes to an end, unless a server never connects back to a  *)
(* thread that waits in accept(): a connection that the server rejects is  *)
(* tried again until it is let in, which nobody but the main thread's      *)
(* polling brings about, and no wait or join stops that polling.           *)
Ends == (\A i \in Conn : []<>(tpc[i] # "accept")) => <>(result # "none")
=============================================================================
