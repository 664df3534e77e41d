------------------------------ MODULE Request ------------------------------
(***************************************************************************)
(* The information request: the thread of proz_get_url_info_loop           *)
(* (connection.c), which asks the server of a URL for the file's size and  *)
(* whether it can resume, over HTTP (http.c) or FTP (ftp.c), with retries  *)
(* and redirections.  An FTP command and its reply are one step; a reply   *)
(* that comes after the timeout stays in the control connection and        *)
(* answers the next command.                                               *)
(***************************************************************************)
EXTENDS Integers, SequencesExt

CONSTANTS
  Sites,        \* what the server of a URL may hold and support
  MaxAttempts,  \* max_attempts, 0: unlimited
  MaxHops,      \* bound: redirections
  MaxFaults,    \* bound: connections that fail or break
  MaxLate       \* bound: replies that come after the timeout

ASSUME RequestAssumption ==
  /\ {MaxAttempts, MaxHops, MaxFaults, MaxLate} \subseteq Nat /\ MaxHops > 0
  /\ \A s \in Sites :
       /\ s.proto \in {"http", "ftp"}
       /\ IF s.proto = "http" \/ s.proxy = "HTTPPROXY" THEN s.contlen \in Int
          ELSE /\ s.size \in Int /\ {s.rest, s.knowsSize} \subseteq BOOLEAN
               /\ s.dir \in {"none", "there", "absent"}

VARIABLES
  site,           \* the server of connection->u
  running, err, attempts, mainFileSize, resumeSupport,
  at,             \* what the thread does next
  sizeOk,         \* size_ok: did the server take the SIZE command?
  passive,        \* passive_mode: did it take PASV, or is the data connection its own?
  replies,        \* FTP replies sent and not yet read
  lost,           \* is the control connection broken?
  hops, faults, late  \* history: redirections, faults, late replies

told == <<mainFileSize, resumeSupport, sizeOk>>
infoVars == <<told, passive>>
channel == <<replies, lost>>
bounds == <<hops, faults, late>>

(* proz_connection_init, and proz_get_url_info_loop, which sets running    *)
(* before it creates the thread.                                           *)
RequestInit ==
  /\ site \in Sites
  /\ running = TRUE /\ at = "begin"
  /\ err = "none" /\ attempts = 0
  /\ mainFileSize = 0 /\ resumeSupport = FALSE /\ sizeOk = FALSE
  /\ passive = FALSE
  /\ replies = <<>> /\ lost = FALSE
  /\ hops = 0 /\ faults = 0 /\ late = 0

Fails(e) == err' = e /\ at' = "judge"

Fault == faults < MaxFaults /\ faults' = faults + 1 /\ UNCHANGED <<hops, late>>

(* get_url_info_loop calls the loop of the URL's protocol. *)
Begin ==
  /\ at = "begin"
  /\ running' = TRUE /\ at' = "attempt"
  /\ UNCHANGED <<site, err, attempts, infoVars, channel, bounds>>

(* One attempt: an FTP URL over an HTTP proxy is asked for over HTTP. *)
BeginAttempt ==
  /\ at = "attempt"
  /\ at' = IF site.proto = "http" \/ site.proxy = "HTTPPROXY" THEN "GET" ELSE "greeting"
  /\ UNCHANGED <<site, running, err, attempts, infoVars, channel, bounds>>

-----------------------------------------------------------------------------
(***************************************************************************)
(* HTTP: proz_http_get_url_info, ftp_get_url_info_from_http_proxy.         *)
(***************************************************************************)

(* Error codes of the status line, and their FTP forms behind a proxy. *)
HttpErr ==
  CASE site.status \in {200, 206} -> "HOK"
    [] site.status \in {301, 302} -> "NEWLOCATION"
    [] site.status = 401 -> "HAUTHREQ"
    [] site.status = 404 -> "HTTPNSFOD"
    [] OTHER -> "HERR"

AsFtpErr(e) ==
  CASE e = "HOK" -> "FTPOK" [] e = "HAUTHREQ" -> "FTPLOGREFUSED"
    [] e = "HTTPNSFOD" -> "FTPNSFOD" [] OTHER -> "FTPERR"

(* The reply's err, or broken when there is none.  accept is -1 without an *)
(* Accept-Ranges header, 0 when it says none.                              *)
HttpReply(e, broken) ==
  /\ at = "GET"
  /\ \/ /\ Fails(e)
        /\ IF HttpErr = "HOK"
           THEN /\ mainFileSize' = site.contlen /\ UNCHANGED <<sizeOk, passive>>
                /\ resumeSupport' = CASE site.accept = 1 -> TRUE [] site.accept = -1 -> FALSE
                                      [] OTHER -> resumeSupport
           ELSE UNCHANGED infoVars
        /\ UNCHANGED bounds
     \/ Fault /\ Fails(broken) /\ UNCHANGED infoVars
  /\ UNCHANGED <<site, running, attempts, channel>>

Get == site.proto = "http" /\ HttpReply(HttpErr, "HERR")

GetFromProxy == site.proto = "ftp" /\ HttpReply(AsFtpErr(HttpErr), "FTPERR")

-----------------------------------------------------------------------------
(***************************************************************************)
(* FTP: proz_ftp_get_url_info.                                             *)
(***************************************************************************)

(* What the server replies to a command; dir is "none" for a URL without a *)
(* directory.                                                              *)
Answer(command) ==
  CASE command = "greeting" -> 220
    [] command = "USER" -> 331
    [] command = "PASS" -> IF site.login THEN 230 ELSE 530
    [] command \in {"TYPE I", "PORT", "TYPE A"} -> 200
    [] command = "CWD" -> IF site.dir = "there" THEN 250 ELSE 550
    [] command = "REST" -> IF site.rest THEN 350 ELSE 502
    [] command = "CWD file" -> IF site.what = "directory" THEN 250 ELSE 550
    [] command = "SIZE" -> IF site.what # "file" THEN 550 ELSE IF site.knowsSize THEN 213 ELSE 500
    [] command = "PASV" -> IF site.pasv THEN 227 ELSE 502
    [] command = "LIST" -> IF site.list = "refused" THEN 550 ELSE 150

(* ftp_get_reply: the oldest reply, late or not; NoReply when the control  *)
(* connection broke, or nothing came in time.                              *)
NoReply == 0

Exchange(command, r) ==
  /\ at = command
  /\ LET sent == Append(replies, Answer(command)) IN
     \/ ~lost /\ r = Head(sent) /\ replies' = Tail(sent) /\ UNCHANGED <<lost, bounds>>
     \/ /\ ~lost /\ late < MaxLate /\ late' = late + 1
        /\ r = NoReply /\ replies' = sent /\ UNCHANGED <<lost, hops, faults>>
     \/ ~lost /\ r = NoReply /\ lost' = TRUE /\ Fault /\ UNCHANGED replies
     \/ lost /\ r = NoReply /\ UNCHANGED <<channel, bounds>>
  /\ UNCHANGED <<site, running, attempts>>

Replies == {NoReply, 150, 200, 213, 220, 227, 230, 250, 331, 350, 500, 502, 530, 550}
Class(r) == r \div 100

Goes(next) == at' = next /\ UNCHANGED err

(* The reply must be of one class, or the attempt fails. *)
Required(command, class, next, e) ==
  \E r \in Replies :
    /\ Exchange(command, r)
    /\ IF Class(r) = class THEN Goes(next)
       ELSE Fails(IF r = NoReply THEN "FTPERR" ELSE e)
    /\ UNCHANGED infoVars

(* ftp_login: each reply selects what is sent next, directly or through a  *)
(* proxy that is told the site in USER.                                    *)
LoginStep(command) ==
  \E r \in Replies :
    /\ Exchange(command, r)
    /\ CASE r = 220 -> Goes("USER")
         [] r = 331 -> Goes("PASS")
         [] r = 230 -> Goes("TYPE I")
         [] r = 530 -> Fails("FTPLOGREFUSED")
         [] OTHER -> Fails("FTPERR")
    /\ UNCHANGED infoVars

Login ==
  \/ Required("greeting", 2, "USER", "FTPCONREFUSED")
  \/ LoginStep("USER") \/ LoginStep("PASS")
  \/ Required("TYPE I", 2, IF site.dir = "none" THEN "REST" ELSE "CWD", "FTPUNKNOWNTYPE")

(* ftp_cwd: the text of a refusal may say that there is no such file. *)
Cwd ==
  \/ Required("CWD", 2, "REST", "FTPCWDFAIL")
  \/ /\ \E r \in Replies : Exchange("CWD", r) /\ Class(r) = 5 /\ Fails("FTPNSFOD")
     /\ UNCHANGED infoVars

(* A failure of REST, whatever it is, only means that there is no resume. *)
Rest ==
  \E r \in Replies :
    /\ Exchange("REST", r)
    /\ resumeSupport' = (Class(r) = 3)
    /\ Goes("CWD file") /\ UNCHANGED <<mainFileSize, sizeOk, passive>>

(* A file that is a directory is all right; the control connection stays. *)
CwdFile ==
  \E r \in Replies :
    /\ Exchange("CWD file", r)
    /\ IF Class(r) = 2 THEN Fails("FTPOK") ELSE Goes("SIZE")
    /\ UNCHANGED infoVars

(* MUTANT of Size: the size is not reset to -1. *)
SizeKept ==
  \E r \in Replies :
    /\ Exchange("SIZE", r)
    /\ mainFileSize' = IF r = 213 THEN site.size ELSE mainFileSize
    /\ sizeOk' = (Class(r) = 2)
    /\ IF r = 550 THEN Fails("FTPNSFOD") ELSE Goes("PASV")
    /\ UNCHANGED <<resumeSupport, passive>>

(* 550 ends the request; every other failure leaves the size to LIST.  A   *)
(* late reply may be taken for a size that cannot be read.                 *)
Size ==
  \E r \in Replies :
    /\ Exchange("SIZE", r)
    /\ mainFileSize' = IF r = 213 THEN site.size ELSE -1
    /\ sizeOk' = (Class(r) = 2)
    /\ IF r = 550 THEN Fails("FTPNSFOD") ELSE Goes("PASV")
    /\ UNCHANGED <<resumeSupport, passive>>

(* ftp_pasv: without a reply the reply's line is read all the same, and    *)
(* the process dies.                                                       *)
Pasv ==
  /\ \E r \in Replies :
       /\ Exchange("PASV", r)
       /\ passive' = (r = 227)
       /\ Goes(CASE r = 227 -> "connect" [] r = NoReply -> "crashed" [] OTHER -> "PORT")
  /\ UNCHANGED told

(* A data connection is there, or the attempt fails.                       *)
Connects(place, next, e) ==
  /\ at = place
  /\ (Goes(next) /\ UNCHANGED bounds) \/ (Fault /\ Fails(e))
  /\ UNCHANGED <<site, running, attempts, infoVars, channel>>

(* ftp_setup_data_sock_1: PORT when the server does not know PASV or its   *)
(* reply has no address.                                                   *)
DataSock ==
  \/ Pasv
  \/ Required("PORT", 2, "TYPE A", "FTPPORTERR")
  \/ Connects("connect", "TYPE A", "CONERR")

(* LIST is asked for in any case; its refusal is no error, but the message *)
(* about it reads the reply's line.                                        *)
List ==
  \/ Required("TYPE A", 2, "LIST", "FTPUNKNOWNTYPE")
  \/ /\ \E r \in Replies :
          /\ Exchange("LIST", r)
          /\ CASE r = 150 -> Goes(IF passive THEN "data" ELSE "accept")
               [] r = NoReply -> Goes("crashed")
               [] OTHER -> Fails("FTPOK")
     /\ UNCHANGED infoVars

(* ftp_setup_data_sock_2: after PORT the server connects; accept() has no  *)
(* timeout and waits for it as long as it takes.                           *)
AcceptData == Connects("accept", "data", "ACCEPTERR")

(* The listing comes over the data connection; its size counts when SIZE   *)
(* gave none.                                                              *)
Data ==
  /\ at = "data"
  /\ \/ /\ Fails("FTPOK")
        /\ mainFileSize' = IF ~sizeOk /\ site.list = "readable" THEN site.size
                           ELSE mainFileSize
        /\ UNCHANGED bounds
     \/ Fault /\ Fails("FTPERR") /\ UNCHANGED mainFileSize
  /\ UNCHANGED <<site, running, attempts, resumeSupport, sizeOk, passive, channel>>

-----------------------------------------------------------------------------
(***************************************************************************)
(* The loops.                                                              *)
(***************************************************************************)
Again == attempts' < MaxAttempts \/ MaxAttempts = 0

(* An attempt is over: its connections are closed or forgotten. *)
AttemptOver ==
  /\ at = "judge"
  /\ attempts' = attempts + 1
  /\ replies' = <<>> /\ lost' = FALSE
  /\ UNCHANGED <<site, err, infoVars, bounds>>

EndOrRetry(final) ==
  IF err \in final \/ ~Again THEN at' = "return" /\ running' = FALSE
  ELSE at' = "attempt" /\ UNCHANGED running

(* MUTANT of HttpLoop: running is cleared before a redirection, too. *)
HttpLoopStops ==
  /\ AttemptOver /\ site.proto = "http"
  /\ IF err = "NEWLOCATION" THEN at' = "redirect" /\ running' = FALSE
     ELSE EndOrRetry({"HOK", "HTTPNSFOD"})

(* http_get_url_info_loop. *)
HttpLoop ==
  /\ AttemptOver /\ site.proto = "http"
  /\ IF err = "NEWLOCATION" THEN at' = "redirect" /\ UNCHANGED running
     ELSE EndOrRetry({"HOK", "HTTPNSFOD"})

(* ftp_get_url_info_loop. *)
FtpLoop == AttemptOver /\ site.proto = "ftp" /\ EndOrRetry({"FTPOK", "FTPNSFOD"})

(* The servers a chain of MaxHops redirections may lead to. *)
Reachable(n) == {s \in Sites : n < MaxHops \/ s.proto = "ftp" \/ s.location = "none"}

(* The location merged with the URL is a URL of any server, or none; the   *)
(* latter clears running before it sets err.                               *)
Redirect ==
  \/ /\ at = "redirect" /\ site.location = "good"
     /\ hops' = hops + 1 /\ site' \in Reachable(hops + 1)
     /\ at' = "begin"
     /\ UNCHANGED <<running, err, faults, late>>
     /\ UNCHANGED <<attempts, infoVars, channel>>
  \/ /\ at = "redirect" /\ site.location = "bad"
     /\ running' = FALSE /\ err' = "URLBADHOST" /\ at' = "bad location"
     /\ UNCHANGED <<site, attempts, infoVars, channel, bounds>>
  \/ /\ at = "bad location"
     /\ err' = "HERR" /\ at' = "ended"
     /\ UNCHANGED <<site, running, attempts, infoVars, channel, bounds>>

Leave ==
  /\ at = "return"
  /\ at' = "ended"
  /\ UNCHANGED <<site, running, err, attempts, infoVars, channel, bounds>>

InfoThread ==
  \/ Begin \/ BeginAttempt \/ Get \/ GetFromProxy \/ Login \/ Cwd \/ Rest \/ CwdFile \/ Size \/ DataSock
  \/ List \/ AcceptData \/ Data \/ HttpLoop \/ FtpLoop \/ Redirect \/ Leave

-----------------------------------------------------------------------------
RequestTypeOK ==
  /\ site \in Sites /\ running \in BOOLEAN /\ resumeSupport \in BOOLEAN /\ sizeOk \in BOOLEAN
  /\ passive \in BOOLEAN /\ lost \in BOOLEAN
  /\ attempts \in Nat /\ mainFileSize \in Int
  /\ replies \in Seq(Replies \ {NoReply}) /\ Len(replies) <= late
  /\ hops \in 0 .. MaxHops /\ faults \in 0 .. MaxFaults /\ late \in 0 .. MaxLate
=============================================================================
