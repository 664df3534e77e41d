------------------------------ MODULE Session -------------------------------
(***************************************************************************)
(* The sockets of the connections of one process: the descriptor table,    *)
(* which hands out the lowest free number, and the steps of an attempt     *)
(* that open and close descriptors (ftp.c, ftp-retr.c, http.c,             *)
(* http-retr.c, connect.c), with the cancellation of a thread at any step  *)
(* and its cleanup handler (misc.c).  Numbers are recycled at once, so a   *)
(* field that still holds the number of a closed socket may name a socket  *)
(* of another connection.                                                  *)
(***************************************************************************)
EXTENDS Integers, FiniteSets

CONSTANTS
  Conn,            \* connections (threads) of the process
  Nobody,          \* the owner of a free descriptor
  Fd,              \* descriptors the process may have besides stdin, stdout, stderr
  Kinds,           \* what the connections do, see Ftp and Http
  MaxAttempts,     \* bound: max_attempts
  Faults           \* sets of what may go wrong in one behaviour, see Fault

(* "connect": hosts are unknown, connect() fails; "cancel": threads are     *)
(* cancelled; "torn": also between close() and the zeroing of the field.    *)
Fault == {"connect", "cancel", "torn"}

(* "ftp": proz_ftp_get_file; "info": proz_ftp_get_url_info; "http":        *)
(* proz_http_get_file; "proxy": FTP through an HTTP proxy; "query":        *)
(* proz_http_get_url_info, also through a proxy for FTP.                   *)
Ftp == {"ftp", "info"}
Http == {"http", "proxy", "query"}

ASSUME SessionAssumption ==
  /\ Nobody \notin Conn
  /\ Fd \subseteq Nat \ {0}
  /\ Kinds \subseteq Ftp \cup Http
  /\ MaxAttempts \in Nat \ {0}
  /\ Faults \subseteq SUBSET Fault

VARIABLES
  faults,    \* what may go wrong in this behaviour
  owner,     \* the descriptor table: who opened each open descriptor
  kind,      \* what each connection does
  pc,        \* the next step of its thread
  sock,      \* ctrl_sock, data_sock and listen_sock of its connection_t
  sockfd,    \* the local of ftp_get_listen_socket (0: none)
  passive,   \* passive_mode
  todo,      \* the sockets close_sock is still to be called for, "data" first
  ret,       \* how the attempt ends: "ok", "fail" or "up" (not retried)
  failures   \* attempts that did not end "ok"

vars == <<faults, owner, kind, pc, sock, sockfd, passive, todo, ret, failures>>

Field == {"ctrl", "data", "listen"}
NoSocks == [f \in Field |-> 0]

Init ==
  /\ faults \in Faults
  /\ owner = [f \in Fd |-> Nobody]
  /\ kind \in [Conn -> Kinds]
  /\ pc = [c \in Conn |-> "idle"]
  /\ sock = [c \in Conn |-> NoSocks]
  /\ sockfd = [c \in Conn |-> 0]
  /\ passive = [c \in Conn |-> FALSE]
  /\ todo = [c \in Conn |-> {}]
  /\ ret = [c \in Conn |-> "ok"]
  /\ failures = [c \in Conn |-> 0]

FreeFds == {f \in Fd : owner[f] = Nobody}
Lowest == CHOOSE f \in FreeFds : \A g \in FreeFds : f <= g
Take(c) == owner' = [owner EXCEPT ![Lowest] = c]
Drop(fd) == owner' = [f \in Fd |-> IF f = fd THEN Nobody ELSE owner[f]]

At(c, p) == pc[c] = p
Go(c, p) == pc' = [pc EXCEPT ![c] = p]
Set(c, f, n) == sock' = [sock EXCEPT ![c][f] = n]

(* The attempt is to end with r, after close_sock for each field of s; the *)
(* data socket is closed before the control connection everywhere.         *)
Leave(c, s, r) ==
  /\ Go(c, IF s = {} THEN "return" ELSE "close")
  /\ todo' = [todo EXCEPT ![c] = s]
  /\ ret' = [ret EXCEPT ![c] = r]

First(s) == IF "data" \in s THEN "data" ELSE "ctrl"

Stay == UNCHANGED <<todo, ret>>
-----------------------------------------------------------------------------
(* The handler is pushed and the routine entered: the downloads clear the  *)
(* sockets they use, the queries do not.                                   *)
Begin(c) ==
  /\ At(c, "idle")
  /\ sock' = [sock EXCEPT ![c] =
       CASE kind[c] \in {"ftp", "proxy"} -> NoSocks
         [] kind[c] = "http" -> [@ EXCEPT !["data"] = 0]
         [] OTHER -> @]
  /\ Go(c, IF kind[c] \in Ftp THEN "ctrlSocket" ELSE "dataSocket")
  /\ ret' = [ret EXCEPT ![c] = "ok"]
  /\ UNCHANGED todo
  /\ UNCHANGED <<faults, owner, kind, sockfd, passive, failures>>

(* connect_to_server is called for the control connection, for passive     *)
(* data of an FTP session, whose caller closes the control connection when *)
(* it fails, and for HTTP.                                                 *)
Dialled(c) == IF pc[c] \in {"ctrlSocket", "ctrlConnect"} THEN "ctrl" ELSE "data"
(* MUTANT of DialFails: the data socket is closed by the caller, too. *)
DialFailsClosing(c) ==
  Leave(c, IF Dialled(c) = "data" /\ kind[c] \in Ftp THEN {"data", "ctrl"} ELSE {}, "fail")

DialFails(c) ==
  Leave(c, IF Dialled(c) = "data" /\ kind[c] \in Ftp THEN {"ctrl"} ELSE {}, "fail")

UnknownHost(c) ==
  /\ "connect" \in faults
  /\ pc[c] \in {"ctrlSocket", "dataSocket"}
  /\ DialFails(c)
  /\ UNCHANGED <<faults, owner, kind, sock, sockfd, passive, failures>>

(* socket(): with no free descriptor it stores -1. *)
Socket(c) ==
  /\ pc[c] \in {"ctrlSocket", "dataSocket"}
  /\ IF FreeFds = {}
     THEN /\ Set(c, Dialled(c), -1)
          /\ DialFails(c)
          /\ UNCHANGED owner
     ELSE /\ Set(c, Dialled(c), Lowest)
          /\ Take(c)
          /\ Go(c, IF At(c, "ctrlSocket") THEN "ctrlConnect" ELSE "dataConnect")
          /\ Stay
  /\ UNCHANGED <<faults, kind, sockfd, passive, failures>>

Connected(c) ==
  /\ pc[c] \in {"ctrlConnect", "dataConnect"}
  /\ Go(c, CASE At(c, "ctrlConnect") -> "greeting"
             [] At(c, "dataConnect") /\ kind[c] \in Ftp -> "command"
             [] OTHER -> "headers")
  /\ Stay
  /\ UNCHANGED <<faults, owner, kind, sock, sockfd, passive, failures>>

(* connect() fails: the socket is closed, its number stays in the field. *)
ConnectFails(c) ==
  /\ "connect" \in faults
  /\ pc[c] \in {"ctrlConnect", "dataConnect"}
  /\ Drop(sock[c][Dialled(c)])
  /\ DialFails(c)
  /\ UNCHANGED <<faults, kind, sock, sockfd, passive, failures>>

(* The server's greeting.  Only a download that was refused closes the     *)
(* control connection.                                                     *)
Greeting(c) ==
  /\ At(c, "greeting")
  /\ \/ Go(c, "login") /\ Stay
     \/ Leave(c, {}, "fail")
     \/ kind[c] = "ftp" /\ Leave(c, {"ctrl"}, "up")
  /\ UNCHANGED <<faults, owner, kind, sock, sockfd, passive, failures>>

(* USER to CWD, for a query also to SIZE; a query that finds a directory   *)
(* returns FTPOK at once.                                                  *)
Login(c) ==
  /\ At(c, "login")
  /\ \/ Go(c, "dataSetup") /\ Stay
     \/ \E r \in {"fail", "up"} : Leave(c, {"ctrl"}, r)
     \/ kind[c] = "info" /\ Leave(c, {}, "ok")
  /\ UNCHANGED <<faults, owner, kind, sock, sockfd, passive, failures>>

(* ftp_setup_data_sock_1: PASV, or a listening socket of one's own. *)
Pasv(c) ==
  /\ At(c, "dataSetup")
  /\ \/ /\ passive' = [passive EXCEPT ![c] = TRUE]
        /\ Go(c, "dataSocket") /\ Stay
     \/ Leave(c, {"ctrl"}, "fail") /\ UNCHANGED passive
  /\ UNCHANGED <<faults, owner, kind, sock, sockfd, failures>>

Bind(c) ==
  /\ At(c, "dataSetup")
  /\ passive' = [passive EXCEPT ![c] = FALSE]
  /\ IF FreeFds = {}
     THEN Leave(c, {"ctrl"}, "fail") /\ UNCHANGED <<owner, sockfd>>
     ELSE /\ sockfd' = [sockfd EXCEPT ![c] = Lowest]
          /\ Take(c)
          /\ Go(c, "port") /\ Stay
  /\ UNCHANGED <<faults, kind, sock, failures>>

(* PORT; when it fails the local descriptor is forgotten. *)
Port(c) ==
  /\ At(c, "port")
  /\ \/ Set(c, "listen", sockfd[c]) /\ Go(c, "command") /\ Stay
     \/ Leave(c, {"ctrl"}, "fail") /\ UNCHANGED sock
  /\ sockfd' = [sockfd EXCEPT ![c] = 0]
  /\ UNCHANGED <<faults, owner, kind, passive, failures>>

(* REST and RETR of a download, TYPE A and LIST of a query; a LIST that is *)
(* refused does not make the query fail.                                   *)
Command(c) ==
  /\ At(c, "command")
  /\ \/ Go(c, IF passive[c] THEN "transfer" ELSE "accept") /\ Stay
     \/ Leave(c, {"ctrl"}, "fail")
     \/ kind[c] = "ftp" /\ Leave(c, {"ctrl"}, "up")
     \/ kind[c] = "info" /\ Leave(c, {"ctrl"}, "ok")
  /\ UNCHANGED <<faults, owner, kind, sock, sockfd, passive, failures>>

(* ftp_setup_data_sock_2: accept, then close the listening socket. *)
Accept(c) ==
  /\ At(c, "accept")
  /\ \/ /\ FreeFds # {}
        /\ Set(c, "data", Lowest) /\ Take(c)
        /\ Go(c, "unlisten") /\ Stay
     \/ /\ Leave(c, IF kind[c] = "ftp" THEN {} ELSE {"ctrl"}, "fail")
        /\ UNCHANGED <<owner, sock>>
  /\ UNCHANGED <<faults, kind, sockfd, passive, failures>>

Unlisten(c) ==
  /\ At(c, "unlisten")
  /\ Drop(sock[c]["listen"])
  /\ Go(c, "transfer") /\ Stay
  /\ UNCHANGED <<faults, kind, sock, sockfd, passive, failures>>

(* The request and the reply's headers.  A query is done with them; a      *)
(* download through a proxy leaves the socket open when they are refused.  *)
Headers(c) ==
  /\ At(c, "headers")
  /\ \/ kind[c] # "query" /\ Go(c, "transfer") /\ Stay
     \/ \E r \in {"fail", "up"} : Leave(c, IF kind[c] = "proxy" THEN {} ELSE {"data"}, r)
     \/ kind[c] = "query" /\ Leave(c, {"data"}, "ok")
  /\ UNCHANGED <<faults, owner, kind, sock, sockfd, passive, failures>>

(* MUTANT of Transferred: a receive error returns before the sockets are closed. *)
TransferredEarly(c) ==
  /\ At(c, "transfer")
  /\ CASE kind[c] \in Http -> Leave(c, {"data"}, "ok") \/ Leave(c, {}, "fail")
       [] kind[c] = "ftp" -> Leave(c, {"data", "ctrl"}, "ok") \/ Leave(c, {}, "fail")
       [] OTHER -> Leave(c, {"data", "ctrl"}, "ok") \/ Leave(c, {}, "fail")
  /\ UNCHANGED <<faults, owner, kind, sock, sockfd, passive, failures>>

(* The receive routine returns, or the query has read the listing. *)
Transferred(c) ==
  /\ At(c, "transfer")
  /\ CASE kind[c] \in Http -> \E r \in {"ok", "fail", "up"} : Leave(c, {"data"}, r)
       [] kind[c] = "ftp" -> \E r \in {"ok", "fail", "up"} : Leave(c, {"data", "ctrl"}, r)
       [] OTHER -> Leave(c, {"data", "ctrl"}, "ok") \/ Leave(c, {}, "fail")
  /\ UNCHANGED <<faults, owner, kind, sock, sockfd, passive, failures>>

(* close_sock: close(), then the field is zeroed. *)
Close(c) ==
  /\ At(c, "close")
  /\ Drop(sock[c][First(todo[c])])
  /\ Go(c, "zero") /\ Stay
  /\ UNCHANGED <<faults, kind, sock, sockfd, passive, failures>>

Zero(c) ==
  /\ At(c, "zero")
  /\ Set(c, First(todo[c]), 0)
  /\ todo' = [todo EXCEPT ![c] = @ \ {First(@)}]
  /\ Go(c, IF todo'[c] = {} THEN "return" ELSE "close")
  /\ UNCHANGED <<faults, owner, kind, sockfd, passive, ret, failures>>

(* MUTANT of Return: one attempt too many. *)
ReturnLate(c) ==
  /\ At(c, "return")
  /\ failures' = [failures EXCEPT ![c] = IF ret[c] = "ok" THEN @ ELSE @ + 1]
  /\ Go(c, IF ret[c] = "fail" /\ failures[c] <= MaxAttempts THEN "idle" ELSE "done")
  /\ passive' = [passive EXCEPT ![c] = FALSE]
  /\ Stay
  /\ UNCHANGED <<faults, owner, kind, sock, sockfd>>

(* The loops pop the handler without running it and retry what failed; the *)
(* routine's locals are gone.                                              *)
Return(c) ==
  /\ At(c, "return")
  /\ failures' = [failures EXCEPT ![c] = IF ret[c] = "ok" THEN @ ELSE @ + 1]
  /\ Go(c, IF ret[c] = "fail" /\ failures'[c] < MaxAttempts THEN "idle" ELSE "done")
  /\ passive' = [passive EXCEPT ![c] = FALSE]
  /\ Stay
  /\ UNCHANGED <<faults, owner, kind, sock, sockfd>>

(* The main thread starts a new thread for an error passed up. *)
Relaunch(c) ==
  /\ At(c, "done") /\ kind[c] = "ftp" /\ ret[c] = "up" /\ failures[c] < MaxAttempts
  /\ Go(c, "idle") /\ Stay
  /\ UNCHANGED <<faults, owner, kind, sock, sockfd, passive, failures>>
-----------------------------------------------------------------------------
InAttempt(c) == pc[c] \notin {"idle", "done", "gone", "cleanData", "cleanCtrl"}

(* Asynchronous cancellation; the handler is there during an attempt only. *)
Cancel(c) ==
  /\ "cancel" \in faults
  /\ At(c, "zero") => "torn" \in faults
  /\ \/ InAttempt(c) /\ Go(c, "cleanData")
     \/ At(c, "idle") /\ Go(c, "gone")
  /\ sockfd' = [sockfd EXCEPT ![c] = 0]
  /\ passive' = [passive EXCEPT ![c] = FALSE]
  /\ todo' = [todo EXCEPT ![c] = {}]
  /\ ret' = [ret EXCEPT ![c] = "fail"]
  /\ UNCHANGED <<faults, owner, kind, sock, failures>>

(* cleanup_socks closes a descriptor that fcntl finds open. *)
Valid(fd) == fd \in Fd /\ owner[fd] # Nobody

CleanData(c) ==
  /\ At(c, "cleanData")
  /\ IF Valid(sock[c]["data"])
     THEN /\ Drop(sock[c]["data"])
          /\ IF kind[c] \in Ftp THEN Set(c, "data", 0) ELSE UNCHANGED sock
     ELSE UNCHANGED <<owner, sock>>
  /\ Go(c, IF kind[c] \in Ftp THEN "cleanCtrl" ELSE "gone")
  /\ Stay
  /\ UNCHANGED <<faults, kind, sockfd, passive, failures>>

(* MUTANT of CleanCtrl: the listening socket is closed, too, but its field *)
(* still holds the number that accept_connection closed.                   *)
CleanCtrlAndListen(c) ==
  /\ At(c, "cleanCtrl")
  /\ owner' = [f \in Fd |-> IF f \in {sock[c]["ctrl"], sock[c]["listen"]} THEN Nobody ELSE owner[f]]
  /\ Go(c, "gone")
  /\ Stay
  /\ UNCHANGED <<faults, kind, sock, sockfd, passive, failures>>

CleanCtrl(c) ==
  /\ At(c, "cleanCtrl")
  /\ IF Valid(sock[c]["ctrl"])
     THEN Drop(sock[c]["ctrl"]) /\ Set(c, "ctrl", 0)
     ELSE UNCHANGED <<owner, sock>>
  /\ Go(c, "gone")
  /\ Stay
  /\ UNCHANGED <<faults, kind, sockfd, passive, failures>>

Next == \E c \in Conn :
  \/ Begin(c) \/ UnknownHost(c) \/ Socket(c) \/ Connected(c) \/ ConnectFails(c)
  \/ Greeting(c) \/ Login(c) \/ Pasv(c) \/ Bind(c) \/ Port(c) \/ Command(c)
  \/ Accept(c) \/ Unlisten(c) \/ Headers(c) \/ Transferred(c)
  \/ Close(c) \/ Zero(c) \/ Return(c) \/ Relaunch(c)
  \/ Cancel(c) \/ CleanData(c) \/ CleanCtrl(c)

Spec == Init /\ [][Next]_vars
-----------------------------------------------------------------------------
Steps == {"idle", "ctrlSocket", "ctrlConnect", "greeting", "login", "dataSetup",
          "dataSocket", "dataConnect", "port", "command", "accept", "unlisten",
          "headers", "transfer", "close", "zero", "return", "done",
          "cleanData", "cleanCtrl", "gone"}

(* Every variable stays in its type: a field holds a descriptor, 0, or the *)
(* -1 of a failed socket().                                                *)
TypeOK ==
  /\ faults \in Faults
  /\ owner \in [Fd -> Conn \cup {Nobody}]
  /\ kind \in [Conn -> Kinds]
  /\ pc \in [Conn -> Steps]
  /\ sock \in [Conn -> [Field -> Fd \cup {0, -1}]]
  /\ sockfd \in [Conn -> Fd \cup {0}]
  /\ passive \in [Conn -> BOOLEAN]
  /\ todo \in [Conn -> SUBSET {"data", "ctrl"}]
  /\ ret \in [Conn -> {"ok", "fail", "up"}]
  /\ failures \in [Conn -> 0 .. MaxAttempts]

(* The descriptors an attempt relies on at its next step: those it talks   *)
(* over, and those it is about to close.                                   *)
Needs(c) ==
  CASE pc[c] \in {"ctrlConnect", "greeting", "login", "dataSetup", "port"} -> {"ctrl"}
    [] pc[c] = "dataSocket" -> IF kind[c] \in Ftp THEN {"ctrl"} ELSE {}
    [] pc[c] \in {"dataConnect", "transfer"} ->
         IF kind[c] \in Ftp THEN {"ctrl", "data"} ELSE {"data"}
    [] pc[c] = "command" -> {"ctrl", IF passive[c] THEN "data" ELSE "listen"}
    [] pc[c] = "accept" -> {"ctrl", "listen"}
    [] pc[c] = "unlisten" -> {"ctrl", "data", "listen"}
    [] pc[c] = "headers" -> {"data"}
    [] pc[c] = "close" -> todo[c]
    [] pc[c] = "zero" -> todo[c] \ {First(todo[c])}
    [] OTHER -> {}

(* A connection only ever talks over, and closes, sockets that are open    *)
(* and its own: no socket is closed twice, no -1 or 0 is closed, and none  *)
(* is taken for one that another thread opened under a recycled number.    *)
UsesOwnSockets ==
  \A c \in Conn : \A f \in Needs(c) : sock[c][f] \in Fd /\ owner[sock[c][f]] = c

(* A descriptor is only ever closed by a step of the thread that opened    *)
(* it: neither a step of another attempt nor another thread's cleanup      *)
(* handler closes a socket under a running transfer.                       *)
ClosesOnlyOwn ==
  [][\A f \in Fd : owner[f] # Nobody /\ owner'[f] # owner[f]
                     => pc'[owner[f]] # pc[owner[f]]]_vars

Owned(c) == {f \in Fd : owner[f] = c}

(* What attempts leave open: plain HTTP nothing, a proxy's download one    *)
(* descriptor and an FTP download at most two for every attempt that       *)
(* failed, none of them any for one that ended well; an FTP query one more *)
(* for its directory or refused LIST.  The cleanup handler of a cancelled  *)
(* FTP session, after which "there will be no sockets left open" (misc.c), *)
(* forgets at most one, the listening socket; the others' forget none.     *)
Forgotten(c) ==
  CASE kind[c] \in {"http", "query"} -> 0
    [] kind[c] = "proxy" -> failures[c]
    [] kind[c] = "ftp" -> 2 * failures[c] + (IF pc[c] = "gone" THEN 1 ELSE 0)
    [] OTHER -> 2 * failures[c] + 1

LeakBound ==
  \A c \in Conn : pc[c] \in {"idle", "done", "gone"} => Cardinality(Owned(c)) <= Forgotten(c)
=============================================================================
