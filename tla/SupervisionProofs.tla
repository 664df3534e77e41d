-------------------------- MODULE SupervisionProofs --------------------------
(***************************************************************************)
(* Theorems about Supervision for every number of connections, sessions,   *)
(* attempts and failures.                                                  *)
(***************************************************************************)
EXTENDS Supervision, FiniteSetTheorems, TLAPS

TPcs == {"start", "connect", "login", "request", "accept", "transfer", "return", "ended",
         "cancelled"}
Refusals == {"LOGINFAIL", "CONREJECT"}

(* Where the main thread handles the connection mi. *)
Handling == MainPcs \ {"poll", "finish", "scan", "returned"}

Stages == {"connect", "login", "request", "accept", "transfer"}
AtRest == {"ended", "cancelled"}

(* The sessions that the server keeps are paid for by failures: each was   *)
(* lost with a data connection that could not be accepted.                 *)
Accepting == {i \in Conn : rv[i] = "ACCEPTERR"}
LostArePaid == lost + Cardinality(Accepting) <= faults

(* The main thread works on a connection, has an answer exactly when it    *)
(* has returned, and cancels threads only then.                            *)
MainPlaced ==
  /\ mpc \in Handling => mi < N
  /\ result # "none" <=> mpc = "returned"
  /\ mpc = "returned" => \A i \in Conn : tpc[i] \in AtRest
  /\ \A i \in Conn : tpc[i] = "cancelled" => mpc = "returned"

(* An FTP URL is only ever fetched by ftp_loop; an HTTP one also, by a     *)
(* relaunched thread, but without a proxy that never gets past the         *)
(* greeting.  Only ftp_loop's routines are turned away.                    *)
LoopsFit ==
  \A i \in Conn :
    /\ loop[i] \in {proto, "ftp"}
    /\ tpc[i] = "login" => proto = "ftp"
    /\ status[i] \in Refusals => loop[i] = "ftp"

(* A completed connection has nothing left to do but to say so. *)
CompletedRests ==
  \A i \in Conn : status[i] = "COMPLETED" =>
    \/ tpc[i] \in {"start", "cancelled"}
    \/ tpc[i] = "return" /\ rv[i] = "OK"
    \/ tpc[i] = "ended" /\ err[i] = "OK"

(* A thread that could not write ends, and leaves LOCALFATAL behind until  *)
(* the main thread, which then waits for it, has relaunched it.            *)
LocalFatalRests ==
  \A i \in Conn : status[i] = "LOCALFATAL" =>
    \/ tpc[i] \in AtRest
    \/ tpc[i] = "return" /\ rv[i] = "FWRITEERR"
    \/ tpc[i] = "start" /\ mpc = "wait" /\ mi = i

(* An HTTP thread that passed its error up has ended with it; ftp_loop     *)
(* only stores CANTRESUME, and tries again, after an HTTP proxy said so.   *)
HttpPassesUp ==
  \A i \in Conn :
    /\ tpc[i] = "return" /\ rv[i] = "CANTRESUME" =>
         (loop[i] = "http" /\ status[i] = "REMOTEFATAL") \/ Routine(i) = "proxy"
    /\ err[i] = "CANTRESUME" =>
         (loop[i] = "http" /\ status[i] = "REMOTEFATAL" /\ tpc[i] \in AtRest)
         \/ Routine(i) = "proxy"
    /\ loop[i] = "http" /\ err[i] \in NotFound => tpc[i] \in AtRest
    /\ loop[i] = "http" =>
         err[i] \notin {"FTPNSFOD", "FTPCWDFAIL"} /\ rv[i] \notin {"FTPNSFOD", "FTPCWDFAIL"}

(* What the main thread knows of the connection it handles. *)
MainKnows ==
  /\ mpc = "localfatal" => status[mi] = "LOCALFATAL"
  /\ mpc \in {"allnotfound", "allcwd", "join"} /\ loop[mi] = "http" =>
       tpc[mi] = "ended" /\ err[mi] # "CANTRESUME"
  /\ mpc \in {"same", "count", "connecting", "loggingin"} => loop[mi] = "ftp"
  /\ mpc = "wait" => loop[mi] = "ftp"
  /\ mpc = "finish" \/ result = "DLDONE" => AllStatus("COMPLETED")
  /\ result = "DLDONE" => \A i \in Conn : tpc[i] = "ended"

TInv == TypeOK /\ proto \in {"ftp", "http"} /\ MainPlaced /\ LostArePaid
IInv ==
  /\ TInv /\ LoopsFit /\ CompletedRests /\ LocalFatalRests /\ HttpPassesUp
  /\ MainKnows /\ ResultHasCause

-----------------------------------------------------------------------------
(***************************************************************************)
(* When no file and no directory is missing, the only relaunches are those *)
(* of connections that the server turned away.                             *)
(***************************************************************************)
NothingMissing == Failures \cap {"notfound", "cwd"} = {}

Missing == NotFound \cup {"FTPCWDFAIL"}

(* Nobody says that anything is missing, *)
NoneMissed == \A i \in Conn : {err[i], rv[i]} \cap Missing = {}

(* a thread that was turned away ends, until it is relaunched and starts,  *)
RefusedRests ==
  \A i \in Conn : status[i] \in Refusals =>
    \/ tpc[i] \in AtRest
    \/ tpc[i] = "return" /\ rv[i] \in {"FTPCONREFUSED", "FTPLOGREFUSED"}
    \/ tpc[i] = "start" /\ mpc = "wait" /\ mi = i

(* and the main thread relaunches no other.                                *)
RelaunchesRefused ==
  /\ mpc \notin {"allnotfound", "allcwd"}
  /\ mpc \in {"same", "count", "connecting", "loggingin", "join", "wait"} => status[mi] \in Refusals
  /\ mpc = "wait" => tpc[mi] = "start"

RInv == NoneMissed /\ RefusedRests /\ RelaunchesRefused

-----------------------------------------------------------------------------
LEMMA CountType ==
  ASSUME NEW S, S \subseteq Conn
  PROVE  Cardinality(S) \in 0 .. N /\ IsFiniteSet(S)
<1>1. IsFiniteSet(Conn) /\ Cardinality(Conn) = N
  BY FS_Interval, SupervisionAssumption DEF Conn
<1>2. IsFiniteSet(S) /\ Cardinality(S) <= Cardinality(Conn)
  BY <1>1, FS_Subset
<1>3. QED
  BY <1>1, <1>2, FS_CardinalityType, SupervisionAssumption

(* Each row of the table: the stage it belongs to, a status that is not    *)
(* COMPLETED, and the error with the routine that returns it.              *)
Row(f) ==
  /\ f.at \in Stages
  /\ f.s \in {"CONNECTING", "REMOTEFATAL", "LOGGININ", "LOGINFAIL", "TIMEDOUT", "LOCALFATAL"}
  /\ f.e \in Errs \ {"OK", "none"}
  /\ f.s = "LOCALFATAL" => f.e = "FWRITEERR"
  /\ f.s = "LOGINFAIL" => f.e = "FTPLOGREFUSED" /\ f.routine = "proxy"
  /\ f.e = "CANTRESUME" => (f.routine = "http" /\ f.s = "REMOTEFATAL") \/ f.routine = "proxy"
  /\ f.e \in NotFound => f.kind = "notfound"
  /\ f.e = "FTPCWDFAIL" => f.kind = "cwd" /\ f.routine = "ftp"
  /\ f.e = "FTPNSFOD" => f.routine # "http"

LEMMA Rows == \A f \in FailureTable : Row(f)
BY DEF FailureTable, Row, Errs, NotFound, Stages

(* Which loop runs a routine. *)
LEMMA Routines ==
  ASSUME NEW i \in Conn
  PROVE  /\ Routine(i) = "ftp" => loop[i] = "ftp"
         /\ Routine(i) = "http" => loop[i] = "http"
         /\ loop[i] = "http" => Routine(i) = "http"
BY DEF Routine

-----------------------------------------------------------------------------
(***************************************************************************)
(* What a step of a thread does to its connection.                         *)
(***************************************************************************)

(* The ways in which proz_*_get_file comes back: done, turned away, failed *)
(* as the table says, or never greeted.                                    *)
Outcome(i, s, e) ==
  \/ s = "COMPLETED" /\ e = "OK"
  \/ s \in Refusals /\ e \in {"FTPCONREFUSED", "FTPLOGREFUSED"} /\ loop[i] = "ftp"
  \/ \E f \in FailureTable : f.routine = Routine(i) /\ f.kind \in Failures /\ s = f.s /\ e = f.e
  \/ s = "REMOTEFATAL" /\ e = "FTPERR"

Begins(i) ==
  /\ tpc[i] = "start" /\ status[i] # "COMPLETED"
  /\ tpc'[i] = "connect" /\ status'[i] = "CONNECTING"
  /\ err'[i] = err[i] /\ rv'[i] = rv[i]
  /\ loop[i] = "ftp" /\ mpc = "wait" /\ mi = i => mpc' = "next"

Advances(i) ==
  /\ tpc[i] \in Stages /\ tpc'[i] \in Stages
  /\ tpc'[i] = "login" => proto = "ftp"
  /\ status'[i] \in {status[i], "LOGGININ", "DOWNLOADING"}
  /\ err'[i] = err[i] /\ rv'[i] = rv[i]

Returns(i) ==
  /\ \/ tpc[i] \in Stages /\ Outcome(i, status'[i], rv'[i])
     \/ tpc[i] = "start" /\ status[i] = "COMPLETED" /\ status'[i] = "COMPLETED" /\ rv'[i] = "OK"
  /\ tpc'[i] = "return" /\ err'[i] = err[i]

EndsAttempt(i) ==
  /\ tpc[i] = "return" /\ tpc'[i] \in {"start", "ended"}
  /\ status'[i] = status[i] /\ err'[i] = rv[i] /\ rv'[i] = "none"
  /\ rv[i] = "OK" \/ rv[i] \in PassedUp(loop[i]) => tpc'[i] = "ended"

OthersKeep(i) ==
  \A j \in Conn \ {i} :
    /\ status'[j] = status[j] /\ err'[j] = err[j]
    /\ tpc'[j] = tpc[j] /\ rv'[j] = rv[j]

MainKeeps(i) ==
  /\ UNCHANGED <<proto, proxied, loop, mi, mj, st, dling, again, maxSimul, result>>
  /\ mpc' = mpc \/ (mpc = "wait" /\ mi = i /\ mpc' = "next" /\ Begins(i))

ThreadEffect(i) ==
  /\ Begins(i) \/ Advances(i) \/ Returns(i) \/ EndsAttempt(i)
  /\ OthersKeep(i) /\ MainKeeps(i)

LEMMA SetFacts ==
  ASSUME TypeOK, NEW i \in Conn, NEW s, NEW pc, Set(i, s, pc)
  PROVE  /\ status'[i] = s /\ tpc'[i] = pc
         /\ \A j \in Conn \ {i} : status'[j] = status[j] /\ tpc'[j] = tpc[j]
BY DEF TypeOK, Set

LEMMA ReturnFacts ==
  ASSUME TypeOK, NEW i \in Conn, NEW s, NEW e, Return(i, s, e)
  PROVE  /\ status'[i] = s /\ tpc'[i] = "return" /\ rv'[i] = e
         /\ \A j \in Conn \ {i} : status'[j] = status[j] /\ tpc'[j] = tpc[j] /\ rv'[j] = rv[j]
<1>1. Set(i, s, "return")
  BY DEF Return
<1>2. QED
  BY <1>1, SetFacts DEF Return, TypeOK

LEMMA ThreadSteps ==
  ASSUME TypeOK, proto \in {"ftp", "http"}, LoopsFit, NEW i \in Conn, Thread(i)
  PROVE  ThreadEffect(i)
<1> USE DEF ThreadEffect, OthersKeep, MainKeeps, mainVars
<1>1. CASE Start(i)
  <2>1. CASE status[i] = "COMPLETED"
    <3>1. Return(i, "COMPLETED", "OK") /\ UNCHANGED <<proto, proxied, err, loop, mainVars>> /\ tpc[i] = "start"
      BY <1>1, <2>1 DEF Start
    <3>2. Returns(i)
      BY <2>1, <3>1, ReturnFacts DEF Returns
    <3>3. QED
      BY <3>1, <3>2, ReturnFacts
  <2>2. CASE status[i] # "COMPLETED"
    <3>1. /\ Set(i, "CONNECTING", "connect") /\ UNCHANGED <<proto, proxied, err, rv, loop>>
          /\ tpc[i] = "start"
          /\ UNCHANGED <<mi, mj, st, dling, again, maxSimul, result>>
      BY <1>1, <2>2 DEF Start
    <3>2. IF loop[i] = "ftp" /\ mpc = "wait" /\ mi = i THEN mpc' = "next" ELSE mpc' = mpc
      BY <1>1, <2>2 DEF Start
    <3>3. Begins(i)
      BY <2>2, <3>1, <3>2, SetFacts DEF Begins
    <3>4. QED
      BY <3>1, <3>2, <3>3, SetFacts
  <2>3. QED
    BY <2>1, <2>2
<1>2. CASE Connect(i)
  <2>1. tpc[i] = "connect" /\ UNCHANGED <<proto, proxied, err, loop, mainVars>>
    BY <1>2 DEF Connect
  <2>2. CASE tpc' = [tpc EXCEPT ![i] = "request"] /\ UNCHANGED <<status, rv>>
    <3>1. Advances(i)
      BY <2>1, <2>2 DEF Advances, Stages, TypeOK
    <3>2. QED
      BY <2>1, <2>2, <3>1 DEF TypeOK
  <2>3. CASE Return(i, "CONREJECT", "FTPCONREFUSED") /\ loop[i] = "ftp"
    <3>1. Returns(i)
      BY <2>1, <2>3, ReturnFacts DEF Returns, Outcome, Stages, Refusals
    <3>2. QED
      BY <2>1, <2>3, <3>1, ReturnFacts
  <2>4. CASE Set(i, "LOGGININ", "login") /\ UNCHANGED rv /\ proto = "ftp"
    <3>1. Advances(i)
      BY <2>1, <2>4, SetFacts DEF Advances, Stages
    <3>2. QED
      BY <2>1, <2>4, <3>1, SetFacts
  <2>5. Routine(i) = "ftp" => loop[i] = "ftp" /\ proto = "ftp"
    BY <1>2 DEF Connect, Greeted, Routine
  <2>6. QED
    BY <1>2, <2>2, <2>3, <2>4, <2>5 DEF Connect
<1>3. CASE NoGreeting(i)
  <2>1. /\ Return(i, "REMOTEFATAL", "FTPERR") /\ tpc[i] = "connect"
        /\ UNCHANGED <<proto, proxied, err, loop, mainVars>>
    BY <1>3 DEF NoGreeting
  <2>2. Returns(i)
    BY <2>1, ReturnFacts DEF Returns, Outcome, Stages
  <2>3. QED
    BY <2>1, <2>2, ReturnFacts
<1>4. CASE Login(i)
  <2>1. tpc[i] = "login" /\ UNCHANGED <<proto, proxied, err, loop, mainVars>> /\ loop[i] = "ftp"
    BY <1>4 DEF Login, LoopsFit
  <2>2. CASE Return(i, "LOGINFAIL", "FTPLOGREFUSED")
    <3>1. Returns(i)
      BY <2>1, <2>2, ReturnFacts DEF Returns, Outcome, Stages, Refusals
    <3>2. QED
      BY <2>1, <2>2, <3>1, ReturnFacts
  <2>3. CASE tpc' = [tpc EXCEPT ![i] = "request"] /\ UNCHANGED <<status, rv>>
    <3>1. Advances(i)
      BY <2>1, <2>3 DEF Advances, Stages, TypeOK
    <3>2. QED
      BY <2>1, <2>3, <3>1 DEF TypeOK
  <2>4. QED
    BY <1>4, <2>2, <2>3 DEF Login
<1>5. CASE Transfer(i) \/ Accept(i)
  <2>1. /\ Set(i, "DOWNLOADING", "transfer") /\ tpc[i] \in {"request", "accept"}
        /\ UNCHANGED <<proto, proxied, err, rv, loop, mainVars>>
    BY <1>5 DEF Transfer, Accept
  <2>2. Advances(i)
    BY <2>1, SetFacts DEF Advances, Stages
  <2>3. QED
    BY <2>1, <2>2, SetFacts
<1>6. CASE Finish(i)
  <2>1. /\ Return(i, "COMPLETED", "OK") /\ tpc[i] = "transfer"
        /\ UNCHANGED <<proto, proxied, err, loop, mainVars>>
    BY <1>6 DEF Finish
  <2>2. Returns(i)
    BY <2>1, ReturnFacts DEF Returns, Outcome, Stages
  <2>3. QED
    BY <2>1, <2>2, ReturnFacts
<1>7. CASE Fail(i)
  <2>1. UNCHANGED <<proto, proxied, err, loop, mainVars>>
    BY <1>7 DEF Fail
  <2>2. PICK f \in FailureTable :
          f.routine = Routine(i) /\ f.at = tpc[i] /\ f.kind \in Failures /\ Return(i, f.s, f.e)
    BY <1>7 DEF Fail
  <2>3. Outcome(i, f.s, f.e) /\ f.at \in Stages
    BY <2>2, Rows DEF Outcome, Row, Stages
  <2>4. Returns(i)
    BY <2>1, <2>2, <2>3, ReturnFacts DEF Returns
  <2>5. QED
    BY <2>1, <2>2, <2>4, ReturnFacts
<1>8. CASE EndAttempt(i)
  <2>1. /\ tpc[i] = "return" /\ UNCHANGED <<proto, proxied, status, loop, mainVars>>
        /\ err' = [err EXCEPT ![i] = rv[i]] /\ rv' = [rv EXCEPT ![i] = "none"]
    BY <1>8 DEF EndAttempt
  <2>2. \E over \in BOOLEAN : tpc' = [tpc EXCEPT ![i] =
          IF rv[i] = "OK" \/ rv[i] \in PassedUp(loop[i]) \/ over THEN "ended" ELSE "start"]
    BY <1>8 DEF EndAttempt
  <2>3. EndsAttempt(i)
    BY <2>1, <2>2 DEF EndsAttempt, TypeOK
  <2>4. QED
    BY <2>1, <2>2, <2>3 DEF TypeOK
<1>9. CASE Retrieve(i)
  <2>1. /\ tpc[i] = "request" /\ tpc' = [tpc EXCEPT ![i] = "accept"]
        /\ UNCHANGED <<proto, proxied, status, err, rv, loop, mainVars>>
    BY <1>9 DEF Retrieve
  <2>2. Advances(i)
    BY <2>1 DEF Advances, Stages, TypeOK
  <2>3. QED
    BY <2>1, <2>2 DEF TypeOK
<1>10. QED
  BY <1>1, <1>2, <1>3, <1>4, <1>5, <1>6, <1>7, <1>8, <1>9 DEF Thread

-----------------------------------------------------------------------------
(***************************************************************************)
(* Types.                                                                  *)
(***************************************************************************)
ThreadTypes ==
  /\ status \in [Conn -> Statuses] /\ err \in [Conn -> Errs]
  /\ attempts \in [Conn -> 0 .. MaxAttempts]
  /\ tpc \in [Conn -> TPcs] /\ rv \in [Conn -> Errs] /\ loop \in [Conn -> {"ftp", "http"}]
  /\ session \in [Conn -> BOOLEAN]

LEMMA ReturnTypes ==
  ASSUME TypeOK, NEW i \in Conn, NEW s \in Statuses, NEW e \in Errs, Return(i, s, e),
         UNCHANGED <<err, attempts, loop, session>>
  PROVE  ThreadTypes'
BY DEF TypeOK, ThreadTypes, Return, Set, TPcs

LEMMA SetTypes ==
  ASSUME TypeOK, NEW i \in Conn, NEW s \in Statuses, NEW pc \in TPcs, Set(i, s, pc),
         UNCHANGED <<err, rv, attempts, loop>>, session' \in [Conn -> BOOLEAN]
  PROVE  ThreadTypes'
BY DEF TypeOK, ThreadTypes, Set, TPcs

LEMMA ThreadTyped ==
  ASSUME TypeOK, NEW i \in Conn, Thread(i)
  PROVE  ThreadTypes'
<1> USE DEF Statuses, Errs, TPcs
<1>1. CASE Start(i)
  <2>1. UNCHANGED <<err, attempts, loop, session>>
    BY <1>1 DEF Start
  <2>2. CASE Return(i, "COMPLETED", "OK")
    BY <2>1, <2>2, ReturnTypes
  <2>3. CASE Set(i, "CONNECTING", "connect") /\ UNCHANGED rv
    BY <2>1, <2>3, SetTypes DEF TypeOK
  <2>4. QED
    BY <1>1, <2>2, <2>3 DEF Start
<1>2. CASE Connect(i)
  <2>1. UNCHANGED <<err, attempts, loop>>
    BY <1>2 DEF Connect
  <2>2. CASE tpc' = [tpc EXCEPT ![i] = "request"] /\ UNCHANGED <<status, rv, session>>
    BY <2>1, <2>2 DEF TypeOK, ThreadTypes
  <2>3. CASE Return(i, "CONREJECT", "FTPCONREFUSED") /\ UNCHANGED session
    BY <2>1, <2>3, ReturnTypes
  <2>4. CASE /\ Set(i, "LOGGININ", "login") /\ UNCHANGED rv
             /\ session' = [session EXCEPT ![i] = (RefuseAt = "greeting")]
    BY <2>1, <2>4, SetTypes DEF TypeOK
  <2>5. QED
    BY <1>2, <2>2, <2>3, <2>4 DEF Connect
<1>3. CASE NoGreeting(i) \/ Finish(i)
  BY <1>3, ReturnTypes DEF NoGreeting, Finish
<1>4. CASE Login(i)
  <2>1. UNCHANGED <<err, attempts, loop>>
    BY <1>4 DEF Login
  <2>2. CASE Return(i, "LOGINFAIL", "FTPLOGREFUSED") /\ UNCHANGED session
    BY <2>1, <2>2, ReturnTypes
  <2>3. CASE /\ tpc' = [tpc EXCEPT ![i] = "request"] /\ UNCHANGED <<status, rv>>
             /\ session' = [session EXCEPT ![i] = TRUE]
    BY <2>1, <2>3 DEF TypeOK, ThreadTypes
  <2>4. QED
    BY <1>4, <2>2, <2>3 DEF Login
<1>5. CASE Transfer(i) \/ Accept(i)
  BY <1>5, SetTypes DEF Transfer, Accept, TypeOK
<1>6. CASE Fail(i)
  <2>1. PICK f \in FailureTable : Return(i, f.s, f.e)
    BY <1>6 DEF Fail
  <2>2. UNCHANGED <<err, attempts, loop, session>>
    BY <1>6 DEF Fail
  <2>3. f.s \in Statuses /\ f.e \in Errs
    BY Rows DEF Row
  <2>4. QED
    BY <2>1, <2>2, <2>3, ReturnTypes
<1>7. CASE EndAttempt(i)
  <2>1. attempts' \in [Conn -> 0 .. MaxAttempts]
    <3>1. attempts[i] \in 0 .. MaxAttempts
      BY DEF TypeOK
    <3>2. PICK a : attempts' = [attempts EXCEPT ![i] = a]
                   /\ a = IF MaxAttempts # 0 /\ attempts[i] + 1 >= MaxAttempts THEN MaxAttempts
                          ELSE IF MaxAttempts = 0 THEN 0 ELSE attempts[i] + 1
      BY <1>7 DEF EndAttempt
    <3>3. a \in 0 .. MaxAttempts
      BY <3>1, <3>2, SupervisionAssumption
    <3>4. QED
      BY <3>2, <3>3 DEF TypeOK
  <2>2. PICK over \in BOOLEAN : tpc' = [tpc EXCEPT ![i] =
          IF rv[i] = "OK" \/ rv[i] \in PassedUp(loop[i]) \/ over THEN "ended" ELSE "start"]
    BY <1>7 DEF EndAttempt
  <2>3. tpc' \in [Conn -> TPcs]
    BY <2>2 DEF TypeOK
  <2>4. QED
    BY <1>7, <2>1, <2>3 DEF EndAttempt, TypeOK, ThreadTypes
<1>8. CASE Retrieve(i)
  BY <1>8 DEF Retrieve, TypeOK, ThreadTypes
<1>9. QED
  BY <1>1, <1>2, <1>3, <1>4, <1>5, <1>6, <1>7, <1>8 DEF Thread

(* One more accepting connection costs a failure; one that ends is lost.   *)
LEMMA AcceptingIsCounted ==
  /\ IsFiniteSet(Accepting) /\ Cardinality(Accepting) \in Nat
  /\ \A S \in SUBSET Accepting : Cardinality(S) \in Nat /\ Cardinality(S) <= Cardinality(Accepting)
  /\ \A i : Cardinality(Accepting \cup {i}) \in Nat
            /\ Cardinality(Accepting \cup {i}) <= Cardinality(Accepting) + 1
  /\ \A i \in Accepting : Cardinality(Accepting \ {i}) = Cardinality(Accepting) - 1
<1>1. IsFiniteSet(Accepting) /\ Cardinality(Accepting) \in Nat
  BY CountType, FS_CardinalityType DEF Accepting
<1>2. QED
  BY <1>1, FS_AddElement, FS_RemoveElement, FS_Subset, FS_CardinalityType

LEMMA ThreadPays ==
  ASSUME TypeOK, LostArePaid, NEW i \in Conn, Thread(i)
  PROVE  LostArePaid' /\ lost' \in 0 .. MaxFaults /\ faults' \in 0 .. MaxFaults
<1> USE AcceptingIsCounted DEF LostArePaid
<1>1. ASSUME Accepting' \subseteq Accepting, UNCHANGED <<lost, faults>>
      PROVE  LostArePaid'
  <2>1. Cardinality(Accepting') <= Cardinality(Accepting) /\ Cardinality(Accepting') \in Nat
    BY <1>1
  <2>2. QED
    BY <1>1, <2>1 DEF TypeOK
<1>2. ASSUME NEW s, NEW e, Return(i, s, e)
      PROVE  Accepting' \subseteq IF e = "ACCEPTERR" THEN Accepting \cup {i} ELSE Accepting
  BY <1>2 DEF Return, Accepting, TypeOK
<1>3. CASE \/ Start(i) \/ Connect(i) \/ NoGreeting(i) \/ Login(i)
           \/ Transfer(i) \/ Retrieve(i) \/ Accept(i) \/ Finish(i)
  <2>1. UNCHANGED <<lost, faults>>
    BY <1>3 DEF Start, Connect, NoGreeting, Login, Transfer, Retrieve, Accept, Finish
  <2>2. Accepting' \subseteq Accepting
    BY <1>2, <1>3 DEF Start, Connect, NoGreeting, Login, Transfer, Retrieve, Accept, Finish,
                      Accepting
  <2>3. QED
    BY <1>1, <2>1, <2>2 DEF TypeOK
<1>4. CASE Fail(i)
  <2>1. faults < MaxFaults /\ faults' = faults + 1 /\ lost' = lost
    BY <1>4 DEF Fail
  <2>2. Accepting' \subseteq Accepting \cup {i}
    BY <1>2, <1>4 DEF Fail
  <2>3. Cardinality(Accepting') <= Cardinality(Accepting) + 1
    <3>1. IsFiniteSet(Accepting \cup {i})
      BY FS_AddElement
    <3>2. Cardinality(Accepting') <= Cardinality(Accepting \cup {i}) /\ IsFiniteSet(Accepting')
      BY <2>2, <3>1, FS_Subset
    <3>3. Cardinality(Accepting \cup {i}) <= Cardinality(Accepting) + 1
      BY AcceptingIsCounted
    <3>4. /\ Cardinality(Accepting') \in Nat /\ Cardinality(Accepting \cup {i}) \in Nat
          /\ Cardinality(Accepting) \in Nat
      BY <3>1, <3>2, FS_CardinalityType
    <3>5. QED
      BY <3>2, <3>3, <3>4
  <2>4. Cardinality(Accepting') \in Nat
    <3>1. IsFiniteSet(Accepting \cup {i})
      BY FS_AddElement
    <3>2. QED
      BY <2>2, <3>1, FS_Subset, FS_CardinalityType
  <2>5. QED
    BY <2>1, <2>3, <2>4, SupervisionAssumption DEF TypeOK
<1>5. CASE EndAttempt(i)
  <2>1. /\ rv' = [rv EXCEPT ![i] = "none"] /\ faults' = faults
        /\ lost' = IF i \in Accepting THEN lost + 1 ELSE lost
    BY <1>5 DEF EndAttempt, Accepting
  <2>2. Accepting' = Accepting \ {i}
    BY <2>1 DEF Accepting, TypeOK
  <2>3. CASE i \in Accepting
    <3>1. Cardinality(Accepting') = Cardinality(Accepting) - 1 /\ lost' = lost + 1
      BY <2>1, <2>2, <2>3
    <3>2. Cardinality(Accepting') \in Nat
      BY <2>2
    <3>3. QED
      BY <2>1, <3>1, <3>2, SupervisionAssumption DEF TypeOK
  <2>4. CASE i \notin Accepting
    <3>1. Accepting' \subseteq Accepting /\ UNCHANGED <<lost, faults>>
      BY <2>1, <2>2, <2>4
    <3>2. QED
      BY <1>1, <3>1 DEF TypeOK
  <2>5. QED
    BY <2>3, <2>4
<1>6. QED
  BY <1>3, <1>4, <1>5 DEF Thread

LEMMA ThreadTInv ==
  ASSUME TInv, LoopsFit, NEW i \in Conn, Thread(i)
  PROVE  TInv'
<1> USE DEF TInv
<1>1. ThreadEffect(i)
  BY ThreadSteps
<1>2. ThreadTypes' /\ LostArePaid' /\ lost' \in 0 .. MaxFaults /\ faults' \in 0 .. MaxFaults
  BY ThreadTyped, ThreadPays
<1>3. TypeOK' /\ proto' \in {"ftp", "http"}
  <2>1. UNCHANGED <<proto, proxied, mi, mj, st, dling, again, maxSimul, result>> /\ mpc' \in {mpc, "next"}
    BY <1>1 DEF ThreadEffect, MainKeeps
  <2>2. QED
    BY <1>2, <2>1 DEF TypeOK, ThreadTypes, TPcs, MainPcs
<1>4. MainPlaced'
  <2>1. tpc[i] \notin AtRest /\ tpc'[i] # "cancelled"
    BY <1>1 DEF ThreadEffect, Begins, Advances, Returns, EndsAttempt, Stages, AtRest
  <2>2. mpc # "returned" /\ mpc' # "returned" /\ UNCHANGED <<mi, result>>
        /\ (mpc' = mpc \/ (mpc = "wait" /\ mpc' = "next"))
    BY <1>1, <2>1 DEF ThreadEffect, MainKeeps, MainPlaced
  <2>3. \A j \in Conn \ {i} : tpc'[j] = tpc[j]
    BY <1>1 DEF ThreadEffect, OthersKeep
  <2>4. QED
    BY <2>1, <2>2, <2>3 DEF MainPlaced, Handling, MainPcs
<1>5. QED
  BY <1>2, <1>3, <1>4

-----------------------------------------------------------------------------
(***************************************************************************)
(* A step of a thread keeps what the connections promise the main thread.  *)
(***************************************************************************)
LEMMA OutcomeFacts ==
  ASSUME NEW i \in Conn, loop[i] \in {"ftp", "http"}, NEW s, NEW e, Outcome(i, s, e)
  PROVE  /\ s = "COMPLETED" <=> e = "OK"
         /\ s \in Refusals => loop[i] = "ftp" /\ e \in {"FTPCONREFUSED", "FTPLOGREFUSED"}
         /\ s = "LOCALFATAL" => e = "FWRITEERR"
         /\ e = "CANTRESUME" => (loop[i] = "http" /\ s = "REMOTEFATAL") \/ Routine(i) = "proxy"
         /\ e = "FTPCWDFAIL" => loop[i] = "ftp" /\ "cwd" \in Failures
         /\ e = "FTPNSFOD" => loop[i] = "ftp"
         /\ e \in NotFound => "notfound" \in Failures
         /\ e # "none"
<1>1. CASE \E f \in FailureTable : f.routine = Routine(i) /\ f.kind \in Failures /\ s = f.s /\ e = f.e
  <2>1. PICK f \in FailureTable : f.routine = Routine(i) /\ f.kind \in Failures /\ s = f.s /\ e = f.e
    BY <1>1
  <2>2. Row(f)
    BY Rows
  <2>3. QED
    BY <2>1, <2>2, Routines DEF Row, Refusals, NotFound, Errs
<1>2. CASE ~ \E f \in FailureTable : f.routine = Routine(i) /\ f.kind \in Failures /\ s = f.s /\ e = f.e
  BY <1>2 DEF Outcome, Refusals, NotFound
<1>3. QED
  BY <1>1, <1>2

LEMMA ThreadLoops ==
  ASSUME TypeOK, LoopsFit, NEW i \in Conn, ThreadEffect(i)
  PROVE  LoopsFit'
<1>1. /\ tpc'[i] = "login" => proto = "ftp"
      /\ status'[i] \in Refusals => loop[i] = "ftp"
  <2>1. CASE Begins(i) \/ Advances(i)
    BY <2>1 DEF Begins, Advances, LoopsFit, Refusals
  <2>2. CASE Returns(i)
    BY <2>2, OutcomeFacts DEF TypeOK, Returns, Refusals
  <2>3. CASE EndsAttempt(i)
    BY <2>3 DEF EndsAttempt, LoopsFit
  <2>4. QED
    BY <2>1, <2>2, <2>3 DEF ThreadEffect
<1>2. proto' = proto /\ loop' = loop
  BY DEF ThreadEffect, MainKeeps
<1>3. \A j \in Conn \ {i} : status'[j] = status[j] /\ tpc'[j] = tpc[j]
  BY DEF ThreadEffect, OthersKeep
<1>4. QED
  BY <1>1, <1>2, <1>3 DEF LoopsFit

LEMMA ThreadCompleted ==
  ASSUME TypeOK, CompletedRests, NEW i \in Conn, ThreadEffect(i)
  PROVE  CompletedRests'
<1>1. status'[i] = "COMPLETED" =>
        \/ tpc'[i] \in {"start", "cancelled"}
        \/ tpc'[i] = "return" /\ rv'[i] = "OK"
        \/ tpc'[i] = "ended" /\ err'[i] = "OK"
  <2>1. CASE Begins(i) \/ Advances(i)
    BY <2>1 DEF Begins, Advances, CompletedRests, Stages
  <2>2. CASE Returns(i)
    BY <2>2, OutcomeFacts DEF TypeOK, Returns
  <2>3. CASE EndsAttempt(i)
    BY <2>3 DEF EndsAttempt, CompletedRests
  <2>4. QED
    BY <2>1, <2>2, <2>3 DEF ThreadEffect
<1>2. \A j \in Conn \ {i} :
        status'[j] = status[j] /\ tpc'[j] = tpc[j] /\ rv'[j] = rv[j] /\ err'[j] = err[j]
  BY DEF ThreadEffect, OthersKeep
<1>3. QED
  BY <1>1, <1>2 DEF CompletedRests

LEMMA ThreadLocalFatal ==
  ASSUME TypeOK, LocalFatalRests, NEW i \in Conn, ThreadEffect(i),
         mpc = "wait" => loop[mi] = "ftp"
  PROVE  LocalFatalRests'
<1>1. status'[i] = "LOCALFATAL" =>
        tpc'[i] \in AtRest \/ (tpc'[i] = "return" /\ rv'[i] = "FWRITEERR")
  <2>1. CASE Begins(i) \/ Advances(i)
    BY <2>1 DEF Begins, Advances, LocalFatalRests, Stages, AtRest
  <2>2. CASE Returns(i)
    BY <2>2, OutcomeFacts DEF TypeOK, Returns
  <2>3. CASE EndsAttempt(i)
    BY <2>3 DEF EndsAttempt, LocalFatalRests, AtRest, PassedUp
  <2>4. QED
    BY <2>1, <2>2, <2>3 DEF ThreadEffect
<1>2. \A j \in Conn \ {i} :
        status'[j] = status[j] /\ tpc'[j] = tpc[j] /\ rv'[j] = rv[j]
  BY DEF ThreadEffect, OthersKeep
<1>3. mi' = mi /\ (mpc' = mpc \/ mi = i)
  BY DEF ThreadEffect, MainKeeps
<1>4. QED
  BY <1>1, <1>2, <1>3 DEF LocalFatalRests

LEMMA ThreadHttp ==
  ASSUME TypeOK, HttpPassesUp, NEW i \in Conn, ThreadEffect(i)
  PROVE  HttpPassesUp'
<1>1. loop' = loop /\ \A j : Routine(j)' = Routine(j)
  BY DEF ThreadEffect, MainKeeps, Routine
<1>2. /\ tpc'[i] = "return" /\ rv'[i] = "CANTRESUME" =>
           (loop[i] = "http" /\ status'[i] = "REMOTEFATAL") \/ Routine(i) = "proxy"
      /\ err'[i] = "CANTRESUME" =>
           (loop[i] = "http" /\ status'[i] = "REMOTEFATAL" /\ tpc'[i] \in AtRest)
           \/ Routine(i) = "proxy"
      /\ loop[i] = "http" /\ err'[i] \in NotFound => tpc'[i] \in AtRest
      /\ loop[i] = "http" => /\ err'[i] \notin {"FTPNSFOD", "FTPCWDFAIL"}
                             /\ rv'[i] \notin {"FTPNSFOD", "FTPCWDFAIL"}
  <2>1. CASE Begins(i) \/ Advances(i)
    BY <2>1 DEF Begins, Advances, HttpPassesUp, Stages, AtRest
  <2>2. CASE Returns(i)
    BY <2>2, OutcomeFacts DEF TypeOK, Returns, HttpPassesUp, Stages, AtRest
  <2>3. CASE EndsAttempt(i)
    BY <2>3 DEF EndsAttempt, HttpPassesUp, AtRest, PassedUp, NotFound
  <2>4. QED
    BY <2>1, <2>2, <2>3 DEF ThreadEffect
<1>3. \A j \in Conn \ {i} :
        status'[j] = status[j] /\ tpc'[j] = tpc[j] /\ rv'[j] = rv[j] /\ err'[j] = err[j]
  BY DEF ThreadEffect, OthersKeep
<1>4. QED
  BY <1>1, <1>2, <1>3 DEF HttpPassesUp

LEMMA ThreadMain ==
  ASSUME IInv, NEW i \in Conn, ThreadEffect(i)
  PROVE  MainKnows' /\ ResultHasCause'
<1> USE DEF IInv, TInv
<1>1. /\ UNCHANGED <<proto, proxied, loop, mi, result>>
      /\ mpc' = mpc \/ mpc' = "next"
  BY DEF ThreadEffect, MainKeeps
<1>2. \A j \in Conn \ {i} : status'[j] = status[j] /\ err'[j] = err[j] /\ tpc'[j] = tpc[j]
  BY DEF ThreadEffect, OthersKeep
<1>3. tpc[i] \notin AtRest
  BY DEF ThreadEffect, Begins, Advances, Returns, EndsAttempt, Stages, AtRest
<1>4. mpc # "returned" /\ result = "none"
  BY <1>3 DEF MainPlaced
<1>5. status[i] = "COMPLETED" => status'[i] = "COMPLETED"
  BY DEF ThreadEffect, Begins, Advances, Returns, EndsAttempt, CompletedRests, Stages
<1>6. status[i] = "LOCALFATAL" /\ mpc # "wait" => status'[i] = "LOCALFATAL"
  BY DEF ThreadEffect, Begins, Advances, Returns, EndsAttempt, LocalFatalRests, Stages, AtRest
<1>7. mpc \in Handling => mi \in Conn
  BY SupervisionAssumption DEF MainPlaced, TypeOK, Conn
<1>8. MainKnows'
  <2>1. mpc' = "localfatal" => status'[mi] = "LOCALFATAL"
    BY <1>1, <1>2, <1>6, <1>7 DEF MainKnows, Handling, MainPcs
  <2>2. mpc' \in {"allnotfound", "allcwd", "join"} /\ loop[mi] = "http" =>
          tpc'[mi] = "ended" /\ err'[mi] # "CANTRESUME"
    BY <1>1, <1>2, <1>3, <1>7 DEF MainKnows, Handling, MainPcs, AtRest
  <2>3. mpc' = "finish" => \A j \in Conn : status'[j] = "COMPLETED"
    BY <1>1, <1>2, <1>5 DEF MainKnows, AllStatus
  <2>4. QED
    BY <1>1, <1>4, <2>1, <2>2, <2>3 DEF MainKnows, AllStatus, Handling
<1>9. ResultHasCause'
  BY <1>1, <1>4 DEF ResultHasCause
<1>10. QED
  BY <1>8, <1>9

LEMMA ThreadIInv ==
  ASSUME IInv, NEW i \in Conn, Thread(i)
  PROVE  IInv'
<1> USE DEF IInv
<1>1. TInv'
  BY ThreadTInv
<1>2. ThreadEffect(i)
  BY ThreadSteps DEF TInv
<1>3. LoopsFit' /\ CompletedRests' /\ HttpPassesUp'
  BY <1>2, ThreadLoops, ThreadCompleted, ThreadHttp DEF TInv
<1>4. LocalFatalRests' 
  BY <1>2, ThreadLocalFatal DEF TInv, MainKnows
<1>5. MainKnows' /\ ResultHasCause'
  BY <1>2, ThreadMain
<1>6. QED
  BY <1>1, <1>3, <1>4, <1>5

-----------------------------------------------------------------------------
(***************************************************************************)
(* What a step of the main thread does.                                    *)
(***************************************************************************)
mainKeeps == <<proto, proxied, status, err, attempts, rv, lost, faults>>

Cancels ==
  /\ mpc \in Handling /\ mpc' = "returned" /\ mi' = mi
  /\ \A i \in Conn : tpc'[i] = "cancelled"
  /\ loop' = loop
  /\ \/ result' = "DLREMOTEFATAL"
     \/ result' = "DLLOCALFATAL" /\ mpc = "localfatal"
     \/ result' = "CANTRESUME" /\ mpc = "readerr" /\ err[mi] = "CANTRESUME"

Relaunches ==
  /\ mpc = "join" /\ mpc' = "wait" /\ tpc[mi] = "ended"
  /\ tpc' = [tpc EXCEPT ![mi] = "start"]
  /\ loop' = [loop EXCEPT ![mi] = "ftp"]
  /\ UNCHANGED <<mi, result>>

(* Where the main thread goes without touching a thread, and why. *)
Walks ==
  /\ UNCHANGED <<tpc, loop, session>>
  /\ \/ mpc = "poll" /\ mpc' = "scan" /\ UNCHANGED result
     \/ mpc = "poll" /\ mpc' = "finish" /\ AllStatus("COMPLETED") /\ UNCHANGED result
     \/ /\ mpc = "finish" /\ mpc' = "returned" /\ result' = "DLDONE" /\ mi' = mi
        /\ \A i \in Conn : tpc[i] = "ended"
     \/ mpc = "scan" /\ mi = N /\ mpc' = "poll" /\ UNCHANGED result
     \/ mpc = "next" /\ mpc' = "scan" /\ UNCHANGED result
     \/ /\ mpc = "scan" /\ mi < N /\ UNCHANGED <<mi, result>>
        /\ \/ mpc' \in {"readerr", "next"}
           \/ mpc' = "localfatal" /\ status[mi] = "LOCALFATAL"
           \/ mpc' = "same" /\ status[mi] \in Refusals
     \/ /\ mpc = "readerr" /\ UNCHANGED <<mi, result>>
        /\ \/ mpc' = "next"
           \/ mpc' = "allnotfound" /\ err[mi] \in NotFound
           \/ mpc' = "allcwd" /\ err[mi] = "FTPCWDFAIL"
     \/ /\ mpc \in {"allnotfound", "allcwd"} /\ mpc' \in {mpc, "join"}
        /\ UNCHANGED <<mi, result>>
     \/ /\ mpc \in {"same", "count", "connecting", "loggingin"}
        /\ mpc' \in {"count", "connecting", "loggingin", "join", "next"}
        /\ UNCHANGED <<mi, result>>

LEMMA ReadStatusFacts ==
  ASSUME ReadStatus
  PROVE  \/ mpc' \in {"readerr", "next"}
         \/ mpc' = "localfatal" /\ status[mi] = "LOCALFATAL"
         \/ mpc' = "same" /\ status[mi] \in Refusals
<1>1. mpc' = CASE status[mi] = "REMOTEFATAL"               -> "readerr"
               [] status[mi] = "LOCALFATAL"                -> "localfatal"
               [] status[mi] \in {"LOGINFAIL", "CONREJECT"} -> "same"
               [] OTHER                                    -> "next"
  BY DEF ReadStatus
<1>2. CASE status[mi] = "REMOTEFATAL"
  BY <1>1, <1>2, Zenon
<1>3. CASE status[mi] = "LOCALFATAL"
  BY <1>1, <1>3, Zenon
<1>4. CASE status[mi] \in {"LOGINFAIL", "CONREJECT"}
  BY <1>1, <1>4, Zenon DEF Refusals
<1>5. CASE status[mi] \notin {"REMOTEFATAL", "LOCALFATAL", "LOGINFAIL", "CONREJECT"}
  BY <1>1, <1>5, Zenon
<1>6. QED
  BY <1>2, <1>3, <1>4, <1>5

LEMMA StopFacts ==
  ASSUME NEW r, Stop(r)
  PROVE  /\ UNCHANGED mainKeeps /\ UNCHANGED <<loop, mi, mj, st, dling, again, maxSimul>>
         /\ \A i \in Conn : tpc'[i] = "cancelled"
         /\ tpc' \in [Conn -> TPcs] /\ session' \in [Conn -> BOOLEAN]
         /\ mpc' = "returned" /\ result' = r
BY DEF Stop, mainKeeps, TPcs

LEMMA MainSteps ==
  ASSUME TypeOK, Main
  PROVE  UNCHANGED mainKeeps /\ (Cancels \/ Relaunches \/ Walks)
<1> USE DEF mainKeeps, threadVars, Goto
<1>1. CASE Poll
  BY <1>1 DEF Poll, Walks
<1>2. CASE JoinAll
  BY <1>2 DEF JoinAll, Walks
<1>3. CASE ReadStatus
  <2>1. UNCHANGED <<mi, result, threadVars, lost, faults>> /\ mpc = "scan" /\ mi < N
    BY <1>3 DEF ReadStatus
  <2>2. QED
    BY <1>3, <2>1, ReadStatusFacts DEF Walks
<1>4. CASE NextConn
  BY <1>4 DEF NextConn, Walks
<1>5. CASE EndOfPoll
  BY <1>5 DEF EndOfPoll, Walks
<1>6. CASE StopLocalFatal
  BY <1>6, StopFacts DEF StopLocalFatal, Cancels, Handling, MainPcs
<1>7. CASE ReadErr
  <2>1. CASE err[mi] = "CANTRESUME"
    BY <1>7, <2>1, StopFacts DEF ReadErr, Cancels, Handling, MainPcs
  <2>2. CASE err[mi] # "CANTRESUME"
    BY <1>7, <2>2 DEF ReadErr, Walks
  <2>3. QED
    BY <2>1, <2>2
<1>8. ASSUME NEW pc \in {"allnotfound", "allcwd"}, NEW es, AllErrs(pc, es)
      PROVE  UNCHANGED mainKeeps /\ (Cancels \/ Walks)
  <2>1. CASE mj = N
    BY <1>8, <2>1, StopFacts DEF AllErrs, Cancels, Handling, MainPcs
  <2>2. CASE mj # N
    BY <1>8, <2>2 DEF AllErrs, Walks
  <2>3. QED
    BY <2>1, <2>2
<1>9. CASE AllNotFound \/ AllCwdFail
  BY <1>8, <1>9 DEF AllNotFound, AllCwdFail
<1>10. CASE AllSame \/ CountDownloading
  BY <1>10 DEF AllSame, CountDownloading, Walks
<1>11. CASE CountConnecting \/ CountLoggingIn
  BY <1>11 DEF CountConnecting, CountLoggingIn, CountBusy, Walks
<1>12. CASE Relaunch
  BY <1>12 DEF Relaunch, Relaunches
<1>13. QED
  BY <1>1, <1>2, <1>3, <1>4, <1>5, <1>6, <1>7, <1>9, <1>10, <1>11, <1>12 DEF Main

(* The main thread is at a connection when it handles one. *)
LEMMA AtConn ==
  ASSUME TInv
  PROVE  mpc \in Handling => mi \in Conn
BY SupervisionAssumption DEF TInv, MainPlaced, TypeOK, Conn

LEMMA MainTyped ==
  ASSUME TypeOK, MainPlaced, Main
  PROVE  TypeOK'
<1> USE DEF threadVars, Goto, MainPcs, Statuses
<1>1. CASE Poll \/ JoinAll
  BY <1>1, SupervisionAssumption DEF Poll, JoinAll, TypeOK
<1>2. CASE ReadStatus
  <2>1. /\ UNCHANGED <<mi, mj, dling, again, maxSimul, result, threadVars, lost, faults>>
        /\ st' = status[mi] /\ mi \in Conn
    BY <1>2, SupervisionAssumption DEF ReadStatus, TypeOK, Conn
  <2>2. mpc' \in MainPcs /\ st' \in Statuses
    BY <1>2, <2>1, ReadStatusFacts DEF TypeOK
  <2>3. QED
    BY <2>1, <2>2 DEF TypeOK
<1>3. CASE NextConn
  <2>1. mi + 1 \in 0 .. N
    BY <1>3, SupervisionAssumption DEF NextConn, TypeOK, MainPlaced, Handling
  <2>2. /\ mpc' \in MainPcs /\ mi' \in 0 .. N /\ mj' \in 0 .. N /\ dling' \in 0 .. N
        /\ st' = "none" /\ UNCHANGED <<maxSimul, result, threadVars, lost, faults>>
    BY <1>3, <2>1, SupervisionAssumption DEF NextConn
  <2>3. again' \in BOOLEAN
    BY <1>3 DEF NextConn
  <2>4. QED
    BY <2>2, <2>3 DEF TypeOK
<1>4. CASE EndOfPoll
  BY <1>4, SupervisionAssumption DEF EndOfPoll, TypeOK
<1>5. ASSUME NEW r \in {"DLREMOTEFATAL", "DLLOCALFATAL", "CANTRESUME"}, Stop(r)
      PROVE  TypeOK'
  BY <1>5, StopFacts DEF TypeOK, mainKeeps, TPcs
<1>6. CASE StopLocalFatal
  BY <1>5, <1>6 DEF StopLocalFatal
<1>7. CASE ReadErr
  <2>1. CASE err[mi] = "CANTRESUME"
    BY <1>5, <1>7, <2>1 DEF ReadErr
  <2>2. CASE err[mi] # "CANTRESUME"
    BY <1>7, <2>2 DEF ReadErr, TypeOK
  <2>3. QED
    BY <2>1, <2>2
<1>8. ASSUME NEW pc \in {"allnotfound", "allcwd"}, NEW es, AllErrs(pc, es)
      PROVE  TypeOK'
  <2>1. CASE mj = N
    BY <1>5, <1>8, <2>1 DEF AllErrs
  <2>2. CASE mj # N
    <3>1. mj + 1 \in 0 .. N
      BY <2>2, SupervisionAssumption DEF TypeOK
    <3>2. QED
      BY <1>8, <2>2, <3>1, SupervisionAssumption DEF AllErrs, TypeOK
  <2>3. QED
    BY <2>1, <2>2
<1>9. CASE AllNotFound \/ AllCwdFail
  BY <1>8, <1>9 DEF AllNotFound, AllCwdFail
<1>10. CASE AllSame
  BY <1>10 DEF AllSame, TypeOK
<1>11. CASE CountDownloading
  <2>1. Count("DOWNLOADING") \in 0 .. N
    BY CountType DEF Count
  <2>2. maxSimul' \in 0 .. N /\ dling' \in 0 .. N /\ mpc' \in MainPcs
    BY <1>11, <2>1 DEF CountDownloading, TypeOK
  <2>3. UNCHANGED <<mi, mj, st, again, result, threadVars, lost, faults>>
    BY <1>11 DEF CountDownloading
  <2>4. QED
    BY <2>2, <2>3 DEF TypeOK
<1>12. CASE CountConnecting \/ CountLoggingIn
  BY <1>12 DEF CountConnecting, CountLoggingIn, CountBusy, TypeOK
<1>13. CASE Relaunch
  BY <1>13 DEF Relaunch, TypeOK
<1>14. QED
  BY <1>1, <1>2, <1>3, <1>4, <1>6, <1>7, <1>9, <1>10, <1>11, <1>12, <1>13 DEF Main

LEMMA MainTInv ==
  ASSUME TInv, Main
  PROVE  TInv'
<1> USE DEF TInv, mainKeeps
<1>1. UNCHANGED mainKeeps /\ (Cancels \/ Relaunches \/ Walks)
  BY MainSteps
<1>2. TypeOK' /\ proto' \in {"ftp", "http"} /\ LostArePaid'
  BY <1>1, MainTyped DEF LostArePaid, Accepting
<1>3. MainPlaced'
  <2>1. CASE Cancels
    BY <2>1 DEF Cancels, MainPlaced, Handling, AtRest
  <2>2. CASE Relaunches
    BY <2>2 DEF Relaunches, MainPlaced, Handling, MainPcs, TypeOK
  <2>3. CASE Walks
    <3>1. UNCHANGED tpc
      BY <2>3 DEF Walks
    <3>2. mpc' \in Handling => mi' < N
      BY <2>3 DEF Walks, MainPlaced, Handling, MainPcs
    <3>3. (result' # "none" <=> mpc' = "returned") /\ (mpc = "returned" => mpc' = "returned")
      BY <2>3 DEF Walks, MainPlaced
    <3>4. mpc' = "returned" => \A i \in Conn : tpc[i] \in AtRest
      BY <2>3 DEF Walks, MainPlaced, AtRest
    <3>5. QED
      BY <3>1, <3>2, <3>3, <3>4 DEF MainPlaced
  <2>4. QED
    BY <1>1, <2>1, <2>2, <2>3
<1>4. QED
  BY <1>2, <1>3

LEMMA MainConnections ==
  ASSUME IInv, Main
  PROVE  LoopsFit' /\ CompletedRests' /\ LocalFatalRests' /\ HttpPassesUp'
<1> USE DEF IInv, TInv, mainKeeps
<1>1. UNCHANGED mainKeeps /\ (Cancels \/ Relaunches \/ Walks)
  BY MainSteps
<1>2. CASE Cancels
  BY <1>1, <1>2 DEF Cancels, LoopsFit, CompletedRests, LocalFatalRests, HttpPassesUp, AtRest,
                    Routine
<1>3. CASE Relaunches
  <2>1. mi \in Conn /\ (loop[mi] = "http" => err[mi] # "CANTRESUME")
    BY <1>3, AtConn DEF Relaunches, MainKnows, Handling, MainPcs
  <2>2. err[mi] = "CANTRESUME" => loop[mi] = "ftp" /\ proxied
    BY <2>1 DEF HttpPassesUp, Routine, TypeOK
  <2>3. tpc'[mi] = "start" /\ loop'[mi] = "ftp"
    BY <1>3, <2>1 DEF Relaunches, TypeOK
  <2>4. /\ \A i \in Conn \ {mi} : tpc'[i] = tpc[i] /\ loop'[i] = loop[i]
        /\ mpc # "wait" /\ mpc' = "wait" /\ mi' = mi
    BY <1>3, <2>1 DEF Relaunches, TypeOK
  <2>5. LoopsFit' /\ CompletedRests' /\ LocalFatalRests'
    BY <1>1, <2>3, <2>4 DEF LoopsFit, CompletedRests, LocalFatalRests
  <2>6. HttpPassesUp'
    BY <1>1, <2>2, <2>3, <2>4 DEF HttpPassesUp, Routine
  <2>7. QED
    BY <2>5, <2>6
<1>4. CASE Walks
  <2>1. UNCHANGED <<tpc, loop>> /\ mpc # "wait"
    BY <1>4 DEF Walks
  <2>2. QED
    BY <1>1, <2>1 DEF LoopsFit, CompletedRests, LocalFatalRests, HttpPassesUp, Routine
<1>5. QED
  BY <1>1, <1>2, <1>3, <1>4

LEMMA MainKnowledge ==
  ASSUME IInv, Main
  PROVE  MainKnows' /\ ResultHasCause'
<1> USE DEF IInv, TInv, mainKeeps
<1>1. UNCHANGED mainKeeps /\ (Cancels \/ Relaunches \/ Walks)
  BY MainSteps
<1>2. CASE Cancels
  <2>1. mi \in Conn
    BY <1>2, AtConn DEF Cancels
  <2>2. MainKnows'
    BY <1>2 DEF Cancels, MainKnows
  <2>3. ResultHasCause'
    <3>1. mpc = "localfatal" => status[mi] = "LOCALFATAL"
      BY DEF MainKnows
    <3>2. err[mi] = "CANTRESUME" => status[mi] = "REMOTEFATAL" \/ Routine(mi) = "proxy"
      BY <2>1 DEF HttpPassesUp
    <3>3. Routine(mi)' = Routine(mi)
      BY <1>1, <1>2 DEF Cancels, Routine
    <3>4. QED
      BY <1>1, <1>2, <2>1, <3>1, <3>2, <3>3 DEF Cancels, ResultHasCause
  <2>4. QED
    BY <2>2, <2>3
<1>3. CASE Relaunches
  <2>1. mi \in Conn
    BY <1>3, AtConn DEF Relaunches, Handling, MainPcs
  <2>2. result' = "none"
    BY <1>3 DEF Relaunches, MainPlaced
  <2>3. MainKnows'
    BY <1>3, <2>1, <2>2 DEF Relaunches, MainKnows, TypeOK
  <2>4. ResultHasCause'
    BY <2>2 DEF ResultHasCause
  <2>5. QED
    BY <2>3, <2>4
<1>4. CASE Walks
  <2>1. UNCHANGED <<tpc, loop>>
    BY <1>4 DEF Walks
  <2>2. mpc # "returned" /\ result' \in {"none", "DLDONE"}
    BY <1>4 DEF Walks, MainPlaced
  <2>3. mpc \in Handling => mi \in Conn
    BY AtConn
  <2>4. mpc' = "localfatal" => status[mi'] = "LOCALFATAL"
    BY <1>4 DEF Walks, MainKnows
  <2>5. mpc' \in {"same", "count", "connecting", "loggingin"} => loop[mi'] = "ftp"
    <3>1. mi < N /\ mpc = "scan" => mi \in Conn
      BY SupervisionAssumption DEF TypeOK, Conn
    <3>2. QED
      BY <1>4, <3>1 DEF Walks, MainKnows, LoopsFit
  <2>6. mpc' \in {"allnotfound", "allcwd", "join"} /\ loop[mi'] = "http" =>
          tpc[mi'] = "ended" /\ err[mi'] # "CANTRESUME"
    <3>1. mpc = "readerr" /\ loop[mi] = "http" /\ err[mi] \in NotFound \cup {"FTPCWDFAIL"} =>
            tpc[mi] = "ended" /\ err[mi] # "CANTRESUME"
      BY <2>3 DEF HttpPassesUp, MainPlaced, AtRest, Handling, MainPcs, NotFound
    <3>2. mpc \in {"same", "count", "connecting", "loggingin"} => loop[mi] = "ftp"
      BY DEF MainKnows
    <3>3. QED
      BY <1>4, <3>1, <3>2 DEF Walks, MainKnows
  <2>7. mpc' # "wait"
    BY <1>4 DEF Walks
  <2>8. mpc' = "finish" \/ result' = "DLDONE" => AllStatus("COMPLETED")
    BY <1>4 DEF Walks, MainKnows, MainPlaced
  <2>9. result' = "DLDONE" => \A i \in Conn : tpc[i] = "ended"
    BY <1>4 DEF Walks, MainPlaced
  <2>10. MainKnows'
    BY <1>1, <2>1, <2>4, <2>5, <2>6, <2>7, <2>8, <2>9 DEF MainKnows, AllStatus
  <2>11. QED
    BY <2>2, <2>10 DEF ResultHasCause
<1>5. QED
  BY <1>1, <1>2, <1>3, <1>4

-----------------------------------------------------------------------------
(***************************************************************************)
(* The invariant.                                                          *)
(***************************************************************************)
LEMMA InitIInv ==
  Init => IInv
<1> SUFFICES ASSUME Init PROVE IInv
  OBVIOUS
<1>1. TypeOK /\ proto \in {"ftp", "http"}
  <2>1. proto \in {"ftp", "http"} /\ 0 \in 0 .. N /\ 0 \in 0 .. MaxAttempts /\ 0 \in 0 .. MaxFaults
    BY SupervisionAssumption DEF Init
  <2>2. "IDLE" \in Statuses /\ "none" \in Errs /\ "poll" \in MainPcs
    BY DEF Statuses, Errs, MainPcs
  <2>3. QED
    BY <2>1, <2>2 DEF Init, TypeOK
<1>2. Accepting = {}
  BY DEF Init, Accepting
<1>3. LostArePaid
  BY <1>2, FS_EmptySet DEF Init, LostArePaid
<1>4. MainPlaced /\ LoopsFit /\ CompletedRests /\ LocalFatalRests
  BY DEF Init, MainPlaced, LoopsFit, CompletedRests, LocalFatalRests, Handling, Refusals
<1>5. HttpPassesUp /\ MainKnows /\ ResultHasCause
  BY DEF Init, HttpPassesUp, MainKnows, ResultHasCause, NotFound
<1>6. QED
  BY <1>1, <1>3, <1>4, <1>5 DEF IInv, TInv

LEMMA NextIInv ==
  IInv /\ [Next]_vars => IInv'
<1> SUFFICES ASSUME IInv, [Next]_vars PROVE IInv'
  OBVIOUS
<1>1. CASE \E i \in Conn : Thread(i)
  BY <1>1, ThreadIInv
<1>2. CASE Main
  BY <1>2, MainTInv, MainConnections, MainKnowledge DEF IInv
<1>3. ASSUME UNCHANGED <<threadVars, mainVars>>,
             (lost' = lost /\ faults' = faults) \/ DropSession
      PROVE  IInv'
  <2>1. /\ TypeOK' /\ lost' <= lost /\ faults' = faults /\ lost' \in Nat
        /\ UNCHANGED <<proto, proxied, status, err, tpc, rv, loop, mpc, mi, result>>
    BY <1>3, SupervisionAssumption DEF IInv, TInv, TypeOK, DropSession, threadVars, mainVars
  <2>2. Cardinality(Accepting) \in Nat /\ Accepting' = Accepting
    BY <2>1, AcceptingIsCounted DEF Accepting
  <2>3. LostArePaid'
    BY <2>1, <2>2, SupervisionAssumption DEF IInv, TInv, TypeOK, LostArePaid
  <2>4. /\ MainPlaced' /\ LoopsFit' /\ CompletedRests' /\ LocalFatalRests' /\ HttpPassesUp'
    BY <2>1 DEF IInv, TInv, MainPlaced, LoopsFit, CompletedRests, LocalFatalRests, HttpPassesUp,
                Routine
  <2>5. MainKnows' /\ ResultHasCause'
    BY <2>1 DEF IInv, MainKnows, ResultHasCause, AllStatus, Routine
  <2>6. QED
    BY <2>1, <2>3, <2>4, <2>5 DEF IInv, TInv
<1>4. CASE DropSession \/ UNCHANGED vars
  BY <1>3, <1>4 DEF DropSession, vars
<1>5. QED
  BY <1>1, <1>2, <1>4 DEF Next

LEMMA SpecIInv ==
  Spec => []IInv
BY InitIInv, NextIInv, PTL DEF Spec

(* Every variable of the control plane keeps its type.  In particular the  *)
(* main thread's index never leaves the connections, and the sessions that *)
(* the server keeps after ACCEPTERR are never more than the failures that  *)
(* cost them: LostArePaid bounds the counter that EndAttempt raises.       *)
THEOREM TypeCorrect ==
  Spec => []TypeOK
<1>1. IInv => TypeOK
  BY DEF IInv, TInv
<1>2. QED
  BY <1>1, SpecIInv, PTL

(* When handle_threads reports an end, every thread has ended or was       *)
(* cancelled, and DLDONE is only said when every connection is COMPLETED   *)
(* and stored OK (JoinAll, Stop).                                          *)
THEOREM Clean ==
  Spec => []EndIsClean
<1>1. IInv => EndIsClean
  <2> SUFFICES ASSUME IInv, result # "none"
               PROVE  /\ \A i \in Conn : tpc[i] \in {"ended", "cancelled"}
                      /\ result = "DLDONE" =>
                           \A i \in Conn : status[i] = "COMPLETED" /\ err[i] = "OK"
    BY DEF EndIsClean
  <2>1. \A i \in Conn : tpc[i] \in {"ended", "cancelled"}
    BY DEF IInv, TInv, MainPlaced, AtRest
  <2>2. ASSUME result = "DLDONE", NEW i \in Conn PROVE status[i] = "COMPLETED" /\ err[i] = "OK"
    BY <2>2 DEF IInv, MainKnows, AllStatus, CompletedRests
  <2>3. QED
    BY <2>1, <2>2
<1>2. QED
  BY <1>1, SpecIInv, PTL

(* DLLOCALFATAL is answered for a connection that is still in that state,  *)
(* and CANTRESUME for one whose last attempt returned it, although the     *)
(* main thread read its status and its err in separate steps, between      *)
(* which the thread ran (ReadStatus, ReadErr).  Unless the routine was     *)
(* ftp_get_file_from_http_proxy, whose CANTRESUME ftp_loop retries, the    *)
(* connection has not begun another attempt either.                        *)
THEOREM Cause ==
  Spec => []ResultHasCause
<1>1. IInv => ResultHasCause
  BY DEF IInv
<1>2. QED
  BY <1>1, SpecIInv, PTL

(* No step of any thread takes COMPLETED back from a connection: a thread  *)
(* that is relaunched on a completed one, even one that the main thread    *)
(* relaunched for the error of an earlier attempt, leaves it alone (Start).*)
THEOREM CompletedStays ==
  Spec => CompletedIsFinal
<1>1. IInv /\ [Next]_vars =>
        [\A i \in Conn : status[i] = "COMPLETED" => status'[i] = "COMPLETED"]_vars
  <2> SUFFICES ASSUME IInv, Next, NEW i \in Conn, status[i] = "COMPLETED"
               PROVE  status'[i] = "COMPLETED"
    OBVIOUS
  <2>1. CASE \E j \in Conn : Thread(j)
    <3>1. PICK j \in Conn : Thread(j)
      BY <2>1
    <3>2. ThreadEffect(j)
      BY <3>1, ThreadSteps DEF IInv, TInv
    <3>3. CASE j = i
      BY <3>2, <3>3 DEF ThreadEffect, Begins, Advances, Returns, EndsAttempt, Stages,
                        IInv, CompletedRests
    <3>4. CASE j # i
      BY <3>2, <3>4 DEF ThreadEffect, OthersKeep
    <3>5. QED
      BY <3>3, <3>4
  <2>2. CASE Main
    BY <2>2, MainSteps DEF IInv, TInv, mainKeeps
  <2>3. CASE DropSession
    BY <2>3 DEF DropSession, threadVars
  <2>4. QED
    BY <2>1, <2>2, <2>3 DEF Next
<1>2. QED
  BY <1>1, SpecIInv, PTL DEF Spec, CompletedIsFinal

-----------------------------------------------------------------------------
(***************************************************************************)
(* With nothing missing.                                                   *)
(***************************************************************************)
LEMMA ThreadRInv ==
  ASSUME NothingMissing, IInv, RInv, NEW i \in Conn, Thread(i)
  PROVE  RInv'
<1> USE DEF IInv, TInv, RInv
<1>1. ThreadEffect(i)
  BY ThreadSteps
<1>2. \A j \in Conn \ {i} :
        status'[j] = status[j] /\ err'[j] = err[j] /\ tpc'[j] = tpc[j] /\ rv'[j] = rv[j]
  BY <1>1 DEF ThreadEffect, OthersKeep
<1>3. /\ UNCHANGED <<proto, proxied, loop, mi>>
      /\ mpc' = mpc \/ (mpc = "wait" /\ mi = i /\ mpc' = "next")
  BY <1>1 DEF ThreadEffect, MainKeeps
<1>4. NoneMissed'
  <2>1. err'[i] \notin Missing /\ rv'[i] \notin Missing
    <3>1. CASE Begins(i) \/ Advances(i)
      BY <3>1 DEF Begins, Advances, NoneMissed
    <3>2. CASE Returns(i)
      BY <3>2, OutcomeFacts, ZenonT(60) DEF TypeOK, Returns, NoneMissed, Missing, NotFound, NothingMissing
    <3>3. CASE EndsAttempt(i)
      BY <3>3 DEF EndsAttempt, NoneMissed, Missing, NotFound
    <3>4. QED
      BY <1>1, <3>1, <3>2, <3>3 DEF ThreadEffect
  <2>2. QED
    BY <1>2, <2>1 DEF NoneMissed
<1>5. RefusedRests'
  <2>1. status'[i] \in Refusals =>
          \/ tpc'[i] \in AtRest
          \/ tpc'[i] = "return" /\ rv'[i] \in {"FTPCONREFUSED", "FTPLOGREFUSED"}
    <3>1. CASE Begins(i) \/ Advances(i)
      BY <3>1 DEF Begins, Advances, RefusedRests, Refusals, Stages, AtRest
    <3>2. CASE Returns(i)
      BY <3>2, OutcomeFacts DEF TypeOK, Returns, Refusals
    <3>3. CASE EndsAttempt(i)
      BY <3>3 DEF EndsAttempt, RefusedRests, LoopsFit, PassedUp, AtRest
    <3>4. QED
      BY <1>1, <3>1, <3>2, <3>3 DEF ThreadEffect
  <2>2. QED
    BY <1>2, <1>3, <2>1 DEF RefusedRests
<1>6. RelaunchesRefused'
  <2>1. mpc \in Handling => mi \in Conn
    BY AtConn
  <2>2. ASSUME mpc' \in {"same", "count", "connecting", "loggingin", "join", "wait"}, mi = i
        PROVE  status'[i] \in Refusals /\ (mpc' = "wait" => tpc'[i] = "start")
    <3>1. mpc' = mpc /\ status[i] \in Refusals /\ (mpc = "wait" => tpc[i] = "start")
      BY <1>3, <2>2 DEF RelaunchesRefused
    <3>2. ~ Begins(i)
      BY <2>2, <3>1 DEF Begins, RefusedRests, AtRest, MainKnows
    <3>3. CASE mpc = "wait"
      BY <1>1, <3>1, <3>2, <3>3 DEF ThreadEffect, Advances, Returns, EndsAttempt, Stages, Refusals
    <3>4. CASE mpc # "wait"
      BY <1>1, <3>1, <3>2, <3>4 DEF ThreadEffect, Advances, Returns, EndsAttempt, Stages,
                                   Refusals, RefusedRests, AtRest
    <3>5. QED
      BY <3>3, <3>4
  <2>3. ASSUME mpc' \in {"same", "count", "connecting", "loggingin", "join", "wait"}
        PROVE  status'[mi] \in Refusals /\ (mpc' = "wait" => tpc'[mi] = "start")
    <3>1. CASE mi = i
      BY <2>2, <2>3, <3>1
    <3>2. CASE mi # i
      BY <1>2, <1>3, <2>1, <2>3, <3>2 DEF RelaunchesRefused, Handling, MainPcs
    <3>3. QED
      BY <3>1, <3>2
  <2>4. QED
    BY <1>3, <2>3 DEF RelaunchesRefused
<1>7. QED
  BY <1>4, <1>5, <1>6

LEMMA MainRInv ==
  ASSUME IInv, RInv, Main
  PROVE  RInv'
<1> USE DEF IInv, TInv, RInv, mainKeeps
<1>1. UNCHANGED mainKeeps /\ (Cancels \/ Relaunches \/ Walks)
  BY MainSteps
<1>2. NoneMissed'
  BY <1>1 DEF NoneMissed
<1>3. CASE Cancels
  BY <1>1, <1>2, <1>3 DEF Cancels, RefusedRests, RelaunchesRefused, AtRest
<1>4. CASE Relaunches
  <2>1. mi \in Conn /\ status[mi] \in Refusals
    BY <1>4, AtConn DEF Relaunches, RelaunchesRefused, Handling, MainPcs
  <2>2. /\ tpc'[mi] = "start" /\ \A i \in Conn \ {mi} : tpc'[i] = tpc[i]
        /\ mpc # "wait" /\ mpc' = "wait" /\ mi' = mi
    BY <1>4, <2>1 DEF Relaunches, TypeOK
  <2>3. QED
    BY <1>1, <1>2, <2>1, <2>2 DEF RefusedRests, RelaunchesRefused
<1>5. CASE Walks
  <2>1. UNCHANGED tpc /\ mpc # "wait" /\ mpc' # "wait"
    BY <1>5 DEF Walks
  <2>2. RefusedRests'
    BY <1>1, <2>1 DEF RefusedRests
  <2>3. mpc = "readerr" => err[mi] \notin NotFound \cup {"FTPCWDFAIL"}
    BY AtConn DEF NoneMissed, Missing, Handling, MainPcs
  <2>4. RelaunchesRefused'
    <3>1. mpc' \notin {"allnotfound", "allcwd"}
      BY <1>5, <2>3 DEF Walks, RelaunchesRefused
    <3>2. mpc' \in {"same", "count", "connecting", "loggingin", "join"} =>
            mi' = mi /\ status[mi] \in Refusals
      BY <1>5 DEF Walks, RelaunchesRefused
    <3>3. QED
      BY <1>1, <2>1, <3>1, <3>2 DEF RelaunchesRefused
  <2>5. QED
    BY <1>2, <2>2, <2>4
<1>6. QED
  BY <1>1, <1>3, <1>4, <1>5

LEMMA SpecRInv ==
  ASSUME NothingMissing
  PROVE  Spec => [](IInv /\ RInv)
<1>1. Init => RInv
  BY DEF Init, RInv, NoneMissed, Missing, NotFound, RefusedRests, Refusals, RelaunchesRefused
<1>2. IInv /\ RInv /\ [Next]_vars => RInv'
  <2> SUFFICES ASSUME IInv, RInv, [Next]_vars PROVE RInv'
    OBVIOUS
  <2>1. CASE \E i \in Conn : Thread(i)
    BY <2>1, ThreadRInv
  <2>2. CASE Main
    BY <2>2, MainRInv
  <2>3. CASE DropSession \/ UNCHANGED vars
    <3>1. UNCHANGED <<threadVars, mainVars>>
      BY <2>3 DEF DropSession, vars
    <3>2. QED
      BY <3>1 DEF threadVars, mainVars, RInv, NoneMissed, RefusedRests, RelaunchesRefused
  <2>4. QED
    BY <2>1, <2>2, <2>3 DEF Next
<1>3. QED
  BY <1>1, <1>2, SpecIInv, PTL DEF Spec

(* Where nothing is missing, whatever else fails and however often, the    *)
(* pthread_cond_wait of a relaunch is always answered: the thread it waits *)
(* for has still to set CONNECTING, and it runs ftp_loop, which broadcasts.*)
(* Without the premise it is false: the run SupervisionWait shows how.     *)
THEOREM Answered ==
  ASSUME NothingMissing
  PROVE  Spec => []WaitIsAnswered
<1>1. RInv => WaitIsAnswered
  BY DEF RInv, RelaunchesRefused, WaitIsAnswered, Refusals
<1>2. QED
  BY <1>1, SpecRInv, PTL

(* Where nothing is missing, pthread_join is only called for a thread that *)
(* has ended or is about to: a connection that was turned away stores the  *)
(* refusal that ftp_loop passes up, and does nothing else until it is      *)
(* relaunched.                                                             *)
THEOREM JoinsEnding ==
  ASSUME NothingMissing
  PROVE  Spec => []JoinsOnlyEndingThreads
<1>1. IInv /\ RInv => JoinsOnlyEndingThreads
  <2> SUFFICES ASSUME IInv, RInv, mpc = "join"
               PROVE  tpc[mi] = "ended" \/ (tpc[mi] = "return" /\ rv[mi] \in PassedUp(loop[mi]))
    BY DEF JoinsOnlyEndingThreads
  <2>1. mi \in Conn /\ status[mi] \in Refusals
    BY AtConn DEF IInv, RInv, RelaunchesRefused, Handling, MainPcs
  <2>2. loop[mi] = "ftp" /\ tpc[mi] # "cancelled"
    BY <2>1 DEF IInv, TInv, LoopsFit, MainPlaced
  <2>3. QED
    BY <2>1, <2>2 DEF RInv, RefusedRests, AtRest, PassedUp
<1>2. QED
  BY <1>1, SpecRInv, PTL
=============================================================================
