------------------------------ MODULE Transfer ------------------------------
(***************************************************************************)
(* The data plane of a download (libprozilla download.c, connection.c,     *)
(* logfile.c, ftp-retr.c, http-retr.c): the remote file is cut into one    *)
(* range per connection, every connection thread writes its range into the *)
(* shared "<file>.prozilla", the main thread keeps rewriting the log that  *)
(* a later run resumes from, and when all the connections have completed   *)
(* it renames the partial file to the target and deletes the log.  The     *)
(* process may be killed at any step and started again.                    *)
(*                                                                         *)
(* Offsets count blocks.  part[p] is the remote offset of the block found  *)
(* at offset p of the partial file, Hole when nothing was written there.   *)
(***************************************************************************)
EXTENDS Integers

CONSTANTS
  Size,            \* length of the remote file, in blocks
  SizeKnown,       \* did the information request learn the length?
  MaxConns,        \* most connections a run asks for
  MaxRuns,         \* bound: how often the program is started
  MaxFaults,       \* bound: failed attempts and failed writes over all runs
  RangeIgnored,    \* may an HTTP server answer a Range request with the file
                   \* from offset 0 and no Content-Length?
  RenameMayFail,   \* may rename() of the partial file fail?
  UnlinkMayFail,   \* may unlink() of the log or of the partial file fail?
  KillInFinish     \* may the process die between rename() and unlink()
                   \* of the log?

ASSUME TransferAssumption ==
  /\ Size \in Nat /\ MaxConns \in Nat \ {0}
  /\ MaxRuns \in Nat /\ MaxFaults \in Nat
  /\ SizeKnown \in BOOLEAN /\ RangeIgnored \in BOOLEAN
  /\ RenameMayFail \in BOOLEAN /\ UnlinkMayFail \in BOOLEAN
  /\ KillInFinish \in BOOLEAN
  /\ RangeIgnored => SizeKnown

VARIABLES
  \* files
  part, partExists, target,
  logState, logN, logLen, logRec,
  \* main thread
  main, n, rs, buf, bufLen,
  \* connection_t, one per connection
  orig, startpos, local, endpos, received, status, attempts,
  \* the connection's thread and the server's stream feeding it
  tpc, pos, togo, chunk,
  \* bounds
  runs, faults

fileVars == <<part, partExists, target>>
logVars  == <<logState, logN, logLen, logRec>>
mainVars == <<main, n, rs, buf, bufLen>>
rangeVars == <<orig, local, endpos>>
connVars == <<startpos, received, status, attempts>>
threadVars == <<tpc, pos, togo, chunk>>
bounds == <<runs, faults>>
vars == <<fileVars, logVars, mainVars, rangeVars, connVars, threadVars, bounds>>

Offset == 0 .. (Size - 1)
Conn == 0 .. (MaxConns - 1)
Hole == -1
Active == {i \in Conn : i < n}

(***************************************************************************)
(* The ranges proz_download_setup_connections_no_ftpsearch computes: equal *)
(* shares, the remainder added to the last.  A file of unknown length has  *)
(* one connection whose endpos is negative.                                *)
(***************************************************************************)
Share(k) == Size \div k
Base(k, i) == IF SizeKnown THEN i * Share(k) ELSE 0
(* MUTANT of End: the remainder is lost. *)
EndNoRemainder(k, i) == IF SizeKnown THEN Base(k, i) + Share(k) ELSE -2

End(k, i) ==
  IF SizeKnown
  THEN Base(k, i) + Share(k) + (IF i = k - 1 THEN Size % k ELSE 0)
  ELSE -2

Entry == [local : Int, orig : Int, endpos : Int, received : Int]
NoEntry == [local |-> 0, orig |-> 0, endpos |-> 0, received |-> 0]
NoLog == [i \in Conn |-> NoEntry]
Zero == [i \in Conn |-> 0]

(***************************************************************************)
(* The state of a process that is not running: its memory is gone.         *)
(***************************************************************************)
MemoryLost ==
  /\ main' = "off" /\ n' = 0 /\ rs' = FALSE
  /\ buf' = NoLog /\ bufLen' = 0
  /\ orig' = Zero /\ local' = Zero /\ endpos' = Zero
  /\ startpos' = Zero /\ received' = Zero
  /\ status' = [i \in Conn |-> "IDLE"] /\ attempts' = Zero
  /\ tpc' = [i \in Conn |-> "none"]
  /\ pos' = Zero /\ togo' = Zero /\ chunk' = Zero

Init ==
  /\ part = [p \in Offset |-> Hole] /\ partExists = FALSE
  /\ target = "absent"
  /\ logState = "none" /\ logN = 0 /\ logLen = 0 /\ logRec = NoLog
  /\ main = "off" /\ n = 0 /\ rs = FALSE
  /\ buf = NoLog /\ bufLen = 0
  /\ orig = Zero /\ local = Zero /\ endpos = Zero
  /\ startpos = Zero /\ received = Zero
  /\ status = [i \in Conn |-> "IDLE"] /\ attempts = Zero
  /\ tpc = [i \in Conn |-> "none"]
  /\ pos = Zero /\ togo = Zero /\ chunk = Zero
  /\ runs = 0 /\ faults = 0

Fault == faults < MaxFaults /\ faults' = faults + 1

-----------------------------------------------------------------------------
(***************************************************************************)
(* Starting a download.                                                    *)
(***************************************************************************)

(* How many connections do_download asks for: the number the user gave, or *)
(* on a resume the number in the log's header.  When the header cannot be  *)
(* read the number is whatever the uninitialised logfile struct holds; a   *)
(* value that is not a possible count ends the process in the assertion.   *)
Requested(resuming) ==
  IF resuming /\ logState = "some" THEN {logN} ELSE 1 .. MaxConns

(* MUTANT of OpenPart: the partial file is truncated. *)
TruncatePart == partExists' = TRUE /\ part' = [p \in Offset |-> Hole]

(* The partial file is opened, or created when there is none; what it      *)
(* holds stays, also when the user chose to overwrite.                     *)
OpenPart == partExists' = TRUE /\ UNCHANGED part

(* setup_connections: open the partial file and lay out the ranges.        *)
Setup(resuming, resumable, req) ==
  LET k == IF SizeKnown /\ resumable THEN req ELSE 1 IN
  /\ main = "off" /\ runs < MaxRuns
  /\ runs' = runs + 1
  /\ OpenPart
  /\ n' = k /\ rs' = resumable
  /\ orig'     = [i \in Conn |-> IF i < k THEN Base(k, i) ELSE 0]
  /\ startpos' = [i \in Conn |-> IF i < k THEN Base(k, i) ELSE 0]
  /\ local'    = [i \in Conn |-> IF i < k THEN Base(k, i) ELSE 0]
  /\ endpos'   = [i \in Conn |-> IF i < k THEN End(k, i) ELSE 0]
  /\ main' = IF resuming THEN "resume" ELSE "log"
  /\ UNCHANGED <<target, logVars, buf, bufLen, received, status, attempts,
                 threadVars, faults>>

(* A log on disk is taken to mean an uncompleted download; the user or the *)
(* options then choose to resume it or to overwrite.                       *)
NewDownload ==
  \E resuming \in {r \in BOOLEAN : r => logState # "none"} :
    \E resumable \in BOOLEAN, req \in Requested(resuming) :
      Setup(resuming, resumable, req)

ThreadsCreated == tpc' = [i \in Conn |-> IF i < n THEN "ready" ELSE "none"]

(* MUTANT of CountFillsRange: the start has already moved. *)
CountFillsRest(i, end, got) == end - (startpos[i] + got) = got

CountFillsRange(i, end, got) == end - startpos[i] = got

(* read_logfile loads the entries one after the other and gives up at the  *)
(* first that is cut short; those read before stay loaded.                 *)
Logged(i) == logState = "some" /\ i < logLen

(* load_resume_info: every entry the log holds replaces the fresh values;  *)
(* a connection whose count fills its fresh range is complete, and every   *)
(* start moves forward by the count.                                       *)
LoadedFromLog ==
  LET got(i) == IF Logged(i) THEN logRec[i].received ELSE received[i]
      end(i) == IF Logged(i) THEN logRec[i].endpos ELSE endpos[i] IN
  /\ local' = [i \in Conn |-> IF Logged(i) THEN logRec[i].local ELSE local[i]]
  /\ orig' = [i \in Conn |-> IF Logged(i) THEN logRec[i].orig ELSE orig[i]]
  /\ endpos' = [i \in Conn |-> end(i)]
  /\ received' = [i \in Conn |-> got(i)]
  /\ status' = [i \in Conn |->
       IF i < n /\ CountFillsRange(i, end(i), got(i)) THEN "COMPLETED" ELSE status[i]]
  /\ startpos' = [i \in Conn |-> IF i < n THEN startpos[i] + got(i) ELSE startpos[i]]

StartResumed ==
  /\ main = "resume" /\ main' = "poll"
  /\ IF rs THEN LoadedFromLog
           ELSE UNCHANGED <<rangeVars, startpos, received, status>>
  /\ ThreadsCreated
  /\ UNCHANGED <<fileVars, logVars, n, rs, buf, bufLen, attempts,
                 pos, togo, chunk, bounds>>

-----------------------------------------------------------------------------
(***************************************************************************)
(* The log, rewritten in place at the start of a fresh download and on     *)
(* every poll: fopen "wb" truncates it, the entries are copied one         *)
(* connection at a time under that connection's access_mutex into stdio's  *)
(* buffer, which may spill, and fclose writes the rest.                    *)
(***************************************************************************)

(* The first log of a fresh download comes before its threads, the others  *)
(* during a poll; the program goes on whether or not it was written.       *)
AfterLog ==
  IF tpc[0] = "none"
  THEN ThreadsCreated /\ main' = "poll"
  ELSE UNCHANGED tpc /\ main' = "check"

LogOpenFails ==
  /\ main \in {"log", "poll"} /\ Fault
  /\ AfterLog
  /\ UNCHANGED <<fileVars, logVars, n, rs, buf, bufLen, rangeVars, connVars,
                 pos, togo, chunk, runs>>

LogOpen ==
  /\ main \in {"log", "poll"} /\ main' = "logging"
  /\ logState' = "empty" /\ logN' = 0 /\ logLen' = 0 /\ logRec' = NoLog
  /\ buf' = NoLog /\ bufLen' = 0
  /\ UNCHANGED <<fileVars, n, rs, rangeVars, connVars, threadVars, bounds>>

OnDisk(len, rec) ==
  logState' = "some" /\ logN' = n /\ logLen' = len /\ logRec' = rec

LogCopy ==
  /\ main = "logging" /\ bufLen < n
  /\ bufLen' = bufLen + 1
  /\ buf' = [buf EXCEPT ![bufLen] =
       [local |-> local[bufLen], orig |-> orig[bufLen],
        endpos |-> endpos[bufLen], received |-> received[bufLen]]]
  /\ OnDisk(bufLen', buf') \/ UNCHANGED logVars
  /\ UNCHANGED <<fileVars, main, n, rs, rangeVars, connVars, threadVars, bounds>>

(* fclose; its failure on a full disk goes unnoticed.  A write that fails  *)
(* earlier leaves a prefix too, which a spill leaves just as well.         *)
LogClose ==
  /\ main = "logging" /\ bufLen = n
  /\ \/ OnDisk(bufLen, buf) /\ UNCHANGED faults
     \/ Fault /\ UNCHANGED logVars
  /\ buf' = NoLog /\ bufLen' = 0
  /\ AfterLog
  /\ UNCHANGED <<fileVars, n, rs, rangeVars, connVars, pos, togo, chunk, runs>>

-----------------------------------------------------------------------------
(***************************************************************************)
(* The connection threads.  A retry by ftp_loop/http_loop and a relaunch   *)
(* by the main thread both enter the loop at the same place with           *)
(* attempts > 0, so a failed attempt simply makes the thread ready again.  *)
(***************************************************************************)

(* MUTANT of BeginAttempt: a retry takes over start and count as they are. *)
BeginUnchanged(i) ==
  /\ tpc[i] = "ready"
  /\ tpc' = [tpc EXCEPT ![i] = IF status[i] = "COMPLETED" THEN "ended" ELSE "open"]
  /\ UNCHANGED <<fileVars, logVars, mainVars, rangeVars, connVars,
                 pos, togo, chunk, bounds>>

(* A new attempt continues after the last counted byte, or, without resume *)
(* support, starts over.  A connection found complete ends at once.        *)
BeginAttempt(i) ==
  /\ tpc[i] = "ready"
  /\ IF attempts[i] > 0
     THEN IF rs
          THEN /\ startpos' = [startpos EXCEPT ![i] =
                    @ + (received[i] - (@ - orig[i]))]
               /\ UNCHANGED received
          ELSE received' = [received EXCEPT ![i] = 0] /\ UNCHANGED startpos
     ELSE UNCHANGED <<startpos, received>>
  /\ tpc' = [tpc EXCEPT ![i] = IF status[i] = "COMPLETED" THEN "ended" ELSE "open"]
  /\ UNCHANGED <<fileVars, logVars, mainVars, rangeVars, status, attempts,
                 pos, togo, chunk, bounds>>

AttemptFails(i) ==
  /\ Fault
  /\ status' = [status EXCEPT ![i] = "FAILED"]
  /\ attempts' = [attempts EXCEPT ![i] = 1]
  /\ tpc' = [tpc EXCEPT ![i] = "ready"]
  /\ pos' = [pos EXCEPT ![i] = 0] /\ togo' = [togo EXCEPT ![i] = 0]
  /\ UNCHANGED <<fileVars, logVars, mainVars, rangeVars, startpos, received,
                 chunk, runs>>

(* Connecting, logging in, REST/Range or RETR/GET fails. *)
ConnectFails(i) == tpc[i] = "open" /\ AttemptFails(i)

(* Where the server's stream starts: at startpos after REST or Range, at 0 *)
(* when neither is sent.  An HTTP server that ignores the Range is noticed *)
(* by its Content-Length, if it sends one.                                 *)
StreamStart(i) ==
  IF rs /\ startpos[i] > 0
  THEN {startpos[i]} \cup (IF RangeIgnored THEN {0} ELSE {})
  ELSE {0}

Open(i) ==
  /\ tpc[i] = "open"
  /\ \E start \in StreamStart(i) : pos' = [pos EXCEPT ![i] = start]
  /\ togo' = [togo EXCEPT ![i] = endpos[i] - startpos[i]]
  /\ status' = [status EXCEPT ![i] = "DOWNLOADING"]
  /\ tpc' = [tpc EXCEPT ![i] = "stream"]
  /\ UNCHANGED <<fileVars, logVars, mainVars, rangeVars, startpos, received,
                 attempts, chunk, bounds>>

(* The lengths one krecv may deliver. *)
Chunks(i) ==
  {k \in 1 .. Size : pos[i] + k <= Size /\ (SizeKnown => k <= togo[i])}

(* MUTANT of WithBlocks: the stream is one block ahead. *)
WithNextBlocks(i, k) ==
  LET at == local[i] + received[i] IN
  [p \in Offset |-> IF at <= p /\ p < at + k THEN pos[i] + 1 + (p - at) ELSE part[p]]

(* The partial file after the next k blocks of the stream are written at   *)
(* local_startpos + remote_bytes_received.                                 *)
WithBlocks(i, k) ==
  LET at == local[i] + received[i] IN
  [p \in Offset |-> IF at <= p /\ p < at + k THEN pos[i] + (p - at) ELSE part[p]]

(* krecv, then write_data_with_lock; the count follows in a step of its    *)
(* own, under access_mutex.                                                *)
Write(i) ==
  /\ tpc[i] = "stream"
  /\ \E k \in Chunks(i) :
       /\ part' = WithBlocks(i, k)
       /\ pos' = [pos EXCEPT ![i] = @ + k]
       /\ togo' = [togo EXCEPT ![i] = @ - k]
       /\ chunk' = [chunk EXCEPT ![i] = k]
  /\ tpc' = [tpc EXCEPT ![i] = "count"]
  /\ UNCHANGED <<partExists, target, logVars, mainVars, rangeVars, connVars, bounds>>

Count(i) ==
  /\ tpc[i] = "count"
  /\ received' = [received EXCEPT ![i] = @ + chunk[i]]
  /\ chunk' = [chunk EXCEPT ![i] = 0]
  /\ tpc' = [tpc EXCEPT ![i] = "stream"]
  /\ UNCHANGED <<fileVars, logVars, mainVars, rangeVars, startpos, status,
                 attempts, pos, togo, bounds>>

(* MUTANT of WriteFails: the chunk is counted although it was cut short. *)
ShortWriteCounted(i) ==
  /\ tpc[i] = "stream" /\ Fault
  /\ \E k \in Chunks(i) :
       /\ part' = WithBlocks(i, k - 1)
       /\ received' = [received EXCEPT ![i] = @ + k]
  /\ status' = [status EXCEPT ![i] = "LOCALFATAL"]
  /\ tpc' = [tpc EXCEPT ![i] = "ended"]
  /\ UNCHANGED <<partExists, target, logVars, mainVars, rangeVars, startpos,
                 attempts, pos, togo, chunk, runs>>

(* A short write: some of the chunk may be in the file, none is counted.   *)
WriteFails(i) ==
  /\ tpc[i] = "stream" /\ Fault
  /\ \E k \in Chunks(i) : part' = WithBlocks(i, k - 1)
  /\ status' = [status EXCEPT ![i] = "LOCALFATAL"]
  /\ tpc' = [tpc EXCEPT ![i] = "ended"]
  /\ UNCHANGED <<partExists, target, logVars, mainVars, rangeVars, startpos,
                 received, attempts, pos, togo, chunk, runs>>

(* A timeout, an error, or a premature close of a stream of known length.  *)
StreamFails(i) ==
  /\ tpc[i] = "stream" /\ (SizeKnown => togo[i] > 0)
  /\ AttemptFails(i)

(* The range is complete; with an unknown length the server's close, early *)
(* or not, ends it.                                                        *)
Complete(i) ==
  /\ tpc[i] = "stream"
  /\ IF SizeKnown THEN togo[i] <= 0 /\ UNCHANGED faults
     ELSE \/ pos[i] = Size /\ UNCHANGED faults
          \/ pos[i] < Size /\ Fault
  /\ status' = [status EXCEPT ![i] = "COMPLETED"]
  /\ tpc' = [tpc EXCEPT ![i] = "ended"]
  /\ UNCHANGED <<fileVars, logVars, mainVars, rangeVars, startpos, received,
                 attempts, pos, togo, chunk, runs>>

Thread(i) ==
  \/ BeginAttempt(i) \/ ConnectFails(i) \/ Open(i) \/ Write(i) \/ Count(i)
  \/ WriteFails(i) \/ StreamFails(i) \/ Complete(i)

-----------------------------------------------------------------------------
(***************************************************************************)
(* The end of a download.                                                  *)
(***************************************************************************)

(* MUTANT of AllCompleted: one completed connection is enough. *)
SomeCompleted == \E i \in Active : status[i] = "COMPLETED"

AllCompleted == \A i \in Active : status[i] = "COMPLETED"

(* After the log, handle_threads looks at the statuses. *)
Check ==
  /\ main = "check"
  /\ main' = IF AllCompleted THEN "finish" ELSE "poll"
  /\ UNCHANGED <<fileVars, logVars, n, rs, buf, bufLen, rangeVars, connVars,
                 threadVars, bounds>>

(* An unrecoverable status: the threads are cancelled wherever they are,   *)
(* and the program ends or, after CANTRESUME, sets the download up again   *)
(* with one connection and no resume support.                              *)
StopDownloads ==
  /\ main = "check"
  /\ \E i \in Active : status[i] \in {"LOCALFATAL", "FAILED"}
  /\ MemoryLost
  /\ UNCHANGED <<fileVars, logVars, bounds>>

(* All threads joined and the file closed, the partial file is renamed     *)
(* over the target; a failure of rename is only reported.                  *)
Rename ==
  /\ main = "finish" /\ \A i \in Active : tpc[i] = "ended"
  /\ main' = "renamed"
  /\ \/ /\ target' = IF \A p \in Offset : part[p] = p THEN "whole" ELSE "damaged"
        /\ partExists' = FALSE
        /\ part' = [p \in Offset |-> Hole]
     \/ RenameMayFail /\ UNCHANGED fileVars
  /\ UNCHANGED <<logVars, n, rs, buf, bufLen, rangeVars, connVars, threadVars, bounds>>

(* MUTANT of DeleteLog: the log stays. *)
KeepLog ==
  /\ main = "renamed" /\ main' = "done"
  /\ UNCHANGED <<fileVars, logVars, n, rs, buf, bufLen, rangeVars, connVars, threadVars,
                 bounds>>

(* A log that cannot be removed stays: that too is only reported.          *)
DeleteLog ==
  /\ main = "renamed" /\ main' = "done"
  /\ \/ logState' = "none" /\ logN' = 0 /\ logLen' = 0 /\ logRec' = NoLog
     \/ UnlinkMayFail /\ UNCHANGED logVars
  /\ UNCHANGED <<fileVars, n, rs, buf, bufLen, rangeVars, connVars, threadVars, bounds>>

(* handle_joining_thread deletes the partial file, which a failed rename   *)
(* has left, and the program ends.                                         *)
DeletePart ==
  /\ main = "done"
  /\ \/ partExists' = FALSE /\ part' = [p \in Offset |-> Hole]
     \/ UnlinkMayFail /\ UNCHANGED <<part, partExists>>
  /\ MemoryLost
  /\ UNCHANGED <<target, logVars, bounds>>

Kill ==
  /\ main # "off" /\ (main = "renamed" => KillInFinish)
  /\ MemoryLost
  /\ UNCHANGED <<fileVars, logVars, bounds>>

Main ==
  \/ NewDownload \/ StartResumed \/ LogOpenFails \/ LogOpen \/ LogCopy
  \/ LogClose \/ Check \/ StopDownloads \/ Rename \/ DeleteLog \/ DeletePart

Next == Main \/ Kill \/ \E i \in Conn : Thread(i)

Spec == Init /\ [][Next]_vars

-----------------------------------------------------------------------------
(***************************************************************************)
(* Properties.                                                             *)
(***************************************************************************)

TypeOK ==
  /\ part \in [Offset -> Offset \cup {Hole}] /\ partExists \in BOOLEAN
  /\ target \in {"absent", "whole", "damaged"}
  /\ logState \in {"none", "empty", "some"}
  /\ logN \in 0 .. MaxConns /\ logLen \in 0 .. MaxConns
  /\ logRec \in [Conn -> Entry]
  /\ main \in {"off", "resume", "log", "logging", "poll", "check", "finish",
               "renamed", "done"}
  /\ n \in 0 .. MaxConns /\ rs \in BOOLEAN
  /\ buf \in [Conn -> Entry] /\ bufLen \in 0 .. MaxConns
  /\ orig \in [Conn -> Int] /\ startpos \in [Conn -> Int]
  /\ local \in [Conn -> Int] /\ endpos \in [Conn -> Int]
  /\ received \in [Conn -> Int]
  /\ status \in [Conn -> {"IDLE", "DOWNLOADING", "COMPLETED", "FAILED", "LOCALFATAL"}]
  /\ attempts \in [Conn -> 0 .. 1]
  /\ tpc \in [Conn -> {"none", "ready", "open", "stream", "count", "ended"}]
  /\ pos \in [Conn -> Int] /\ togo \in [Conn -> Int] /\ chunk \in [Conn -> Int]
  /\ runs \in 0 .. MaxRuns /\ faults \in 0 .. MaxFaults

(* The blocks the partial file holds where they belong. *)
Stored == {p \in Offset : part[p] = p}

(* Until the rename takes it away the partial file backs the counts. *)
PartBacksCounts == main \notin {"renamed", "done"}

HoldsBlocks(from, len) ==
  \A p \in Offset : from <= p /\ p < from + len => part[p] = p

(* No block of the remote file is ever found at another block's offset,    *)
(* however often attempts fail and runs resume: write_data_with_lock seeks *)
(* to local_startpos + remote_bytes_received while the server streams from *)
(* remote_startpos, and only the resume arithmetic keeps the two together. *)
NothingMisplaced == \A p \in Offset : part[p] \in {Hole, p}

(* remote_bytes_received never runs ahead of the file: every counted block *)
(* is in the partial file (connection.c writes first and counts later).    *)
CountBehindFile ==
  PartBacksCounts =>
    \A i \in Active : HoldsBlocks(orig[i], received[i])

(* What makes a crash harmless: at every instant, also half-way through    *)
(* the in-place rewrite of the log, every block the log on disk counts is  *)
(* in the partial file.                                                    *)
LogBehindFile ==
  PartBacksCounts /\ logState = "some" =>
    \A i \in Conn : i < logLen => HoldsBlocks(logRec[i].orig, logRec[i].received)

(* Between two polls, and when all the threads have been created, the      *)
(* ranges of the connections tile the file: each offset belongs to exactly *)
(* one connection, also when orig_remote_startpos and remote_endpos came   *)
(* from a log written by an earlier run.                                   *)
RangesTileFile ==
  SizeKnown /\ main # "off" =>
    \A p \in Offset : \E i \in Active :
      /\ orig[i] <= p /\ p < endpos[i]
      /\ \A j \in Active : orig[j] <= p /\ p < endpos[j] => j = i

(* A connection reported COMPLETED has its whole range in the file, even   *)
(* if the status was derived from a log (load_resume_info).                *)
CompletedMeansStored ==
  SizeKnown /\ PartBacksCounts =>
    \A i \in Active : status[i] = "COMPLETED" =>
      HoldsBlocks(orig[i], endpos[i] - orig[i])

(* The finished file is the whole remote file and stays so: nothing a      *)
(* later run, resumed or fresh, does replaces it by less.                  *)
TargetWhole == target # "damaged"

(* A finished target never goes back: the log that outlives its download   *)
(* must not make the next run publish an empty file.  This is what the     *)
(* comment at download.c:764 relies on, and only holds when unlink() of    *)
(* the log is reached and succeeds.                                        *)
LogMeansUnfinished ==
  main = "off" /\ logState # "none" => partExists

(* Blocks are only ever added to the partial file and it becomes the       *)
(* target exactly when it holds all of them.                               *)
F == INSTANCE Fetch WITH stored <- Stored
ImplementsFetch == F!Spec
=============================================================================
