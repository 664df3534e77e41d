---------------------------- MODULE WindowProofs ----------------------------
(***************************************************************************)
(* Theorems about Window and the information request for every value of    *)
(* their constants: any set of servers, any number of attempts,            *)
(* redirections, faults and connections.                                   *)
(*                                                                         *)
(*   1. how the two threads stay in step;                                  *)
(*   2. what the information request tells the window.                     *)
(***************************************************************************)
EXTENDS Window, SequenceTheorems, TLAPS

(* Places of the information thread after which it does nothing that can   *)
(* wait: it only returns.                                                  *)
Over == {"return", "bad location", "ended"}

(* running is cleared once, when the loop is left, and never by an attempt *)
(* or a redirection that goes on; the window joins only after that.        *)
RunningTells == running \in BOOLEAN /\ (~running => at \in Over)
JoinsAfterRunning == step = "join" => ~running /\ status = "DL_GETTING_INFO"

(* What the window does next agrees with its status: do_download runs to   *)
(* its end within one poll, also after a fatal error in the middle of it.  *)
StepFitsStatus ==
  step \in {"target", "previous", "log", "start"} => status \in {"DL_DLPRESTART", "DL_ABORTED"}

(* Once its information has arrived, the thread that writes the connection *)
(* is gone; download threads exist only while the window handles them.     *)
InfoIsSettled == status # "DL_GETTING_INFO" => at = "ended"
ThreadsAreHandled == threads => status = "DL_DOWNLOADING" /\ step = "poll"

(* The joining thread starts after the rename and the log's deletion.      *)
JoiningLeavesTarget ==
  status = "DL_JOINING" =>
    /\ target \/ "rename" \in failed
    /\ logConns = 0 \/ "log" \in failed
    /\ part => "rename" \in failed

(* The log is not touched between the two times that it is read.           *)
ReadFitsLog == step = "start" /\ resumeMode => logConns \in {numConns, ShortLog}

IInv ==
  /\ RunningTells
  /\ JoinsAfterRunning
  /\ StepFitsStatus
  /\ InfoIsSettled
  /\ ThreadsAreHandled
  /\ ResumeFitsLog
  /\ JoiningLeavesTarget
  /\ DoneLeavesTarget
  /\ ReadFitsLog

-----------------------------------------------------------------------------
(* A step of the information thread: it starts from a place where it is    *)
(* not yet over, or only returns.                                          *)
LEMMA AttemptKeepsRunning ==
  ASSUME RunningTells,
         \/ Begin \/ BeginAttempt \/ Get \/ GetFromProxy \/ Login \/ Cwd \/ Rest \/ CwdFile
         \/ Size \/ DataSock \/ List \/ AcceptData \/ Data
  PROVE  running /\ running' /\ at # "ended"
<1>1. CASE Begin
  BY <1>1 DEF Begin, RunningTells, Over
<1>2. CASE BeginAttempt
  BY <1>2 DEF BeginAttempt, RunningTells, Over
<1>3. CASE Get \/ GetFromProxy
  BY <1>3 DEF Get, GetFromProxy, HttpReply, RunningTells, Over
<1>4. CASE Data
  BY <1>4 DEF Data, RunningTells, Over
<1>5. CASE Login
  BY <1>5 DEF Login, LoginStep, Required, Exchange, RunningTells, Over
<1>6. CASE Cwd
  BY <1>6 DEF Cwd, Required, Exchange, RunningTells, Over
<1>7. CASE Rest \/ CwdFile \/ Size
  BY <1>7 DEF Rest, CwdFile, Size, Exchange, RunningTells, Over
<1>8. CASE DataSock \/ AcceptData
  BY <1>8 DEF DataSock, AcceptData, Connects, Pasv, Required, Exchange, RunningTells, Over
<1>9. CASE List
  BY <1>9 DEF List, Required, Exchange, RunningTells, Over
<1>10. QED
  BY <1>1, <1>2, <1>3, <1>4, <1>5, <1>6, <1>7, <1>8, <1>9

LEMMA InfoThreadRunning ==
  ASSUME RunningTells, InfoThread
  PROVE  RunningTells' /\ at # "ended" /\ (~running => ~running')
<1>1. CASE \/ Begin \/ BeginAttempt \/ Get \/ GetFromProxy \/ Login \/ Cwd \/ Rest \/ CwdFile
           \/ Size \/ DataSock \/ List \/ AcceptData \/ Data
  BY <1>1, AttemptKeepsRunning DEF RunningTells
<1>2. CASE HttpLoop
  BY <1>2 DEF HttpLoop, AttemptOver, EndOrRetry, RunningTells, Over
<1>3. CASE FtpLoop
  BY <1>3 DEF FtpLoop, AttemptOver, EndOrRetry, RunningTells, Over
<1>4. CASE Redirect
  <2>1. CASE at = "redirect" /\ at' = "begin" /\ running' = running
    BY <2>1 DEF RunningTells, Over
  <2>2. CASE at = "redirect" /\ at' = "bad location" /\ running' = FALSE
    BY <2>2 DEF RunningTells, Over
  <2>3. CASE at = "bad location" /\ at' = "ended" /\ running' = running
    BY <2>3 DEF RunningTells, Over
  <2>4. QED
    BY <1>4, <2>1, <2>2, <2>3 DEF Redirect
<1>5. CASE Leave
  BY <1>5 DEF Leave, RunningTells, Over
<1>6. QED
  BY <1>1, <1>2, <1>3, <1>4, <1>5 DEF InfoThread

-----------------------------------------------------------------------------
LEMMA InitIInv == Init => IInv
<1>1. ASSUME Init PROVE RunningTells /\ JoinsAfterRunning /\ StepFitsStatus
  BY <1>1 DEF Init, RequestInit, RunningTells, JoinsAfterRunning, StepFitsStatus
<1>2. ASSUME Init PROVE InfoIsSettled /\ ThreadsAreHandled /\ ResumeFitsLog
  BY <1>2 DEF Init, InfoIsSettled, ThreadsAreHandled, ResumeFitsLog
<1>3. ASSUME Init PROVE JoiningLeavesTarget /\ DoneLeavesTarget /\ ReadFitsLog
  BY <1>3 DEF Init, JoiningLeavesTarget, DoneLeavesTarget, ReadFitsLog
<1>4. QED
  BY <1>1, <1>2, <1>3 DEF IInv

(* The information thread disturbs nothing of the window's: after its end  *)
(* it takes no step, and before it the window has no download.             *)
LEMMA InfoStepIInv ==
  ASSUME IInv, InfoStep
  PROVE  IInv'
<1>1. RunningTells' /\ at # "ended" /\ (~running => ~running')
  BY InfoThreadRunning DEF IInv, InfoStep
<1>2. UNCHANGED <<step, status, threads, resumeMode, mirrors, numConns, logConns, part, target, failed>>
  BY DEF InfoStep, windowVars, fileVars, history
<1>3. status = "DL_GETTING_INFO" /\ ~threads
  BY <1>1 DEF IInv, InfoIsSettled, ThreadsAreHandled
<1>4. JoinsAfterRunning' /\ StepFitsStatus' /\ InfoIsSettled' /\ ThreadsAreHandled'
  BY <1>1, <1>2, <1>3 DEF IInv, JoinsAfterRunning, StepFitsStatus, InfoIsSettled,
     ThreadsAreHandled
<1>5. ResumeFitsLog' /\ JoiningLeavesTarget' /\ DoneLeavesTarget' /\ ReadFitsLog'
  BY <1>2, <1>3 DEF IInv, ResumeFitsLog, JoiningLeavesTarget, DoneLeavesTarget, ReadFitsLog
<1>6. QED
  BY <1>1, <1>4, <1>5 DEF IInv

(* The conjuncts that speak of the information thread. *)
LEMMA WindowStepInfo ==
  ASSUME IInv, WindowStep
  PROVE  RunningTells' /\ InfoIsSettled'
<1>1. UNCHANGED <<running, at>>
  BY DEF WindowStep, SeeInfoEnded, InfoFails, InfoArrives, SearchEnds, CheckTarget, CheckPrevious, ReadLog,
     StartDownload, StartFails, InProgress, Outcome, Done, CantResume, DownloadFails, Restart,
     Joined, HandleFatalError, readVars, threadVars
<1>2. status' # "DL_GETTING_INFO" => status # "DL_GETTING_INFO" \/ at = "ended"
  BY DEF WindowStep, Polling, InfoJoined, SeeInfoEnded, InfoFails, InfoArrives, SearchEnds,
     CheckTarget, CheckPrevious, ReadLog, StartDownload, StartFails, InProgress, Outcome, Done, CantResume,
     DownloadFails, Restart, Joined, HandleFatalError, IInv, StepFitsStatus
<1>3. QED
  BY <1>1, <1>2 DEF IInv, RunningTells, InfoIsSettled

(* The conjuncts that order what the window does.  A new status of a       *)
(* window that polls is one without threads, or DL_DOWNLOADING.            *)
OrderInv == JoinsAfterRunning /\ StepFitsStatus /\ ThreadsAreHandled

LEMMA WindowStepOrder ==
  ASSUME IInv, WindowStep
  PROVE  OrderInv'
<1> USE DEF IInv, OrderInv, JoinsAfterRunning, StepFitsStatus, ThreadsAreHandled, Polling
<1>1. CASE SeeInfoEnded
  BY <1>1 DEF SeeInfoEnded, readVars, threadVars, dlVars
<1>2. CASE InfoFails \/ InfoArrives
  BY <1>2 DEF InfoFails, InfoArrives, InfoJoined, EnterDoDownload, readVars, threadVars, dlVars
<1>3. CASE SearchEnds \/ Restart
  BY <1>3 DEF SearchEnds, Restart, EnterDoDownload, readVars, threadVars
<1>4. CASE CheckTarget
  BY <1>4 DEF CheckTarget, readVars, threadVars, dlVars
<1>5. CASE CheckPrevious
  <2>1. step = "previous" /\ step' = "log" /\ UNCHANGED <<running, threads>>
    BY <1>5 DEF CheckPrevious, readVars, threadVars
  <2>2. status' \in {status, "DL_ABORTED"}
    BY <1>5 DEF CheckPrevious, PreviousResumable, PreviousNotResumable, FatalError
  <2>3. QED
    BY <2>1, <2>2
<1>6. CASE ReadLog \/ StartDownload \/ StartFails
  BY <1>6 DEF ReadLog, StartDownload, StartFails, readVars, threadVars, dlVars
<1>7. CASE InProgress \/ Outcome
  BY <1>7 DEF InProgress, Outcome, Done, CantResume, DownloadFails, readVars, threadVars, dlVars
<1>8. CASE Joined \/ HandleFatalError
  BY <1>8 DEF Joined, HandleFatalError, FatalError, readVars, threadVars, dlVars
<1>9. QED
  BY <1>1, <1>2, <1>3, <1>4, <1>5, <1>6, <1>7, <1>8 DEF WindowStep

(* The conjuncts about the files.                                          *)
FileInv == JoiningLeavesTarget /\ DoneLeavesTarget

LEMMA WindowStepFiles ==
  ASSUME IInv, WindowStep
  PROVE  FileInv'
<1> USE DEF IInv, FileInv, JoiningLeavesTarget, DoneLeavesTarget, StepFitsStatus, Polling
<1>1. CASE SeeInfoEnded
  BY <1>1 DEF SeeInfoEnded, fileVars, history
<1>2. CASE InfoFails \/ InfoArrives \/ SearchEnds \/ Restart
  BY <1>2 DEF InfoFails, InfoArrives, SearchEnds, Restart, InfoJoined, EnterDoDownload, fileVars,
     history
<1>3. CASE CheckTarget
  BY <1>3 DEF CheckTarget, fileVars
<1>4. CASE CheckPrevious
  <2>1. step = "previous" /\ UNCHANGED <<fileVars, failed>>
    BY <1>4 DEF CheckPrevious
  <2>2. status' \in {status, "DL_ABORTED"}
    BY <1>4 DEF CheckPrevious, PreviousResumable, PreviousNotResumable, FatalError
  <2>3. QED
    BY <2>1, <2>2 DEF fileVars
<1>5. CASE ReadLog \/ StartDownload \/ StartFails
  BY <1>5 DEF ReadLog, StartDownload, StartFails, fileVars, history
<1>6. CASE InProgress \/ CantResume \/ DownloadFails
  BY <1>6 DEF InProgress, CantResume, DownloadFails, history
<1>7. CASE Done
  BY <1>7 DEF Done
<1>8. CASE Joined \/ HandleFatalError
  BY <1>8 DEF Joined, HandleFatalError, FatalError, fileVars, history
<1>9. QED
  BY <1>1, <1>2, <1>3, <1>4, <1>5, <1>6, <1>7, <1>8 DEF WindowStep, Outcome

(* A download with threads that resumes was set up from its log; later     *)
(* polls write the log with the connections that run.                      *)
LEMMA WindowStepResume ==
  ASSUME IInv, WindowStep
  PROVE  ResumeFitsLog'
<1> USE DEF IInv, ResumeFitsLog, ThreadsAreHandled, Polling
<1>1. CASE threads' = FALSE
  BY <1>1
<1>2. CASE threads' = threads /\ (step # "poll" \/ status # "DL_DOWNLOADING") /\ ~StartDownload
  BY <1>2
<1>3. CASE StartDownload
  <2>1. UNCHANGED <<mainFileSize, resumeSupport, resumeMode, mirrors>> /\ step = "start"
    BY <1>3 DEF StartDownload, readVars, threadVars
  <2>2. resumeMode => UNCHANGED logConns /\ logConns \in {numConns, ShortLog}
    BY <1>3, <2>1 DEF StartDownload, ReadFitsLog
  <2>3. numConns' = IF mirrors = "none" THEN Connections ELSE numConns
    BY <1>3 DEF StartDownload
  <2>4. Resumable /\ mainFileSize # -1 => numConns' = numConns
    BY <2>3 DEF Connections
  <2>5. QED
    BY <2>1, <2>2, <2>4 DEF Connections, Resumable
<1>4. CASE InProgress
  <2>1. UNCHANGED <<mainFileSize, resumeSupport, resumeMode, mirrors, numConns, threads>>
    BY <1>4 DEF InProgress, readVars, threadVars, dlVars
  <2>2. logConns' \in {Connections, ShortLog, logConns}
    BY <1>4 DEF InProgress, WriteLog
  <2>3. Connections' = Connections /\ (Resumable' <=> Resumable)
    BY <2>1 DEF Connections, Resumable
  <2>4. QED
    BY <2>1, <2>2, <2>3
<1>5. CASE Outcome
  BY <1>1, <1>5 DEF Outcome, Done, CantResume, DownloadFails
<1>6. ASSUME ~StartDownload, ~InProgress, ~Outcome
      PROVE  threads' = threads /\ (step # "poll" \/ status # "DL_DOWNLOADING")
  BY <1>6 DEF WindowStep, SeeInfoEnded, InfoFails, InfoArrives, InfoJoined, SearchEnds, CheckTarget,
     CheckPrevious, ReadLog, StartFails, Restart, Joined, HandleFatalError, dlVars
<1>7. ASSUME threads' = threads, step # "poll" \/ status # "DL_DOWNLOADING" PROVE ResumeFitsLog'
  BY <1>7
<1>8. QED
  BY <1>3, <1>4, <1>5, <1>6, <1>7

(* Only do_download's reading of the log leads to start_download, which    *)
(* reads it again at once.                                                 *)
LEMMA WindowStepRead ==
  ASSUME IInv, WindowStep
  PROVE  ReadFitsLog'
<1>1. CASE ReadLog
  <2>1. UNCHANGED <<logConns, resumeMode>>
    BY <1>1 DEF ReadLog, fileVars
  <2>2. ASSUME step' = "start", resumeMode
        PROVE  logConns = ShortLog \/ numConns' = logConns
    BY <1>1, <2>2 DEF ReadLog, LoggedConns
  <2>3. QED
    BY <2>1, <2>2 DEF ReadFitsLog
<1>2. CASE ~ReadLog
  <2>1. (step' = step /\ step # "start") \/ step' # "start"
    BY <1>2 DEF WindowStep, Polling, InfoJoined, SeeInfoEnded, InfoFails, InfoArrives, SearchEnds,
       EnterDoDownload, CheckTarget, CheckPrevious, StartDownload, StartFails, InProgress, Outcome,
       Done, CantResume, DownloadFails, Restart, Joined, HandleFatalError
  <2>2. QED
    BY <2>1 DEF ReadFitsLog
<1>3. QED
  BY <1>1, <1>2

LEMMA StutterIInv ==
  ASSUME IInv, UNCHANGED vars
  PROVE  IInv'
<1>1. UNCHANGED <<running, at, step, status, threads, resumeMode, resumeSupport, numConns, logConns,
                  mainFileSize, mirrors, part, target, failed>>
  BY DEF vars, windowVars, threadVars, fileVars, history
<1>2. QED
  BY <1>1 DEF IInv, ReadFitsLog, Connections, Resumable, RunningTells, JoinsAfterRunning, StepFitsStatus, InfoIsSettled,
     ThreadsAreHandled, ResumeFitsLog, JoiningLeavesTarget, DoneLeavesTarget

LEMMA NextIInv == IInv /\ [Next]_vars => IInv'
<1>1. ASSUME IInv, InfoStep PROVE IInv'
  BY <1>1, InfoStepIInv
<1>2. ASSUME IInv, WindowStep PROVE IInv'
  BY <1>2, WindowStepInfo, WindowStepOrder, WindowStepFiles, WindowStepResume, WindowStepRead
     DEF IInv, OrderInv, FileInv
<1>3. ASSUME IInv, UNCHANGED vars PROVE IInv'
  BY <1>3, StutterIInv
<1>4. QED
  BY <1>1, <1>2, <1>3 DEF Next

(* The window, its information thread and its files stay in step.          *)
THEOREM SpecIInv == Spec => []IInv
BY InitIInv, NextIInv, PTL DEF Spec

-----------------------------------------------------------------------------
(* my_cb joins the information thread (handle_info_thread) only when that  *)
(* thread has no attempt, redirection or exchange left, whatever servers   *)
(* it was sent to and however often it failed: the window never freezes.   *)
THEOREM NeverBlocks == Spec => []PollNeverBlocks
<1>1. IInv => PollNeverBlocks
  BY DEF IInv, JoinsAfterRunning, RunningTells, Over, PollNeverBlocks
<1>2. QED
  BY SpecIInv, <1>1, PTL

(* start_download sets up, for a resume, exactly the connections that a    *)
(* log with a whole header describes, and the log keeps describing the     *)
(* connections that run, over restarts, failures to write it and for any   *)
(* number of connections asked for; from a log without a whole header,     *)
(* nothing is filled.                                                      *)
THEOREM ResumesFitLogs == Spec => []ResumeFitsLog
<1>1. IInv => ResumeFitsLog
  BY DEF IInv
<1>2. QED
  BY SpecIInv, <1>1, PTL

(* A window that ends with DL_DONE has its target and neither a partial    *)
(* file nor a log that a later run would take for a download to resume,    *)
(* but for what the rename or one of the two deletions reported.           *)
THEOREM DoneIsClean == Spec => []DoneLeavesTarget
<1>1. IInv => DoneLeavesTarget
  BY DEF IInv
<1>2. QED
  BY SpecIInv, <1>1, PTL

-----------------------------------------------------------------------------
(***************************************************************************)
(* What the information request tells the window.                          *)
(***************************************************************************)

OverHttp == site.proto = "http" \/ site.proxy = "HTTPPROXY"

(* The places of an FTP attempt up to REST, the commands after it whose    *)
(* failures are no errors, and those for the listing.                      *)
LoggingIn == {"greeting", "USER", "PASS", "TYPE I", "CWD", "REST"}
Asking == {"CWD file", "SIZE", "PASV"}
Listing == {"connect", "PORT", "TYPE A", "LIST", "accept", "data"}
Judged == {"judge", "return", "ended"}
Places ==
  LoggingIn \cup Asking \cup Listing \cup Judged
    \cup {"begin", "attempt", "GET", "redirect", "bad location", "crashed"}

(* Each place is one of the site's protocol; the last site of a chain has  *)
(* no location.                                                            *)
PlaceInv ==
  /\ at \in Places
  /\ at = "GET" => OverHttp
  /\ at \in LoggingIn \cup Asking \cup Listing => ~OverHttp
  /\ at = "redirect" => site.proto = "http"
  /\ at = "CWD" => site.dir # "none"
  /\ hops < MaxHops \/ site.proto = "ftp" \/ site.location = "none"

(* Replies can only be late from REST on: before, a command without its    *)
(* reply fails the attempt.  What an attempt that goes on reads late are   *)
(* the replies to REST, CWD and SIZE.                                      *)
RestReplies == {350, 502}
CwdFileReplies == {250, 350, 502, 550}
ChannelInv ==
  /\ at \notin Asking \cup Listing \cup {"judge", "crashed"} => replies = <<>> /\ ~lost
  /\ at = "CWD file" => replies \in Seq(RestReplies)
  /\ at = "SIZE" => replies \in Seq(CwdFileReplies)
  /\ at \in Listing => ~lost

(* What REST and SIZE have told. *)
RestKnown ==
  /\ resumeSupport => site.rest
  /\ late = 0 /\ ~lost => resumeSupport = site.rest
SizeKnown ==
  /\ mainFileSize = -1 \/ (site.knowsSize /\ mainFileSize = site.size)
  /\ late = 0 /\ ~lost /\ site.what = "file" =>
       sizeOk = site.knowsSize /\ (site.knowsSize => mainFileSize = site.size)
KnowsInv ==
  /\ at \in Asking \cup Listing => RestKnown
  /\ at \in {"PASV"} \cup Listing => SizeKnown
  /\ OverHttp /\ resumeSupport =>
       at \in Judged /\ err = IF site.proto = "http" THEN "HOK" ELSE "FTPOK"

(* What an attempt that is over has told. *)
TrueInfo ==
  Exists =>
    /\ resumeSupport => Offered.resume
    /\ mainFileSize \in {-1, Offered.size}
    /\ late = 0 => resumeSupport = Offered.resume /\ mainFileSize = Offered.size
VerdictInv ==
  at \in Judged =>
    /\ err \in {"HOK", "FTPOK"} => TrueInfo
    /\ err \in {"HTTPNSFOD", "FTPNSFOD"} /\ late = 0 => ~Exists

RequestInv == RequestTypeOK /\ PlaceInv /\ ChannelInv /\ KnowsInv /\ VerdictInv

(* The window keeps what the request told until it has acted on it. *)
InfoInv == status = "DL_GETTING_INFO" => RequestInv
-----------------------------------------------------------------------------
(***************************************************************************)
(* Replies.                                                                *)
(***************************************************************************)
Commands == LoggingIn \cup Asking \cup {"PORT", "TYPE A", "LIST"}

LEMMA Rotates ==
  ASSUME NEW S, NEW q \in Seq(S), NEW a \in S
  PROVE  /\ Append(q, a) \in Seq(S) /\ Len(Append(q, a)) = Len(q) + 1
         /\ Head(Append(q, a)) \in S
         /\ Tail(Append(q, a)) \in Seq(S) /\ Len(Tail(Append(q, a))) = Len(q)
         /\ q = <<>> => Head(Append(q, a)) = a /\ Tail(Append(q, a)) = <<>>
<1>1. /\ Append(q, a) \in Seq(S) /\ Len(Append(q, a)) = Len(q) + 1 /\ Append(q, a) # <<>>
      /\ Len(q) \in Nat
  BY AppendProperties, LenProperties
<1>2. /\ Head(Append(q, a)) \in S /\ Tail(Append(q, a)) \in Seq(S)
      /\ Len(Tail(Append(q, a))) = Len(q)
  BY <1>1, HeadTailProperties
<1>3. ASSUME q = <<>> PROVE Head(Append(q, a)) = a /\ Tail(Append(q, a)) = <<>>
  BY <1>3
<1>4. QED
  BY <1>1, <1>2, <1>3

(* What a server says to the commands whose replies matter, and that it    *)
(* says something to each.                                                 *)
LEMMA AnswerFacts ==
  /\ Answer("CWD") # 250 => site.dir # "there"
  /\ Answer("REST") = 350 => site.rest
  /\ Answer("REST") \in {350, 502} /\ (Answer("REST") = 502 => ~site.rest)
  /\ Answer("CWD file") \in {250, 550} /\ (Answer("CWD file") = 250 => site.what = "directory")
  /\ Answer("SIZE") \in {213, 500, 550}
  /\ Answer("SIZE") = 213 => site.what = "file" /\ site.knowsSize
  /\ Answer("SIZE") = 500 => ~site.knowsSize
  /\ Answer("SIZE") = 550 => site.what # "file"
  /\ Answer("LIST") # 150 => site.list = "refused"
BY DEF Answer

LEMMA Answers ==
  \A c \in Commands : Answer(c) \in Replies \ {NoReply}
<1>1. Answer("greeting") \in Replies \ {NoReply}
  BY DEF Answer, Replies, NoReply
<1>2. Answer("USER") \in Replies \ {NoReply}
  BY DEF Answer, Replies, NoReply
<1>3. Answer("PASS") \in Replies \ {NoReply}
  BY DEF Answer, Replies, NoReply
<1>4. Answer("TYPE I") \in Replies \ {NoReply}
  BY DEF Answer, Replies, NoReply
<1>5. Answer("PORT") \in Replies \ {NoReply}
  BY DEF Answer, Replies, NoReply
<1>6. Answer("TYPE A") \in Replies \ {NoReply}
  BY DEF Answer, Replies, NoReply
<1>7. Answer("PASV") \in Replies \ {NoReply}
  BY DEF Answer, Replies, NoReply
<1>8. Answer("CWD") \in Replies \ {NoReply}
  BY DEF Answer, Replies, NoReply
<1>9. Answer("REST") \in Replies \ {NoReply}
  BY DEF Answer, Replies, NoReply
<1>10. Answer("CWD file") \in Replies \ {NoReply}
  BY DEF Answer, Replies, NoReply
<1>11. Answer("SIZE") \in Replies \ {NoReply}
  BY DEF Answer, Replies, NoReply
<1>12. Answer("LIST") \in Replies \ {NoReply}
  BY DEF Answer, Replies, NoReply
<1>13. QED
  BY <1>1, <1>2, <1>3, <1>4, <1>5, <1>6, <1>7, <1>8, <1>9, <1>10, <1>11, <1>12, Zenon
     DEF Commands, LoggingIn, Asking

(* A reply comes from those not yet read; without one, the connection is   *)
(* lost or the reply is late.                                              *)
LEMMA ExchangeFrom ==
  ASSUME NEW S, replies \in Seq(S), NEW command, Answer(command) \in S, NEW r, Exchange(command, r)
  PROVE  replies' \in Seq(S) /\ (r \in S \/ r = NoReply)
<1> DEFINE sent == Append(replies, Answer(command))
<1>1. sent \in Seq(S) /\ Head(sent) \in S /\ Tail(sent) \in Seq(S)
  BY Rotates
<1>2. \/ r = Head(sent) /\ replies' = Tail(sent)
      \/ r = NoReply /\ replies' \in {sent, replies}
  BY DEF Exchange, channel
<1>3. QED
  BY <1>1, <1>2

LEMMA ExchangeFacts ==
  ASSUME RequestTypeOK, NEW command \in Commands, NEW r, Exchange(command, r)
  PROVE  /\ at = command /\ UNCHANGED <<site, running, attempts, hops>>
         /\ lost' \in BOOLEAN /\ faults' \in 0 .. MaxFaults /\ late' \in 0 .. MaxLate
         /\ replies' \in Seq(Replies \ {NoReply}) /\ Len(replies') <= late'
         /\ late' = 0 => late = 0
         /\ lost => lost' /\ r = NoReply
         /\ r # NoReply => ~lost /\ ~lost' /\ late' = late
         /\ r = NoReply => late' > 0 \/ lost'
         /\ replies = <<>> /\ r # NoReply => r = Answer(command) /\ replies' = <<>>
         /\ late = 0 => replies = <<>>
<1> DEFINE sent == Append(replies, Answer(command))
<1>1. replies \in Seq(Replies \ {NoReply}) /\ Answer(command) \in Replies \ {NoReply}
  BY Answers DEF RequestTypeOK
<1>2. /\ sent \in Seq(Replies \ {NoReply}) /\ Len(sent) = Len(replies) + 1
      /\ Head(sent) \in Replies \ {NoReply}
      /\ Tail(sent) \in Seq(Replies \ {NoReply}) /\ Len(Tail(sent)) = Len(replies)
      /\ replies = <<>> => Head(sent) = Answer(command) /\ Tail(sent) = <<>>
      /\ Len(replies) \in Nat /\ (Len(replies) = 0 => replies = <<>>)
  BY <1>1, Rotates, LenProperties, EmptySeq
<1>3. /\ Len(replies) <= late /\ late \in 0 .. MaxLate /\ faults \in 0 .. MaxFaults
      /\ lost \in BOOLEAN /\ MaxLate \in Nat /\ MaxFaults \in Nat
  BY RequestAssumption DEF RequestTypeOK
<1>4. at = command /\ UNCHANGED <<site, running, attempts>>
  BY DEF Exchange
<1> HIDE DEF sent
<1>5. CASE ~lost /\ r = Head(sent) /\ replies' = Tail(sent) /\ UNCHANGED <<lost, bounds>>
  BY <1>2, <1>3, <1>4, <1>5 DEF bounds, NoReply
<1>6. CASE /\ ~lost /\ late < MaxLate /\ late' = late + 1
           /\ r = NoReply /\ replies' = sent /\ UNCHANGED <<lost, hops, faults>>
  BY <1>2, <1>3, <1>4, <1>6
<1>7. CASE ~lost /\ r = NoReply /\ lost' = TRUE /\ Fault /\ UNCHANGED replies
  BY <1>1, <1>2, <1>3, <1>4, <1>7 DEF Fault
<1>8. CASE lost /\ r = NoReply /\ UNCHANGED <<channel, bounds>>
  BY <1>1, <1>2, <1>3, <1>4, <1>8 DEF channel, bounds
<1>9. QED
  BY <1>5, <1>6, <1>7, <1>8 DEF Exchange, sent
-----------------------------------------------------------------------------
(***************************************************************************)
(* Steps of an FTP attempt.                                                *)
(***************************************************************************)
Settling == {"HOK", "FTPOK", "HTTPNSFOD", "FTPNSFOD"}

LEMMA SiteFacts ==
  ASSUME RequestTypeOK
  PROVE  /\ site.proto \in {"http", "ftp"}
         /\ OverHttp =>
              /\ site.contlen \in Int
              /\ Offered.size = site.contlen /\ Offered.resume = (site.accept = 1)
              /\ Exists <=> site.status # 404
         /\ ~OverHttp =>
              /\ site.size \in Int /\ site.rest \in BOOLEAN /\ site.knowsSize \in BOOLEAN
              /\ site.dir \in {"none", "there", "absent"} /\ site.proto = "ftp"
              /\ Offered.size = IF site.knowsSize \/ site.list = "readable" THEN site.size ELSE -1
              /\ Offered.resume = site.rest
              /\ Exists <=> site.what = "file" /\ site.dir # "absent"
<1>1. site \in Sites
  BY DEF RequestTypeOK
<1>2. /\ site.proto \in {"http", "ftp"}
      /\ IF OverHttp THEN site.contlen \in Int
         ELSE /\ site.size \in Int /\ {site.rest, site.knowsSize} \subseteq BOOLEAN
              /\ site.dir \in {"none", "there", "absent"}
  BY <1>1, RequestAssumption DEF OverHttp
<1>3. CASE OverHttp
  BY <1>2, <1>3 DEF OverHttp, Offered, Exists
<1>4. CASE ~OverHttp
  <2>1. site.rest \in BOOLEAN /\ site.knowsSize \in BOOLEAN
    BY <1>2, <1>4, Zenon
  <2>2. site.size \in Int /\ site.dir \in {"none", "there", "absent"} /\ site.proto = "ftp"
    BY <1>2, <1>4 DEF OverHttp
  <2>3. Offered = [size |-> IF site.knowsSize \/ site.list = "readable" THEN site.size ELSE -1,
                   resume |-> site.rest]
    BY <1>4 DEF OverHttp, Offered
  <2>4. Offered.resume = site.rest
    BY <2>3, Zenon
  <2>5. Offered.size = IF site.knowsSize \/ site.list = "readable" THEN site.size ELSE -1
    BY <2>3
  <2>6. Exists <=> site.what = "file" /\ site.dir # "absent"
    BY <1>4 DEF OverHttp, Exists
  <2>7. QED
    BY <1>4, <2>1, <2>2, <2>4, <2>5, <2>6, Zenon
<1>5. QED
  BY <1>2, <1>3, <1>4

LEMMA SameSite ==
  ASSUME UNCHANGED site
  PROVE  Offered' = Offered /\ (Exists' <=> Exists) /\ (OverHttp' <=> OverHttp)
BY DEF Offered, Exists, OverHttp

(* An FTP attempt is over.                                                 *)
LEMMA FtpJudged ==
  ASSUME RequestInv, ~OverHttp, UNCHANGED <<site, hops>>, RequestTypeOK', at' = "judge",
         err' \in {"HOK", "FTPOK"} => TrueInfo',
         err' \in {"HTTPNSFOD", "FTPNSFOD"} /\ late' = 0 => ~Exists
  PROVE  RequestInv'
<1>1. PlaceInv'
  BY SameSite DEF RequestInv, PlaceInv, Places, LoggingIn, Asking, Listing, Judged
<1>2. ChannelInv' /\ KnowsInv'
  BY SameSite DEF ChannelInv, KnowsInv, Asking, Listing
<1>3. VerdictInv'
  BY SameSite DEF VerdictInv
<1>4. QED
  BY <1>1, <1>2, <1>3 DEF RequestInv

(* It goes on logging in. *)
LEMMA FtpLogsIn ==
  ASSUME RequestInv, ~OverHttp, UNCHANGED <<site, hops>>, RequestTypeOK', at' \in LoggingIn,
         replies' = <<>>, ~lost', at' = "CWD" => site.dir # "none"
  PROVE  RequestInv'
<1>1. PlaceInv'
  BY SameSite DEF RequestInv, PlaceInv, Places, LoggingIn, Asking, Listing, Judged
<1>2. ChannelInv' /\ KnowsInv' /\ VerdictInv'
  BY SameSite DEF ChannelInv, KnowsInv, VerdictInv, LoggingIn, Asking, Listing, Judged
<1>3. QED
  BY <1>1, <1>2 DEF RequestInv

(* It goes on after REST. *)
LEMMA FtpAsks ==
  ASSUME RequestInv, ~OverHttp, UNCHANGED <<site, hops>>, RequestTypeOK',
         at' \in Asking \cup Listing, RestKnown', at' \in {"PASV"} \cup Listing => SizeKnown',
         at' = "CWD file" => replies' \in Seq(RestReplies),
         at' = "SIZE" => replies' \in Seq(CwdFileReplies),
         at' \in Listing => ~lost'
  PROVE  RequestInv'
<1>0. \A p \in Asking \cup Listing :
        p \in Places /\ p \notin {"GET", "redirect", "CWD"} /\ p \notin Judged
  BY DEF Places, LoggingIn, Asking, Listing, Judged
<1>1. at' \in Places /\ at' \notin {"GET", "redirect", "CWD"} /\ at' \notin Judged
  BY <1>0, Zenon
<1>2. PlaceInv'
  BY <1>1, SameSite DEF RequestInv, PlaceInv
<1>3. ChannelInv'
  BY DEF ChannelInv, Asking, Listing
<1>4. VerdictInv'
  BY <1>1 DEF VerdictInv
<1>5. KnowsInv'
  BY <1>1, SameSite, Zenon DEF KnowsInv
<1>6. QED
  BY <1>2, <1>3, <1>4, <1>5 DEF RequestInv

(* The process has died. *)
LEMMA FtpCrashes ==
  ASSUME RequestInv, ~OverHttp, UNCHANGED <<site, hops>>, RequestTypeOK', at' = "crashed"
  PROVE  RequestInv'
<1>1. PlaceInv'
  BY SameSite DEF RequestInv, PlaceInv, Places, LoggingIn, Asking, Listing, Judged
<1>2. ChannelInv' /\ KnowsInv' /\ VerdictInv'
  BY SameSite DEF ChannelInv, KnowsInv, VerdictInv, Asking, Listing, Judged
<1>3. QED
  BY <1>1, <1>2 DEF RequestInv

LEMMA FtpExchange ==
  ASSUME RequestInv, NEW command \in Commands, NEW r, Exchange(command, r)
  PROVE  /\ ~OverHttp /\ UNCHANGED <<site, hops>>
         /\ mainFileSize' \in Int /\ resumeSupport' \in BOOLEAN /\ sizeOk' \in BOOLEAN
              /\ passive' \in BOOLEAN => RequestTypeOK'
<1>1. at \in LoggingIn \cup Asking \cup Listing /\ RequestTypeOK
  BY ExchangeFacts DEF RequestInv, Commands, Listing
<1>2. ~OverHttp
  BY <1>1 DEF RequestInv, PlaceInv
<1>3. /\ UNCHANGED <<site, running, attempts, hops>>
      /\ lost' \in BOOLEAN /\ faults' \in 0 .. MaxFaults /\ late' \in 0 .. MaxLate
      /\ replies' \in Seq(Replies \ {NoReply}) /\ Len(replies') <= late'
  BY <1>1, ExchangeFacts
<1>4. ASSUME mainFileSize' \in Int, resumeSupport' \in BOOLEAN, sizeOk' \in BOOLEAN,
             passive' \in BOOLEAN
      PROVE  RequestTypeOK'
  <2>1. running' \in BOOLEAN
    BY <1>1, <1>3 DEF RequestTypeOK
  <2>2. site' \in Sites /\ attempts' \in Nat /\ hops' \in 0 .. MaxHops
    BY <1>1, <1>3 DEF RequestTypeOK
  <2>3. QED
    BY <1>3, <1>4, <2>1, <2>2 DEF RequestTypeOK
<1>5. QED
  BY <1>2, <1>3, <1>4

LEMMA SameInfo ==
  ASSUME RequestTypeOK, UNCHANGED infoVars
  PROVE  /\ mainFileSize' \in Int /\ resumeSupport' \in BOOLEAN /\ sizeOk' \in BOOLEAN
         /\ passive' \in BOOLEAN
BY DEF RequestTypeOK, infoVars, told

(* Until REST, no reply is late. *)
LEMMA NoneLate ==
  ASSUME RequestInv, at \in LoggingIn
  PROVE  replies = <<>> /\ ~lost
<1>1. \A p \in LoggingIn : p \notin Asking \cup Listing \cup {"judge", "crashed"}
  BY DEF LoggingIn, Asking, Listing
<1>2. QED
  BY <1>1, Zenon DEF RequestInv, ChannelInv

(* Up to CWD, a command that got no reply or a refusal ends the attempt.   *)
LEMMA LoginReply ==
  ASSUME RequestInv, NEW command \in LoggingIn, NEW r, Exchange(command, r), UNCHANGED infoVars,
         \/ r # NoReply /\ at' \in LoggingIn /\ (at' = "CWD" => site.dir # "none")
         \/ at' = "judge" /\ err' \notin Settling
  PROVE  RequestInv'
<1>1. RequestTypeOK /\ command \in Commands /\ at = command
  BY ExchangeFacts DEF RequestInv, Commands, Exchange
<1>2. ~OverHttp /\ UNCHANGED <<site, hops>> /\ RequestTypeOK'
  BY <1>1, FtpExchange, SameInfo
<1>3. CASE r # NoReply /\ at' \in LoggingIn /\ (at' = "CWD" => site.dir # "none")
  <2>1. replies = <<>>
    BY <1>1, NoneLate
  <2>2. replies' = <<>> /\ ~lost'
    BY <1>1, <1>3, <2>1, ExchangeFacts
  <2>3. QED
    BY <1>2, <1>3, <2>2, FtpLogsIn
<1>4. CASE at' = "judge" /\ err' \notin Settling
  BY <1>2, <1>4, FtpJudged DEF Settling
<1>5. QED
  BY <1>3, <1>4

LEMMA ClassFacts ==
  /\ Class(NoReply) = 0 /\ Class(150) = 1 /\ Class(213) = 2 /\ Class(250) = 2
  /\ Class(350) = 3 /\ Class(500) = 5 /\ Class(502) = 5 /\ Class(550) = 5
BY DEF Class, NoReply

LEMMA LoginInv ==
  ASSUME RequestInv, Login
  PROVE  RequestInv'
<1>1. CASE Required("greeting", 2, "USER", "FTPCONREFUSED")
  <2>1. PICK r \in Replies :
          /\ Exchange("greeting", r) /\ UNCHANGED infoVars
          /\ IF Class(r) = 2 THEN Goes("USER")
             ELSE Fails(IF r = NoReply THEN "FTPERR" ELSE "FTPCONREFUSED")
    BY <1>1 DEF Required
  <2>2. \/ r # NoReply /\ at' = "USER"
        \/ at' = "judge" /\ err' \notin Settling
    BY <2>1, ClassFacts DEF Goes, Fails, Settling
  <2>3. QED
    BY <2>1, <2>2, LoginReply DEF LoggingIn
<1>2. ASSUME NEW command \in {"USER", "PASS"}, LoginStep(command) PROVE RequestInv'
  <2>1. PICK r \in Replies :
          /\ Exchange(command, r) /\ UNCHANGED infoVars
          /\ (CASE r = 220 -> Goes("USER")
                [] r = 331 -> Goes("PASS")
                [] r = 230 -> Goes("TYPE I")
                [] r = 530 -> Fails("FTPLOGREFUSED")
                [] OTHER -> Fails("FTPERR"))
    BY <1>2 DEF LoginStep
  <2>2. Goes("USER") \/ Goes("PASS") \/ Goes("TYPE I") \/ Fails("FTPLOGREFUSED") \/ Fails("FTPERR")
    BY <2>1, Zenon
  <2>3. r = NoReply => Fails("FTPERR")
    <3>1. NoReply \notin {220, 331, 230, 530}
      BY DEF NoReply
    <3>2. QED
      BY <2>1, <3>1, Zenon
  <2>4. \/ r # NoReply /\ at' \in {"USER", "PASS", "TYPE I"}
        \/ at' = "judge" /\ err' \notin Settling
    BY <2>2, <2>3 DEF Goes, Fails, Settling
  <2>5. QED
    BY <2>1, <2>4, LoginReply DEF LoggingIn
<1>3. CASE Required("TYPE I", 2, IF site.dir = "none" THEN "REST" ELSE "CWD", "FTPUNKNOWNTYPE")
  <2>1. PICK r \in Replies :
          /\ Exchange("TYPE I", r) /\ UNCHANGED infoVars
          /\ IF Class(r) = 2 THEN Goes(IF site.dir = "none" THEN "REST" ELSE "CWD")
             ELSE Fails(IF r = NoReply THEN "FTPERR" ELSE "FTPUNKNOWNTYPE")
    BY <1>3 DEF Required
  <2>2. \/ r # NoReply /\ at' \in {"REST", "CWD"} /\ (at' = "CWD" => site.dir # "none")
        \/ at' = "judge" /\ err' \notin Settling
    <3>1. CASE Class(r) = 2
      <4>1. at' = IF site.dir = "none" THEN "REST" ELSE "CWD"
        BY <2>1, <3>1, Zenon DEF Goes
      <4>2. r # NoReply
        BY <3>1, ClassFacts
      <4>3. QED
        BY <4>1, <4>2
    <3>2. CASE Class(r) # 2
      BY <2>1, <3>2 DEF Fails, Settling
    <3>3. QED
      BY <3>1, <3>2
  <2>3. QED
    BY <2>1, <2>2, LoginReply DEF LoggingIn
<1>4. QED
  BY <1>1, <1>2, <1>3 DEF Login

(* A refusal of CWD in time says that the directory is not there. *)
LEMMA CwdInv ==
  ASSUME RequestInv, Cwd
  PROVE  RequestInv'
<1>1. CASE Required("CWD", 2, "REST", "FTPCWDFAIL")
  <2>1. PICK r \in Replies :
          /\ Exchange("CWD", r) /\ UNCHANGED infoVars
          /\ IF Class(r) = 2 THEN Goes("REST")
             ELSE Fails(IF r = NoReply THEN "FTPERR" ELSE "FTPCWDFAIL")
    BY <1>1 DEF Required
  <2>2. \/ r # NoReply /\ at' = "REST"
        \/ at' = "judge" /\ err' \notin Settling
    BY <2>1, ClassFacts DEF Goes, Fails, Settling
  <2>3. QED
    BY <2>1, <2>2, LoginReply DEF LoggingIn
<1>2. ASSUME NEW r \in Replies, Exchange("CWD", r), Class(r) = 5, Fails("FTPNSFOD"),
             UNCHANGED infoVars
      PROVE  RequestInv'
  <2>1. RequestTypeOK /\ "CWD" \in Commands /\ at = "CWD"
    BY <1>2 DEF RequestInv, Commands, LoggingIn, Exchange
  <2>2. ~OverHttp /\ UNCHANGED <<site, hops>> /\ RequestTypeOK'
    BY <1>2, <2>1, FtpExchange, SameInfo
  <2>3. replies = <<>> /\ r # NoReply
    BY <1>2, <2>1, NoneLate, ClassFacts DEF LoggingIn
  <2>4. r = Answer("CWD") /\ r # 250
    BY <1>2, <2>1, <2>3, ExchangeFacts, ClassFacts
  <2>5. site.dir # "there" /\ site.dir # "none"
    BY <2>1, <2>4, AnswerFacts DEF RequestInv, PlaceInv
  <2>6. ~Exists
    BY <2>1, <2>2, <2>5, SiteFacts
  <2>7. QED
    BY <1>2, <2>2, <2>6, FtpJudged DEF Fails
<1>3. QED
  BY <1>1, <1>2 DEF Cwd

(* A resume is only taken for possible if REST was accepted, and, in time, *)
(* whenever it was.                                                        *)
LEMMA RestInv ==
  ASSUME RequestInv, Rest
  PROVE  RequestInv'
<1>1. PICK r \in Replies :
        /\ Exchange("REST", r) /\ at' = "CWD file" /\ UNCHANGED <<mainFileSize, sizeOk, passive>>
        /\ resumeSupport' = (Class(r) = 3)
  BY DEF Rest, Goes
<1>2. RequestTypeOK /\ "REST" \in Commands /\ at = "REST"
  BY <1>1 DEF RequestInv, Commands, LoggingIn, Exchange
<1>3. ~OverHttp /\ UNCHANGED <<site, hops>> /\ RequestTypeOK'
  <2>1. resumeSupport' \in BOOLEAN
    BY <1>1
  <2>2. mainFileSize' \in Int
    BY <1>1, <1>2 DEF RequestTypeOK
  <2>3. sizeOk' \in BOOLEAN /\ passive' \in BOOLEAN
    BY <1>1, <1>2, Zenon DEF RequestTypeOK
  <2>4. QED
    BY <1>1, <1>2, <2>1, <2>2, <2>3, FtpExchange
<1> DEFINE S == RestReplies
<1>4. replies = <<>> /\ Answer("REST") \in S
  BY <1>2, NoneLate, AnswerFacts DEF LoggingIn, RestReplies
<1>5. replies' \in Seq(S)
  <2> HIDE DEF S
  <2>1. replies \in Seq(S)
    BY <1>4, EmptySeq
  <2>2. QED
    BY <1>1, <1>4, <2>1, ExchangeFrom
<1>6. RestKnown'
  <2>1. CASE r = NoReply
    <3>1. Class(r) # 3
      BY <2>1, ClassFacts
    <3>2. ~resumeSupport'
      BY <1>1, <3>1, Zenon
    <3>3. late' > 0 \/ lost'
      BY <1>1, <1>2, <2>1, ExchangeFacts
    <3>4. ~(late' = 0 /\ ~lost')
      BY <3>3
    <3>5. QED
      BY <3>2, <3>4 DEF RestKnown
  <2>2. CASE r # NoReply
    <3>1. r = Answer("REST")
      BY <1>1, <1>2, <1>4, <2>2, ExchangeFacts
    <3>2. Class(r) = 3 <=> site.rest
      <4>1. (r = 350 => Class(r) = 3) /\ (r = 502 => Class(r) # 3) /\ r \in {350, 502}
        BY <1>4, <3>1, ClassFacts DEF RestReplies
      <4>2. QED
        BY <3>1, <4>1, AnswerFacts, Zenon
    <3>3. site.rest \in BOOLEAN
      BY <1>2, <1>3, SiteFacts
    <3>4. resumeSupport' = site.rest
      BY <1>1, <3>2, <3>3, Zenon
    <3>5. QED
      BY <1>3, <3>4, Zenon DEF RestKnown
  <2>3. QED
    BY <2>1, <2>2
<1>7. QED
  BY <1>1, <1>3, <1>5, <1>6, FtpAsks DEF Asking, Listing

(* What REST has told stays known, or a reply is late or missing. *)
LEMMA RestKept ==
  ASSUME RequestTypeOK, NEW command \in Commands, NEW r, Exchange(command, r), RestKnown,
         UNCHANGED resumeSupport
  PROVE  RestKnown'
<1>1. UNCHANGED site /\ (late' = 0 => late = 0) /\ (lost => lost')
  BY ExchangeFacts
<1>2. QED
  BY <1>1, Zenon DEF RestKnown

LEMMA Wider ==
  ASSUME NEW S, NEW T, S \subseteq T
  PROVE  Seq(S) \subseteq Seq(T)
OBVIOUS

(* The same, for a command whose answer may be a reply of another kind.    *)
LEMMA ExchangeWider ==
  ASSUME NEW S, NEW T, S \subseteq T, replies \in Seq(S), NEW command, Answer(command) \in T,
         NEW r, Exchange(command, r)
  PROVE  replies' \in Seq(T) /\ (r # NoReply => r \in T)
<1>1. replies \in Seq(T)
  OBVIOUS
<1>2. QED
  BY <1>1, ExchangeFrom

(* A positive reply to CWD for the file is the server's: there is a        *)
(* directory.                                                              *)
LEMMA CwdFileInv ==
  ASSUME RequestInv, CwdFile
  PROVE  RequestInv'
<1>1. PICK r \in Replies :
        /\ Exchange("CWD file", r) /\ UNCHANGED infoVars
        /\ IF Class(r) = 2 THEN Fails("FTPOK") ELSE Goes("SIZE")
  BY DEF CwdFile
<1>2. RequestTypeOK /\ "CWD file" \in Commands /\ at = "CWD file"
  BY <1>1 DEF RequestInv, Commands, Asking, Exchange
<1>3. ~OverHttp /\ UNCHANGED <<site, hops>> /\ RequestTypeOK'
  BY <1>1, <1>2, FtpExchange, SameInfo
<1>4. r \in {350, 502, Answer("CWD file"), NoReply}
  <2>1. PICK a : a = Answer("CWD file")
    OBVIOUS
  <2> DEFINE S == RestReplies
             T == RestReplies \cup {a}
             file == "CWD file"
  <2>2. S \subseteq T /\ Answer(file) \in T
    BY <2>1
  <2>3. replies \in Seq(S) /\ Exchange(file, r)
    BY <1>1, <1>2 DEF RequestInv, ChannelInv
  <2>4. r \in T \/ r = NoReply
    <3> HIDE DEF S, T, file
    <3>1. Seq(S) \subseteq Seq(T)
      BY <2>2, Wider, Zenon
    <3>2. replies \in Seq(T)
      BY <2>3, <3>1, Zenon
    <3>3. QED
      BY <2>2, <2>3, <3>2, ExchangeFrom, SMT
  <2>5. QED
    BY <2>1, <2>4 DEF RestReplies, CwdFileReplies
<1>5. replies' \in Seq(CwdFileReplies)
  <2> DEFINE S == RestReplies
             T == CwdFileReplies
  <2>1. S \subseteq T /\ Answer("CWD file") \in T
    BY AnswerFacts, ZenonT(60) DEF RestReplies, CwdFileReplies
  <2>2. replies \in Seq(S) /\ Exchange("CWD file", r)
    BY <1>1, <1>2 DEF RequestInv, ChannelInv
  <2>3. replies' \in Seq(T)
    <3> HIDE DEF S, T
    <3>1. QED
      BY <2>1, <2>2, ExchangeWider, Zenon
  <2>4. QED
    BY <2>3
<1>6. CASE Class(r) = 2
  <2>1. r \notin {350, 502, 550, NoReply}
    BY <1>6, ClassFacts
  <2>2. r = Answer("CWD file")
    BY <1>4, <2>1
  <2>3. Answer("CWD file") = 250
    <3>1. Answer("CWD file") \in {250, 550}
      BY AnswerFacts, Zenon
    <3>2. QED
      BY <2>1, <2>2, <3>1
  <2>4. site.what = "directory"
    BY <2>3, AnswerFacts, Zenon
  <2>5. ~Exists
    BY <1>2, <1>3, <2>4, SiteFacts
  <2>6. ~Exists'
    BY <1>3, <2>5, SameSite
  <2>7. at' = "judge" /\ err' = "FTPOK"
    BY <1>1, <1>6 DEF Fails
  <2>8. QED
    BY <1>3, <2>6, <2>7, FtpJudged DEF TrueInfo
<1>7. CASE Class(r) # 2
  <2>1. at' = "SIZE"
    BY <1>1, <1>7 DEF Goes
  <2>2. RestKnown'
    BY <1>1, <1>2, RestKept DEF RequestInv, KnowsInv, Asking, infoVars, told
  <2>3. QED
    BY <1>3, <1>5, <2>1, <2>2, FtpAsks DEF Asking, Listing
<1>8. QED
  BY <1>6, <1>7

(* A size is only taken from the server's own reply to SIZE. *)
LEMMA SizeInv ==
  ASSUME RequestInv, Size
  PROVE  RequestInv'
<1>1. PICK r \in Replies :
        /\ Exchange("SIZE", r)
        /\ mainFileSize' = IF r = 213 THEN site.size ELSE -1
        /\ sizeOk' = (Class(r) = 2)
        /\ IF r = 550 THEN Fails("FTPNSFOD") ELSE Goes("PASV")
        /\ UNCHANGED <<resumeSupport, passive>>
  BY DEF Size
<1>2. RequestTypeOK /\ "SIZE" \in Commands /\ at = "SIZE" /\ RestKnown
  BY <1>1 DEF RequestInv, KnowsInv, Commands, Asking, Exchange
<1>3. at \in LoggingIn \cup Asking \cup Listing
  BY <1>2 DEF Asking
<1>4. ~OverHttp /\ site.size \in Int /\ site.knowsSize \in BOOLEAN
  BY <1>2, <1>3, SiteFacts DEF RequestInv, PlaceInv
<1>5. UNCHANGED <<site, hops>> /\ RequestTypeOK'
  <2>1. mainFileSize' \in Int
    BY <1>1, <1>4
  <2>2. resumeSupport' \in BOOLEAN /\ passive' \in BOOLEAN
    BY <1>1, <1>2, Zenon DEF RequestTypeOK
  <2>3. sizeOk' \in BOOLEAN
    BY <1>1
  <2>4. QED
    BY <1>1, <1>2, <2>1, <2>2, <2>3, FtpExchange
<1>6. r \in {250, 350, 502, 550, Answer("SIZE"), NoReply}
  <2>1. PICK a : a = Answer("SIZE")
    OBVIOUS
  <2> DEFINE S == CwdFileReplies
             T == CwdFileReplies \cup {a}
  <2>2. S \subseteq T /\ Answer("SIZE") \in T
    BY <2>1
  <2>3. replies \in Seq(S) /\ Exchange("SIZE", r)
    BY <1>1, <1>2 DEF RequestInv, ChannelInv
  <2>4. r \in T \/ r = NoReply
    <3> HIDE DEF S, T
    <3>1. Seq(S) \subseteq Seq(T)
      BY <2>2, Wider, Zenon
    <3>2. replies \in Seq(T)
      BY <2>3, <3>1, Zenon
    <3>3. QED
      BY <2>2, <2>3, <3>2, ExchangeFrom, SMT
  <2>5. QED
    BY <2>1, <2>4 DEF RestReplies, CwdFileReplies
<1>7. late' = 0 /\ ~lost' => r = Answer("SIZE")
  BY <1>1, <1>2, ExchangeFacts DEF RequestTypeOK
<1>8. late' = 0 /\ r # NoReply => r = Answer("SIZE")
  BY <1>1, <1>2, ExchangeFacts DEF RequestTypeOK
<1>9. CASE r = 550
  <2>1. at' = "judge" /\ err' = "FTPNSFOD"
    BY <1>1, <1>9 DEF Fails
  <2>2. late' = 0 => ~Exists
    <3>1. ASSUME late' = 0 PROVE ~Exists
      <4>1. Answer("SIZE") = 550
        BY <1>8, <1>9, <3>1 DEF NoReply
      <4>2. site.what # "file"
        BY <4>1, AnswerFacts
      <4>3. QED
        BY <1>2, <1>4, <4>2, SiteFacts
    <3>2. QED
      BY <3>1
  <2>3. QED
    BY <1>4, <1>5, <2>1, <2>2, FtpJudged
<1>10. CASE r # 550
  <2>1. at' = "PASV"
    BY <1>1, <1>10 DEF Goes
  <2>2. mainFileSize' = -1 \/ (site.knowsSize /\ mainFileSize' = site.size)
    <3>1. r = 213 => Answer("SIZE") = 213
      BY <1>6 DEF NoReply
    <3>2. r = 213 => site.knowsSize
      BY <3>1, AnswerFacts
    <3>3. QED
      BY <1>1, <3>2
  <2>3. ASSUME late' = 0, ~lost', site.what = "file"
        PROVE  sizeOk' = site.knowsSize /\ (site.knowsSize => mainFileSize' = site.size)
    <3>0. r = Answer("SIZE")
      BY <1>7, <2>3, Zenon
    <3>1. r = Answer("SIZE") /\ r \in {213, 500}
      <4>1. Answer("SIZE") \in {213, 500, 550}
        BY AnswerFacts, Zenon
      <4>2. QED
        BY <1>10, <3>0, <4>1
    <3>2. CASE r = 213
      <4>0. Answer("SIZE") = 213
        BY <3>1, <3>2
      <4>1. site.knowsSize
        BY <4>0, AnswerFacts, Zenon
      <4>2. sizeOk' = TRUE
        BY <1>1, <3>2, ClassFacts, Zenon
      <4>3. mainFileSize' = site.size
        BY <1>1, <3>2
      <4>4. QED
        BY <1>4, <4>1, <4>2, <4>3, Zenon
    <3>3. CASE r = 500
      <4>0. Answer("SIZE") = 500
        BY <3>1, <3>3
      <4>1. ~site.knowsSize
        BY <4>0, AnswerFacts, Zenon
      <4>2. Class(r) # 2
        BY <3>3, ClassFacts
      <4>3. sizeOk' = FALSE
        BY <1>1, <4>2, Zenon
      <4>4. QED
        BY <1>4, <4>1, <4>3, Zenon
    <3>4. QED
      BY <3>1, <3>2, <3>3
  <2>4. SizeKnown'
    BY <1>5, <2>2, <2>3, Zenon DEF SizeKnown
  <2>5. RestKnown'
    BY <1>1, <1>2, RestKept
  <2>6. QED
    BY <1>4, <1>5, <2>1, <2>4, <2>5, FtpAsks DEF Asking, Listing
<1>11. QED
  BY <1>9, <1>10

ListCommands == {"PASV", "PORT", "TYPE A", "LIST"}

(* What an exchange after SIZE leaves known. *)
LEMMA AllKept ==
  ASSUME RequestInv, NEW command \in Commands, NEW r, Exchange(command, r), UNCHANGED told,
         passive' \in BOOLEAN, command \in ListCommands
  PROVE  /\ RequestTypeOK /\ RestKnown /\ SizeKnown /\ at = command
         /\ ~OverHttp /\ UNCHANGED <<site, hops>> /\ RequestTypeOK'
         /\ RestKnown' /\ SizeKnown'
<1>1. RequestTypeOK /\ at = command
  BY DEF RequestInv, Exchange
<1>2. at \in {"PASV"} \cup Listing /\ at \in Asking \cup Listing
  BY <1>1 DEF Asking, Listing, ListCommands
<1>3. RestKnown /\ SizeKnown
  BY <1>2 DEF RequestInv, KnowsInv
<1>4. ~OverHttp /\ UNCHANGED <<site, hops>> /\ RequestTypeOK'
  <2>1. mainFileSize' \in Int /\ resumeSupport' \in BOOLEAN /\ sizeOk' \in BOOLEAN
    BY <1>1 DEF RequestTypeOK, told
  <2>2. QED
    BY <2>1, FtpExchange
<1>5. (late' = 0 => late = 0) /\ (lost => lost')
  BY <1>1, ExchangeFacts
<1>6. UNCHANGED <<mainFileSize, resumeSupport, sizeOk>>
  BY DEF told
<1>7. RestKnown'
  BY <1>1, <1>3, <1>6, RestKept
<1>8. SizeKnown'
  BY <1>3, <1>4, <1>5, <1>6, Zenon DEF SizeKnown
<1>9. QED
  BY <1>1, <1>3, <1>4, <1>7, <1>8

(* A reply to one of them for which the attempt goes on. *)
LEMMA ListGoesOn ==
  ASSUME RequestInv, NEW command \in Commands, NEW r, Exchange(command, r), UNCHANGED told,
         passive' \in BOOLEAN, command \in ListCommands, r # NoReply, at' \in Listing
  PROVE  RequestInv'
<1>0. RequestTypeOK
  BY DEF RequestInv
<1>1. ~lost'
  BY <1>0, ExchangeFacts
<1>2. at' \in Asking \cup Listing /\ at' \notin {"CWD file", "SIZE"}
  BY DEF Asking, Listing
<1>3. QED
  BY <1>1, <1>2, AllKept, FtpAsks

(* One that is required and failed. *)
LEMMA ListGivesUp ==
  ASSUME RequestInv, NEW command \in Commands, NEW r, Exchange(command, r), UNCHANGED told,
         passive' \in BOOLEAN, command \in ListCommands, at' = "judge", err' \notin Settling
  PROVE  RequestInv'
BY AllKept, FtpJudged DEF Settling

LEMMA RequiredInv ==
  ASSUME RequestInv, NEW command \in Commands, command \in ListCommands,
         NEW next \in Listing, NEW e, e \notin Settling, Required(command, 2, next, e)
  PROVE  RequestInv'
<1>1. PICK r \in Replies :
        /\ Exchange(command, r) /\ UNCHANGED infoVars
        /\ IF Class(r) = 2 THEN Goes(next) ELSE Fails(IF r = NoReply THEN "FTPERR" ELSE e)
  BY DEF Required
<1>a. UNCHANGED told /\ passive' \in BOOLEAN
  BY <1>1, SameInfo DEF RequestInv, infoVars
<1>2. CASE Class(r) = 2
  <2>1. r # NoReply
    BY <1>2, ClassFacts
  <2>2. at' = next
    BY <1>1, <1>2, Zenon DEF Goes
  <2>3. at' \in Listing
    BY <2>2
  <2>4. QED
    BY <1>1, <1>a, <2>1, <2>3, ListGoesOn
<1>3. CASE Class(r) # 2
  <2>1. at' = "judge" /\ err' \notin Settling
    BY <1>1, <1>3 DEF Fails, Settling
  <2>2. QED
    BY <1>1, <1>a, <2>1, ListGivesUp
<1>4. QED
  BY <1>2, <1>3

LEMMA PasvInv ==
  ASSUME RequestInv, Pasv
  PROVE  RequestInv'
<1>1. PICK r \in Replies :
        /\ Exchange("PASV", r) /\ UNCHANGED told /\ passive' = (r = 227)
        /\ Goes(CASE r = 227 -> "connect" [] r = NoReply -> "crashed" [] OTHER -> "PORT")
  BY DEF Pasv
<1>a. passive' \in BOOLEAN
  BY <1>1
<1>2. "PASV" \in Commands /\ "PASV" \in ListCommands
  BY DEF Commands, Asking, ListCommands
<1>3. CASE r = NoReply
  <2>1. NoReply # 227
    BY DEF NoReply
  <2>2. at' = "crashed"
    BY <1>1, <1>3, <2>1, Zenon DEF Goes
  <2>3. QED
    BY <1>1, <1>a, <1>2, <2>2, AllKept, FtpCrashes
<1>4. CASE r # NoReply
  <2>1. at' = "connect" \/ at' = "PORT"
    BY <1>1, <1>4, Zenon DEF Goes
  <2>2. at' \in Listing
    BY <2>1 DEF Listing
  <2>3. QED
    BY <1>1, <1>a, <1>2, <1>4, <2>2, ListGoesOn
<1>5. QED
  BY <1>3, <1>4

(* Between the replies: the data connection and its end.                   *)
LEMMA OffTheControl ==
  ASSUME RequestInv, at \in Listing, UNCHANGED <<site, running, attempts, channel, hops, late>>,
         faults' = faults \/ (faults < MaxFaults /\ faults' = faults + 1),
         mainFileSize' \in Int, UNCHANGED <<resumeSupport, sizeOk, passive>>
  PROVE  ~OverHttp /\ RequestTypeOK' /\ RestKnown /\ SizeKnown /\ RequestTypeOK /\ ~lost
         /\ RestKnown'
<1>1. RequestTypeOK /\ ~OverHttp /\ ~lost
  BY Zenon DEF RequestInv, PlaceInv, ChannelInv
<1>2. RestKnown /\ SizeKnown
  BY Zenon DEF RequestInv, KnowsInv
<1>3. RequestTypeOK'
  <2>1. faults' \in 0 .. MaxFaults
    BY <1>1, RequestAssumption DEF RequestTypeOK
  <2>2. /\ running' \in BOOLEAN /\ resumeSupport' \in BOOLEAN /\ sizeOk' \in BOOLEAN
        /\ passive' \in BOOLEAN /\ lost' \in BOOLEAN
    BY <1>1, Zenon DEF RequestTypeOK, channel
  <2>3. /\ site' \in Sites /\ attempts' \in Nat /\ replies' \in Seq(Replies \ {NoReply})
        /\ Len(replies') <= late' /\ hops' \in 0 .. MaxHops /\ late' \in 0 .. MaxLate
    BY <1>1 DEF RequestTypeOK, channel
  <2>4. QED
    BY <2>1, <2>2, <2>3 DEF RequestTypeOK
<1>4. RestKnown'
  BY <1>2, Zenon DEF RestKnown, channel
<1>5. QED
  BY <1>1, <1>2, <1>3, <1>4

(* A data connection that is opened, by either side, tells nothing.        *)
LEMMA ConnectsInv ==
  ASSUME RequestInv, NEW place \in {"connect", "accept"}, NEW next \in {"TYPE A", "data"},
         NEW e, e \notin Settling, Connects(place, next, e)
  PROVE  RequestInv'
<1>1. /\ at = place
      /\ (Goes(next) /\ UNCHANGED bounds) \/ (Fault /\ Fails(e))
      /\ UNCHANGED <<site, running, attempts, infoVars, channel>>
  BY DEF Connects
<1>2. UNCHANGED <<mainFileSize, resumeSupport, sizeOk, passive>> /\ UNCHANGED <<replies, lost>>
  BY <1>1 DEF infoVars, told, channel
<1>3. UNCHANGED <<hops, late>> /\ (faults' = faults \/ (faults < MaxFaults /\ faults' = faults + 1))
  BY <1>1 DEF bounds, Fault
<1>4. mainFileSize' \in Int /\ at \in Listing
  <2>1. mainFileSize \in Int
    BY DEF RequestInv, RequestTypeOK
  <2>2. at \in Listing
    BY <1>1 DEF Listing
  <2>3. QED
    BY <1>2, <2>1, <2>2
<1>5. ~OverHttp /\ RequestTypeOK' /\ SizeKnown /\ ~lost /\ RestKnown'
  BY <1>1, <1>2, <1>3, <1>4, OffTheControl
<1>6. SizeKnown'
  BY <1>1, <1>2, <1>3, <1>5, Zenon DEF SizeKnown
<1>7. CASE at' = next
  <2>1. at' \in Listing
    BY <1>7 DEF Listing
  <2>2. at' \notin {"CWD file", "SIZE"} /\ at' \in Asking \cup Listing
    BY <2>1 DEF Listing
  <2>3. QED
    BY <1>1, <1>2, <1>3, <1>5, <1>6, <2>2, FtpAsks
<1>8. CASE at' = "judge" /\ err' = e
  BY <1>1, <1>3, <1>5, <1>8, FtpJudged DEF Settling
<1>9. QED
  BY <1>1, <1>7, <1>8 DEF Goes, Fails

LEMMA DataSockInv ==
  ASSUME RequestInv, DataSock \/ AcceptData
  PROVE  RequestInv'
<1>1. CASE Pasv
  BY <1>1, PasvInv
<1>2. CASE Required("PORT", 2, "TYPE A", "FTPPORTERR")
  <2>1. /\ "PORT" \in Commands /\ "PORT" \in ListCommands /\ "TYPE A" \in Listing
        /\ "FTPPORTERR" \notin Settling
    BY DEF Commands, ListCommands, Listing, Settling
  <2>2. QED
    BY <1>2, <2>1, RequiredInv, Zenon
<1>3. CASE Connects("connect", "TYPE A", "CONERR")
  <2>1. "CONERR" \notin Settling
    BY DEF Settling
  <2>2. QED
    BY <1>3, <2>1, ConnectsInv
<1>4. CASE Connects("accept", "data", "ACCEPTERR")
  <2>1. "ACCEPTERR" \notin Settling
    BY DEF Settling
  <2>2. QED
    BY <1>4, <2>1, ConnectsInv
<1>5. QED
  BY <1>1, <1>2, <1>3, <1>4 DEF DataSock, AcceptData

(* The size is the one of SIZE, or else the listing's. *)
LEMMA FtpTruth ==
  ASSUME RequestTypeOK, ~OverHttp, RestKnown, SizeKnown, ~lost, UNCHANGED <<site, resumeSupport>>,
         late' = 0 => late = 0,
         \/ mainFileSize' = mainFileSize /\ (late = 0 /\ ~sizeOk => site.list # "readable")
         \/ mainFileSize' = site.size /\ site.list = "readable"
  PROVE  TrueInfo'
<1>1. SUFFICES ASSUME Exists
               PROVE  /\ resumeSupport => site.rest
                      /\ mainFileSize' \in {-1, Offered.size}
                      /\ late' = 0 => resumeSupport = site.rest /\ mainFileSize' = Offered.size
  <2>1. Offered.resume = site.rest
    BY SiteFacts
  <2>2. QED
    BY <2>1, SameSite, Zenon DEF TrueInfo
<1>2. site.what = "file" /\ site.knowsSize \in BOOLEAN
  BY <1>1, SiteFacts
<1>3. Offered.size = IF site.knowsSize \/ site.list = "readable" THEN site.size ELSE -1
  BY SiteFacts
<1>4. resumeSupport => site.rest
  BY Zenon DEF RestKnown
<1>5. mainFileSize' \in {-1, Offered.size}
  <2>1. mainFileSize = -1 \/ (site.knowsSize /\ mainFileSize = site.size)
    BY DEF SizeKnown
  <2>2. QED
    BY <1>3, <2>1
<1>6. ASSUME late' = 0
      PROVE  resumeSupport = site.rest /\ mainFileSize' = Offered.size
  <2>1. resumeSupport = site.rest
    BY <1>6, Zenon DEF RestKnown
  <2>2. sizeOk = site.knowsSize /\ (site.knowsSize => mainFileSize = site.size)
    BY <1>2, <1>6, Zenon DEF SizeKnown
  <2>3. mainFileSize = -1 \/ (site.knowsSize /\ mainFileSize = site.size)
    BY DEF SizeKnown
  <2>4. late = 0
    BY <1>6
  <2>5. CASE mainFileSize' = site.size /\ site.list = "readable"
    BY <1>3, <2>1, <2>5, Zenon
  <2>6. CASE mainFileSize' = mainFileSize /\ (~sizeOk => site.list # "readable")
    <3>1. CASE site.knowsSize
      BY <1>3, <2>1, <2>2, <2>6, <3>1, Zenon
    <3>2. CASE ~site.knowsSize
      <4>1. ~sizeOk
        BY <2>2, <3>2, Zenon
      <4>2. site.list # "readable" /\ mainFileSize = -1
        BY <2>3, <2>6, <3>2, <4>1, Zenon
      <4>3. QED
        BY <1>3, <2>1, <2>6, <3>2, <4>2, Zenon
    <3>3. QED
      BY <3>1, <3>2
  <2>7. QED
    BY <2>4, <2>5, <2>6
<1>7. QED
  BY <1>4, <1>5, <1>6, Zenon

(* LIST is refused in time only by a server whose listing gives no size. *)
LEMMA ListInv ==
  ASSUME RequestInv, List
  PROVE  RequestInv'
<1>1. CASE Required("TYPE A", 2, "LIST", "FTPUNKNOWNTYPE")
  <2>1. /\ "TYPE A" \in Commands /\ "TYPE A" \in ListCommands /\ "LIST" \in Listing
        /\ "FTPUNKNOWNTYPE" \notin Settling
    BY DEF Commands, ListCommands, Listing, Settling
  <2>2. QED
    BY <1>1, <2>1, RequiredInv, Zenon
<1>2. ASSUME NEW r \in Replies, Exchange("LIST", r), UNCHANGED infoVars,
             CASE r = 150 -> Goes(IF passive THEN "data" ELSE "accept")
               [] r = NoReply -> Goes("crashed")
               [] OTHER -> Fails("FTPOK")
      PROVE  RequestInv'
  <2>1. "LIST" \in Commands /\ "LIST" \in ListCommands
    BY DEF Commands, ListCommands
  <2>a. UNCHANGED told /\ passive' \in BOOLEAN
    BY <1>2, SameInfo DEF RequestInv, infoVars
  <2>2. NoReply # 150
    BY DEF NoReply
  <2>3. CASE r = 150
    <3>1. at' \in {"data", "accept"}
      BY <1>2, <2>2, <2>3, Zenon DEF Goes
    <3>2. r # NoReply /\ at' \in Listing
      BY <2>2, <2>3, <3>1 DEF Listing
    <3>3. QED
      BY <1>2, <2>1, <2>a, <3>2, ListGoesOn
  <2>4. CASE r = NoReply
    <3>1. at' = "crashed"
      BY <1>2, <2>2, <2>4, Zenon DEF Goes
    <3>2. QED
      BY <1>2, <2>1, <2>a, <3>1, AllKept, FtpCrashes
  <2>5. CASE r # 150 /\ r # NoReply
    <3>1. at' = "judge" /\ err' = "FTPOK"
      BY <1>2, <2>5, Zenon DEF Fails
    <3>2. /\ RequestTypeOK /\ RestKnown /\ SizeKnown /\ ~OverHttp
          /\ UNCHANGED <<site, hops>> /\ RequestTypeOK'
      BY <1>2, <2>1, <2>a, AllKept
    <3>3. ~lost /\ (late' = 0 => late = 0) /\ (late = 0 => r = Answer("LIST"))
      BY <1>2, <2>1, <2>5, <3>2, ExchangeFacts
    <3>4. late = 0 => site.list # "readable"
      <4>1. ASSUME late = 0 PROVE site.list = "refused"
        <5>1. Answer("LIST") # 150
          BY <2>5, <3>3, <4>1
        <5>2. QED
          BY <5>1, AnswerFacts, Zenon
      <4>2. QED
        BY <4>1
    <3>5. TrueInfo'
      BY <1>2, <3>2, <3>3, <3>4, FtpTruth, Zenon DEF infoVars, told
    <3>6. QED
      BY <3>1, <3>2, <3>5, FtpJudged
  <2>6. QED
    BY <2>3, <2>4, <2>5
<1>3. QED
  BY <1>1, <1>2 DEF List

LEMMA DataInv ==
  ASSUME RequestInv, Data
  PROVE  RequestInv'
<1>1. at = "data" /\ at \in Listing
  BY DEF Data, Listing
<1>2. UNCHANGED <<site, running, attempts, resumeSupport, sizeOk, passive, channel>>
  BY DEF Data
<1>3. UNCHANGED <<hops, late>> /\ (faults' = faults \/ (faults < MaxFaults /\ faults' = faults + 1))
  BY DEF Data, bounds, Fault
<1>4. \/ at' = "judge" /\ err' = "FTPERR" /\ mainFileSize' = mainFileSize
      \/ /\ at' = "judge" /\ err' = "FTPOK"
         /\ mainFileSize' = IF ~sizeOk /\ site.list = "readable" THEN site.size ELSE mainFileSize
  BY DEF Data, Fails
<1>5. RequestTypeOK /\ ~OverHttp
  BY <1>1, Zenon DEF RequestInv, PlaceInv
<1>6. mainFileSize' \in Int
  BY <1>4, <1>5, SiteFacts DEF RequestTypeOK
<1>7. RequestTypeOK' /\ RestKnown /\ SizeKnown /\ ~lost
  BY <1>1, <1>2, <1>3, <1>6, OffTheControl
<1>8. CASE err' = "FTPERR"
  BY <1>2, <1>3, <1>4, <1>5, <1>7, <1>8, FtpJudged
<1>9. CASE /\ err' = "FTPOK"
           /\ mainFileSize' = IF ~sizeOk /\ site.list = "readable" THEN site.size ELSE mainFileSize
  <2>1. \/ mainFileSize' = mainFileSize /\ (~sizeOk => site.list # "readable")
        \/ mainFileSize' = site.size /\ site.list = "readable"
    BY <1>9, Zenon
  <2>2. TrueInfo'
    BY <1>2, <1>3, <1>5, <1>7, <2>1, FtpTruth, Zenon
  <2>3. QED
    BY <1>2, <1>3, <1>4, <1>5, <1>7, <1>9, <2>2, FtpJudged
<1>10. QED
  BY <1>4, <1>8, <1>9
-----------------------------------------------------------------------------
(***************************************************************************)
(* Steps between attempts, and attempts over HTTP.                         *)
(***************************************************************************)
Between == {"begin", "attempt", "GET", "greeting", "redirect", "bad location"}

(* Where a request over HTTP stands when it has found nothing. *)
LEMMA NothingYet ==
  ASSUME RequestInv, at \in Between
  PROVE  /\ RequestTypeOK /\ replies = <<>> /\ ~lost
         /\ OverHttp => ~resumeSupport
<1>1. \A p \in Between :
        p \notin Asking \cup Listing \cup {"judge", "crashed"} /\ p \notin Judged
  BY DEF Between, Asking, Listing, Judged
<1>2. at \notin Asking \cup Listing \cup {"judge", "crashed"} /\ at \notin Judged
  BY <1>1, Zenon
<1>3. RequestTypeOK /\ replies = <<>> /\ ~lost
  BY <1>2, Zenon DEF RequestInv, ChannelInv
<1>4. OverHttp => ~resumeSupport
  BY <1>2, Zenon DEF RequestInv, KnowsInv
<1>5. QED
  BY <1>3, <1>4

LEMMA StaysBetween ==
  ASSUME RequestTypeOK', PlaceInv', at' \in Between, replies' = <<>>, ~lost',
         OverHttp' => ~resumeSupport'
  PROVE  RequestInv'
<1>1. at' \notin Asking \cup Listing /\ at' \notin Judged
  BY DEF Between, Asking, Listing, Judged
<1>2. ChannelInv'
  BY <1>1 DEF ChannelInv, Asking
<1>3. KnowsInv'
  BY <1>1, Zenon DEF KnowsInv, Asking
<1>4. VerdictInv'
  BY <1>1 DEF VerdictInv
<1>5. QED
  BY <1>2, <1>3, <1>4 DEF RequestInv

LEMMA TypesKept ==
  ASSUME RequestTypeOK, running' \in BOOLEAN, site' \in Sites, hops' \in 0 .. MaxHops,
         UNCHANGED <<infoVars, faults, late>>, attempts' \in Nat,
         (replies' = replies /\ lost' = lost) \/ (replies' = <<>> /\ lost' = FALSE)
  PROVE  RequestTypeOK'
<1>1. /\ mainFileSize' \in Int /\ resumeSupport' \in BOOLEAN /\ sizeOk' \in BOOLEAN
      /\ passive' \in BOOLEAN
  BY SameInfo
<1>2. late \in 0 .. MaxLate /\ MaxLate \in Nat
  BY RequestAssumption DEF RequestTypeOK
<1>3. replies' \in Seq(Replies \ {NoReply}) /\ Len(replies') <= late' /\ lost' \in BOOLEAN
  <2>1. CASE replies' = replies /\ lost' = lost
    BY <2>1 DEF RequestTypeOK
  <2>2. CASE replies' = <<>> /\ lost' = FALSE
    <3>1. \A T : <<>> \in Seq(T)
      BY EmptySeq
    <3>2. replies' \in Seq(Replies \ {NoReply}) /\ lost' \in BOOLEAN
      BY <2>2, <3>1, Zenon
    <3>3. Len(replies') <= late'
      BY <1>2, <2>2
    <3>4. QED
      BY <3>2, <3>3
  <2>3. QED
    BY <2>1, <2>2
<1>4. faults' \in 0 .. MaxFaults /\ late' \in 0 .. MaxLate
  BY DEF RequestTypeOK
<1>5. QED
  BY <1>1, <1>3, <1>4 DEF RequestTypeOK

LEMMA BeginInv ==
  ASSUME RequestInv, Begin
  PROVE  RequestInv'
<1>1. at \in Between /\ at' = "attempt" /\ running' = TRUE
  BY DEF Begin, Between
<1>2. RequestTypeOK /\ replies = <<>> /\ ~lost /\ (OverHttp => ~resumeSupport)
  BY <1>1, NothingYet
<1>3. UNCHANGED <<site, attempts, infoVars, hops, faults, late, replies, lost>>
  BY DEF Begin, channel, bounds
<1>4. RequestTypeOK'
  BY <1>1, <1>2, <1>3, TypesKept DEF RequestTypeOK
<1>5. PlaceInv'
  BY <1>1, <1>3, SameSite DEF RequestInv, PlaceInv, Places, LoggingIn, Asking, Listing
<1>6. OverHttp' => ~resumeSupport'
  BY <1>2, <1>3, SameSite DEF infoVars, told
<1>7. QED
  BY <1>1, <1>2, <1>3, <1>4, <1>5, <1>6, StaysBetween DEF Between

LEMMA BeginAttemptInv ==
  ASSUME RequestInv, BeginAttempt
  PROVE  RequestInv'
<1>1. at \in Between /\ at' = IF OverHttp THEN "GET" ELSE "greeting"
  BY DEF BeginAttempt, Between, OverHttp
<1>2. RequestTypeOK /\ replies = <<>> /\ ~lost /\ (OverHttp => ~resumeSupport)
  BY <1>1, NothingYet
<1>3. UNCHANGED <<site, running, attempts, infoVars, hops, faults, late, replies, lost>>
  BY DEF BeginAttempt, channel, bounds
<1>4. RequestTypeOK'
  BY <1>2, <1>3, TypesKept DEF RequestTypeOK
<1>5. PlaceInv'
  BY <1>1, <1>3, SameSite DEF RequestInv, PlaceInv, Places, LoggingIn, Asking, Listing
<1>6. OverHttp' => ~resumeSupport'
  BY <1>2, <1>3, SameSite DEF infoVars, told
<1>7. QED
  BY <1>1, <1>2, <1>3, <1>4, <1>5, <1>6, StaysBetween DEF Between

LEMMA HttpErrFacts ==
  /\ HttpErr = "HOK" => AsFtpErr(HttpErr) = "FTPOK"
  /\ HttpErr # "HOK" =>
       /\ HttpErr \notin {"HOK", "FTPOK"} /\ AsFtpErr(HttpErr) \notin {"HOK", "FTPOK"}
       /\ HttpErr \in Settling \/ AsFtpErr(HttpErr) \in Settling => site.status = 404
BY DEF HttpErr, AsFtpErr, Settling

(* e is what the reply says, in the codes of the URL's protocol. *)
LEMMA HttpReplyInv ==
  ASSUME RequestInv, NEW e, NEW broken, HttpReply(e, broken), broken \notin Settling,
         e = IF site.proto = "http" THEN HttpErr ELSE AsFtpErr(HttpErr)
  PROVE  RequestInv'
<1>1. at = "GET" /\ at \in Between /\ at' = "judge"
  BY DEF HttpReply, Fails, Between
<1>2. RequestTypeOK /\ replies = <<>> /\ ~lost /\ OverHttp /\ ~resumeSupport
  BY <1>1, NothingYet DEF RequestInv, PlaceInv
<1>3. /\ UNCHANGED <<site, running, attempts, replies, lost, hops, late>>
      /\ faults' = faults \/ (faults < MaxFaults /\ faults' = faults + 1)
  BY DEF HttpReply, bounds, channel, Fault
<1>4. PlaceInv'
  BY <1>1, <1>3, SameSite DEF RequestInv, PlaceInv, Places, LoggingIn, Asking, Listing, Judged
<1>5. ChannelInv'
  BY <1>1 DEF ChannelInv, Asking, Listing
<1>6. ASSUME mainFileSize' \in Int, resumeSupport' \in BOOLEAN, sizeOk' \in BOOLEAN,
             passive' \in BOOLEAN
      PROVE  RequestTypeOK'
  <2>1. faults' \in 0 .. MaxFaults
    BY <1>2, <1>3, RequestAssumption DEF RequestTypeOK
  <2>2. running' \in BOOLEAN /\ lost' \in BOOLEAN
    BY <1>2, <1>3, Zenon DEF RequestTypeOK
  <2>3. /\ site' \in Sites /\ attempts' \in Nat /\ replies' \in Seq(Replies \ {NoReply})
        /\ Len(replies') <= late' /\ hops' \in 0 .. MaxHops /\ late' \in 0 .. MaxLate
    BY <1>2, <1>3 DEF RequestTypeOK
  <2>4. QED
    BY <1>6, <2>1, <2>2, <2>3 DEF RequestTypeOK
<1>7. CASE /\ HttpErr = "HOK" /\ err' = e
           /\ mainFileSize' = site.contlen /\ UNCHANGED <<sizeOk, passive>>
           /\ resumeSupport' = CASE site.accept = 1 -> TRUE [] site.accept = -1 -> FALSE
                                 [] OTHER -> resumeSupport
  <2>1. resumeSupport' <=> site.accept = 1
    <3>1. CASE site.accept = 1
      <4>1. site.accept # -1
        BY <3>1
      <4>2. QED
        BY <1>7, <3>1, <4>1, Zenon
    <3>2. CASE site.accept # 1
      BY <1>2, <1>7, <3>2, Zenon
    <3>3. QED
      BY <3>1, <3>2
  <2>2. resumeSupport' \in BOOLEAN
    <3>1. CASE site.accept = 1
      <4>1. site.accept # -1
        BY <3>1
      <4>2. QED
        BY <1>7, <3>1, <4>1, Zenon
    <3>2. CASE site.accept # 1
      <4>1. resumeSupport \in BOOLEAN
        BY <1>2 DEF RequestTypeOK
      <4>2. QED
        BY <1>7, <3>2, <4>1, Zenon
    <3>3. QED
      BY <3>1, <3>2
  <2>3. /\ Offered.size = site.contlen /\ Offered.resume = (site.accept = 1)
        /\ site.contlen \in Int
    BY <1>2, SiteFacts
  <2>4. TrueInfo'
    <3>1. resumeSupport' = Offered.resume
      BY <2>1, <2>2, <2>3, Zenon
    <3>2. mainFileSize' = Offered.size
      BY <1>7, <2>3
    <3>3. QED
      BY <1>3, <3>1, <3>2, SameSite, Zenon DEF TrueInfo
  <2>5. sizeOk' \in BOOLEAN /\ passive' \in BOOLEAN
    BY <1>2, <1>7, Zenon DEF RequestTypeOK
  <2>6. RequestTypeOK'
    BY <1>6, <1>7, <2>2, <2>3, <2>5
  <2>7. err' = IF site.proto = "http" THEN "HOK" ELSE "FTPOK"
    BY <1>7, HttpErrFacts
  <2>8. KnowsInv'
    BY <1>1, <1>3, <2>7 DEF KnowsInv, Asking, Listing, Judged
  <2>9. VerdictInv'
    BY <2>4, <2>7 DEF VerdictInv
  <2>10. QED
    BY <1>4, <1>5, <2>6, <2>8, <2>9 DEF RequestInv
<1>8. CASE HttpErr # "HOK" /\ err' = e /\ UNCHANGED infoVars
  <2>1. RequestTypeOK' /\ ~resumeSupport'
    BY <1>2, <1>6, <1>8, SameInfo DEF infoVars, told
  <2>2. KnowsInv'
    BY <1>1, <2>1, Zenon DEF KnowsInv, Asking, Listing
  <2>3. err' \notin {"HOK", "FTPOK"}
    BY <1>8, HttpErrFacts
  <2>4. err' \in {"HTTPNSFOD", "FTPNSFOD"} => site.status = 404
    BY <1>8, HttpErrFacts DEF Settling
  <2>5. site.status = 404 => ~Exists
    BY <1>2, SiteFacts
  <2>6. VerdictInv'
    BY <1>3, <2>3, <2>4, <2>5, SameSite DEF VerdictInv
  <2>7. QED
    BY <1>4, <1>5, <2>1, <2>2, <2>6 DEF RequestInv
<1>9. CASE err' = broken /\ UNCHANGED infoVars
  <2>1. RequestTypeOK' /\ ~resumeSupport'
    BY <1>2, <1>6, <1>9, SameInfo DEF infoVars, told
  <2>2. KnowsInv'
    BY <1>1, <2>1, Zenon DEF KnowsInv, Asking, Listing
  <2>3. VerdictInv'
    BY <1>9 DEF VerdictInv, Settling
  <2>4. QED
    BY <1>4, <1>5, <2>1, <2>2, <2>3 DEF RequestInv
<1>10. QED
  BY <1>7, <1>8, <1>9 DEF HttpReply, Fails

LEMMA GetInv ==
  ASSUME RequestInv, Get \/ GetFromProxy
  PROVE  RequestInv'
<1>1. CASE Get
  <2>1. /\ HttpReply(HttpErr, "HERR") /\ "HERR" \notin Settling
        /\ HttpErr = IF site.proto = "http" THEN HttpErr ELSE AsFtpErr(HttpErr)
    BY <1>1 DEF Get, Settling
  <2>2. QED
    BY <2>1, HttpReplyInv, Zenon
<1>2. CASE GetFromProxy
  <2>1. /\ HttpReply(AsFtpErr(HttpErr), "FTPERR") /\ "FTPERR" \notin Settling
        /\ AsFtpErr(HttpErr) = IF site.proto = "http" THEN HttpErr ELSE AsFtpErr(HttpErr)
    BY <1>2 DEF GetFromProxy, Settling
  <2>2. QED
    BY <2>1, HttpReplyInv, Zenon
<1>3. QED
  BY <1>1, <1>2

(* An attempt that is over leaves the verdict as it is; over HTTP a resume *)
(* is only found by a verdict that ends the loop.                          *)
LEMMA AttemptOverFacts ==
  ASSUME RequestInv, AttemptOver, running' \in BOOLEAN
  PROVE  /\ at = "judge" /\ UNCHANGED <<err, site, infoVars, hops, late>>
         /\ replies' = <<>> /\ ~lost' /\ RequestTypeOK'
         /\ OverHttp /\ resumeSupport => err = IF site.proto = "http" THEN "HOK" ELSE "FTPOK"
<1>1. /\ at = "judge" /\ UNCHANGED <<err, site, infoVars, hops, faults, late>>
      /\ replies' = <<>> /\ lost' = FALSE /\ attempts' = attempts + 1
  BY DEF AttemptOver, bounds
<1>2. RequestTypeOK /\ attempts' \in Nat
  BY <1>1 DEF RequestInv, RequestTypeOK
<1>3. site' \in Sites /\ hops' \in 0 .. MaxHops
  BY <1>1, <1>2 DEF RequestTypeOK
<1>4. RequestTypeOK'
  BY <1>1, <1>2, <1>3, TypesKept
<1>5. OverHttp /\ resumeSupport => err = IF site.proto = "http" THEN "HOK" ELSE "FTPOK"
  BY <1>1, Zenon DEF RequestInv, KnowsInv
<1>6. QED
  BY <1>1, <1>4, <1>5

LEMMA LoopEnds ==
  ASSUME RequestInv, AttemptOver, running' \in BOOLEAN, at' = "return"
  PROVE  RequestInv'
<1>1. at = "judge" /\ UNCHANGED <<err, site, infoVars, hops, late>>
  BY AttemptOverFacts
<1>2. PlaceInv'
  BY <1>1, SameSite DEF RequestInv, PlaceInv, Places, LoggingIn, Asking, Listing, Judged
<1>3. ChannelInv'
  BY AttemptOverFacts DEF ChannelInv, Asking, Listing
<1>4. at \in Judged /\ at' \in Judged /\ at' \notin Asking \cup Listing
  BY <1>1 DEF Judged, Asking, Listing
<1>5. UNCHANGED <<mainFileSize, resumeSupport>>
  BY <1>1 DEF infoVars, told
<1>6. KnowsInv'
  <2>1. at' \notin {"PASV"} \cup Listing
    BY DEF Listing
  <2>2. OverHttp' /\ resumeSupport' => err' = IF site'.proto = "http" THEN "HOK" ELSE "FTPOK"
    <3>1. OverHttp /\ resumeSupport => err = IF site.proto = "http" THEN "HOK" ELSE "FTPOK"
      BY AttemptOverFacts
    <3>2. QED
      BY <1>1, <1>5, <3>1, SameSite
  <2>3. QED
    BY <1>4, <2>1, <2>2, Zenon DEF KnowsInv
<1>7. VerdictInv'
  <2>1. /\ err \in {"HOK", "FTPOK"} => TrueInfo
        /\ err \in {"HTTPNSFOD", "FTPNSFOD"} /\ late = 0 => ~Exists
    BY <1>4, Zenon DEF RequestInv, VerdictInv
  <2>2. TrueInfo => TrueInfo'
    BY <1>1, <1>5, SameSite, Zenon DEF TrueInfo
  <2>3. QED
    BY <1>1, <2>1, <2>2, SameSite, Zenon DEF VerdictInv
<1>8. QED
  BY <1>2, <1>3, <1>6, <1>7, AttemptOverFacts DEF RequestInv

LEMMA LoopGoesOn ==
  ASSUME RequestInv, AttemptOver, running' \in BOOLEAN, at' \in {"attempt", "redirect"},
         at' = "redirect" => site.proto = "http",
         OverHttp /\ resumeSupport => err # IF site.proto = "http" THEN "HOK" ELSE "FTPOK"
  PROVE  RequestInv'
<1>1. /\ at = "judge" /\ UNCHANGED <<err, site, infoVars, hops, late>>
      /\ replies' = <<>> /\ ~lost' /\ RequestTypeOK'
  BY AttemptOverFacts
<1>2. PlaceInv'
  BY <1>1, SameSite DEF RequestInv, PlaceInv, Places, LoggingIn, Asking, Listing, Judged
<1>3. OverHttp => ~resumeSupport
  BY AttemptOverFacts
<1>4. OverHttp' => ~resumeSupport'
  BY <1>1, <1>3, SameSite DEF infoVars, told
<1>5. at' \in Between
  BY DEF Between
<1>6. QED
  BY <1>1, <1>2, <1>4, <1>5, StaysBetween

LEMMA HttpLoopInv ==
  ASSUME RequestInv, HttpLoop
  PROVE  RequestInv'
<1>1. AttemptOver /\ site.proto = "http" /\ running \in BOOLEAN
  BY DEF HttpLoop, RequestInv, RequestTypeOK
<1>2. CASE err = "NEWLOCATION"
  <2>1. at' = "redirect" /\ running' \in BOOLEAN
    BY <1>1, <1>2 DEF HttpLoop
  <2>2. QED
    BY <1>1, <1>2, <2>1, LoopGoesOn
<1>3. CASE err # "NEWLOCATION"
  <2>1. EndOrRetry({"HOK", "HTTPNSFOD"})
    BY <1>3 DEF HttpLoop
  <2>2. CASE at' = "return" /\ running' = FALSE
    BY <1>1, <2>2, LoopEnds
  <2>3. CASE at' = "attempt" /\ UNCHANGED running /\ err \notin {"HOK", "HTTPNSFOD"}
    BY <1>1, <2>3, LoopGoesOn
  <2>4. QED
    BY <2>1, <2>2, <2>3, Zenon DEF EndOrRetry
<1>4. QED
  BY <1>2, <1>3

LEMMA FtpLoopInv ==
  ASSUME RequestInv, FtpLoop
  PROVE  RequestInv'
<1>1. AttemptOver /\ site.proto = "ftp" /\ running \in BOOLEAN /\ EndOrRetry({"FTPOK", "FTPNSFOD"})
  BY DEF FtpLoop, RequestInv, RequestTypeOK
<1>2. CASE at' = "return" /\ running' = FALSE
  BY <1>1, <1>2, LoopEnds
<1>3. CASE at' = "attempt" /\ UNCHANGED running /\ err \notin {"FTPOK", "FTPNSFOD"}
  BY <1>1, <1>3, LoopGoesOn
<1>4. QED
  BY <1>1, <1>2, <1>3, Zenon DEF EndOrRetry

(* A redirection leads to a site that may redirect again only while hops   *)
(* are left; nothing has been found before it.                             *)
LEMMA RedirectInv ==
  ASSUME RequestInv, Redirect
  PROVE  RequestInv'
<1>1. at \in Between /\ MaxHops \in Nat
  BY RequestAssumption DEF Redirect, Between
<1>2. RequestTypeOK /\ replies = <<>> /\ ~lost /\ (OverHttp => ~resumeSupport)
  BY <1>1, NothingYet
<1>3. CASE /\ at = "redirect" /\ site.location = "good"
           /\ hops' = hops + 1 /\ site' \in Reachable(hops + 1)
           /\ at' = "begin"
           /\ UNCHANGED <<running, err, faults, late>>
           /\ UNCHANGED <<attempts, infoVars, channel>>
  <2>1. OverHttp /\ site.proto = "http"
    BY <1>3 DEF RequestInv, PlaceInv, OverHttp
  <2>2. hops \in 0 .. MaxHops /\ hops < MaxHops
    BY <1>2, <1>3, <2>1 DEF RequestInv, PlaceInv, RequestTypeOK
  <2>3. site' \in Sites /\ hops' \in 0 .. MaxHops
    BY <1>1, <1>3, <2>2 DEF Reachable
  <2>4. hops' < MaxHops \/ site'.proto = "ftp" \/ site'.location = "none"
    BY <1>3 DEF Reachable
  <2>5. running' \in BOOLEAN /\ attempts' \in Nat
    BY <1>2, <1>3 DEF RequestTypeOK
  <2>6. UNCHANGED <<infoVars, faults, late>> /\ replies' = replies /\ lost' = lost
    BY <1>3 DEF channel
  <2>7. RequestTypeOK'
    BY <1>2, <2>3, <2>5, <2>6, TypesKept
  <2>8. PlaceInv'
    BY <1>3, <2>4 DEF PlaceInv, Places, LoggingIn, Asking, Listing
  <2>9. ~resumeSupport'
    BY <1>2, <2>1, <2>6 DEF infoVars, told
  <2>10. at' \in Between /\ replies' = <<>> /\ ~lost'
    BY <1>2, <1>3, <2>6 DEF Between
  <2>11. QED
    BY <2>7, <2>8, <2>9, <2>10, StaysBetween
<1>4. CASE /\ at = "redirect" /\ site.location = "bad"
           /\ running' = FALSE /\ err' = "URLBADHOST" /\ at' = "bad location"
           /\ UNCHANGED <<site, attempts, infoVars, channel, bounds>>
  <2>1. UNCHANGED <<hops, faults, late, replies, lost>>
    BY <1>4 DEF bounds, channel
  <2>2. RequestTypeOK'
    BY <1>2, <1>4, <2>1, TypesKept DEF RequestTypeOK
  <2>3. PlaceInv'
    BY <1>4, <2>1, SameSite DEF RequestInv, PlaceInv, Places, LoggingIn, Asking, Listing
  <2>4. OverHttp' => ~resumeSupport'
    BY <1>2, <1>4, SameSite DEF infoVars, told
  <2>5. at' \in Between /\ replies' = <<>> /\ ~lost'
    BY <1>2, <1>4, <2>1 DEF Between
  <2>6. QED
    BY <2>2, <2>3, <2>4, <2>5, StaysBetween
<1>5. CASE /\ at = "bad location"
           /\ err' = "HERR" /\ at' = "ended"
           /\ UNCHANGED <<site, running, attempts, infoVars, channel, bounds>>
  <2>1. UNCHANGED <<hops, faults, late, replies, lost>>
    BY <1>5 DEF bounds, channel
  <2>2. RequestTypeOK'
    BY <1>2, <1>5, <2>1, TypesKept DEF RequestTypeOK
  <2>3. PlaceInv'
    BY <1>5, <2>1, SameSite DEF RequestInv, PlaceInv, Places, LoggingIn, Asking, Listing, Judged
  <2>4. OverHttp' => ~resumeSupport'
    BY <1>2, <1>5, SameSite DEF infoVars, told
  <2>5. at' \notin Asking \cup Listing /\ replies' = <<>> /\ ~lost'
    BY <1>2, <1>5, <2>1 DEF Asking, Listing
  <2>6. ChannelInv'
    BY <1>5, <2>5 DEF ChannelInv, Asking
  <2>7. KnowsInv'
    BY <1>5, <2>4, <2>5, Zenon DEF KnowsInv, Asking
  <2>8. VerdictInv'
    BY <1>5 DEF VerdictInv
  <2>9. QED
    BY <2>2, <2>3, <2>6, <2>7, <2>8 DEF RequestInv
<1>6. QED
  BY <1>3, <1>4, <1>5 DEF Redirect

LEMMA LeaveInv ==
  ASSUME RequestInv, Leave
  PROVE  RequestInv'
<1>1. /\ at = "return" /\ at' = "ended"
      /\ UNCHANGED <<site, running, err, attempts, infoVars, hops, faults, late, replies, lost>>
  BY DEF Leave, channel, bounds
<1>2. RequestTypeOK
  BY DEF RequestInv
<1>3. RequestTypeOK'
  BY <1>1, <1>2, TypesKept DEF RequestTypeOK
<1>4. PlaceInv'
  BY <1>1, SameSite DEF RequestInv, PlaceInv, Places, LoggingIn, Asking, Listing, Judged
<1>5. at \in Judged /\ at' \in Judged /\ at' \notin Asking \cup Listing
  BY <1>1 DEF Judged, Asking, Listing
<1>6. replies = <<>> /\ ~lost
  BY <1>1 DEF RequestInv, ChannelInv, Asking, Listing
<1>7. ChannelInv'
  BY <1>1, <1>5, <1>6 DEF ChannelInv, Asking
<1>8. UNCHANGED <<mainFileSize, resumeSupport>>
  BY <1>1 DEF infoVars, told
<1>9. KnowsInv'
  <2>1. at' \notin {"PASV"} \cup Listing
    BY <1>1 DEF Listing
  <2>2. OverHttp' /\ resumeSupport' => err' = IF site'.proto = "http" THEN "HOK" ELSE "FTPOK"
    <3>1. OverHttp /\ resumeSupport => err = IF site.proto = "http" THEN "HOK" ELSE "FTPOK"
      BY Zenon DEF RequestInv, KnowsInv
    <3>2. QED
      BY <1>1, <1>8, <3>1, SameSite
  <2>3. QED
    BY <1>5, <2>1, <2>2, Zenon DEF KnowsInv
<1>10. VerdictInv'
  <2>1. /\ err \in {"HOK", "FTPOK"} => TrueInfo
        /\ err \in {"HTTPNSFOD", "FTPNSFOD"} /\ late = 0 => ~Exists
    BY <1>5, Zenon DEF RequestInv, VerdictInv
  <2>2. TrueInfo => TrueInfo'
    BY <1>1, <1>8, SameSite, Zenon DEF TrueInfo
  <2>3. QED
    BY <1>1, <2>1, <2>2, SameSite, Zenon DEF VerdictInv
<1>11. QED
  BY <1>3, <1>4, <1>7, <1>9, <1>10 DEF RequestInv

(* Every step of the information thread. *)
LEMMA InfoThreadInv ==
  ASSUME RequestInv, InfoThread
  PROVE  RequestInv'
<1>1. CASE Begin \/ BeginAttempt \/ Get \/ GetFromProxy
  BY <1>1, BeginInv, BeginAttemptInv, GetInv
<1>2. CASE Login \/ Cwd \/ Rest \/ CwdFile \/ Size
  BY <1>2, LoginInv, CwdInv, RestInv, CwdFileInv, SizeInv
<1>3. CASE DataSock \/ List \/ AcceptData \/ Data
  BY <1>3, DataSockInv, ListInv, DataInv
<1>4. CASE HttpLoop \/ FtpLoop \/ Redirect \/ Leave
  BY <1>4, HttpLoopInv, FtpLoopInv, RedirectInv, LeaveInv
<1>5. QED
  BY <1>1, <1>2, <1>3, <1>4 DEF InfoThread
-----------------------------------------------------------------------------
(***************************************************************************)
(* The window.                                                             *)
(***************************************************************************)
WindowTypes ==
  /\ noGetch \in BOOLEAN /\ force \in BOOLEAN
  /\ resumeOpt \in BOOLEAN /\ ftpSearch \in BOOLEAN
  /\ logConns \in {ShortLog} \cup 0 .. MaxConns /\ part \in BOOLEAN /\ target \in BOOLEAN
  /\ status \in {"DL_GETTING_INFO", "DL_FTPSEARCHING", "DL_DLPRESTART",
                 "DL_DOWNLOADING", "DL_RESTARTING", "DL_JOINING", "DL_DONE",
                 "DL_FATALERR", "DL_ABORTED"}
  /\ step \in {"poll", "join", "target", "previous", "log", "start", "crashed"}
  /\ numConns \in 1 .. MaxConns
  /\ resumeMode \in BOOLEAN /\ mirrors \in {"none", "silent", "up"} /\ threads \in BOOLEAN
  /\ answer \in {"none", "A", "O", "R"} /\ failed \subseteq {"rename", "log", "part"}

TInv == RequestTypeOK /\ InfoInv /\ WindowTypes

LEMMA InitTInv == Init => TInv
<1> SUFFICES ASSUME Init PROVE TInv
  OBVIOUS
<1>1. MaxHops \in Nat \ {0} /\ MaxFaults \in Nat /\ MaxLate \in Nat
  BY RequestAssumption
<1>2. RequestTypeOK
  <2>1. running \in BOOLEAN /\ resumeSupport \in BOOLEAN /\ sizeOk \in BOOLEAN /\ lost \in BOOLEAN
        /\ passive \in BOOLEAN
    BY DEF Init, RequestInit
  <2>2. <<>> \in Seq(Replies \ {NoReply}) /\ Len(<<>>) <= 0
    BY EmptySeq
  <2>3. replies \in Seq(Replies \ {NoReply}) /\ Len(replies) <= late
    BY <2>2, Zenon DEF Init, RequestInit
  <2>4. /\ site \in Sites /\ attempts \in Nat /\ mainFileSize \in Int
        /\ hops \in 0 .. MaxHops /\ faults \in 0 .. MaxFaults /\ late \in 0 .. MaxLate
    BY <1>1 DEF Init, RequestInit
  <2>5. QED
    BY <2>1, <2>3, <2>4 DEF RequestTypeOK
<1>3. at = "begin" /\ ~resumeSupport /\ replies = <<>> /\ ~lost /\ hops < MaxHops
  BY <1>1 DEF Init, RequestInit
<1>4. PlaceInv
  BY <1>3 DEF PlaceInv, Places, LoggingIn, Asking, Listing, Judged
<1>5. ChannelInv /\ KnowsInv /\ VerdictInv
  BY <1>3 DEF ChannelInv, KnowsInv, VerdictInv, Asking, Listing, Judged
<1>6. WindowTypes
  <2>0. part \in BOOLEAN
    <3>1. part = (logConns # 0)
      BY DEF Init
    <3>2. (logConns # 0) \in BOOLEAN
      OBVIOUS
    <3>3. QED
      BY <3>1, <3>2, Zenon
  <2>1. /\ noGetch \in BOOLEAN /\ force \in BOOLEAN /\ resumeOpt \in BOOLEAN /\ ftpSearch \in BOOLEAN
        /\ part \in BOOLEAN /\ target \in BOOLEAN
        /\ resumeMode \in BOOLEAN /\ threads \in BOOLEAN
    BY <2>0, Zenon DEF Init
  <2>2. /\ logConns \in {ShortLog} \cup 0 .. MaxConns /\ mirrors = "none" /\ status = "DL_GETTING_INFO" /\ step = "poll"
        /\ numConns \in 1 .. MaxConns /\ answer = "none" /\ failed = {}
    BY WindowAssumption DEF Init
  <2>3. QED
    BY <2>1, <2>2 DEF WindowTypes
<1>7. QED
  BY <1>2, <1>4, <1>5, <1>6 DEF TInv, InfoInv, RequestInv

LEMMA SameRequest ==
  ASSUME UNCHANGED <<threadVars, resumeSupport>>
  PROVE  /\ UNCHANGED <<site, running, err, attempts, mainFileSize, at, sizeOk, passive, replies, lost,
                        hops, faults, late, resumeSupport>>
         /\ RequestTypeOK => RequestTypeOK'
         /\ RequestInv => RequestInv'
<1>1. UNCHANGED <<site, running, err, attempts, mainFileSize, at, sizeOk, passive, replies, lost,
                  hops, faults, late, resumeSupport>>
  BY DEF threadVars, channel, bounds
<1>2. RequestTypeOK => RequestTypeOK'
  BY <1>1, Zenon DEF RequestTypeOK
<1>3. PlaceInv => PlaceInv'
  BY <1>1, Zenon DEF PlaceInv, OverHttp
<1>4. ChannelInv => ChannelInv'
  <2>1. at' = at /\ replies' = replies /\ lost' = lost
    BY <1>1
  <2>2. QED
    BY <2>1, Zenon DEF ChannelInv
<1>5. KnowsInv => KnowsInv'
  <2>1. /\ resumeSupport' = resumeSupport /\ site' = site /\ late' = late /\ lost' = lost
        /\ mainFileSize' = mainFileSize /\ sizeOk' = sizeOk /\ at' = at /\ err' = err
    BY <1>1, Zenon
  <2>2. RestKnown => RestKnown'
    BY <2>1, SMT DEF RestKnown
  <2>3. SizeKnown => SizeKnown'
    BY <2>1, Zenon DEF SizeKnown
  <2>4. QED
    BY <2>1, <2>2, <2>3, SMT DEF KnowsInv, OverHttp
<1>6. VerdictInv => VerdictInv'
  <2>1. /\ resumeSupport' = resumeSupport /\ site' = site /\ late' = late
        /\ mainFileSize' = mainFileSize /\ at' = at /\ err' = err
    BY <1>1, Zenon
  <2>2. Offered' = Offered /\ (Exists' <=> Exists)
    BY <2>1, SameSite
  <2>3. TrueInfo => TrueInfo'
    BY <2>1, <2>2, SMT DEF TrueInfo
  <2>4. QED
    BY <2>1, <2>2, <2>3, Zenon DEF VerdictInv
<1>7. QED
  BY <1>1, <1>2, <1>3, <1>4, <1>5, <1>6, Zenon DEF RequestInv

LEMMA SameWindow ==
  ASSUME WindowTypes,
         UNCHANGED <<noGetch, force, resumeOpt, ftpSearch, logConns, part, target, status, step,
                     numConns, resumeMode, mirrors, threads, answer, failed>>
  PROVE  WindowTypes'
<1>1. /\ noGetch' \in BOOLEAN /\ force' \in BOOLEAN
      /\ resumeOpt' \in BOOLEAN /\ ftpSearch' \in BOOLEAN
      /\ part' \in BOOLEAN /\ target' \in BOOLEAN
      /\ resumeMode' \in BOOLEAN /\ threads' \in BOOLEAN
  BY Zenon DEF WindowTypes
<1>2. QED
  BY <1>1 DEF WindowTypes

LEMMA InfoStepTInv ==
  ASSUME TInv, IInv, InfoStep
  PROVE  TInv'
<1>1. InfoThread /\ UNCHANGED windowVars
  BY DEF InfoStep
<1>2. at # "ended"
  BY <1>1, InfoThreadRunning DEF IInv
<1>3. status = "DL_GETTING_INFO"
  BY <1>2 DEF IInv, InfoIsSettled
<1>4. RequestInv'
  BY <1>1, <1>3, InfoThreadInv DEF TInv, InfoInv
<1>5. UNCHANGED <<noGetch, force, resumeOpt, ftpSearch, logConns, part, target, status, step,
                  numConns, resumeMode, mirrors, threads, answer, failed>>
  BY <1>1 DEF windowVars, fileVars, history
<1>6. WindowTypes'
  BY <1>5, SameWindow, Zenon DEF TInv
<1>7. QED
  BY <1>4, <1>6 DEF TInv, InfoInv, RequestInv

(* The window changes nothing of the request but that, when a download     *)
(* cannot be resumed, it is set up again without resume support.           *)
LEMMA WindowStepThread ==
  ASSUME WindowStep
  PROVE  /\ UNCHANGED threadVars
         /\ \/ UNCHANGED resumeSupport
            \/ resumeSupport' = FALSE /\ status' # "DL_GETTING_INFO"
         /\ UNCHANGED <<noGetch, force, resumeOpt, ftpSearch>>
<1>1. UNCHANGED readVars
  BY DEF WindowStep, SeeInfoEnded, InfoFails, InfoArrives, SearchEnds, CheckTarget, CheckPrevious, ReadLog,
     StartDownload, StartFails, InProgress, Outcome, Done, CantResume, DownloadFails, Restart,
     Joined, HandleFatalError
<1>2. \/ UNCHANGED resumeSupport
      \/ resumeSupport' = FALSE /\ status' # "DL_GETTING_INFO"
  BY DEF WindowStep, SeeInfoEnded, InfoFails, InfoArrives, SearchEnds, CheckTarget, CheckPrevious, ReadLog,
     StartDownload, StartFails, InProgress, Outcome, Done, CantResume, DownloadFails, Restart,
     Joined, HandleFatalError, dlVars
<1>3. QED
  BY <1>1, <1>2 DEF readVars

(* The window leaves DL_GETTING_INFO for good, and only when it has joined *)
(* the information thread.                                                 *)
LEMMA WindowStepStatus ==
  ASSUME WindowStep, IInv
  PROVE  /\ status' = "DL_GETTING_INFO" => status = "DL_GETTING_INFO"
         /\ status = "DL_GETTING_INFO" /\ status' # status =>
              \/ at = "ended" /\ status' = "DL_FATALERR"
              \/ /\ at = "ended" /\ err \in {"HOK", "FTPOK"}
                 /\ status' \in {"DL_FTPSEARCHING", "DL_DLPRESTART"}
<1> USE DEF Polling, IInv, StepFitsStatus
<1>1. CASE SeeInfoEnded \/ InfoFails \/ InfoArrives
  BY <1>1 DEF SeeInfoEnded, InfoFails, InfoArrives, InfoJoined, EnterDoDownload
<1>2. CASE SearchEnds \/ Restart
  BY <1>2 DEF SearchEnds, Restart, EnterDoDownload
<1>3. CASE CheckTarget
  BY <1>3 DEF CheckTarget
<1>4. CASE CheckPrevious
  BY <1>4 DEF CheckPrevious, PreviousResumable, PreviousNotResumable, FatalError
<1>5. CASE ReadLog \/ StartDownload \/ StartFails \/ InProgress
  BY <1>5 DEF ReadLog, StartDownload, StartFails, InProgress
<1>6. CASE Outcome
  BY <1>6 DEF Outcome, Done, CantResume, DownloadFails
<1>7. CASE Joined \/ HandleFatalError
  BY <1>7 DEF Joined, HandleFatalError, FatalError
<1>8. QED
  BY <1>1, <1>2, <1>3, <1>4, <1>5, <1>6, <1>7 DEF WindowStep

LEMMA WindowStepRequest ==
  ASSUME TInv, IInv, WindowStep
  PROVE  RequestTypeOK' /\ InfoInv'
<1>1. UNCHANGED threadVars
  BY WindowStepThread
<1>2. CASE UNCHANGED resumeSupport
  <2>1. (RequestTypeOK => RequestTypeOK') /\ (RequestInv => RequestInv')
    BY <1>1, <1>2, SameRequest
  <2>2. QED
    BY <2>1, WindowStepStatus, Zenon DEF TInv, InfoInv
<1>3. CASE resumeSupport' = FALSE /\ status' # "DL_GETTING_INFO"
  <2>1. UNCHANGED <<site, running, attempts, mainFileSize, sizeOk, passive, replies, lost, hops,
                    faults, late>>
    BY <1>1 DEF threadVars, channel, bounds
  <2>2. RequestTypeOK'
    BY <1>3, <2>1, Zenon DEF TInv, RequestTypeOK
  <2>3. QED
    BY <1>3, <2>2 DEF InfoInv
<1>4. QED
  BY <1>2, <1>3, WindowStepThread

(* The flags of the window.                                                *)
LEMMA WindowStepFlags ==
  ASSUME TInv, WindowStep
  PROVE  /\ part' \in BOOLEAN /\ target' \in BOOLEAN
         /\ resumeMode' \in BOOLEAN /\ mirrors' \in {"none", "silent", "up"}
         /\ threads' \in BOOLEAN
<1>1. /\ part \in BOOLEAN /\ target \in BOOLEAN
      /\ resumeMode \in BOOLEAN /\ mirrors \in {"none", "silent", "up"} /\ threads \in BOOLEAN
      /\ force \in BOOLEAN
  BY Zenon DEF TInv, WindowTypes
<1>2. CASE SeeInfoEnded \/ InfoFails \/ StartFails \/ HandleFatalError \/ InProgress \/ CheckTarget
           \/ ReadLog
  BY <1>1, <1>2, Zenon DEF SeeInfoEnded, InfoFails, StartFails, HandleFatalError, InProgress, CheckTarget,
     ReadLog, fileVars, dlVars
<1>3. CASE InfoArrives \/ SearchEnds \/ Restart
  BY <1>1, <1>3, Zenon DEF InfoArrives, SearchEnds, Restart, EnterDoDownload, fileVars
<1>4. CASE CheckPrevious
  <2>1. UNCHANGED <<part, target, mirrors, threads>>
    BY <1>4 DEF CheckPrevious, fileVars
  <2>2. resumeMode' \in BOOLEAN
    <3>1. CASE UNCHANGED resumeMode
      BY <1>1, <3>1
    <3>2. CASE PreviousResumable
      <4>1. (rtResumeMode \/ ~force) \in BOOLEAN
        BY Zenon
      <4>2. \A a : (a = "R") \in BOOLEAN
        BY Zenon
      <4>3. QED
        BY <3>2, <4>1, <4>2, Zenon DEF PreviousResumable
    <3>3. CASE PreviousNotResumable
      <4>1. (~force) \in BOOLEAN
        BY Zenon
      <4>2. \A a : (a = "A") \in BOOLEAN
        BY Zenon
      <4>3. QED
        BY <3>3, <4>1, <4>2, Zenon DEF PreviousNotResumable
    <3>4. QED
      BY <1>4, <3>1, <3>2, <3>3, Zenon DEF CheckPrevious
  <2>3. QED
    BY <1>1, <2>1, <2>2
<1>5. CASE StartDownload \/ Joined
  BY <1>1, <1>5, Zenon DEF StartDownload, Joined, dlVars
<1>6. CASE Outcome
  BY <1>1, <1>6, Zenon DEF Outcome, Done, CantResume, DownloadFails, fileVars
<1>7. QED
  BY <1>2, <1>3, <1>4, <1>5, <1>6, Zenon DEF WindowStep

(* The rest of its state, and what a resume is set up from.                *)
LEMMA WindowStepRest ==
  ASSUME TInv, WindowStep
  PROVE  /\ logConns' \in {ShortLog} \cup 0 .. MaxConns /\ numConns' \in 1 .. MaxConns
         /\ status' \in {"DL_GETTING_INFO", "DL_FTPSEARCHING", "DL_DLPRESTART",
                         "DL_DOWNLOADING", "DL_RESTARTING", "DL_JOINING", "DL_DONE",
                         "DL_FATALERR", "DL_ABORTED"}
         /\ step' \in {"poll", "join", "target", "previous", "log", "start", "crashed"}
         /\ answer' \in {"none", "A", "O", "R"} /\ failed' \subseteq {"rename", "log", "part"}
<1>1. MaxConns \in Nat \ {0}
  BY WindowAssumption
<1> USE DEF TInv, WindowTypes, Polling
<1>a. Connections \in 1 .. MaxConns
  BY <1>1 DEF Connections
<1>b. ASSUME WriteLog PROVE logConns' \in {ShortLog} \cup 0 .. MaxConns
  BY <1>a, <1>b DEF WriteLog
<1>2. CASE SeeInfoEnded \/ InfoFails
  BY <1>2 DEF SeeInfoEnded, InfoFails, InfoJoined, fileVars, dlVars, history
<1>3. CASE InfoArrives
  BY <1>3 DEF InfoArrives, InfoJoined, EnterDoDownload, fileVars, history
<1>4. CASE SearchEnds \/ Restart
  BY <1>4 DEF SearchEnds, Restart, EnterDoDownload, fileVars, history
<1>5. CASE CheckTarget
  BY <1>5 DEF CheckTarget, Reply, fileVars, dlVars
<1>6. CASE CheckPrevious
  <2>1. step' = "log" /\ UNCHANGED <<logConns, numConns, failed>>
    BY <1>6 DEF CheckPrevious, fileVars
  <2>2. status' \in {status, "DL_ABORTED"} /\ answer' \in {answer, "A", "O", "R"}
    BY <1>6 DEF CheckPrevious, PreviousResumable, PreviousNotResumable, FatalError, Reply
  <2>3. QED
    BY <2>1, <2>2
<1>c. CASE ReadLog
  <2>1. PICK n \in IF resumeMode THEN LoggedConns ELSE {numConns} :
          IF n > 0 THEN numConns' = n /\ step' = "start"
          ELSE numConns' = numConns /\ step' = "crashed"
    BY <1>c DEF ReadLog
  <2>2. n \in {ShortLog} \cup 0 .. MaxConns
    BY <2>1 DEF LoggedConns
  <2>3. numConns' \in 1 .. MaxConns /\ step' \in {"start", "crashed"}
    BY <1>1, <2>1, <2>2 DEF ShortLog
  <2>4. UNCHANGED <<logConns, status, answer, failed>>
    BY <1>c DEF ReadLog, fileVars, history
  <2>5. QED
    BY <2>3, <2>4
<1>7. CASE StartDownload
  <2>1. step' = "poll" /\ status' = "DL_DOWNLOADING" /\ UNCHANGED <<answer, failed>>
    BY <1>7 DEF StartDownload, history
  <2>2. numConns' \in 1 .. MaxConns
    BY <1>7, <1>a DEF StartDownload
  <2>3. logConns' \in {ShortLog} \cup 0 .. MaxConns
    BY <1>7, <1>b DEF StartDownload
  <2>4. QED
    BY <2>1, <2>2, <2>3
<1>8. CASE StartFails \/ HandleFatalError
  BY <1>8 DEF StartFails, HandleFatalError, FatalError, fileVars, dlVars, history
<1>9. CASE InProgress
  BY <1>b, <1>9 DEF InProgress, dlVars, history
<1>10. CASE Done
  <2>1. logConns' \in {ShortLog} \cup 0 .. MaxConns
    BY <1>1, <1>b, <1>10 DEF Done
  <2>2. /\ status' = "DL_JOINING" /\ failed' \subseteq {"rename", "log", "part"}
        /\ UNCHANGED <<step, numConns, answer>>
    BY <1>10 DEF Done
  <2>3. QED
    BY <2>1, <2>2
<1>11. CASE CantResume \/ DownloadFails
  <2>1. logConns' \in {ShortLog} \cup 0 .. MaxConns
    BY <1>b, <1>11 DEF CantResume, DownloadFails
  <2>2. UNCHANGED <<step, answer, failed>> /\ numConns' \in {1, numConns}
    BY <1>11 DEF CantResume, DownloadFails, history
  <2>3. status' \in {"DL_RESTARTING", "DL_FATALERR"}
    BY <1>11 DEF CantResume, DownloadFails
  <2>4. QED
    BY <1>1, <2>1, <2>2, <2>3
<1>12. CASE Joined
  BY <1>12 DEF Joined, dlVars
<1>13. QED
  BY <1>2, <1>3, <1>4, <1>5, <1>6, <1>c, <1>7, <1>8, <1>9, <1>10, <1>11, <1>12 DEF WindowStep, Outcome

LEMMA NextTInv == TInv /\ IInv /\ [Next]_vars => TInv'
<1>1. ASSUME TInv, IInv, InfoStep PROVE TInv'
  BY <1>1, InfoStepTInv
<1>2. ASSUME TInv, IInv, WindowStep PROVE TInv'
  <2>1. UNCHANGED <<noGetch, force, resumeOpt, ftpSearch>>
    BY <1>2, WindowStepThread
  <2>2. noGetch' \in BOOLEAN /\ force' \in BOOLEAN /\ resumeOpt' \in BOOLEAN /\ ftpSearch' \in BOOLEAN
    BY <1>2, <2>1, Zenon DEF TInv, WindowTypes
  <2>3. WindowTypes'
    BY <1>2, <2>2, WindowStepFlags, WindowStepRest, Zenon DEF WindowTypes
  <2>4. QED
    BY <1>2, <2>3, WindowStepRequest, WindowStepRest, Zenon DEF TInv
<1>3. ASSUME TInv, UNCHANGED vars PROVE TInv'
  <2>1. UNCHANGED <<threadVars, resumeSupport>>
    BY <1>3 DEF vars
  <2>2. UNCHANGED <<noGetch, force, resumeOpt, ftpSearch, logConns, part, target, status, step,
                    numConns, resumeMode, mirrors, threads, answer, failed>>
    BY <1>3 DEF vars, windowVars, fileVars, history
  <2>3. RequestTypeOK' /\ InfoInv'
    BY <1>3, <2>1, <2>2, SameRequest, Zenon DEF TInv, InfoInv
  <2>4. WindowTypes'
    BY <1>3, <2>2, SameWindow, Zenon DEF TInv
  <2>5. QED
    BY <2>3, <2>4 DEF TInv
<1>4. QED
  BY <1>1, <1>2, <1>3 DEF Next

LEMMA SpecTInv == Spec => []TInv
BY InitTInv, NextTInv, SpecIInv, PTL DEF Spec
-----------------------------------------------------------------------------
(* Every variable of the window and of its information thread has its      *)
(* type: a download is never set up with no connections or with more than  *)
(* were asked for, no chain of redirections is longer than its bound, and  *)
(* a reply that is still to be read is one that came late.                 *)
THEOREM TypeCorrect == Spec => []TypeOK
<1>1. TInv => TypeOK
  BY Zenon DEF TInv, WindowTypes, TypeOK
<1>2. QED
  BY SpecTInv, <1>1, PTL

(* What the window acts on when it has joined the information thread is    *)
(* true of the server it was sent to in the end, after any number of       *)
(* attempts, redirections, broken connections and replies read late.       *)
THEOREM InfoTrue == Spec => InfoIsTrue
<1>1. TInv /\ IInv /\ [Next]_vars =>
        [status = "DL_GETTING_INFO" /\ status' # status =>
           IF status' = "DL_FATALERR"
           THEN err \in {"HTTPNSFOD", "FTPNSFOD"} /\ late = 0 => ~Exists
           ELSE Exists =>
                  /\ resumeSupport => Offered.resume
                  /\ mainFileSize \in {-1, Offered.size}
                  /\ late = 0 =>
                       resumeSupport = Offered.resume /\ mainFileSize = Offered.size]_vars
  <2> SUFFICES ASSUME TInv, IInv, Next, status = "DL_GETTING_INFO", status' # status
               PROVE  IF status' = "DL_FATALERR"
                      THEN err \in {"HTTPNSFOD", "FTPNSFOD"} /\ late = 0 => ~Exists
                      ELSE TrueInfo
    BY Zenon DEF TrueInfo
  <2>1. ~InfoStep
    BY DEF InfoStep, windowVars
  <2>2. WindowStep
    BY <2>1 DEF Next
  <2>3. \/ at = "ended" /\ status' = "DL_FATALERR"
        \/ /\ at = "ended" /\ err \in {"HOK", "FTPOK"}
           /\ status' \in {"DL_FTPSEARCHING", "DL_DLPRESTART"}
    BY <2>2, WindowStepStatus
  <2>4. at \in Judged
    BY <2>3 DEF Judged
  <2>5. /\ err \in {"HOK", "FTPOK"} => TrueInfo
        /\ err \in {"HTTPNSFOD", "FTPNSFOD"} /\ late = 0 => ~Exists
    BY <2>4, Zenon DEF TInv, InfoInv, RequestInv, VerdictInv
  <2>6. QED
    BY <2>3, <2>5
<1>2. QED
  BY SpecTInv, SpecIInv, <1>1, PTL DEF Spec, InfoIsTrue
=============================================================================
