------------------------------- MODULE Window -------------------------------
(***************************************************************************)
(* One DL_Window (src/download_win.cpp) and the loop of open_new_dl_win    *)
(* (src/main.cpp) that calls my_cb every 700 ms until the window is done,  *)
(* idle or aborted: the information thread (Request) and its end, the      *)
(* optional mirror search, the questions about an existing target and a    *)
(* previous download, the download itself with its restart, the joining    *)
(* thread and the fatal errors.  The search and the download are seen      *)
(* through their results.                                                  *)
(***************************************************************************)
EXTENDS Request

CONSTANTS
  MaxConns,       \* most connections: asked for with -k, logged, or taken from garbage
  MinSearchSize   \* min_search_size

ASSUME WindowAssumption == MaxConns \in Nat \ {0} /\ MinSearchSize \in Nat

(* A log without a whole header: writing it was cut short by a full disk   *)
(* or the death of the process, or it cannot be opened for reading.        *)
ShortLog == -1

VARIABLES
  \* the command line: --no-getch, --force, --resume, an ftpsearch asked for
  noGetch, force, resumeOpt, ftpSearch,
  \* files: number of connections in the log's header (0: no log, or
  \* ShortLog), is there a partial file, is there a target?
  logConns, part, target,
  \* DL_Window and its connection and download
  status, step, numConns, resumeMode,
  mirrors,        \* using_ftpsearch: "none", or did one of the mirrors respond ("up") or not?
  threads,        \* do download threads exist?
  \* history: the last answer; which of the end's three steps failed: the
  \* rename of the partial file, the deletion of the log, that of the partial
  answer, failed

threadVars == <<site, running, err, attempts, mainFileSize, at, sizeOk, passive, channel, bounds>>
readVars == <<noGetch, force, resumeOpt, ftpSearch, threadVars>>
fileVars == <<logConns, part, target>>
dlVars == <<numConns, resumeSupport, resumeMode, mirrors, threads>>
history == <<answer, failed>>
windowVars == <<noGetch, force, resumeOpt, ftpSearch, fileVars, status, step, numConns,
                resumeMode, mirrors, threads, history>>
vars == <<windowVars, resumeSupport, threadVars>>

(* main.cpp stores RESUME, the only and therefore first value of its enum, *)
(* for -r; a run without -r has FALSE in the zeroed runtime structure.     *)
RESUME == 0
rtResumeMode == IF resumeOpt THEN RESUME = 1 ELSE FALSE

(* dl_start has created the thread that gets the file's information; an    *)
(* earlier run may have left a log with its partial file, or a target.     *)
Init ==
  /\ RequestInit
  /\ noGetch \in BOOLEAN /\ force \in BOOLEAN
  /\ resumeOpt \in BOOLEAN /\ ftpSearch \in BOOLEAN
  /\ logConns \in {ShortLog} \cup 0 .. MaxConns /\ part = (logConns # 0) /\ target \in BOOLEAN
  /\ status = "DL_GETTING_INFO" /\ step = "poll"
  /\ numConns \in 1 .. MaxConns
  /\ resumeMode = FALSE /\ mirrors = "none" /\ threads = FALSE
  /\ answer = "none" /\ failed = {}

Polling(s) == status = s /\ step = "poll"

(* do_download begins: DL_DLPRESTART, a new download_t. *)
EnterDoDownload == status' = "DL_DLPRESTART" /\ step' = "target" /\ resumeMode' = FALSE

(* handle_info_thread: running is FALSE; pthread_join waits for the thread. *)
SeeInfoEnded ==
  /\ Polling("DL_GETTING_INFO") /\ ~running
  /\ step' = "join"
  /\ UNCHANGED <<readVars, fileVars, status, dlVars, history>>

InfoJoined == step = "join" /\ at = "ended"

InfoFails ==
  /\ InfoJoined /\ err \notin {"HOK", "FTPOK"}
  /\ status' = "DL_FATALERR" /\ step' = "poll"
  /\ UNCHANGED <<readVars, fileVars, dlVars, history>>

(* A file large enough, in Kb, goes to the mirror search. *)
Searches == ftpSearch /\ mainFileSize # -1 /\ mainFileSize >= MinSearchSize

InfoArrives ==
  /\ InfoJoined /\ err \in {"HOK", "FTPOK"}
  /\ IF Searches THEN status' = "DL_FTPSEARCHING" /\ step' = "poll" /\ UNCHANGED resumeMode
     ELSE EnterDoDownload
  /\ UNCHANGED <<readVars, fileVars, numConns, resumeSupport, mirrors, threads, history>>

(* handle_ftpsearch: mirrors were pinged, there were none, or it failed. *)
SearchEnds ==
  /\ Polling("DL_FTPSEARCHING")
  /\ mirrors' \in {"none", "silent", "up"}
  /\ EnterDoDownload
  /\ UNCHANGED <<readVars, fileVars, numConns, resumeSupport, threads, history>>

-----------------------------------------------------------------------------
(***************************************************************************)
(* do_download: handle_prev_download's questions, then start_download.     *)
(***************************************************************************)

(* askUserResume and askUserOverwrite repeat until the reply is a choice.   *)
Reply(a) == answer' = a

(* handle_dl_fatal_error: cleanup() always ends with DL_ABORTED. *)
FatalError == status' = "DL_ABORTED"

(* The target exists: abort or overwrite. *)
CheckTarget ==
  /\ step = "target"
  /\ IF ~noGetch /\ target
     THEN \E a \in {"A", "O"} : Reply(a) /\
            (IF a = "A" THEN status' = "DL_FATALERR" /\ step' = "poll"
                       ELSE status' = status /\ step' = "previous")
     ELSE step' = "previous" /\ UNCHANGED <<status, answer>>
  /\ UNCHANGED <<readVars, fileVars, dlVars, failed>>

(* A log exists and the server can resume. *)
PreviousResumable ==
  IF noGetch
  THEN /\ resumeMode' = (rtResumeMode \/ ~force)
       /\ UNCHANGED <<status, answer>>
  ELSE /\ \E a \in {"R", "O"} : Reply(a) /\ resumeMode' = (a = "R")
       /\ UNCHANGED status

(* A log exists and the server cannot resume. *)
PreviousNotResumable ==
  IF noGetch
  THEN /\ resumeMode' = ~force
       /\ IF force THEN UNCHANGED status ELSE FatalError
       /\ UNCHANGED answer
  ELSE \E a \in {"A", "O"} :
         /\ Reply(a)
         /\ resumeMode' = (a = "A")
         /\ IF a = "O" THEN UNCHANGED status ELSE FatalError

(* Only the log's existence is looked at here. *)
CheckPrevious ==
  /\ step = "previous"
  /\ IF logConns = 0 THEN UNCHANGED <<resumeMode, status, answer>>
     ELSE IF resumeSupport THEN PreviousResumable ELSE PreviousNotResumable
  /\ step' = "log"
  /\ UNCHANGED <<readVars, fileVars, numConns, resumeSupport, mirrors,
                 threads, failed>>

(* MUTANT of LoggedConns: the log's number is not used. *)
LoggedAsAsked == {numConns}

(* The number of connections that the log tells.  The result of reading it *)
(* is only reported: without a whole header the number is what happens to  *)
(* be in the uninitialized structure, 0 standing for those below 1.        *)
LoggedConns == IF logConns = ShortLog THEN 0 .. MaxConns ELSE {logConns}

(* MUTANT of ReadLog: the number is not asserted. *)
ReadLogUnasserted ==
  /\ step = "log" /\ status # "DL_FATALERR"
  /\ numConns' \in IF resumeMode THEN LoggedConns ELSE {numConns}
  /\ step' = "start"
  /\ UNCHANGED <<readVars, fileVars, status, resumeSupport, resumeMode, mirrors,
                 threads, history>>

(* do_download goes on unless the status is DL_FATALERR.  A resume uses    *)
(* the log's number of connections, asserted to be positive.               *)
ReadLog ==
  /\ step = "log" /\ status # "DL_FATALERR"
  /\ \E n \in IF resumeMode THEN LoggedConns ELSE {numConns} :
       IF n > 0 THEN numConns' = n /\ step' = "start"
       ELSE numConns' = numConns /\ step' = "crashed"
  /\ UNCHANGED <<readVars, fileVars, status, resumeSupport, resumeMode, mirrors,
                 threads, history>>

(* download_t's resume_support, which mirrors are trusted with, and its    *)
(* connections: one where nothing can be divided.                          *)
Resumable == resumeSupport \/ mirrors = "up"
Connections == IF Resumable /\ mainFileSize # -1 THEN numConns ELSE 1

(* log_create_logfile, whose failure is at most reported: the header may   *)
(* not be written whole, and a log that cannot be opened stays as it was.  *)
WriteLog == logConns' \in {Connections, ShortLog, logConns}

(* start_download opens the partial file, a fresh download writes its log, *)
(* and the threads are created.                                            *)
StartDownload ==
  /\ step = "start"
  /\ step' = "poll"
  /\ status' = "DL_DOWNLOADING" /\ threads' = TRUE
  /\ part' = TRUE
  /\ numConns' = IF mirrors = "none" THEN Connections ELSE numConns
  /\ IF resumeMode THEN UNCHANGED logConns ELSE WriteLog
  /\ UNCHANGED <<readVars, target, resumeSupport, resumeMode, mirrors, history>>

(* The partial file cannot be opened or created. *)
StartFails ==
  /\ step = "start"
  /\ step' = "poll" /\ status' = "DL_ABORTED"
  /\ UNCHANGED <<readVars, fileVars, dlVars, history>>

-----------------------------------------------------------------------------
(***************************************************************************)
(* handle_download_thread, whose proz_download_handle_threads first        *)
(* rewrites the log at every poll, and handle_joining_thread.              *)
(***************************************************************************)

(* DLINPROGRESS. *)
InProgress ==
  /\ Polling("DL_DOWNLOADING")
  /\ WriteLog
  /\ UNCHANGED <<readVars, part, target, status, step, dlVars, history>>

(* MUTANT of Done: the log is not deleted. *)
DoneKeepsLog ==
  /\ Polling("DL_DOWNLOADING")
  /\ status' = "DL_JOINING" /\ threads' = FALSE
  /\ target' = TRUE /\ part' = FALSE
  /\ UNCHANGED <<readVars, logConns, step, numConns, resumeSupport, resumeMode,
                 mirrors, history>>

(* DLDONE: the library has joined the threads, renamed the partial file    *)
(* and deleted the log, or only reported that it could not.                *)
Done ==
  /\ Polling("DL_DOWNLOADING")
  /\ status' = "DL_JOINING" /\ threads' = FALSE
  /\ \E f \in SUBSET {"rename", "log"} :
       /\ failed' = failed \cup f
       /\ IF "rename" \in f THEN UNCHANGED <<target, part>> ELSE target' = TRUE /\ part' = FALSE
       /\ IF "log" \in f THEN WriteLog /\ logConns' # 0 ELSE logConns' = 0
  /\ UNCHANGED <<readVars, step, numConns, resumeSupport, resumeMode, mirrors,
                 answer>>

(* CANTRESUME, which only a connection with resume support reports, and    *)
(* one to a mirror always has it: the threads are stopped; set up again    *)
(* with one connection.                                                    *)
CantResume ==
  /\ Polling("DL_DOWNLOADING") /\ Resumable
  /\ threads' = FALSE
  /\ numConns' = 1 /\ resumeSupport' = FALSE
  /\ status' = "DL_RESTARTING"
  /\ WriteLog
  /\ UNCHANGED <<readVars, part, target, step, resumeMode, mirrors, history>>

Restart ==
  /\ Polling("DL_RESTARTING")
  /\ EnterDoDownload
  /\ UNCHANGED <<readVars, fileVars, numConns, resumeSupport, mirrors, threads,
                 history>>

(* DLLOCALFATAL and DLREMOTEFATAL, after the library stopped the threads. *)
DownloadFails ==
  /\ Polling("DL_DOWNLOADING")
  /\ threads' = FALSE /\ status' = "DL_FATALERR"
  /\ WriteLog
  /\ UNCHANGED <<readVars, part, target, step, numConns, resumeSupport, resumeMode,
                 mirrors, history>>

(* The joining thread has ended: the partial file, if there is one, is     *)
(* deleted, or a message says that it could not be.                        *)
Joined ==
  /\ Polling("DL_JOINING")
  /\ status' = "DL_DONE"
  /\ \/ part' = FALSE /\ UNCHANGED failed
     \/ part /\ failed' = failed \cup {"part"} /\ UNCHANGED part
  /\ UNCHANGED <<readVars, logConns, target, step, dlVars, answer>>

(* MUTANT of HandleFatalError: the window does not end. *)
StayInFatalError == Polling("DL_FATALERR") /\ UNCHANGED vars

HandleFatalError ==
  /\ Polling("DL_FATALERR")
  /\ FatalError
  /\ UNCHANGED <<readVars, fileVars, step, dlVars, history>>

Outcome == Done \/ CantResume \/ DownloadFails

WindowStep ==
  \/ SeeInfoEnded \/ InfoFails \/ InfoArrives \/ SearchEnds \/ CheckTarget \/ CheckPrevious
  \/ ReadLog \/ StartDownload \/ StartFails \/ InProgress \/ Outcome \/ Restart \/ Joined
  \/ HandleFatalError

InfoStep == InfoThread /\ UNCHANGED windowVars

Next == at # "crashed" /\ (WindowStep \/ InfoStep)

Spec == Init /\ [][Next]_vars

(* The window is polled; the information thread's server answers, or a     *)
(* timeout ends the wait, but for accept(), which has none; the library's  *)
(* threads end, and handle_threads does not answer DLINPROGRESS for ever.  *)
FairSpec ==
  Spec /\ WF_vars(at # "crashed" /\ WindowStep) /\ WF_vars(Outcome)
       /\ WF_vars(at # "accept" /\ InfoStep)

-----------------------------------------------------------------------------
Ended == status \in {"DL_DONE", "DL_ABORTED"} /\ step = "poll"
Crashed == "crashed" \in {at, step}

TypeOK ==
  /\ RequestTypeOK
  /\ noGetch \in BOOLEAN /\ force \in BOOLEAN
  /\ resumeOpt \in BOOLEAN /\ ftpSearch \in BOOLEAN
  /\ logConns \in {ShortLog} \cup 0 .. MaxConns /\ part \in BOOLEAN /\ target \in BOOLEAN
  /\ status \in {"DL_GETTING_INFO", "DL_FTPSEARCHING", "DL_DLPRESTART",
                 "DL_DOWNLOADING", "DL_RESTARTING", "DL_JOINING", "DL_DONE",
                 "DL_FATALERR", "DL_ABORTED"}
  /\ step \in {"poll", "join", "target", "previous", "log", "start", "crashed"}
  /\ numConns \in 1 .. MaxConns
  /\ resumeMode \in BOOLEAN /\ mirrors \in {"none", "silent", "up"} /\ threads \in BOOLEAN
  /\ answer \in {"none", "A", "O", "R"} /\ failed \subseteq {"rename", "log", "part"}

(* my_cb runs in the program's loop: when it joins the information thread, *)
(* that thread has no retry, redirection or exchange with a server left,   *)
(* so that the window does not freeze.                                     *)
PollNeverBlocks == step = "join" => at \in {"return", "bad location", "ended"}

(* What the window acts on, after retries and redirections, is true of the *)
(* server it will download from: it never claims a resume or a size the    *)
(* server did not offer, and unless a reply came after its timeout it      *)
(* misses none (LIST gives the size where SIZE does not), and "the URL     *)
(* doesn't exist" is said of files that are not there.  FTP directories,   *)
(* for which nothing is asked, are left out.                               *)
Offered ==
  IF site.proto = "http" \/ site.proxy = "HTTPPROXY"
  THEN [size |-> site.contlen, resume |-> site.accept = 1]
  ELSE [size |-> IF site.knowsSize \/ site.list = "readable" THEN site.size ELSE -1,
        resume |-> site.rest]

Exists ==
  IF site.proto = "http" \/ site.proxy = "HTTPPROXY" THEN site.status # 404
  ELSE site.what = "file" /\ site.dir # "absent"

InfoIsTrue ==
  [][ status = "DL_GETTING_INFO" /\ status' # status =>
        IF status' = "DL_FATALERR"
        THEN err \in {"HTTPNSFOD", "FTPNSFOD"} /\ late = 0 => ~Exists
        ELSE Exists =>
               /\ resumeSupport => Offered.resume
               /\ mainFileSize \in {-1, Offered.size}
               /\ late = 0 =>
                    resumeSupport = Offered.resume /\ mainFileSize = Offered.size ]_vars

(* A resumed download has exactly the connections its log describes, so    *)
(* that reading the log fills the connections that were set up and no      *)
(* more; from a log without a whole header nothing is filled, whatever     *)
(* number of connections was made up from it.  The server still tells the  *)
(* file's size: without it one connection is set up for any log.           *)
ResumeFitsLog ==
  threads /\ resumeMode /\ Resumable /\ mainFileSize # -1 =>
    logConns \in {Connections, ShortLog}

(* DL_DONE, for which main() reports success, means that the target is     *)
(* there and nothing is left behind which a later run would resume, but    *)
(* for what a step of the end itself reported that it could not do.        *)
DoneLeavesTarget ==
  status = "DL_DONE" =>
    /\ target \/ "rename" \in failed
    /\ logConns = 0 \/ "log" \in failed
    /\ part => {"rename", "part"} \subseteq failed

(* Every window comes to its end, unless the process dies of an FTP reply  *)
(* that is missing or of a log it could not read, or waits for a server    *)
(* that never opens the data connection it was asked for, or is set up     *)
(* over and over for mirrors that cannot resume (their resume_support is   *)
(* TRUE each time): no join, other restart, retry or redirection goes on   *)
(* for ever, also when every attempt or connection fails.                  *)
WindowEnds ==
  []<>(at # "accept") /\ ~[]<><<mirrors = "up" /\ CantResume>>_vars => <>(Ended \/ Crashed)

(* The user who chose (A)bort gets no download: no thread is created after *)
(* that answer.                                                            *)
AbortIsHonoured == answer = "A" => ~threads
=============================================================================
