----------------------------- MODULE TransferInv -----------------------------
(***************************************************************************)
(* The inductive invariant behind the safety properties of Transfer.       *)
(*                                                                         *)
(* The properties speak of files and counts; what carries them from step   *)
(* to step is the agreement of four positions of a connection: where its   *)
(* range starts, how much of it is counted, where the server's stream      *)
(* stands, and where the next block will be written.                       *)
(***************************************************************************)
EXTENDS Transfer

(* The connection's range is its share of the file. *)
RangeLaid(i) ==
  /\ orig[i] = Base(n, i) /\ local[i] = orig[i] /\ endpos[i] = End(n, i)
  /\ received[i] >= 0
  /\ ~rs => startpos[i] = 0 /\ orig[i] = 0

(* The stream and the write position agree; a chunk is pending only        *)
(* between the write and the count.                                        *)
StreamAligned(i) ==
  /\ tpc[i] = "none" => startpos[i] = orig[i] /\ received[i] = 0 /\ attempts[i] = 0
  /\ tpc[i] = "ready" /\ attempts[i] = 0 => startpos[i] = orig[i] + received[i]
  /\ tpc[i] = "open" => startpos[i] = orig[i] + received[i]
  /\ tpc[i] \in {"stream", "count"} =>
       /\ pos[i] = local[i] + received[i] + chunk[i]
       /\ SizeKnown => togo[i] = endpos[i] - pos[i]
  /\ tpc[i] # "count" => chunk[i] = 0
  /\ tpc[i] = "count" =>
       chunk[i] >= 1 /\ HoldsBlocks(local[i] + received[i], chunk[i])

(* A completed connection does nothing any more. *)
CompletedRests(i) ==
  status[i] = "COMPLETED" =>
    /\ tpc[i] \in {"ready", "ended"}
    /\ tpc[i] = "ready" => attempts[i] = 0
    /\ SizeKnown => orig[i] + received[i] >= endpos[i]

(* What a log entry says of connection i of k. *)
EntryLaid(e, k, i) ==
  /\ e.local = Base(k, i) /\ e.orig = Base(k, i) /\ e.endpos = End(k, i)
  /\ e.received >= 0

LogLaid ==
  logState = "some" =>
    /\ logN >= 1
    /\ \A i \in Conn : i < logLen => EntryLaid(logRec[i], logN, i)

BufLaid ==
  main = "logging" =>
    \A i \in Conn : i < bufLen =>
      EntryLaid(buf[i], n, i) /\ HoldsBlocks(buf[i].orig, buf[i].received)

(* Threads exist for all the connections in use or for none. *)
ThreadsTogether ==
  /\ \A i \in Conn : i >= n => tpc[i] = "none"
  /\ main \in {"off", "resume", "log"} => \A i \in Conn : tpc[i] = "none"
  /\ \A i \in Conn : tpc[0] = "none" => tpc[i] = "none"

(* A process that starts has no counts, attempts or chunks yet. *)
MemoryClear ==
  main = "off" =>
    \A i \in Conn : /\ received[i] = 0 /\ attempts[i] = 0 /\ chunk[i] = 0
                    /\ status[i] = "IDLE"

(* The main thread. *)
MainConsistent ==
  /\ main = "off" <=> n = 0
  /\ bufLen <= n
  /\ main = "resume" /\ rs /\ SizeKnown /\ logState = "some" => logN = n
  /\ main = "finish" => AllCompleted
  /\ main = "done" => logState = "none"

IInv ==
  /\ TypeOK
  /\ ThreadsTogether
  /\ MemoryClear
  /\ MainConsistent
  /\ \A i \in Active : RangeLaid(i)
  /\ \A i \in Active : StreamAligned(i)
  /\ \A i \in Active : CompletedRests(i)
  /\ LogLaid
  /\ BufLaid
  /\ NothingMisplaced
  /\ CountBehindFile
  /\ LogBehindFile
  /\ SizeKnown => TargetWhole
=============================================================================
