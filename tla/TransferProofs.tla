--------------------------- MODULE TransferProofs ---------------------------
(***************************************************************************)
(* Proofs of the properties of Transfer, for every length of the file,     *)
(* every number of connections, of program runs and of faults.             *)
(*                                                                         *)
(*   1. arithmetic of the ranges;                                          *)
(*   2. IInv is inductive: one lemma per action, under it one step per     *)
(*      conjunct that the action can disturb.  ThreadFrame and MainFrame   *)
(*      say once what a thread and the main thread leave alone;            *)
(*   3. the theorems, each from IInv;                                      *)
(*   4. Transfer implements Fetch.                                         *)
(***************************************************************************)
EXTENDS TransferInv, TLAPS

-----------------------------------------------------------------------------
(***************************************************************************)
(* The ranges of setup_connections.                                        *)
(***************************************************************************)

(* Starts and ends of ranges are numbers.                                  *)
LEMMA BaseType ==
  ASSUME NEW k \in 1 .. MaxConns, NEW i \in Conn
  PROVE  Base(k, i) \in Nat /\ End(k, i) \in Int
<1>1. Share(k) \in Nat /\ Size % k \in Nat
  BY TransferAssumption DEF Share
<1>2. i \in Nat
  BY TransferAssumption DEF Conn
<1>3. i * Share(k) \in Nat
  BY <1>1, <1>2
<1> QED
  BY <1>1, <1>3, TransferAssumption DEF Base, End

(* The first range starts the file.                                        *)
LEMMA BaseFirst ==
  ASSUME NEW k \in 1 .. MaxConns
  PROVE  Base(k, 0) = 0
<1>1. Share(k) \in Nat
  BY TransferAssumption DEF Share
<1> QED
  BY <1>1 DEF Base

(* Without a length the range does not depend on the number of             *)
(* connections.                                                            *)
LEMMA RangeUnknown ==
  ASSUME ~SizeKnown, NEW k \in 1 .. MaxConns, NEW j \in 1 .. MaxConns, NEW i \in Conn
  PROVE  Base(k, i) = Base(j, i) /\ End(k, i) = End(j, i)
  BY DEF Base, End

(* The ranges of k connections cover the file, whether Size is smaller     *)
(* than k, a multiple of k, or leaves a remainder for the last.            *)
LEMMA RangesCover ==
  ASSUME SizeKnown, NEW k \in 1 .. MaxConns, NEW p \in Offset
  PROVE  \E i \in 0 .. (k - 1) : Base(k, i) <= p /\ p < End(k, i)
<1> DEFINE s == Size \div k
           last == (k - 1) * s
<1>1. /\ s \in Nat /\ last \in Nat /\ Size % k \in Nat /\ k \in Nat \ {0}
      /\ p \in Nat /\ p < Size
  BY TransferAssumption DEF Offset
<1>2. Size = last + s + (Size % k)
  <2>1. Size = k * s + (Size % k)
    BY TransferAssumption
  <2>2. k * s = (k - 1) * s + s
    BY <1>1
  <2> QED
    BY <2>1, <2>2, <1>1
<1>3. CASE p < last
  <2> DEFINE i == p \div s
  <2>1. s > 0
    <3>1. s = 0 => last = 0
      BY <1>1
    <3> QED
      BY <1>1, <1>3, <3>1
  <2>2. i \in Nat /\ i * s <= p /\ p < (i + 1) * s
    BY <1>1, <2>1
  <2>3. i < k - 1
    <3>1. i >= k - 1 => i * s >= (k - 1) * s
      BY <1>1, <2>1, <2>2
    <3> QED
      BY <1>1, <1>3, <2>2, <3>1
  <2>4. Base(k, i) = i * s /\ End(k, i) = i * s + s
    BY <1>1, <2>2, <2>3 DEF Base, End, Share
  <2>5. (i + 1) * s = i * s + s
    BY <1>1, <2>2
  <2> HIDE DEF i, s
  <2>6. i \in 0 .. (k - 1)
    BY <1>1, <2>2, <2>3
  <2> QED
    BY <2>2, <2>4, <2>5, <2>6
<1>4. CASE p >= last
  <2>1. Base(k, k - 1) = last /\ End(k, k - 1) = last + s + (Size % k)
    BY <1>1 DEF Base, End, Share
  <2> QED
    BY <1>1, <1>2, <1>4, <2>1
<1> QED
  BY <1>1, <1>3, <1>4

-----------------------------------------------------------------------------
(***************************************************************************)
(* The steps of the connection threads.                                    *)
(***************************************************************************)

(* A step of the thread of connection i preserves IInv when it preserves   *)
(* what IInv says of i: it adds only blocks that are in place and leaves   *)
(* the other connections alone.                                            *)
LEMMA ThreadFrame ==
  ASSUME IInv, TypeOK', NEW i \in Conn,
         UNCHANGED <<target, logVars, mainVars, rangeVars>>,
         \A p \in Offset : part'[p] \in {part[p], p},
         \A j \in Conn \ {i} :
           /\ startpos'[j] = startpos[j] /\ received'[j] = received[j]
           /\ status'[j] = status[j] /\ attempts'[j] = attempts[j]
           /\ tpc'[j] = tpc[j] /\ pos'[j] = pos[j]
           /\ togo'[j] = togo[j] /\ chunk'[j] = chunk[j],
         tpc[i] # "none", tpc'[i] # "none",
         status'[i] # status[i] => tpc[i] \notin {"ready", "ended"},
         RangeLaid(i)', StreamAligned(i)', CompletedRests(i)',
         PartBacksCounts => HoldsBlocks(orig[i], received[i])'
  PROVE  IInv'
<1> USE DEF logVars, mainVars, rangeVars
<1>1. Active' = Active /\ i \in Active /\ main # "off"
  BY DEF IInv, ThreadsTogether, Active, TypeOK, Conn
<1>2. ThreadsTogether'
  <2>1. \A j \in Conn : tpc'[j] = "none" <=> tpc[j] = "none"
    OBVIOUS
  <2>2. 0 \in Conn
    BY TransferAssumption DEF Conn
  <2> QED
    BY <2>1, <2>2 DEF IInv, ThreadsTogether
<1>3. MemoryClear' /\ MainConsistent'
  <2>1. MemoryClear'
    BY <1>1 DEF MemoryClear
  <2>2. main = "finish" => AllCompleted'
    <3>1. SUFFICES ASSUME main = "finish", NEW j \in Active
                   PROVE  status'[j] = "COMPLETED"
      BY <1>1 DEF AllCompleted
    <3>2. status[j] = "COMPLETED" /\ tpc[j] \in {"ready", "ended"}
      BY <3>1 DEF IInv, MainConsistent, AllCompleted, CompletedRests
    <3> QED
      BY <3>2 DEF Active
  <2> QED
    BY <2>1, <2>2 DEF IInv, MainConsistent
<1>4. (\A j \in Active : RangeLaid(j))'
  BY <1>1 DEF IInv, RangeLaid, Active
<1>5. (\A j \in Active : StreamAligned(j))'
  BY <1>1 DEF IInv, StreamAligned, HoldsBlocks, Active
<1>6. (\A j \in Active : CompletedRests(j))'
  BY <1>1 DEF IInv, CompletedRests, Active
<1>7. LogLaid' /\ BufLaid'
  BY DEF IInv, LogLaid, BufLaid, EntryLaid, HoldsBlocks
<1>8. NothingMisplaced'
  BY DEF IInv, NothingMisplaced
<1>9. CountBehindFile' /\ LogBehindFile'
  BY <1>1 DEF IInv, CountBehindFile, LogBehindFile, PartBacksCounts, HoldsBlocks, Active
<1>10. (SizeKnown => TargetWhole)'
  BY DEF IInv, TargetWhole
<1> QED
  BY <1>2, <1>3, <1>4, <1>5, <1>6, <1>7, <1>8, <1>9, <1>10 DEF IInv

(* Facts about an active connection, collected. *)
LEMMA ActiveFacts ==
  ASSUME IInv, NEW i \in Conn, tpc[i] # "none"
  PROVE  /\ i \in Active /\ n \in 1 .. MaxConns
         /\ Base(n, i) \in Nat /\ End(n, i) \in Int
         /\ RangeLaid(i) /\ StreamAligned(i) /\ CompletedRests(i)
         /\ PartBacksCounts => HoldsBlocks(orig[i], received[i])
         /\ orig[i] \in Int /\ local[i] \in Int /\ endpos[i] \in Int
         /\ startpos[i] \in Int /\ received[i] \in Int
         /\ pos[i] \in Int /\ togo[i] \in Int /\ chunk[i] \in Int
         /\ attempts[i] \in 0 .. 1
<1>1. i \in Active /\ n \in 1 .. MaxConns
  BY TransferAssumption DEF IInv, ThreadsTogether, Active, Conn, TypeOK
<1> QED
  BY <1>1, BaseType DEF IInv, CountBehindFile, TypeOK

(* A new attempt: the start moves to the first uncounted block.            *)
LEMMA BeginAttemptStep ==
  ASSUME IInv, NEW i \in Conn, BeginAttempt(i)
  PROVE  IInv'
<1> USE DEF BeginAttempt
<1>1. TypeOK'
  BY DEF IInv, TypeOK, fileVars, logVars, mainVars, rangeVars, bounds
<1>2. tpc[i] = "ready" /\ UNCHANGED <<fileVars, logVars, mainVars, rangeVars>>
  OBVIOUS
<1>3. RangeLaid(i)'
  BY <1>2, ActiveFacts DEF RangeLaid, rangeVars, mainVars, IInv, TypeOK
<1>4. StreamAligned(i)' /\ CompletedRests(i)'
  BY <1>2, ActiveFacts
  DEF RangeLaid, StreamAligned, CompletedRests, rangeVars, mainVars, IInv, TypeOK
<1>5. PartBacksCounts => HoldsBlocks(orig[i], received[i])'
  <2>1. received'[i] \in {received[i], 0} /\ orig' = orig /\ part' = part
    BY DEF fileVars, rangeVars, IInv, TypeOK
  <2> QED
    BY <2>1, <1>2, ActiveFacts DEF HoldsBlocks, Offset
<1>6. \A p \in Offset : part'[p] \in {part[p], p}
  BY <1>2 DEF fileVars
<1> QED
  BY <1>1, <1>2, <1>3, <1>4, <1>5, <1>6, ThreadFrame DEF fileVars, IInv, TypeOK

(* The blocks a streaming connection writes go where they belong. *)
LEMMA BlocksWritten ==
  ASSUME IInv, NEW i \in Conn, tpc[i] = "stream", NEW k
  PROVE  \A p \in Offset :
           WithBlocks(i, k)[p] = IF pos[i] <= p /\ p < pos[i] + k THEN p ELSE part[p]
<1>1. local[i] + received[i] = pos[i] /\ pos[i] \in Int
  BY ActiveFacts DEF StreamAligned
<1>2. \A p \in Offset : p \in Int /\ pos[i] + (p - pos[i]) = p
  BY <1>1, TransferAssumption DEF Offset
<1> QED
  BY <1>1, <1>2 DEF WithBlocks

(* krecv and write_data_with_lock.                                         *)
LEMMA WriteStep ==
  ASSUME IInv, NEW i \in Conn, Write(i)
  PROVE  IInv'
<1> USE DEF Write
<1>1. PICK k \in Chunks(i) :
        /\ part' = WithBlocks(i, k)
        /\ pos' = [pos EXCEPT ![i] = @ + k]
        /\ togo' = [togo EXCEPT ![i] = @ - k]
        /\ chunk' = [chunk EXCEPT ![i] = k]
  OBVIOUS
<1>2. /\ tpc[i] = "stream" /\ tpc' = [tpc EXCEPT ![i] = "count"]
      /\ UNCHANGED <<partExists, target, logVars, mainVars, rangeVars, connVars, bounds>>
  OBVIOUS
<1>3. k \in Nat /\ k >= 1 /\ pos[i] = local[i] + received[i] /\ pos[i] + k <= Size
  BY <1>2, ActiveFacts DEF Chunks, StreamAligned
<1>4. \A p \in Offset :
        part'[p] = IF pos[i] <= p /\ p < pos[i] + k THEN p ELSE part[p]
  BY <1>1, <1>2, BlocksWritten
<1>5. TypeOK'
  <2>1. part' \in [Offset -> Offset \cup {Hole}]
    BY <1>1, <1>4 DEF WithBlocks, IInv, TypeOK
  <2> QED
    BY <2>1, <1>1, <1>2, <1>3
    DEF IInv, TypeOK, logVars, mainVars, rangeVars, connVars, bounds
<1>6. RangeLaid(i)' /\ CompletedRests(i)'
  BY <1>2, ActiveFacts
  DEF RangeLaid, CompletedRests, rangeVars, mainVars, connVars, IInv, TypeOK
<1>7. StreamAligned(i)'
  BY <1>1, <1>2, <1>3, <1>4, ActiveFacts
  DEF StreamAligned, HoldsBlocks, rangeVars, mainVars, connVars, IInv, TypeOK
<1>8. PartBacksCounts => HoldsBlocks(orig[i], received[i])'
  BY <1>2, <1>4, ActiveFacts DEF HoldsBlocks, rangeVars, connVars
<1> QED
  BY <1>1, <1>2, <1>4, <1>5, <1>6, <1>7, <1>8, ThreadFrame DEF connVars, IInv, TypeOK

(* An attempt fails while connecting or streaming; the counts stay.        *)
LEMMA AttemptFailsStep ==
  ASSUME IInv, NEW i \in Conn, AttemptFails(i), tpc[i] \in {"open", "stream"}
  PROVE  IInv'
<1>1. /\ status' = [status EXCEPT ![i] = "FAILED"]
      /\ attempts' = [attempts EXCEPT ![i] = 1]
      /\ tpc' = [tpc EXCEPT ![i] = "ready"]
      /\ pos' = [pos EXCEPT ![i] = 0] /\ togo' = [togo EXCEPT ![i] = 0]
      /\ UNCHANGED <<fileVars, logVars, mainVars, rangeVars, startpos, received,
                     chunk, runs>>
  BY DEF AttemptFails
<1>2. TypeOK'
  BY <1>1, TransferAssumption
  DEF AttemptFails, Fault, IInv, TypeOK, fileVars, logVars, mainVars, rangeVars
<1>3. RangeLaid(i)' /\ StreamAligned(i)' /\ CompletedRests(i)'
  BY <1>1, ActiveFacts
  DEF RangeLaid, StreamAligned, CompletedRests, rangeVars, mainVars, IInv, TypeOK
<1>4. PartBacksCounts => HoldsBlocks(orig[i], received[i])'
  BY <1>1, ActiveFacts DEF HoldsBlocks, fileVars, rangeVars
<1> QED
  BY <1>1, <1>2, <1>3, <1>4, ThreadFrame DEF fileVars, IInv, TypeOK

(* The server starts to stream, at startpos unless it ignores Range.       *)
LEMMA OpenStep ==
  ASSUME IInv, ~RangeIgnored, NEW i \in Conn, Open(i)
  PROVE  IInv'
<1>1. PICK start \in StreamStart(i) : pos' = [pos EXCEPT ![i] = start]
  BY DEF Open
<1>2. /\ tpc[i] = "open" /\ tpc' = [tpc EXCEPT ![i] = "stream"]
      /\ togo' = [togo EXCEPT ![i] = endpos[i] - startpos[i]]
      /\ status' = [status EXCEPT ![i] = "DOWNLOADING"]
      /\ UNCHANGED <<fileVars, logVars, mainVars, rangeVars, startpos, received,
                     attempts, chunk, bounds>>
  BY DEF Open
<1>3. start = startpos[i] /\ startpos[i] = orig[i] + received[i]
  BY <1>2, ActiveFacts DEF StreamStart, StreamAligned, RangeLaid
<1>4. TypeOK'
  BY <1>1, <1>2, <1>3, ActiveFacts
  DEF IInv, TypeOK, fileVars, logVars, mainVars, rangeVars, bounds
<1>5. RangeLaid(i)' /\ CompletedRests(i)'
  BY <1>2, ActiveFacts DEF RangeLaid, CompletedRests, rangeVars, mainVars, IInv, TypeOK
<1>6. StreamAligned(i)'
  <2>1. /\ tpc'[i] = "stream" /\ pos'[i] = startpos[i] /\ togo'[i] = endpos[i] - startpos[i]
        /\ chunk[i] = 0 /\ local[i] = orig[i]
    BY <1>1, <1>2, <1>3, ActiveFacts DEF RangeLaid, StreamAligned, IInv, TypeOK
  <2> QED
    BY <2>1, <1>2, <1>3, ActiveFacts DEF StreamAligned, rangeVars
<1>7. PartBacksCounts => HoldsBlocks(orig[i], received[i])'
  BY <1>2, ActiveFacts DEF HoldsBlocks, fileVars, rangeVars
<1> QED
  BY <1>1, <1>2, <1>4, <1>5, <1>6, <1>7, ThreadFrame DEF fileVars, IInv, TypeOK

(* The chunk just written is added to remote_bytes_received.               *)
LEMMA CountStep ==
  ASSUME IInv, NEW i \in Conn, Count(i)
  PROVE  IInv'
<1>1. /\ tpc[i] = "count" /\ tpc' = [tpc EXCEPT ![i] = "stream"]
      /\ received' = [received EXCEPT ![i] = @ + chunk[i]]
      /\ chunk' = [chunk EXCEPT ![i] = 0]
      /\ UNCHANGED <<fileVars, logVars, mainVars, rangeVars, startpos, status,
                     attempts, pos, togo, bounds>>
  BY DEF Count
<1>2. TypeOK'
  BY <1>1, ActiveFacts DEF IInv, TypeOK, fileVars, logVars, mainVars, rangeVars, bounds
<1>3. RangeLaid(i)' /\ CompletedRests(i)'
  BY <1>1, ActiveFacts
  DEF RangeLaid, StreamAligned, CompletedRests, rangeVars, mainVars, IInv, TypeOK
<1>4. StreamAligned(i)'
  BY <1>1, ActiveFacts DEF StreamAligned, rangeVars, mainVars, IInv, TypeOK
<1>5. PartBacksCounts => HoldsBlocks(orig[i], received[i])'
  <2>1. /\ orig[i] = local[i] /\ HoldsBlocks(local[i] + received[i], chunk[i])
        /\ received'[i] = received[i] + chunk[i]
    BY <1>1, ActiveFacts DEF RangeLaid, StreamAligned, IInv, TypeOK
  <2> QED
    BY <1>1, <2>1, ActiveFacts, TransferAssumption
    DEF HoldsBlocks, Offset, fileVars, rangeVars
<1> QED
  BY <1>1, <1>2, <1>3, <1>4, <1>5, ThreadFrame DEF fileVars, IInv, TypeOK

(* A short write leaves blocks that are in place and not counted.          *)
LEMMA WriteFailsStep ==
  ASSUME IInv, NEW i \in Conn, WriteFails(i)
  PROVE  IInv'
<1>1. PICK k \in Chunks(i) : part' = WithBlocks(i, k - 1)
  BY DEF WriteFails
<1>2. /\ tpc[i] = "stream" /\ tpc' = [tpc EXCEPT ![i] = "ended"]
      /\ status' = [status EXCEPT ![i] = "LOCALFATAL"]
      /\ UNCHANGED <<partExists, target, logVars, mainVars, rangeVars, startpos,
                     received, attempts, pos, togo, chunk, runs>>
  BY DEF WriteFails
<1>3. k \in Nat /\ k >= 1 /\ pos[i] = local[i] + received[i]
  BY <1>2, ActiveFacts DEF Chunks, StreamAligned
<1>4. \A p \in Offset :
        part'[p] = IF pos[i] <= p /\ p < pos[i] + (k - 1) THEN p ELSE part[p]
  BY <1>1, <1>2, BlocksWritten
<1>5. TypeOK'
  <2>1. part' \in [Offset -> Offset \cup {Hole}]
    BY <1>1, <1>4 DEF WithBlocks, IInv, TypeOK
  <2>2. faults' \in 0 .. MaxFaults
    BY TransferAssumption DEF WriteFails, Fault, IInv, TypeOK
  <2> QED
    BY <2>1, <2>2, <1>2 DEF IInv, TypeOK, logVars, mainVars, rangeVars
<1>6. RangeLaid(i)' /\ StreamAligned(i)' /\ CompletedRests(i)'
  BY <1>2, ActiveFacts
  DEF RangeLaid, StreamAligned, CompletedRests, rangeVars, mainVars, IInv, TypeOK
<1>7. PartBacksCounts => HoldsBlocks(orig[i], received[i])'
  BY <1>2, <1>4, ActiveFacts DEF HoldsBlocks, rangeVars
<1> QED
  BY <1>2, <1>4, <1>5, <1>6, <1>7, ThreadFrame DEF IInv, TypeOK

(* The range is complete when nothing is left to receive.                  *)
LEMMA CompleteStep ==
  ASSUME IInv, NEW i \in Conn, Complete(i)
  PROVE  IInv'
<1>1. /\ tpc[i] = "stream" /\ tpc' = [tpc EXCEPT ![i] = "ended"]
      /\ SizeKnown => togo[i] <= 0
      /\ status' = [status EXCEPT ![i] = "COMPLETED"]
      /\ UNCHANGED <<fileVars, logVars, mainVars, rangeVars, startpos, received,
                     attempts, pos, togo, chunk, runs>>
  BY DEF Complete
<1>2. TypeOK'
  <2>1. faults' \in 0 .. MaxFaults
    BY TransferAssumption DEF Complete, Fault, IInv, TypeOK
  <2> QED
    BY <2>1, <1>1 DEF IInv, TypeOK, fileVars, logVars, mainVars, rangeVars
<1>3. RangeLaid(i)' /\ StreamAligned(i)'
  BY <1>1, ActiveFacts DEF RangeLaid, StreamAligned, rangeVars, mainVars, IInv, TypeOK
<1>4. CompletedRests(i)'
  <2>1. tpc'[i] = "ended" /\ local[i] = orig[i] /\ chunk[i] = 0
    BY <1>1, ActiveFacts DEF RangeLaid, StreamAligned, IInv, TypeOK
  <2>2. SizeKnown => orig[i] + received[i] >= endpos[i]
    BY <1>1, <2>1, ActiveFacts DEF StreamAligned
  <2> QED
    BY <2>1, <2>2, <1>1 DEF CompletedRests, rangeVars
<1>5. PartBacksCounts => HoldsBlocks(orig[i], received[i])'
  BY <1>1, ActiveFacts DEF HoldsBlocks, fileVars, rangeVars
<1> QED
  BY <1>1, <1>2, <1>3, <1>4, <1>5, ThreadFrame DEF fileVars, IInv, TypeOK

(* Every step of a connection thread.                                      *)
LEMMA ThreadStep ==
  ASSUME IInv, ~RangeIgnored, NEW i \in Conn, Thread(i)
  PROVE  IInv'
<1>1. CASE ConnectFails(i)
  BY <1>1, AttemptFailsStep DEF ConnectFails
<1>2. CASE StreamFails(i)
  BY <1>2, AttemptFailsStep DEF StreamFails
<1> QED
  BY <1>1, <1>2, BeginAttemptStep, OpenStep, WriteStep, CountStep, WriteFailsStep,
     CompleteStep DEF Thread

-----------------------------------------------------------------------------
(***************************************************************************)
(* The initial state and the steps of the main thread.                     *)
(***************************************************************************)

(* A program that never ran.                                               *)
LEMMA InitIInv == Init => IInv
<1> SUFFICES ASSUME Init PROVE IInv
  OBVIOUS
<1> USE DEF Init
<1>1. NoEntry \in Entry
  BY DEF NoEntry, Entry
<1>2. TypeOK
  <2>1. NoLog \in [Conn -> Entry] /\ Zero \in [Conn -> Int] /\ Zero \in [Conn -> 0 .. 1]
    BY <1>1 DEF Zero, NoLog
  <2>2. /\ part \in [Offset -> Offset \cup {Hole}]
        /\ status \in [Conn -> {"IDLE", "DOWNLOADING", "COMPLETED", "FAILED", "LOCALFATAL"}]
        /\ tpc \in [Conn -> {"none", "ready", "open", "stream", "count", "ended"}]
    OBVIOUS
  <2>3. 0 \in 0 .. MaxConns /\ 0 \in 0 .. MaxRuns /\ 0 \in 0 .. MaxFaults
    BY TransferAssumption
  <2> QED
    BY <2>1, <2>2, <2>3 DEF TypeOK
<1>3. Active = {}
  BY DEF Active, Conn
<1> QED
  BY <1>2, <1>3, TransferAssumption
  DEF IInv, ThreadsTogether, MemoryClear, MainConsistent, LogLaid, BufLaid,
      NothingMisplaced, CountBehindFile, LogBehindFile, TargetWhole, Zero, Conn

(* setup_connections lays out fresh ranges with nothing counted.           *)
LEMMA SetupStep ==
  ASSUME IInv, NEW resuming \in BOOLEAN, NEW resumable \in BOOLEAN,
         NEW req \in Requested(resuming), Setup(resuming, resumable, req)
  PROVE  IInv'
<1> DEFINE k == IF SizeKnown /\ resumable THEN req ELSE 1
<1>1. /\ main = "off" /\ n' = k /\ rs' = resumable
      /\ main' = (IF resuming THEN "resume" ELSE "log")
      /\ runs < MaxRuns /\ runs' = runs + 1 /\ partExists' = TRUE
      /\ orig'     = [j \in Conn |-> IF j < k THEN Base(k, j) ELSE 0]
      /\ startpos' = [j \in Conn |-> IF j < k THEN Base(k, j) ELSE 0]
      /\ local'    = [j \in Conn |-> IF j < k THEN Base(k, j) ELSE 0]
      /\ endpos'   = [j \in Conn |-> IF j < k THEN End(k, j) ELSE 0]
      /\ UNCHANGED <<part, target, logVars, buf, bufLen, received, status, attempts,
                     threadVars, faults>>
  BY DEF Setup, OpenPart
<1>2. k \in 1 .. MaxConns
  BY TransferAssumption DEF Requested, IInv, LogLaid, TypeOK
<1> HIDE DEF k
<1>3. /\ n = 0 /\ bufLen = 0
      /\ \A j \in Conn : /\ tpc[j] = "none" /\ received[j] = 0 /\ attempts[j] = 0
                         /\ chunk[j] = 0 /\ status[j] = "IDLE"
  BY <1>1 DEF IInv, MainConsistent, ThreadsTogether, MemoryClear, TypeOK
<1>4. TypeOK'
  BY <1>1, <1>2, BaseType, TransferAssumption DEF IInv, TypeOK, logVars, threadVars
<1>5. ThreadsTogether' /\ MemoryClear'
  BY <1>1, <1>3 DEF ThreadsTogether, MemoryClear, threadVars
<1>6. MainConsistent'
  BY <1>1, <1>2, <1>3 DEF MainConsistent, Requested, logVars, k
<1>7. \A j \in Active' : j \in Conn /\ j < k
  BY <1>1 DEF Active
<1>8. (\A j \in Active : RangeLaid(j))'
  <2>1. ~resumable => \A j \in Conn : j < k => j = 0
    BY DEF k, Conn
  <2>2. ~resumable => k = 1 /\ Base(k, 0) = 0
    BY <1>2, BaseFirst DEF k
  <2> QED
    BY <1>1, <1>2, <1>3, <1>7, <2>1, <2>2 DEF RangeLaid
<1>9. (\A j \in Active : StreamAligned(j) /\ CompletedRests(j))'
  BY <1>1, <1>3, <1>7 DEF StreamAligned, CompletedRests, threadVars
<1>10. LogLaid' /\ BufLaid' /\ NothingMisplaced' /\ (SizeKnown => TargetWhole)'
  BY <1>1 DEF IInv, LogLaid, BufLaid, NothingMisplaced, TargetWhole, logVars
<1>11. CountBehindFile'
  BY <1>1, <1>2, <1>3, <1>7, BaseType DEF CountBehindFile, HoldsBlocks, Offset
<1>12. LogBehindFile'
  BY <1>1 DEF IInv, LogBehindFile, PartBacksCounts, HoldsBlocks, logVars
<1> QED
  BY <1>4, <1>5, <1>6, <1>8, <1>9, <1>10, <1>11, <1>12 DEF IInv

(* load_resume_info: the entries of a complete or a cut-off log fit the    *)
(* ranges that setup_connections laid out for the log's number of          *)
(* connections, and what they count is in the file.                        *)
LEMMA StartResumedStep ==
  ASSUME IInv, StartResumed
  PROVE  IInv'
<1>1. /\ main = "resume" /\ main' = "poll"
      /\ tpc' = [i \in Conn |-> IF i < n THEN "ready" ELSE "none"]
      /\ UNCHANGED <<fileVars, logVars, n, rs, buf, bufLen, attempts, pos, togo,
                     chunk, bounds>>
  BY DEF StartResumed, ThreadsCreated
<1>2. Active' = Active /\ n \in 1 .. MaxConns /\ \A i \in Active : i \in Conn /\ i < n
  BY <1>1 DEF Active, IInv, MainConsistent, TypeOK
<1>3. \A i \in Conn : tpc[i] = "none"
  BY <1>1 DEF IInv, ThreadsTogether
<1>4. \A i \in Active :
        /\ orig[i] = Base(n, i) /\ local[i] = Base(n, i) /\ endpos[i] = End(n, i)
        /\ startpos[i] = orig[i] /\ received[i] = 0 /\ attempts[i] = 0 /\ chunk[i] = 0
        /\ status[i] # "COMPLETED" /\ (~rs => startpos[i] = 0)
  BY <1>2, <1>3 DEF IInv, RangeLaid, StreamAligned, CompletedRests
<1>5. ThreadsTogether' /\ MemoryClear' /\ MainConsistent'
  <2>1. 0 \in Conn /\ tpc'[0] = "ready"
    BY <1>1, <1>2, TransferAssumption DEF Conn
  <2>2. ThreadsTogether'
    BY <1>1, <1>2, <2>1 DEF ThreadsTogether, Conn
  <2> QED
    BY <1>1, <2>2 DEF IInv, MemoryClear, MainConsistent
<1>6. LogLaid' /\ BufLaid' /\ NothingMisplaced' /\ (SizeKnown => TargetWhole)'
  BY <1>1 DEF IInv, LogLaid, BufLaid, NothingMisplaced, TargetWhole, logVars, fileVars
<1>7. LogBehindFile'
  BY <1>1 DEF IInv, LogBehindFile, PartBacksCounts, HoldsBlocks, logVars, fileVars
<1>8. CASE ~rs
  <2>1. UNCHANGED <<rangeVars, startpos, received, status>>
    BY <1>8 DEF StartResumed
  <2>2. TypeOK'
    BY <1>1, <2>1 DEF IInv, TypeOK, fileVars, logVars, rangeVars, bounds
  <2>3. (\A i \in Active : RangeLaid(i) /\ StreamAligned(i) /\ CompletedRests(i))'
    BY <1>1, <1>2, <1>4, <2>1, BaseType
    DEF RangeLaid, StreamAligned, CompletedRests, rangeVars
  <2>4. CountBehindFile'
    BY <1>1, <1>2, <1>4, <2>1, BaseType
    DEF CountBehindFile, HoldsBlocks, rangeVars, Offset
  <2> QED
    BY <1>5, <1>6, <1>7, <2>2, <2>3, <2>4 DEF IInv
<1>9. CASE rs
  <2> USE DEF Logged
  <2> DEFINE has(i) == Logged(i)
             got(i) == IF has(i) THEN logRec[i].received ELSE received[i]
             end(i) == IF has(i) THEN logRec[i].endpos ELSE endpos[i]
  <2>1. /\ local' = [i \in Conn |-> IF has(i) THEN logRec[i].local ELSE local[i]]
        /\ orig' = [i \in Conn |-> IF has(i) THEN logRec[i].orig ELSE orig[i]]
        /\ endpos' = [i \in Conn |-> end(i)]
        /\ received' = [i \in Conn |-> got(i)]
        /\ status' = [i \in Conn |->
             IF i < n /\ end(i) - startpos[i] = got(i) THEN "COMPLETED" ELSE status[i]]
        /\ startpos' = [i \in Conn |-> IF i < n THEN startpos[i] + got(i) ELSE startpos[i]]
    BY <1>9 DEF StartResumed, LoadedFromLog, CountFillsRange
  <2>2. TypeOK'
    BY <1>1, <2>1 DEF IInv, TypeOK, Entry, fileVars, logVars, bounds
  <2>3. \A i \in Active : has(i) =>
          /\ logRec[i].orig = Base(n, i) /\ logRec[i].local = Base(n, i)
          /\ logRec[i].endpos = End(n, i)
          /\ logRec[i].received \in Int /\ logRec[i].received >= 0
          /\ HoldsBlocks(logRec[i].orig, logRec[i].received)
    <3>1. SUFFICES ASSUME NEW i \in Active, has(i)
                   PROVE  /\ EntryLaid(logRec[i], n, i) /\ logRec[i] \in Entry
                          /\ HoldsBlocks(logRec[i].orig, logRec[i].received)
      BY DEF EntryLaid, Entry
    <3>2. logN \in 1 .. MaxConns /\ EntryLaid(logRec[i], logN, i) /\ i \in Conn
      BY <3>1, <1>2 DEF IInv, LogLaid, TypeOK
    <3>3. Base(logN, i) = Base(n, i) /\ End(logN, i) = End(n, i)
      <4>1. CASE SizeKnown
        BY <4>1, <3>1, <1>1, <1>9 DEF IInv, MainConsistent
      <4>2. CASE ~SizeKnown
        BY <4>2, <3>2, <1>2, RangeUnknown
      <4> QED
        BY <4>1, <4>2
    <3> QED
      BY <1>1, <1>2, <3>1, <3>2, <3>3
      DEF IInv, TypeOK, LogBehindFile, PartBacksCounts, EntryLaid
  <2>4. \A i \in Active :
          /\ orig'[i] = Base(n, i) /\ local'[i] = Base(n, i) /\ endpos'[i] = End(n, i)
          /\ received'[i] \in Int /\ received'[i] >= 0
          /\ startpos'[i] = orig'[i] + received'[i]
          /\ status'[i] = "COMPLETED" => endpos'[i] = startpos'[i]
          /\ HoldsBlocks(orig'[i], received'[i])
    <3>1. SUFFICES ASSUME NEW i \in Active
                   PROVE  /\ orig'[i] = Base(n, i) /\ local'[i] = Base(n, i)
                          /\ endpos'[i] = End(n, i)
                          /\ received'[i] \in Int /\ received'[i] >= 0
                          /\ startpos'[i] = orig'[i] + received'[i]
                          /\ status'[i] = "COMPLETED" => endpos'[i] = startpos'[i]
                          /\ HoldsBlocks(orig'[i], received'[i])
      OBVIOUS
    <3>2. i \in Conn /\ i < n /\ Base(n, i) \in Nat /\ End(n, i) \in Int
      BY <1>2, BaseType
    <3>3. CASE has(i)
      BY <2>1, <2>3, <1>4, <3>2, <3>3
    <3>4. CASE ~has(i)
      BY <2>1, <1>4, <3>2, <3>4 DEF HoldsBlocks, Offset
    <3> QED
      BY <3>3, <3>4
  <2>5. (\A i \in Active : RangeLaid(i) /\ StreamAligned(i) /\ CompletedRests(i))'
    BY <1>1, <1>2, <1>4, <1>9, <2>4, BaseType DEF RangeLaid, StreamAligned, CompletedRests
  <2>6. CountBehindFile'
    BY <1>1, <1>2, <2>4 DEF CountBehindFile, HoldsBlocks, fileVars
  <2> QED
    BY <1>5, <1>6, <1>7, <2>2, <2>5, <2>6 DEF IInv
<1> QED
  BY <1>8, <1>9

(* The steps of the main thread that leave the connections, their threads  *)
(* and the partial file alone.                                             *)
LEMMA MainFrame ==
  ASSUME IInv, TypeOK', main # "off", main' # "off", main' \notin {"resume", "log"},
         UNCHANGED <<part, target, n, rs, rangeVars, connVars, threadVars>>,
         PartBacksCounts' => PartBacksCounts,
         MainConsistent', LogLaid', BufLaid', LogBehindFile'
  PROVE  IInv'
<1> USE DEF rangeVars, connVars, threadVars
<1>1. Active' = Active
  BY DEF Active
<1>2. ThreadsTogether' /\ MemoryClear'
  BY DEF IInv, ThreadsTogether, MemoryClear
<1>3. (\A i \in Active : RangeLaid(i) /\ StreamAligned(i) /\ CompletedRests(i))'
  BY <1>1 DEF IInv, RangeLaid, StreamAligned, CompletedRests, HoldsBlocks
<1>4. NothingMisplaced' /\ CountBehindFile' /\ (SizeKnown => TargetWhole)'
  BY <1>1 DEF IInv, NothingMisplaced, CountBehindFile, HoldsBlocks, TargetWhole
<1> QED
  BY <1>2, <1>3, <1>4 DEF IInv

(* The log is truncated.                                                   *)
LEMMA LogOpenStep ==
  ASSUME IInv, LogOpen
  PROVE  IInv'
<1> USE DEF LogOpen
<1>1. NoLog \in [Conn -> Entry]
  BY DEF NoLog, NoEntry, Entry
<1>2. TypeOK'
  BY <1>1, TransferAssumption
  DEF IInv, TypeOK, fileVars, rangeVars, connVars, threadVars, bounds
<1>3. MainConsistent' /\ BufLaid' /\ LogLaid' /\ LogBehindFile'
  BY TransferAssumption
  DEF IInv, TypeOK, MainConsistent, BufLaid, LogLaid, LogBehindFile, Conn
<1> QED
  BY <1>2, <1>3, MainFrame DEF fileVars, PartBacksCounts

(* One connection is copied; the log on disk may be any prefix.            *)
LEMMA LogCopyStep ==
  ASSUME IInv, LogCopy
  PROVE  IInv'
<1> DEFINE e == [local |-> local[bufLen], orig |-> orig[bufLen],
                 endpos |-> endpos[bufLen], received |-> received[bufLen]]
<1>1. /\ main = "logging" /\ bufLen < n /\ bufLen' = bufLen + 1
      /\ buf' = [buf EXCEPT ![bufLen] = e]
      /\ OnDisk(bufLen', buf') \/ UNCHANGED logVars
      /\ UNCHANGED <<fileVars, main, n, rs, rangeVars, connVars, threadVars, bounds>>
  BY DEF LogCopy
<1>2. /\ bufLen \in Active /\ bufLen \in Conn /\ n \in 1 .. MaxConns
      /\ bufLen' \in 0 .. MaxConns /\ bufLen' <= n
  BY <1>1, TransferAssumption DEF IInv, TypeOK, Active, Conn
<1>3. /\ e \in Entry /\ EntryLaid(e, n, bufLen) /\ HoldsBlocks(e.orig, e.received)
  BY <1>1, <1>2
  DEF IInv, TypeOK, Entry, EntryLaid, RangeLaid, CountBehindFile, PartBacksCounts
<1> HIDE DEF e
<1>4. /\ buf' \in [Conn -> Entry]
      /\ \A i \in Conn : i < bufLen' =>
           EntryLaid(buf'[i], n, i) /\ HoldsBlocks(buf'[i].orig, buf'[i].received)
  <2>1. buf' \in [Conn -> Entry] /\ buf'[bufLen] = e
    BY <1>1, <1>2, <1>3 DEF IInv, TypeOK
  <2>2. \A i \in Conn : i < bufLen' => i = bufLen \/ (i < bufLen /\ buf'[i] = buf[i])
    BY <1>1, <1>2 DEF IInv, TypeOK, Conn
  <2> QED
    BY <1>1, <1>3, <2>1, <2>2 DEF IInv, BufLaid
<1>5. TypeOK'
  BY <1>1, <1>2, <1>4, TransferAssumption
  DEF OnDisk, IInv, TypeOK, fileVars, logVars, rangeVars, connVars, threadVars, bounds
<1>6. MainConsistent' /\ BufLaid'
  BY <1>1, <1>2, <1>4
  DEF IInv, MainConsistent, BufLaid, EntryLaid, HoldsBlocks, fileVars
<1>7. LogLaid' /\ LogBehindFile'
  <2>1. CASE OnDisk(bufLen', buf')
    BY <2>1, <1>1, <1>2, <1>4
    DEF OnDisk, LogLaid, LogBehindFile, EntryLaid, HoldsBlocks, fileVars
  <2>2. CASE UNCHANGED logVars
    BY <2>2, <1>1
    DEF IInv, LogLaid, LogBehindFile, PartBacksCounts, HoldsBlocks, fileVars, logVars
  <2> QED
    BY <1>1, <2>1, <2>2
<1> QED
  BY <1>1, <1>5, <1>6, <1>7, MainFrame DEF fileVars, PartBacksCounts

(* Whatever became of the log, the program goes on; a fresh download       *)
(* creates its threads.                                                    *)
LEMMA AfterLogFrame ==
  ASSUME IInv, TypeOK', main # "off", PartBacksCounts, AfterLog,
         UNCHANGED <<fileVars, n, rs, rangeVars, connVars, pos, togo, chunk>>,
         bufLen' <= n, LogLaid', LogBehindFile'
  PROVE  IInv'
<1> USE DEF fileVars, rangeVars, connVars
<1>1. n \in 1 .. MaxConns /\ 0 \in Conn /\ Active' = Active
  BY TransferAssumption DEF IInv, MainConsistent, TypeOK, Conn, Active
<1>2. main' \in {"poll", "check"}
  BY DEF AfterLog
<1>3. MainConsistent' /\ MemoryClear' /\ BufLaid'
  BY <1>1, <1>2 DEF IInv, MainConsistent, MemoryClear, BufLaid
<1>4. NothingMisplaced' /\ CountBehindFile' /\ (SizeKnown => TargetWhole)'
  BY <1>1 DEF IInv, NothingMisplaced, CountBehindFile, HoldsBlocks, TargetWhole
<1>5. (\A i \in Active : RangeLaid(i))'
  BY <1>1 DEF IInv, RangeLaid
<1>6. CASE tpc[0] = "none"
  <2>1. tpc' = [i \in Conn |-> IF i < n THEN "ready" ELSE "none"]
    BY <1>6 DEF AfterLog, ThreadsCreated
  <2>2. \A i \in Conn : tpc[i] = "none"
    BY <1>6 DEF IInv, ThreadsTogether
  <2>3. ThreadsTogether'
    BY <1>1, <1>2, <2>1 DEF ThreadsTogether, Conn
  <2>4. (\A i \in Active : StreamAligned(i) /\ CompletedRests(i))'
    <3>1. SUFFICES ASSUME NEW i \in Active
                   PROVE  StreamAligned(i)' /\ CompletedRests(i)'
      BY <1>1
    <3>2. /\ tpc'[i] = "ready" /\ startpos[i] = orig[i] /\ received[i] = 0
          /\ attempts[i] = 0 /\ chunk[i] = 0 /\ status[i] # "COMPLETED" /\ orig[i] \in Int
      BY <2>1, <2>2 DEF IInv, StreamAligned, CompletedRests, Active, TypeOK
    <3> QED
      BY <3>2 DEF StreamAligned, CompletedRests
  <2> QED
    BY <1>3, <1>4, <1>5, <2>3, <2>4 DEF IInv
<1>7. CASE tpc[0] # "none"
  <2>1. UNCHANGED tpc
    BY <1>7 DEF AfterLog
  <2>2. ThreadsTogether'
    BY <1>2, <2>1 DEF IInv, ThreadsTogether
  <2>3. (\A i \in Active : StreamAligned(i) /\ CompletedRests(i))'
    BY <1>1, <2>1 DEF IInv, StreamAligned, CompletedRests, HoldsBlocks
  <2> QED
    BY <1>3, <1>4, <1>5, <2>2, <2>3 DEF IInv
<1> QED
  BY <1>6, <1>7

(* fopen of the log fails.                                                 *)
LEMMA LogOpenFailsStep ==
  ASSUME IInv, LogOpenFails
  PROVE  IInv'
<1>1. /\ main \in {"log", "poll"} /\ AfterLog
      /\ UNCHANGED <<fileVars, logVars, n, rs, buf, bufLen, rangeVars, connVars,
                     pos, togo, chunk, runs>>
  BY DEF LogOpenFails
<1>2. TypeOK'
  <2>1. faults' \in 0 .. MaxFaults
    BY TransferAssumption DEF LogOpenFails, Fault, IInv, TypeOK
  <2>2. /\ tpc' \in [Conn -> {"none", "ready", "open", "stream", "count", "ended"}]
        /\ main' \in {"poll", "check"}
    BY <1>1 DEF AfterLog, ThreadsCreated, IInv, TypeOK
  <2> QED
    BY <1>1, <2>1, <2>2 DEF IInv, TypeOK, fileVars, logVars, rangeVars, connVars
<1>3. LogLaid' /\ LogBehindFile'
  BY <1>1
  DEF IInv, LogLaid, LogBehindFile, PartBacksCounts, HoldsBlocks, fileVars, logVars
<1> QED
  BY <1>1, <1>2, <1>3, AfterLogFrame DEF IInv, MainConsistent, PartBacksCounts

(* The log is complete.                                                    *)
LEMMA LogCloseStep ==
  ASSUME IInv, LogClose
  PROVE  IInv'
<1>1. /\ main = "logging" /\ bufLen = n /\ bufLen' = 0 /\ buf' = NoLog
      /\ OnDisk(bufLen, buf) \/ UNCHANGED logVars
      /\ UNCHANGED <<fileVars, n, rs, rangeVars, connVars, pos, togo, chunk, runs>>
      /\ AfterLog
  BY DEF LogClose
<1>2. n \in 1 .. MaxConns
  BY <1>1 DEF IInv, MainConsistent, TypeOK
<1>3. TypeOK'
  <2>1. NoLog \in [Conn -> Entry] /\ 0 \in 0 .. MaxConns
    BY TransferAssumption DEF NoLog, NoEntry, Entry
  <2>2. faults' \in 0 .. MaxFaults
    BY TransferAssumption DEF LogClose, Fault, IInv, TypeOK
  <2>3. /\ tpc' \in [Conn -> {"none", "ready", "open", "stream", "count", "ended"}]
        /\ main' \in {"poll", "check"}
    BY <1>1 DEF AfterLog, ThreadsCreated, IInv, TypeOK
  <2> QED
    BY <1>1, <2>1, <2>2, <2>3
    DEF OnDisk, IInv, TypeOK, fileVars, logVars, rangeVars, connVars
<1>4. LogLaid' /\ LogBehindFile'
  <2>1. CASE OnDisk(bufLen, buf)
    BY <2>1, <1>1, <1>2
    DEF OnDisk, IInv, BufLaid, LogLaid, LogBehindFile, EntryLaid, HoldsBlocks, fileVars
  <2>2. CASE UNCHANGED logVars
    BY <2>2, <1>1
    DEF IInv, LogLaid, LogBehindFile, PartBacksCounts, HoldsBlocks, fileVars, logVars
  <2> QED
    BY <1>1, <2>1, <2>2
<1> QED
  BY <1>1, <1>2, <1>3, <1>4, AfterLogFrame DEF PartBacksCounts

(* The end of a poll.                                                      *)
LEMMA CheckStep ==
  ASSUME IInv, Check
  PROVE  IInv'
<1> USE DEF Check
<1>1. TypeOK'
  BY DEF IInv, TypeOK, fileVars, logVars, rangeVars, connVars, threadVars, bounds
<1>2. AllCompleted' = AllCompleted
  BY DEF AllCompleted, Active, connVars
<1>3. MainConsistent' /\ LogLaid' /\ BufLaid' /\ LogBehindFile'
  BY <1>2
  DEF IInv, MainConsistent, LogLaid, BufLaid, LogBehindFile, PartBacksCounts, HoldsBlocks,
      fileVars, logVars
<1> QED
  BY <1>1, <1>3, MainFrame DEF fileVars, PartBacksCounts

(* The process ends: all that survives is on disk. *)
LEMMA EndStep ==
  ASSUME IInv, MemoryLost, UNCHANGED <<target, logVars, bounds>>,
         part' \in [Offset -> Offset \cup {Hole}], partExists' \in BOOLEAN,
         NothingMisplaced', LogBehindFile'
  PROVE  IInv'
<1> USE DEF MemoryLost
<1>1. NoLog \in [Conn -> Entry]
  BY DEF NoLog, NoEntry, Entry
<1>2. TypeOK'
  <2>1. NoLog \in [Conn -> Entry] /\ Zero \in [Conn -> Int] /\ Zero \in [Conn -> 0 .. 1]
    BY <1>1 DEF Zero, NoLog
  <2>2. /\ status' \in [Conn -> {"IDLE", "DOWNLOADING", "COMPLETED", "FAILED", "LOCALFATAL"}]
        /\ tpc' \in [Conn -> {"none", "ready", "open", "stream", "count", "ended"}]
        /\ 0 \in 0 .. MaxConns
    BY TransferAssumption
  <2> QED
    BY <2>1, <2>2 DEF IInv, TypeOK, logVars, bounds
<1>3. Active' = {}
  BY DEF Active, Conn
<1>4. ThreadsTogether' /\ MemoryClear' /\ MainConsistent' /\ BufLaid'
  BY TransferAssumption
  DEF ThreadsTogether, MemoryClear, MainConsistent, BufLaid, Zero, Conn
<1>5. LogLaid' /\ CountBehindFile' /\ (SizeKnown => TargetWhole)'
  BY <1>3 DEF IInv, LogLaid, CountBehindFile, TargetWhole, logVars
<1> QED
  BY <1>2, <1>3, <1>4, <1>5 DEF IInv

(* Cancelled or killed, the process leaves a log behind the file.          *)
LEMMA StopOrKillStep ==
  ASSUME IInv, ~KillInFinish, StopDownloads \/ Kill
  PROVE  IInv'
<1>1. /\ main # "renamed" /\ MemoryLost /\ UNCHANGED <<fileVars, logVars, bounds>>
  BY DEF StopDownloads, Kill
<1>2. NothingMisplaced'
  BY <1>1 DEF IInv, NothingMisplaced, fileVars
<1>3. LogBehindFile'
  BY <1>1 DEF IInv, MainConsistent, LogBehindFile, PartBacksCounts, HoldsBlocks,
              fileVars, logVars
<1> QED
  BY <1>1, <1>2, <1>3, EndStep DEF IInv, TypeOK, fileVars

(* The partial file goes when its log is gone.                             *)
LEMMA DeletePartStep ==
  ASSUME IInv, DeletePart
  PROVE  IInv'
<1>1. /\ main = "done" /\ MemoryLost /\ UNCHANGED <<target, logVars, bounds>>
      /\ \/ partExists' = FALSE /\ part' = [p \in Offset |-> Hole]
         \/ UNCHANGED <<part, partExists>>
  BY DEF DeletePart
<1>2. LogBehindFile'
  BY <1>1 DEF IInv, MainConsistent, LogBehindFile, logVars
<1>3. part' \in [Offset -> Offset \cup {Hole}] /\ partExists' \in BOOLEAN /\ NothingMisplaced'
  BY <1>1 DEF IInv, TypeOK, NothingMisplaced
<1> QED
  BY <1>1, <1>2, <1>3, EndStep

(* The log goes after the rename.                                          *)
LEMMA DeleteLogStep ==
  ASSUME IInv, ~UnlinkMayFail, DeleteLog
  PROVE  IInv'
<1> USE DEF DeleteLog
<1>1. NoLog \in [Conn -> Entry]
  BY DEF NoLog, NoEntry, Entry
<1>2. TypeOK'
  BY <1>1, TransferAssumption
  DEF IInv, TypeOK, fileVars, rangeVars, connVars, threadVars, bounds
<1>3. MainConsistent' /\ LogLaid' /\ BufLaid' /\ LogBehindFile'
  BY DEF IInv, MainConsistent, LogLaid, BufLaid, LogBehindFile
<1> QED
  BY <1>2, <1>3, MainFrame DEF fileVars, PartBacksCounts

(* When all the connections have completed, the partial file holds every   *)
(* block.                                                                  *)
LEMMA AllStored ==
  ASSUME IInv, SizeKnown, main = "finish", NEW p \in Offset
  PROVE  part[p] = p
<1>1. n \in 1 .. MaxConns /\ \A i \in 0 .. (n - 1) : i \in Active
  <2>1. n \in 1 .. MaxConns
    BY DEF IInv, MainConsistent, TypeOK
  <2> QED
    BY <2>1, TransferAssumption DEF Active, Conn
<1>2. PICK i \in 0 .. (n - 1) : Base(n, i) <= p /\ p < End(n, i)
  BY <1>1, RangesCover
<1>3. /\ orig[i] = Base(n, i) /\ endpos[i] = End(n, i)
      /\ status[i] = "COMPLETED" /\ orig[i] + received[i] >= endpos[i]
      /\ HoldsBlocks(orig[i], received[i])
  BY <1>1
  DEF IInv, MainConsistent, AllCompleted, RangeLaid, CompletedRests, CountBehindFile,
      PartBacksCounts
<1>4. /\ orig[i] \in Int /\ received[i] \in Int /\ endpos[i] \in Int /\ p \in Int
  BY <1>1, TransferAssumption DEF IInv, TypeOK, Active, Offset
<1> QED
  BY <1>2, <1>3, <1>4 DEF HoldsBlocks

(* The partial file becomes the target.                                    *)
LEMMA RenameStep ==
  ASSUME IInv, Rename
  PROVE  IInv'
<1>1. /\ main = "finish" /\ main' = "renamed" /\ \A i \in Active : tpc[i] = "ended"
      /\ UNCHANGED <<logVars, n, rs, buf, bufLen, rangeVars, connVars, threadVars, bounds>>
  BY DEF Rename
<1>2. Active' = Active
  BY <1>1 DEF Active
<1>3. TypeOK' /\ NothingMisplaced' /\ (SizeKnown => TargetWhole)'
  <2>1. CASE UNCHANGED fileVars
    BY <2>1, <1>1
    DEF IInv, TypeOK, NothingMisplaced, TargetWhole, fileVars, logVars, rangeVars,
        connVars, threadVars, bounds
  <2>2. CASE /\ target' = IF \A p \in Offset : part[p] = p THEN "whole" ELSE "damaged"
             /\ partExists' = FALSE /\ part' = [p \in Offset |-> Hole]
    <3>1. SizeKnown => target' = "whole"
      BY <2>2, <1>1, AllStored
    <3> QED
      BY <2>2, <3>1, <1>1
      DEF IInv, TypeOK, NothingMisplaced, TargetWhole, logVars, rangeVars,
          connVars, threadVars, bounds
  <2> QED
    BY <2>1, <2>2 DEF Rename
<1>4. ThreadsTogether' /\ MemoryClear' /\ MainConsistent'
  BY <1>1 DEF IInv, ThreadsTogether, MemoryClear, MainConsistent, threadVars, logVars
<1>5. (\A i \in Active : RangeLaid(i) /\ StreamAligned(i) /\ CompletedRests(i))'
  BY <1>1, <1>2
  DEF IInv, RangeLaid, StreamAligned, CompletedRests, rangeVars, connVars, threadVars
<1>6. LogLaid' /\ BufLaid' /\ CountBehindFile' /\ LogBehindFile'
  BY <1>1
  DEF IInv, LogLaid, BufLaid, CountBehindFile, LogBehindFile, PartBacksCounts, logVars
<1> QED
  BY <1>3, <1>4, <1>5, <1>6 DEF IInv

(* Nothing happens.                                                        *)
LEMMA StutterStep ==
  ASSUME IInv, UNCHANGED vars
  PROVE  IInv'
BY DEF IInv, TypeOK, ThreadsTogether, MemoryClear, MainConsistent, RangeLaid,
       StreamAligned, CompletedRests, LogLaid, BufLaid, EntryLaid, NothingMisplaced,
       CountBehindFile, LogBehindFile, PartBacksCounts, HoldsBlocks, TargetWhole,
       AllCompleted, Active, vars, fileVars, logVars, mainVars, rangeVars, connVars,
       threadVars, bounds

(* IInv is preserved by every step.                                        *)
LEMMA NextIInv ==
  ASSUME ~RangeIgnored, ~KillInFinish, ~UnlinkMayFail, IInv, [Next]_vars
  PROVE  IInv'
<1>1. CASE NewDownload
  BY <1>1, SetupStep DEF NewDownload
<1>2. CASE Main
  BY <1>1, <1>2, StartResumedStep, LogOpenFailsStep, LogOpenStep, LogCopyStep,
     LogCloseStep, CheckStep, StopOrKillStep, RenameStep, DeleteLogStep, DeletePartStep DEF Main
<1>3. CASE Kill
  BY <1>3, StopOrKillStep
<1>4. CASE \E i \in Conn : Thread(i)
  BY <1>4, ThreadStep
<1>5. CASE UNCHANGED vars
  BY <1>5, StutterStep
<1> QED
  BY <1>2, <1>3, <1>4, <1>5 DEF Next

(* IInv is an invariant. *)
THEOREM Inductive ==
  ASSUME ~RangeIgnored, ~KillInFinish, ~UnlinkMayFail
  PROVE  Spec => []IInv
<1>1. Init => IInv
  BY InitIInv
<1>2. IInv /\ [Next]_vars => IInv'
  BY NextIInv
<1> QED
  BY <1>1, <1>2, PTL DEF Spec

-----------------------------------------------------------------------------
(***************************************************************************)
(* What the properties need beyond IInv.                                   *)
(***************************************************************************)

(* The ranges of two connections do not meet. *)
LEMMA RangesDisjoint ==
  ASSUME SizeKnown, NEW k \in 1 .. MaxConns,
         NEW i \in 0 .. (k - 1), NEW j \in 0 .. (k - 1), i < j
  PROVE  End(k, i) <= Base(k, j)
<1>1. Share(k) \in Nat
  BY TransferAssumption DEF Share
<1>2. End(k, i) = i * Share(k) + Share(k) /\ Base(k, j) = j * Share(k)
  <2>1. i # k - 1 /\ i * Share(k) \in Nat
    BY <1>1, TransferAssumption
  <2> QED
    BY <1>1, <2>1 DEF Base, End
<1>3. (i + 1) * Share(k) = i * Share(k) + Share(k)
  BY <1>1
<1>4. j * Share(k) = (i + 1) * Share(k) + (j - (i + 1)) * Share(k)
  BY <1>1
<1>5. (j - (i + 1)) * Share(k) >= 0
  BY <1>1
<1> QED
  BY <1>1, <1>2, <1>3, <1>4, <1>5

(* IInv implies that the ranges tile the file.                             *)
LEMMA Tiling == IInv => RangesTileFile
<1> SUFFICES ASSUME IInv, SizeKnown, main # "off", NEW p \in Offset
             PROVE  \E i \in Active :
                      /\ orig[i] <= p /\ p < endpos[i]
                      /\ \A j \in Active : orig[j] <= p /\ p < endpos[j] => j = i
  BY DEF RangesTileFile
<1>1. n \in 1 .. MaxConns
  BY DEF IInv, MainConsistent, TypeOK
<1>2. Active = 0 .. (n - 1)
  BY <1>1, TransferAssumption DEF Active, Conn
<1>3. \A i \in Active : orig[i] = Base(n, i) /\ endpos[i] = End(n, i)
  BY DEF IInv, RangeLaid
<1>4. PICK i \in Active : Base(n, i) <= p /\ p < End(n, i)
  BY <1>1, <1>2, RangesCover
<1>5. ASSUME NEW j \in Active, Base(n, j) <= p, p < End(n, j)
      PROVE  j = i
  <2>1. /\ Base(n, i) \in Int /\ End(n, i) \in Int /\ Base(n, j) \in Int
        /\ End(n, j) \in Int /\ p \in Int
    BY <1>1, BaseType, TransferAssumption DEF Active, Offset
  <2>2. ~(i < j) /\ ~(j < i)
    BY <1>1, <1>2, <1>4, <1>5, <2>1, RangesDisjoint
  <2> QED
    BY <1>1, <1>2, <2>2
<1> QED
  BY <1>3, <1>4, <1>5

(* IInv implies that a completed range is in the file.                     *)
LEMMA CompletedStored == IInv => CompletedMeansStored
<1> SUFFICES ASSUME IInv, SizeKnown, PartBacksCounts, NEW i \in Active,
                    status[i] = "COMPLETED"
             PROVE  HoldsBlocks(orig[i], endpos[i] - orig[i])
  BY DEF CompletedMeansStored
<1>1. orig[i] + received[i] >= endpos[i] /\ HoldsBlocks(orig[i], received[i])
  BY DEF IInv, CompletedRests, CountBehindFile
<1>2. /\ orig[i] \in Int /\ endpos[i] \in Int /\ received[i] \in Int
      /\ \A p \in Offset : p \in Int
  BY TransferAssumption DEF IInv, TypeOK, Active, Offset
<1> QED
  BY <1>1, <1>2 DEF HoldsBlocks

(* A log or a running download comes with its partial file. *)
PartKept ==
  /\ logState # "none" /\ main \notin {"renamed", "done"} => partExists
  /\ main \notin {"off", "renamed", "done"} => partExists
  /\ main = "done" => logState = "none"

(* The partial file outlives the log, the rename apart.                    *)
LEMMA PartKeptStep ==
  ASSUME ~KillInFinish, ~UnlinkMayFail, PartKept, [Next]_vars
  PROVE  PartKept'
<1> USE DEF PartKept
<1>1. CASE \E i \in Conn : Thread(i)
  <2>1. UNCHANGED <<partExists, main, logState>>
    BY <1>1
    DEF Thread, BeginAttempt, ConnectFails, AttemptFails, Open, Write, Count, WriteFails,
        StreamFails, Complete, fileVars, logVars, mainVars
  <2> QED
    BY <2>1
<1>2. CASE NewDownload
  BY <1>2 DEF NewDownload, Setup, OpenPart, logVars
<1>3. CASE StartResumed \/ LogOpenFails \/ LogOpen \/ LogCopy \/ LogClose \/ Check
  BY <1>3
  DEF StartResumed, LogOpenFails, LogOpen, LogCopy, LogClose, Check, OnDisk, AfterLog,
      fileVars, logVars
<1>4. CASE StopDownloads \/ Kill
  BY <1>4 DEF StopDownloads, Kill, MemoryLost, fileVars, logVars
<1>5. CASE Rename \/ DeleteLog \/ DeletePart
  BY <1>5 DEF Rename, DeleteLog, DeletePart, MemoryLost, fileVars, logVars
<1>6. CASE UNCHANGED vars
  BY <1>6 DEF vars, fileVars, logVars, mainVars
<1> QED
  BY <1>1, <1>2, <1>3, <1>4, <1>5, <1>6 DEF Next, Main

-----------------------------------------------------------------------------
(***************************************************************************)
(* The theorems.  All hold for every file length, number of connections,   *)
(* number of runs and number of faults, when the server honours Range, the *)
(* process is not killed between rename() and the removal of the log, and  *)
(* that removal does not fail: then a log outlives its download, and its   *)
(* counts its partial file.                                                *)
(***************************************************************************)

(* Every variable keeps its type. *)
THEOREM TypeCorrect ==
  ASSUME ~RangeIgnored, ~KillInFinish, ~UnlinkMayFail
  PROVE  Spec => []TypeOK
<1>1. IInv => TypeOK
  BY DEF IInv
<1> QED
  BY <1>1, Inductive, PTL

(* No block is ever at another block's offset of the partial file: the     *)
(* resume arithmetic of ftp_loop, http_loop and load_resume_info keeps the *)
(* write position and the server's stream together.                        *)
THEOREM BlocksInPlace ==
  ASSUME ~RangeIgnored, ~KillInFinish, ~UnlinkMayFail
  PROVE  Spec => []NothingMisplaced
<1>1. IInv => NothingMisplaced
  BY DEF IInv
<1> QED
  BY <1>1, Inductive, PTL

(* The counts of the connections never run ahead of the partial file: what *)
(* remote_bytes_received counts has been written.                          *)
THEOREM CountsAreStored ==
  ASSUME ~RangeIgnored, ~KillInFinish, ~UnlinkMayFail
  PROVE  Spec => []CountBehindFile
<1>1. IInv => CountBehindFile
  BY DEF IInv
<1> QED
  BY <1>1, Inductive, PTL

(* Nor do those of the log on disk: a kill at any step loses work, never   *)
(* data.                                                                   *)
THEOREM CrashLosesNothing ==
  ASSUME ~RangeIgnored, ~KillInFinish, ~UnlinkMayFail
  PROVE  Spec => []LogBehindFile
<1>1. IInv => LogBehindFile
  BY DEF IInv
<1> QED
  BY <1>1, Inductive, PTL

(* The ranges tile the file, whichever run and log they came from.         *)
THEOREM RangesTile ==
  ASSUME ~RangeIgnored, ~KillInFinish, ~UnlinkMayFail
  PROVE  Spec => []RangesTileFile
<1> QED
  BY Tiling, Inductive, PTL

(* COMPLETED, also when derived from a log, means that the whole range of  *)
(* the connection is in the partial file.                                  *)
THEOREM CompletedIsStored ==
  ASSUME ~RangeIgnored, ~KillInFinish, ~UnlinkMayFail
  PROVE  Spec => []CompletedMeansStored
<1> QED
  BY CompletedStored, Inductive, PTL

(* A file of known length is only ever published whole.                    *)
THEOREM PublishedWhole ==
  ASSUME ~RangeIgnored, ~KillInFinish, ~UnlinkMayFail, SizeKnown
  PROVE  Spec => []TargetWhole
<1>1. IInv => TargetWhole
  BY DEF IInv
<1> QED
  BY <1>1, Inductive, PTL

(* A log found when the program starts belongs to an unfinished download,  *)
(* if the removal of the log of a finished one was reached and worked.     *)
THEOREM LogIsOfUnfinished ==
  ASSUME ~KillInFinish, ~UnlinkMayFail
  PROVE  Spec => []LogMeansUnfinished
<1>1. Init => PartKept
  BY DEF Init, PartKept
<1>2. PartKept /\ [Next]_vars => PartKept'
  BY PartKeptStep
<1>3. PartKept => LogMeansUnfinished
  BY DEF PartKept, LogMeansUnfinished
<1> QED
  BY <1>1, <1>2, <1>3, PTL DEF Spec

-----------------------------------------------------------------------------
(***************************************************************************)
(* Transfer implements Fetch.                                              *)
(***************************************************************************)

(* The rename has taken the partial file away, and no thread is left. *)
PartGone ==
  main \in {"renamed", "done"} =>
    /\ \A p \in Offset : part[p] = Hole
    /\ \A i \in Conn : tpc[i] \in {"none", "ended"}

(* Between the rename and the end nobody writes.                           *)
LEMMA PartGoneStep ==
  ASSUME ~RenameMayFail, IInv, PartGone, [Next]_vars
  PROVE  PartGone'
<1> USE DEF PartGone
<1>1. CASE \E i \in Conn : Thread(i)
  <2>1. PICK i \in Conn : Thread(i)
    BY <1>1
  <2>2. main' = main /\ tpc[i] \notin {"none", "ended"}
    BY <2>1
    DEF Thread, BeginAttempt, ConnectFails, AttemptFails, Open, Write, Count, WriteFails,
        StreamFails, Complete, mainVars
  <2> QED
    BY <2>2
<1>2. CASE NewDownload
  BY <1>2 DEF NewDownload, Setup, OpenPart
<1>3. CASE StartResumed \/ LogOpenFails \/ LogOpen \/ LogCopy \/ LogClose \/ Check
  BY <1>3 DEF StartResumed, LogOpenFails, LogOpen, LogCopy, LogClose, Check, AfterLog
<1>4. CASE StopDownloads \/ Kill
  BY <1>4 DEF StopDownloads, Kill, MemoryLost
<1>5. CASE Rename
  <2>1. /\ main = "finish" /\ \A i \in Active : tpc[i] = "ended"
        /\ part' = [p \in Offset |-> Hole] /\ tpc' = tpc
    BY <1>5 DEF Rename, threadVars
  <2>2. \A i \in Conn : i \in Active \/ tpc[i] = "none"
    BY DEF IInv, ThreadsTogether, Active, TypeOK, Conn
  <2> QED
    BY <2>1, <2>2
<1>6. CASE DeleteLog \/ DeletePart
  BY <1>6 DEF DeleteLog, DeletePart, MemoryLost, fileVars, threadVars
<1>7. CASE UNCHANGED vars
  BY <1>7 DEF vars, fileVars, mainVars, threadVars
<1> QED
  BY <1>1, <1>2, <1>3, <1>4, <1>5, <1>6, <1>7 DEF Next, Main

(* A step that keeps every stored block, and the target, is a Store.       *)
LEMMA KeepsBlocks ==
  ASSUME UNCHANGED target, \A p \in Offset : part[p] = p => part'[p] = p
  PROVE  F!Store
BY DEF F!Store, Stored, F!Offset, Offset

(* Every step of Transfer is a step of Fetch or leaves it as it is.        *)
LEMMA StepImplements ==
  ASSUME SizeKnown, ~RangeIgnored, ~RenameMayFail, IInv, PartGone, [Next]_vars
  PROVE  [F!Next]_F!fetchVars
<1>1. CASE \E i \in Conn : Thread(i)
  <2>1. PICK i \in Conn : Thread(i)
    BY <1>1
  <2>2. CASE Write(i)
    <3>1. PICK k \in Chunks(i) : part' = WithBlocks(i, k)
      BY <2>2 DEF Write
    <3> QED
      BY <3>1, <2>2, BlocksWritten, KeepsBlocks DEF Write, F!Next
  <2>3. CASE WriteFails(i)
    <3>1. PICK k \in Chunks(i) : part' = WithBlocks(i, k - 1)
      BY <2>3 DEF WriteFails
    <3> QED
      BY <3>1, <2>3, BlocksWritten, KeepsBlocks DEF WriteFails, F!Next
  <2>4. CASE UNCHANGED fileVars
    BY <2>4, KeepsBlocks DEF fileVars, F!Next
  <2> QED
    BY <2>1, <2>2, <2>3, <2>4
    DEF Thread, BeginAttempt, ConnectFails, AttemptFails, Open, Count, StreamFails, Complete
<1>2. CASE Rename
  <2>1. \A p \in Offset : part[p] = p
    BY <1>2, AllStored DEF Rename
  <2>2. target' = "whole" /\ part' = [p \in Offset |-> Hole]
    BY <1>2, <2>1 DEF Rename
  <2>3. Stored = Offset /\ Stored' = {}
    BY <2>1, <2>2, TransferAssumption DEF Stored, Offset, Hole
  <2> QED
    BY <2>2, <2>3 DEF F!Publish, F!Next, F!Offset, Offset
<1>3. CASE DeletePart
  <2>1. \A p \in Offset : part[p] # p
    BY <1>3, TransferAssumption DEF DeletePart, PartGone, Offset, Hole
  <2> QED
    BY <1>3, <2>1, KeepsBlocks DEF DeletePart, F!Next
<1>4. CASE UNCHANGED <<part, target>>
  BY <1>4, KeepsBlocks DEF F!Next
<1>5. NewDownload => UNCHANGED <<part, target>>
  BY DEF NewDownload, Setup, OpenPart
<1> QED
  BY <1>1, <1>2, <1>3, <1>4, <1>5
  DEF Next, Main, StartResumed, LogOpenFails, LogOpen, LogCopy, LogClose, Check,
      StopDownloads, DeleteLog, Kill, vars, fileVars

(* A download of known length is a Fetch: the partial file only gains      *)
(* blocks, and the target is published from a whole one.                   *)
THEOREM Implementation ==
  ASSUME SizeKnown, ~RangeIgnored, ~KillInFinish, ~UnlinkMayFail, ~RenameMayFail
  PROVE  Spec => ImplementsFetch
<1>1. Init => F!Init
  BY TransferAssumption DEF Init, F!Init, Stored, Offset, Hole
<1>2. Init => IInv
  BY InitIInv
<1>3. Init => PartGone
  BY DEF Init, PartGone
<1>4. IInv /\ [Next]_vars => IInv'
  BY NextIInv
<1>5. IInv /\ PartGone /\ [Next]_vars => PartGone'
  BY PartGoneStep
<1>6. IInv /\ PartGone /\ [Next]_vars => [F!Next]_F!fetchVars
  BY StepImplements
<1> QED
  BY <1>1, <1>2, <1>3, <1>4, <1>5, <1>6, PTL DEF Spec, ImplementsFetch, F!Spec
=============================================================================
