----------------------------- MODULE SessionInv -----------------------------
(***************************************************************************)
(* The inductive invariant of Session: what each connection knows of its   *)
(* own descriptors at each step.                                           *)
(***************************************************************************)
EXTENDS Session

(* In no behaviour do connections fail and threads get cancelled, and none *)
(* is cancelled between close() and the zeroing of the field.              *)
FaultsApart == \A F \in Faults : "cancel" \in F => F \cap {"connect", "torn"} = {}

Own(c, n) == n \in Fd /\ owner[n] = c

(* Each step belongs to the routines of one protocol and one mode. *)
KindFits(c) ==
  /\ pc[c] \in {"ctrlSocket", "ctrlConnect", "greeting", "login", "dataSetup",
                "port", "command", "accept", "unlisten", "cleanCtrl"} => kind[c] \in Ftp
  /\ pc[c] = "headers" => kind[c] \in Http
  /\ pc[c] \in {"dataSocket", "dataConnect"} /\ kind[c] \in Ftp => passive[c]
  /\ pc[c] = "port" => ~passive[c]
  /\ pc[c] \in {"close", "zero"} => todo[c] # {}
  /\ pc[c] \in {"cleanData", "cleanCtrl"} => "cancel" \in faults

(* An attempt begins only while attempts are left. *)
Budget(c) == pc[c] \notin {"done", "gone"} => failures[c] < MaxAttempts

(* The descriptors the attempt relies on are open, its own and distinct. *)
Holds(c) ==
  /\ \A f \in Needs(c) : Own(c, sock[c][f])
  /\ \A f, g \in Needs(c) : f # g => sock[c][f] # sock[c][g]
  /\ pc[c] = "port" => Own(c, sockfd[c]) /\ sockfd[c] # sock[c]["ctrl"]

(* What the cleanup handler looks at: unless connections fail, ctrl_sock   *)
(* and data_sock name no descriptor or one of this connection, but for the *)
(* one between close() and its zeroing.                                    *)
Kept(c) == {"ctrl", "data"} \ (IF pc[c] = "zero" THEN {First(todo[c])} ELSE {})
FieldsOwn(c) ==
  "cancel" \in faults /\ pc[c] # "gone" =>
    /\ \A f \in Kept(c) : sock[c][f] \in Fd => owner[sock[c][f]] = c
    /\ Kept(c) = {"ctrl", "data"} /\ sock[c]["ctrl"] \in Fd => sock[c]["ctrl"] # sock[c]["data"]

ConnInv(c) == KindFits(c) /\ Budget(c) /\ Holds(c) /\ FieldsOwn(c)

IInv == TypeOK /\ \A c \in Conn : ConnInv(c)
-----------------------------------------------------------------------------
(***************************************************************************)
(* What an attempt leaves open, step by step.                              *)
(***************************************************************************)

(* The steps that follow an attempt's end, and a cancellation. *)
Ending == {"close", "zero", "return"}
Cancelled == {"cleanData", "cleanCtrl", "gone"}

AtMost(S, n) == IsFiniteSet(S) /\ Cardinality(S) <= n

(* Left open by the attempts that failed before this one, *)
Past(c) ==
  IF kind[c] \in Ftp THEN 2 * failures[c]
  ELSE IF kind[c] = "proxy" THEN failures[c] ELSE 0

(* by an attempt that is ending with ret, *)
After(c) ==
  IF ret[c] = "ok" THEN IF kind[c] = "info" THEN 1 ELSE 0
  ELSE IF kind[c] \in Ftp THEN 2
  ELSE IF kind[c] = "proxy" THEN 1 ELSE 0

(* and by this one so far, besides the sockets it still needs. *)
Extra(c) ==
  IF pc[c] \in Ending THEN After(c)
  ELSE IF pc[c] = "done" /\ kind[c] = "info" THEN 1 ELSE 0

(* The numbers in some fields of a connection, and those an attempt needs. *)
Numbers(c, F) == {sock[c][f] : f \in F}
Held(c) == Numbers(c, Needs(c)) \cup (IF pc[c] = "port" THEN {sockfd[c]} ELSE {})

(* What the handler has still to look at. *)
ToClean(c) ==
  IF pc[c] = "gone" THEN {}
  ELSE IF pc[c] = "cleanCtrl" THEN {"ctrl"}
  ELSE IF kind[c] \in Ftp THEN {"ctrl", "data"} ELSE {"data"}

(* What it cannot see: one listening socket. *)
Unseen(c) == IF kind[c] \in Ftp THEN 1 ELSE 0

Accounts(c) ==
  /\ pc[c] \notin Cancelled => AtMost(Owned(c) \ Held(c), Past(c) + Extra(c))
  /\ pc[c] \in Ending \cup Cancelled =>
       AtMost(Owned(c) \ Numbers(c, ToClean(c)), Past(c) + Unseen(c))
  /\ pc[c] = "zero" => sock[c][First(todo[c])] \notin Owned(c)

LeakInv == \A c \in Conn : Accounts(c)
=============================================================================
