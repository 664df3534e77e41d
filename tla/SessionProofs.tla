--------------------------- MODULE SessionProofs ----------------------------
(***************************************************************************)
(* Proofs about Session.  The invariant of SessionInv is inductive, with   *)
(* one lemma per action (Good: what every step of a connection does to     *)
(* itself and to the others), for any number of connections, descriptors   *)
(* and attempts.  From it follow that connections use and close their own  *)
(* sockets only.  Behind it, that attempts leave no more sockets open than *)
(* LeakBound says: every step keeps the accounts of SessionInv, by which a *)
(* connection owns what the attempt still needs, and besides that no more  *)
(* than it may leave behind.                                               *)
(***************************************************************************)
EXTENDS SessionInv, FiniteSetTheorems, WellFoundedInduction, TLAPS

(* The relation of the well-founded induction on Nat.                      *)
LEMMA LessIsRelated == \A g, f \in Nat : g < f => <<g, f>> \in OpToRel(<, Nat)
  BY SMT DEF OpToRel

(* socket(), open() and accept() return a free descriptor when there is one. *)
LEMMA LowestIsFree ==
  ASSUME SessionAssumption, FreeFds # {}
  PROVE  Lowest \in FreeFds
<1>1. FreeFds \subseteq Nat
  BY DEF SessionAssumption, FreeFds
<1>2. PICK f \in FreeFds : \A g \in FreeFds : ~(<<g, f>> \in OpToRel(<, Nat))
  BY <1>1, NatLessThanWellFounded, WFMin, ZenonT(60)
<1>3. \A g \in FreeFds : ~(g < f)
  BY <1>1, <1>2, LessIsRelated, Zenon
<1>4. \A g \in FreeFds : f <= g
  BY <1>1, <1>3
<1> QED
  BY <1>4, <1>2, Zenon DEF Lowest

SockType == [Conn -> [Field -> Fd \cup {0, -1}]]

(* What the assignments of the actions do, without their EXCEPTs: to a     *)
(* field of a connection,                                                  *)
LEMMA SetFacts ==
  ASSUME TypeOK, NEW c \in Conn, NEW f \in Field, NEW n \in Fd \cup {0, -1}, Set(c, f, n)
  PROVE  /\ sock' \in SockType
         /\ sock'[c][f] = n
         /\ \A g \in Field : g # f => sock'[c][g] = sock[c][g]
         /\ \A d \in Conn : d # c => sock'[d] = sock[d]
  BY DEF TypeOK, SockType, Set

(* to its step,                                                            *)
LEMMA GoFacts ==
  ASSUME TypeOK, NEW c \in Conn, NEW p \in Steps, Go(c, p)
  PROVE  /\ pc' \in [Conn -> Steps]
         /\ pc'[c] = p
         /\ \A d \in Conn : d # c => pc'[d] = pc[d]
  BY DEF TypeOK, Go

(* and to what is left of the attempt.                                     *)
LEMMA LeaveFacts ==
  ASSUME TypeOK, NEW c \in Conn, NEW s \in SUBSET {"data", "ctrl"},
         NEW r \in {"ok", "fail", "up"}, Leave(c, s, r)
  PROVE  /\ pc' \in [Conn -> Steps]
         /\ pc'[c] = IF s = {} THEN "return" ELSE "close"
         /\ \A d \in Conn : d # c => pc'[d] = pc[d]
         /\ todo' \in [Conn -> SUBSET {"data", "ctrl"}]
         /\ todo'[c] = s
         /\ \A d \in Conn : d # c => todo'[d] = todo[d]
         /\ ret' \in [Conn -> {"ok", "fail", "up"}]
<1>1. (IF s = {} THEN "return" ELSE "close") \in Steps
  BY DEF Steps
<1>2. Go(c, IF s = {} THEN "return" ELSE "close")
  BY DEF Leave
<1>3. /\ pc' \in [Conn -> Steps]
      /\ pc'[c] = IF s = {} THEN "return" ELSE "close"
      /\ \A d \in Conn : d # c => pc'[d] = pc[d]
  BY <1>1, <1>2, GoFacts
<1>4. /\ todo' \in [Conn -> SUBSET {"data", "ctrl"}]
      /\ todo'[c] = s
      /\ \A d \in Conn : d # c => todo'[d] = todo[d]
  BY DEF TypeOK, Leave
<1>5. ret' \in [Conn -> {"ok", "fail", "up"}]
  BY DEF TypeOK, Leave
<1> QED
  BY <1>3, <1>4, <1>5

OwnerType == [Fd -> Conn \cup {Nobody}]

(* A new descriptor was nobody's and belongs to c afterwards.              *)
LEMMA TakeFacts ==
  ASSUME SessionAssumption, TypeOK, FreeFds # {}, NEW c \in Conn, Take(c)
  PROVE  /\ Lowest \in Fd /\ owner[Lowest] = Nobody
         /\ owner' \in OwnerType
         /\ owner'[Lowest] = c
         /\ \A f \in Fd : f # Lowest => owner'[f] = owner[f]
<1>1. Lowest \in Fd /\ owner[Lowest] = Nobody
  BY LowestIsFree DEF FreeFds
<1> QED
  BY <1>1 DEF TypeOK, OwnerType, Take

(* close() frees one descriptor and no other.                              *)
LEMMA DropFacts ==
  ASSUME TypeOK, NEW fd, Drop(fd)
  PROVE  /\ owner' \in OwnerType
         /\ \A f \in Fd : owner'[f] = IF f = fd THEN Nobody ELSE owner[f]
  BY DEF TypeOK, OwnerType, Drop
-----------------------------------------------------------------------------
(* What a step of c leaves alone of another connection d. *)
Apart(d) ==
  /\ pc'[d] = pc[d] /\ sock'[d] = sock[d] /\ sockfd'[d] = sockfd[d]
  /\ passive'[d] = passive[d] /\ todo'[d] = todo[d]
  /\ failures'[d] = failures[d]
  /\ \A f \in Fd : owner[f] = d => owner'[f] = d

(* What every step of c is shown to do. *)
Good(c) ==
  /\ TypeOK' /\ ConnInv(c)'
  /\ UNCHANGED <<faults, kind>>
  /\ \A d \in Conn : d # c => Apart(d)
  /\ pc'[c] # pc[c]

(* A step of another connection that leaves d's state and descriptors alone *)
(* keeps d's invariant.                                                    *)
LEMMA Frame ==
  ASSUME SessionAssumption, TypeOK, NEW d \in Conn, ConnInv(d), Apart(d),
         UNCHANGED <<faults, kind>>
  PROVE  ConnInv(d)'
<1>1. Needs(d)' = Needs(d) /\ Kept(d)' = Kept(d)
  BY DEF Apart, Needs, Kept
<1>2. \A f \in Needs(d) : f \in Field
  BY DEF TypeOK, Needs, Field
<1>3. KindFits(d)' /\ Budget(d)'
  BY DEF ConnInv, KindFits, Budget, Apart
<1>4. Holds(d)'
  BY <1>1, <1>2 DEF ConnInv, Holds, Own, Apart
<1>5. FieldsOwn(d)'
  BY <1>1 DEF ConnInv, FieldsOwn, Apart
<1> QED
  BY <1>3, <1>4, <1>5 DEF ConnInv

(* A step that opens, closes and stores no descriptor. *)
Quiet(c) ==
  /\ UNCHANGED <<faults, owner, kind, sock, sockfd, failures>>
  /\ pc' \in [Conn -> Steps] /\ \A d \in Conn : d # c => pc'[d] = pc[d]
  /\ todo' \in [Conn -> SUBSET {"data", "ctrl"}]
  /\ \A d \in Conn : d # c => todo'[d] = todo[d]
  /\ ret' \in [Conn -> {"ok", "fail", "up"}]
  /\ passive' \in [Conn -> BOOLEAN] /\ \A d \in Conn : d # c => passive'[d] = passive[d]

(* A quiet step that relies on no more descriptors than before is good.    *)
LEMMA QuietStep ==
  ASSUME SessionAssumption, TypeOK, NEW c \in Conn, ConnInv(c), Quiet(c),
         pc[c] \notin {"done", "gone", "zero"}, pc'[c] \notin {pc[c], "port", "zero"},
         KindFits(c)', Needs(c)' \subseteq Needs(c)
  PROVE  Good(c)
<1>1. TypeOK'
  BY DEF TypeOK, Quiet
<1>2. Budget(c)'
  BY DEF ConnInv, Budget, Quiet
<1>3. Holds(c)'
  BY DEF ConnInv, Holds, Own, Quiet
<1>4. FieldsOwn(c)'
  BY DEF ConnInv, FieldsOwn, Kept, Quiet
<1>5. \A d \in Conn : d # c => Apart(d)
  BY DEF Apart, Quiet
<1> QED
  BY <1>1, <1>2, <1>3, <1>4, <1>5 DEF Good, ConnInv, Quiet

PassiveOf(c) ==
  passive' \in [Conn -> BOOLEAN] /\ \A d \in Conn : d # c => passive'[d] = passive[d]

(* A step that only proceeds is quiet.                                     *)
LEMMA QuietGo ==
  ASSUME TypeOK, NEW c \in Conn, NEW p \in Steps, Go(c, p), Stay, PassiveOf(c),
         UNCHANGED <<faults, owner, kind, sock, sockfd, failures>>
  PROVE  Quiet(c) /\ pc'[c] = p
  BY GoFacts DEF Quiet, Stay, TypeOK, PassiveOf

(* Leaving an attempt with sockets to close that it relied on is good.     *)
LEMMA QuietLeave ==
  ASSUME SessionAssumption, TypeOK, NEW c \in Conn, ConnInv(c), PassiveOf(c),
         NEW s \in SUBSET {"data", "ctrl"}, NEW r \in {"ok", "fail", "up"}, Leave(c, s, r),
         UNCHANGED <<faults, owner, kind, sock, sockfd, failures>>,
         s \subseteq Needs(c), pc[c] \notin {"done", "gone", "zero", "return", "close"}
  PROVE  Good(c)
<1>1. Quiet(c)
  BY LeaveFacts DEF Quiet, PassiveOf
<1>2. /\ pc'[c] = IF s = {} THEN "return" ELSE "close"
      /\ todo'[c] = s
  BY LeaveFacts
<1>3. KindFits(c)'
  BY <1>2 DEF KindFits
<1>4. Needs(c)' \subseteq Needs(c)
  BY <1>2 DEF Needs
<1> QED
  BY <1>1, <1>2, <1>3, <1>4, QuietStep
-----------------------------------------------------------------------------
(* One lemma per action; first the quiet ones.  An unknown host leaves at   *)
(* most the control socket to be closed.                                   *)
LEMMA UnknownHostStep ==
  ASSUME SessionAssumption, TypeOK, NEW c \in Conn, ConnInv(c), UnknownHost(c)
  PROVE  Good(c)
<1> DEFINE s == IF Dialled(c) = "data" /\ kind[c] \in Ftp THEN {"ctrl"} ELSE {}
<1>1. s \subseteq Needs(c) /\ s \in SUBSET {"data", "ctrl"}
  BY DEF Needs, Dialled, UnknownHost
<1>2. Leave(c, s, "fail") /\ PassiveOf(c)
  BY DEF UnknownHost, DialFails, PassiveOf, TypeOK
<1> QED
  BY <1>1, <1>2, QuietLeave DEF UnknownHost

(* connect() succeeds: the next step relies on the socket just connected.  *)
LEMMA ConnectedStep ==
  ASSUME SessionAssumption, TypeOK, NEW c \in Conn, ConnInv(c), Connected(c)
  PROVE  Good(c)
<1> DEFINE p == CASE At(c, "ctrlConnect") -> "greeting"
                  [] At(c, "dataConnect") /\ kind[c] \in Ftp -> "command"
                  [] OTHER -> "headers"
<1>1. p \in Steps
  BY DEF Steps
<1>2. Quiet(c) /\ pc'[c] = p
  BY <1>1, QuietGo DEF Connected, PassiveOf, TypeOK
<1>3. pc[c] = "ctrlConnect" => kind[c] \in Ftp
  BY DEF ConnInv, KindFits
<1>4. KindFits(c)'
  <2>1. kind[c] \in Ftp \cup Http /\ kind' = kind
    BY DEF TypeOK, SessionAssumption, Connected
  <2>2. pc'[c] \in {"greeting", "command", "headers"}
    BY <1>2
  <2>3. pc'[c] = "headers" => kind[c] \notin Ftp
    BY <1>2, <1>3 DEF At, Connected
  <2>4. pc'[c] # "headers" => kind[c] \in Ftp
    BY <1>2, <1>3 DEF At, Connected
  <2> QED
    BY <2>1, <2>2, <2>3, <2>4 DEF KindFits
<1>5. Needs(c)' \subseteq Needs(c)
  <2>1. UNCHANGED <<kind, passive>>
    BY DEF Connected
  <2>2. CASE pc[c] = "ctrlConnect"
    <3>1. pc'[c] = "greeting"
      BY <1>2, <2>2 DEF At
    <3> QED
      BY <2>2, <3>1 DEF Needs
  <2>3. CASE pc[c] = "dataConnect" /\ kind[c] \in Ftp
    <3>1. passive[c] /\ pc'[c] = "command"
      BY <1>2, <2>3 DEF At, ConnInv, KindFits
    <3> QED
      BY <2>1, <2>3, <3>1 DEF Needs
  <2>4. CASE pc[c] = "dataConnect" /\ kind[c] \notin Ftp
    <3>1. pc'[c] = "headers"
      BY <1>2, <2>4 DEF At
    <3> QED
      BY <2>1, <2>4, <3>1 DEF Needs
  <2> QED
    BY <2>2, <2>3, <2>4 DEF Connected
<1> QED
  BY <1>2, <1>4, <1>5, QuietStep DEF Connected, At

(* The greeting: log in, or leave with or without closing the control socket. *)
LEMMA GreetingStep ==
  ASSUME SessionAssumption, TypeOK, NEW c \in Conn, ConnInv(c), Greeting(c)
  PROVE  Good(c)
<1>1. pc[c] = "greeting" /\ Needs(c) = {"ctrl"} /\ PassiveOf(c)
  BY DEF Greeting, At, Needs, PassiveOf, TypeOK
<1>2. UNCHANGED <<faults, owner, kind, sock, sockfd, failures>>
  BY DEF Greeting
<1>3. CASE Go(c, "login") /\ Stay
  <2>1. Quiet(c) /\ pc'[c] = "login"
    BY <1>1, <1>2, <1>3, QuietGo DEF Steps
  <2>2. KindFits(c)' /\ Needs(c)' \subseteq Needs(c)
    BY <1>1, <2>1 DEF KindFits, Needs, Quiet, ConnInv
  <2> QED
    BY <1>1, <2>1, <2>2, QuietStep
<1>4. ASSUME NEW s \in {{}, {"ctrl"}}, NEW r \in {"fail", "up"}, Leave(c, s, r)
      PROVE  Good(c)
  BY <1>1, <1>2, <1>4, QuietLeave
<1> QED
  BY <1>3, <1>4 DEF Greeting

(* The login: it relies on the control socket throughout.                  *)
LEMMA LoginStep ==
  ASSUME SessionAssumption, TypeOK, NEW c \in Conn, ConnInv(c), Login(c)
  PROVE  Good(c)
<1>1. pc[c] = "login" /\ Needs(c) = {"ctrl"} /\ PassiveOf(c)
  BY DEF Login, At, Needs, PassiveOf, TypeOK
<1>2. UNCHANGED <<faults, owner, kind, sock, sockfd, failures>>
  BY DEF Login
<1>3. CASE Go(c, "dataSetup") /\ Stay
  <2>1. Quiet(c) /\ pc'[c] = "dataSetup"
    BY <1>1, <1>2, <1>3, QuietGo DEF Steps
  <2>2. KindFits(c)' /\ Needs(c)' \subseteq Needs(c)
    BY <1>1, <2>1 DEF KindFits, Needs, Quiet, ConnInv
  <2> QED
    BY <1>1, <2>1, <2>2, QuietStep
<1>4. ASSUME NEW s \in {{}, {"ctrl"}}, NEW r \in {"ok", "fail", "up"}, Leave(c, s, r)
      PROVE  Good(c)
  BY <1>1, <1>2, <1>4, QuietLeave
<1> QED
  BY <1>3, <1>4 DEF Login

(* PASV: the control socket is kept while the data socket is made.         *)
LEMMA PasvStep ==
  ASSUME SessionAssumption, TypeOK, NEW c \in Conn, ConnInv(c), Pasv(c)
  PROVE  Good(c)
<1>1. pc[c] = "dataSetup" /\ Needs(c) = {"ctrl"} /\ kind[c] \in Ftp
  BY DEF Pasv, At, Needs, ConnInv, KindFits
<1>2. UNCHANGED <<faults, owner, kind, sock, sockfd, failures>>
  BY DEF Pasv
<1>3. CASE passive' = [passive EXCEPT ![c] = TRUE] /\ Go(c, "dataSocket") /\ Stay
  <2>1. PassiveOf(c) /\ passive'[c]
    BY <1>3 DEF PassiveOf, TypeOK
  <2>2. Quiet(c) /\ pc'[c] = "dataSocket"
    BY <1>1, <1>2, <1>3, <2>1, QuietGo DEF Steps
  <2>3. KindFits(c)' /\ Needs(c)' \subseteq Needs(c)
    BY <1>1, <2>1, <2>2 DEF KindFits, Needs, Quiet
  <2> QED
    BY <1>1, <2>2, <2>3, QuietStep
<1>4. CASE Leave(c, {"ctrl"}, "fail") /\ UNCHANGED passive
  <2>1. PassiveOf(c)
    BY <1>4 DEF PassiveOf, TypeOK
  <2> QED
    BY <1>1, <1>2, <1>4, <2>1, QuietLeave
<1> QED
  BY <1>3, <1>4 DEF Pasv

(* REST, RETR or LIST, with a data socket or a listening one.              *)
LEMMA CommandStep ==
  ASSUME SessionAssumption, TypeOK, NEW c \in Conn, ConnInv(c), Command(c)
  PROVE  Good(c)
<1>1. /\ pc[c] = "command" /\ kind[c] \in Ftp /\ PassiveOf(c)
      /\ Needs(c) = {"ctrl", IF passive[c] THEN "data" ELSE "listen"}
  BY DEF Command, At, Needs, PassiveOf, TypeOK, ConnInv, KindFits
<1>2. UNCHANGED <<faults, owner, kind, sock, sockfd, passive, failures>>
  BY DEF Command
<1>3. CASE Go(c, IF passive[c] THEN "transfer" ELSE "accept") /\ Stay
  <2>1. Quiet(c) /\ pc'[c] = IF passive[c] THEN "transfer" ELSE "accept"
    BY <1>1, <1>2, <1>3, QuietGo DEF Steps
  <2>2. KindFits(c)' /\ Needs(c)' \subseteq Needs(c)
    BY <1>1, <2>1 DEF KindFits, Needs, Quiet, ConnInv
  <2> QED
    BY <1>1, <2>1, <2>2, QuietStep
<1>4. ASSUME NEW r \in {"ok", "fail", "up"}, Leave(c, {"ctrl"}, r)
      PROVE  Good(c)
  BY <1>1, <1>2, <1>4, QuietLeave
<1> QED
  BY <1>3, <1>4 DEF Command

(* The reply's headers: they come over the data socket alone.              *)
LEMMA HeadersStep ==
  ASSUME SessionAssumption, TypeOK, NEW c \in Conn, ConnInv(c), Headers(c)
  PROVE  Good(c)
<1>1. pc[c] = "headers" /\ kind[c] \in Http /\ Needs(c) = {"data"} /\ PassiveOf(c)
  BY DEF Headers, At, Needs, PassiveOf, TypeOK, ConnInv, KindFits
<1>2. UNCHANGED <<faults, owner, kind, sock, sockfd, failures>>
  BY DEF Headers
<1>3. CASE Go(c, "transfer") /\ Stay
  <2>1. Quiet(c) /\ pc'[c] = "transfer"
    BY <1>1, <1>2, <1>3, QuietGo DEF Steps
  <2>2. KindFits(c)' /\ Needs(c)' \subseteq Needs(c)
    BY <1>1, <2>1 DEF KindFits, Needs, Quiet, ConnInv, Http, Ftp
  <2> QED
    BY <1>1, <2>1, <2>2, QuietStep
<1>4. ASSUME NEW s \in {{}, {"data"}}, NEW r \in {"ok", "fail", "up"}, Leave(c, s, r)
      PROVE  Good(c)
  BY <1>1, <1>2, <1>4, QuietLeave
<1> QED
  BY <1>3, <1>4 DEF Headers

(* The receive routine returns: what is to be closed, the transfer relied on. *)
LEMMA TransferredStep ==
  ASSUME SessionAssumption, TypeOK, NEW c \in Conn, ConnInv(c), Transferred(c)
  PROVE  Good(c)
<1>1. pc[c] = "transfer" /\ PassiveOf(c)
  BY DEF Transferred, At, PassiveOf, TypeOK
<1>2. Needs(c) = IF kind[c] \in Ftp THEN {"ctrl", "data"} ELSE {"data"}
  BY <1>1 DEF Needs
<1>3. UNCHANGED <<faults, owner, kind, sock, sockfd, failures>>
  BY DEF Transferred
<1>4. PICK s \in {{}, {"data"}, {"data", "ctrl"}}, r \in {"ok", "fail", "up"} :
        s \subseteq Needs(c) /\ Leave(c, s, r)
  <2>1. kind[c] \in Ftp \cup Http /\ Ftp \cap Http = {}
    BY DEF TypeOK, SessionAssumption, Ftp, Http
  <2>2. CASE kind[c] \in Http
    <3>1. {"data"} \subseteq Needs(c)
      BY <1>2
    <3>2. \E r \in {"ok", "fail", "up"} : Leave(c, {"data"}, r)
      BY <2>2 DEF Transferred, Http
    <3> QED
      BY <3>1, <3>2
  <2>3. CASE kind[c] = "ftp"
    <3>1. {"data", "ctrl"} \subseteq Needs(c)
      BY <1>2, <2>3 DEF Ftp
    <3>2. \E r \in {"ok", "fail", "up"} : Leave(c, {"data", "ctrl"}, r)
      BY <2>1, <2>3 DEF Transferred, Ftp
    <3> QED
      BY <3>1, <3>2
  <2>4. CASE kind[c] \notin Http /\ kind[c] # "ftp"
    <3>1. {"data", "ctrl"} \subseteq Needs(c)
      BY <1>2, <2>1, <2>4
    <3>2. Leave(c, {"data", "ctrl"}, "ok") \/ Leave(c, {}, "fail")
      BY <2>4 DEF Transferred
    <3>3. {} \subseteq Needs(c)
      OBVIOUS
    <3> QED
      BY <3>1, <3>2, <3>3, Zenon
  <2> QED
    BY <2>2, <2>3, <2>4
<1> QED
  BY <1>1, <1>3, <1>4, QuietLeave
-----------------------------------------------------------------------------
(* The steps that store, open or close a descriptor: the parts of Good.    *)
LEMMA GoodParts ==
  ASSUME NEW c \in Conn, TypeOK', KindFits(c)', Budget(c)', Holds(c)', FieldsOwn(c)',
         UNCHANGED <<faults, kind>>, \A d \in Conn : d # c => Apart(d), pc'[c] # pc[c]
  PROVE  Good(c)
  BY DEF Good, ConnInv

(* An attempt begins: fields are only ever cleared.                        *)
LEMMA BeginStep ==
  ASSUME SessionAssumption, TypeOK, NEW c \in Conn, ConnInv(c), Begin(c)
  PROVE  Good(c)
<1>1. pc[c] = "idle" /\ UNCHANGED <<faults, owner, kind, sockfd, passive, failures, todo>>
  BY DEF Begin, At
<1>2. /\ sock' \in SockType
      /\ \A f \in Field : sock'[c][f] \in {0, sock[c][f]}
      /\ \A d \in Conn : d # c => sock'[d] = sock[d]
  <2> DEFINE new == CASE kind[c] \in {"ftp", "proxy"} -> NoSocks
                      [] kind[c] = "http" -> [sock[c] EXCEPT !["data"] = 0]
                      [] OTHER -> sock[c]
  <2>1. sock' = [sock EXCEPT ![c] = new]
    BY DEF Begin
  <2>2. new \in [Field -> Fd \cup {0, -1}] /\ \A f \in Field : new[f] \in {0, sock[c][f]}
    <3>1. sock[c] \in [Field -> Fd \cup {0, -1}]
      BY DEF TypeOK
    <3>2. NoSocks \in [Field -> Fd \cup {0, -1}] /\ \A f \in Field : NoSocks[f] = 0
      BY DEF NoSocks
    <3>3. /\ [sock[c] EXCEPT !["data"] = 0] \in [Field -> Fd \cup {0, -1}]
          /\ \A f \in Field : [sock[c] EXCEPT !["data"] = 0][f] \in {0, sock[c][f]}
      BY <3>1
    <3>4. new \in {NoSocks, [sock[c] EXCEPT !["data"] = 0], sock[c]}
      OBVIOUS
    <3> QED
      BY <3>1, <3>2, <3>3, <3>4
  <2> HIDE DEF new
  <2> QED
    BY <2>1, <2>2 DEF SockType, TypeOK
<1>3. /\ pc' \in [Conn -> Steps] /\ \A d \in Conn : d # c => pc'[d] = pc[d]
      /\ pc'[c] = IF kind[c] \in Ftp THEN "ctrlSocket" ELSE "dataSocket"
  BY GoFacts DEF Begin, Steps
<1>4. TypeOK'
  BY <1>1, <1>2, <1>3 DEF Begin, TypeOK, SockType
<1>5. KindFits(c)' /\ Budget(c)'
  BY <1>1, <1>3 DEF KindFits, ConnInv, Budget
<1>6. Holds(c)'
  <2>1. Needs(c)' = {} /\ pc'[c] # "port"
    BY <1>1, <1>3 DEF Needs
  <2> QED
    BY <2>1 DEF Holds
<1>7. FieldsOwn(c)'
  <2>1. Kept(c) = {"ctrl", "data"} /\ Kept(c)' = {"ctrl", "data"}
    BY <1>1, <1>3 DEF Kept
  <2>2. 0 \notin Fd
    BY DEF SessionAssumption
  <2>3. /\ sock'[c]["ctrl"] \in {0, sock[c]["ctrl"]}
        /\ sock'[c]["data"] \in {0, sock[c]["data"]}
    BY <1>2 DEF Field
  <2> QED
    BY <1>1, <2>1, <2>2, <2>3 DEF FieldsOwn, ConnInv
<1>8. \A d \in Conn : d # c => Apart(d)
  BY <1>1, <1>2, <1>3 DEF Apart
<1> QED
  BY <1>1, <1>3, <1>4, <1>5, <1>6, <1>7, <1>8, GoodParts

(* connect() fails: the stale number is of no harm unless threads are cancelled. *)
LEMMA ConnectFailsStep ==
  ASSUME SessionAssumption, FaultsApart, TypeOK, NEW c \in Conn, ConnInv(c), ConnectFails(c)
  PROVE  Good(c)
<1> DEFINE n == sock[c][Dialled(c)]
           s == IF Dialled(c) = "data" /\ kind[c] \in Ftp THEN {"ctrl"} ELSE {}
<1>1. pc[c] \in {"ctrlConnect", "dataConnect"} /\ Drop(n) /\ Leave(c, s, "fail")
  BY DEF ConnectFails, DialFails
<1>2. UNCHANGED <<faults, kind, sock, sockfd, passive, failures>>
  BY DEF ConnectFails
<1>3. Dialled(c) \in Needs(c) /\ s \subseteq Needs(c) \ {Dialled(c)}
  BY <1>1 DEF Needs, Dialled
<1>4. /\ owner[n] = c
      /\ \A f \in s : Own(c, sock[c][f]) /\ sock[c][f] # n
  BY <1>3 DEF ConnInv, Holds, Own
<1>5. /\ pc' \in [Conn -> Steps] /\ \A d \in Conn : d # c => pc'[d] = pc[d]
      /\ pc'[c] = IF s = {} THEN "return" ELSE "close"
      /\ todo' \in [Conn -> SUBSET {"data", "ctrl"}] /\ todo'[c] = s
      /\ \A d \in Conn : d # c => todo'[d] = todo[d]
      /\ ret' \in [Conn -> {"ok", "fail", "up"}]
  BY <1>1, LeaveFacts
<1>6. /\ owner' \in OwnerType
      /\ \A f \in Fd : owner'[f] = IF f = n THEN Nobody ELSE owner[f]
  BY <1>1, DropFacts
<1> HIDE DEF n, s
<1>7. TypeOK'
  BY <1>2, <1>5, <1>6 DEF TypeOK, OwnerType
<1>8. KindFits(c)' /\ Budget(c)'
  BY <1>1, <1>2, <1>5 DEF KindFits, ConnInv, Budget
<1>9. Holds(c)'
  <2>1. Needs(c)' = s /\ pc'[c] # "port"
    BY <1>5 DEF Needs
  <2>2. \A f \in s : Own(c, sock[c][f])'
    BY <1>2, <1>4, <1>6 DEF Own
  <2>3. \A f, g \in s : f = g
    BY DEF s
  <2> QED
    BY <2>1, <2>2, <2>3 DEF Holds
<1>10. FieldsOwn(c)'
  BY <1>2 DEF FieldsOwn, ConnectFails, FaultsApart, TypeOK
<1>11. \A d \in Conn : d # c => Apart(d)
  BY <1>2, <1>4, <1>5, <1>6 DEF Apart
<1> QED
  BY <1>1, <1>2, <1>5, <1>7, <1>8, <1>9, <1>10, <1>11, GoodParts

(* socket(): the new number differs from all that belong to c.             *)
LEMMA SocketStep ==
  ASSUME SessionAssumption, TypeOK, NEW c \in Conn, ConnInv(c), Socket(c)
  PROVE  Good(c)
<1> DEFINE x == Dialled(c)
           s == IF x = "data" /\ kind[c] \in Ftp THEN {"ctrl"} ELSE {}
<1>1. /\ pc[c] \in {"ctrlSocket", "dataSocket"}
      /\ UNCHANGED <<faults, kind, sockfd, passive, failures>>
  BY DEF Socket
<1>2. /\ x = IF pc[c] = "ctrlSocket" THEN "ctrl" ELSE "data"
      /\ x \in Field
  BY <1>1 DEF Dialled, Field
<1>3. /\ Needs(c) = s
      /\ pc[c] = "ctrlSocket" => kind[c] \in Ftp
      /\ pc[c] = "dataSocket" /\ kind[c] \in Ftp => passive[c]
  BY <1>1, <1>2 DEF Needs, ConnInv, KindFits
<1>4. \A f \in s : Own(c, sock[c][f]) /\ f # x
  BY <1>2, <1>3 DEF ConnInv, Holds
<1>5. Kept(c) = {"ctrl", "data"} /\ -1 \notin Fd /\ Nobody \notin Conn
  BY <1>1 DEF Kept, SessionAssumption
<1>6. CASE FreeFds = {}
  <2>1. Set(c, x, -1) /\ Leave(c, s, "fail") /\ UNCHANGED owner
    BY <1>6 DEF Socket, DialFails
  <2>2. /\ sock' \in SockType
        /\ sock'[c][x] = -1
        /\ \A g \in Field : g # x => sock'[c][g] = sock[c][g]
        /\ \A d \in Conn : d # c => sock'[d] = sock[d]
    BY <1>2, <2>1, SetFacts
  <2>3. /\ pc' \in [Conn -> Steps] /\ \A d \in Conn : d # c => pc'[d] = pc[d]
        /\ pc'[c] = IF s = {} THEN "return" ELSE "close"
        /\ todo' \in [Conn -> SUBSET {"data", "ctrl"}] /\ todo'[c] = s
        /\ \A d \in Conn : d # c => todo'[d] = todo[d]
        /\ ret' \in [Conn -> {"ok", "fail", "up"}]
    BY <2>1, LeaveFacts
  <2>4. TypeOK'
    BY <1>1, <2>1, <2>2, <2>3 DEF TypeOK, SockType
  <2>5. KindFits(c)' /\ Budget(c)'
    BY <1>1, <2>3 DEF KindFits, ConnInv, Budget
  <2>6. Holds(c)'
    <3>1. Needs(c)' = s /\ pc'[c] # "port" /\ s \subseteq Field
      BY <2>3 DEF Needs, Field
    <3>2. \A f \in s : Own(c, sock[c][f])'
      BY <1>4, <2>1, <2>2, <3>1 DEF Own
    <3> QED
      BY <3>1, <3>2 DEF Holds
  <2>7. FieldsOwn(c)'
    <3>1. Kept(c)' = {"ctrl", "data"}
      BY <2>3 DEF Kept
    <3> QED
      BY <1>1, <1>2, <1>5, <2>1, <2>2, <3>1 DEF FieldsOwn, ConnInv, Field
  <2>8. \A d \in Conn : d # c => Apart(d)
    BY <1>1, <2>1, <2>2, <2>3 DEF Apart
  <2> QED
    BY <1>1, <2>3, <2>4, <2>5, <2>6, <2>7, <2>8, GoodParts
<1>7. CASE FreeFds # {}
  <2> DEFINE p == IF pc[c] = "ctrlSocket" THEN "ctrlConnect" ELSE "dataConnect"
  <2>1. Set(c, x, Lowest) /\ Take(c) /\ Go(c, p) /\ Stay
    BY <1>7 DEF Socket, At
  <2>2. /\ Lowest \in Fd /\ owner[Lowest] = Nobody
        /\ owner' \in OwnerType /\ owner'[Lowest] = c
        /\ \A f \in Fd : f # Lowest => owner'[f] = owner[f]
    BY <1>7, <2>1, TakeFacts
  <2>3. /\ sock' \in SockType
        /\ sock'[c][x] = Lowest
        /\ \A g \in Field : g # x => sock'[c][g] = sock[c][g]
        /\ \A d \in Conn : d # c => sock'[d] = sock[d]
    BY <1>2, <2>1, <2>2, SetFacts
  <2>4. /\ pc' \in [Conn -> Steps] /\ \A d \in Conn : d # c => pc'[d] = pc[d]
        /\ pc'[c] = p
    BY <2>1, GoFacts DEF Steps
  <2>5. TypeOK'
    BY <1>1, <2>1, <2>2, <2>3, <2>4 DEF TypeOK, SockType, OwnerType, Stay
  <2>6. KindFits(c)' /\ Budget(c)'
    BY <1>1, <1>3, <2>4 DEF KindFits, ConnInv, Budget
  <2>7. Holds(c)'
    <3>1. Needs(c)' = s \cup {x} /\ pc'[c] # "port"
      <4>1. CASE pc[c] = "ctrlSocket"
        BY <1>1, <1>2, <1>3, <2>4, <4>1 DEF Needs
      <4>2. CASE pc[c] = "dataSocket" /\ kind[c] \in Ftp
        BY <1>1, <1>2, <1>3, <2>4, <4>2 DEF Needs
      <4>3. CASE pc[c] = "dataSocket" /\ kind[c] \notin Ftp
        BY <1>1, <1>2, <1>3, <2>4, <4>3 DEF Needs
      <4> QED
        BY <1>1, <4>1, <4>2, <4>3
    <3>2. s \subseteq Field /\ \A f, g \in s : f = g
      BY DEF Field
    <3>3. \A f \in s : sock[c][f] \in Fd /\ owner[sock[c][f]] = c /\ f \in Field /\ f # x
      BY <1>4, <3>2 DEF Own
    <3> HIDE DEF s, x, p
    <3>4. \A f \in s : /\ sock'[c][f] \in Fd /\ owner'[sock'[c][f]] = c
                       /\ sock'[c][f] # Lowest
      <4> TAKE f \in s
      <4>1. sock'[c][f] = sock[c][f]
        BY <2>3, <3>3
      <4>2. sock[c][f] # Lowest
        BY <1>5, <2>2, <3>3
      <4> QED
        BY <2>2, <3>3, <4>1, <4>2
    <3>5. \A f \in s \cup {x} : sock'[c][f] \in Fd /\ owner'[sock'[c][f]] = c
      BY <2>2, <2>3, <3>4
    <3>6. \A f, g \in s \cup {x} : f # g => sock'[c][f] # sock'[c][g]
      BY <2>3, <3>2, <3>4
    <3> QED
      BY <3>1, <3>5, <3>6 DEF Holds, Own
  <2>8. FieldsOwn(c)'
    <3>1. Kept(c)' = {"ctrl", "data"}
      BY <2>4 DEF Kept
    <3>2. \A f \in Field : f # x /\ sock[c][f] \in Fd /\ owner[sock[c][f]] = c
             => owner'[sock'[c][f]] = c /\ sock'[c][f] # Lowest
      BY <1>5, <2>2, <2>3
    <3> QED
      BY <1>1, <1>2, <1>5, <2>2, <2>3, <3>1, <3>2 DEF FieldsOwn, ConnInv, Field
  <2>9. \A d \in Conn : d # c => Apart(d)
    BY <1>1, <1>5, <2>1, <2>2, <2>3, <2>4 DEF Apart, Stay
  <2> QED
    BY <1>1, <2>4, <2>5, <2>6, <2>7, <2>8, <2>9, GoodParts
<1> QED
  BY <1>6, <1>7

(* The listening socket: a local holds it until PORT succeeds.             *)
LEMMA BindStep ==
  ASSUME SessionAssumption, TypeOK, NEW c \in Conn, ConnInv(c), Bind(c)
  PROVE  Good(c)
<1>1. /\ pc[c] = "dataSetup" /\ kind[c] \in Ftp /\ Needs(c) = {"ctrl"}
      /\ UNCHANGED <<faults, kind, sock, failures>>
  BY DEF Bind, At, ConnInv, KindFits, Needs
<1>2. PassiveOf(c) /\ ~passive'[c]
  BY DEF Bind, PassiveOf, TypeOK
<1>3. CASE FreeFds = {}
  <2>1. Leave(c, {"ctrl"}, "fail") /\ UNCHANGED <<owner, sockfd>>
    BY <1>3 DEF Bind
  <2> QED
    BY <1>1, <1>2, <2>1, QuietLeave
<1>4. CASE FreeFds # {}
  <2>1. sockfd' = [sockfd EXCEPT ![c] = Lowest] /\ Take(c) /\ Go(c, "port") /\ Stay
    BY <1>4 DEF Bind
  <2>2. /\ Lowest \in Fd /\ owner[Lowest] = Nobody
        /\ owner' \in OwnerType /\ owner'[Lowest] = c
        /\ \A f \in Fd : f # Lowest => owner'[f] = owner[f]
    BY <1>4, <2>1, TakeFacts
  <2>3. /\ pc' \in [Conn -> Steps] /\ \A d \in Conn : d # c => pc'[d] = pc[d]
        /\ pc'[c] = "port"
    BY <2>1, GoFacts DEF Steps
  <2>4. /\ sockfd' \in [Conn -> Fd \cup {0}] /\ sockfd'[c] = Lowest
        /\ \A d \in Conn : d # c => sockfd'[d] = sockfd[d]
    BY <2>1, <2>2 DEF TypeOK
  <2>5. TypeOK'
    BY <1>1, <1>2, <2>1, <2>2, <2>3, <2>4 DEF TypeOK, OwnerType, Stay, PassiveOf
  <2>6. KindFits(c)' /\ Budget(c)'
    BY <1>1, <1>2, <2>3 DEF KindFits, ConnInv, Budget
  <2>7. Own(c, sock[c]["ctrl"]) /\ Nobody \notin Conn
    BY <1>1 DEF ConnInv, Holds, SessionAssumption
  <2>8. Own(c, sock[c]["ctrl"])' /\ sock'[c]["ctrl"] # Lowest
    BY <1>1, <2>2, <2>7 DEF Own
  <2>9. Holds(c)'
    <3>1. Needs(c)' = {"ctrl"}
      BY <2>3 DEF Needs
    <3> QED
      BY <2>2, <2>4, <2>8, <3>1 DEF Holds, Own
  <2>10. FieldsOwn(c)'
    <3>1. Kept(c)' = {"ctrl", "data"} /\ Kept(c) = {"ctrl", "data"}
      BY <1>1, <2>3 DEF Kept
    <3> QED
      BY <1>1, <2>2, <2>7, <3>1 DEF FieldsOwn, ConnInv
  <2>11. \A d \in Conn : d # c => Apart(d)
    BY <1>1, <1>2, <2>1, <2>2, <2>3, <2>4, <2>7 DEF Apart, Stay, PassiveOf
  <2> QED
    BY <1>1, <2>3, <2>5, <2>6, <2>9, <2>10, <2>11, GoodParts
<1> QED
  BY <1>3, <1>4

(* PORT: the local's descriptor becomes listen_sock, or is forgotten.      *)
LEMMA PortStep ==
  ASSUME SessionAssumption, TypeOK, NEW c \in Conn, ConnInv(c), Port(c)
  PROVE  Good(c)
<1>1. /\ pc[c] = "port" /\ kind[c] \in Ftp /\ ~passive[c] /\ Needs(c) = {"ctrl"}
      /\ UNCHANGED <<faults, owner, kind, passive, failures>>
  BY DEF Port, At, ConnInv, KindFits, Needs
<1>2. /\ Own(c, sock[c]["ctrl"]) /\ Own(c, sockfd[c])
      /\ sockfd[c] # sock[c]["ctrl"]
  BY <1>1 DEF ConnInv, Holds
<1>3. /\ sockfd' \in [Conn -> Fd \cup {0}]
      /\ \A d \in Conn : d # c => sockfd'[d] = sockfd[d]
  BY DEF Port, TypeOK
<1>4. CASE Set(c, "listen", sockfd[c]) /\ Go(c, "command") /\ Stay
  <2>1. /\ sock' \in SockType
        /\ sock'[c]["listen"] = sockfd[c]
        /\ \A g \in Field : g # "listen" => sock'[c][g] = sock[c][g]
        /\ \A d \in Conn : d # c => sock'[d] = sock[d]
    BY <1>2, <1>4, SetFacts DEF Own, Field
  <2>2. /\ pc' \in [Conn -> Steps] /\ \A d \in Conn : d # c => pc'[d] = pc[d]
        /\ pc'[c] = "command"
    BY <1>4, GoFacts DEF Steps
  <2>3. TypeOK'
    BY <1>1, <1>3, <1>4, <2>1, <2>2 DEF TypeOK, SockType, Stay
  <2>4. KindFits(c)' /\ Budget(c)'
    BY <1>1, <2>2 DEF KindFits, ConnInv, Budget
  <2>5. Holds(c)'
    <3>1. Needs(c)' = {"ctrl", "listen"}
      BY <1>1, <2>2 DEF Needs
    <3> QED
      BY <1>1, <1>2, <2>1, <2>2, <3>1 DEF Holds, Own, Field
  <2>6. FieldsOwn(c)'
    <3>1. Kept(c)' = {"ctrl", "data"} /\ Kept(c) = {"ctrl", "data"}
      BY <1>1, <2>2 DEF Kept
    <3> QED
      BY <1>1, <2>1, <3>1 DEF FieldsOwn, ConnInv, Field
  <2>7. \A d \in Conn : d # c => Apart(d)
    BY <1>1, <1>3, <1>4, <2>1, <2>2 DEF Apart, Stay
  <2> QED
    BY <1>1, <2>2, <2>3, <2>4, <2>5, <2>6, <2>7, GoodParts
<1>5. CASE Leave(c, {"ctrl"}, "fail") /\ UNCHANGED sock
  <2>1. /\ pc' \in [Conn -> Steps] /\ \A d \in Conn : d # c => pc'[d] = pc[d]
        /\ pc'[c] = "close"
        /\ todo' \in [Conn -> SUBSET {"data", "ctrl"}] /\ todo'[c] = {"ctrl"}
        /\ \A d \in Conn : d # c => todo'[d] = todo[d]
        /\ ret' \in [Conn -> {"ok", "fail", "up"}]
    BY <1>5, LeaveFacts
  <2>2. TypeOK'
    BY <1>1, <1>3, <1>5, <2>1 DEF TypeOK
  <2>3. KindFits(c)' /\ Budget(c)'
    BY <1>1, <2>1 DEF KindFits, ConnInv, Budget
  <2>4. Holds(c)'
    <3>1. Needs(c)' = {"ctrl"}
      BY <2>1 DEF Needs
    <3> QED
      BY <1>1, <1>2, <1>5, <2>1, <3>1 DEF Holds, Own
  <2>5. FieldsOwn(c)'
    <3>1. Kept(c)' = {"ctrl", "data"} /\ Kept(c) = {"ctrl", "data"}
      BY <1>1, <2>1 DEF Kept
    <3> QED
      BY <1>1, <1>5, <3>1 DEF FieldsOwn, ConnInv
  <2>6. \A d \in Conn : d # c => Apart(d)
    BY <1>1, <1>3, <1>5, <2>1 DEF Apart
  <2> QED
    BY <1>1, <2>1, <2>2, <2>3, <2>4, <2>5, <2>6, GoodParts
<1> QED
  BY <1>4, <1>5 DEF Port

(* accept(): a third descriptor of the same connection.                    *)
LEMMA AcceptStep ==
  ASSUME SessionAssumption, TypeOK, NEW c \in Conn, ConnInv(c), Accept(c)
  PROVE  Good(c)
<1>1. /\ pc[c] = "accept" /\ kind[c] \in Ftp /\ Needs(c) = {"ctrl", "listen"}
      /\ UNCHANGED <<faults, kind, sockfd, passive, failures>>
  BY DEF Accept, At, ConnInv, KindFits, Needs
<1>2. /\ Own(c, sock[c]["ctrl"]) /\ Own(c, sock[c]["listen"])
      /\ sock[c]["ctrl"] # sock[c]["listen"]
      /\ Nobody \notin Conn
  BY <1>1 DEF ConnInv, Holds, SessionAssumption
<1>3. CASE FreeFds # {} /\ Set(c, "data", Lowest) /\ Take(c) /\ Go(c, "unlisten") /\ Stay
  <2>1. /\ Lowest \in Fd /\ owner[Lowest] = Nobody
        /\ owner' \in OwnerType /\ owner'[Lowest] = c
        /\ \A f \in Fd : f # Lowest => owner'[f] = owner[f]
    BY <1>3, TakeFacts
  <2>2. /\ sock' \in SockType
        /\ sock'[c]["data"] = Lowest
        /\ sock'[c]["ctrl"] = sock[c]["ctrl"] /\ sock'[c]["listen"] = sock[c]["listen"]
        /\ \A d \in Conn : d # c => sock'[d] = sock[d]
    BY <1>3, <2>1, SetFacts DEF Field
  <2>3. /\ pc' \in [Conn -> Steps] /\ \A d \in Conn : d # c => pc'[d] = pc[d]
        /\ pc'[c] = "unlisten"
    BY <1>3, GoFacts DEF Steps
  <2>4. TypeOK'
    BY <1>1, <1>3, <2>1, <2>2, <2>3 DEF TypeOK, SockType, OwnerType, Stay
  <2>5. KindFits(c)' /\ Budget(c)'
    BY <1>1, <2>3 DEF KindFits, ConnInv, Budget
  <2>6. /\ Own(c, sock[c]["ctrl"])' /\ sock'[c]["ctrl"] # Lowest
        /\ Own(c, sock[c]["listen"])' /\ sock'[c]["listen"] # Lowest
        /\ sock'[c]["ctrl"] # sock'[c]["listen"]
    BY <1>2, <2>1, <2>2 DEF Own
  <2>7. Holds(c)'
    <3>1. Needs(c)' = {"ctrl", "data", "listen"} /\ pc'[c] # "port"
      BY <2>3 DEF Needs
    <3> QED
      BY <2>1, <2>2, <2>6, <3>1 DEF Holds, Own
  <2>8. FieldsOwn(c)'
    <3>1. Kept(c)' = {"ctrl", "data"}
      BY <2>3 DEF Kept
    <3> QED
      BY <2>1, <2>2, <2>6, <3>1 DEF FieldsOwn, Own
  <2>9. \A d \in Conn : d # c => Apart(d)
    BY <1>1, <1>2, <1>3, <2>1, <2>2, <2>3 DEF Apart, Stay
  <2> QED
    BY <1>1, <2>3, <2>4, <2>5, <2>7, <2>8, <2>9, GoodParts
<1>4. CASE /\ Leave(c, IF kind[c] = "ftp" THEN {} ELSE {"ctrl"}, "fail")
           /\ UNCHANGED <<owner, sock>>
  <2>1. PassiveOf(c)
    BY <1>1 DEF PassiveOf, TypeOK
  <2> QED
    BY <1>1, <1>4, <2>1, QuietLeave
<1> QED
  BY <1>3, <1>4 DEF Accept

(* The listening socket is closed, the other two stay.                     *)
LEMMA UnlistenStep ==
  ASSUME SessionAssumption, TypeOK, NEW c \in Conn, ConnInv(c), Unlisten(c)
  PROVE  Good(c)
<1> DEFINE n == sock[c]["listen"]
<1>1. /\ pc[c] = "unlisten" /\ kind[c] \in Ftp /\ Needs(c) = {"ctrl", "data", "listen"}
      /\ UNCHANGED <<faults, kind, sock, sockfd, passive, failures, todo, ret>>
      /\ Drop(n)
  BY DEF Unlisten, At, ConnInv, KindFits, Needs, Stay
<1>2. /\ Own(c, sock[c]["ctrl"]) /\ Own(c, sock[c]["data"]) /\ Own(c, n)
      /\ sock[c]["ctrl"] # n /\ sock[c]["data"] # n
      /\ sock[c]["ctrl"] # sock[c]["data"]
  BY <1>1 DEF ConnInv, Holds
<1>3. /\ pc' \in [Conn -> Steps] /\ \A d \in Conn : d # c => pc'[d] = pc[d]
      /\ pc'[c] = "transfer"
  BY GoFacts DEF Unlisten, Steps
<1>4. /\ owner' \in OwnerType
      /\ \A f \in Fd : owner'[f] = IF f = n THEN Nobody ELSE owner[f]
  BY <1>1, DropFacts
<1>5. TypeOK'
  BY <1>1, <1>3, <1>4 DEF TypeOK, OwnerType
<1>6. KindFits(c)' /\ Budget(c)'
  BY <1>1, <1>3 DEF KindFits, ConnInv, Budget
<1>7. Own(c, sock[c]["ctrl"])' /\ Own(c, sock[c]["data"])'
  BY <1>1, <1>2, <1>4 DEF Own
<1>8. Holds(c)'
  <2>1. Needs(c)' = {"ctrl", "data"} /\ pc'[c] # "port"
    BY <1>1, <1>3 DEF Needs
  <2> QED
    BY <1>1, <1>2, <1>7, <2>1 DEF Holds
<1>9. FieldsOwn(c)'
  <2>1. Kept(c)' = {"ctrl", "data"}
    BY <1>3 DEF Kept
  <2> QED
    BY <1>1, <1>2, <1>7, <2>1 DEF FieldsOwn, Own
<1>10. \A d \in Conn : d # c => Apart(d)
  BY <1>1, <1>2, <1>3, <1>4 DEF Apart, Own
<1> QED
  BY <1>1, <1>3, <1>5, <1>6, <1>8, <1>9, <1>10, GoodParts

(* close_sock closes the descriptor of one field, which is the connection's own. *)
LEMMA CloseStep ==
  ASSUME SessionAssumption, TypeOK, NEW c \in Conn, ConnInv(c), Close(c)
  PROVE  Good(c)
<1> DEFINE x == First(todo[c])
           n == sock[c][x]
<1>1. /\ pc[c] = "close" /\ Needs(c) = todo[c]
      /\ UNCHANGED <<faults, kind, sock, sockfd, passive, failures, todo, ret>>
      /\ Drop(n)
  BY DEF Close, At, Needs, Stay
<1>2. todo[c] # {} /\ todo[c] \subseteq {"data", "ctrl"} /\ x \in todo[c]
  BY <1>1 DEF ConnInv, KindFits, TypeOK, First
<1>3. Own(c, n) /\ \A f \in todo[c] : Own(c, sock[c][f]) /\ (f # x => sock[c][f] # n)
  BY <1>1, <1>2 DEF ConnInv, Holds
<1>4. /\ pc' \in [Conn -> Steps] /\ \A d \in Conn : d # c => pc'[d] = pc[d]
      /\ pc'[c] = "zero"
  BY GoFacts DEF Close, Steps
<1>5. /\ owner' \in OwnerType
      /\ \A f \in Fd : owner'[f] = IF f = n THEN Nobody ELSE owner[f]
  BY <1>1, DropFacts
<1>6. /\ Needs(c)' = todo[c] \ {x}
      /\ Kept(c) = {"ctrl", "data"} /\ Kept(c)' = {"ctrl", "data"} \ {x}
  BY <1>1, <1>4 DEF Needs, Kept
<1>7. FieldsOwn(c)'
  <2>1. CASE x = "data"
    <3>1. Kept(c)' = {"ctrl"} /\ n = sock[c]["data"]
      BY <1>6, <2>1
    <3> QED
      BY <1>1, <1>3, <1>4, <1>5, <1>6, <2>1, <3>1 DEF FieldsOwn, ConnInv
  <2>2. CASE x = "ctrl"
    BY <1>1, <1>3, <1>4, <1>5, <1>6, <2>2, ZenonT(60) DEF FieldsOwn, ConnInv, Own
  <2> QED
    BY <2>1, <2>2 DEF First
<1>8. KindFits(c)' /\ Budget(c)'
  BY <1>1, <1>2, <1>4 DEF KindFits, ConnInv, Budget
<1> HIDE DEF x, n
<1>9. TypeOK'
  BY <1>1, <1>4, <1>5 DEF TypeOK, OwnerType
<1>10. Holds(c)'
  <2>1. \A f \in todo[c] \ {x} : sock[c][f] \in Fd /\ owner'[sock[c][f]] = c
    BY <1>3, <1>5 DEF Own
  <2>2. \A f, g \in todo[c] \ {x} : f = g
    BY <1>2
  <2> QED
    BY <1>1, <1>4, <1>6, <2>1, <2>2 DEF Holds, Own
<1>11. \A d \in Conn : d # c => Apart(d)
  BY <1>1, <1>3, <1>4, <1>5 DEF Apart, Own
<1> QED
  BY <1>1, <1>4, <1>7, <1>8, <1>9, <1>10, <1>11, GoodParts

(* close_sock zeroes the field; what is left to be closed is still open.   *)
LEMMA ZeroStep ==
  ASSUME SessionAssumption, TypeOK, NEW c \in Conn, ConnInv(c), Zero(c)
  PROVE  Good(c)
<1> DEFINE x == First(todo[c])
           p == IF todo[c] \ {x} = {} THEN "return" ELSE "close"
<1>1. /\ pc[c] = "zero" /\ Needs(c) = todo[c] \ {x} /\ Kept(c) = {"ctrl", "data"} \ {x}
      /\ UNCHANGED <<faults, owner, kind, sockfd, passive, failures, ret>>
  BY DEF Zero, At, Needs, Kept
<1>2. todo[c] # {} /\ todo[c] \subseteq {"data", "ctrl"} /\ x \in {"data", "ctrl"}
  BY <1>1 DEF ConnInv, KindFits, TypeOK, First
<1>3. /\ todo' \in [Conn -> SUBSET {"data", "ctrl"}] /\ todo'[c] = todo[c] \ {x}
      /\ \A d \in Conn : d # c => todo'[d] = todo[d]
  BY DEF Zero, TypeOK
<1>4. /\ sock' \in SockType
      /\ sock'[c][x] = 0
      /\ \A g \in Field : g # x => sock'[c][g] = sock[c][g]
      /\ \A d \in Conn : d # c => sock'[d] = sock[d]
  BY <1>2, SetFacts DEF Zero, Field
<1>5. /\ pc' \in [Conn -> Steps] /\ \A d \in Conn : d # c => pc'[d] = pc[d]
      /\ pc'[c] = p
  BY <1>3, GoFacts DEF Zero, Steps
<1>6. Needs(c)' = todo[c] \ {x} /\ Kept(c)' = {"ctrl", "data"}
  BY <1>3, <1>5 DEF Needs, Kept
<1>7. KindFits(c)' /\ Budget(c)'
  BY <1>1, <1>3, <1>5 DEF KindFits, ConnInv, Budget
<1>8. FieldsOwn(c)'
  <2>1. 0 \notin Fd
    BY DEF SessionAssumption
  <2>2. CASE x = "data"
    BY <1>1, <1>4, <1>6, <2>1, <2>2 DEF FieldsOwn, ConnInv, Field
  <2>3. CASE x = "ctrl"
    BY <1>1, <1>4, <1>6, <2>1, <2>3 DEF FieldsOwn, ConnInv, Field
  <2> QED
    BY <1>2, <2>2, <2>3
<1>9. pc'[c] \in {"return", "close"}
  BY <1>5
<1> HIDE DEF x, p
<1>10. TypeOK'
  BY <1>1, <1>3, <1>4, <1>5 DEF TypeOK, SockType
<1>11. Holds(c)'
  <2>1. \A f \in todo[c] \ {x} : sock'[c][f] = sock[c][f]
    BY <1>2, <1>4 DEF Field
  <2>2. \A f \in todo[c] \ {x} : Own(c, sock[c][f])
    BY <1>1 DEF ConnInv, Holds
  <2>3. \A f, g \in todo[c] \ {x} : f = g
    BY <1>2
  <2> QED
    BY <1>1, <1>6, <1>9, <2>1, <2>2, <2>3 DEF Holds, Own
<1>12. \A d \in Conn : d # c => Apart(d)
  BY <1>1, <1>3, <1>4, <1>5 DEF Apart
<1> QED
  BY <1>1, <1>7, <1>8, <1>9, <1>10, <1>11, <1>12, GoodParts

(* The attempt's end: an attempt is counted, and only then is another begun. *)
LEMMA ReturnStep ==
  ASSUME SessionAssumption, TypeOK, NEW c \in Conn, ConnInv(c), Return(c)
  PROVE  Good(c)
<1> DEFINE k == IF ret[c] = "ok" THEN failures[c] ELSE failures[c] + 1
           p == IF ret[c] = "fail" /\ k < MaxAttempts THEN "idle" ELSE "done"
<1>1. /\ pc[c] = "return"
      /\ UNCHANGED <<faults, owner, kind, sock, sockfd, todo, ret>>
  BY DEF Return, At, Stay
<1>2. failures[c] \in 0 .. MaxAttempts /\ failures[c] < MaxAttempts /\ MaxAttempts \in Nat
  BY <1>1 DEF ConnInv, Budget, TypeOK, SessionAssumption
<1>3. k \in 0 .. MaxAttempts
  BY <1>2
<1>4. failures' = [failures EXCEPT ![c] = k]
  BY DEF Return
<1>5. p = "idle" => k < MaxAttempts
  OBVIOUS
<1> HIDE DEF k
<1>6. /\ failures' \in [Conn -> 0 .. MaxAttempts] /\ failures'[c] = k
      /\ \A d \in Conn : d # c => failures'[d] = failures[d]
  BY <1>3, <1>4 DEF TypeOK
<1>7. /\ pc' \in [Conn -> Steps] /\ \A d \in Conn : d # c => pc'[d] = pc[d]
      /\ pc'[c] = p
  BY <1>6, GoFacts DEF Return, Steps
<1>8. PassiveOf(c)
  BY DEF Return, PassiveOf, TypeOK
<1>9. TypeOK'
  BY <1>1, <1>6, <1>7, <1>8 DEF TypeOK, PassiveOf
<1>10. KindFits(c)' /\ Budget(c)'
  BY <1>1, <1>5, <1>6, <1>7 DEF KindFits, Budget
<1>11. Holds(c)' /\ FieldsOwn(c)'
  <2>1. pc'[c] \in {"idle", "done"}
    BY <1>7
  <2>2. Needs(c)' = {} /\ Kept(c)' = {"ctrl", "data"} /\ Kept(c) = {"ctrl", "data"}
    BY <1>1, <2>1 DEF Needs, Kept
  <2> QED
    BY <1>1, <2>1, <2>2 DEF Holds, FieldsOwn, ConnInv
<1>12. \A d \in Conn : d # c => Apart(d)
  BY <1>1, <1>6, <1>7, <1>8 DEF Apart, PassiveOf
<1> QED
  BY <1>1, <1>7, <1>9, <1>10, <1>11, <1>12, GoodParts

(* The main thread's relaunch: within max_attempts.                        *)
LEMMA RelaunchStep ==
  ASSUME SessionAssumption, TypeOK, NEW c \in Conn, ConnInv(c), Relaunch(c)
  PROVE  Good(c)
<1>1. /\ pc[c] = "done" /\ failures[c] < MaxAttempts
      /\ UNCHANGED <<faults, owner, kind, sock, sockfd, passive, failures, todo, ret>>
  BY DEF Relaunch, At, Stay
<1>2. /\ pc' \in [Conn -> Steps] /\ \A d \in Conn : d # c => pc'[d] = pc[d]
      /\ pc'[c] = "idle"
  BY GoFacts DEF Relaunch, Steps
<1>3. TypeOK'
  BY <1>1, <1>2 DEF TypeOK
<1>4. KindFits(c)' /\ Budget(c)'
  BY <1>1, <1>2 DEF KindFits, Budget
<1>5. Holds(c)' /\ FieldsOwn(c)'
  <2>1. Needs(c)' = {} /\ Kept(c)' = {"ctrl", "data"} /\ Kept(c) = {"ctrl", "data"}
    BY <1>1, <1>2 DEF Needs, Kept
  <2> QED
    BY <1>1, <1>2, <2>1 DEF Holds, FieldsOwn, ConnInv
<1>6. \A d \in Conn : d # c => Apart(d)
  BY <1>1, <1>2 DEF Apart
<1> QED
  BY <1>1, <1>2, <1>3, <1>4, <1>5, <1>6, GoodParts
-----------------------------------------------------------------------------
(* A cancelled thread's fields name no descriptor of another connection.   *)
LEMMA CancelStep ==
  ASSUME SessionAssumption, FaultsApart, TypeOK, NEW c \in Conn, ConnInv(c), Cancel(c)
  PROVE  Good(c)
<1>1. /\ "cancel" \in faults /\ pc[c] \notin {"zero", "gone", "done"}
      /\ UNCHANGED <<faults, owner, kind, sock, failures>>
  BY DEF Cancel, At, InAttempt, FaultsApart, TypeOK
<1>2. /\ pc' \in [Conn -> Steps] /\ \A d \in Conn : d # c => pc'[d] = pc[d]
      /\ pc'[c] \in {"cleanData", "gone"} /\ pc[c] \notin {"cleanData", "gone"}
  BY GoFacts DEF Cancel, Steps, InAttempt, At
<1>3. /\ todo' \in [Conn -> SUBSET {"data", "ctrl"}]
      /\ \A d \in Conn : d # c => todo'[d] = todo[d]
      /\ sockfd' \in [Conn -> Fd \cup {0}]
      /\ \A d \in Conn : d # c => sockfd'[d] = sockfd[d]
      /\ ret' \in [Conn -> {"ok", "fail", "up"}]
  BY DEF Cancel, TypeOK
<1>4. PassiveOf(c)
  BY DEF Cancel, PassiveOf, TypeOK
<1>5. TypeOK'
  BY <1>1, <1>2, <1>3, <1>4 DEF TypeOK, PassiveOf
<1>6. KindFits(c)' /\ Budget(c)'
  BY <1>1, <1>2 DEF KindFits, Budget, ConnInv
<1>7. Holds(c)' /\ FieldsOwn(c)'
  <2>1. Needs(c)' = {} /\ Kept(c)' = {"ctrl", "data"} /\ Kept(c) = {"ctrl", "data"}
    BY <1>1, <1>2 DEF Needs, Kept
  <2> QED
    BY <1>1, <1>2, <2>1 DEF Holds, FieldsOwn, ConnInv
<1>8. \A d \in Conn : d # c => Apart(d)
  BY <1>1, <1>2, <1>3, <1>4 DEF Apart, PassiveOf
<1> QED
  BY <1>1, <1>2, <1>5, <1>6, <1>7, <1>8, GoodParts

(* The handler closes the data socket only if it is the connection's own.  *)
LEMMA CleanDataStep ==
  ASSUME SessionAssumption, TypeOK, NEW c \in Conn, ConnInv(c), CleanData(c)
  PROVE  Good(c)
<1> DEFINE n == sock[c]["data"]
           p == IF kind[c] \in Ftp THEN "cleanCtrl" ELSE "gone"
<1>1. /\ pc[c] = "cleanData" /\ "cancel" \in faults
      /\ UNCHANGED <<faults, kind, sockfd, passive, failures, todo, ret>>
  BY DEF CleanData, At, Stay, ConnInv, KindFits
<1>2. /\ n \in Fd => owner[n] = c
      /\ sock[c]["ctrl"] \in Fd => owner[sock[c]["ctrl"]] = c /\ sock[c]["ctrl"] # n
      /\ 0 \notin Fd
  <2>1. Kept(c) = {"ctrl", "data"}
    BY <1>1 DEF Kept
  <2> QED
    BY <1>1, <2>1 DEF ConnInv, FieldsOwn, SessionAssumption
<1>3. /\ pc' \in [Conn -> Steps] /\ \A d \in Conn : d # c => pc'[d] = pc[d]
      /\ pc'[c] = p
  BY GoFacts DEF CleanData, Steps
<1>4. /\ owner' \in OwnerType
      /\ \A f \in Fd : f # n => owner'[f] = owner[f]
  BY DropFacts DEF CleanData, TypeOK, OwnerType
<1>5. /\ sock' \in SockType
      /\ \A f \in Field : f # "data" => sock'[c][f] = sock[c][f]
      /\ \A d \in Conn : d # c => sock'[d] = sock[d]
  BY SetFacts DEF CleanData, Field, TypeOK, SockType
<1>6. kind[c] \in Ftp => sock'[c]["data"] \notin Fd
  BY <1>2, SetFacts DEF CleanData, Field, Valid, SessionAssumption, TypeOK
<1>7. TypeOK'
  BY <1>1, <1>3, <1>4, <1>5 DEF TypeOK, SockType, OwnerType
<1>8. KindFits(c)' /\ Budget(c)'
  BY <1>1, <1>3 DEF KindFits, Budget, ConnInv
<1>9. Holds(c)'
  <2>1. Needs(c)' = {} /\ pc'[c] # "port"
    BY <1>3 DEF Needs
  <2> QED
    BY <2>1 DEF Holds
<1>10. FieldsOwn(c)'
  <2>1. CASE kind[c] \in Ftp
    <3>1. Kept(c)' = {"ctrl", "data"} /\ sock'[c]["ctrl"] = sock[c]["ctrl"]
      BY <1>3, <1>5, <2>1 DEF Kept, Field
    <3> QED
      BY <1>2, <1>4, <1>6, <2>1, <3>1 DEF FieldsOwn
  <2>2. CASE kind[c] \notin Ftp
    BY <1>3, <2>2 DEF FieldsOwn
  <2> QED
    BY <2>1, <2>2
<1>11. \A d \in Conn : d # c => Apart(d)
  BY <1>1, <1>2, <1>3, <1>4, <1>5 DEF Apart
<1>12. pc'[c] # pc[c]
  BY <1>1, <1>3
<1> QED
  BY <1>1, <1>7, <1>8, <1>9, <1>10, <1>11, <1>12, GoodParts

(* The handler closes the control socket only if it is the connection's own. *)
LEMMA CleanCtrlStep ==
  ASSUME SessionAssumption, TypeOK, NEW c \in Conn, ConnInv(c), CleanCtrl(c)
  PROVE  Good(c)
<1> DEFINE n == sock[c]["ctrl"]
<1>1. /\ pc[c] = "cleanCtrl" /\ "cancel" \in faults
      /\ UNCHANGED <<faults, kind, sockfd, passive, failures, todo, ret>>
  BY DEF CleanCtrl, At, Stay, ConnInv, KindFits
<1>2. n \in Fd => owner[n] = c
  <2>1. Kept(c) = {"ctrl", "data"}
    BY <1>1 DEF Kept
  <2> QED
    BY <1>1, <2>1 DEF ConnInv, FieldsOwn
<1>3. /\ pc' \in [Conn -> Steps] /\ \A d \in Conn : d # c => pc'[d] = pc[d]
      /\ pc'[c] = "gone"
  BY GoFacts DEF CleanCtrl, Steps
<1>4. /\ owner' \in OwnerType
      /\ \A f \in Fd : f # n => owner'[f] = owner[f]
  BY DropFacts DEF CleanCtrl, TypeOK, OwnerType
<1>5. /\ sock' \in SockType
      /\ \A d \in Conn : d # c => sock'[d] = sock[d]
  BY SetFacts DEF CleanCtrl, Field, TypeOK, SockType
<1>6. TypeOK'
  BY <1>1, <1>3, <1>4, <1>5 DEF TypeOK, SockType, OwnerType
<1>7. KindFits(c)' /\ Budget(c)'
  BY <1>1, <1>3 DEF KindFits, Budget, ConnInv
<1>8. Holds(c)' /\ FieldsOwn(c)'
  <2>1. Needs(c)' = {}
    BY <1>3 DEF Needs
  <2> QED
    BY <1>3, <2>1 DEF Holds, FieldsOwn
<1>9. \A d \in Conn : d # c => Apart(d)
  BY <1>1, <1>2, <1>3, <1>4, <1>5 DEF Apart
<1> QED
  BY <1>1, <1>3, <1>6, <1>7, <1>8, <1>9, GoodParts
-----------------------------------------------------------------------------
(* Nothing is open at first.                                               *)
LEMMA InitHolds ==
  ASSUME SessionAssumption, Init
  PROVE  IInv
<1>1. TypeOK
  BY DEF SessionAssumption, Init, TypeOK, Steps, NoSocks, Field
<1> SUFFICES ASSUME NEW c \in Conn PROVE ConnInv(c)
  BY <1>1 DEF IInv
<1>2. pc[c] = "idle" /\ sock[c] = NoSocks /\ failures[c] = 0
  BY DEF Init
<1>3. KindFits(c) /\ Budget(c)
  BY <1>2 DEF KindFits, Budget, SessionAssumption
<1>4. Holds(c) /\ FieldsOwn(c)
  <2>1. Needs(c) = {} /\ Kept(c) = {"ctrl", "data"}
    BY <1>2 DEF Needs, Kept
  <2>2. sock[c]["ctrl"] = 0 /\ sock[c]["data"] = 0 /\ 0 \notin Fd
    BY <1>2 DEF NoSocks, Field, SessionAssumption
  <2> QED
    BY <1>2, <2>1, <2>2 DEF Holds, FieldsOwn
<1> QED
  BY <1>3, <1>4 DEF ConnInv

(* A step of connection c. *)
StepOf(c) ==
  \/ Begin(c) \/ UnknownHost(c) \/ Socket(c) \/ Connected(c) \/ ConnectFails(c)
  \/ Greeting(c) \/ Login(c) \/ Pasv(c) \/ Bind(c) \/ Port(c) \/ Command(c)
  \/ Accept(c) \/ Unlisten(c) \/ Headers(c) \/ Transferred(c)
  \/ Close(c) \/ Zero(c) \/ Return(c) \/ Relaunch(c)
  \/ Cancel(c) \/ CleanData(c) \/ CleanCtrl(c)

(* Every step is good for the connection that takes it,                    *)
LEMMA StepIsGood ==
  ASSUME SessionAssumption, FaultsApart, IInv, NEW c \in Conn, StepOf(c)
  PROVE  Good(c)
<1>1. TypeOK /\ ConnInv(c)
  BY DEF IInv
<1>4. CASE Begin(c)
  BY <1>1, <1>4, BeginStep
<1>5. CASE UnknownHost(c)
  BY <1>1, <1>5, UnknownHostStep
<1>6. CASE Socket(c)
  BY <1>1, <1>6, SocketStep
<1>7. CASE Connected(c)
  BY <1>1, <1>7, ConnectedStep
<1>8. CASE ConnectFails(c)
  BY <1>1, <1>8, ConnectFailsStep
<1>9. CASE Greeting(c)
  BY <1>1, <1>9, GreetingStep
<1>10. CASE Login(c)
  BY <1>1, <1>10, LoginStep
<1>11. CASE Pasv(c)
  BY <1>1, <1>11, PasvStep
<1>12. CASE Bind(c)
  BY <1>1, <1>12, BindStep
<1>13. CASE Port(c)
  BY <1>1, <1>13, PortStep
<1>14. CASE Command(c)
  BY <1>1, <1>14, CommandStep
<1>15. CASE Accept(c)
  BY <1>1, <1>15, AcceptStep
<1>16. CASE Unlisten(c)
  BY <1>1, <1>16, UnlistenStep
<1>17. CASE Headers(c)
  BY <1>1, <1>17, HeadersStep
<1>18. CASE Transferred(c)
  BY <1>1, <1>18, TransferredStep
<1>19. CASE Close(c)
  BY <1>1, <1>19, CloseStep
<1>20. CASE Zero(c)
  BY <1>1, <1>20, ZeroStep
<1>21. CASE Return(c)
  BY <1>1, <1>21, ReturnStep
<1>22. CASE Relaunch(c)
  BY <1>1, <1>22, RelaunchStep
<1>23. CASE Cancel(c)
  BY <1>1, <1>23, CancelStep
<1>24. CASE CleanData(c)
  BY <1>1, <1>24, CleanDataStep
<1>25. CASE CleanCtrl(c)
  BY <1>1, <1>25, CleanCtrlStep
<1> QED
  BY <1>4, <1>5, <1>6, <1>7, <1>8, <1>9, <1>10, <1>11, <1>12, <1>13, <1>14,
     <1>15, <1>16, <1>17, <1>18, <1>19, <1>20, <1>21, <1>22, <1>23, <1>24, <1>25 DEF StepOf

(* and every step of the process is one of a connection.                   *)
LEMMA StepOfOne ==
  ASSUME SessionAssumption, FaultsApart, IInv, Next
  PROVE  \E c \in Conn : Good(c)
<1>1. PICK c \in Conn : StepOf(c)
  BY DEF Next, StepOf
<1> QED
  BY <1>1, StepIsGood

(* The invariant is inductive.                                             *)
LEMMA StepHolds ==
  ASSUME SessionAssumption, FaultsApart, IInv, [Next]_vars
  PROVE  IInv'
<1>1. CASE Next
  <2>1. PICK c \in Conn : Good(c)
    BY <1>1, StepOfOne
  <2>2. TypeOK' /\ ConnInv(c)' /\ UNCHANGED <<faults, kind>>
    BY <2>1 DEF Good
  <2>3. ASSUME NEW d \in Conn, d # c
        PROVE  ConnInv(d)'
    <3>1. TypeOK /\ ConnInv(d)
      BY DEF IInv
    <3>2. Apart(d)
      BY <2>1, <2>3 DEF Good
    <3> QED
      BY <2>2, <3>1, <3>2, Frame
  <2> QED
    BY <2>2, <2>3 DEF IInv
<1>2. CASE UNCHANGED vars
  <2>1. TypeOK /\ TypeOK'
    BY <1>2 DEF vars, IInv, TypeOK
  <2>2. ASSUME NEW d \in Conn
        PROVE  ConnInv(d)'
    <3>1. ConnInv(d) /\ UNCHANGED <<faults, kind>>
      BY <1>2 DEF IInv, vars
    <3>2. Apart(d)
      BY <1>2 DEF Apart, vars
    <3> QED
      BY <2>1, <3>1, <3>2, Frame
  <2> QED
    BY <2>1, <2>2 DEF IInv
<1> QED
  BY <1>1, <1>2

(* Whatever hosts fail or threads are cancelled, but never both in one     *)
(* behaviour, every attempt's step knows which descriptors are its own:    *)
(* what the routines of ftp-retr.c and http-retr.c rely on is inductive.   *)
THEOREM Inductive == FaultsApart => (Spec => []IInv)
<1> SUFFICES ASSUME FaultsApart PROVE Spec => []IInv
  OBVIOUS
<1>1. Init => IInv
  BY SessionAssumption, InitHolds
<1>2. IInv /\ [Next]_vars => IInv'
  BY SessionAssumption, StepHolds
<1> QED
  BY <1>1, <1>2, PTL DEF Spec

(* The type invariant, in particular: no attempt begins beyond             *)
(* max_attempts, and no field ever holds a number outside the table other  *)
(* than 0 and the -1 of a failed socket().                                 *)
THEOREM TypeCorrect == FaultsApart => (Spec => []TypeOK)
<1>1. IInv => TypeOK
  BY DEF IInv
<1> QED
  BY <1>1, Inductive, PTL

(* For any number of connections, descriptors and attempts: no step talks  *)
(* over or closes a socket that is closed or belongs to another thread.    *)
THEOREM OwnSocketsOnly == FaultsApart => (Spec => []UsesOwnSockets)
<1>1. IInv => UsesOwnSockets
  BY DEF IInv, ConnInv, Holds, UsesOwnSockets, Own
<1> QED
  BY <1>1, Inductive, PTL

(* For any number of connections: a descriptor disappears from the table   *)
(* only by a step of the thread that opened it.                            *)
THEOREM ClosesOwn == FaultsApart => (Spec => ClosesOnlyOwn)
<1> DEFINE Closes == \A f \in Fd : owner[f] # Nobody /\ owner'[f] # owner[f]
                        => pc'[owner[f]] # pc[owner[f]]
<1> SUFFICES ASSUME FaultsApart PROVE Spec => ClosesOnlyOwn
  OBVIOUS
<1>1. IInv /\ [Next]_vars => [Closes]_vars
  <2> SUFFICES ASSUME IInv, Next PROVE Closes
    OBVIOUS
  <2>1. PICK c \in Conn : Good(c)
    BY SessionAssumption, StepOfOne
  <2>2. TypeOK
    BY DEF IInv
  <2> SUFFICES ASSUME NEW f \in Fd, owner[f] # Nobody, owner'[f] # owner[f]
               PROVE  pc'[owner[f]] # pc[owner[f]]
    OBVIOUS
  <2>3. owner[f] \in Conn
    BY <2>2 DEF TypeOK
  <2>4. owner[f] = c
    BY <2>1, <2>3 DEF Good, Apart
  <2> QED
    BY <2>1, <2>4 DEF Good
<1> QED
  BY <1>1, Inductive, PTL DEF Spec, ClosesOnlyOwn

-----------------------------------------------------------------------------
(***************************************************************************)
(* Counting: what a set bounded by a number gains and loses.               *)
(***************************************************************************)

(* A smaller set.                                                          *)
LEMMA Fewer ==
  \A S, T, m, n : AtMost(S, m) /\ T \subseteq S /\ m \in Int /\ n \in Int /\ m <= n => AtMost(T, n)
<1> SUFFICES ASSUME NEW S, NEW T, NEW m, NEW n,
                    AtMost(S, m), T \subseteq S, m \in Int, n \in Int, m <= n
             PROVE  AtMost(T, n)
  OBVIOUS
<1>1. IsFiniteSet(S) /\ Cardinality(S) <= m
  BY DEF AtMost
<1>2. IsFiniteSet(T) /\ Cardinality(T) <= Cardinality(S)
  BY <1>1, FS_Subset
<1>3. Cardinality(S) \in Nat /\ Cardinality(T) \in Nat
  BY <1>1, <1>2, FS_CardinalityType
<1> QED
  BY <1>1, <1>2, <1>3 DEF AtMost

(* At most one member more.                                                *)
LEMMA OneMore ==
  \A S, T, x, m, n : /\ AtMost(S, m) /\ T \subseteq S \cup {x}
                     /\ m \in Int /\ n \in Int /\ m < n
                     => AtMost(T, n)
<1> SUFFICES ASSUME NEW S, NEW T, NEW x, NEW m, NEW n, AtMost(S, m),
                    T \subseteq S \cup {x}, m \in Int, n \in Int, m < n
             PROVE  AtMost(T, n)
  OBVIOUS
<1>1. IsFiniteSet(S) /\ Cardinality(S) <= m
  BY DEF AtMost
<1>2. IsFiniteSet(S \cup {x}) /\ Cardinality(S \cup {x}) <= Cardinality(S) + 1
  <2>1. /\ IsFiniteSet(S \cup {x})
        /\ Cardinality(S \cup {x}) = IF x \in S THEN Cardinality(S) ELSE Cardinality(S) + 1
    BY <1>1, FS_AddElement
  <2> QED
    BY <1>1, <2>1, FS_CardinalityType
<1>3. Cardinality(S) \in Nat /\ Cardinality(S \cup {x}) \in Nat
  BY <1>1, <1>2, FS_CardinalityType
<1>4. AtMost(S \cup {x}, m + 1) /\ m + 1 \in Int /\ m + 1 <= n
  BY <1>1, <1>2, <1>3 DEF AtMost
<1> QED
  BY <1>4, Fewer, Zenon

(* At most two members more.                                               *)
LEMMA TwoMore ==
  \A S, T, x, y, m, k, n : /\ AtMost(S, m) /\ T \subseteq S \cup {x, y}
                           /\ m \in Int /\ k \in Int /\ n \in Int /\ m < k /\ k < n
                           => AtMost(T, n)
<1> SUFFICES ASSUME NEW S, NEW T, NEW x, NEW y, NEW m, NEW k, NEW n,
                    AtMost(S, m), T \subseteq S \cup {x, y},
                    m \in Int, k \in Int, n \in Int, m < k, k < n
             PROVE  AtMost(T, n)
  OBVIOUS
<1>1. PICK U : U = S \cup {x}
  OBVIOUS
<1>2. AtMost(U, k)
  <2>1. U \subseteq S \cup {x}
    BY <1>1
  <2> QED
    BY <2>1, OneMore, Zenon
<1>3. T \subseteq U \cup {y}
  BY <1>1
<1> QED
  BY <1>2, <1>3, OneMore, Zenon
-----------------------------------------------------------------------------
(***************************************************************************)
(* How the accounts of one connection change.                              *)
(***************************************************************************)

(* All that the accounts count are small numbers.                          *)
LEMMA Sizes ==
  ASSUME TypeOK, NEW c \in Conn
  PROVE  /\ Past(c) \in Int /\ Past(c) >= 0
         /\ After(c) \in 0 .. 2 /\ Extra(c) \in 0 .. 2 /\ Unseen(c) \in 0 .. 1
<1>1. failures[c] \in Int /\ failures[c] >= 0
  BY SessionAssumption DEF TypeOK, SessionAssumption
<1>2. Past(c) \in Int /\ Past(c) >= 0
  BY <1>1 DEF Past
<1>3. After(c) \in 0 .. 2
  BY DEF After
<1> QED
  BY <1>2, <1>3 DEF Extra, Unseen

(* The same after a step.                                                  *)
LEMMA SizesNext ==
  ASSUME TypeOK', NEW c \in Conn
  PROVE  /\ Past(c)' \in Int /\ Past(c)' >= 0
         /\ After(c)' \in 0 .. 2 /\ Extra(c)' \in 0 .. 2 /\ Unseen(c)' \in 0 .. 1
<1>1. failures'[c] \in Int /\ failures'[c] >= 0
  BY SessionAssumption DEF TypeOK, SessionAssumption
<1>2. Past(c)' \in Int /\ Past(c)' >= 0
  BY <1>1 DEF Past
<1>3. After(c)' \in 0 .. 2
  BY DEF After
<1> QED
  BY <1>2, <1>3 DEF Extra, Unseen

Early(c) == pc[c] \notin Ending \cup Cancelled \cup {"done"}

Handled(c) == IF kind[c] \in Ftp THEN {"ctrl", "data"} ELSE {"data"}

(* Whenever an attempt is cancelled, the handler can miss one socket only. *)
LEMMA HandlerMissesOne ==
  ASSUME TypeOK, NEW c \in Conn, KindFits(c), Accounts(c), Early(c)
  PROVE  AtMost(Owned(c) \ Numbers(c, Handled(c)), Past(c) + Unseen(c))
<1>1. AtMost(Owned(c) \ Held(c), Past(c))
  BY Sizes DEF Accounts, Early, Extra
<1>2. CASE kind[c] \in Ftp
  <2>1. PICK x : Owned(c) \ Numbers(c, Handled(c)) \subseteq (Owned(c) \ Held(c)) \cup {x}
    <3>1. Handled(c) = {"ctrl", "data"}
      BY <1>2 DEF Handled
    <3>2. CASE pc[c] = "port"
      <4>1. Held(c) = {sock[c]["ctrl"], sockfd[c]}
        BY <3>2 DEF Held, Needs, Numbers
      <4> QED
        BY <3>1, <4>1 DEF Numbers
    <3>3. CASE pc[c] # "port"
      <4>1. Needs(c) \subseteq {"ctrl", "data", "listen"}
        BY DEF Needs, Early, Ending
      <4>2. Held(c) \subseteq {sock[c]["ctrl"], sock[c]["data"], sock[c]["listen"]}
        BY <3>3, <4>1 DEF Held, Numbers
      <4> QED
        BY <3>1, <4>2 DEF Numbers
    <3> QED
      BY <3>2, <3>3
  <2>2. Unseen(c) = 1
    BY <1>2 DEF Unseen
  <2>3. PICK S, T, m, n : /\ S = Owned(c) \ Held(c)
                          /\ T = Owned(c) \ Numbers(c, Handled(c))
                          /\ m = Past(c) /\ n = Past(c) + Unseen(c)
    OBVIOUS
  <2>4. AtMost(S, m) /\ T \subseteq S \cup {x} /\ m \in Int /\ n \in Int /\ m < n
    BY <1>1, <2>1, <2>2, <2>3, Sizes
  <2>5. AtMost(T, n)
    BY <2>4, OneMore, Zenon
  <2> QED
    BY <2>3, <2>5
<1>3. CASE kind[c] \notin Ftp
  <2>1. Held(c) \subseteq {sock[c]["data"]}
    BY <1>3 DEF Held, Needs, Numbers, KindFits, Early, Ending
  <2>2. Owned(c) \ Numbers(c, Handled(c)) \subseteq Owned(c) \ Held(c)
    BY <1>3, <2>1 DEF Numbers, Handled
  <2>3. Past(c) \in Int /\ Past(c) + Unseen(c) \in Int /\ Past(c) <= Past(c) + Unseen(c)
    BY Sizes
  <2> QED
    BY <1>1, <2>2, <2>3, Fewer, Zenon
<1> QED
  BY <1>2, <1>3

(* What the owner's part of a step does to the set of its descriptors.     *)
LEMMA OwnedFacts ==
  ASSUME SessionAssumption, TypeOK, NEW c \in Conn
  PROVE  /\ owner' = owner => Owned(c)' = Owned(c)
         /\ FreeFds # {} /\ Take(c) => Owned(c)' = Owned(c) \cup {Lowest}
         /\ \A n : Drop(n) => Owned(c)' = Owned(c) \ {n}
<1>1. c # Nobody
  BY DEF SessionAssumption
<1>2. owner' = owner => Owned(c)' = Owned(c)
  BY DEF Owned
<1>3. ASSUME FreeFds # {}, Take(c)
      PROVE  Owned(c)' = Owned(c) \cup {Lowest}
  BY <1>3, TakeFacts DEF Owned
<1>4. ASSUME NEW n, Drop(n)
      PROVE  Owned(c)' = Owned(c) \ {n}
  BY <1>1, <1>4, DropFacts DEF Owned
<1> QED
  BY <1>2, <1>3, <1>4

(* A step within an attempt that neither loses nor opens a socket it does  *)
(* not go on to need.                                                      *)
LEMMA Proceeds ==
  ASSUME TypeOK, TypeOK', NEW c \in Conn, Accounts(c), UNCHANGED <<kind, failures>>,
         pc[c] \notin Ending \cup Cancelled, pc'[c] \notin Ending \cup Cancelled,
         Extra(c) = 0, (Owned(c) \ Held(c))' \subseteq Owned(c) \ Held(c)
  PROVE  Accounts(c)'
<1>1. AtMost(Owned(c) \ Held(c), Past(c))
  BY Sizes DEF Accounts
<1>2. Past(c)' = Past(c)
  BY DEF Past
<1>3. Past(c) \in Int /\ Past(c) + Extra(c)' \in Int /\ Past(c) <= Past(c) + Extra(c)'
  BY Sizes, SizesNext
<1>4. AtMost((Owned(c) \ Held(c))', Past(c) + Extra(c)')
  BY <1>1, <1>3, Fewer, Zenon
<1>5. AtMost(Owned(c)' \ Held(c)', Past(c)' + Extra(c)')
  BY <1>2, <1>4
<1> QED
  BY <1>5 DEF Accounts, Ending

(* An attempt that ends, and has done with the sockets but for those in s. *)
LEMMA Ends ==
  ASSUME TypeOK, TypeOK', NEW c \in Conn, KindFits(c), Accounts(c), Early(c),
         NEW s \in SUBSET {"data", "ctrl"}, NEW r \in {"ok", "fail", "up"}, Leave(c, s, r),
         UNCHANGED <<kind, failures>>,
         AtMost((Owned(c) \ Numbers(c, s))', Past(c)' + After(c)'),
         AtMost((Owned(c) \ Numbers(c, Handled(c)))', Past(c)' + Unseen(c)')
  PROVE  Accounts(c)'
<1>1. pc'[c] = (IF s = {} THEN "return" ELSE "close") /\ todo'[c] = s
  BY LeaveFacts
<1>2. Needs(c)' = s /\ pc'[c] \in Ending /\ pc'[c] \notin Cancelled \cup {"zero"}
  BY <1>1 DEF Needs, Ending, Cancelled
<1>3. Held(c)' = Numbers(c, s)'
  BY <1>1, <1>2 DEF Held, Numbers
<1>4. Extra(c)' = After(c)'
  BY <1>2 DEF Extra
<1>5. ToClean(c)' = Handled(c)'
  BY <1>1 DEF ToClean, Handled
<1>6. Numbers(c, ToClean(c))' = Numbers(c, Handled(c))'
  BY <1>5 DEF Numbers
<1>7. AtMost(Owned(c)' \ Held(c)', Past(c)' + Extra(c)')
  BY <1>3, <1>4
<1>8. AtMost(Owned(c)' \ Numbers(c, ToClean(c))', Past(c)' + Unseen(c)')
  BY <1>6
<1>9. pc'[c] # "zero"
  BY <1>2
<1> QED
  BY <1>7, <1>8, <1>9 DEF Accounts

(* So ends an attempt that has lost none,                                  *)
LEMMA EndsWithout ==
  ASSUME TypeOK, TypeOK', NEW c \in Conn, KindFits(c), Accounts(c), Early(c),
         NEW s \in SUBSET {"data", "ctrl"}, NEW r \in {"ok", "fail", "up"}, Leave(c, s, r),
         UNCHANGED <<kind, failures>>,
         (Owned(c) \ Numbers(c, s))' \subseteq Owned(c) \ Held(c),
         (Owned(c) \ Numbers(c, Handled(c)))' \subseteq Owned(c) \ Held(c)
  PROVE  Accounts(c)'
<1>1. AtMost(Owned(c) \ Held(c), Past(c))
  BY Sizes DEF Accounts, Early, Extra
<1>2. Past(c)' = Past(c)
  BY DEF Past
<1>3. /\ Past(c) \in Int
      /\ Past(c) + After(c)' \in Int /\ Past(c) <= Past(c) + After(c)'
      /\ Past(c) + Unseen(c)' \in Int /\ Past(c) <= Past(c) + Unseen(c)'
  BY Sizes, SizesNext
<1>4. AtMost((Owned(c) \ Numbers(c, s))', Past(c)' + After(c)')
  <2>1. AtMost((Owned(c) \ Numbers(c, s))', Past(c) + After(c)')
    BY <1>1, <1>3, Fewer, Zenon
  <2> QED
    BY <1>2, <2>1
<1>5. AtMost((Owned(c) \ Numbers(c, Handled(c)))', Past(c)' + Unseen(c)')
  <2>1. AtMost((Owned(c) \ Numbers(c, Handled(c)))', Past(c) + Unseen(c)')
    BY <1>1, <1>3, Fewer, Zenon
  <2> QED
    BY <1>2, <2>1
<1> QED
  BY <1>4, <1>5, Ends

(* and one that opened, closed and stored none at its last step, and that  *)
(* has done with all it needed, or loses one or two.                       *)
Loses(c, s) ==
  \/ Needs(c) \subseteq s
  \/ After(c)' >= 1 /\ \E g \in Field : Needs(c) \subseteq s \cup {g}
  \/ After(c)' = 2 /\ \E g, h \in Field : Needs(c) \subseteq s \cup {g, h}

(* Such an end keeps the accounts.                                         *)
LEMMA EndsLosing ==
  ASSUME TypeOK, TypeOK', NEW c \in Conn, KindFits(c), Accounts(c), Early(c), pc[c] # "port",
         NEW s \in SUBSET {"data", "ctrl"}, NEW r \in {"ok", "fail", "up"}, Leave(c, s, r),
         UNCHANGED <<owner, kind, sock, failures>>, Loses(c, s)
  PROVE  Accounts(c)'
<1>1. AtMost(Owned(c) \ Numbers(c, Needs(c)), Past(c))
  <2>1. Held(c) = Numbers(c, Needs(c))
    BY DEF Held
  <2> QED
    BY <2>1, Sizes DEF Accounts, Early, Extra
<1>2. /\ Past(c)' = Past(c) /\ Unseen(c)' = Unseen(c) /\ Owned(c)' = Owned(c)
      /\ Handled(c)' = Handled(c)
  BY DEF Past, Unseen, Owned, Handled
<1>3. Numbers(c, s)' = Numbers(c, s) /\ Numbers(c, Handled(c))' = Numbers(c, Handled(c))
  BY <1>2 DEF Numbers
<1>4. AtMost(Owned(c) \ Numbers(c, s), Past(c) + After(c)')
  <2>1. PICK S, T, m, n : /\ S = Owned(c) \ Numbers(c, Needs(c))
                          /\ T = Owned(c) \ Numbers(c, s)
                          /\ m = Past(c) /\ n = Past(c) + After(c)'
    OBVIOUS
  <2>2. AtMost(S, m) /\ m \in Int /\ n \in Int
    BY <1>1, <2>1, Sizes, SizesNext
  <2>3. CASE Needs(c) \subseteq s
    <3>1. T \subseteq S
      BY <2>1, <2>3 DEF Numbers
    <3>2. m <= n
      BY <2>1, Sizes, SizesNext
    <3>3. AtMost(T, n)
      BY <2>2, <3>1, <3>2, Fewer, Zenon
    <3> QED
      BY <2>1, <3>3
  <2>4. CASE After(c)' >= 1 /\ \E g \in Field : Needs(c) \subseteq s \cup {g}
    <3>1. PICK g \in Field : Needs(c) \subseteq s \cup {g}
      BY <2>4
    <3>2. PICK x : x = sock[c][g]
      OBVIOUS
    <3>3. T \subseteq S \cup {x}
      BY <2>1, <3>1, <3>2 DEF Numbers
    <3>4. m < n
      BY <2>1, <2>4, Sizes, SizesNext
    <3>5. AtMost(T, n)
      BY <2>2, <3>3, <3>4, OneMore, Zenon
    <3> QED
      BY <2>1, <3>5
  <2>5. CASE After(c)' = 2 /\ \E g, h \in Field : Needs(c) \subseteq s \cup {g, h}
    <3>1. PICK g, h \in Field : Needs(c) \subseteq s \cup {g, h}
      BY <2>5
    <3>2. PICK x, y, k : x = sock[c][g] /\ y = sock[c][h] /\ k = m + 1
      OBVIOUS
    <3>3. T \subseteq S \cup {x, y}
      BY <2>1, <3>1, <3>2 DEF Numbers
    <3>4. k \in Int /\ m < k /\ k < n
      BY <2>1, <2>5, <3>2, Sizes, SizesNext
    <3>5. AtMost(T, n)
      BY <2>2, <3>3, <3>4, TwoMore, Zenon
    <3> QED
      BY <2>1, <3>5
  <2> QED
    BY <2>3, <2>4, <2>5 DEF Loses
<1>5. AtMost((Owned(c) \ Numbers(c, s))', Past(c)' + After(c)')
  BY <1>2, <1>3, <1>4
<1>6. AtMost((Owned(c) \ Numbers(c, Handled(c)))', Past(c)' + Unseen(c)')
  BY <1>2, <1>3, HandlerMissesOne
<1> QED
  BY <1>5, <1>6, Ends
-----------------------------------------------------------------------------
(***************************************************************************)
(* One lemma per action.  First the attempts that only proceed.            *)
(***************************************************************************)

(* What the lemmas need of the step: its types, and that the accounts hold. *)
Accounted(c) == TypeOK /\ TypeOK' /\ KindFits(c) /\ Accounts(c)

(* A new attempt needs no socket yet.                                      *)
LEMMA BeginAccounts ==
  ASSUME SessionAssumption, NEW c \in Conn, Accounted(c), Begin(c)
  PROVE  Accounts(c)'
<1>1. /\ pc[c] = "idle" /\ pc'[c] \in {"ctrlSocket", "dataSocket"}
      /\ UNCHANGED <<owner, kind, failures>>
      /\ pc'[c] = "dataSocket" => kind[c] \notin Ftp
  BY DEF Begin, At, Go, Accounted, TypeOK
<1>2. Held(c) = {} /\ Held(c)' = {}
  BY <1>1 DEF Held, Needs, Numbers
<1>3. Owned(c)' = Owned(c) /\ Extra(c) = 0
  BY <1>1, OwnedFacts DEF Accounted, Extra, Ending
<1>4. pc[c] \notin Ending \cup Cancelled /\ pc'[c] \notin Ending \cup Cancelled
  BY <1>1 DEF Ending, Cancelled
<1> QED
  BY <1>1, <1>2, <1>3, <1>4, Proceeds DEF Accounted

(* A step that opens and stores none and needs the same sockets as before. *)
LEMMA SameNeeds ==
  ASSUME SessionAssumption, NEW c \in Conn, Accounted(c), UNCHANGED <<owner, kind, sock, failures>>,
         pc[c] \notin Ending \cup Cancelled, pc'[c] \notin Ending \cup Cancelled,
         pc[c] # "port", pc'[c] # "port", pc[c] # "done", Needs(c)' = Needs(c)
  PROVE  Accounts(c)'
<1>1. Held(c)' = Held(c)
  BY DEF Held, Numbers
<1>2. Owned(c)' = Owned(c) /\ Extra(c) = 0
  BY OwnedFacts DEF Accounted, Extra
<1> QED
  BY <1>1, <1>2, Proceeds DEF Accounted

(* A connected socket is needed as before.                                 *)
LEMMA ConnectedAccounts ==
  ASSUME SessionAssumption, NEW c \in Conn, Accounted(c), Connected(c)
  PROVE  Accounts(c)'
<1>1. /\ pc[c] \in {"ctrlConnect", "dataConnect"}
      /\ UNCHANGED <<owner, kind, sock, passive, failures>>
      /\ pc'[c] = CASE pc[c] = "ctrlConnect" -> "greeting"
                    [] pc[c] = "dataConnect" /\ kind[c] \in Ftp -> "command"
                    [] OTHER -> "headers"
  BY DEF Connected, At, Go, Accounted, TypeOK
<1>2. Needs(c)' = Needs(c)
  BY <1>1 DEF Needs, Accounted, KindFits
<1>3. /\ pc[c] \notin Ending \cup Cancelled /\ pc'[c] \notin Ending \cup Cancelled
      /\ pc[c] # "port" /\ pc'[c] # "port" /\ pc[c] # "done"
  BY <1>1 DEF Ending, Cancelled
<1> QED
  BY <1>1, <1>2, <1>3, SameNeeds
-----------------------------------------------------------------------------
(***************************************************************************)
(* Then those that may end, and lose sockets.                              *)
(***************************************************************************)

(* An attempt ends at a step that opens, closes and stores none.           *)
LEMMA EndsQuietly ==
  ASSUME NEW c \in Conn, Accounted(c), NEW s \in SUBSET {"data", "ctrl"},
         NEW r \in {"ok", "fail", "up"}, Leave(c, s, r),
         UNCHANGED <<owner, kind, sock, failures>>,
         pc[c] \notin Ending \cup Cancelled \cup {"done", "port"},
         \/ Needs(c) \subseteq s
         \/ (r # "ok" \/ kind[c] = "info") /\ kind[c] # "http" /\ kind[c] # "query"
            /\ \E g \in Field : Needs(c) \subseteq s \cup {g}
         \/ r # "ok" /\ kind[c] \in Ftp /\ \E g, h \in Field : Needs(c) \subseteq s \cup {g, h}
  PROVE  Accounts(c)'
<1>1. ret'[c] = r /\ kind'[c] = kind[c]
  BY DEF Leave, Accounted, TypeOK
<1>2. kind[c] \in Ftp \cup Http
  BY SessionAssumption DEF SessionAssumption, Accounted, TypeOK
<1>3. Loses(c, s)
  <2>1. CASE Needs(c) \subseteq s
    BY <2>1 DEF Loses
  <2>2. CASE /\ r # "ok" \/ kind[c] = "info"
             /\ kind[c] # "http" /\ kind[c] # "query"
             /\ \E g \in Field : Needs(c) \subseteq s \cup {g}
    <3>1. After(c)' >= 1
      BY <1>1, <1>2, <2>2 DEF After, Ftp, Http
    <3> QED
      BY <2>2, <3>1 DEF Loses
  <2>3. CASE r # "ok" /\ kind[c] \in Ftp /\ \E g, h \in Field : Needs(c) \subseteq s \cup {g, h}
    <3>1. After(c)' = 2
      BY <1>1, <2>3 DEF After
    <3> QED
      BY <2>3, <3>1 DEF Loses
  <2> QED
    BY <2>1, <2>2, <2>3
<1>4. Early(c) /\ pc[c] # "port"
  BY DEF Early
<1> QED
  BY <1>3, <1>4, EndsLosing DEF Accounted

(* The name of the host cannot be resolved: nothing was opened.            *)
LEMMA UnknownHostAccounts ==
  ASSUME NEW c \in Conn, Accounted(c), UnknownHost(c)
  PROVE  Accounts(c)'
<1> DEFINE s == IF Dialled(c) = "data" /\ kind[c] \in Ftp THEN {"ctrl"} ELSE {}
<1>1. /\ pc[c] \in {"ctrlSocket", "dataSocket"} /\ Leave(c, s, "fail")
      /\ UNCHANGED <<owner, kind, sock, failures>>
  BY DEF UnknownHost, DialFails
<1>2. Needs(c) \subseteq s /\ s \in SUBSET {"data", "ctrl"}
  BY <1>1 DEF Needs, Dialled
<1>3. pc[c] \notin Ending \cup Cancelled \cup {"done", "port"}
  BY <1>1 DEF Ending, Cancelled
<1> HIDE DEF s
<1>4. PICK t \in SUBSET {"data", "ctrl"} : t = s
  BY <1>2
<1> QED
  BY <1>1, <1>2, <1>3, <1>4, EndsQuietly

(* A refused query loses its control connection.                           *)
LEMMA GreetingAccounts ==
  ASSUME SessionAssumption, NEW c \in Conn, Accounted(c), Greeting(c)
  PROVE  Accounts(c)'
<1>1. pc[c] = "greeting" /\ UNCHANGED <<owner, kind, sock, failures>>
  BY DEF Greeting, At
<1>2. Needs(c) = {"ctrl"} /\ "ctrl" \in Field /\ kind[c] \in Ftp
  BY <1>1 DEF Needs, Field, Accounted, KindFits
<1>3. pc[c] \notin Ending \cup Cancelled \cup {"done", "port"}
  BY <1>1 DEF Ending, Cancelled
<1>4. CASE Go(c, "login")
  <2>1. pc'[c] = "login"
    BY <1>4 DEF Go, Accounted, TypeOK
  <2>2. Needs(c)' = {"ctrl"} /\ pc'[c] \notin Ending \cup Cancelled \cup {"port"}
    BY <2>1 DEF Needs, Ending, Cancelled
  <2> QED
    BY <1>1, <1>2, <1>3, <2>2, SameNeeds
<1>5. CASE Leave(c, {}, "fail")
  BY <1>1, <1>2, <1>3, <1>5, EndsQuietly DEF Ftp
<1>6. CASE Leave(c, {"ctrl"}, "up")
  BY <1>1, <1>2, <1>3, <1>6, EndsQuietly
<1> QED
  BY <1>4, <1>5, <1>6 DEF Greeting

(* A query that finds a directory ends well and keeps its control          *)
(* connection.                                                             *)
LEMMA LoginAccounts ==
  ASSUME SessionAssumption, NEW c \in Conn, Accounted(c), Login(c)
  PROVE  Accounts(c)'
<1>1. pc[c] = "login" /\ UNCHANGED <<owner, kind, sock, failures>>
  BY DEF Login, At
<1>2. Needs(c) = {"ctrl"} /\ "ctrl" \in Field
  BY <1>1 DEF Needs, Field
<1>3. pc[c] \notin Ending \cup Cancelled \cup {"done", "port"}
  BY <1>1 DEF Ending, Cancelled
<1>4. CASE Go(c, "dataSetup")
  <2>1. pc'[c] = "dataSetup"
    BY <1>4 DEF Go, Accounted, TypeOK
  <2>2. Needs(c)' = {"ctrl"} /\ pc'[c] \notin Ending \cup Cancelled \cup {"port"}
    BY <2>1 DEF Needs, Ending, Cancelled
  <2> QED
    BY <1>1, <1>2, <1>3, <2>2, SameNeeds
<1>5. CASE \E r \in {"fail", "up"} : Leave(c, {"ctrl"}, r)
  <2>1. PICK r \in {"fail", "up"} : Leave(c, {"ctrl"}, r)
    BY <1>5
  <2> QED
    BY <1>1, <1>2, <1>3, <2>1, EndsQuietly
<1>6. CASE kind[c] = "info" /\ Leave(c, {}, "ok")
  BY <1>1, <1>2, <1>3, <1>6, EndsQuietly
<1> QED
  BY <1>4, <1>5, <1>6 DEF Login

(* PASV opens nothing.                                                     *)
LEMMA PasvAccounts ==
  ASSUME SessionAssumption, NEW c \in Conn, Accounted(c), Pasv(c)
  PROVE  Accounts(c)'
<1>1. pc[c] = "dataSetup" /\ UNCHANGED <<owner, kind, sock, failures>>
  BY DEF Pasv, At
<1>2. Needs(c) = {"ctrl"} /\ kind[c] \in Ftp
  BY <1>1 DEF Needs, Accounted, KindFits
<1>3. pc[c] \notin Ending \cup Cancelled \cup {"done", "port"}
  BY <1>1 DEF Ending, Cancelled
<1>4. CASE Go(c, "dataSocket")
  <2>1. pc'[c] = "dataSocket"
    BY <1>4 DEF Go, Accounted, TypeOK
  <2>2. Needs(c)' = {"ctrl"} /\ pc'[c] \notin Ending \cup Cancelled \cup {"port"}
    BY <1>1, <1>2, <2>1 DEF Needs, Ending, Cancelled
  <2> QED
    BY <1>1, <1>2, <1>3, <2>2, SameNeeds
<1>5. CASE Leave(c, {"ctrl"}, "fail")
  BY <1>1, <1>2, <1>3, <1>5, EndsQuietly
<1> QED
  BY <1>4, <1>5 DEF Pasv

(* A refused command loses the data or the listening socket.               *)
LEMMA CommandAccounts ==
  ASSUME SessionAssumption, NEW c \in Conn, Accounted(c), Command(c)
  PROVE  Accounts(c)'
<1>1. pc[c] = "command" /\ UNCHANGED <<owner, kind, sock, passive, failures>>
  BY DEF Command, At
<1>2. /\ Needs(c) = {"ctrl", IF passive[c] THEN "data" ELSE "listen"}
      /\ kind[c] \in Ftp
  BY <1>1 DEF Needs, Accounted, KindFits
<1>3. PICK g \in Field : Needs(c) \subseteq {"ctrl"} \cup {g}
  BY <1>2 DEF Field
<1>4. pc[c] \notin Ending \cup Cancelled \cup {"done", "port"}
  BY <1>1 DEF Ending, Cancelled
<1>5. CASE Go(c, IF passive[c] THEN "transfer" ELSE "accept")
  <2>1. pc'[c] = IF passive[c] THEN "transfer" ELSE "accept"
    BY <1>5 DEF Go, Accounted, TypeOK
  <2>2. Needs(c)' = Needs(c) /\ pc'[c] \notin Ending \cup Cancelled \cup {"port"}
    BY <1>1, <1>2, <2>1 DEF Needs, Ending, Cancelled
  <2> QED
    BY <1>1, <1>4, <2>2, SameNeeds
<1>6. CASE Leave(c, {"ctrl"}, "fail") \/ Leave(c, {"ctrl"}, "up")
  <2>1. kind[c] # "http" /\ kind[c] # "query"
    BY <1>2 DEF Ftp
  <2> QED
    BY <1>1, <1>3, <1>4, <1>6, <2>1, EndsQuietly
<1>7. CASE kind[c] = "info" /\ Leave(c, {"ctrl"}, "ok")
  BY <1>1, <1>3, <1>4, <1>7, EndsQuietly
<1> QED
  BY <1>5, <1>6, <1>7 DEF Command

(* A proxy's download that is refused loses its socket.                    *)
LEMMA HeadersAccounts ==
  ASSUME SessionAssumption, NEW c \in Conn, Accounted(c), Headers(c)
  PROVE  Accounts(c)'
<1>1. pc[c] = "headers" /\ UNCHANGED <<owner, kind, sock, failures>>
  BY DEF Headers, At
<1>2. Needs(c) = {"data"} /\ "data" \in Field /\ kind[c] \notin Ftp
  BY <1>1 DEF Needs, Field, Accounted, KindFits, Ftp, Http
<1>3. pc[c] \notin Ending \cup Cancelled \cup {"done", "port"}
  BY <1>1 DEF Ending, Cancelled
<1>4. CASE Go(c, "transfer")
  <2>1. pc'[c] = "transfer"
    BY <1>4 DEF Go, Accounted, TypeOK
  <2>2. Needs(c)' = {"data"} /\ pc'[c] \notin Ending \cup Cancelled \cup {"port"}
    BY <1>1, <1>2, <2>1 DEF Needs, Ending, Cancelled
  <2> QED
    BY <1>1, <1>2, <1>3, <2>2, SameNeeds
<1>5. CASE \E r \in {"fail", "up"} : Leave(c, IF kind[c] = "proxy" THEN {} ELSE {"data"}, r)
  <2>1. PICK r \in {"fail", "up"} : Leave(c, IF kind[c] = "proxy" THEN {} ELSE {"data"}, r)
    BY <1>5
  <2>2. CASE kind[c] = "proxy"
    <3>1. Leave(c, {}, r)
      BY <2>1, <2>2
    <3> QED
      BY <1>1, <1>2, <1>3, <2>2, <3>1, EndsQuietly
  <2>3. CASE kind[c] # "proxy"
    <3>1. Leave(c, {"data"}, r)
      BY <2>1, <2>3
    <3> QED
      BY <1>1, <1>2, <1>3, <3>1, EndsQuietly
  <2> QED
    BY <2>2, <2>3
<1>6. CASE Leave(c, {"data"}, "ok")
  BY <1>1, <1>2, <1>3, <1>6, EndsQuietly
<1> QED
  BY <1>4, <1>5, <1>6 DEF Headers

(* A query that cannot read its listing loses both sockets.                *)
LEMMA TransferredAccounts ==
  ASSUME NEW c \in Conn, Accounted(c), Transferred(c)
  PROVE  Accounts(c)'
<1>1. pc[c] = "transfer" /\ UNCHANGED <<owner, kind, sock, failures>>
  BY DEF Transferred, At
<1>2. pc[c] \notin Ending \cup Cancelled \cup {"done", "port"}
  BY <1>1 DEF Ending, Cancelled
<1>3. kind[c] \in Ftp \cup Http
  BY SessionAssumption DEF SessionAssumption, Accounted, TypeOK
<1>4. CASE kind[c] \in Http
  <2>1. Needs(c) = {"data"}
    BY <1>1, <1>4 DEF Needs, Ftp, Http
  <2>2. PICK r \in {"ok", "fail", "up"} : Leave(c, {"data"}, r)
    BY <1>4 DEF Transferred, Http
  <2> QED
    BY <1>1, <1>2, <2>1, <2>2, EndsQuietly
<1>5. CASE kind[c] \in Ftp
  <2>1. Needs(c) = {"ctrl", "data"} /\ "ctrl" \in Field /\ "data" \in Field
    BY <1>1, <1>5 DEF Needs, Field
  <2>2. \/ \E r \in {"ok", "fail", "up"} : Leave(c, {"data", "ctrl"}, r)
        \/ Leave(c, {}, "fail")
    <3>1. kind[c] \notin Http /\ kind[c] \in {"ftp", "info"}
      BY <1>5 DEF Ftp, Http
    <3>2. CASE kind[c] = "ftp"
      BY <3>1, <3>2 DEF Transferred
    <3>3. CASE kind[c] # "ftp"
      BY <3>1, <3>3 DEF Transferred
    <3> QED
      BY <3>2, <3>3
  <2>3. CASE \E r \in {"ok", "fail", "up"} : Leave(c, {"data", "ctrl"}, r)
    <3>1. PICK r \in {"ok", "fail", "up"} : Leave(c, {"data", "ctrl"}, r)
      BY <2>3
    <3> QED
      BY <1>1, <1>2, <2>1, <3>1, EndsQuietly
  <2>4. CASE Leave(c, {}, "fail")
    <3>1. Needs(c) \subseteq {} \cup {"ctrl", "data"}
      BY <2>1
    <3>2. \E g, h \in Field : Needs(c) \subseteq {} \cup {g, h}
      BY <2>1, <3>1
    <3> QED
      BY <1>1, <1>2, <1>5, <2>4, <3>2, EndsQuietly
  <2> QED
    BY <2>2, <2>3, <2>4
<1> QED
  BY <1>3, <1>4, <1>5
-----------------------------------------------------------------------------
(***************************************************************************)
(* The steps that open, store or close a descriptor.                       *)
(***************************************************************************)

(* socket() opens what the attempt needs next, or nothing.                 *)
LEMMA SocketAccounts ==
  ASSUME SessionAssumption, NEW c \in Conn, Accounted(c), Socket(c)
  PROVE  Accounts(c)'
<1> DEFINE n == IF FreeFds = {} THEN -1 ELSE Lowest
<1>0. PICK x : x = IF pc[c] = "ctrlSocket" THEN "ctrl" ELSE "data"
  OBVIOUS
<1>1. /\ pc[c] \in {"ctrlSocket", "dataSocket"} /\ UNCHANGED <<kind, passive, failures>>
      /\ Dialled(c) = x
  BY <1>0 DEF Socket, Dialled
<1>2. sock' = [sock EXCEPT ![c][x] = n] /\ TypeOK /\ TypeOK' /\ KindFits(c)
  BY <1>1 DEF Socket, Set, Accounted
<1>3. /\ sock'[c][x] = n
      /\ \A g \in Field : g # x => sock'[c][g] = sock[c][g]
  BY <1>0, <1>2 DEF TypeOK, Field
<1> HIDE DEF n
<1>4. Held(c) = IF pc[c] = "dataSocket" /\ kind[c] \in Ftp THEN {sock[c]["ctrl"]} ELSE {}
  BY <1>1 DEF Held, Needs, Numbers
<1>5. Early(c) /\ Extra(c) = 0 /\ pc[c] \notin Ending \cup Cancelled
  BY <1>1 DEF Early, Extra, Ending, Cancelled
<1>6. CASE FreeFds = {}
  <2>0. PICK s : s = IF x = "data" /\ kind[c] \in Ftp THEN {"ctrl"} ELSE {}
    OBVIOUS
  <2>1. s \in SUBSET {"data", "ctrl"} /\ Leave(c, s, "fail") /\ Owned(c)' = Owned(c)
    BY <1>1, <1>2, <1>6, <2>0, OwnedFacts DEF Socket, DialFails
  <2>2. Held(c) = Numbers(c, s)'
    BY <1>0, <1>1, <1>3, <1>4, <2>0 DEF Numbers, Field
  <2>3. kind[c] \in Ftp => Handled(c)' = {"ctrl", "data"}
    BY <1>1 DEF Handled
  <2>4. Held(c) \subseteq Numbers(c, Handled(c))'
    BY <1>0, <1>1, <1>3, <1>4, <2>3 DEF Numbers, Field
  <2>5. /\ (Owned(c) \ Numbers(c, s))' \subseteq Owned(c) \ Held(c)
        /\ (Owned(c) \ Numbers(c, Handled(c)))' \subseteq Owned(c) \ Held(c)
    BY <2>1, <2>2, <2>4
  <2> QED
    BY <1>1, <1>2, <1>5, <2>1, <2>5, EndsWithout DEF Accounted
<1>7. CASE FreeFds # {}
  <2>1. pc'[c] = IF pc[c] = "ctrlSocket" THEN "ctrlConnect" ELSE "dataConnect"
    BY <1>2, <1>7 DEF Socket, At, Go, TypeOK
  <2>2. Owned(c)' = Owned(c) \cup {n}
    BY <1>2, <1>7, OwnedFacts DEF Socket, n
  <2>3. Needs(c)' = IF kind[c] \in Ftp /\ pc[c] = "dataSocket" THEN {"ctrl", "data"} ELSE {x}
    BY <1>0, <1>1, <1>2, <2>1 DEF Needs, KindFits
  <2>4. Held(c)' = Numbers(c, Needs(c))'
    BY <1>1, <2>1 DEF Held, Numbers
  <2>5. Held(c) \cup {n} \subseteq Held(c)'
    BY <1>0, <1>1, <1>3, <1>4, <2>3, <2>4 DEF Numbers, Field
  <2>6. pc'[c] \notin Ending \cup Cancelled
    BY <2>1 DEF Ending, Cancelled
  <2> QED
    BY <1>1, <1>2, <1>5, <2>2, <2>5, <2>6, Proceeds DEF Accounted
<1> QED
  BY <1>6, <1>7

(* A failing connect() closes the socket and keeps its number.             *)
LEMMA ConnectFailsAccounts ==
  ASSUME SessionAssumption, NEW c \in Conn, Accounted(c), ConnectFails(c)
  PROVE  Accounts(c)'
<1>0. PICK x, s : /\ x = IF pc[c] = "ctrlConnect" THEN "ctrl" ELSE "data"
                  /\ s = IF x = "data" /\ kind[c] \in Ftp THEN {"ctrl"} ELSE {}
  OBVIOUS
<1>1. /\ pc[c] \in {"ctrlConnect", "dataConnect"} /\ UNCHANGED <<kind, sock, failures>>
      /\ Drop(sock[c][x]) /\ Leave(c, s, "fail")
  BY <1>0 DEF ConnectFails, DialFails, Dialled
<1>2. s \in SUBSET {"data", "ctrl"} /\ Owned(c)' = Owned(c) \ {sock[c][x]}
  BY <1>0, <1>1, OwnedFacts DEF Accounted
<1>3. Needs(c) \subseteq s \cup {x}
  BY <1>0, <1>1 DEF Needs
<1>4. Held(c) \subseteq Numbers(c, s)' \cup {sock[c][x]}
  BY <1>1, <1>3 DEF Held, Numbers
<1>5. kind[c] \in Ftp => Handled(c)' = {"ctrl", "data"}
  BY <1>1 DEF Handled
<1>6. Held(c) \subseteq Numbers(c, Handled(c))' \cup {sock[c][x]}
  <2>1. Held(c) \subseteq {sock[c][g] : g \in s} \cup {sock[c][x]}
    BY <1>1, <1>4 DEF Numbers
  <2>2. {sock[c][g] : g \in s} \subseteq {sock'[c][g] : g \in Handled(c)'}
    BY <1>0, <1>1, <1>5
  <2> QED
    BY <2>1, <2>2 DEF Numbers
<1>7. Early(c)
  BY <1>1 DEF Early, Ending, Cancelled
<1>8. /\ (Owned(c) \ Numbers(c, s))' \subseteq Owned(c) \ Held(c)
      /\ (Owned(c) \ Numbers(c, Handled(c)))' \subseteq Owned(c) \ Held(c)
  BY <1>2, <1>4, <1>6
<1> QED
  BY <1>1, <1>2, <1>7, <1>8, EndsWithout DEF Accounted

(* The local descriptor of ftp_get_listen_socket is needed until PORT.     *)
LEMMA BindAccounts ==
  ASSUME SessionAssumption, NEW c \in Conn, Accounted(c), Bind(c)
  PROVE  Accounts(c)'
<1>1. pc[c] = "dataSetup" /\ UNCHANGED <<kind, sock, failures>> /\ TypeOK /\ TypeOK'
  BY DEF Bind, At, Accounted
<1>2. Needs(c) = {"ctrl"} /\ Held(c) = {sock[c]["ctrl"]} /\ Extra(c) = 0
  BY <1>1 DEF Needs, Held, Numbers, Extra, Ending
<1>3. pc[c] \notin Ending \cup Cancelled \cup {"done", "port"}
  BY <1>1 DEF Ending, Cancelled
<1>4. CASE FreeFds = {}
  BY <1>1, <1>2, <1>3, <1>4, EndsQuietly DEF Bind
<1>5. CASE FreeFds # {}
  <2>1. pc'[c] = "port" /\ sockfd'[c] = Lowest
    BY <1>1, <1>5 DEF Bind, Go, TypeOK
  <2>2. Owned(c)' = Owned(c) \cup {Lowest}
    BY <1>1, <1>5, OwnedFacts DEF Bind
  <2>3. Held(c)' = {sock[c]["ctrl"], Lowest} /\ pc'[c] \notin Ending \cup Cancelled
    BY <1>1, <2>1 DEF Held, Needs, Numbers, Ending, Cancelled
  <2> QED
    BY <1>1, <1>2, <1>3, <2>2, <2>3, Proceeds DEF Accounted
<1> QED
  BY <1>4, <1>5

(* It becomes listen_sock, or is lost when PORT fails.                     *)
LEMMA PortAccounts ==
  ASSUME SessionAssumption, NEW c \in Conn, Accounted(c), Port(c)
  PROVE  Accounts(c)'
<1>1. /\ pc[c] = "port" /\ UNCHANGED <<owner, kind, passive, failures>>
      /\ TypeOK /\ TypeOK' /\ KindFits(c) /\ Accounts(c)
  BY DEF Port, At, Accounted
<1>2. Held(c) = {sock[c]["ctrl"], sockfd[c]} /\ Extra(c) = 0 /\ Owned(c)' = Owned(c)
  BY <1>1, OwnedFacts DEF Needs, Held, Numbers, Extra, Ending
<1>3. pc[c] \notin Ending \cup Cancelled \cup {"done"} /\ ~passive[c] /\ kind[c] \in Ftp
  BY <1>1 DEF Ending, Cancelled, KindFits
<1>4. CASE Set(c, "listen", sockfd[c]) /\ Go(c, "command")
  <2>1. pc'[c] = "command"
    BY <1>1, <1>4 DEF Go, TypeOK
  <2>2. sock'[c]["listen"] = sockfd[c] /\ sock'[c]["ctrl"] = sock[c]["ctrl"]
    BY <1>1, <1>4 DEF Set, TypeOK, Field
  <2>3. Needs(c)' = {"ctrl", "listen"}
    BY <1>1, <1>3, <2>1 DEF Needs
  <2>4. Held(c)' = Held(c)
    BY <1>2, <2>1, <2>2, <2>3 DEF Held, Numbers
  <2>5. pc'[c] \notin Ending \cup Cancelled
    BY <2>1 DEF Ending, Cancelled
  <2> QED
    BY <1>1, <1>2, <1>3, <2>4, <2>5, Proceeds
<1>5. CASE Leave(c, {"ctrl"}, "fail") /\ UNCHANGED sock
  <2>1. After(c)' = 2 /\ Past(c)' = Past(c)
    BY <1>1, <1>3, <1>5 DEF After, Past, Leave, TypeOK
  <2>2. PICK S, T, m, n : /\ S = Owned(c) \ Held(c)
                          /\ T = (Owned(c) \ Numbers(c, {"ctrl"}))'
                          /\ m = Past(c) /\ n = Past(c)' + After(c)'
    OBVIOUS
  <2>3. AtMost(S, m) /\ m \in Int /\ n \in Int /\ m < n
    BY <1>1, <1>2, <1>3, <2>1, <2>2, Sizes DEF Accounts
  <2>4. T \subseteq S \cup {sockfd[c]}
    BY <1>2, <1>5, <2>2 DEF Numbers
  <2>5. PICK y : y = sockfd[c]
    OBVIOUS
  <2>6. AtMost(T, n)
    BY <2>3, <2>4, <2>5, OneMore, Zenon
  <2>7. AtMost(Owned(c) \ Numbers(c, Handled(c)), Past(c) + Unseen(c))
    BY <1>1, <1>3, HandlerMissesOne DEF Early
  <2>8. Handled(c)' = Handled(c) /\ Unseen(c)' = Unseen(c)
    BY <1>1 DEF Handled, Unseen
  <2>9. Numbers(c, Handled(c))' = Numbers(c, Handled(c))
    BY <1>5, <2>8 DEF Numbers
  <2>10. AtMost((Owned(c) \ Numbers(c, Handled(c)))', Past(c)' + Unseen(c)')
    BY <1>2, <2>1, <2>7, <2>8, <2>9
  <2>11. AtMost((Owned(c) \ Numbers(c, {"ctrl"}))', Past(c)' + After(c)')
    BY <2>2, <2>6
  <2>12. Early(c)
    BY <1>3 DEF Early
  <2> QED
    BY <1>1, <1>5, <2>10, <2>11, <2>12, Ends
<1> QED
  BY <1>4, <1>5 DEF Port

(* accept() opens the data socket; without it the listening socket is      *)
(* lost, and for a download the control connection, too.                   *)
LEMMA AcceptAccounts ==
  ASSUME SessionAssumption, NEW c \in Conn, Accounted(c), Accept(c)
  PROVE  Accounts(c)'
<1>1. /\ pc[c] = "accept" /\ UNCHANGED <<kind, passive, failures>>
      /\ TypeOK /\ TypeOK' /\ KindFits(c) /\ Accounts(c)
  BY DEF Accept, At, Accounted
<1>2. /\ Needs(c) = {"ctrl", "listen"} /\ kind[c] \in Ftp
      /\ Held(c) = {sock[c]["ctrl"], sock[c]["listen"]} /\ Extra(c) = 0
  BY <1>1 DEF Needs, Held, Numbers, KindFits, Extra, Ending
<1>3. pc[c] \notin Ending \cup Cancelled \cup {"done", "port"}
  BY <1>1 DEF Ending, Cancelled
<1>4. CASE FreeFds # {} /\ Set(c, "data", Lowest) /\ Take(c) /\ Go(c, "unlisten")
  <2>1. pc'[c] = "unlisten" /\ Owned(c)' = Owned(c) \cup {Lowest}
    BY <1>1, <1>4, OwnedFacts DEF Go, TypeOK
  <2>2. /\ sock'[c]["data"] = Lowest /\ sock'[c]["ctrl"] = sock[c]["ctrl"]
        /\ sock'[c]["listen"] = sock[c]["listen"]
    BY <1>1, <1>4 DEF Set, TypeOK, Field
  <2>3. Needs(c)' = {"ctrl", "data", "listen"} /\ pc'[c] \notin Ending \cup Cancelled
    BY <2>1 DEF Needs, Ending, Cancelled
  <2>4. Held(c) \cup {Lowest} \subseteq Held(c)'
    BY <1>2, <2>2, <2>3 DEF Held, Numbers
  <2>5. (Owned(c) \ Held(c))' \subseteq Owned(c) \ Held(c)
    BY <2>1, <2>4
  <2> QED
    BY <1>1, <1>2, <1>3, <2>3, <2>5, Proceeds
<1>5. CASE /\ Leave(c, IF kind[c] = "ftp" THEN {} ELSE {"ctrl"}, "fail")
           /\ UNCHANGED <<owner, sock>>
  <2>1. PICK s : s = IF kind[c] = "ftp" THEN {} ELSE {"ctrl"}
    OBVIOUS
  <2>2. s \in SUBSET {"data", "ctrl"} /\ Leave(c, s, "fail")
    BY <1>5, <2>1
  <2>3. Needs(c) \subseteq s \cup {"ctrl", "listen"} /\ "ctrl" \in Field /\ "listen" \in Field
    BY <1>2 DEF Field
  <2>4. \E g, h \in Field : Needs(c) \subseteq s \cup {g, h}
    BY <2>3
  <2> QED
    BY <1>1, <1>2, <1>3, <1>5, <2>2, <2>4, EndsQuietly
<1> QED
  BY <1>4, <1>5 DEF Accept

(* The listening socket is closed once it has been used.                   *)
LEMMA UnlistenAccounts ==
  ASSUME SessionAssumption, NEW c \in Conn, Accounted(c), Unlisten(c)
  PROVE  Accounts(c)'
<1>1. /\ pc[c] = "unlisten" /\ UNCHANGED <<kind, sock, failures>>
      /\ TypeOK /\ TypeOK' /\ KindFits(c) /\ Accounts(c)
  BY DEF Unlisten, At, Accounted
<1>2. /\ kind[c] \in Ftp /\ Extra(c) = 0
      /\ Held(c) = {sock[c]["ctrl"], sock[c]["data"], sock[c]["listen"]}
  BY <1>1 DEF Needs, Held, Numbers, KindFits, Extra, Ending
<1>3. pc'[c] = "transfer" /\ Owned(c)' = Owned(c) \ {sock[c]["listen"]}
  BY <1>1, OwnedFacts DEF Unlisten, Go, TypeOK
<1>4. Needs(c)' = {"ctrl", "data"}
  BY <1>1, <1>2, <1>3 DEF Needs
<1>5. Held(c)' = {sock[c]["ctrl"], sock[c]["data"]}
  BY <1>1, <1>3, <1>4 DEF Held, Numbers
<1>6. pc[c] \notin Ending \cup Cancelled /\ pc'[c] \notin Ending \cup Cancelled
  BY <1>1, <1>3 DEF Ending, Cancelled
<1>7. (Owned(c) \ Held(c))' \subseteq Owned(c) \ Held(c)
  BY <1>2, <1>3, <1>5
<1> QED
  BY <1>1, <1>2, <1>6, <1>7, Proceeds
-----------------------------------------------------------------------------
(***************************************************************************)
(* The end of an attempt.                                                  *)
(***************************************************************************)

(* The accounts of an attempt that is ending.                              *)
LEMMA EndingAccounts ==
  ASSUME NEW c \in Conn, pc[c] \in Ending
  PROVE  Accounts(c) <=>
           /\ AtMost(Owned(c) \ Numbers(c, Needs(c)), Past(c) + After(c))
           /\ AtMost(Owned(c) \ Numbers(c, Handled(c)), Past(c) + Unseen(c))
           /\ pc[c] = "zero" => sock[c][First(todo[c])] \notin Owned(c)
<1>1. pc[c] \notin Cancelled /\ pc[c] # "port"
  BY DEF Ending, Cancelled
<1>2. Held(c) = Numbers(c, Needs(c)) /\ Extra(c) = After(c)
  BY <1>1 DEF Held, Extra
<1>3. ToClean(c) = Handled(c)
  BY <1>1 DEF ToClean, Handled, Cancelled
<1> QED
  BY <1>1, <1>2, <1>3 DEF Accounts

(* The same after a step.                                                  *)
LEMMA EndingAccountsNext ==
  ASSUME NEW c \in Conn, pc'[c] \in Ending
  PROVE  Accounts(c)' <=>
           /\ AtMost((Owned(c) \ Numbers(c, Needs(c)))', (Past(c) + After(c))')
           /\ AtMost((Owned(c) \ Numbers(c, Handled(c)))', (Past(c) + Unseen(c))')
           /\ pc'[c] = "zero" => sock'[c][First(todo[c])'] \notin Owned(c)'
<1>1. pc'[c] \notin Cancelled /\ pc'[c] # "port"
  BY DEF Ending, Cancelled
<1>2. Held(c)' = Numbers(c, Needs(c))' /\ Extra(c)' = After(c)'
  BY <1>1 DEF Held, Extra
<1>3. ToClean(c)' = Handled(c)'
  BY <1>1 DEF ToClean, Handled, Cancelled
<1>4. Numbers(c, ToClean(c))' = Numbers(c, Handled(c))'
  BY <1>3 DEF Numbers
<1> QED
  BY <1>1, <1>2, <1>4 DEF Accounts

(* A step between two steps of an ending that opens nothing.               *)
LEMMA GoesOnEnding ==
  ASSUME TypeOK, NEW c \in Conn, Accounts(c), pc[c] \in Ending, pc'[c] \in Ending,
         UNCHANGED <<kind, ret, failures>>,
         (Owned(c) \ Numbers(c, Needs(c)))' \subseteq Owned(c) \ Numbers(c, Needs(c)),
         (Owned(c) \ Numbers(c, Handled(c)))' \subseteq Owned(c) \ Numbers(c, Handled(c)),
         pc'[c] = "zero" => sock'[c][First(todo[c])'] \notin Owned(c)'
  PROVE  Accounts(c)'
<1>1. (Past(c) + After(c))' = Past(c) + After(c) /\ (Past(c) + Unseen(c))' = Past(c) + Unseen(c)
  BY DEF Past, After, Unseen
<1>2. /\ AtMost(Owned(c) \ Numbers(c, Needs(c)), Past(c) + After(c))
      /\ AtMost(Owned(c) \ Numbers(c, Handled(c)), Past(c) + Unseen(c))
  BY EndingAccounts
<1>3. /\ Past(c) + After(c) \in Int /\ Past(c) + After(c) <= Past(c) + After(c)
      /\ Past(c) + Unseen(c) \in Int /\ Past(c) + Unseen(c) <= Past(c) + Unseen(c)
  BY Sizes
<1>4. AtMost((Owned(c) \ Numbers(c, Needs(c)))', Past(c) + After(c))
  BY <1>2, <1>3, Fewer, Zenon
<1>5. AtMost((Owned(c) \ Numbers(c, Handled(c)))', Past(c) + Unseen(c))
  BY <1>2, <1>3, Fewer, Zenon
<1> QED
  BY <1>1, <1>4, <1>5, EndingAccountsNext

(* close() of a socket the attempt had still to close.                     *)
LEMMA CloseAccounts ==
  ASSUME SessionAssumption, NEW c \in Conn, Accounted(c), Close(c)
  PROVE  Accounts(c)'
<1> DEFINE n == sock[c][First(todo[c])]
<1>1. /\ pc[c] = "close" /\ UNCHANGED <<kind, sock, todo, ret, failures>>
      /\ TypeOK /\ KindFits(c) /\ Accounts(c)
  BY DEF Close, At, Stay, Accounted
<1>2. pc'[c] = "zero" /\ Owned(c)' = Owned(c) \ {n}
  BY <1>1, OwnedFacts DEF Close, Go, TypeOK
<1>3. Needs(c) = todo[c] /\ Needs(c)' = todo[c] \ {First(todo[c])}
  BY <1>1, <1>2 DEF Needs, First
<1>4. pc[c] \in Ending /\ pc'[c] \in Ending
  BY <1>1, <1>2 DEF Ending
<1>5. Handled(c)' = Handled(c) /\ First(todo[c])' = First(todo[c])
  BY <1>1 DEF Handled, First
<1>6. Numbers(c, Needs(c)) \subseteq Numbers(c, Needs(c))' \cup {n}
  BY <1>1, <1>3 DEF Numbers
<1>7. Numbers(c, Handled(c))' = Numbers(c, Handled(c))
  BY <1>1, <1>5 DEF Numbers
<1>8. sock'[c][First(todo[c])'] \notin Owned(c)'
  BY <1>1, <1>2, <1>5
<1> HIDE DEF n
<1> QED
  BY <1>1, <1>2, <1>4, <1>6, <1>7, <1>8, GoesOnEnding

(* The zeroed field held no descriptor of the connection any more.         *)
LEMMA ZeroAccounts ==
  ASSUME SessionAssumption, NEW c \in Conn, Accounted(c), Zero(c)
  PROVE  Accounts(c)'
<1>0. PICK f : f = First(todo[c])
  OBVIOUS
<1>1. /\ pc[c] = "zero" /\ UNCHANGED <<owner, kind, ret, failures>>
      /\ TypeOK /\ KindFits(c) /\ Accounts(c) /\ f \in Field
  BY <1>0 DEF Zero, At, Accounted, First, Field
<1>2. todo'[c] = todo[c] \ {f} /\ pc'[c] = IF todo'[c] = {} THEN "return" ELSE "close"
  BY <1>0, <1>1 DEF Zero, Go, TypeOK
<1>3. \A g \in Field : g # f => sock'[c][g] = sock[c][g]
  BY <1>0, <1>1 DEF Zero, Set, TypeOK
<1>4. Needs(c) = todo[c] \ {f} /\ Needs(c)' = todo[c] \ {f} /\ todo[c] \subseteq Field
  BY <1>0, <1>1, <1>2 DEF Needs, TypeOK, Field
<1>5. pc[c] \in Ending /\ pc'[c] \in Ending /\ pc'[c] # "zero"
  BY <1>1, <1>2 DEF Ending
<1>6. Owned(c)' = Owned(c) /\ sock[c][f] \notin Owned(c)
  BY <1>0, <1>1, OwnedFacts DEF Accounts
<1>7. Numbers(c, Needs(c)) \subseteq Numbers(c, Needs(c))'
  BY <1>3, <1>4 DEF Numbers
<1>8. Handled(c)' = Handled(c) /\ Handled(c) \subseteq Field
  BY <1>1 DEF Handled, Field
<1>9. Numbers(c, Handled(c)) \subseteq Numbers(c, Handled(c))' \cup {sock[c][f]}
  BY <1>3, <1>8 DEF Numbers
<1> QED
  BY <1>1, <1>5, <1>6, <1>7, <1>9, GoesOnEnding

(* What the attempt left open counts as a failed attempt's from now on.    *)
LEMMA ReturnAccounts ==
  ASSUME SessionAssumption, NEW c \in Conn, Accounted(c), Return(c)
  PROVE  Accounts(c)'
<1>1. /\ pc[c] = "return" /\ UNCHANGED <<owner, kind, sock, ret>>
      /\ TypeOK /\ TypeOK' /\ Accounts(c)
  BY DEF Return, At, Stay, Accounted
<1>2. /\ failures'[c] = IF ret[c] = "ok" THEN failures[c] ELSE failures[c] + 1
      /\ pc'[c] \in {"idle", "done"} /\ (pc'[c] = "idle" => ret[c] = "fail")
  BY <1>1 DEF Return, Go, TypeOK
<1>3. kind[c] \in Ftp \cup Http /\ failures[c] \in Int
  BY <1>1 DEF SessionAssumption, TypeOK
<1>4. Held(c) = {} /\ Held(c)' = {} /\ Owned(c)' = Owned(c)
  BY <1>1, <1>2, OwnedFacts DEF Held, Needs, Numbers
<1>5. AtMost(Owned(c) \ Held(c), Past(c) + Extra(c))
  BY <1>1 DEF Accounts, Cancelled
<1>6. Extra(c) = After(c) /\ Past(c)' + Extra(c)' \in Int /\ Past(c) + After(c) \in Int
  BY <1>1, Sizes, SizesNext DEF Extra, Ending
<1>7. Past(c) + After(c) <= Past(c)' + Extra(c)'
  <2>1. CASE ret[c] = "ok"
    <3>1. Past(c)' = Past(c)
      BY <1>1, <1>2, <2>1 DEF Past
    <3>2. After(c) <= Extra(c)'
      BY <1>1, <1>2, <2>1 DEF After, Extra, Ending
    <3> QED
      BY <1>1, <1>6, <3>1, <3>2, Sizes, SizesNext
  <2>2. CASE ret[c] # "ok"
    <3>1. Past(c)' = Past(c) + After(c)
      <4>1. CASE kind[c] \in Ftp
        BY <1>1, <1>2, <1>3, <2>2, <4>1 DEF Past, After
      <4>2. CASE kind[c] = "proxy"
        BY <1>1, <1>2, <1>3, <2>2, <4>2 DEF Past, After, Ftp
      <4>3. CASE kind[c] \in {"http", "query"}
        BY <1>1, <1>2, <1>3, <2>2, <4>3 DEF Past, After, Ftp
      <4> QED
        BY <1>3, <4>1, <4>2, <4>3 DEF Http
    <3> QED
      BY <1>1, <1>6, <3>1, SizesNext
  <2> QED
    BY <2>1, <2>2
<1>8. AtMost(Owned(c)' \ Held(c)', Past(c)' + Extra(c)')
  <2>1. PICK S, m, n : S = Owned(c) /\ m = Past(c) + After(c) /\ n = Past(c)' + Extra(c)'
    OBVIOUS
  <2>2. AtMost(S, m) /\ S \subseteq S /\ m \in Int /\ n \in Int /\ m <= n
    BY <1>4, <1>5, <1>6, <1>7, <2>1
  <2>3. AtMost(S, n)
    BY <2>2, Fewer, Zenon
  <2> QED
    BY <1>4, <2>1, <2>3
<1>9. pc'[c] \notin Ending \cup Cancelled /\ pc'[c] # "zero"
  BY <1>2 DEF Ending, Cancelled
<1> QED
  BY <1>8, <1>9 DEF Accounts

(* A new thread inherits the accounts of the old one.                      *)
LEMMA RelaunchAccounts ==
  ASSUME SessionAssumption, NEW c \in Conn, Accounted(c), Relaunch(c)
  PROVE  Accounts(c)'
<1>1. /\ pc[c] = "done" /\ kind[c] = "ftp" /\ pc'[c] = "idle"
      /\ UNCHANGED <<owner, kind, sock, failures>>
      /\ TypeOK /\ TypeOK' /\ Accounts(c)
  BY DEF Relaunch, At, Go, Accounted, TypeOK
<1>2. Held(c) = {} /\ Held(c)' = {} /\ Owned(c)' = Owned(c) /\ Extra(c) = 0
  BY <1>1, OwnedFacts DEF Held, Needs, Numbers, Extra, Ending
<1>3. pc[c] \notin Ending \cup Cancelled /\ pc'[c] \notin Ending \cup Cancelled
  BY <1>1 DEF Ending, Cancelled
<1> QED
  BY <1>1, <1>2, <1>3, Proceeds
-----------------------------------------------------------------------------
(***************************************************************************)
(* The cancellation of a thread and its handler.                           *)
(***************************************************************************)

(* The accounts of a thread that was cancelled.                            *)
LEMMA CancelledAccountsNext ==
  ASSUME NEW c \in Conn, pc'[c] \in Cancelled,
         AtMost((Owned(c) \ Numbers(c, ToClean(c)))', (Past(c) + Unseen(c))')
  PROVE  Accounts(c)'
  BY DEF Accounts, Cancelled

(* A cancelled thread: the handler can find all sockets but one.           *)
LEMMA CancelAccounts ==
  ASSUME SessionAssumption, NEW c \in Conn, Accounted(c), Cancel(c)
  PROVE  Accounts(c)'
<1>1. /\ UNCHANGED <<owner, kind, sock, failures>> /\ TypeOK /\ KindFits(c) /\ Accounts(c)
      /\ \/ InAttempt(c) /\ pc'[c] = "cleanData"
         \/ pc[c] = "idle" /\ pc'[c] = "gone"
  BY DEF Cancel, At, Go, Accounted, TypeOK
<1>2. Owned(c)' = Owned(c) /\ (Past(c) + Unseen(c))' = Past(c) + Unseen(c)
  BY <1>1, OwnedFacts DEF Past, Unseen
<1>3. pc'[c] \in Cancelled
  BY <1>1 DEF Cancelled
<1>4. CASE InAttempt(c) /\ pc'[c] = "cleanData"
  <2>1. AtMost(Owned(c) \ Numbers(c, Handled(c)), Past(c) + Unseen(c))
    <3>1. CASE Early(c)
      BY <1>1, <3>1, HandlerMissesOne
    <3>2. CASE pc[c] \in Ending
      BY <1>1, <3>2, EndingAccounts
    <3> QED
      BY <1>4, <3>1, <3>2 DEF Early, InAttempt, Cancelled
  <2>2. ToClean(c)' = Handled(c)
    BY <1>1, <1>4 DEF ToClean, Handled
  <2>3. Numbers(c, ToClean(c))' = Numbers(c, Handled(c))
    BY <1>1, <2>2 DEF Numbers
  <2> QED
    BY <1>2, <1>3, <2>1, <2>3, CancelledAccountsNext
<1>5. CASE pc[c] = "idle" /\ pc'[c] = "gone"
  <2>1. Held(c) = {} /\ Extra(c) = 0 /\ pc[c] \notin Cancelled
    BY <1>5 DEF Held, Needs, Numbers, Extra, Ending, Cancelled
  <2>2. AtMost(Owned(c), Past(c))
    BY <1>1, <2>1, Sizes DEF Accounts
  <2>3. Past(c) \in Int /\ Past(c) + Unseen(c) \in Int /\ Past(c) <= Past(c) + Unseen(c)
    BY <1>1, Sizes
  <2>4. Owned(c) \subseteq Owned(c)
    OBVIOUS
  <2>5. AtMost(Owned(c), Past(c) + Unseen(c))
    BY <2>2, <2>3, <2>4, Fewer, Zenon
  <2>6. Numbers(c, ToClean(c))' = {}
    BY <1>5 DEF ToClean, Numbers
  <2> QED
    BY <1>2, <1>3, <2>5, <2>6, CancelledAccountsNext
<1> QED
  BY <1>1, <1>4, <1>5

(* The handler closes the data socket, if its number is valid,             *)
LEMMA CleanDataAccounts ==
  ASSUME SessionAssumption, NEW c \in Conn, Accounted(c), CleanData(c)
  PROVE  Accounts(c)'
<1>1. /\ pc[c] = "cleanData" /\ UNCHANGED <<kind, failures>> /\ TypeOK /\ Accounts(c)
      /\ pc'[c] = IF kind[c] \in Ftp THEN "cleanCtrl" ELSE "gone"
  BY DEF CleanData, At, Go, Accounted, TypeOK
<1>2. AtMost(Owned(c) \ Numbers(c, Handled(c)), Past(c) + Unseen(c))
  <2>1. ToClean(c) = Handled(c)
    BY <1>1 DEF ToClean, Handled
  <2> QED
    BY <1>1, <2>1 DEF Accounts, Cancelled
<1>3. (Past(c) + Unseen(c))' = Past(c) + Unseen(c) /\ pc'[c] \in Cancelled
  BY <1>1 DEF Past, Unseen, Cancelled
<1>4. Owned(c)' = Owned(c) \ {sock[c]["data"]}
  <2>1. CASE Valid(sock[c]["data"])
    BY <1>1, <2>1, OwnedFacts DEF CleanData
  <2>2. CASE ~Valid(sock[c]["data"])
    <3>1. sock[c]["data"] \notin Owned(c)
      BY <2>2 DEF Valid, Owned, SessionAssumption
    <3>2. Owned(c)' = Owned(c)
      BY <1>1, <2>2, OwnedFacts DEF CleanData
    <3> QED
      BY <3>1, <3>2
  <2> QED
    BY <2>1, <2>2
<1>5. sock'[c]["ctrl"] = sock[c]["ctrl"]
  BY <1>1 DEF CleanData, Set, TypeOK, Field
<1>6. CASE kind[c] \in Ftp
  <2>1. Handled(c) = {"ctrl", "data"} /\ ToClean(c)' = {"ctrl"}
    BY <1>1, <1>6 DEF Handled, ToClean
  <2>2. Numbers(c, Handled(c)) = {sock[c]["ctrl"], sock[c]["data"]}
    BY <2>1 DEF Numbers
  <2>3. Numbers(c, ToClean(c))' = {sock[c]["ctrl"]}
    BY <1>5, <2>1 DEF Numbers
  <2>4. (Owned(c) \ Numbers(c, ToClean(c)))' = Owned(c) \ Numbers(c, Handled(c))
    BY <1>4, <2>2, <2>3
  <2> QED
    BY <1>2, <1>3, <2>4, CancelledAccountsNext
<1>7. CASE kind[c] \notin Ftp
  <2>1. Numbers(c, Handled(c)) = {sock[c]["data"]}
    BY <1>7 DEF Handled, Numbers
  <2>2. Numbers(c, ToClean(c))' = {}
    BY <1>1, <1>7 DEF ToClean, Numbers
  <2>3. (Owned(c) \ Numbers(c, ToClean(c)))' = Owned(c) \ Numbers(c, Handled(c))
    BY <1>4, <2>1, <2>2
  <2> QED
    BY <1>2, <1>3, <2>3, CancelledAccountsNext
<1> QED
  BY <1>6, <1>7

(* and the control connection.                                             *)
LEMMA CleanCtrlAccounts ==
  ASSUME SessionAssumption, NEW c \in Conn, Accounted(c), CleanCtrl(c)
  PROVE  Accounts(c)'
<1>1. /\ pc[c] = "cleanCtrl" /\ UNCHANGED <<kind, failures>> /\ TypeOK /\ Accounts(c)
      /\ pc'[c] = "gone"
  BY DEF CleanCtrl, At, Go, Accounted, TypeOK
<1>2. Numbers(c, ToClean(c)) = {sock[c]["ctrl"]} /\ Numbers(c, ToClean(c))' = {}
  BY <1>1 DEF ToClean, Numbers
<1>3. AtMost(Owned(c) \ Numbers(c, ToClean(c)), Past(c) + Unseen(c))
  BY <1>1 DEF Accounts, Cancelled
<1>4. (Past(c) + Unseen(c))' = Past(c) + Unseen(c) /\ pc'[c] \in Cancelled
  BY <1>1 DEF Past, Unseen, Cancelled
<1>5. Owned(c)' = Owned(c) \ {sock[c]["ctrl"]}
  <2>1. CASE Valid(sock[c]["ctrl"])
    BY <1>1, <2>1, OwnedFacts DEF CleanCtrl
  <2>2. CASE ~Valid(sock[c]["ctrl"])
    <3>1. sock[c]["ctrl"] \notin Owned(c)
      BY <2>2 DEF Valid, Owned, SessionAssumption
    <3>2. Owned(c)' = Owned(c)
      BY <1>1, <2>2, OwnedFacts DEF CleanCtrl
    <3> QED
      BY <3>1, <3>2
  <2> QED
    BY <2>1, <2>2
<1>6. (Owned(c) \ Numbers(c, ToClean(c)))' = Owned(c) \ Numbers(c, ToClean(c))
  BY <1>2, <1>5
<1> QED
  BY <1>3, <1>4, <1>6, CancelledAccountsNext
-----------------------------------------------------------------------------
(***************************************************************************)
(* The invariant.                                                          *)
(***************************************************************************)

(* One lemma for them all.                                                *)
LEMMA StepAccounts ==
  ASSUME SessionAssumption, NEW c \in Conn, Accounted(c), StepOf(c)
  PROVE  Accounts(c)'
<1>1. CASE Begin(c)
  BY <1>1, BeginAccounts
<1>2. CASE UnknownHost(c)
  BY <1>2, UnknownHostAccounts
<1>3. CASE Socket(c)
  BY <1>3, SocketAccounts
<1>4. CASE Connected(c)
  BY <1>4, ConnectedAccounts
<1>5. CASE ConnectFails(c)
  BY <1>5, ConnectFailsAccounts
<1>6. CASE Greeting(c)
  BY <1>6, GreetingAccounts
<1>7. CASE Login(c)
  BY <1>7, LoginAccounts
<1>8. CASE Pasv(c)
  BY <1>8, PasvAccounts
<1>9. CASE Bind(c)
  BY <1>9, BindAccounts
<1>10. CASE Port(c)
  BY <1>10, PortAccounts
<1>11. CASE Command(c)
  BY <1>11, CommandAccounts
<1>12. CASE Accept(c)
  BY <1>12, AcceptAccounts
<1>13. CASE Unlisten(c)
  BY <1>13, UnlistenAccounts
<1>14. CASE Headers(c)
  BY <1>14, HeadersAccounts
<1>15. CASE Transferred(c)
  BY <1>15, TransferredAccounts
<1>16. CASE Close(c)
  BY <1>16, CloseAccounts
<1>17. CASE Zero(c)
  BY <1>17, ZeroAccounts
<1>18. CASE Return(c)
  BY <1>18, ReturnAccounts
<1>19. CASE Relaunch(c)
  BY <1>19, RelaunchAccounts
<1>20. CASE Cancel(c)
  BY <1>20, CancelAccounts
<1>21. CASE CleanData(c)
  BY <1>21, CleanDataAccounts
<1>22. CASE CleanCtrl(c)
  BY <1>22, CleanCtrlAccounts
<1> QED
  BY <1>1, <1>2, <1>3, <1>4, <1>5, <1>6, <1>7, <1>8, <1>9, <1>10, <1>11, <1>12,
     <1>13, <1>14, <1>15, <1>16, <1>17, <1>18, <1>19, <1>20, <1>21, <1>22 DEF StepOf

(* A step only ever gives descriptors to its own connection, *)
LEMMA GivesToItself ==
  ASSUME SessionAssumption, TypeOK, NEW c \in Conn, StepOf(c)
  PROVE  \A d \in Conn : d # c => Owned(d)' \subseteq Owned(d)
<1>1. \/ UNCHANGED owner
      \/ FreeFds # {} /\ Take(c)
      \/ \E n : Drop(n)
  <2>1. CASE \/ Begin(c) \/ UnknownHost(c) \/ Connected(c) \/ Greeting(c) \/ Login(c)
             \/ Pasv(c) \/ Port(c) \/ Command(c) \/ Headers(c) \/ Transferred(c)
    BY <2>1 DEF Begin, UnknownHost, Connected, Greeting, Login, Pasv, Port, Command,
                Headers, Transferred
  <2>2. CASE Zero(c) \/ Return(c) \/ Relaunch(c) \/ Cancel(c)
    BY <2>2 DEF Zero, Return, Relaunch, Cancel
  <2>3. CASE Socket(c) \/ Bind(c) \/ Accept(c)
    BY <2>3 DEF Socket, Bind, Accept
  <2>4. CASE ConnectFails(c) \/ Unlisten(c) \/ Close(c)
    BY <2>4 DEF ConnectFails, Unlisten, Close
  <2>5. CASE CleanData(c) \/ CleanCtrl(c)
    BY <2>5 DEF CleanData, CleanCtrl
  <2> QED
    BY <2>1, <2>2, <2>3, <2>4, <2>5 DEF StepOf
<1> SUFFICES ASSUME NEW d \in Conn, d # c
             PROVE  Owned(d)' \subseteq Owned(d)
  OBVIOUS
<1>2. CASE UNCHANGED owner
  BY <1>2 DEF Owned
<1>3. CASE FreeFds # {} /\ Take(c)
  BY <1>3, TakeFacts DEF Owned
<1>4. CASE \E n : Drop(n)
  <2>1. PICK n : Drop(n)
    BY <1>4
  <2>2. Owned(d)' = Owned(d) \ {n}
    BY <2>1, OwnedFacts
  <2> QED
    BY <2>2
<1> QED
  BY <1>1, <1>2, <1>3, <1>4

(* which is why the accounts of the others stand.                          *)
LEMMA OthersAccounts ==
  ASSUME TypeOK, NEW d \in Conn, Accounts(d), Apart(d), ret'[d] = ret[d],
         UNCHANGED kind, Owned(d)' \subseteq Owned(d)
  PROVE  Accounts(d)'
<1>1. /\ Needs(d)' = Needs(d) /\ ToClean(d)' = ToClean(d)
      /\ sock'[d] = sock[d] /\ sockfd'[d] = sockfd[d] /\ pc'[d] = pc[d] /\ todo'[d] = todo[d]
  BY DEF Apart, Needs, ToClean
<1>2. /\ (Past(d) + Extra(d))' = Past(d) + Extra(d)
      /\ (Past(d) + Unseen(d))' = Past(d) + Unseen(d)
  BY DEF Apart, Past, Extra, After, Unseen
<1>3. Held(d)' = Held(d) /\ Numbers(d, ToClean(d))' = Numbers(d, ToClean(d))
  BY <1>1 DEF Held, Numbers
<1>4. /\ Past(d) + Extra(d) \in Int /\ Past(d) + Extra(d) <= Past(d) + Extra(d)
      /\ Past(d) + Unseen(d) \in Int /\ Past(d) + Unseen(d) <= Past(d) + Unseen(d)
  BY Sizes
<1>5. /\ (Owned(d) \ Held(d))' \subseteq Owned(d) \ Held(d)
      /\ (Owned(d) \ Numbers(d, ToClean(d)))' \subseteq Owned(d) \ Numbers(d, ToClean(d))
  BY <1>3
<1>6. pc[d] \notin Cancelled => AtMost((Owned(d) \ Held(d))', Past(d) + Extra(d))
  <2>1. SUFFICES ASSUME pc[d] \notin Cancelled
                 PROVE  AtMost((Owned(d) \ Held(d))', Past(d) + Extra(d))
    OBVIOUS
  <2>2. AtMost(Owned(d) \ Held(d), Past(d) + Extra(d))
    BY <2>1 DEF Accounts
  <2> QED
    BY <1>4, <1>5, <2>2, Fewer, Zenon
<1>7. pc[d] \in Ending \cup Cancelled =>
        AtMost((Owned(d) \ Numbers(d, ToClean(d)))', Past(d) + Unseen(d))
  <2>1. SUFFICES ASSUME pc[d] \in Ending \cup Cancelled
                 PROVE  AtMost((Owned(d) \ Numbers(d, ToClean(d)))', Past(d) + Unseen(d))
    OBVIOUS
  <2>2. AtMost(Owned(d) \ Numbers(d, ToClean(d)), Past(d) + Unseen(d))
    BY <2>1 DEF Accounts
  <2> QED
    BY <1>4, <1>5, <2>2, Fewer, Zenon
<1>8. pc[d] = "zero" => sock'[d][First(todo'[d])] \notin Owned(d)'
  BY <1>1 DEF Accounts
<1> QED
  BY <1>1, <1>2, <1>6, <1>7, <1>8 DEF Accounts, Ending, Cancelled

(* The ret of another connection is left alone, too.                       *)
LEMMA OthersRet ==
  ASSUME TypeOK, NEW c \in Conn, StepOf(c)
  PROVE  \A d \in Conn : d # c => ret'[d] = ret[d]
<1> DEFINE Left == \E s, r : Leave(c, s, r)
           Kept1 == ret' = ret \/ \E r : ret' = [ret EXCEPT ![c] = r]
<1>1. Left => Kept1
  BY DEF Leave
<1>2. Stay => Kept1
  BY DEF Stay
<1>3. Kept1
  <2>1. CASE Begin(c) \/ Cancel(c)
    BY <2>1 DEF Begin, Cancel
  <2>2. CASE Zero(c)
    BY <2>2 DEF Zero
  <2>3. CASE Connected(c) \/ Unlisten(c) \/ Close(c) \/ Return(c) \/ Relaunch(c)
             \/ CleanData(c) \/ CleanCtrl(c)
    BY <1>2, <2>3 DEF Connected, Unlisten, Close, Return, Relaunch, CleanData, CleanCtrl
  <2>4. CASE UnknownHost(c) \/ Socket(c) \/ ConnectFails(c)
    BY <1>1, <1>2, <2>4 DEF UnknownHost, Socket, ConnectFails, DialFails
  <2>5. CASE Greeting(c) \/ Login(c) \/ Pasv(c) \/ Bind(c) \/ Port(c)
    BY <1>1, <1>2, <2>5 DEF Greeting, Login, Pasv, Bind, Port
  <2>6. CASE Command(c) \/ Accept(c) \/ Headers(c)
    BY <1>1, <1>2, <2>6 DEF Command, Accept, Headers
  <2>7. CASE Transferred(c)
    <3>1. Left
      BY <2>7 DEF Transferred, Http
    <3> QED
      BY <1>1, <3>1
  <2> QED
    BY <2>1, <2>2, <2>3, <2>4, <2>5, <2>6, <2>7 DEF StepOf
<1> QED
  BY <1>3 DEF TypeOK

(* Every step keeps the accounts of all connections.                       *)
LEMMA LeakStep ==
  ASSUME SessionAssumption, FaultsApart, IInv, IInv', LeakInv, [Next]_vars
  PROVE  LeakInv'
<1>1. CASE Next
  <2>1. PICK c \in Conn : StepOf(c)
    BY <1>1 DEF Next, StepOf
  <2>2. TypeOK /\ TypeOK' /\ ConnInv(c) /\ Accounts(c)
    BY DEF IInv, LeakInv
  <2>3. Accounted(c)
    BY <2>2 DEF Accounted, ConnInv
  <2>4. Accounts(c)'
    BY <2>1, <2>3, StepAccounts
  <2>5. ASSUME NEW d \in Conn, d # c
        PROVE  Accounts(d)'
    <3>1. Apart(d) /\ UNCHANGED kind
      BY <2>1, <2>5, StepIsGood DEF Good
    <3>2. ret'[d] = ret[d] /\ Owned(d)' \subseteq Owned(d)
      BY <2>1, <2>2, <2>5, OthersRet, GivesToItself
    <3>3. Accounts(d)
      BY DEF LeakInv
    <3> QED
      BY <2>2, <3>1, <3>2, <3>3, OthersAccounts
  <2> QED
    BY <2>4, <2>5 DEF LeakInv
<1>2. CASE UNCHANGED vars
  <2> SUFFICES ASSUME NEW d \in Conn
               PROVE  Accounts(d)'
    BY DEF LeakInv
  <2>1. TypeOK /\ Accounts(d)
    BY DEF IInv, LeakInv
  <2>2. UNCHANGED <<owner, kind, ret>> /\ Apart(d)
    BY <1>2 DEF vars, Apart
  <2>3. Owned(d)' \subseteq Owned(d)
    BY <2>2 DEF Owned
  <2> QED
    BY <2>1, <2>2, <2>3, OthersAccounts
<1> QED
  BY <1>1, <1>2

(* At the start nothing is open.                                           *)
LEMMA LeakInit == ASSUME SessionAssumption, Init PROVE LeakInv
<1> SUFFICES ASSUME NEW c \in Conn
             PROVE  Accounts(c)
  BY DEF LeakInv
<1>1. /\ pc[c] = "idle" /\ failures[c] = 0 /\ TypeOK
      /\ Owned(c) = {}
  <2>1. TypeOK
    BY InitHolds DEF IInv
  <2>2. Owned(c) = {}
    BY DEF Init, Owned, SessionAssumption
  <2> QED
    BY <2>1, <2>2 DEF Init
<1>2. Past(c) = 0 /\ Extra(c) = 0
  BY <1>1 DEF Past, Extra, Ending
<1>3. AtMost({}, 0)
  BY FS_EmptySet DEF AtMost
<1>4. AtMost(Owned(c) \ Held(c), Past(c) + Extra(c))
  <2>1. Owned(c) \ Held(c) = {} /\ Past(c) + Extra(c) = 0
    BY <1>1, <1>2
  <2> QED
    BY <1>3, <2>1
<1> QED
  BY <1>1, <1>4 DEF Accounts, Ending, Cancelled

(* At every step a connection owns, besides what its attempt still needs,  *)
(* what LeakBound allows it and no more; the handler of a cancelled thread *)
(* misses one socket at most.                                              *)
THEOREM LeakInductive == FaultsApart => (Spec => []LeakInv)
<1> SUFFICES ASSUME FaultsApart PROVE Spec => []LeakInv
  OBVIOUS
<1>1. Init => LeakInv
  BY SessionAssumption, LeakInit
<1>2. IInv /\ IInv' /\ LeakInv /\ [Next]_vars => LeakInv'
  BY SessionAssumption, LeakStep
<1>3. Spec => []IInv
  BY Inductive
<1> QED
  BY <1>1, <1>2, <1>3, PTL DEF Spec

(* For any number of connections, descriptors and attempts: an attempt     *)
(* that failed leaves at most two descriptors open, one that ended well    *)
(* none but for a query's control connection, and the cleanup handler at   *)
(* most the listening socket.                                              *)
THEOREM LeaksAreBounded == FaultsApart => (Spec => []LeakBound)
<1>1. IInv /\ LeakInv => LeakBound
  <2> SUFFICES ASSUME IInv, LeakInv, NEW c \in Conn, pc[c] \in {"idle", "done", "gone"}
               PROVE  Cardinality(Owned(c)) <= Forgotten(c)
    BY DEF LeakBound
  <2>1. TypeOK /\ Accounts(c)
    BY DEF IInv, LeakInv
  <2>2. failures[c] \in Nat /\ kind[c] \in Ftp \cup Http
    BY <2>1, SessionAssumption DEF TypeOK, SessionAssumption
  <2>3. Held(c) = {}
    BY DEF Held, Needs, Numbers
  <2>4. CASE pc[c] \in {"idle", "done"}
    <3>1. AtMost(Owned(c), Past(c) + Extra(c))
      BY <2>1, <2>3, <2>4 DEF Accounts, Cancelled
    <3>2. Cardinality(Owned(c)) <= Past(c) + Extra(c) /\ Cardinality(Owned(c)) \in Int
      BY <3>1, FS_CardinalityType DEF AtMost
    <3>3. Past(c) + Extra(c) <= Forgotten(c) /\ Forgotten(c) \in Int
      BY <2>2, <2>4 DEF Past, Extra, Ending, Forgotten, Ftp, Http
    <3> QED
      BY <2>1, <3>2, <3>3, Sizes
  <2>5. CASE pc[c] = "gone"
    <3>1. ToClean(c) = {} /\ Numbers(c, ToClean(c)) = {}
      BY <2>5 DEF ToClean, Numbers
    <3>2. AtMost(Owned(c), Past(c) + Unseen(c))
      BY <2>1, <2>5, <3>1 DEF Accounts, Cancelled
    <3>3. Cardinality(Owned(c)) <= Past(c) + Unseen(c) /\ Cardinality(Owned(c)) \in Int
      BY <3>2, FS_CardinalityType DEF AtMost
    <3>4. Past(c) + Unseen(c) <= Forgotten(c) /\ Forgotten(c) \in Int
      BY <2>2, <2>5 DEF Past, Unseen, Forgotten, Ftp, Http
    <3> QED
      BY <2>1, <3>3, <3>4, Sizes
  <2> QED
    BY <2>4, <2>5
<1> QED
  BY <1>1, Inductive, LeakInductive, PTL
=============================================================================
