--------------------------- MODULE AnswersProofs ----------------------------
(***************************************************************************)
(* Lemmas about what servers send: replies, headers and listings, and the  *)
(* pages of a mirror search, which arrive whole or cut short anywhere.     *)
(* What was sent is a concatenation of parts, of which the first n lines   *)
(* or tokens have come; a reader goes through it by a recursive function,  *)
(* and by induction on the lines it has read it is where the parts say.    *)
(***************************************************************************)
EXTENDS Inputs, Folding

-----------------------------------------------------------------------------
(***************************************************************************)
(* Sequences that are given by their elements, and the concatenations of   *)
(* them that the models use.                                               *)
(***************************************************************************)

(* A function on the first numbers is a sequence of that length.           *)
LEMMA LengthIs == \A s, n : n \in Nat /\ DOMAIN s = 1 .. n => Len(s) = n
  OBVIOUS

(* A sequence is one of what it consists of.                               *)
LEMMA SeqOf == \A s, W : IsSeq(s) /\ (\A i \in 1 .. Len(s) : s[i] \in W) => s \in Seq(W)
<1> TAKE s, W
<1> HAVE IsSeq(s) /\ (\A i \in 1 .. Len(s) : s[i] \in W)
<1>1. PICK n \in Nat : n = Len(s) /\ s = [i \in 1 .. n |-> s[i]]
  BY DEF IsSeq
<1>2. s \in [1 .. n -> W]
  BY <1>1
<1> QED
  BY <1>2

(* The positions of a sequence.                                            *)
LEMMA SeqDomain == \A s : IsSeq(s) => DOMAIN s = 1 .. Len(s) /\ Len(s) \in Nat
<1> TAKE s
<1> HAVE IsSeq(s)
<1>1. PICK n \in Nat : n = Len(s) /\ s = [i \in 1 .. n |-> s[i]]
  BY DEF IsSeq
<1>2. DOMAIN s = 1 .. n
  BY <1>1
<1> QED
  BY <1>1, <1>2

(* What the community module's concatenation of sequences yields.          *)
LEMMA RFlatten == \A n, V, s, f : IsFlat(f, s, n, V) /\ n = Len(s) /\ (n = 0 => s = <<>>) => R!FlattenSeq(s) = f[n]
<1> TAKE n, V, s, f
<1> HAVE IsFlat(f, s, n, V) /\ n = Len(s) /\ (n = 0 => s = <<>>)
<1>1. n \in Nat /\ f[0] = <<>>
  BY DEF IsFlat
<1>2. CASE n = 0
  BY <1>1, <1>2 DEF R!FlattenSeq
<1>3. CASE n # 0
  <2>1. R!FlattenSeq(s) = (CHOOSE g : Flattens(g, s, n))[n]
    BY <1>3 DEF R!FlattenSeq, Flattens
  <2>2. Flattens(CHOOSE g : Flattens(g, s, n), s, n)
    BY FlatIsThere, Zenon
  <2> PICK g : g = (CHOOSE h : Flattens(h, s, n))
    OBVIOUS
  <2>3. \A k \in 1 .. n : g[k] = f[k]
    <3>1. Flattens(g, s, n)
      BY <2>2, Zenon
    <3> QED
      BY <3>1, FlatIsFlattened
  <2>4. n \in 1 .. n
    BY <1>1, <1>3
  <2> QED
    BY <2>1, <2>3, <2>4, Zenon
<1> QED
  BY <1>2, <1>3

(* The same in the other modules that use it.                              *)
LEMMA AFlatten == \A n, V, s, f : IsFlat(f, s, n, V) /\ n = Len(s) /\ (n = 0 => s = <<>>) => A!FlattenSeq(s) = f[n]
<1>1. \A s : A!FlattenSeq(s) = R!FlattenSeq(s)
  BY Zenon DEF A!FlattenSeq, R!FlattenSeq
<1> QED
  BY <1>1, RFlatten, Zenon

(* The same of the instance that the pages of mirrors use.                 *)
LEMMA MFlatten == \A n, V, s, f : IsFlat(f, s, n, V) /\ n = Len(s) /\ (n = 0 => s = <<>>) => M!FlattenSeq(s) = f[n]
<1>1. \A s : M!FlattenSeq(s) = R!FlattenSeq(s)
  BY Zenon DEF M!FlattenSeq, R!FlattenSeq
<1> QED
  BY <1>1, RFlatten, Zenon

(* The least of some numbers.                                              *)
LEMMA LeastIs == \A I, i : I \subseteq Nat /\ i \in I /\ (\A j \in I : i <= j) => R!Min(I) = i
<1> SUFFICES ASSUME NEW I, NEW i, I \subseteq Nat, i \in I, \A j \in I : i <= j PROVE R!Min(I) = i
  OBVIOUS
<1>1. PICK m : m = R!Min(I) /\ m \in I /\ \A j \in I : m <= j
  BY Zenon DEF R!Min
<1> QED
  BY <1>1

-----------------------------------------------------------------------------
(***************************************************************************)
(* The first of some values, and what is left of a stream when some of its *)
(* lines are read.                                                         *)
(***************************************************************************)


(* The community modules' least element of such a set is one.              *)
LEMMA MinIs == \A I : I \subseteq Nat /\ I # {} => R!Min(I) \in I /\ \A j \in I : R!Min(I) <= j
<1> SUFFICES ASSUME NEW I, I \subseteq Nat, I # {} PROVE R!Min(I) \in I /\ \A j \in I : R!Min(I) <= j
  OBVIOUS
<1> QED
  BY LeastExists, Zenon DEF R!Min

(* The first of some values that says something.                           *)
Sayers(none, g, k) == {i \in 1 .. k : g[i] # none}
First(none, g, k) == IF Sayers(none, g, k) = {} THEN none ELSE g[R!Min(Sayers(none, g, k))]

(* One more value counts if none before it said anything.                  *)
LEMMA FirstNext ==
  \A none, g, k : k \in Nat \ {0} =>
    /\ First(none, g, 0) = none
    /\ First(none, g, k) = IF First(none, g, k - 1) = none THEN g[k] ELSE First(none, g, k - 1)
<1> TAKE none, g, k
<1> HAVE k \in Nat \ {0}
<1>1. First(none, g, 0) = none
  BY DEF First, Sayers
<1>2. PICK I, J : I = Sayers(none, g, k - 1) /\ J = Sayers(none, g, k)
  OBVIOUS
<1>3. I = {i \in 1 .. (k - 1) : g[i] # none} /\ J = {i \in 1 .. k : g[i] # none}
  BY <1>2 DEF Sayers
<1>4. CASE I = {}
  <2>1. First(none, g, k - 1) = none
    BY <1>2, <1>4 DEF First
  <2>2. CASE g[k] = none
    <3>1. J = {}
      BY <1>3, <1>4, <2>2
    <3> QED
      BY <1>1, <1>2, <2>1, <2>2, <3>1 DEF First
  <2>3. CASE g[k] # none
    <3>1. J = {k}
      BY <1>3, <1>4, <2>3
    <3>2. R!Min(J) = k
      <4>1. J \subseteq Nat /\ J # {}
        BY <3>1
      <4>2. R!Min(J) \in J
        BY <4>1, MinIs, Zenon
      <4> QED
        BY <3>1, <4>2
    <3> QED
      BY <1>1, <1>2, <2>1, <3>1, <3>2 DEF First
  <2> QED
    BY <2>2, <2>3
<1>5. CASE I # {}
  <2>1. I \subseteq Nat /\ J \subseteq Nat /\ J # {} /\ I \subseteq J
    BY <1>3, <1>5
  <2>2. R!Min(I) \in I /\ \A j \in I : R!Min(I) <= j
    BY <1>5, <2>1, MinIs, Zenon
  <2>3. R!Min(J) \in J /\ \A j \in J : R!Min(J) <= j
    BY <2>1, MinIs, Zenon
  <2>4. R!Min(I) = R!Min(J)
    <3>1. PICK m, n : m = R!Min(I) /\ n = R!Min(J)
      OBVIOUS
    <3>2. m \in I /\ n \in J /\ n <= m /\ m \in 1 .. (k - 1) /\ n \in 1 .. k
      BY <1>3, <2>1, <2>2, <2>3, <3>1
    <3>3. n \in I
      BY <1>3, <3>2
    <3>4. m <= n
      BY <2>2, <3>1, <3>3
    <3> QED
      BY <3>1, <3>2, <3>4
  <2>5. g[R!Min(I)] # none
    BY <1>3, <2>2
  <2>6. First(none, g, k - 1) = g[R!Min(I)] /\ First(none, g, k) = g[R!Min(J)]
    BY <1>2, <1>5, <2>1, Zenon DEF First
  <2> QED
    BY <1>1, <2>4, <2>5, <2>6
<1> QED
  BY <1>4, <1>5

(* What was said first stays said.                                         *)
LEMMA FirstStays ==
  \A none, g, j, k : j \in Nat /\ k \in Nat /\ j <= k /\ First(none, g, j) # none => First(none, g, k) = First(none, g, j)
<1> TAKE none, g, j, k
<1> HAVE j \in Nat /\ k \in Nat /\ j <= k /\ First(none, g, j) # none
<1> DEFINE P == {i \in Nat : First(none, g, j + i) = First(none, g, j)}
<1>1. 0 \in P
  OBVIOUS
<1>2. ASSUME NEW i \in Nat, i \in P PROVE i + 1 \in P
  <2>1. PICK n \in Nat \ {0} : n = j + (i + 1) /\ n - 1 = j + i
    OBVIOUS
  <2>2. First(none, g, n) = IF First(none, g, n - 1) = none THEN g[n] ELSE First(none, g, n - 1)
    BY <2>1, FirstNext
  <2> QED
    BY <1>2, <2>1, <2>2
<1>3. k - j \in P
  <2>1. k - j \in Nat
    OBVIOUS
  <2> HIDE DEF P
  <2> QED
    BY <1>1, <1>2, <2>1, NatInductive
<1> QED
  BY <1>3

(* What lies behind the first p lines of which n come.                     *)
RestIs(d, x, p, n) ==
  /\ Len(d) = n - p /\ \A i \in 1 .. n - p : d[i] = x[p + i]
  /\ (p = n <=> d = <<>>)
  /\ \A i \in 1 .. n - p + 1 : SubSeq(d, i, Len(d)) = SubSeq(x, p + i, n)
  /\ p < n => Head(d) = x[p + 1] /\ Tail(d) = SubSeq(x, p + 2, n)

(* A part of what is left is a part of the whole.                          *)
LEMMA SubRest ==
  ASSUME NEW W, NEW x \in Seq(W), NEW n \in 0 .. Len(x), NEW p \in 0 .. n, NEW i \in 1 .. n - p + 1
  PROVE  SubSeq(SubSeq(x, p + 1, n), i, n - p) = SubSeq(x, p + i, n)
<1>0. Len(x) \in Nat /\ n \in Nat /\ p \in Nat /\ i \in Nat
  OBVIOUS
<1>1. PICK d : d = SubSeq(x, p + 1, n)
  OBVIOUS
<1>2. d \in Seq(W) /\ Len(d) = n - p /\ \A j \in 1 .. n - p : d[j] = x[p + j]
  BY <1>0, <1>1
<1>y. PICK y, z : y = SubSeq(d, i, n - p) /\ z = SubSeq(x, p + i, n)
  OBVIOUS
<1>3. PICK k \in Nat : k = n - p - i + 1
  BY <1>0
<1>4. y \in Seq(W) /\ Len(y) = k /\ \A j \in 1 .. k : y[j] = d[i + j - 1]
  <2>1. PICK r \in Nat : r = n - p
    BY <1>0
  <2>2. d \in Seq(W) /\ Len(d) = r
    BY <1>2, <2>1
  <2>3. y = SubSeq(d, i, r) /\ i >= 1 /\ i <= r + 1 /\ k = r - i + 1
    BY <1>0, <1>3, <1>y, <2>1
  <2> QED
    BY <1>0, <2>2, <2>3
<1>5. z \in Seq(W) /\ Len(z) = k /\ \A j \in 1 .. k : z[j] = x[p + i + j - 1]
  <2>1. PICK q \in Nat : q = p + i
    BY <1>0
  <2>2. q >= 1 /\ n <= Len(x) /\ q <= n + 1 /\ k = n - q + 1
    BY <1>0, <1>3, <2>1
  <2>3. z = SubSeq(x, q, n)
    BY <1>y, <2>1
  <2>4. z \in Seq(W) /\ Len(z) = k /\ \A j \in 1 .. k : z[j] = x[q + j - 1]
    BY <1>0, <2>2, <2>3
  <2> QED
    BY <2>1, <2>4
<1>6. ASSUME NEW j \in 1 .. k PROVE y[j] = z[j]
  <2>1. PICK q : q = i + j - 1 /\ q \in 1 .. n - p /\ p + q = p + i + j - 1
    BY <1>0, <1>3
  <2>2. y[j] = d[q] /\ z[j] = x[p + q] /\ d[q] = x[p + q]
    BY <1>2, <1>4, <1>5, <2>1
  <2> QED
    BY <2>2
<1>7. \A j \in 1 .. k : y[j] = z[j]
  BY <1>6
<1>8. y = z
  BY <1>4, <1>5, <1>7
<1> QED
  BY <1>1, <1>8, <1>y

(* What is left without its first lines, line by line.                     *)
LEMMA Rest ==
  \A W, x, n, p : x \in Seq(W) /\ n \in 0 .. Len(x) /\ p \in 0 .. n
    => SubSeq(x, p + 1, n) \in Seq(W) /\ RestIs(SubSeq(x, p + 1, n), x, p, n)
<1> SUFFICES ASSUME NEW W, NEW x \in Seq(W), NEW n \in 0 .. Len(x), NEW p \in 0 .. n
             PROVE  SubSeq(x, p + 1, n) \in Seq(W) /\ RestIs(SubSeq(x, p + 1, n), x, p, n)
  BY Zenon
<1>0. Len(x) \in Nat /\ n \in Nat /\ p \in Nat
  OBVIOUS
<1>1. PICK d : d = SubSeq(x, p + 1, n)
  OBVIOUS
<1>2. d \in Seq(W) /\ Len(d) = n - p /\ \A j \in 1 .. n - p : d[j] = x[p + j]
  BY <1>0, <1>1
<1>3. p = n <=> d = <<>>
  BY <1>0, <1>2
<1>4. \A i \in 1 .. n - p + 1 : SubSeq(d, i, n - p) = SubSeq(x, p + i, n)
  BY <1>1, SubRest
<1>5. ASSUME p < n PROVE Head(d) = x[p + 1] /\ Tail(d) = SubSeq(x, p + 2, n)
  <2>1. d # <<>> /\ 1 \in 1 .. n - p /\ 2 \in 1 .. n - p + 1
    BY <1>0, <1>3, <1>5
  <2>2. Head(d) = x[p + 1]
    BY <1>2, <2>1
  <2>3. Tail(d) = SubSeq(d, 2, n - p)
    BY <1>2, <2>1
  <2> QED
    BY <1>4, <2>1, <2>2, <2>3
<1>6. RestIs(d, x, p, n)
  BY <1>2, <1>3, <1>4, <1>5, Zenon DEF RestIs
<1> QED
  BY <1>1, <1>2, <1>6

-----------------------------------------------------------------------------
(***************************************************************************)
(* Replies of an FTP server.                                               *)
(***************************************************************************)

(* Where the last line of a reply stands.                                  *)
LEMMA LastIsFound ==
  \A x, c, i : 
    i \in Nat /\ Len(x) \in Nat /\ i \in 1 .. Len(x)
    /\ R!LastLine(x[i], c) /\ (\A j \in 1 .. Len(x) : R!LastLine(x[j], c) => i <= j)
    => R!ReadToLast(x, c) = R!FtpReply(c, SubSeq(x, i + 1, Len(x)))
<1> TAKE x, c, i
<1> HAVE i \in Nat /\ Len(x) \in Nat /\ i \in 1 .. Len(x)
    /\ R!LastLine(x[i], c) /\ (\A j \in 1 .. Len(x) : R!LastLine(x[j], c) => i <= j)
<1>1. PICK I : I = {j \in 1 .. Len(x) : R!LastLine(x[j], c)}
  OBVIOUS
<1>2. R!Min(I) = i
  <2>1. I \subseteq Nat /\ i \in I /\ \A j \in I : i <= j
    BY <1>1
  <2> QED
    BY <2>1, LeastIs
<1>3. I # {} /\ i # 0
  BY <1>1
<1> QED
  BY <1>1, <1>2, <1>3 DEF R!ReadToLast, R!SelectInSeq

(* A reply without a last line.                                            *)
LEMMA LastIsMissing ==
  \A x, c : Len(x) \in Nat /\ (\A j \in 1 .. Len(x) : ~R!LastLine(x[j], c)) => R!ReadToLast(x, c) = R!FtpError(<<>>)
  BY DEF R!ReadToLast, R!SelectInSeq

(* How a line that ends a reply looks: " " by another name.                *)
Ends(b) ==
  /\ b # "-"
  /\ \A line, c : R!LastLine(line, c) <=> (line.code = c /\ line.sep = b)
  /\ \A r : R!ReplyLines(r) = IF r.text = <<>> THEN <<[code |-> r.code, sep |-> b]>>
                            ELSE <<[code |-> r.code, sep |-> "-"]>> \o r.text \o <<[code |-> r.code, sep |-> b]>>
  /\ \A sent \in Answers : \A i \in DOMAIN sent :
       \A j \in DOMAIN sent[i].text : sent[i].text[j].code = sent[i].code => sent[i].text[j].sep # b

(* There is a test for the last line that does not look at the rest of a   *)
(* reply.                                                                  *)
LEMMA LastLineIs == \E b : Ends(b)
<1>1. " " # "-"
  BY Zenon
<1>2. \A line, c : R!LastLine(line, c) <=> (line.code = c /\ line.sep = " ")
  BY Zenon DEF R!LastLine
<1>3. \A r : R!ReplyLines(r) =
        IF r.text = <<>> THEN <<[code |-> r.code, sep |-> " "]>>
        ELSE <<[code |-> r.code, sep |-> "-"]>> \o r.text \o <<[code |-> r.code, sep |-> " "]>>
  BY Zenon DEF R!ReplyLines
<1>4. \A sent \in Answers : \A i \in DOMAIN sent :
        \A j \in DOMAIN sent[i].text : sent[i].text[j].code = sent[i].code => sent[i].text[j].sep # " "
  BY AnswersAssumption, Zenon
<1>5. Ends(" ")
  BY <1>1, <1>2, <1>3, <1>4, Zenon DEF Ends
<1> QED
  BY <1>5, Zenon

(* A reply and its lines, which are among W.                               *)
IsReply(r, b, W) ==
  /\ r.code \in Nat \ {0} /\ r.text \in Seq(W)
  /\ [code |-> r.code, sep |-> "-"] \in W /\ [code |-> r.code, sep |-> b] \in W
  /\ \A j \in DOMAIN r.text : r.text[j].code = r.code => r.text[j].sep # b

(* A reply is read to its last line, of any lines that follow.             *)
ReplyRead(l, c, rest, n) ==
  R!FtpGetReply(SubSeq(l \o rest, 1, n)) =
    IF n < Len(l) THEN R!FtpError(<<>>) ELSE R!FtpReply(c, SubSeq(rest, 1, n - Len(l)))

(* A reply of one line is read, with the code of that line and no further  *)
(* (ftp_get_reply).                                                        *)
LEMMA OneLineIsRead ==
  ASSUME NEW W, NEW c \in Nat \ {0}, NEW last \in W, last.code = c, last.sep # "-",
         NEW rest \in Seq(W), NEW n \in 0 .. Len(rest) + 1
  PROVE  ReplyRead(<<last>>, c, rest, n)
<1>0. PICK l \in Seq(W) : l = <<last>> /\ Len(l) = 1 /\ l[1] = last
  <2>1. <<last>> \in Seq(W)
    OBVIOUS
  <2> QED
    BY <2>1
<1>1. n \in 0 .. Len(l) + Len(rest) /\ Len(rest) \in Nat
  BY <1>0
<1>2. SubSeq(l \o rest, 1, n) \in Seq(W) /\ CutAt(SubSeq(l \o rest, 1, n), l, rest, n)
  BY <1>1, CutIs
<1>3. PICK p \in Seq(W) : p = SubSeq(l \o rest, 1, n)
  BY <1>2
<1>4. /\ Len(p) = n /\ (1 <= n => p[1] = last)
      /\ (1 <= n => SubSeq(p, 1 + 1, n) = SubSeq(rest, 1, n - 1))
  BY <1>0, <1>2, <1>3 DEF CutAt
<1>5. CASE n = 0
  BY <1>0, <1>3, <1>4, <1>5 DEF R!FtpGetReply, ReplyRead
<1>6. CASE n # 0
  <2>1. n >= 1 /\ p # <<>> /\ Head(p) = last /\ Tail(p) = SubSeq(p, 2, Len(p))
    BY <1>1, <1>4, <1>6
  <2>2. Tail(p) = SubSeq(rest, 1, n - 1)
    BY <1>4, <2>1
  <2>3. R!FtpGetReply(p) = R!FtpReply(c, SubSeq(rest, 1, n - 1))
    BY <2>1, <2>2 DEF R!FtpGetReply
  <2> QED
    BY <1>0, <1>3, <2>1, <2>3 DEF ReplyRead
<1> QED
  BY <1>5, <1>6

(* A reply of several lines is read to the first that repeats the code     *)
(* without a dash, and no further (ftp_get_reply).                         *)
LEMMA LinesAreReadOn ==
  ASSUME NEW W, NEW c \in Nat \ {0}, NEW dash \in W, NEW last \in W, NEW t \in Seq(W),
         dash.code = c, dash.sep = "-",
         R!LastLine(last, c), \A j \in 1 .. Len(t) : ~R!LastLine(t[j], c),
         NEW rest \in Seq(W), NEW n \in 0 .. Len(t) + 2 + Len(rest)
  PROVE  ReplyRead(<<dash>> \o t \o <<last>>, c, rest, n)
<1>0. <<dash>> \o t \o <<last>> \in Seq(W) /\ Len(t) \in Nat /\ Len(rest) \in Nat
  OBVIOUS
<1>1. PICK l \in Seq(W) : l = <<dash>> \o t \o <<last>>
  BY <1>0
<1>2. PICK m \in Nat : m = Len(t)
  BY <1>0
<1>3. Len(l) = m + 2 /\ l[1] = dash /\ l[m + 2] = last /\ \A i \in 1 .. m : l[i + 1] = t[i]
  BY <1>1, <1>2
<1>4. n \in 0 .. Len(l) + Len(rest)
  BY <1>0, <1>2, <1>3
<1>5. SubSeq(l \o rest, 1, n) \in Seq(W) /\ CutAt(SubSeq(l \o rest, 1, n), l, rest, n)
  BY <1>4, CutIs
<1>6. PICK p \in Seq(W) : p = SubSeq(l \o rest, 1, n)
  BY <1>5
<1>7. /\ Len(p) = n /\ \A i \in 1 .. n : i <= m + 2 => p[i] = l[i]
      /\ (m + 2 <= n => SubSeq(p, m + 2 + 1, n) = SubSeq(rest, 1, n - (m + 2)))
  BY <1>3, <1>4, <1>5, <1>6 DEF CutAt
<1>8. CASE n = 0
  BY <1>1, <1>2, <1>3, <1>6, <1>7, <1>8 DEF R!FtpGetReply, ReplyRead
<1>9. CASE n # 0
  <2>0. n \in Nat \ {0}
    BY <1>0, <1>9
  <2>1. p # <<>> /\ Head(p) = dash
    BY <1>2, <1>3, <1>7, <2>0
  <2>2. PICK x \in Seq(W) : x = Tail(p) /\ Len(x) = n - 1 /\ \A i \in 1 .. (n - 1) : x[i] = p[i + 1]
    <3>1. PICK x : x = Tail(p)
      OBVIOUS
    <3>2. Len(p) = n
      BY <1>7
    <3>3. x \in Seq(W) /\ Len(x) = n - 1 /\ \A i \in 1 .. (n - 1) : x[i] = p[i + 1]
      BY <2>0, <2>1, <3>1, <3>2
    <3> QED
      BY <3>1, <3>3
  <2>3. R!FtpGetReply(p) = R!ReadToLast(x, c)
    BY <2>1, <2>2 DEF R!FtpGetReply
  <2>4. ASSUME NEW i \in 1 .. (n - 1), i <= m PROVE ~R!LastLine(x[i], c)
    <3>1. i + 1 \in 1 .. n /\ i + 1 <= m + 2 /\ i \in 1 .. m
      BY <1>2, <2>0, <2>4
    <3>2. x[i] = t[i]
      BY <1>3, <1>7, <2>2, <3>1
    <3>3. ~R!LastLine(t[i], c)
      BY <1>2, <3>1
    <3> QED
      BY <3>2, <3>3
  <2>5. CASE n < m + 2
    <3>1. Len(x) \in Nat /\ \A j \in 1 .. Len(x) : ~R!LastLine(x[j], c)
      BY <2>0, <2>2, <2>4, <2>5
    <3>2. R!ReadToLast(x, c) = R!FtpError(<<>>)
      BY <3>1, LastIsMissing
    <3> QED
      BY <1>1, <1>3, <1>6, <2>3, <2>5, <3>2 DEF ReplyRead
  <2>6. CASE n >= m + 2
    <3>1. PICK q \in Nat : q = m + 1 /\ q + 1 = m + 2 /\ q \in 1 .. Len(x) /\ Len(x) \in Nat
      BY <2>0, <2>2, <2>6
    <3>2. x[q] = last /\ last \in W
      BY <1>3, <1>7, <2>2, <2>6, <3>1
    <3>3. R!LastLine(x[q], c) /\ \A j \in 1 .. Len(x) : R!LastLine(x[j], c) => q <= j
      <4>1. R!LastLine(x[q], c)
        BY <3>2
      <4>2. ASSUME NEW j \in 1 .. Len(x), R!LastLine(x[j], c) PROVE q <= j
        <5>1. j \in 1 .. (n - 1)
          BY <2>2
        <5>2. ~(j <= m)
          BY <2>4, <4>2, <5>1, Zenon
        <5> QED
          BY <2>0, <3>1, <5>1, <5>2
      <4> QED
        BY <4>1, <4>2, Zenon
    <3>4. R!ReadToLast(x, c) = R!FtpReply(c, SubSeq(x, q + 1, Len(x)))
      BY <3>1, <3>3, LastIsFound
    <3>5. SubSeq(x, q + 1, Len(x)) = SubSeq(p, m + 2 + 1, n)
      <4>1. PICK y, z : y = SubSeq(x, q + 1, Len(x)) /\ z = SubSeq(p, m + 2 + 1, n)
        OBVIOUS
      <4>2. y \in Seq(W) /\ Len(y) = n - (m + 2) /\ \A i \in 1 .. n - (m + 2) : y[i] = x[q + i]
        BY <2>0, <2>2, <2>6, <3>1, <4>1
      <4>3. z \in Seq(W) /\ Len(z) = n - (m + 2) /\ \A i \in 1 .. n - (m + 2) : z[i] = p[m + 2 + i]
        BY <1>7, <2>0, <2>6, <3>1, <4>1
      <4>5. ASSUME NEW i \in 1 .. n - (m + 2) PROVE y[i] = z[i]
        <5>1. PICK j : j \in 1 .. (n - 1) /\ j = q + i /\ j + 1 = m + 2 + i
          BY <2>0, <3>1
        <5>2. x[j] = p[j + 1] /\ y[i] = x[j] /\ z[i] = p[j + 1]
          BY <2>2, <4>2, <4>3, <5>1
        <5> QED
          BY <5>2
      <4>6. y = z
        BY <4>2, <4>3, <4>5
      <4> QED
        BY <4>1, <4>6
    <3>6. R!FtpGetReply(p) = R!FtpReply(c, SubSeq(rest, 1, n - (m + 2)))
      BY <1>7, <2>3, <2>6, <3>4, <3>5
    <3>7. Len(l) = m + 2 /\ ~(n < m + 2)
      BY <1>3, <2>0, <2>6
    <3>8. ReplyRead(l, c, rest, n)
      BY <1>6, <3>6, <3>7, Zenon DEF ReplyRead
    <3> QED
      BY <1>1, <3>8
  <2> QED
    BY <2>0, <2>5, <2>6
<1> QED
  BY <1>8, <1>9

(* The lines of a reply.                                                   *)
Lined(r, W, c, dash, last, t) ==
  /\ c \in Nat \ {0} /\ dash \in W /\ last \in W /\ t \in Seq(W)
  /\ c = r.code /\ R!LastLine(last, c) /\ last.code = c /\ last.sep # "-" /\ dash.code = c /\ dash.sep = "-"
  /\ \A j \in 1 .. Len(t) : ~R!LastLine(t[j], c)
  /\ R!ReplyLines(r) = IF t = <<>> THEN <<last>> ELSE <<dash>> \o t \o <<last>>
  /\ R!ReplyLines(r) \in Seq(W)
  /\ Len(R!ReplyLines(r)) = IF t = <<>> THEN 1 ELSE Len(t) + 2

(* The lines of a reply that has some text.                                *)
LEMMA ReplyHas ==
  \A b, W, r : Ends(b) /\ IsReply(r, b, W) => \E c, dash, last, t : Lined(r, W, c, dash, last, t)
<1> TAKE b, W, r
<1> HAVE Ends(b) /\ IsReply(r, b, W)
<1>0. PICK c \in Nat \ {0}, t \in Seq(W) : c = r.code /\ t = r.text
  BY DEF IsReply
<1>1. PICK dash \in W, last \in W : dash = [code |-> c, sep |-> "-"] /\ last = [code |-> c, sep |-> b]
  BY <1>0 DEF IsReply
<1>2. last.code = c /\ last.sep = b /\ dash.code = c /\ dash.sep = "-" /\ b # "-"
  BY <1>1 DEF Ends
<1>3. R!ReplyLines(r) = IF t = <<>> THEN <<last>> ELSE <<dash>> \o t \o <<last>>
  BY <1>0, <1>1, Zenon DEF Ends
<1>4. \A x : R!LastLine(x, c) <=> (x.code = c /\ x.sep = b)
  BY Zenon DEF Ends
<1>5. \A j \in 1 .. Len(t) : ~R!LastLine(t[j], c)
  <2>1. DOMAIN t = 1 .. Len(t)
    OBVIOUS
  <2> QED
    BY <1>0, <1>4, <2>1, Zenon DEF IsReply
<1>6. R!ReplyLines(r) \in Seq(W) /\ Len(R!ReplyLines(r)) = IF t = <<>> THEN 1 ELSE Len(t) + 2
  BY <1>3
<1>7. Lined(r, W, c, dash, last, t)
  BY <1>0, <1>2, <1>3, <1>4, <1>5, <1>6 DEF Lined
<1> QED
  BY <1>7, Zenon

(* Either way a reply is read to its own last line, and one that was cut   *)
(* short is an error.                                                      *)
LEMMA ReplyIsRead ==
  \A b, W, r, rest, n :
    Ends(b) /\ IsReply(r, b, W) /\ rest \in Seq(W) /\ n \in 0 .. Len(R!ReplyLines(r)) + Len(rest)
    => ReplyRead(R!ReplyLines(r), r.code, rest, n)
<1> TAKE b, W, r, rest, n
<1> HAVE Ends(b) /\ IsReply(r, b, W) /\ rest \in Seq(W) /\ n \in 0 .. Len(R!ReplyLines(r)) + Len(rest)
<1>p. PICK c, dash, last, t : Lined(r, W, c, dash, last, t)
  BY ReplyHas, Zenon
<1>0. /\ c \in Nat \ {0} /\ dash \in W /\ last \in W /\ t \in Seq(W)
      /\ c = r.code /\ R!LastLine(last, c) /\ last.code = c /\ last.sep # "-" /\ dash.code = c /\ dash.sep = "-"
      /\ \A j \in 1 .. Len(t) : ~R!LastLine(t[j], c)
      /\ R!ReplyLines(r) = IF t = <<>> THEN <<last>> ELSE <<dash>> \o t \o <<last>>
      /\ R!ReplyLines(r) \in Seq(W)
      /\ Len(R!ReplyLines(r)) = IF t = <<>> THEN 1 ELSE Len(t) + 2
  BY <1>p DEF Lined
<1>1. CASE t = <<>>
  <2>1. R!ReplyLines(r) = <<last>> /\ n \in 0 .. Len(rest) + 1
    BY <1>0, <1>1
  <2>2. ReplyRead(<<last>>, c, rest, n)
    BY <1>0, <2>1, OneLineIsRead
  <2> QED
    BY <1>0, <2>1, <2>2
<1>2. CASE t # <<>>
  <2>1. R!ReplyLines(r) = <<dash>> \o t \o <<last>> /\ n \in 0 .. Len(t) + 2 + Len(rest)
    BY <1>0, <1>2
  <2>2. ReplyRead(<<dash>> \o t \o <<last>>, c, rest, n)
    BY <1>0, <2>1, LinesAreReadOn
  <2> QED
    BY <1>0, <2>1, <2>2
<1> QED
  BY <1>1, <1>2

(* The first of some replies is read. *)
LEMMA RepliesAreRead ==
  ASSUME NEW sent \in Answers, NEW n \in 0 .. Len(R!FtpSent(sent))
  PROVE  R!ReadsReply(sent, n, R!FtpGetReply(R!FtpLines(sent, n)))
<1>0. PICK b : Ends(b)
  BY LastLineIs
<1>1. PICK N \in Nat : N + 1 = Len(sent) /\ DOMAIN sent = 1 .. (N + 1) /\ sent # <<>>
  <2>0. IsSeq(sent) /\ sent # <<>>
    BY AnswersAssumption, Zenon
  <2>1. sent # <<>> /\ DOMAIN sent = 1 .. Len(sent) /\ Len(sent) \in Nat
    BY <2>0, SeqDomain, Zenon
  <2>2. Len(sent) # 0
    BY <2>1
  <2>3. Len(sent) - 1 \in Nat /\ (Len(sent) - 1) + 1 = Len(sent)
    BY <2>1, <2>2
  <2> QED
    BY <2>1, <2>3
<1>2. PICK W : W = {[code |-> sent[i].code, sep |-> "-"] : i \in DOMAIN sent}
                   \cup {[code |-> sent[i].code, sep |-> b] : i \in DOMAIN sent}
                   \cup UNION {{sent[i].text[j] : j \in DOMAIN sent[i].text} : i \in DOMAIN sent}
  OBVIOUS
<1>3. \A i \in 1 .. (N + 1) : IsReply(sent[i], b, W)
  <2>1. ASSUME NEW i \in DOMAIN sent PROVE IsReply(sent[i], b, W)
    <3>1. PICK t, c : t = sent[i].text /\ c = sent[i].code
      OBVIOUS
    <3>2. c \in Nat \ {0} /\ IsSeq(t)
      BY <3>1, AnswersAssumption, Zenon
    <3>3. DOMAIN t = 1 .. Len(t) /\ Len(t) \in Nat
      BY <3>2, SeqDomain, Zenon
    <3>4. \A j \in DOMAIN t : t[j] \in W
      BY <1>2, <3>1
    <3>5. t \in Seq(W)
      BY <3>2, <3>3, <3>4, SeqOf, Zenon
    <3>6. [code |-> c, sep |-> "-"] \in W /\ [code |-> c, sep |-> b] \in W
      BY <1>2, <3>1, Zenon
    <3>7. \A j \in DOMAIN t : t[j].code = c => t[j].sep # b
      BY <1>0, <3>1, Zenon DEF Ends
    <3> QED
      BY <3>1, <3>2, <3>5, <3>6, <3>7, Zenon DEF IsReply
  <2> QED
    BY <1>1, <2>1
<1>4. PICK s : s = [i \in DOMAIN sent |-> R!ReplyLines(sent[i])]
  OBVIOUS
<1>5. \A i \in 1 .. (N + 1) : s[i] = R!ReplyLines(sent[i]) /\ s[i] \in Seq(W)
  <2>1. ASSUME NEW i \in 1 .. (N + 1) PROVE s[i] = R!ReplyLines(sent[i]) /\ R!ReplyLines(sent[i]) \in Seq(W)
    <3>1. IsReply(sent[i], b, W)
      BY <1>3
    <3>2. R!ReplyLines(sent[i]) \in Seq(W)
      BY <1>0, <3>1, ReplyHas, Zenon DEF Lined
    <3> QED
      BY <1>1, <1>4, <3>2
  <2> QED
    BY <2>1
<1>6. PICK rest : rest = Tail(sent)
  OBVIOUS
<1>7. DOMAIN rest = 1 .. N /\ \A i \in 1 .. N : rest[i] = sent[i + 1]
  BY <1>1, <1>6
<1>8. PICK t : t = [i \in DOMAIN rest |-> R!ReplyLines(rest[i])]
  OBVIOUS
<1>9. \A i \in 1 .. N : i + 1 \in 1 .. (N + 1)
  OBVIOUS
<1>10. \A i \in 1 .. N : t[i] = s[i + 1] /\ t[i] \in Seq(W)
  <2>1. \A i \in 1 .. N : t[i] = R!ReplyLines(sent[i + 1])
    BY <1>7, <1>8, Zenon
  <2> QED
    BY <1>5, <1>9, <2>1, Zenon
<1>11. PICK f : IsFlat(f, s, N + 1, W)
  <2>1. N + 1 \in Nat /\ \A i \in 1 .. (N + 1) : s[i] \in Seq(W)
    BY <1>5
  <2> QED
    BY <2>1, FlatExists, Zenon
<1>12. PICK h : IsFlat(h, t, N, W)
  BY <1>10, FlatExists, Zenon
<1>13. f[N + 1] = s[1] \o h[N]
  <2>1. IsTail(t, N, s, N + 1)
    BY <1>10 DEF IsTail
  <2>2. HeadAndTail(f, N + 1, s, h, N)
    BY <1>11, <1>12, <2>1, FlatTail, Zenon
  <2> QED
    BY <2>2, Zenon DEF HeadAndTail
<1>14. R!FtpSent(sent) = f[N + 1]
  <2>1. DOMAIN s = 1 .. (N + 1) /\ N + 1 \in Nat /\ N + 1 # 0
    BY <1>1, <1>4
  <2>2. Len(s) = N + 1
    BY <2>1, LengthIs, Zenon
  <2>3. R!FlattenSeq(s) = f[N + 1]
    BY <1>11, <2>1, <2>2, RFlatten, Zenon
  <2> QED
    BY <1>4, <2>3, Zenon DEF R!FtpSent
<1>15. R!FtpSent(rest) = h[N]
  <2>1. DOMAIN t = 1 .. N
    BY <1>7, <1>8
  <2>2. Len(t) = N
    BY <2>1, LengthIs, Zenon
  <2>3. N = 0 => t = <<>>
    BY <2>1
  <2>4. R!FlattenSeq(t) = h[N]
    BY <1>12, <2>2, <2>3, RFlatten, Zenon
  <2> QED
    BY <1>8, <2>4, Zenon DEF R!FtpSent
<1>16. PICK r, l, z : r = sent[1] /\ l = R!ReplyLines(r) /\ z = h[N]
  OBVIOUS
<1>17. l \in Seq(W) /\ z \in Seq(W) /\ IsReply(r, b, W) /\ s[1] = l
  <2>1. 1 \in 1 .. (N + 1) /\ N \in 0 .. N
    OBVIOUS
  <2>2. h[N] \in Seq(W)
    BY <1>12, <2>1, Zenon DEF IsFlat
  <2> QED
    BY <1>3, <1>5, <1>16, <2>1, <2>2, Zenon
<1>18. n \in 0 .. Len(l) + Len(z)
  <2>1. Len(l \o z) = Len(l) + Len(z)
    BY <1>17
  <2> QED
    BY <1>13, <1>14, <1>16, <1>17, <2>1
<1>19. ReplyRead(l, r.code, z, n)
  BY <1>0, <1>16, <1>17, <1>18, ReplyIsRead, Zenon
<1>20. R!FtpLines(sent, n) = SubSeq(l \o z, 1, n) /\ R!FtpLines(rest, n - Len(l)) = SubSeq(z, 1, n - Len(l))
  BY <1>13, <1>14, <1>15, <1>16, <1>17, Zenon DEF R!FtpLines
<1> QED
  BY <1>6, <1>16, <1>19, <1>20, Zenon DEF ReplyRead, R!ReadsReply

-----------------------------------------------------------------------------
(***************************************************************************)
(* Listings of a file.                                                     *)
(***************************************************************************)

(* The size is found in each form of a file's line.                        *)
LineIs(l, z, k) == Len(l) = k /\ Len(z) = 4 /\ (k = 4 \/ k = 5)
FieldsAre(a, l, z, k) ==
  Len(a) = k + 4 /\ a[1] = l[1] /\ a[k] = l[k] /\ (k = 4 => a[5] = z[1]) /\ a # <<>>

(* The fields of a listed line, and of the date behind it.                 *)
LEMMA LineAndDate ==
  ASSUME NEW W, NEW l \in Seq(W), NEW z \in Seq(W), NEW k, LineIs(l, z, k)
  PROVE  FieldsAre(l \o z, l, z, k)
<1>1. /\ Len(l \o z) = Len(l) + Len(z) /\ l \o z \in Seq(W)
      /\ \A i \in 1 .. Len(l) : (l \o z)[i] = l[i]
      /\ \A i \in 1 .. Len(z) : (l \o z)[Len(l) + i] = z[i]
  OBVIOUS
<1>2. PICK a : a = l \o z
  OBVIOUS
<1>3. Len(a) = k + 4 /\ a # <<>> /\ \A i \in 1 .. k : a[i] = l[i]
  BY <1>1, <1>2 DEF LineIs
<1>4. ASSUME k = 4 PROVE a[5] = z[1]
  <2>1. 1 \in 1 .. Len(z) /\ Len(l) + 1 = 5
    BY <1>4 DEF LineIs
  <2> QED
    BY <1>1, <1>2, <2>1
<1>5. 1 \in 1 .. k /\ k \in 1 .. k
  BY DEF LineIs
<1>6. a[1] = l[1] /\ a[k] = l[k]
  BY <1>3, <1>5
<1>7. FieldsAre(a, l, z, k)
  BY <1>3, <1>4, <1>6 DEF FieldsAre
<1> QED
  BY <1>2, <1>7

(* A line with enough fields gives the size that stands in front of the    *)
(* date (ftpparse).                                                        *)
LEMMA LongEnough ==
  ASSUME NEW W, NEW l \in Seq(W), NEW z \in Seq(W), NEW k, LineIs(l, z, k),
         l[1].text \in R!FileKinds,
         k = 5 => l[5].digit = TRUE,
         k = 4 => z[1].digit = FALSE
  PROVE  R!FtpParse(l \o z) = [err |-> "FTPPARSEOK", size |-> l[k].size]
<1>0. PICK a : a = l \o z /\ FieldsAre(a, l, z, k)
  BY LineAndDate, Zenon
<1>1. PICK n \in Nat : n = Len(a) /\ n = k + 4 /\ (k = 4 \/ k = 5)
  BY <1>0 DEF LineIs, FieldsAre
<1>2. a[1] = l[1] /\ a[k] = l[k] /\ (k = 4 => a[5] = z[1]) /\ a # <<>>
  BY <1>0 DEF FieldsAre
<1>3. k = 4 => a[5].digit = FALSE
  BY <1>2
<1>4. k = 5 => a[5].digit = TRUE
  BY <1>2
<1>5. R!SizeField(a) = k
  <2>1. CASE k = 4
    BY <1>1, <1>3, <2>1 DEF R!SizeField
  <2>2. CASE k = 5
    BY <1>1, <1>4, <2>2 DEF R!SizeField
  <2> QED
    BY <1>1, <2>1, <2>2
<1>6. n >= 4 /\ n - k >= 4
  BY <1>1
<1>7. a[1].text \in R!FileKinds /\ ~(Len(a) < 4) /\ ~(Len(a) - R!SizeField(a) < 4)
  BY <1>1, <1>2, <1>5, <1>6
<1>8. R!FtpParse(a) = [err |-> "FTPPARSEOK", size |-> a[R!SizeField(a)].size]
  BY <1>2, <1>7, Zenon DEF R!FtpParse
<1> QED
  BY <1>0, <1>2, <1>5, <1>8

(* The size of a file is found in each form of listing (ftpparse).         *)
LEMMA ListingIsRead ==
  ASSUME NEW form \in Forms, NEW size
  PROVE  R!FtpParse(R!Listed(form, size)) = [err |-> "FTPPARSEOK", size |-> size]
<1>1. form \in {"group", "numbers", "plain", "netware"}
  BY AnswersAssumption
<1>2. PICK dash, one, nought, root, other, rights, owner, last :
        /\ dash = R!Word("-") /\ one = R!Figure(1) /\ nought = R!Figure(0) /\ root = R!Word("root")
        /\ other = R!Word("other") /\ rights = R!Word("[R----F--]") /\ owner = R!Word("rhesus")
        /\ last = R!Figure(size)
  BY Zenon
<1>3. PICK month, day, year, name :
        /\ month = R!Word("Jan") /\ day = R!Figure(29) /\ year = R!Figure(1996) /\ name = R!Word("f")
  OBVIOUS
<1>4. /\ dash.text = "-" /\ dash.text \in R!FileKinds /\ last.digit = TRUE /\ last.size = size
      /\ month.digit = FALSE
  BY <1>2, <1>3 DEF R!Word, R!Figure, R!FileKinds
<1>5. PICK W : W = {dash, one, nought, root, other, rights, owner, last, month, day, year, name}
  OBVIOUS
<1>6. PICK z \in Seq(W) : z = <<month, day, year, name>> /\ Len(z) = 4 /\ z[1] = month
  <2>1. <<month, day, year, name>> \in Seq(W)
    BY <1>5
  <2> QED
    BY <2>1
<1>7. R!Listed(form, size) = R!ListLine(form, size) \o z
  BY <1>3, <1>6 DEF R!Listed
<1>8. ASSUME NEW l \in Seq(W), NEW k, LineIs(l, z, k),
             l = R!ListLine(form, size), l[1] = dash, l[k] = last
      PROVE  R!FtpParse(R!Listed(form, size)) = [err |-> "FTPPARSEOK", size |-> size]
  <2>0. l[1].text \in R!FileKinds /\ (k = 5 => l[5].digit = TRUE) /\ (k = 4 => z[1].digit = FALSE)
    BY <1>4, <1>6, <1>8
  <2>1. R!FtpParse(l \o z) = [err |-> "FTPPARSEOK", size |-> l[k].size]
    BY <1>6, <1>8, <2>0, LongEnough
  <2> QED
    BY <1>4, <1>7, <1>8, <2>1
<1>9. CASE form = "group"
  <2>1. R!ListLine(form, size) = <<dash, one, root, other, last>>
    BY <1>2, <1>9 DEF R!ListLine
  <2>2. PICK l : l = <<dash, one, root, other, last>>
    OBVIOUS
  <2>3. l \in Seq(W) /\ l[1] = dash /\ l[5] = last /\ LineIs(l, z, 5)
    BY <1>5, <1>6, <2>2 DEF LineIs
  <2> QED
    BY <1>8, <2>1, <2>2, <2>3
<1>10. CASE form = "numbers"
  <2>1. R!ListLine(form, size) = <<dash, one, nought, nought, last>>
    BY <1>2, <1>10 DEF R!ListLine
  <2>2. PICK l : l = <<dash, one, nought, nought, last>>
    OBVIOUS
  <2>3. l \in Seq(W) /\ l[1] = dash /\ l[5] = last /\ LineIs(l, z, 5)
    BY <1>5, <1>6, <2>2 DEF LineIs
  <2> QED
    BY <1>8, <2>1, <2>2, <2>3
<1>11. CASE form = "plain"
  <2>1. R!ListLine(form, size) = <<dash, one, root, last>>
    BY <1>2, <1>11 DEF R!ListLine
  <2>2. PICK l : l = <<dash, one, root, last>>
    OBVIOUS
  <2>3. l \in Seq(W) /\ l[1] = dash /\ l[4] = last /\ LineIs(l, z, 4)
    BY <1>5, <1>6, <2>2 DEF LineIs
  <2> QED
    BY <1>8, <2>1, <2>2, <2>3
<1>12. CASE form = "netware"
  <2>1. R!ListLine(form, size) = <<dash, rights, owner, last>>
    BY <1>2, <1>12 DEF R!ListLine
  <2>2. PICK l : l = <<dash, rights, owner, last>>
    OBVIOUS
  <2>3. l \in Seq(W) /\ l[1] = dash /\ l[4] = last /\ LineIs(l, z, 4)
    BY <1>5, <1>6, <2>2 DEF LineIs
  <2> QED
    BY <1>8, <2>1, <2>2, <2>3
<1> QED
  BY <1>1, <1>9, <1>10, <1>11, <1>12

-----------------------------------------------------------------------------
(***************************************************************************)
(* One header, with its continuation lines.                                *)
(***************************************************************************)

(* The words of a header and its folded lines are those of all its parts.  *)
Parted(words, lines, m, f, parts, V) ==
  /\ m \in Nat /\ DOMAIN lines = 1 .. m /\ IsFlat(f, parts, m + 1, V)
  /\ words = parts[1] /\ \A i \in 1 .. m : lines[i].words = parts[i + 1]

UnfoldsTo(words, lines, v) == R!Unfolded(words, lines) = v

(* A value whose lines were folded is put together of all of them          *)
(* (fetch_next_header).                                                    *)
LEMMA Unfolds ==
  \A words, lines, m, f, parts, W :
    Parted(words, lines, m, f, parts, W) => UnfoldsTo(words, lines, f[m + 1])
<1> TAKE words, lines, m, f, parts, W
<1> HAVE Parted(words, lines, m, f, parts, W)
<1>0. /\ m \in Nat /\ DOMAIN lines = 1 .. m
      /\ words = parts[1] /\ \A i \in 1 .. m : lines[i].words = parts[i + 1]
  BY DEF Parted
<1>f. IsFlat(f, parts, m + 1, W)
  BY DEF Parted
<1>1. ASSUME NEW i \in 0 .. m PROVE Joined(f, parts, W, i + 1)
  <2>1. PICK q \in 1 .. m + 1 : q = i + 1
    BY <1>0
  <2>2. Joined(f, parts, W, q)
    BY <1>f, Zenon DEF IsFlat
  <2> QED
    BY <2>1, <2>2
<1> DEFINE V == Seq(W)
           D == DOMAIN lines
           g == [e \in (1 .. m) \X V |-> e[2] \o lines[e[1]].words]
           Raw(h) == h = [s \in SUBSET D |-> IF s = {} THEN words ELSE h[s \ {Top(s)}] \o lines[Top(s)].words]
<1>2. words \in V /\ f[1] = words
  <2>1. 0 + 1 = 1 /\ 1 - 1 = 0 /\ 0 \in 0 .. m
    BY <1>0
  <2>2. Joined(f, parts, W, 1) /\ f[0] = <<>>
    BY <1>1, <1>f, <2>1 DEF IsFlat
  <2>3. words \in Seq(W) /\ f[1] = <<>> \o words
    BY <1>0, <2>1, <2>2 DEF Joined
  <2>4. <<>> \o words = words
    BY <2>3
  <2> QED
    BY <2>3, <2>4
<1>3. \A i \in 1 .. m : lines[i].words \in V /\ f[i + 1] = f[i] \o lines[i].words /\ f[i] \in V
  <2> SUFFICES ASSUME NEW i \in 1 .. m
               PROVE  lines[i].words \in V /\ f[i + 1] = f[i] \o lines[i].words /\ f[i] \in V
    OBVIOUS
  <2>1. i \in 0 .. m /\ (i + 1) - 1 = i
    BY <1>0
  <2>2. Joined(f, parts, W, i + 1)
    BY <1>1, <2>1
  <2> QED
    BY <1>0, <2>1, <2>2 DEF Joined
<1>4. g \in [(1 .. m) \X V -> V] /\ \A k \in 1 .. m, v \in V : g[<<k, v>>] = v \o lines[k].words
  <2>1. \A k \in 1 .. m, v \in V : v \o lines[k].words \in V
    <3> SUFFICES ASSUME NEW k \in 1 .. m, NEW v \in V PROVE v \o lines[k].words \in V
      OBVIOUS
    <3>1. lines[k].words \in V
      BY <1>3
    <3> QED
      BY <3>1
  <2> HIDE DEF V
  <2> QED
    BY <2>1
<1>5. PICK F, a : LeftFolds(F, a, m, V, words, g)
  <2> HIDE DEF V, g
  <2> QED
    BY <1>0, <1>2, <1>4, LeftFold, Zenon
<1> HIDE DEF V, g
<1>6. Raw(F)
  <2>1. F \in [SUBSET (1 .. m) -> V] /\ F[{}] = words
    BY <1>5 DEF LeftFolds, FoldsLeft
  <2>2. ASSUME NEW s \in SUBSET (1 .. m), s # {} PROVE F[s] = F[s \ {Top(s)}] \o lines[Top(s)].words
    <3>1. Top(s) \in 1 .. m /\ F[s \ {Top(s)}] \in V
      BY <1>5, <2>1, <2>2 DEF LeftFolds
    <3>2. F[s] = g[<<Top(s), F[s \ {Top(s)}]>>]
      BY <1>5, <2>2, <3>1 DEF LeftFolds, FoldsLeft
    <3> QED
      BY <1>4, <3>1, <3>2
  <2> QED
    BY <1>0, <2>1, <2>2
<1>7. PICK h : Raw(h) /\ R!Unfolded(words, lines) = h[D]
  <2>1. Raw(CHOOSE h : Raw(h))
    <3> HIDE DEF Raw
    <3> QED
      BY <1>6, Zenon
  <2>2. R!Unfolded(words, lines) = (CHOOSE h : Raw(h))[D]
    BY Zenon DEF R!Unfolded, R!FoldLeft, R!MapThenFoldSet, R!Max, Top
  <2> QED
    <3> HIDE DEF Raw
    <3> QED
      BY <2>1, <2>2, Zenon
<1>8. FoldsLeft(h, m, V, words, g)
  <2>1. h[{}] = words
    BY <1>7
  <2>2. ASSUME NEW s \in SUBSET (1 .. m), s # {}, h[s \ {Top(s)}] \in V
        PROVE  h[s] = g[<<Top(s), h[s \ {Top(s)}]>>]
    <3>1. Top(s) \in 1 .. m
      BY <1>5, <2>2 DEF LeftFolds
    <3>2. h[s] = h[s \ {Top(s)}] \o lines[Top(s)].words
      BY <1>0, <1>7, <2>2
    <3> QED
      BY <1>4, <2>2, <3>1, <3>2
  <2> QED
    BY <2>1, <2>2 DEF FoldsLeft
<1>9. h[1 .. m] = a[m] /\ Folded(a, m, V, words, g)
  BY <1>5, <1>8, Zenon DEF LeftFolds
<1> DEFINE P == {k \in Nat : k <= m => a[k] = f[k + 1]}
<1>10. 0 \in P
  <2>1. a[0] = words /\ f[0 + 1] = words
    BY <1>2, <1>9 DEF Folded
  <2> QED
    BY <2>1
<1>11. ASSUME NEW k \in Nat, k \in P PROVE k + 1 \in P
  <2> SUFFICES ASSUME k + 1 <= m PROVE a[k + 1] = f[k + 1 + 1]
    OBVIOUS
  <2>1. PICK q \in 1 .. m : q = k + 1 /\ q - 1 = k
    BY <1>0
  <2>2. a[q] = g[<<q, a[k]>>] /\ a[k] = f[q]
    <3>1. a[q] = g[<<q, a[q - 1]>>]
      BY <1>9, Zenon DEF Folded
    <3>2. a[k] = f[k + 1]
      BY <1>0, <1>11, <2>1
    <3> QED
      BY <2>1, <3>1, <3>2
  <2>3. f[q] \in V /\ f[q + 1] = f[q] \o lines[q].words
    BY <1>3
  <2>4. a[q] = f[q + 1]
    BY <1>4, <2>2, <2>3
  <2> QED
    BY <2>1, <2>4
<1>12. m \in P
  <2> HIDE DEF P
  <2> QED
    BY <1>0, <1>10, <1>11, NatInductive
<1>13. R!Unfolded(words, lines) = f[m + 1]
  BY <1>0, <1>7, <1>9, <1>12
<1> QED
  BY <1>13 DEF UnfoldsTo

(* Where the first line that does not fold stands.                         *)
NextAt(t) == R!SelectInSeq(t, LAMBDA line : ~R!Folds(line))

(* The next header begins with the first line that is no continuation.     *)
LEMMA NextIsAt ==
  \A t, k : Len(t) \in Nat /\ k \in 1 .. Len(t) /\ ~R!Folds(t[k]) /\ (\A i \in 1 .. (k - 1) : R!Folds(t[i]))
             => NextAt(t) = k
<1> TAKE t, k
<1> HAVE Len(t) \in Nat /\ k \in 1 .. Len(t) /\ ~R!Folds(t[k]) /\ (\A i \in 1 .. (k - 1) : R!Folds(t[i]))
<1>1. PICK I : I = {i \in 1 .. Len(t) : ~R!Folds(t[i])}
  OBVIOUS
<1>2. k \in I /\ I \subseteq Nat /\ \A j \in I : k <= j
  BY <1>1
<1>3. R!Min(I) = k
  BY <1>2, LeastIs, Zenon
<1>4. I # {}
  BY <1>2
<1>5. NextAt(t) = IF I # {} THEN R!Min(I) ELSE 0
  BY <1>1, Zenon DEF NextAt, R!SelectInSeq
<1> QED
  BY <1>3, <1>4, <1>5

(* Where every line is a continuation there is no next header.             *)
LEMMA NoNext == \A t : Len(t) \in Nat /\ (\A i \in 1 .. Len(t) : R!Folds(t[i])) => NextAt(t) = 0
<1> TAKE t
<1> HAVE Len(t) \in Nat /\ (\A i \in 1 .. Len(t) : R!Folds(t[i]))
<1>1. PICK I : I = {i \in 1 .. Len(t) : ~R!Folds(t[i])}
  OBVIOUS
<1>2. I = {}
  BY <1>1
<1>3. NextAt(t) = IF I # {} THEN R!Min(I) ELSE 0
  BY <1>1, Zenon DEF NextAt, R!SelectInSeq
<1> QED
  BY <1>2, <1>3

(* A header whose first line is behind p, and whose last is line e.        *)
HeaderAt(x, p, e, v) ==
  /\ x[p + 1] # R!Blank
  /\ \A i \in p + 2 .. e : R!Folds(x[i])
  /\ ~R!Folds(x[e + 1])
  /\ UnfoldsTo(x[p + 1].words, SubSeq(x, p + 2, e), v)

HeaderRead(x, p, e, v, n, end, r) ==
  /\ n > e => r = [err |-> "HOK", header |-> [x[p + 1] EXCEPT !.words = v], rest |-> SubSeq(x, e + 1, n)]
  /\ n <= e => r.err = R!AtEnd(end, "HEOF", "HERR")

(* A header is read with its continuation lines and no further, and one    *)
(* whose end has not come is an error (fetch_next_header).                 *)
LEMMA HeaderIsRead ==
  \A W, x, n, p, e, v, end :
    x \in Seq(W) /\ n \in 0 .. Len(x) /\ p \in 0 .. n /\ e \in p + 1 .. Len(x) - 1 /\ HeaderAt(x, p, e, v)
    => HeaderRead(x, p, e, v, n, end, R!FetchNextHeader(SubSeq(x, p + 1, n), end))
<1> SUFFICES ASSUME NEW W, NEW x \in Seq(W), NEW n \in 0 .. Len(x), NEW p \in 0 .. n, NEW e \in p + 1 .. Len(x) - 1,
                    NEW v, NEW end, HeaderAt(x, p, e, v)
             PROVE  HeaderRead(x, p, e, v, n, end, R!FetchNextHeader(SubSeq(x, p + 1, n), end))
  BY ZenonT(60)
<1>0. Len(x) \in Nat /\ n \in Nat /\ p \in Nat /\ e \in Nat /\ n <= Len(x) /\ p <= n /\ p + 1 <= e /\ e < Len(x)
  OBVIOUS
<1>1. PICK d : d = SubSeq(x, p + 1, n)
  OBVIOUS
<1>2. RestIs(d, x, p, n)
  BY <1>1, Rest
<1>3. CASE p = n
  <2>1. d = <<>> /\ n <= e /\ ~(n > e)
    BY <1>0, <1>2, <1>3 DEF RestIs
  <2>2. R!FetchNextHeader(d, end).err = R!AtEnd(end, "HEOF", "HERR")
    BY <2>1 DEF R!FetchNextHeader
  <2> QED
    BY <1>1, <2>1, <2>2 DEF HeaderRead
<1>4. CASE p # n
  <2>0. PICK q \in Nat : q = p + 1 /\ q <= n /\ q <= e
    BY <1>0, <1>4
  <2>1. PICK t \in Seq(W) : t = Tail(d) /\ t = SubSeq(x, q + 1, n) /\ RestIs(t, x, q, n)
    <3>1. SubSeq(x, q + 1, n) \in Seq(W) /\ RestIs(SubSeq(x, q + 1, n), x, q, n)
      <4>1. q \in 0 .. n
        BY <1>0, <2>0
      <4> QED
        BY <4>1, Rest
    <3>2. Tail(d) = SubSeq(x, q + 1, n)
      <4>1. p < n /\ q + 1 = p + 2
        BY <1>0, <2>0
      <4> QED
        BY <1>2, <4>1 DEF RestIs
    <3> QED
      BY <3>1, <3>2
  <2>2. d # <<>> /\ Head(d) = x[q] /\ x[q] # R!Blank
    <3>1. p < n
      BY <1>0, <1>4
    <3> QED
      BY <1>2, <1>4, <2>0, <3>1 DEF RestIs, HeaderAt
  <2>3. R!FetchNextHeader(d, end) = R!NextHeader(x[q], t, end)
    BY <2>1, <2>2 DEF R!FetchNextHeader
  <2>4. Len(t) = n - q /\ \A i \in 1 .. n - q : t[i] = x[q + i]
    BY <2>1 DEF RestIs
  <2>5. \A i \in 1 .. n - q : q + i <= e => R!Folds(t[i])
    <3> SUFFICES ASSUME NEW i \in 1 .. n - q, q + i <= e PROVE R!Folds(t[i])
      OBVIOUS
    <3>1. q + i \in p + 2 .. e
      BY <1>0, <2>0
    <3>2. R!Folds(x[q + i])
      BY <3>1 DEF HeaderAt
    <3> QED
      BY <2>4, <3>2
  <2>6. CASE n <= e
    <3>1. Len(t) \in Nat /\ \A i \in 1 .. Len(t) : R!Folds(t[i])
      <4>1. Len(t) \in Nat /\ \A i \in 1 .. n - q : q + i <= e
        BY <1>0, <2>0, <2>4, <2>6
      <4> QED
        BY <2>4, <2>5, <4>1
    <3>2. NextAt(t) = 0
      BY <3>1, NoNext
    <3>3. R!NextHeader(x[q], t, end).err = R!AtEnd(end, "HEOF", "HERR")
      BY <3>2 DEF NextAt, R!NextHeader
    <3>4. ~(n > e)
      BY <1>0, <2>6
    <3> QED
      BY <1>1, <2>3, <2>6, <3>3, <3>4 DEF HeaderRead
  <2>7. CASE n > e
    <3>1. PICK k \in Nat : k = e - q + 1 /\ k \in 1 .. n - q /\ q + k = e + 1
      BY <1>0, <2>0, <2>7
    <3>2. NextAt(t) = k
      <4>1. k \in 1 .. Len(t) /\ Len(t) \in Nat
        BY <1>0, <2>0, <2>4, <3>1
      <4>2. ~R!Folds(t[k])
        BY <2>4, <3>1 DEF HeaderAt
      <4>3. \A i \in 1 .. (k - 1) : i \in 1 .. n - q /\ q + i <= e
        BY <1>0, <2>0, <3>1
      <4> QED
        BY <2>5, <4>1, <4>2, <4>3, NextIsAt
    <3>3. SubSeq(t, k, Len(t)) = SubSeq(x, e + 1, n)
      <4>1. k \in 1 .. n - q + 1
        BY <1>0, <2>0, <3>1
      <4> QED
        BY <2>1, <3>1, <4>1 DEF RestIs
    <3>4. SubSeq(t, 1, k - 1) = SubSeq(x, p + 2, e)
      <4>1. PICK m \in Nat : m = k - 1 /\ m = e - q /\ m <= n - q
        BY <1>0, <2>0, <3>1
      <4>2. PICK y, z : y = SubSeq(t, 1, m) /\ z = SubSeq(x, q + 1, e)
        OBVIOUS
      <4>3. y \in Seq(W) /\ Len(y) = m /\ \A i \in 1 .. m : y[i] = t[i]
        BY <1>0, <2>0, <2>4, <4>1, <4>2
      <4>4. z \in Seq(W) /\ Len(z) = m /\ \A i \in 1 .. m : z[i] = x[q + i]
        BY <1>0, <2>0, <4>1, <4>2
      <4>5. \A i \in 1 .. m : i \in 1 .. n - q
        BY <1>0, <2>0, <4>1
      <4>6. \A i \in 1 .. m : y[i] = z[i]
        BY <2>4, <4>3, <4>4, <4>5
      <4>7. y = z
        BY <4>3, <4>4, <4>6
      <4>8. q + 1 = p + 2
        BY <1>0, <2>0
      <4> QED
        BY <4>1, <4>2, <4>7, <4>8
    <3>5. R!Unfolded(x[q].words, SubSeq(t, 1, k - 1)) = v
      BY <2>0, <3>4 DEF HeaderAt, UnfoldsTo
    <3>6. k # 0
      BY <3>1
    <3>7. R!NextHeader(x[q], t, end) =
            [err |-> "HOK", header |-> [x[q] EXCEPT !.words = v], rest |-> SubSeq(x, e + 1, n)]
      BY <3>2, <3>3, <3>5, <3>6 DEF NextAt, R!NextHeader
    <3>8. ~(n <= e)
      BY <1>0, <2>7
    <3> QED
      BY <1>1, <2>0, <2>3, <2>7, <3>7, <3>8 DEF HeaderRead
  <2> QED
    BY <1>0, <2>6, <2>7
<1> QED
  BY <1>3, <1>4

-----------------------------------------------------------------------------
(***************************************************************************)
(* The headers one after the other.                                        *)
(***************************************************************************)

(* The headers of some lines: S[k] is where the first k of them end, v[k]  *)
(* the value of one, and the line behind the last is empty.                *)
Heading(x, q, v, k) == [x[q[k - 1] + 1] EXCEPT !.words = v[k]]

HeadersAt(x, W, q, v, H, m) ==
  /\ x \in Seq(W) /\ m \in Nat \ {0}
  /\ \A k \in 0 .. m : q[k] \in Nat
  /\ \A k \in 1 .. m : /\ q[k - 1] < q[k] /\ HeaderAt(x, q[k - 1], q[k], v[k])
                       /\ H[k] = Heading(x, q, v, k) /\ H[k] # R!Blank
  /\ q[0] = 0 /\ q[m] < Len(x) /\ x[q[m] + 1] = R!Blank

(* The fields after the first k of them, and the state of the loop.        *)
AllLens(H, m) == [i \in 1 .. m |-> R!GetLen(H[i])]
AllRanges(H, m) == [i \in 1 .. m |-> R!GetAcceptRanges(H[i])]
AllPlaces(H, m) == [i \in 1 .. m |-> R!GetLocation(H[i])]

FieldsAfter(H, m, k) ==
  [statcode |-> IF k = 0 THEN -1 ELSE R!ParseStatLine(H[1]),
   contlen |-> First(-1, AllLens(H, m), k),
   accept |-> First(-1, AllRanges(H, m), k),
   newloc |-> First(<<"none">>, AllPlaces(H, m), k)]

HeadState(x, n, q, H, m, k) ==
  [err |-> "none", rest |-> SubSeq(x, q[k] + 1, n), isFirst |-> k = 0, fields |-> FieldsAfter(H, m, k)]

(* One more header is noted as the fields say.                             *)
LEMMA FieldsNext ==
  \A H, m, k : m \in Nat /\ k \in 1 .. m =>
    R!Noted(FieldsAfter(H, m, k - 1), H[k], k - 1 = 0) = FieldsAfter(H, m, k)
<1> TAKE H, m, k
<1> HAVE m \in Nat /\ k \in 1 .. m
<1>1. PICK l, a, p : l = AllLens(H, m) /\ a = AllRanges(H, m) /\ p = AllPlaces(H, m)
  OBVIOUS
<1>2. l[k] = R!GetLen(H[k]) /\ a[k] = R!GetAcceptRanges(H[k]) /\ p[k] = R!GetLocation(H[k])
  BY <1>1 DEF AllLens, AllRanges, AllPlaces
<1>3. k \in Nat \ {0}
  OBVIOUS
<1>4. \A none, g : First(none, g, k) = IF First(none, g, k - 1) = none THEN g[k] ELSE First(none, g, k - 1)
  BY <1>3, FirstNext, ZenonT(60)
<1>5. PICK F, G : F = FieldsAfter(H, m, k - 1) /\ G = FieldsAfter(H, m, k)
  OBVIOUS
<1>6. /\ F.statcode = (IF k - 1 = 0 THEN -1 ELSE R!ParseStatLine(H[1]))
      /\ F.contlen = First(-1, l, k - 1) /\ F.accept = First(-1, a, k - 1)
      /\ F.newloc = First(<<"none">>, p, k - 1)
  BY <1>1, <1>5 DEF FieldsAfter
<1>7. G = [statcode |-> R!ParseStatLine(H[1]), contlen |-> First(-1, l, k),
           accept |-> First(-1, a, k), newloc |-> First(<<"none">>, p, k)]
  BY <1>1, <1>3, <1>5 DEF FieldsAfter
<1>8. (IF k - 1 = 0 THEN R!ParseStatLine(H[k]) ELSE F.statcode) = R!ParseStatLine(H[1])
  <2>1. k - 1 = 0 => k = 1
    BY <1>3
  <2> QED
    BY <1>6, <2>1
<1>9. R!Noted(F, H[k], k - 1 = 0) = G
  BY <1>2, <1>4, <1>6, <1>7, <1>8 DEF R!Noted
<1> QED
  BY <1>5, <1>9

(* Before the first header nothing is noted.                               *)
LEMMA NoFieldsAre == \A H, m : FieldsAfter(H, m, 0) = R!NoFields
<1> TAKE H, m
<1>1. First(-1, AllLens(H, m), 0) = -1 /\ First(-1, AllRanges(H, m), 0) = -1 /\ First(<<"none">>, AllPlaces(H, m), 0) = <<"none">>
  <2>1. 1 \in Nat \ {0}
    OBVIOUS
  <2> QED
    BY <2>1, FirstNext, Zenon
<1> QED
  BY <1>1 DEF FieldsAfter, R!NoFields

(* A header that came whole is noted and the next is awaited; one that     *)
(* was cut ends the reading with an error (http_fetch_headers).            *)
NextIs(x, q, H, m, n, end, k) ==
  /\ n > q[k] => R!FetchHeaders(HeadState(x, n, q, H, m, k - 1), end) = HeadState(x, n, q, H, m, k)
  /\ n <= q[k] => /\ R!FetchHeaders(HeadState(x, n, q, H, m, k - 1), end).err \in {"HEOF", "HERR"}
                  /\ R!FetchHeaders(HeadState(x, n, q, H, m, k - 1), end).fields = FieldsAfter(H, m, k - 1)

(* Every heading is read so, whatever stands in it and however much of it  *)
(* came before the end.                                                    *)
LEMMA NextHeading ==
  \A x, W, q, v, H, m, n, end, k :
    HeadersAt(x, W, q, v, H, m) /\ n \in 0 .. Len(x) /\ k \in 1 .. m /\ q[k - 1] <= n
    => NextIs(x, q, H, m, n, end, k)
<1> TAKE x, W, q, v, H, m, n, end, k
<1> HAVE HeadersAt(x, W, q, v, H, m) /\ n \in 0 .. Len(x) /\ k \in 1 .. m /\ q[k - 1] <= n
<1> USE DEF NextIs
<1>1. /\ x \in Seq(W) /\ m \in Nat /\ q[k - 1] \in Nat /\ q[k] \in Nat /\ q[k - 1] < q[k]
      /\ HeaderAt(x, q[k - 1], q[k], v[k]) /\ H[k] = Heading(x, q, v, k) /\ H[k] # R!Blank
      /\ q[m] < Len(x) /\ q[m] \in Nat
  BY DEF HeadersAt
<1>2. q[k] <= q[m]
  <2> DEFINE P == {j \in Nat : k + j <= m => q[k] <= q[k + j]}
  <2>1. 0 \in P
    BY <1>1
  <2>2. ASSUME NEW j \in Nat, j \in P PROVE j + 1 \in P
    <3> SUFFICES ASSUME k + (j + 1) <= m PROVE q[k] <= q[k + (j + 1)]
      OBVIOUS
    <3>1. PICK i \in 1 .. m : i = k + (j + 1) /\ i - 1 = k + j
      BY <1>1
    <3>2. q[i - 1] < q[i] /\ q[i - 1] \in Nat /\ q[i] \in Nat
      <4>1. i - 1 \in 0 .. m /\ i \in 0 .. m
        BY <1>1, <3>1
      <4> QED
        BY <4>1 DEF HeadersAt
    <3>3. q[k] <= q[i - 1]
      BY <1>1, <2>2, <3>1
    <3> QED
      BY <1>1, <3>1, <3>2, <3>3
  <2>3. m - k \in P
    <3>1. m - k \in Nat
      BY <1>1
    <3> HIDE DEF P
    <3> QED
      BY <2>1, <2>2, <3>1, NatInductive
  <2> QED
    BY <1>1, <2>3
<1>3. PICK s : s = HeadState(x, n, q, H, m, k - 1)
  OBVIOUS
<1>4. s.err = "none" /\ s.rest = SubSeq(x, q[k - 1] + 1, n) /\ s.isFirst = (k - 1 = 0) /\ s.fields = FieldsAfter(H, m, k - 1)
  BY <1>3 DEF HeadState
<1>5. PICK r : r = R!FetchNextHeader(s.rest, end)
  OBVIOUS
<1>6. HeaderRead(x, q[k - 1], q[k], v[k], n, end, r)
  <2>1. q[k - 1] \in 0 .. n /\ q[k] \in q[k - 1] + 1 .. Len(x) - 1
    BY <1>1, <1>2
  <2> QED
    BY <1>1, <1>4, <1>5, <2>1, HeaderIsRead, Zenon
<1>7. CASE n > q[k]
  <2>1. r.err = "HOK" /\ r.header = H[k] /\ r.rest = SubSeq(x, q[k] + 1, n)
    BY <1>1, <1>6, <1>7, SMTT(40) DEF HeaderRead, Heading
  <2>2. R!FetchHeaders(s, end) =
          [err |-> "none", rest |-> r.rest, isFirst |-> FALSE, fields |-> R!Noted(s.fields, r.header, s.isFirst)]
    BY <1>1, <1>4, <1>5, <2>1, Zenon DEF R!FetchHeaders
  <2>3. R!Noted(s.fields, r.header, s.isFirst) = FieldsAfter(H, m, k)
    BY <1>1, <1>4, <2>1, FieldsNext
  <2>4. (k = 0) = FALSE
    OBVIOUS
  <2>5. ~(n <= q[k])
    BY <1>1, <1>7
  <2> QED
    BY <1>3, <2>1, <2>2, <2>3, <2>4, <2>5 DEF HeadState
<1>8. CASE n <= q[k]
  <2>1. r.err \in {"HEOF", "HERR"}
    BY <1>6, <1>8 DEF HeaderRead, R!AtEnd
  <2>2. R!FetchHeaders(s, end).err = r.err /\ R!FetchHeaders(s, end).fields = s.fields
    BY <1>4, <1>5, <2>1 DEF R!FetchHeaders
  <2>3. ~(n > q[k])
    BY <1>1, <1>8
  <2> QED
    BY <1>3, <1>4, <1>8, <2>1, <2>2, <2>3
<1> QED
  BY <1>1, <1>7, <1>8

(* The empty line ends the headers; the status line decides what they      *)
(* mean (http_fetch_headers).                                              *)
LEMMA LastHeading ==
  \A x, W, q, v, H, m, n, end :
    HeadersAt(x, W, q, v, H, m) /\ n \in 0 .. Len(x) /\ q[m] < n
    => R!FetchHeaders(HeadState(x, n, q, H, m, m), end) =
         [err |-> R!StatusErr(R!ParseStatLine(H[1]), FieldsAfter(H, m, m).newloc), rest |-> SubSeq(x, q[m] + 2, n),
          isFirst |-> FALSE, fields |-> FieldsAfter(H, m, m)]
<1> TAKE x, W, q, v, H, m, n, end
<1> HAVE HeadersAt(x, W, q, v, H, m) /\ n \in 0 .. Len(x) /\ q[m] < n
<1>1. x \in Seq(W) /\ m \in Nat \ {0} /\ q[m] \in Nat /\ q[m] < Len(x) /\ x[q[m] + 1] = R!Blank
  BY DEF HeadersAt
<1>2. PICK s : s = HeadState(x, n, q, H, m, m)
  OBVIOUS
<1>3. s.err = "none" /\ s.rest = SubSeq(x, q[m] + 1, n) /\ s.fields = FieldsAfter(H, m, m)
  BY <1>2 DEF HeadState
<1>4. s.rest # <<>> /\ Head(s.rest) = R!Blank /\ Tail(s.rest) = SubSeq(x, q[m] + 2, n)
  <2>1. q[m] \in 0 .. n /\ q[m] # n
    BY <1>1
  <2>2. RestIs(s.rest, x, q[m], n)
    BY <1>1, <1>3, <2>1, Rest
  <2> QED
    BY <1>1, <2>1, <2>2 DEF RestIs
<1>r. PICK r, t : r = R!FetchNextHeader(s.rest, end) /\ t = Tail(s.rest)
  OBVIOUS
<1>5. r.err = "HOK" /\ r.header = R!Blank /\ r.rest = SubSeq(x, q[m] + 2, n)
  <2>1. r = [err |-> "HOK", header |-> R!Blank, rest |-> t]
    BY <1>4, <1>r, Zenon DEF R!FetchNextHeader
  <2>2. r.err = "HOK" /\ r.header = R!Blank /\ r.rest = t
    BY <2>1
  <2> QED
    BY <1>4, <1>r, <2>2
<1>6. PICK e : e = R!StatusErr(s.fields.statcode, s.fields.newloc) /\ e # "none"
  <2>1. \A c, w : R!StatusErr(c, w) # "none"
    BY Zenon DEF R!StatusErr
  <2> QED
    BY <2>1
<1>7. R!FetchHeaders(s, end) = [err |-> e, rest |-> SubSeq(x, q[m] + 2, n), isFirst |-> FALSE, fields |-> s.fields]
  <2>1. R!FetchHeaders(s, end) = [err |-> e, rest |-> r.rest, isFirst |-> FALSE, fields |-> s.fields]
    BY <1>3, <1>5, <1>6, <1>r, Zenon DEF R!FetchHeaders
  <2> QED
    BY <1>5, <2>1
<1>8. s.fields.statcode = R!ParseStatLine(H[1])
  BY <1>1, <1>3 DEF FieldsAfter
<1> QED
  BY <1>2, <1>3, <1>6, <1>7, <1>8

(* The lines of a header come before those of the next.                    *)
LEMMA HeadersOrdered ==
  \A x, W, q, v, H, m : HeadersAt(x, W, q, v, H, m) => \A k \in 0 .. m : k <= q[k] /\ q[k] <= q[m]
<1> TAKE x, W, q, v, H, m
<1> HAVE HeadersAt(x, W, q, v, H, m)
<1>1. m \in Nat /\ q[0] = 0 /\ \A k \in 0 .. m : q[k] \in Nat
  BY DEF HeadersAt
<1>2. \A k \in 1 .. m : q[k - 1] < q[k] /\ q[k - 1] \in Nat /\ q[k] \in Nat
  <2> SUFFICES ASSUME NEW k \in 1 .. m PROVE q[k - 1] < q[k] /\ q[k - 1] \in Nat /\ q[k] \in Nat
    OBVIOUS
  <2>1. k - 1 \in 0 .. m /\ k \in 0 .. m
    BY <1>1
  <2> QED
    BY <1>1, <2>1 DEF HeadersAt
<1> DEFINE P == {j \in Nat : j <= m => j <= q[j]}
           Q == {j \in Nat : j <= m => q[m - j] <= q[m]}
<1>3. 0 \in P /\ 0 \in Q
  BY <1>1
<1>4. ASSUME NEW j \in Nat, j \in P PROVE j + 1 \in P
  <2> SUFFICES ASSUME j + 1 <= m PROVE j + 1 <= q[j + 1]
    OBVIOUS
  <2>1. PICK i \in 1 .. m : i = j + 1 /\ i - 1 = j
    BY <1>1
  <2>2. j <= q[j] /\ q[j] < q[i] /\ q[j] \in Nat /\ q[i] \in Nat
    BY <1>1, <1>2, <1>4, <2>1
  <2> QED
    BY <2>1, <2>2
<1>5. ASSUME NEW j \in Nat, j \in Q PROVE j + 1 \in Q
  <2> SUFFICES ASSUME j + 1 <= m PROVE q[m - (j + 1)] <= q[m]
    OBVIOUS
  <2>1. PICK i \in 1 .. m : i = m - j /\ i - 1 = m - (j + 1)
    BY <1>1
  <2>2. q[i] <= q[m] /\ q[i - 1] < q[i] /\ q[i - 1] \in Nat /\ q[i] \in Nat /\ q[m] \in Nat
    BY <1>1, <1>2, <1>5, <2>1
  <2> QED
    BY <2>1, <2>2
<1>6. Nat \subseteq P /\ Nat \subseteq Q
  <2> HIDE DEF P, Q
  <2> QED
    BY <1>3, <1>4, <1>5, NatInductive
<1>7. ASSUME NEW k \in 0 .. m PROVE k <= q[k] /\ q[k] <= q[m]
  <2>1. m - k \in Nat /\ k \in Nat /\ m - (m - k) = k
    BY <1>1
  <2>2. m - k \in Q /\ k \in P
    BY <1>6, <2>1
  <2> QED
    BY <1>1, <2>1, <2>2
<1> QED
  BY <1>7

(* What http_fetch_headers makes of the first n lines.                     *)
HeadersRead(x, q, H, m, n, r) ==
  /\ n > q[m] => r = [err |-> R!StatusErr(R!ParseStatLine(H[1]), FieldsAfter(H, m, m).newloc),
                      rest |-> SubSeq(x, q[m] + 2, n), isFirst |-> FALSE, fields |-> FieldsAfter(H, m, m)]
  /\ n <= q[m] => r.err \in {"HEOF", "HERR"} /\ \E k \in 1 .. m : r.fields = FieldsAfter(H, m, k - 1)

(* The rounds of its loop: after kk headers comes the last.                *)
LastRound(x, q, H, m, n, end, kk, fin) ==
  /\ kk \in 0 .. n
  /\ \A k \in 1 .. kk : R!FetchHeaders(HeadState(x, n, q, H, m, k - 1), end) = HeadState(x, n, q, H, m, k)
  /\ fin = R!FetchHeaders(HeadState(x, n, q, H, m, kk), end)
  /\ fin = R!FetchHeaders(fin, end)
  /\ HeadersRead(x, q, H, m, n, fin)

(* However much has come, there is a last header that is read.             *)
LEMMA LastRoundIs ==
  \A x, W, q, v, H, m, n, end :
    HeadersAt(x, W, q, v, H, m) /\ n \in 0 .. Len(x) => \E kk, fin : LastRound(x, q, H, m, n, end, kk, fin)
<1> TAKE x, W, q, v, H, m, n, end
<1> HAVE HeadersAt(x, W, q, v, H, m) /\ n \in 0 .. Len(x)
<1>1. /\ m \in Nat \ {0} /\ q[0] = 0 /\ n \in Nat
      /\ \A k \in 0 .. m : q[k] \in Nat /\ k <= q[k] /\ q[k] <= q[m]
  <2>1. x \in Seq(W) /\ m \in Nat \ {0} /\ q[0] = 0 /\ \A k \in 0 .. m : q[k] \in Nat
    BY DEF HeadersAt
  <2>2. n \in Nat
    BY <2>1
  <2> QED
    BY <2>1, <2>2, HeadersOrdered
<1>2. PICK I : I = {k \in 0 .. m : k = m \/ n <= q[k + 1]}
  OBVIOUS
<1>3. PICK kk \in I : \A j \in I : kk <= j
  <2>1. I \subseteq Nat /\ m \in I
    BY <1>1, <1>2
  <2> QED
    BY <2>1, LeastExists
<1>4. kk \in 0 .. m /\ \A k \in 1 .. kk : k \in 1 .. m /\ n > q[k]
  <2>1. kk \in 0 .. m
    BY <1>2, <1>3
  <2> SUFFICES ASSUME NEW k \in 1 .. kk PROVE k \in 1 .. m /\ n > q[k]
    BY <2>1
  <2>2. PICK p \in 0 .. m : p = k - 1 /\ p # m /\ p < kk /\ p + 1 = k
    BY <1>1, <2>1
  <2>3. p \notin I
    BY <1>3, <2>1, <2>2
  <2>4. ~(n <= q[p + 1])
    BY <1>2, <2>2, <2>3
  <2>5. k \in 0 .. m /\ k \in 1 .. m
    BY <1>1, <2>1
  <2>6. q[k] \in Nat
    BY <1>1, <2>5
  <2> QED
    BY <1>1, <2>2, <2>4, <2>5, <2>6
<1>5. q[kk] <= n /\ kk <= n
  <2>1. CASE kk = 0
    BY <1>1, <2>1
  <2>2. CASE kk # 0
    <3>1. kk \in 1 .. kk /\ kk \in 0 .. m
      BY <1>4, <2>2
    <3>2. n > q[kk] /\ q[kk] \in Nat /\ kk <= q[kk]
      BY <1>1, <1>4, <3>1
    <3> QED
      BY <1>1, <3>1, <3>2
  <2> QED
    BY <2>1, <2>2
<1>6. ASSUME NEW k \in 1 .. kk
      PROVE  R!FetchHeaders(HeadState(x, n, q, H, m, k - 1), end) = HeadState(x, n, q, H, m, k)
  <2>1. k \in 1 .. m /\ n > q[k]
    BY <1>4
  <2>2. q[k - 1] <= n
    <3>1. q[k - 1] < q[k] /\ q[k - 1] \in Nat /\ q[k] \in Nat
      <4>1. k - 1 \in 0 .. m /\ k \in 0 .. m
        BY <1>1, <2>1
      <4> QED
        BY <1>1, <2>1, <4>1 DEF HeadersAt
    <3> QED
      BY <1>1, <2>1, <3>1
  <2> QED
    <3>1. HeadersAt(x, W, q, v, H, m) /\ n \in 0 .. Len(x) /\ k \in 1 .. m /\ q[k - 1] <= n
      BY <2>1, <2>2
    <3>2. n > q[k] => R!FetchHeaders(HeadState(x, n, q, H, m, k - 1), end) = HeadState(x, n, q, H, m, k)
      <4>1. NextIs(x, q, H, m, n, end, k)
        BY <3>1, NextHeading, Zenon
      <4> QED
        BY <4>1, Zenon DEF NextIs
    <3> QED
      BY <2>1, <3>2, Zenon
<1>7. PICK fin : fin = R!FetchHeaders(HeadState(x, n, q, H, m, kk), end)
  OBVIOUS
<1>8. HeadersRead(x, q, H, m, n, fin) /\ fin.err # "none"
  <2>1. CASE kk = m
    <3>1. q[m] < n /\ q[m] \in Nat
      <4>1. m \in 1 .. kk /\ m \in 0 .. m
        BY <1>1, <2>1
      <4> QED
        BY <1>1, <1>4, <4>1
    <3>2. fin = [err |-> R!StatusErr(R!ParseStatLine(H[1]), FieldsAfter(H, m, m).newloc), rest |-> SubSeq(x, q[m] + 2, n),
                 isFirst |-> FALSE, fields |-> FieldsAfter(H, m, m)]
      BY <1>7, <2>1, <3>1, LastHeading
    <3>3. \A c, w : R!StatusErr(c, w) # "none"
      BY Zenon DEF R!StatusErr
    <3>4. n > q[m] /\ ~(n <= q[m])
      BY <1>1, <3>1
    <3>5. fin.err # "none"
      BY <3>2, <3>3
    <3> QED
      BY <3>2, <3>4, <3>5 DEF HeadersRead
  <2>2. CASE kk # m
    <3>1. PICK k \in 1 .. m : k = kk + 1 /\ k - 1 = kk
      BY <1>1, <1>4, <2>2
    <3>2. n <= q[k]
      BY <1>2, <1>3, <2>2, <3>1
    <3>3. fin.err \in {"HEOF", "HERR"} /\ fin.fields = FieldsAfter(H, m, k - 1)
      <4>1. NextIs(x, q, H, m, n, end, k)
        <5>1. HeadersAt(x, W, q, v, H, m) /\ n \in 0 .. Len(x) /\ q[k - 1] <= n
          BY <1>5, <3>1
        <5> QED
          BY <3>1, <5>1, NextHeading, Zenon
      <4> QED
        BY <1>7, <3>1, <3>2, <4>1 DEF NextIs
    <3>4. n <= q[m] /\ ~(n > q[m])
      <4>1. k \in 0 .. m /\ m \in 0 .. m
        BY <1>1
      <4>2. q[k] \in Nat /\ q[k] <= q[m] /\ q[m] \in Nat
        BY <1>1, <4>1
      <4> QED
        BY <1>1, <3>2, <4>2
    <3> QED
      BY <3>1, <3>3, <3>4 DEF HeadersRead
  <2> QED
    BY <2>1, <2>2
<1>9. fin = R!FetchHeaders(fin, end)
  BY <1>8 DEF R!FetchHeaders
<1>10. kk \in 0 .. n
  BY <1>1, <1>4, <1>5
<1> QED
  BY <1>6, <1>7, <1>8, <1>9, <1>10 DEF LastRound

(* The loop of http_fetch_headers runs until its last round.               *)
LEMMA HeadersAreRead ==
  \A x, W, q, v, H, m, n, end, stream :
    HeadersAt(x, W, q, v, H, m) /\ n \in 0 .. Len(x) /\ stream.lines = SubSeq(x, 1, n) /\ stream.end = end
    => HeadersRead(x, q, H, m, n, R!ReadHeaders(stream))
<1> TAKE x, W, q, v, H, m, n, end, stream
<1> HAVE HeadersAt(x, W, q, v, H, m) /\ n \in 0 .. Len(x) /\ stream.lines = SubSeq(x, 1, n) /\ stream.end = end
<1>1. PICK kk, fin : LastRound(x, q, H, m, n, end, kk, fin)
  BY LastRoundIs
<1>2. PICK b, V : /\ b = [k \in 0 .. n + 1 |-> IF k <= kk THEN HeadState(x, n, q, H, m, k) ELSE fin]
                  /\ V = {b[k] : k \in 0 .. n + 1}
  OBVIOUS
<1>3. n \in Nat /\ kk \in Nat /\ kk <= n
  <2>1. x \in Seq(W)
    BY DEF HeadersAt
  <2>2. n \in Nat
    BY <2>1
  <2> QED
    BY <1>1, <2>2 DEF LastRound
<1>4. \A k \in 1 .. n + 1 : R!FetchHeaders(b[k - 1], end) = b[k] /\ b[k] \in V /\ b[k - 1] \in V
  <2> SUFFICES ASSUME NEW k \in 1 .. n + 1 PROVE R!FetchHeaders(b[k - 1], end) = b[k] /\ b[k] \in V /\ b[k - 1] \in V
    OBVIOUS
  <2>1. PICK p \in 0 .. n + 1 : p = k - 1 /\ k \in 0 .. n + 1 /\ k \in Nat
    BY <1>3
  <2>2. /\ b[k] = IF k <= kk THEN HeadState(x, n, q, H, m, k) ELSE fin
        /\ b[p] = IF p <= kk THEN HeadState(x, n, q, H, m, p) ELSE fin
    BY <1>2, <2>1
  <2>3. CASE k <= kk
    <3>1. k \in 1 .. kk /\ p <= kk
      BY <1>3, <2>1, <2>3
    <3>2. R!FetchHeaders(HeadState(x, n, q, H, m, p), end) = HeadState(x, n, q, H, m, k)
      BY <1>1, <2>1, <3>1 DEF LastRound
    <3> QED
      BY <1>2, <2>1, <2>2, <2>3, <3>1, <3>2
  <2>4. CASE p = kk
    <3>1. ~(k <= kk) /\ p <= kk
      BY <1>3, <2>1, <2>4
    <3>2. R!FetchHeaders(HeadState(x, n, q, H, m, p), end) = fin
      BY <1>1, <2>4 DEF LastRound
    <3> QED
      BY <1>2, <2>1, <2>2, <3>1, <3>2
  <2>5. CASE p > kk
    <3>1. ~(k <= kk) /\ ~(p <= kk)
      BY <1>3, <2>1, <2>5
    <3>2. R!FetchHeaders(fin, end) = fin
      BY <1>1 DEF LastRound
    <3> QED
      BY <1>2, <2>1, <2>2, <3>1, <3>2
  <2> QED
    BY <1>3, <2>1, <2>3, <2>4, <2>5
<1>5. b[0] = [err |-> "none", rest |-> stream.lines, isFirst |-> TRUE, fields |-> R!NoFields] /\ b[0] \in V
  <2>1. 0 \in 0 .. n + 1 /\ 0 <= kk
    BY <1>3
  <2>2. b[0] = HeadState(x, n, q, H, m, 0) /\ b[0] \in V
    BY <1>2, <2>1
  <2>3. q[0] + 1 = 1
    BY DEF HeadersAt
  <2>4. FieldsAfter(H, m, 0) = R!NoFields /\ (0 = 0) = TRUE
    BY NoFieldsAre
  <2> QED
    BY <2>2, <2>3, <2>4 DEF HeadState
<1> DEFINE D == DOMAIN Append(stream.lines, R!Blank)
           base == [err |-> "none", rest |-> stream.lines, isFirst |-> TRUE, fields |-> R!NoFields]
           g == [e \in (1 .. n + 1) \X V |-> R!FetchHeaders(e[2], end)]
           Raw(h) == h = [s \in SUBSET D |-> IF s = {} THEN base ELSE R!FetchHeaders(h[s \ {Top(s)}], stream.end)]
<1>6. D = 1 .. n + 1
  <2>1. x \in Seq(W)
    BY DEF HeadersAt
  <2>2. SubSeq(x, 1, n) \in Seq(W) /\ Len(SubSeq(x, 1, n)) = n
    BY <1>3, <2>1
  <2>3. PICK U1 : U1 = W \cup {R!Blank}
    OBVIOUS
  <2>4. stream.lines \in Seq(U1) /\ Len(stream.lines) = n /\ R!Blank \in U1
    <3>1. PICK y \in Seq(W) : y = stream.lines /\ Len(y) = n
      BY <2>2
    <3>2. y \in Seq(U1)
      BY <2>3
    <3> QED
      BY <2>3, <3>1, <3>2
  <2>5. PICK c : c = R!Blank
    OBVIOUS
  <2>6. Len(Append(stream.lines, c)) = n + 1 /\ DOMAIN Append(stream.lines, c) = 1 .. n + 1
    BY <1>3, <2>4, <2>5
  <2> QED
    BY <2>5, <2>6
<1>7. \A w \in V : R!FetchHeaders(w, end) \in V
  <2> SUFFICES ASSUME NEW k \in 0 .. n + 1 PROVE R!FetchHeaders(b[k], end) \in V
    BY <1>2
  <2>1. CASE k = n + 1
    <3>1. b[k] = fin /\ b[k] \in V
      BY <1>2, <1>3, <2>1
    <3> QED
      BY <1>1, <3>1 DEF LastRound
  <2>2. CASE k # n + 1
    <3>1. PICK j \in 1 .. n + 1 : j - 1 = k
      BY <1>3, <2>2
    <3> QED
      BY <1>4, <3>1
  <2> QED
    BY <2>1, <2>2
<1>8. g \in [(1 .. n + 1) \X V -> V] /\ \A k \in 1 .. n + 1, w \in V : g[<<k, w>>] = R!FetchHeaders(w, end)
  BY <1>7
<1>9. PICK F, a : LeftFolds(F, a, n + 1, V, base, g)
  <2>1. n + 1 \in Nat /\ base \in V
    BY <1>3, <1>5
  <2> HIDE DEF base, g
  <2> QED
    BY <1>8, <2>1, LeftFold, Zenon
<1> HIDE DEF base, g
<1>10. Raw(F)
  <2>1. F \in [SUBSET (1 .. n + 1) -> V] /\ F[{}] = base
    BY <1>9 DEF LeftFolds, FoldsLeft
  <2>2. ASSUME NEW s \in SUBSET (1 .. n + 1), s # {} PROVE F[s] = R!FetchHeaders(F[s \ {Top(s)}], end)
    <3>1. Top(s) \in 1 .. n + 1 /\ F[s \ {Top(s)}] \in V
      BY <1>9, <2>1, <2>2 DEF LeftFolds
    <3>2. F[s] = g[<<Top(s), F[s \ {Top(s)}]>>]
      BY <1>9, <2>2, <3>1 DEF LeftFolds, FoldsLeft
    <3> QED
      BY <1>8, <3>1, <3>2
  <2> HIDE DEF D
  <2> QED
    BY <1>6, <2>1, <2>2
<1>11. PICK h : Raw(h) /\ R!ReadHeaders(stream) = h[D]
  <2>1. Raw(CHOOSE h : Raw(h))
    <3> HIDE DEF Raw
    <3> QED
      BY <1>10, Zenon
  <2>2. R!ReadHeaders(stream) = (CHOOSE h : Raw(h))[D]
    BY Zenon DEF R!ReadHeaders, R!FoldLeft, R!MapThenFoldSet, R!Max, Top, base
  <2> QED
    <3> HIDE DEF Raw
    <3> QED
      BY <2>1, <2>2, Zenon
<1> HIDE DEF D
<1>12. FoldsLeft(h, n + 1, V, base, g)
  <2>1. h[{}] = base
    BY <1>11
  <2>2. ASSUME NEW s \in SUBSET (1 .. n + 1), s # {}, h[s \ {Top(s)}] \in V
        PROVE  h[s] = g[<<Top(s), h[s \ {Top(s)}]>>]
    <3>1. Top(s) \in 1 .. n + 1
      BY <1>9, <2>2 DEF LeftFolds
    <3>2. h[s] = R!FetchHeaders(h[s \ {Top(s)}], end)
      BY <1>6, <1>11, <2>2
    <3> QED
      BY <1>8, <2>2, <3>1, <3>2
  <2> QED
    BY <2>1, <2>2 DEF FoldsLeft
<1>13. h[1 .. n + 1] = a[n + 1] /\ Folded(a, n + 1, V, base, g)
  BY <1>9, <1>12, Zenon DEF LeftFolds
<1> DEFINE P == {k \in Nat : k <= n + 1 => a[k] = b[k]}
<1>14. 0 \in P
  BY <1>5, <1>13 DEF Folded, base
<1>15. ASSUME NEW k \in Nat, k \in P PROVE k + 1 \in P
  <2> SUFFICES ASSUME k + 1 <= n + 1 PROVE a[k + 1] = b[k + 1]
    OBVIOUS
  <2>1. PICK i \in 1 .. n + 1 : i = k + 1 /\ i - 1 = k
    BY <1>3
  <2>2. a[i] = g[<<i, a[k]>>]
    <3>1. a[i] = g[<<i, a[i - 1]>>]
      BY <1>13, Zenon DEF Folded
    <3> QED
      BY <2>1, <3>1
  <2>3. a[k] = b[k]
    BY <1>3, <1>15, <2>1
  <2>4. b[k] \in V /\ R!FetchHeaders(b[k], end) = b[i]
    BY <1>4, <2>1
  <2>5. a[i] = b[i]
    BY <1>8, <2>2, <2>3, <2>4
  <2> QED
    BY <2>1, <2>5
<1>16. n + 1 \in P
  <2>1. n + 1 \in Nat
    BY <1>3
  <2> HIDE DEF P
  <2> QED
    BY <1>14, <1>15, <2>1, NatInductive
<1>17. b[n + 1] = fin
  BY <1>2, <1>3
<1>18. R!ReadHeaders(stream) = fin
  <2>1. a[n + 1] = fin
    BY <1>3, <1>16, <1>17
  <2> HIDE DEF Raw
  <2> QED
    BY <1>6, <1>11, <1>13, <2>1, Zenon
<1> QED
  BY <1>1, <1>18 DEF LastRound

-----------------------------------------------------------------------------
(***************************************************************************)
(* The headers of a response.                                              *)
(***************************************************************************)

(* A header as it is sent: it has a name and at least one part.            *)
IsHeader(h) == h.name # R!Blank.name /\ IsSeq(h.parts) /\ h.parts # <<>> /\ \A j \in DOMAIN h.parts : IsSeq(h.parts[j])

(* Its lines: the first names it, the others fold.                         *)
HeaderLine(line, h, j) ==
  /\ j = 1 => line = [folds |-> FALSE, name |-> h.name, words |-> h.parts[1]]
  /\ j # 1 => R!Folds(line)
  /\ line.words = h.parts[j]
ItsLines(l, h, n) ==
  /\ n \in Nat \ {0} /\ n = Len(h.parts) /\ DOMAIN h.parts = 1 .. n
  /\ DOMAIN l = 1 .. n /\ Len(l) = n /\ IsSeq(l)
  /\ \A j \in 1 .. n : HeaderLine(l[j], h, j)

IsLine(line, folds, name, words) ==
  line = [folds |-> folds, name |-> name, words |-> words] /\ line.folds = folds /\ line.words = words

(* The parts of a line.                                                    *)
LEMMA LineHas == \A l, b, w, z : l = [folds |-> b, name |-> w, words |-> z] => IsLine(l, b, w, z)
  BY DEF IsLine

(* The lines of a header: its name and first words, then the words of      *)
(* each line that continues it.                                            *)
LEMMA HeaderHasLines == \A h : IsHeader(h) => ItsLines(R!HeaderLines(h), h, Len(h.parts))
<1> TAKE h
<1> HAVE IsHeader(h)
<1>1. PICK n : n = Len(h.parts)
  OBVIOUS
<1>2. n \in Nat \ {0} /\ DOMAIN h.parts = 1 .. n
  <2>1. IsSeq(h.parts) /\ h.parts # <<>>
    BY DEF IsHeader
  <2>2. DOMAIN h.parts = 1 .. n /\ n \in Nat
    BY <1>1, <2>1, SeqDomain
  <2>3. n # 0
    <3>1. h.parts = [i \in 1 .. n |-> h.parts[i]]
      BY <1>1, <2>1 DEF IsSeq
    <3> QED
      BY <2>1, <3>1
  <2> QED
    BY <2>2, <2>3
<1>3. PICK l : l = R!HeaderLines(h)
  OBVIOUS
<1>4. l = [j \in 1 .. n |-> [folds |-> j > 1, name |-> IF j = 1 THEN h.name ELSE "", words |-> h.parts[j]]]
  BY <1>2, <1>3 DEF R!HeaderLines
<1>5. DOMAIN l = 1 .. n /\ Len(l) = n
  BY <1>2, <1>4, LengthIs
<1>6. ASSUME NEW j \in 1 .. n PROVE HeaderLine(l[j], h, j)
  <2>1. IsLine(l[j], j > 1, IF j = 1 THEN h.name ELSE "", h.parts[j])
    <3>1. l[j] = [folds |-> j > 1, name |-> IF j = 1 THEN h.name ELSE "", words |-> h.parts[j]]
      BY <1>4, Zenon
    <3> QED
      BY <3>1, LineHas, Zenon
  <2>2. l[j].words = h.parts[j]
    BY <2>1, Zenon DEF IsLine
  <2>3. CASE j = 1
    <3>1. (1 > 1) = FALSE
      OBVIOUS
    <3>2. l[j] = [folds |-> FALSE, name |-> h.name, words |-> h.parts[1]]
      BY <2>1, <2>3, <3>1, Zenon DEF IsLine
    <3> QED
      BY <2>2, <2>3, <3>2, Zenon DEF HeaderLine
  <2>4. CASE j # 1
    <3>1. j > 1
      BY <1>2, <2>4
    <3>2. l[j].folds
      BY <2>1, <3>1, Zenon DEF IsLine
    <3> QED
      BY <2>2, <2>4, <3>2, Zenon DEF HeaderLine, R!Folds
  <2> QED
    BY <2>3, <2>4
<1>7. IsSeq(l)
  BY <1>2, <1>4, <1>5 DEF IsSeq
<1> QED
  BY <1>1, <1>2, <1>3, <1>5, <1>6, <1>7 DEF ItsLines

(* The header h stands in the lines x, behind the first p.                 *)
StandsAt(x, p, e, h) ==
  /\ p \in Nat /\ e \in Nat /\ e = p + Len(h.parts) /\ e < Len(x)
  /\ \A j \in 1 .. Len(h.parts) : HeaderLine(x[p + j], h, j)

(* A header that stands in the stream unfolds to its value.                *)
LEMMA HeaderUnfolds ==
  ASSUME NEW W, NEW x \in Seq(W), NEW p, NEW e, NEW h, IsHeader(h), StandsAt(x, p, e, h)
  PROVE  UnfoldsTo(x[p + 1].words, SubSeq(x, p + 2, e), R!ValueOf(h))
<1>0. PICK n \in Nat : n = Len(h.parts) /\ n # 0 /\ DOMAIN h.parts = 1 .. n
  BY HeaderHasLines DEF ItsLines
<1>1. p \in Nat /\ e \in Nat /\ e = p + n /\ e < Len(x) /\ Len(x) \in Nat
  BY <1>0 DEF StandsAt
<1>2. ASSUME NEW j \in 1 .. n PROVE x[p + j].words = h.parts[j]
  <2>1. HeaderLine(x[p + j], h, j)
    BY <1>0 DEF StandsAt
  <2> QED
    BY <2>1 DEF HeaderLine
<1>3. PICK V : V = UNION {{h.parts[j][i] : i \in 1 .. Len(h.parts[j])} : j \in 1 .. n}
  OBVIOUS
<1>4. ASSUME NEW j \in 1 .. n PROVE h.parts[j] \in Seq(V)
  <2>1. IsSeq(h.parts[j])
    BY <1>0 DEF IsHeader
  <2>2. PICK y : y = h.parts[j]
    OBVIOUS
  <2>3. \A i \in 1 .. Len(y) : y[i] \in V
    BY <1>3, <2>2
  <2> QED
    BY <2>1, <2>2, <2>3, SeqOf
<1>5. PICK f : IsFlat(f, h.parts, n, V)
  BY <1>4, FlatExists, Zenon
<1>6. R!ValueOf(h) = f[n]
  BY <1>0, <1>5, RFlatten, Zenon DEF R!ValueOf
<1>7. PICK m \in Nat : m = n - 1 /\ m + 1 = n
  <2>1. n - 1 \in Nat /\ (n - 1) + 1 = n
    BY <1>0
  <2> QED
    BY <2>1
<1>8. PICK lines : lines = SubSeq(x, p + 2, e)
  OBVIOUS
<1>9. DOMAIN lines = 1 .. m /\ \A i \in 1 .. m : lines[i] = x[p + (i + 1)]
  <2>1. PICK q \in Nat : q = p + 2 /\ q <= e + 1 /\ e - q + 1 = m
    BY <1>0, <1>1, <1>7
  <2>2. q >= 1 /\ e <= Len(x)
    BY <1>1, <2>1
  <2>3. lines = SubSeq(x, q, e)
    BY <1>8, <2>1
  <2>4. lines \in Seq(W) /\ Len(lines) = m /\ \A i \in 1 .. m : lines[i] = x[q + i - 1]
    BY <1>1, <2>1, <2>2, <2>3
  <2>5. \A i \in 1 .. m : q + i - 1 = p + (i + 1)
    BY <1>1, <2>1
  <2>6. DOMAIN lines = 1 .. m
    BY <2>4
  <2>7. \A i \in 1 .. m : lines[i] = x[p + (i + 1)]
    BY <2>4, <2>5
  <2> QED
    BY <2>6, <2>7
<1>10. \A i \in 1 .. m : lines[i].words = h.parts[i + 1]
  <2>1. \A i \in 1 .. m : i + 1 \in 1 .. n
    BY <1>7
  <2> QED
    BY <1>2, <1>9, <2>1
<1>11. x[p + 1].words = h.parts[1]
  <2>1. 1 \in 1 .. n
    BY <1>0
  <2> QED
    BY <1>2, <2>1
<1>12. Parted(x[p + 1].words, lines, m, f, h.parts, V)
  BY <1>5, <1>7, <1>9, <1>10, <1>11, Zenon DEF Parted
<1> QED
  BY <1>6, <1>7, <1>8, <1>12, Unfolds, Zenon

(* Headers stand one behind the other, and an empty line behind the last.  *)
AllValues(G, m) == [k \in 1 .. m |-> R!ValueOf(G[k])]
HeaderOf(h, value) == [folds |-> FALSE, name |-> h.name, words |-> value]
AllHeaders(G, m) == [k \in 1 .. m |-> HeaderOf(G[k], R!ValueOf(G[k]))]
Layout(x, W, q, G, m) ==
  /\ x \in Seq(W) /\ m \in Nat \ {0} /\ q[0] = 0
  /\ \A k \in 1 .. m : IsHeader(G[k]) /\ StandsAt(x, q[k - 1], q[k], G[k])
  /\ q[m] < Len(x) /\ x[q[m] + 1] = R!Blank

(* Headers laid out one behind the other stand where they are looked for.  *)
LEMMA LayoutIs ==
  \A x, W, q, G, m : Layout(x, W, q, G, m) => HeadersAt(x, W, q, AllValues(G, m), AllHeaders(G, m), m)
<1> TAKE x, W, q, G, m
<1> HAVE Layout(x, W, q, G, m)
<1>0. /\ x \in Seq(W) /\ m \in Nat \ {0} /\ q[0] = 0
      /\ q[m] < Len(x) /\ x[q[m] + 1] = R!Blank
  BY DEF Layout
<1>1. ASSUME NEW k \in 1 .. m
      PROVE  /\ IsHeader(G[k]) /\ StandsAt(x, q[k - 1], q[k], G[k]) /\ Len(G[k].parts) \in Nat \ {0}
             /\ q[k - 1] \in Nat /\ q[k] \in Nat /\ q[k] = q[k - 1] + Len(G[k].parts) /\ q[k] < Len(x)
             /\ \A j \in 1 .. Len(G[k].parts) : HeaderLine(x[q[k - 1] + j], G[k], j)
  <2>1. IsHeader(G[k]) /\ StandsAt(x, q[k - 1], q[k], G[k])
    BY DEF Layout
  <2>2. Len(G[k].parts) \in Nat \ {0}
    BY <2>1, HeaderHasLines DEF ItsLines
  <2> QED
    BY <2>1, <2>2 DEF StandsAt
<1>2. \A k \in 0 .. m : q[k] \in Nat
  <2> SUFFICES ASSUME NEW k \in 0 .. m PROVE q[k] \in Nat
    OBVIOUS
  <2>1. CASE k = 0
    BY <1>0, <2>1
  <2>2. CASE k # 0
    <3>1. k \in 1 .. m
      BY <1>0, <2>2
    <3> QED
      BY <1>1, <3>1
  <2> QED
    BY <2>1, <2>2
<1>3. ASSUME NEW k \in 1 .. m
      PROVE  /\ x[q[k - 1] + 1] = [folds |-> FALSE, name |-> G[k].name, words |-> G[k].parts[1]]
             /\ x[q[k - 1] + 1] # R!Blank /\ ~R!Folds(x[q[k - 1] + 1])
  <2>0. PICK line, w : line = x[q[k - 1] + 1] /\ w = G[k].name
    OBVIOUS
  <2>1. HeaderLine(line, G[k], 1)
    <3>1. PICK n \in Nat : n = Len(G[k].parts) /\ n # 0
      BY <1>1
    <3>2. 1 \in 1 .. n
      BY <3>1
    <3> QED
      BY <1>1, <2>0, <3>1, <3>2
  <2>2. line = [folds |-> FALSE, name |-> w, words |-> G[k].parts[1]]
    BY <2>0, <2>1 DEF HeaderLine
  <2>3. line.name = w /\ line.folds = FALSE
    BY <2>2
  <2>4. w # R!Blank.name
    BY <1>1, <2>0 DEF IsHeader
  <2>5. line # R!Blank
    BY <2>3, <2>4
  <2>6. ~R!Folds(line)
    BY <2>3 DEF R!Folds
  <2> QED
    BY <2>0, <2>2, <2>5, <2>6
<1>4. ASSUME NEW k \in 1 .. m PROVE HeaderAt(x, q[k - 1], q[k], R!ValueOf(G[k]))
  <2>1. \A i \in q[k - 1] + 2 .. q[k] : R!Folds(x[i])
    <3> SUFFICES ASSUME NEW i \in q[k - 1] + 2 .. q[k] PROVE R!Folds(x[i])
      OBVIOUS
    <3>0. PICK n \in Nat, p \in Nat, e \in Nat : n = Len(G[k].parts) /\ p = q[k - 1] /\ e = q[k] /\ e = p + n
      BY <1>1
    <3>1. PICK j \in 1 .. n : i = p + j /\ j # 1
      <4>1. i \in p + 2 .. e
        BY <3>0
      <4>2. e = p + n /\ i \in Int
        BY <3>0, <4>1
      <4>3. PICK j \in Int : j = i - p /\ i = p + j
        BY <4>2
      <4>4. j \in 1 .. n /\ j # 1
        BY <4>1, <4>2, <4>3
      <4> QED
        BY <4>3, <4>4
    <3>2. HeaderLine(x[p + j], G[k], j)
      BY <1>1, <3>0
    <3> QED
      BY <3>1, <3>2 DEF HeaderLine
  <2>2. ~R!Folds(x[q[k] + 1])
    <3>1. CASE k = m
      <4>1. ~R!Folds(R!Blank)
        BY Zenon DEF R!Folds, R!Blank
      <4> QED
        BY <1>0, <3>1, <4>1
    <3>2. CASE k # m
      <4>1. PICK j \in 1 .. m : j - 1 = k
        BY <1>0, <3>2
      <4> QED
        BY <1>3, <4>1
    <3> QED
      BY <3>1, <3>2
  <2>3. UnfoldsTo(x[q[k - 1] + 1].words, SubSeq(x, q[k - 1] + 2, q[k]), R!ValueOf(G[k]))
    BY <1>0, <1>1, HeaderUnfolds
  <2> QED
    BY <1>3, <2>1, <2>2, <2>3 DEF HeaderAt
<1>5. PICK v, H : v = AllValues(G, m) /\ H = AllHeaders(G, m)
  OBVIOUS
<1>6. ASSUME NEW k \in 1 .. m
      PROVE  v[k] = R!ValueOf(G[k]) /\ H[k] = Heading(x, q, v, k) /\ H[k] # R!Blank
  <2>0. PICK w, y, line, h : w = G[k].name /\ y = R!ValueOf(G[k]) /\ line = x[q[k - 1] + 1] /\ h = H[k]
    OBVIOUS
  <2>1. v[k] = y /\ h = [folds |-> FALSE, name |-> w, words |-> y]
    BY <1>5, <2>0 DEF AllValues, AllHeaders, HeaderOf
  <2>2. line = [folds |-> FALSE, name |-> w, words |-> G[k].parts[1]]
    BY <1>3, <2>0
  <2>3. [line EXCEPT !.words = y] = h
    <3>1. \A b, r, z : r = [folds |-> b, name |-> w, words |-> z]
                        => [r EXCEPT !.words = y] = [folds |-> b, name |-> w, words |-> y]
      OBVIOUS
    <3> QED
      BY <2>1, <2>2, <3>1, Zenon
  <2>4. h = Heading(x, q, v, k)
    BY <2>0, <2>1, <2>3 DEF Heading
  <2>5. w # R!Blank.name
    BY <1>1, <2>0 DEF IsHeader
  <2>6. h.name = w
    BY <2>1
  <2> QED
    BY <2>0, <2>1, <2>4, <2>5, <2>6
<1>7. \A k \in 1 .. m : /\ q[k - 1] < q[k] /\ HeaderAt(x, q[k - 1], q[k], v[k])
                        /\ H[k] = Heading(x, q, v, k) /\ H[k] # R!Blank
  <2> SUFFICES ASSUME NEW k \in 1 .. m
               PROVE  /\ q[k - 1] < q[k] /\ HeaderAt(x, q[k - 1], q[k], v[k])
                      /\ H[k] = Heading(x, q, v, k) /\ H[k] # R!Blank
    OBVIOUS
  <2>1. q[k - 1] < q[k]
    <3>1. PICK n \in Nat, p \in Nat, e \in Nat : n = Len(G[k].parts) /\ p = q[k - 1] /\ e = q[k] /\ e = p + n /\ n # 0
      BY <1>1
    <3>2. p < e
      BY <3>1
    <3> QED
      BY <3>1, <3>2
  <2>2. HeaderAt(x, q[k - 1], q[k], v[k])
    BY <1>4, <1>6
  <2> QED
    BY <1>6, <2>1, <2>2
<1>8. HeadersAt(x, W, q, v, H, m)
  BY <1>0, <1>2, <1>7 DEF HeadersAt
<1> QED
  BY <1>5, <1>8

(* The status line is the line of a header of its own.                     *)
StatusHeader(code) == [name |-> "HTTP/1.0", parts |-> <<<<code>>>>]

(* The status line is a header of one line.                                *)
LEMMA StatusIsHeader ==
  \A code : IsHeader(StatusHeader(code)) /\ R!HeaderLines(StatusHeader(code)) = <<R!StatusLine(code)>>
<1> TAKE code
<1>1. PICK h, w : h = StatusHeader(code) /\ w = <<code>>
  OBVIOUS
<1>2. h.parts = <<w>> /\ h.name = "HTTP/1.0"
  BY <1>1 DEF StatusHeader
<1>3. Len(<<w>>) = 1 /\ <<w>> = [i \in 1 .. 1 |-> w] /\ DOMAIN <<w>> = 1 .. 1 /\ <<w>>[1] = w /\ <<w>> # <<>>
  OBVIOUS
<1>4. IsSeq(h.parts)
  BY <1>2, <1>3 DEF IsSeq
<1>5. IsSeq(w)
  <2>1. Len(w) = 1 /\ w = [i \in 1 .. 1 |-> w[i]]
    BY <1>1
  <2> QED
    BY <2>1 DEF IsSeq
<1>6. \A j \in DOMAIN h.parts : IsSeq(h.parts[j])
  BY <1>2, <1>3, <1>5
<1>7. h.name # R!Blank.name
  <2>1. R!Blank.name = ""
    BY SMT DEF R!Blank
  <2>2. "HTTP/1.0" # ""
    BY Zenon
  <2> QED
    BY <1>2, <2>1, <2>2, Zenon
<1>8. IsHeader(h)
  BY <1>2, <1>3, <1>4, <1>6, <1>7, Zenon DEF IsHeader
<1>9. R!HeaderLines(h) = <<R!StatusLine(code)>>
  <2>1. ItsLines(R!HeaderLines(h), h, 1)
    BY <1>2, <1>3, <1>8, HeaderHasLines
  <2>2. PICK l : l = R!HeaderLines(h)
    OBVIOUS
  <2>3. IsSeq(l) /\ Len(l) = 1 /\ HeaderLine(l[1], h, 1)
    BY <2>1, <2>2 DEF ItsLines
  <2>4. l[1] = R!StatusLine(code)
    <3>1. l[1] = [folds |-> FALSE, name |-> h.name, words |-> h.parts[1]]
      BY <2>3 DEF HeaderLine
    <3>2. h.parts[1] = w
      BY <1>2, <1>3
    <3> QED
      BY <1>1, <1>2, <3>1, <3>2, Zenon DEF R!StatusLine
  <2>5. PICK s : s = R!StatusLine(code)
    OBVIOUS
  <2>6. l = <<s>>
    BY <2>3, <2>4, <2>5 DEF IsSeq
  <2> QED
    BY <2>2, <2>5, <2>6
<1> QED
  BY <1>1, <1>8, <1>9

(* The headers of an answer, and their lines with the empty one.           *)
AllSent(sent, m) == [k \in 1 .. m |-> IF k = 1 THEN StatusHeader(sent.code) ELSE sent.headers[k - 1]]
LinesOf(G, m) == [k \in 1 .. m + 1 |-> IF k = m + 1 THEN <<R!Blank>> ELSE R!HeaderLines(G[k])]

IsResponse(sent, K) ==
  /\ K \in Nat /\ K = Len(sent.headers) /\ IsSeq(sent.headers) /\ DOMAIN sent.headers = 1 .. K /\ IsSeq(sent.body)
  /\ \A i \in 1 .. K : IsHeader(sent.headers[i])

(* What is assumed of a response.                                          *)
LEMMA ResponseIs == \A sent \in Responses : IsResponse(sent, Len(sent.headers))
<1> SUFFICES ASSUME NEW sent \in Responses PROVE IsResponse(sent, Len(sent.headers))
  OBVIOUS
<1>1. IsSeq(sent.headers) /\ IsSeq(sent.body)
  BY AnswersAssumption, Zenon
<1>2. PICK K : K = Len(sent.headers)
  OBVIOUS
<1>3. K \in Nat /\ DOMAIN sent.headers = 1 .. K
  BY <1>1, <1>2, SeqDomain
<1>4. ASSUME NEW i \in 1 .. K PROVE IsHeader(sent.headers[i])
  <2>1. i \in DOMAIN sent.headers
    BY <1>3
  <2>2. PICK h : h = sent.headers[i]
    OBVIOUS
  <2>3. h.name # "" /\ IsSeq(h.parts) /\ h.parts # <<>> /\ \A j \in DOMAIN h.parts : IsSeq(h.parts[j])
    BY <2>1, <2>2, AnswersAssumption, Zenon
  <2>4. R!Blank.name = ""
    BY SMT DEF R!Blank
  <2> QED
    BY <2>2, <2>3, <2>4, Zenon DEF IsHeader
<1> QED
  BY <1>1, <1>2, <1>3, <1>4 DEF IsResponse

(* How they lie in what was sent.                                          *)
Laid(sent, m, W, q) ==
  /\ Layout(R!HttpSent(sent), W, q, AllSent(sent, m), m)
  /\ q[m] + 1 = Len(R!HeadLines(sent)) /\ q[m] \in Nat
  /\ R!HeadLines(sent) \in Seq(W) /\ sent.body \in Seq(W)

(* The status line and the headers of a response are laid out one behind   *)
(* the other.                                                              *)
LEMMA ResponseIsLaid ==
  ASSUME NEW sent, NEW K, IsResponse(sent, K)
  PROVE  \E W, q : Laid(sent, K + 1, W, q)
<1>0. PICK m \in Nat : m = K + 1 /\ m # 0
  BY DEF IsResponse
<1>k. K \in Nat /\ DOMAIN sent.headers = 1 .. K /\ K = Len(sent.headers)
  BY DEF IsResponse
<1>1. PICK G, s : G = AllSent(sent, m) /\ s = LinesOf(G, m)
  OBVIOUS
<1>2. ASSUME NEW k \in 1 .. m
      PROVE  IsHeader(G[k]) /\ s[k] = R!HeaderLines(G[k]) /\ ItsLines(s[k], G[k], Len(G[k].parts))
  <2>1. G[k] = IF k = 1 THEN StatusHeader(sent.code) ELSE sent.headers[k - 1]
    BY <1>1 DEF AllSent
  <2>2. IsHeader(G[k])
    <3>1. CASE k = 1
      BY <2>1, <3>1, StatusIsHeader
    <3>2. CASE k # 1
      <4>1. k - 1 \in 1 .. K
        BY <1>0, <1>k, <3>2
      <4> QED
        BY <2>1, <3>2, <4>1 DEF IsResponse
    <3> QED
      BY <3>1, <3>2
  <2>3. k \in 1 .. m + 1 /\ k # m + 1
    BY <1>0
  <2>4. s[k] = R!HeaderLines(G[k])
    BY <1>1, <2>3 DEF LinesOf
  <2> QED
    BY <2>2, <2>4, HeaderHasLines
<1>3. s[m + 1] = <<R!Blank>>
  <2>1. m + 1 \in 1 .. m + 1
    BY <1>0
  <2> QED
    BY <1>1, <2>1, Zenon DEF LinesOf
<1>4. PICK W : W = (UNION {{s[k][j] : j \in 1 .. Len(s[k])} : k \in 1 .. m}) \cup {R!Blank}
                      \cup {sent.body[j] : j \in 1 .. Len(sent.body)}
  OBVIOUS
<1>5. sent.body \in Seq(W)
  <2>1. \A j \in 1 .. Len(sent.body) : sent.body[j] \in W
    BY <1>4
  <2>2. IsSeq(sent.body)
    BY DEF IsResponse
  <2> QED
    BY <2>1, <2>2, SeqOf
<1>6. \A k \in 1 .. m + 1 : s[k] \in Seq(W)
  <2> SUFFICES ASSUME NEW k \in 1 .. m + 1 PROVE s[k] \in Seq(W)
    OBVIOUS
  <2>1. CASE k = m + 1
    <3>1. PICK c \in W : c = R!Blank
      BY <1>4
    <3>2. <<c>> \in Seq(W)
      OBVIOUS
    <3> QED
      BY <1>3, <2>1, <3>1, <3>2
  <2>2. CASE k # m + 1
    <3>1. k \in 1 .. m
      BY <1>0, <2>2
    <3>2. IsSeq(s[k])
      BY <1>2, <3>1 DEF ItsLines
    <3>3. PICK y : y = s[k]
      OBVIOUS
    <3>4. \A j \in 1 .. Len(y) : y[j] \in W
      BY <1>4, <3>1, <3>3
    <3> QED
      BY <3>2, <3>3, <3>4, SeqOf
  <2> QED
    BY <2>1, <2>2
<1>7. PICK f : IsFlat(f, s, m + 1, W)
  <2>1. m + 1 \in Nat
    BY <1>0
  <2> QED
    BY <1>6, <2>1, FlatExists, Zenon
<1>8. /\ f[0] = <<>> /\ \A k \in 0 .. m + 1 : f[k] \in Seq(W)
      /\ \A k \in 1 .. m + 1 : Joined(f, s, W, k)
  BY <1>7, Zenon DEF IsFlat
<1>9. \A k \in 1 .. m + 1 : FlatAt(f, s, m + 1, k)
  <2>1. m + 1 \in 0 .. m + 1
    BY <1>0
  <2> QED
    BY <1>7, <2>1, FlatPlaces, Zenon
<1>10. R!HeadLines(sent) = f[m + 1]
  <2>1. PICK t : t = [i \in DOMAIN sent.headers |-> R!HeaderLines(sent.headers[i])]
    OBVIOUS
  <2>2. IsTail(t, K, s, m)
    <3>1. ASSUME NEW k \in 1 .. K PROVE t[k] = s[k + 1]
      <4>1. PICK j \in 1 .. m : j = k + 1 /\ j - 1 = k /\ j # 1
        BY <1>0, <1>k
      <4>2. G[j] = sent.headers[k]
        BY <1>1, <4>1 DEF AllSent
      <4>3. t[k] = R!HeaderLines(sent.headers[k])
        BY <1>k, <2>1
      <4>4. s[j] = R!HeaderLines(G[j])
        BY <1>2
      <4> QED
        BY <4>1, <4>2, <4>3, <4>4
    <3> QED
      BY <1>0, <1>k, <3>1 DEF IsTail
  <2>3. IsFlat(f, s, m, W)
    <3>1. \A k \in 0 .. m : k \in 0 .. m + 1
      BY <1>0
    <3>2. \A k \in 1 .. m : k \in 1 .. m + 1
      BY <1>0
    <3> QED
      BY <1>0, <1>8, <3>1, <3>2, Zenon DEF IsFlat
  <2>4. PICK h : IsFlat(h, t, K, W)
    <3>1. ASSUME NEW k \in 1 .. K PROVE t[k] \in Seq(W)
      <4>1. t[k] = s[k + 1] /\ k + 1 \in 1 .. m + 1
        BY <1>0, <1>k, <2>2 DEF IsTail
      <4> QED
        BY <1>6, <4>1
    <3> QED
      BY <1>k, <3>1, FlatExists, Zenon
  <2>5. HeadAndTail(f, m, s, h, K)
    BY <2>2, <2>3, <2>4, FlatTail, Zenon
  <2>6. R!FlattenSeq(t) = h[K]
    <3>1. Len(t) = K /\ (K = 0 => t = <<>>)
      <4>1. DOMAIN t = 1 .. K
        BY <1>k, <2>1
      <4>2. Len(t) = K
        BY <1>k, <4>1, LengthIs
      <4>3. K = 0 => t = <<>>
        BY <1>k, <2>1
      <4> QED
        BY <4>2, <4>3
    <3> QED
      BY <2>4, <3>1, RFlatten, Zenon
  <2>7. s[1] = <<R!StatusLine(sent.code)>>
    <3>1. 1 \in 1 .. m
      BY <1>0
    <3>2. G[1] = StatusHeader(sent.code)
      BY <1>1, <3>1 DEF AllSent
    <3> QED
      BY <1>2, <3>1, <3>2, StatusIsHeader
  <2>8. R!HeadLines(sent) = f[m] \o <<R!Blank>>
    BY <2>1, <2>5, <2>6, <2>7, Zenon DEF R!HeadLines, HeadAndTail
  <2>9. f[m + 1] = f[m] \o s[m + 1]
    <3>1. PICK q \in 1 .. m + 1 : q = m + 1 /\ q - 1 = m
      BY <1>0
    <3>2. Joined(f, s, W, q)
      BY <1>8
    <3> QED
      BY <3>1, <3>2 DEF Joined
  <2> QED
    BY <1>3, <2>8, <2>9, Zenon
<1>11. PICK l \in Seq(W), z \in Seq(W) : l = f[m + 1] /\ z = sent.body /\ l \in Seq(W) /\ z \in Seq(W)
  <2>1. m + 1 \in 0 .. m + 1
    BY <1>0
  <2> QED
    BY <1>5, <1>8, <2>1
<1>12. PICK x \in Seq(W) : x = l \o z
  <2>1. l \o z \in Seq(W)
    BY <1>11
  <2> QED
    BY <2>1
<1>13. Len(x) = Len(l) + Len(z) /\ Len(l) \in Nat /\ Len(z) \in Nat /\ \A i \in 1 .. Len(l) : x[i] = l[i]
  BY <1>12
<1>14. PICK q : q = [k \in 0 .. m |-> Len(f[k])]
  OBVIOUS
<1>15. \A k \in 0 .. m : q[k] \in Nat /\ q[k] = Len(f[k])
  <2> SUFFICES ASSUME NEW k \in 0 .. m PROVE q[k] \in Nat /\ q[k] = Len(f[k])
    OBVIOUS
  <2>1. k \in 0 .. m + 1
    BY <1>0
  <2>2. f[k] \in Seq(W)
    BY <1>8, <2>1
  <2>3. Len(f[k]) \in Nat
    BY <2>2
  <2> QED
    BY <1>14, <2>3
<1>16. q[m] + 1 = Len(l) /\ x[q[m] + 1] = R!Blank
  <2>1. PICK r \in 1 .. m + 1 : r = m + 1 /\ r - 1 = m
    BY <1>0
  <2>2. FlatAt(f, s, m + 1, r)
    BY <1>9
  <2>3. PICK c : c = R!Blank /\ s[r] = <<c>>
    BY <1>3, <2>1
  <2>4. Len(<<c>>) = 1 /\ <<c>>[1] = c /\ 1 \in 1 .. 1
    OBVIOUS
  <2>5. m \in 0 .. m
    BY <1>0
  <2>6. Len(l) = q[m] + 1 /\ l[q[m] + 1] = c
    BY <1>11, <1>15, <2>1, <2>2, <2>3, <2>4, <2>5 DEF FlatAt
  <2>7. q[m] + 1 \in 1 .. Len(l)
    BY <1>15, <2>5, <2>6
  <2> QED
    BY <1>13, <2>3, <2>6, <2>7
<1>17. ASSUME NEW k \in 1 .. m PROVE IsHeader(G[k]) /\ StandsAt(x, q[k - 1], q[k], G[k])
  <2>0. PICK p, e, n : p = q[k - 1] /\ e = q[k] /\ n = Len(G[k].parts)
    OBVIOUS
  <2>1. IsHeader(G[k]) /\ ItsLines(s[k], G[k], n)
    BY <1>2, <2>0
  <2>2. k \in 1 .. m + 1 /\ k \in 0 .. m /\ k - 1 \in 0 .. m /\ m \in 0 .. m
    BY <1>0
  <2>3. FlatAt(f, s, m + 1, k)
    BY <1>9, <2>2
  <2>4. n \in Nat /\ Len(s[k]) = n /\ \A j \in 1 .. n : HeaderLine(s[k][j], G[k], j)
    BY <2>1 DEF ItsLines
  <2>5. p \in Nat /\ e \in Nat /\ p = Len(f[k - 1]) /\ e = Len(f[k])
    BY <1>15, <2>0, <2>2
  <2>6. e = p + n /\ e <= Len(l) /\ \A j \in 1 .. n : l[p + j] = s[k][j]
    BY <1>11, <2>3, <2>4, <2>5 DEF FlatAt
  <2>7. e < Len(l)
    <3>1. \A i \in 1 .. m + 1 : Len(f[i]) \in Nat
      BY <1>8
    <3>2. FlatAt(f, s, m, k)
      <4>1. m \in 0 .. m + 1
        BY <1>0
      <4> QED
        BY <1>7, <4>1, FlatPlaces, Zenon
    <3>3. e <= q[m] /\ q[m] \in Nat
      BY <1>15, <2>2, <2>5, <3>2 DEF FlatAt
    <3> QED
      BY <1>13, <1>16, <2>5, <3>3
  <2>8. \A j \in 1 .. n : p + j \in 1 .. Len(l)
    BY <1>13, <2>4, <2>5, <2>6
  <2>9. \A j \in 1 .. n : x[p + j] = s[k][j]
    BY <1>13, <2>6, <2>8
  <2>10. e < Len(x)
    BY <1>13, <2>5, <2>7
  <2>11. \A j \in 1 .. n : HeaderLine(x[p + j], G[k], j)
    BY <2>4, <2>9
  <2>12. StandsAt(x, p, e, G[k])
    BY <2>0, <2>5, <2>6, <2>10, <2>11 DEF StandsAt
  <2> QED
    BY <2>0, <2>1, <2>12
<1>18. q[0] = 0
  <2>1. 0 \in 0 .. m /\ Len(<<>>) = 0
    BY <1>0
  <2> QED
    BY <1>8, <1>15, <2>1
<1>19. Layout(x, W, q, G, m)
  <2>1. q[m] < Len(x)
    <3>1. m \in 0 .. m
      BY <1>0
    <3>2. q[m] \in Nat
      BY <1>15, <3>1
    <3> QED
      BY <1>13, <1>16, <3>2
  <2> QED
    BY <1>0, <1>12, <1>16, <1>17, <1>18, <2>1 DEF Layout
<1>20. R!HttpSent(sent) = x
  BY <1>10, <1>11, <1>12, Zenon DEF R!HttpSent
<1>21. q[m] \in Nat
  <2>1. m \in 0 .. m
    BY <1>0
  <2> QED
    BY <1>15, <2>1
<1>22. Laid(sent, m, W, q)
  BY <1>1, <1>10, <1>11, <1>16, <1>19, <1>20, <1>21 DEF Laid
<1> QED
  BY <1>0, <1>22

(* What the first value does not say, the first of the others does.        *)
Shifted(none, g, h, K) == K \in Nat /\ g[1] = none /\ \A i \in 1 .. K : h[i] = g[i + 1]
SameFirst(none, g, h, K) == First(none, g, K + 1) = First(none, h, K)

(* The first value is found as well behind one more that says nothing.     *)
LEMMA FirstShifted == \A none, g, h, K : Shifted(none, g, h, K) => SameFirst(none, g, h, K)
<1> TAKE none, g, h, K
<1> HAVE Shifted(none, g, h, K)
<1>0. K \in Nat /\ g[1] = none /\ \A i \in 1 .. K : h[i] = g[i + 1]
  BY DEF Shifted
<1> DEFINE P == {k \in Nat : k <= K => First(none, g, k + 1) = First(none, h, k)}
<1>1. 0 \in P
  <2>1. PICK k \in Nat \ {0} : k = 1 /\ k - 1 = 0
    OBVIOUS
  <2>2. First(none, h, 0) = none /\ First(none, g, 0) = none
    BY <2>1, FirstNext
  <2>3. First(none, g, k) = IF First(none, g, k - 1) = none THEN g[k] ELSE First(none, g, k - 1)
    <3>1. k \in Nat \ {0}
      OBVIOUS
    <3>2. \A c, d : First(c, d, k) = IF First(c, d, k - 1) = c THEN d[k] ELSE First(c, d, k - 1)
      BY <3>1, FirstNext, ZenonT(60)
    <3> QED
      BY <3>2, Zenon
  <2>4. First(none, g, 0 + 1) = none
    BY <1>0, <2>1, <2>2, <2>3
  <2> QED
    BY <2>2, <2>4
<1>2. ASSUME NEW k \in Nat, k \in P PROVE k + 1 \in P
  <2> SUFFICES ASSUME k + 1 <= K PROVE First(none, g, k + 1 + 1) = First(none, h, k + 1)
    OBVIOUS
  <2>1. PICK i \in Nat \ {0}, j \in Nat \ {0} : i = k + 1 /\ j = i + 1 /\ i - 1 = k /\ j - 1 = i
    OBVIOUS
  <2>2. First(none, g, j) = IF First(none, g, j - 1) = none THEN g[j] ELSE First(none, g, j - 1)
    BY FirstNext
  <2>3. First(none, h, i) = IF First(none, h, i - 1) = none THEN h[i] ELSE First(none, h, i - 1)
    BY FirstNext
  <2>4. First(none, g, i) = First(none, h, k) /\ h[i] = g[j]
    BY <1>0, <1>2, <2>1
  <2>5. First(none, g, j) = First(none, h, i)
    BY <2>1, <2>2, <2>3, <2>4
  <2> QED
    BY <2>1, <2>5
<1>3. K \in P
  <2> HIDE DEF P
  <2> QED
    BY <1>0, <1>1, <1>2, NatInductive
<1> QED
  BY <1>3 DEF SameFirst

(* What the fields of a header are.                                        *)
LEMMA FieldsOfHeader ==
  \A h, v :
    /\ R!GetLen(HeaderOf(h, v)) = IF h.name = "Content-Length:" /\ v # <<>> THEN R!Length(v) ELSE -1
    /\ R!GetAcceptRanges(HeaderOf(h, v)) =
         IF h.name # "Accept-Ranges:" THEN -1 ELSE IF R!Contains(v, "none") THEN 0 ELSE 1
    /\ R!GetLocation(HeaderOf(h, v)) = IF h.name = "Location:" THEN v ELSE <<"none">>
    /\ R!ParseStatLine(HeaderOf(h, v)) = IF h.name = "HTTP/1.0" THEN v[1] ELSE -1
<1> TAKE h, v
<1>1. PICK w : w = h.name
  OBVIOUS
<1>2. PICK r : r = HeaderOf(h, v)
  OBVIOUS
<1>3. r = [folds |-> FALSE, name |-> w, words |-> v]
  BY <1>1, <1>2 DEF HeaderOf
<1>4. r.name = w /\ r.words = v
  BY <1>3
<1> QED
  BY <1>1, <1>2, <1>4, Zenon DEF R!GetLen, R!GetAcceptRanges, R!GetLocation, R!ParseStatLine

(* The status line says nothing else.                                      *)
LEMMA StatusSays ==
  \A code :
    LET h == HeaderOf(StatusHeader(code), R!ValueOf(StatusHeader(code)))
    IN /\ R!GetLen(h) = -1 /\ R!GetAcceptRanges(h) = -1 /\ R!GetLocation(h) = <<"none">>
       /\ R!ParseStatLine(h) = code
<1> TAKE code
<1>1. PICK g, v : g = StatusHeader(code) /\ v = R!ValueOf(g)
  OBVIOUS
<1>2. g.name = "HTTP/1.0" /\ g.parts = <<<<code>>>>
  BY <1>1 DEF StatusHeader
<1>3. v = <<code>>
  <2>1. PICK s, V : s = <<<<code>>>> /\ V = {code}
    OBVIOUS
  <2>2. Len(s) = 1 /\ s[1] \in Seq(V) /\ s[1] = <<code>>
    BY <2>1
  <2>3. \A k \in 1 .. 1 : s[k] \in Seq(V)
    <3>1. \A k \in 1 .. 1 : k = 1
      OBVIOUS
    <3> QED
      BY <2>2, <3>1, Zenon
  <2>4. PICK f : IsFlat(f, s, 1, V)
    <3>1. 1 \in Nat
      OBVIOUS
    <3> QED
      BY <2>3, <3>1, FlatExists, Zenon
  <2>5. f[0] = <<>> /\ Joined(f, s, V, 1) /\ 1 - 1 = 0
    <3>1. 1 \in 1 .. 1 /\ 1 - 1 = 0
      OBVIOUS
    <3> QED
      BY <2>4, <3>1, Zenon DEF IsFlat
  <2>6. f[1] = <<>> \o s[1]
    BY <2>5 DEF Joined
  <2>7. <<>> \o s[1] = s[1]
    BY <2>2
  <2>8. 1 = Len(s) /\ (1 = 0 => s = <<>>)
    BY <2>2
  <2>9. R!FlattenSeq(s) = f[1]
    BY <2>4, <2>8, RFlatten, Zenon
  <2> QED
    BY <1>1, <1>2, <2>1, <2>2, <2>6, <2>7, <2>9, Zenon DEF R!ValueOf
<1>4. PICK h : h = HeaderOf(g, v)
  OBVIOUS
<1>5. g.name # "Content-Length:" /\ g.name # "Accept-Ranges:" /\ g.name # "Location:"
  BY <1>2, Zenon
<1>6. R!GetLen(h) = -1 /\ R!GetAcceptRanges(h) = -1 /\ R!GetLocation(h) = <<"none">>
  BY <1>4, <1>5, FieldsOfHeader, Zenon
<1>7. R!ParseStatLine(h) = v[1]
  BY <1>2, <1>4, FieldsOfHeader, Zenon
<1>8. v[1] = code
  BY <1>3
<1> QED
  BY <1>1, <1>4, <1>6, <1>7, <1>8

(* What is said of a field is what the first header says that does.        *)
Values(sent, K) == [i \in 1 .. K |-> R!ValueOf(sent.headers[i])]
HeaderFields(sent, K) == [i \in 1 .. K |-> HeaderOf(sent.headers[i], Values(sent, K)[i])]

(* What is noted at the end is, of each kind, the first that a header      *)
(* says.                                                                   *)
LEMMA FieldsAreThose ==
  \A sent, K, H, m :
    K \in Nat /\ m = K + 1 /\ H = AllHeaders(AllSent(sent, m), m)
    => /\ R!ParseStatLine(H[1]) = sent.code
       /\ FieldsAfter(H, m, m).contlen = First(-1, AllLens(HeaderFields(sent, K), K), K)
       /\ FieldsAfter(H, m, m).accept = First(-1, AllRanges(HeaderFields(sent, K), K), K)
       /\ FieldsAfter(H, m, m).newloc = First(<<"none">>, AllPlaces(HeaderFields(sent, K), K), K)
<1> TAKE sent, K, H, m
<1> HAVE K \in Nat /\ m = K + 1 /\ H = AllHeaders(AllSent(sent, m), m)
<1>1. K \in Nat /\ m = K + 1 /\ m \in Nat /\ m # 0 /\ 1 \in 1 .. m
  OBVIOUS
<1>2. PICK G, J : G = AllSent(sent, m) /\ J = HeaderFields(sent, K)
  OBVIOUS
<1>3. H[1] = HeaderOf(StatusHeader(sent.code), R!ValueOf(StatusHeader(sent.code)))
  BY <1>1, <1>2 DEF AllHeaders, AllSent
<1>4. ASSUME NEW i \in 1 .. K PROVE J[i] = H[i + 1]
  <2>1. PICK j \in 1 .. m : j = i + 1 /\ j - 1 = i /\ j # 1
    BY <1>1
  <2>2. G[j] = sent.headers[i]
    BY <1>2, <2>1 DEF AllSent
  <2>3. H[j] = HeaderOf(sent.headers[i], R!ValueOf(sent.headers[i]))
    BY <1>2, <2>2 DEF AllHeaders
  <2>4. J[i] = HeaderOf(sent.headers[i], R!ValueOf(sent.headers[i]))
    BY <1>2 DEF HeaderFields, Values
  <2> QED
    BY <2>1, <2>3, <2>4
<1>5. PICK gl, ga, gp, hl, ha, hp :
        /\ gl = AllLens(H, m) /\ ga = AllRanges(H, m) /\ gp = AllPlaces(H, m)
        /\ hl = AllLens(J, K) /\ ha = AllRanges(J, K) /\ hp = AllPlaces(J, K)
  OBVIOUS
<1>6. gl[1] = -1 /\ ga[1] = -1 /\ gp[1] = <<"none">> /\ R!ParseStatLine(H[1]) = sent.code
  <2>1. gl[1] = R!GetLen(H[1]) /\ ga[1] = R!GetAcceptRanges(H[1]) /\ gp[1] = R!GetLocation(H[1])
    BY <1>1, <1>5, Zenon DEF AllLens, AllRanges, AllPlaces
  <2> QED
    BY <1>3, <2>1, StatusSays, Zenon
<1>7. ASSUME NEW i \in 1 .. K PROVE hl[i] = gl[i + 1] /\ ha[i] = ga[i + 1] /\ hp[i] = gp[i + 1]
  <2>1. PICK j \in 1 .. m : j = i + 1
    BY <1>1
  <2>2. J[i] = H[j]
    BY <1>4, <2>1
  <2>3. hl[i] = gl[j] /\ ha[i] = ga[j] /\ hp[i] = gp[j]
    BY <1>5, <2>2, Zenon DEF AllLens, AllRanges, AllPlaces
  <2> QED
    BY <2>1, <2>3
<1>8. Shifted(-1, gl, hl, K) /\ Shifted(-1, ga, ha, K) /\ Shifted(<<"none">>, gp, hp, K)
  BY <1>1, <1>6, <1>7, Zenon DEF Shifted
<1>9. SameFirst(-1, gl, hl, K) /\ SameFirst(-1, ga, ha, K) /\ SameFirst(<<"none">>, gp, hp, K)
  BY <1>8, FirstShifted, Zenon
<1>10. First(-1, gl, m) = First(-1, hl, K) /\ First(-1, ga, m) = First(-1, ha, K)
       /\ First(<<"none">>, gp, m) = First(<<"none">>, hp, K)
  BY <1>1, <1>9, Zenon DEF SameFirst
<1>11. PICK F : F = FieldsAfter(H, m, m)
  OBVIOUS
<1>12. F.contlen = First(-1, gl, m) /\ F.accept = First(-1, ga, m) /\ F.newloc = First(<<"none">>, gp, m)
  BY <1>5, <1>11 DEF FieldsAfter
<1> QED
  BY <1>2, <1>5, <1>6, <1>10, <1>11, <1>12, Zenon

(* A header's value is a sequence.                                         *)
LEMMA ValueIsSeq == \A h : IsHeader(h) => \E V : R!ValueOf(h) \in Seq(V)
<1> TAKE h
<1> HAVE IsHeader(h)
<1>1. PICK n \in Nat : n = Len(h.parts) /\ n # 0 /\ DOMAIN h.parts = 1 .. n
  BY HeaderHasLines DEF ItsLines
<1>2. PICK V : V = UNION {{h.parts[j][i] : i \in 1 .. Len(h.parts[j])} : j \in 1 .. n}
  OBVIOUS
<1>3. ASSUME NEW j \in 1 .. n PROVE h.parts[j] \in Seq(V)
  <2>1. IsSeq(h.parts[j])
    BY <1>1 DEF IsHeader
  <2>2. PICK y : y = h.parts[j]
    OBVIOUS
  <2>3. \A i \in 1 .. Len(y) : y[i] \in V
    BY <1>2, <2>2
  <2> QED
    BY <2>1, <2>2, <2>3, SeqOf
<1>4. PICK f : IsFlat(f, h.parts, n, V)
  BY <1>3, FlatExists, Zenon
<1>5. R!ValueOf(h) = f[n]
  BY <1>1, <1>4, RFlatten, Zenon DEF R!ValueOf
<1>6. f[n] \in Seq(V)
  <2>1. n \in 0 .. n
    OBVIOUS
  <2> QED
    BY <1>4, <2>1, Zenon DEF IsFlat
<1> QED
  BY <1>5, <1>6

(* The fields that ReadsHeaders asks for.                                  *)
Lengths(sent) ==
  {i \in R!Said(sent, "Content-Length:") :
     R!ValueOf(sent.headers[i]) # <<>> /\ R!Number(Head(R!ValueOf(sent.headers[i]))) # -1}
ContLen(sent) ==
  IF Lengths(sent) = {} THEN -1 ELSE R!Length(R!ValueOf(sent.headers[R!Min(Lengths(sent))]))
Accept(sent) ==
  LET ranges == R!Said(sent, "Accept-Ranges:")
  IN IF ranges = {} THEN -1 ELSE IF R!Contains(R!ValueOf(sent.headers[R!Min(ranges)]), "none") THEN 0 ELSE 1
NewLoc(sent) ==
  LET location == R!Said(sent, "Location:")
  IN IF location = {} THEN <<"none">> ELSE R!ValueOf(sent.headers[R!Min(location)])

(* The first length, where the process does not die of it, and where it    *)
(* does.                                                                   *)
LenAsIs(sent) ==
  IF Lengths(sent) = {} THEN -1 ELSE R!Number(Head(R!ValueOf(sent.headers[R!Min(Lengths(sent))])))
Deadly(sent) ==
  Debugging /\ Lengths(sent) # {} /\ Len(R!ValueOf(sent.headers[R!Min(Lengths(sent))])) > 1

(* The process dies of a length that is followed by anything (hgetlen).    *)
LEMMA DeadlyIs ==
  ASSUME NEW sent \in Responses
  PROVE  /\ Deadly(sent) <=> ContLen(sent) = R!Dies
         /\ ~Deadly(sent) => ContLen(sent) = LenAsIs(sent)
<1>1. PICK I : I = Lengths(sent)
  OBVIOUS
<1>2. CASE I = {}
  <2>1. ContLen(sent) = -1 /\ LenAsIs(sent) = -1 /\ ~Deadly(sent)
    BY <1>1, <1>2, Zenon DEF ContLen, LenAsIs, Deadly
  <2> QED
    BY <2>1 DEF R!Dies
<1>3. CASE I # {}
  <2>0. PICK K : IsResponse(sent, K) /\ K \in Nat /\ DOMAIN sent.headers = 1 .. K
    BY ResponseIs DEF IsResponse
  <2>1. I \subseteq Nat /\ I \subseteq 1 .. K
    BY <1>1, <2>0 DEF Lengths, R!Said
  <2>2. PICK i \in I : i = R!Min(I)
    BY <1>3, <2>1, MinIs, Zenon
  <2>3. PICK v : v = R!ValueOf(sent.headers[i]) /\ v # <<>> /\ R!Number(Head(v)) # -1
    BY <1>1 DEF Lengths
  <2>4. Head(v) = v[1] /\ Len(v) \in Nat
    <3>1. PICK V : v \in Seq(V)
      BY <2>0, <2>1, <2>3, ValueIsSeq DEF IsResponse
    <3> QED
      BY <2>3, <3>1
  <2>5. ContLen(sent) = R!Length(v) /\ LenAsIs(sent) = R!Number(v[1])
    BY <1>1, <1>3, <2>2, <2>3, <2>4, Zenon DEF ContLen, LenAsIs
  <2>6. Deadly(sent) <=> Debugging /\ Len(v) > 1
    BY <1>1, <1>3, <2>2, <2>3 DEF Deadly
  <2>7. PICK N : N = R!Number(v[1]) /\ N \in {-1, 0, 7}
    <3>1. \A w : R!Number(w) \in {-1, 0, 7}
      BY DEF R!Number
    <3> QED
      BY <3>1
  <2>8. R!Length(v) = IF Debugging /\ Len(v) > 1 THEN -2 ELSE N
    BY <2>3, <2>4, <2>7 DEF R!Length, R!Dies
  <2> QED
    BY <2>5, <2>6, <2>7, <2>8 DEF R!Dies
<1> QED
  BY <1>2, <1>3

(* The first length that a header gives is the response's.                 *)
LEMMA FirstLength ==
  \A sent, K : IsResponse(sent, K) => First(-1, AllLens(HeaderFields(sent, K), K), K) = ContLen(sent)
<1> TAKE sent, K
<1> HAVE IsResponse(sent, K)
<1>0. K \in Nat /\ DOMAIN sent.headers = 1 .. K
  BY DEF IsResponse
<1>1. PICK g, I : g = AllLens(HeaderFields(sent, K), K) /\ I = Lengths(sent)
  OBVIOUS
<1>2. ASSUME NEW i \in 1 .. K
      PROVE  /\ i \in I <=> g[i] # -1
             /\ i \in I => g[i] = R!Length(R!ValueOf(sent.headers[i]))
  <2>1. PICK h, v : h = sent.headers[i] /\ v = R!ValueOf(h)
    OBVIOUS
  <2>2. g[i] = R!GetLen(HeaderOf(h, v))
    BY <1>1, <2>1, Zenon DEF AllLens, HeaderFields, Values
  <2>3. g[i] = IF h.name = "Content-Length:" /\ v # <<>> THEN R!Length(v) ELSE -1
    BY <2>2, FieldsOfHeader, Zenon
  <2>l. R!Length(v) = -1 <=> R!Number(v[1]) = -1
    <3>1. PICK N : N = R!Number(v[1])
      OBVIOUS
    <3> QED
      BY <3>1 DEF R!Length, R!Dies
  <2>4. v # <<>> => Head(v) = v[1]
    <3>1. PICK V : v \in Seq(V)
      BY <2>1, ValueIsSeq DEF IsResponse
    <3> QED
      BY <3>1
  <2>5. i \in I <=> h.name = "Content-Length:" /\ v # <<>> /\ R!Number(Head(v)) # -1
    BY <1>0, <1>1, <2>1, Zenon DEF Lengths, R!Said
  <2> QED
    BY <2>1, <2>3, <2>4, <2>5, <2>l, Zenon
<1>3. I \subseteq 1 .. K
  BY <1>0, <1>1, Zenon DEF Lengths, R!Said
<1>4. Sayers(-1, g, K) = I
  BY <1>2, <1>3 DEF Sayers
<1>5. CASE I = {}
  BY <1>1, <1>4, <1>5, Zenon DEF First, ContLen
<1>6. CASE I # {}
  <2>1. I \subseteq Nat
    BY <1>0, <1>3
  <2>2. R!Min(I) \in I
    BY <1>6, <2>1, MinIs, Zenon
  <2>3. g[R!Min(I)] = R!Length(R!ValueOf(sent.headers[R!Min(I)]))
    BY <1>2, <1>3, <2>2, Zenon
  <2> QED
    BY <1>1, <1>4, <1>6, <2>3, Zenon DEF First, ContLen
<1> QED
  BY <1>5, <1>6

(* The first word on ranges is the response's.                             *)
LEMMA FirstAccept ==
  \A sent, K : IsResponse(sent, K) => First(-1, AllRanges(HeaderFields(sent, K), K), K) = Accept(sent)
<1> TAKE sent, K
<1> HAVE IsResponse(sent, K)
<1>0. K \in Nat /\ DOMAIN sent.headers = 1 .. K
  BY DEF IsResponse
<1>1. PICK g, I : g = AllRanges(HeaderFields(sent, K), K) /\ I = R!Said(sent, "Accept-Ranges:")
  OBVIOUS
<1>m. 0 # -1 /\ 1 # -1
  OBVIOUS
<1>2. ASSUME NEW i \in 1 .. K
      PROVE  /\ i \in I <=> g[i] # -1
             /\ i \in I => g[i] = IF R!Contains(R!ValueOf(sent.headers[i]), "none") THEN 0 ELSE 1
  <2>1. PICK h, v : h = sent.headers[i] /\ v = R!ValueOf(h)
    OBVIOUS
  <2>2. g[i] = R!GetAcceptRanges(HeaderOf(h, v))
    BY <1>1, <2>1, Zenon DEF AllRanges, HeaderFields, Values
  <2>3. g[i] = IF h.name # "Accept-Ranges:" THEN -1 ELSE IF R!Contains(v, "none") THEN 0 ELSE 1
    BY <2>2, FieldsOfHeader, Zenon
  <2>5. i \in I <=> h.name = "Accept-Ranges:"
    BY <1>0, <1>1, <2>1, Zenon DEF R!Said
  <2> QED
    BY <1>m, <2>1, <2>3, <2>5, Zenon
<1>3. I \subseteq 1 .. K
  BY <1>0, <1>1, Zenon DEF R!Said
<1>4. Sayers(-1, g, K) = I
  BY <1>2, <1>3 DEF Sayers
<1>5. CASE I = {}
  BY <1>1, <1>4, <1>5, Zenon DEF First, Accept
<1>6. CASE I # {}
  <2>1. I \subseteq Nat
    BY <1>0, <1>3
  <2>2. R!Min(I) \in I
    BY <1>6, <2>1, MinIs, Zenon
  <2>3. g[R!Min(I)] = IF R!Contains(R!ValueOf(sent.headers[R!Min(I)]), "none") THEN 0 ELSE 1
    BY <1>2, <1>3, <2>2, Zenon
  <2> QED
    BY <1>1, <1>4, <1>6, <2>3, Zenon DEF First, Accept
<1> QED
  BY <1>5, <1>6

(* The first location is the response's.                                   *)
LEMMA FirstPlace ==
  \A sent \in Responses : \A K : 
    IsResponse(sent, K) => First(<<"none">>, AllPlaces(HeaderFields(sent, K), K), K) = NewLoc(sent)
<1> TAKE sent \in Responses
<1> TAKE K
<1> HAVE IsResponse(sent, K)
<1>0. K \in Nat /\ DOMAIN sent.headers = 1 .. K
  BY DEF IsResponse
<1>1. PICK g, I : g = AllPlaces(HeaderFields(sent, K), K) /\ I = R!Said(sent, "Location:")
  OBVIOUS
<1>2. ASSUME NEW i \in 1 .. K
      PROVE  /\ i \in I <=> g[i] # <<"none">>
             /\ i \in I => g[i] = R!ValueOf(sent.headers[i])
  <2>1. PICK h, v : h = sent.headers[i] /\ v = R!ValueOf(h)
    OBVIOUS
  <2>2. g[i] = R!GetLocation(HeaderOf(h, v))
    BY <1>1, <2>1, Zenon DEF AllPlaces, HeaderFields, Values
  <2>3. g[i] = IF h.name = "Location:" THEN v ELSE <<"none">>
    BY <2>2, FieldsOfHeader, Zenon
  <2>4. h.name = "Location:" => v # <<"none">>
    <3>1. i \in DOMAIN sent.headers
      BY <1>0
    <3> QED
      BY <2>1, <3>1, AnswersAssumption, Zenon
  <2>5. i \in I <=> h.name = "Location:"
    BY <1>0, <1>1, <2>1, Zenon DEF R!Said
  <2> QED
    BY <2>1, <2>3, <2>4, <2>5, Zenon
<1>3. I \subseteq 1 .. K
  BY <1>0, <1>1, Zenon DEF R!Said
<1>4. Sayers(<<"none">>, g, K) = I
  BY <1>2, <1>3 DEF Sayers
<1>5. CASE I = {}
  BY <1>1, <1>4, <1>5, Zenon DEF First, NewLoc
<1>6. CASE I # {}
  <2>1. I \subseteq Nat
    BY <1>0, <1>3
  <2>2. R!Min(I) \in I
    BY <1>6, <2>1, MinIs, Zenon
  <2>3. g[R!Min(I)] = R!ValueOf(sent.headers[R!Min(I)])
    BY <1>2, <1>3, <2>2, Zenon
  <2> QED
    BY <1>1, <1>4, <1>6, <2>3, Zenon DEF First, NewLoc
<1> QED
  BY <1>5, <1>6

(* The headers of a response are read to the empty line, neither less nor  *)
(* further, and those that were cut short are an error                     *)
(* (http_fetch_headers).                                                   *)
LEMMA HeadersAreReadWhole ==
  ASSUME NEW sent \in Responses, NEW n \in 0 .. Len(R!HttpSent(sent)), NEW stream, stream.lines = R!HttpLines(sent, n)
  PROVE  R!ReadsHeaders(sent, n, R!HttpFetchHeaders(stream))
<1>0. PICK K, m \in Nat : IsResponse(sent, K) /\ K \in Nat /\ m = K + 1
  <2>1. PICK K : IsResponse(sent, K) /\ K \in Nat
    BY ResponseIs DEF IsResponse
  <2>2. K + 1 \in Nat
    BY <2>1
  <2> QED
    BY <2>1, <2>2
<1>1. PICK W, q : Laid(sent, m, W, q)
  BY <1>0, ResponseIsLaid
<1>2. PICK x \in Seq(W), l \in Seq(W), z \in Seq(W) :
        x = R!HttpSent(sent) /\ l = R!HeadLines(sent) /\ z = sent.body /\ x = l \o z /\ q[m] + 1 = Len(l) /\ q[m] \in Nat
  <2>1. R!HttpSent(sent) \in Seq(W)
    BY <1>1 DEF Laid, Layout
  <2>2. R!HttpSent(sent) = R!HeadLines(sent) \o sent.body
    BY Zenon DEF R!HttpSent
  <2> QED
    BY <1>1, <2>1, <2>2 DEF Laid
<1>3. PICK v, H : H = AllHeaders(AllSent(sent, m), m) /\ HeadersAt(x, W, q, v, H, m)
  <2>1. Layout(x, W, q, AllSent(sent, m), m)
    BY <1>1, <1>2 DEF Laid
  <2> QED
    BY <2>1, LayoutIs
<1>4. PICK r, F : r = R!ReadHeaders(stream) /\ F = FieldsAfter(H, m, m)
  OBVIOUS
<1>5. HeadersRead(x, q, H, m, n, r)
  <2>1. stream.lines = SubSeq(x, 1, n) /\ n \in 0 .. Len(x)
    BY <1>2 DEF R!HttpLines
  <2> QED
    BY <1>3, <1>4, <2>1, HeadersAreRead, Zenon
<1>6. /\ R!ParseStatLine(H[1]) = sent.code
      /\ F.contlen = ContLen(sent) /\ F.accept = Accept(sent) /\ F.newloc = NewLoc(sent)
  <2>1. PICK J : J = HeaderFields(sent, K)
    OBVIOUS
  <2>2. First(-1, AllLens(J, K), K) = ContLen(sent) /\ First(-1, AllRanges(J, K), K) = Accept(sent)
    BY <1>0, <2>1, FirstLength, FirstAccept, Zenon
  <2>3. First(<<"none">>, AllPlaces(J, K), K) = NewLoc(sent)
    BY <1>0, <2>1, FirstPlace, Zenon
  <2>4. /\ R!ParseStatLine(H[1]) = sent.code
        /\ F.contlen = First(-1, AllLens(J, K), K) /\ F.accept = First(-1, AllRanges(J, K), K)
        /\ F.newloc = First(<<"none">>, AllPlaces(J, K), K)
    <3>1. K \in Nat /\ m = K + 1 /\ H = AllHeaders(AllSent(sent, m), m)
      BY <1>0, <1>3
    <3>2. /\ R!ParseStatLine(H[1]) = sent.code
          /\ FieldsAfter(H, m, m).contlen = First(-1, AllLens(HeaderFields(sent, K), K), K)
          /\ FieldsAfter(H, m, m).accept = First(-1, AllRanges(HeaderFields(sent, K), K), K)
          /\ FieldsAfter(H, m, m).newloc = First(<<"none">>, AllPlaces(HeaderFields(sent, K), K), K)
      BY <3>1, FieldsAreThose, ZenonT(60)
    <3>3. F = FieldsAfter(H, m, m) /\ J = HeaderFields(sent, K)
      BY <1>4, <2>1
    <3> QED
      BY <3>2, <3>3
  <2> QED
    BY <2>2, <2>3, <2>4, Zenon
<1>7. n \in Nat /\ Len(l) \in Nat /\ Len(z) \in Nat /\ n <= Len(l) + Len(z)
  <2>1. Len(x) = Len(l) + Len(z) /\ Len(l) \in Nat /\ Len(z) \in Nat
    BY <1>2
  <2> QED
    BY <1>2, <2>1
<1>f. PICK ans : ans = R!HttpFetchHeaders(stream)
  OBVIOUS
<1>g. ans = IF r.fields.contlen = R!Dies THEN [err |-> "DIES"] ELSE r
  BY <1>4, <1>f DEF R!HttpFetchHeaders
<1>d. Deadly(sent) <=> ContLen(sent) = R!Dies
  BY DeadlyIs
<1>8. CASE n < Len(l)
  <2>1. n <= q[m]
    BY <1>2, <1>7, <1>8
  <2>2. PICK k \in 1 .. m : r.err \in {"HEOF", "HERR"} /\ r.fields = FieldsAfter(H, m, k - 1)
    BY <1>5, <2>1 DEF HeadersRead
  <2>3. r.fields.contlen = R!Dies => F.contlen = R!Dies
    <3>1. PICK g : g = AllLens(H, m)
      OBVIOUS
    <3>2. F.contlen = First(-1, g, m) /\ r.fields.contlen = First(-1, g, k - 1)
      BY <1>4, <2>2, <3>1 DEF FieldsAfter
    <3>3. R!Dies # -1
      BY DEF R!Dies
    <3>4. k - 1 \in Nat /\ k - 1 <= m
      BY <1>0
    <3> QED
      BY <1>0, <3>2, <3>3, <3>4, FirstStays, Zenon
  <2>4. ans.err \in {"HEOF", "HERR"} \/ (Deadly(sent) /\ ans.err = "DIES")
    <3>1. CASE r.fields.contlen = R!Dies
      <4>1. ans = [err |-> "DIES"]
        BY <1>g, <3>1
      <4>2. ans.err = "DIES"
        BY <4>1
      <4> QED
        BY <1>6, <1>d, <2>3, <3>1, <4>2
    <3>2. CASE r.fields.contlen # R!Dies
      BY <1>g, <2>2, <3>2
    <3> QED
      BY <3>1, <3>2
  <2> QED
    BY <1>2, <1>f, <1>8, <2>4, Zenon DEF R!ReadsHeaders, Deadly, Lengths
<1>9. CASE ~(n < Len(l))
  <2>1. n > q[m]
    BY <1>2, <1>7, <1>9
  <2>2. r = [err |-> R!StatusErr(R!ParseStatLine(H[1]), F.newloc),
             rest |-> SubSeq(x, q[m] + 2, n), isFirst |-> FALSE, fields |-> F]
    BY <1>4, <1>5, <2>1 DEF HeadersRead
  <2>3. r.err = R!StatusErr(sent.code, F.newloc) /\ r.rest = SubSeq(x, q[m] + 2, n) /\ r.fields = F
    BY <1>6, <2>2
  <2>4. SubSeq(x, q[m] + 2, n) = SubSeq(z, 1, n - Len(l))
    <3>1. PICK c \in Nat, d \in Nat : c = Len(l) /\ d = n - c /\ d <= Len(z)
      <4>1. n - Len(l) \in Nat /\ n - Len(l) <= Len(z)
        BY <1>7, <1>9
      <4> QED
        BY <1>7, <4>1
    <3>2. PICK a, b : a = SubSeq(x, c + 1, n) /\ b = SubSeq(z, 1, d)
      OBVIOUS
    <3>3. Len(x) = c + Len(z) /\ \A i \in 1 .. Len(z) : x[c + i] = z[i]
      BY <1>2, <3>1
    <3>4. a \in Seq(W) /\ Len(a) = d /\ \A i \in 1 .. d : a[i] = x[c + i]
      BY <1>7, <3>1, <3>2, <3>3, SMTT(40)
    <3>5. b \in Seq(W) /\ Len(b) = d /\ \A i \in 1 .. d : b[i] = z[i]
      BY <3>1, <3>2, SMTT(40)
    <3>6. ASSUME NEW i \in 1 .. d PROVE a[i] = b[i]
      <4>1. i \in 1 .. Len(z)
        BY <1>7, <3>1
      <4> QED
        BY <3>3, <3>4, <3>5, <4>1
    <3>7. a = b
      BY <3>4, <3>5, <3>6, SameSeq, Zenon
    <3>8. q[m] + 2 = c + 1
      BY <1>2, <3>1
    <3> QED
      BY <3>1, <3>2, <3>7, <3>8
  <2>5. CASE Deadly(sent)
    <3>1. ans = [err |-> "DIES"]
      BY <1>6, <1>d, <1>g, <2>3, <2>5
    <3>2. ans.err = "DIES"
      BY <3>1
    <3> QED
      BY <1>2, <1>9, <1>f, <2>5, <3>2, Zenon DEF R!ReadsHeaders, Deadly, Lengths
  <2>6. CASE ~Deadly(sent)
    <3>1. ans = r
      BY <1>6, <1>d, <1>g, <2>3, <2>6
    <3>2. F.contlen = LenAsIs(sent)
      BY <1>6, <2>6, DeadlyIs
    <3> QED
      BY <1>2, <1>6, <1>9, <1>f, <2>3, <2>4, <2>6, <3>1, <3>2, Zenon
      DEF R!ReadsHeaders, Deadly, LenAsIs, Lengths, Accept, NewLoc
  <2> QED
    BY <2>5, <2>6
<1> QED
  BY <1>8, <1>9

-----------------------------------------------------------------------------
(***************************************************************************)
(* What a page of the mirror search shows.                                 *)
(***************************************************************************)


(* The marks of a page.                                                    *)
Pre == M!Mark("PRE")
Post == M!Mark("/PRE")
Rep == M!Mark("reported hits")
Ad == M!Link(<<"advert">>)
Home == M!Link(<<"home">>)

(* A section is its tokens between two marks.                              *)
IsSection(s, x, N, W) ==
  /\ s \in Seq(W) /\ Len(s) = N + 2 /\ s[1] = Pre /\ s[N + 2] = Post
  /\ \A i \in 1 .. N : s[i + 1] = x[i]

(* A section has its tokens between its marks.                             *)
LEMMA SectionIs ==
  \A W, x, N : x \in Seq(W) /\ Pre \in W /\ Post \in W /\ N = Len(x) => IsSection(M!Section(x), x, N, W)
<1> TAKE W, x, N
<1> HAVE x \in Seq(W) /\ Pre \in W /\ Post \in W /\ N = Len(x)
<1>1. PICK a, b, c, one : a = <<Pre>> /\ b = <<Post>> /\ c = a \o x /\ one = 1
  OBVIOUS
<1>n. N \in Nat
  OBVIOUS
<1>2. a \in Seq(W) /\ one = Len(a) /\ a[1] = Pre
  BY <1>1, OneIs
<1>3. b \in Seq(W) /\ one = Len(b) /\ b[1] = Post
  BY <1>1, OneIs
<1>4. IsBehind(W, a, x, one, N)
  BY <1>2, Behind, Zenon
<1>5. c \in Seq(W) /\ Len(c) = one + N /\ (\A i \in 1 .. one : c[i] = a[i]) /\ \A i \in 1 .. N : c[one + i] = x[i]
  BY <1>1, <1>4, Zenon DEF IsBehind
<1>6. PICK m : m = one + N
  OBVIOUS
<1>7. IsBehind(W, c, b, m, one)
  BY <1>3, <1>5, <1>6, Behind, Zenon
<1>8. PICK s : s = c \o b
  OBVIOUS
<1>9. s \in Seq(W) /\ Len(s) = m + one /\ (\A i \in 1 .. m : s[i] = c[i]) /\ \A i \in 1 .. one : s[m + i] = b[i]
  BY <1>7, <1>8, Zenon DEF IsBehind
<1>10. m + one = N + 2 /\ m + 1 = N + 2 /\ 1 \in 1 .. one /\ 1 \in 1 .. m /\ \A i \in 1 .. N : i + 1 \in 1 .. m /\ one + i = i + 1
  BY <1>1, <1>6, <1>n
<1>11. IsSection(s, x, N, W)
  <2>1. s[1] = Pre
    <3>1. c[1] = a[1]
      BY <1>5, <1>10, Zenon
    <3>2. s[1] = c[1]
      BY <1>9, <1>10, Zenon
    <3> QED
      BY <1>2, <3>1, <3>2
  <2>2. s[N + 2] = Post
    <3>1. s[m + 1] = b[1]
      BY <1>9, <1>10, Zenon
    <3> QED
      BY <1>3, <1>10, <3>1
  <2>3. ASSUME NEW i \in 1 .. N PROVE s[i + 1] = x[i]
    <3>1. s[i + 1] = c[i + 1] /\ c[one + i] = x[i] /\ one + i = i + 1
      BY <1>5, <1>9, <1>10, Zenon
    <3> QED
      BY <3>1
  <2>4. s \in Seq(W) /\ Len(s) = N + 2
    BY <1>9, <1>10, Zenon
  <2> QED
    BY <2>1, <2>2, <2>3, <2>4, Zenon DEF IsSection
<1>12. M!Section(x) = s
  BY <1>1, <1>8, Zenon DEF M!Section, Pre, Post
<1> QED
  BY <1>11, <1>12

(* The least and the greatest of some numbers.                             *)
LEMMA LeastMost ==
  \A I, i : I \subseteq Nat /\ i \in I =>
    /\ (\A j \in I : i <= j) => M!Least(I) = i
    /\ (\A j \in I : j <= i) => M!Most(I) = i
<1> SUFFICES ASSUME NEW I, NEW i \in I, I \subseteq Nat
             PROVE  /\ (\A j \in I : i <= j) => M!Least(I) = i
                    /\ (\A j \in I : j <= i) => M!Most(I) = i
  BY Zenon
<1>1. ASSUME \A j \in I : i <= j PROVE M!Least(I) = i
  <2>1. PICK m : m = M!Least(I) /\ m \in I /\ \A j \in I : m <= j
    BY <1>1, Zenon DEF M!Least
  <2> QED
    BY <1>1, <2>1
<1>2. ASSUME \A j \in I : j <= i PROVE M!Most(I) = i
  <2>1. PICK m : m = M!Most(I) /\ m \in I /\ \A j \in I : j <= m
    BY <1>2, Zenon DEF M!Most
  <2> QED
    BY <1>2, <2>1
<1> QED
  BY <1>1, <1>2

(* What a hit shows is links.                                              *)
LinkTexts(mirrors, h) == {mirrors[k].server : k \in 1 .. h} \cup {<<"/">> \o mirrors[k].path : k \in 1 .. h}
                         \cup {mirrors[k].file : k \in 1 .. h}
LinksOf(T1) == {M!Link(t) : t \in T1}

IsShown(x, mirrors, h, X) ==
  /\ x \in Seq(X) /\ Len(x) = 3 * h
  /\ \A k \in 1 .. h : /\ x[3 * k - 2] = M!Link(mirrors[k].server)
                       /\ x[3 * k - 1] = M!Link(<<"/">> \o mirrors[k].path)
                       /\ x[3 * k] = M!Link(mirrors[k].file)
ShownText(mirrors) == M!FlattenSeq([i \in DOMAIN mirrors |-> M!Shown(mirrors[i])])

(* Each hit shows three links, in the order of the mirrors.                *)
LEMMA HitsShown ==
  \A mirrors, h : h \in Nat /\ DOMAIN mirrors = 1 .. h
    => IsShown(ShownText(mirrors), mirrors, h, LinksOf(LinkTexts(mirrors, h)))
<1> TAKE mirrors, h
<1> HAVE h \in Nat /\ DOMAIN mirrors = 1 .. h
<1>1. PICK X, T1 : T1 = LinkTexts(mirrors, h) /\ X = LinksOf(T1)
  OBVIOUS
<1>2. PICK s : s = [i \in 1 .. h |-> M!Shown(mirrors[i])]
  OBVIOUS
<1>3. ASSUME NEW k \in 1 .. h
      PROVE  /\ s[k] \in Seq(X) /\ Len(s[k]) = 3
             /\ s[k][1] = M!Link(mirrors[k].server) /\ s[k][2] = M!Link(<<"/">> \o mirrors[k].path)
             /\ s[k][3] = M!Link(mirrors[k].file)
  <2>1. PICK a, b, c : a = M!Link(mirrors[k].server) /\ b = M!Link(<<"/">> \o mirrors[k].path) /\ c = M!Link(mirrors[k].file)
    OBVIOUS
  <2>2. a \in X /\ b \in X /\ c \in X
    <3>1. mirrors[k].server \in T1 /\ <<"/">> \o mirrors[k].path \in T1 /\ mirrors[k].file \in T1
      BY <1>1, Zenon DEF LinkTexts
    <3> QED
      BY <1>1, <2>1, <3>1, Zenon DEF LinksOf
  <2>3. s[k] = <<a, b, c>>
    <3>1. s[k] = M!Shown(mirrors[k])
      BY <1>2
    <3> QED
      BY <2>1, <3>1, Zenon DEF M!Shown
  <2>4. \A u, v, w \in X : /\ <<u, v, w>> \in Seq(X) /\ Len(<<u, v, w>>) = 3
                           /\ <<u, v, w>>[1] = u /\ <<u, v, w>>[2] = v /\ <<u, v, w>>[3] = w
    OBVIOUS
  <2>5. /\ <<a, b, c>> \in Seq(X) /\ Len(<<a, b, c>>) = 3
        /\ <<a, b, c>>[1] = a /\ <<a, b, c>>[2] = b /\ <<a, b, c>>[3] = c
    BY <2>2, <2>4
  <2> QED
    BY <2>1, <2>3, <2>5
<1>4. PICK f : IsFlat(f, s, h, X)
  BY <1>3, FlatExists
<1>5. ShownText(mirrors) = f[h]
  <2>1. h = Len(s) /\ (h = 0 => s = <<>>)
    BY <1>2
  <2>2. M!FlattenSeq(s) = f[h]
    BY <1>4, <2>1, MFlatten, Zenon
  <2> QED
    BY <1>2, <2>2, Zenon DEF ShownText
<1>6. \A k \in 1 .. h : FlatAt(f, s, h, k)
  <2>1. h \in 0 .. h
    OBVIOUS
  <2> QED
    BY <1>4, <2>1, FlatPlaces, Zenon
<1> DEFINE P == {k \in Nat : k <= h => Len(f[k]) = 3 * k}
<1>7. 0 \in P
  <2>1. f[0] = <<>>
    BY <1>4, Zenon DEF IsFlat
  <2> QED
    BY <2>1
<1>8. ASSUME NEW k \in Nat, k \in P PROVE k + 1 \in P
  <2> SUFFICES ASSUME k + 1 <= h PROVE Len(f[k + 1]) = 3 * (k + 1)
    OBVIOUS
  <2>1. PICK q \in 1 .. h : q = k + 1 /\ q - 1 = k
    OBVIOUS
  <2>2. Len(f[q]) = Len(f[q - 1]) + Len(s[q])
    BY <1>6 DEF FlatAt
  <2>3. Len(s[q]) = 3 /\ Len(f[k]) = 3 * k
    BY <1>3, <1>8
  <2> QED
    BY <2>1, <2>2, <2>3
<1>9. Nat \subseteq P
  <2> HIDE DEF P
  <2> QED
    BY <1>7, <1>8, NatInductive
<1>10. PICK x : x = f[h]
  OBVIOUS
<1>11. x \in Seq(X) /\ Len(x) = 3 * h
  <2>1. f[h] \in Seq(X)
    <3>1. h \in 0 .. h
      OBVIOUS
    <3> QED
      BY <1>4, <3>1, Zenon DEF IsFlat
  <2>2. Len(f[h]) = 3 * h
    BY <1>9
  <2> QED
    BY <1>10, <2>1, <2>2
<1>12. ASSUME NEW k \in 1 .. h
       PROVE  /\ x[3 * k - 2] = M!Link(mirrors[k].server)
              /\ x[3 * k - 1] = M!Link(<<"/">> \o mirrors[k].path)
              /\ x[3 * k] = M!Link(mirrors[k].file)
  <2>1. PICK b \in Nat : b = 3 * (k - 1)
    OBVIOUS
  <2>2. Len(f[k - 1]) = b
    <3>1. k - 1 \in Nat /\ k - 1 <= h
      OBVIOUS
    <3>2. Len(f[k - 1]) = 3 * (k - 1)
      BY <1>9, <3>1
    <3> QED
      BY <2>1, <3>2
  <2>3. \A i \in 1 .. Len(s[k]) : f[h][Len(f[k - 1]) + i] = s[k][i]
    BY <1>6, Zenon DEF FlatAt
  <2>4. Len(s[k]) = 3
    BY <1>3
  <2>5. \A i \in 1 .. 3 : x[b + i] = s[k][i]
    BY <1>10, <2>2, <2>3, <2>4
  <2>6. 3 * k - 2 = b + 1 /\ 3 * k - 1 = b + 2 /\ 3 * k = b + 3
    BY <2>1
  <2>7. x[b + 1] = s[k][1] /\ x[b + 2] = s[k][2] /\ x[b + 3] = s[k][3]
    BY <2>5
  <2> QED
    BY <1>3, <2>6, <2>7
<1> HIDE DEF P
<1>13. IsShown(x, mirrors, h, X)
  BY <1>11, <1>12, Zenon DEF IsShown
<1> QED
  BY <1>1, <1>5, <1>10, <1>13

Marks == {Pre, Ad, Post}

(* An advertisement is a section with one link.                            *)
LEMMA AdvertIs ==
  M!Advert \in Seq(Marks) /\ Len(M!Advert) = 3 /\ M!Advert[1] = Pre /\ M!Advert[2] = Ad /\ M!Advert[3] = Post
<1>1. Pre \in Marks /\ Ad \in Marks /\ Post \in Marks
  BY Zenon DEF Marks
<1>2. PICK x, one : x = <<Ad>> /\ one = 1
  OBVIOUS
<1>3. x \in Seq(Marks) /\ one = Len(x) /\ x[1] = Ad
  BY <1>1, <1>2, OneIs
<1>4. IsSection(M!Section(x), x, one, Marks)
  BY <1>1, <1>3, SectionIs, Zenon
<1>5. M!Section(x) = M!Advert
  BY <1>2, Zenon DEF M!Advert, Ad
<1>6. one + 2 = 3 /\ 1 \in 1 .. one /\ 1 + 1 = 2
  BY <1>2
<1>7. M!Section(x) \in Seq(Marks) /\ Len(M!Section(x)) = one + 2 /\ M!Section(x)[1] = Pre
      /\ M!Section(x)[one + 2] = Post /\ M!Section(x)[1 + 1] = x[1]
  BY <1>4, <1>6, Zenon DEF IsSection
<1> QED
  BY <1>3, <1>5, <1>6, <1>7

(* The sections in front of the hits.                                      *)
Adverts(b) == M!FlattenSeq([i \in 1 .. b |-> M!Advert])
InFront(y, b) ==
  /\ y \in Seq(Marks)
  /\ b = 0 => Len(y) = 0
  /\ b # 0 => Len(y) >= 3 /\ y[1] = Pre /\ y[2] = Ad /\ y[3] = Post
  /\ Len(y) >= 4 => y[4] = Pre

(* Advertisements one behind the other begin and go on with sections.      *)
LEMMA AdvertsAre == \A b \in Nat : InFront(Adverts(b), b)
<1> TAKE b \in Nat
<1>1. PICK s : s = [i \in 1 .. b |-> M!Advert]
  OBVIOUS
<1>2. \A k \in 1 .. b : s[k] = M!Advert /\ s[k] \in Seq(Marks)
  BY <1>1, AdvertIs
<1>3. PICK f : IsFlat(f, s, b, Marks)
  BY <1>2, FlatExists
<1>4. Adverts(b) = f[b]
  <2>1. b = Len(s) /\ (b = 0 => s = <<>>)
    BY <1>1
  <2>2. M!FlattenSeq(s) = f[b]
    BY <1>3, <2>1, MFlatten, Zenon
  <2> QED
    BY <1>1, <2>2, Zenon DEF Adverts
<1>5. \A k \in 1 .. b : FlatAt(f, s, b, k)
  <2>1. b \in 0 .. b
    OBVIOUS
  <2> QED
    BY <1>3, <2>1, FlatPlaces, Zenon
<1>6. (\A k \in 0 .. b : f[k] \in Seq(Marks)) /\ f[0] = <<>>
  BY <1>3, Zenon DEF IsFlat
<1>7. Len(f[0]) = 0
  BY <1>6
<1>8. PICK y : y = f[b]
  OBVIOUS
<1>9. y \in Seq(Marks)
  BY <1>6, <1>8
<1>10. CASE b = 0
  BY <1>4, <1>7, <1>8, <1>9, <1>10 DEF InFront
<1>11. CASE b # 0
  <2>1. 1 \in 1 .. b
    BY <1>11
  <2>2. Len(s[1]) = 3 /\ s[1][1] = Pre /\ s[1][2] = Ad /\ s[1][3] = Post
    BY <1>2, <2>1, AdvertIs
  <2>3. /\ Len(f[1]) = Len(f[1 - 1]) + Len(s[1]) /\ Len(f[1]) <= Len(y)
        /\ \A i \in 1 .. Len(s[1]) : y[Len(f[1 - 1]) + i] = s[1][i]
    BY <1>5, <1>8, <2>1, Zenon DEF FlatAt
  <2>4. Len(f[1]) = 3 /\ Len(y) >= 3 /\ y[1] = Pre /\ y[2] = Ad /\ y[3] = Post
    <3>1. 1 - 1 = 0 /\ 0 + 3 = 3
      OBVIOUS
    <3>2. Len(f[1]) = 3 /\ 3 <= Len(y) /\ \A i \in 1 .. 3 : y[0 + i] = s[1][i]
      BY <1>7, <2>2, <2>3, <3>1
    <3>3. y[0 + 1] = s[1][1] /\ y[0 + 2] = s[1][2] /\ y[0 + 3] = s[1][3]
      BY <3>2
    <3>4. Len(y) \in Nat
      BY <1>9
    <3> QED
      BY <2>2, <3>2, <3>3, <3>4
  <2>5. Len(y) >= 4 => y[4] = Pre
    <3>1. CASE b = 1
      BY <1>8, <2>4, <3>1
    <3>2. CASE b # 1
      <4>1. 2 \in 1 .. b /\ 2 - 1 = 1
        BY <1>11, <3>2
      <4>2. \A i \in 1 .. Len(s[2]) : y[Len(f[2 - 1]) + i] = s[2][i]
        BY <1>5, <1>8, <4>1, Zenon DEF FlatAt
      <4>3. Len(s[2]) = 3 /\ s[2][1] = Pre
        BY <1>2, <4>1, AdvertIs
      <4>4. \A i \in 1 .. 3 : y[3 + i] = s[2][i]
        BY <2>4, <4>1, <4>2, <4>3
      <4>5. y[3 + 1] = s[2][1]
        BY <4>4
      <4> QED
        BY <4>3, <4>5
    <3> QED
      BY <3>1, <3>2
  <2> QED
    BY <1>4, <1>8, <1>9, <1>11, <2>4, <2>5 DEF InFront
<1> QED
  BY <1>10, <1>11

(* The page.                                                               *)
InBody(page, x, N, a) ==
  page[a + 1] = Pre /\ (\A i \in 1 .. N : page[a + 1 + i] = x[i]) /\ page[a + N + 2] = Post
OnlyHits(page, x, N, W) ==
  page \in Seq(W) /\ N \in Nat /\ Len(page) = N + 3 /\ InBody(page, x, N, 1) /\ page[1] = Home
WithAdverts(page, x, N, a, b, W) ==
  /\ page \in Seq(W) /\ N \in Nat /\ a \in Nat /\ b \in Nat /\ Len(page) = a + N + 6 /\ InBody(page, x, N, a)
  /\ page[a + N + 3] = Rep /\ page[a + N + 4] = Pre /\ page[a + N + 5] = Ad /\ page[a + N + 6] = Post
  /\ \A i \in 1 .. a : page[i] \in Marks
  /\ b = 0 => a = 0
  /\ b # 0 => a >= 3 /\ page[1] = Pre /\ page[2] = Ad /\ page[3] = Post /\ page[4] = Pre
AllMarks == {Pre, Post, Rep, Ad, Home}

(* A page without advertisements: one link, then the section with the      *)
(* hits.                                                                   *)
LEMMA PageWithHits ==
  \A mirrors, x, N, W : x = ShownText(mirrors) /\ x \in Seq(W) /\ N = Len(x) /\ AllMarks \subseteq W
    => OnlyHits(M!Page(mirrors, -1), x, N, W)
<1> TAKE mirrors, x, N, W
<1> HAVE x = ShownText(mirrors) /\ x \in Seq(W) /\ N = Len(x) /\ AllMarks \subseteq W
<1>1. Pre \in W /\ Post \in W /\ Home \in W /\ N \in Nat
  <2>1. N \in Nat
    OBVIOUS
  <2> QED
    BY <2>1, Zenon DEF AllMarks
<1>2. PICK s, h, p, one, l :
        s = M!Section(x) /\ h = <<Home>> /\ p = h \o s /\ one = 1 /\ l = N + 2
  OBVIOUS
<1>3. IsSection(s, x, N, W)
  BY <1>1, <1>2, SectionIs, Zenon
<1>4. h \in Seq(W) /\ one = Len(h) /\ h[1] = Home
  BY <1>1, <1>2, OneIs
<1>5. s \in Seq(W) /\ l = Len(s) /\ s[1] = Pre /\ s[l] = Post /\ \A i \in 1 .. N : s[i + 1] = x[i]
  BY <1>2, <1>3, Zenon DEF IsSection
<1>6. IsBehind(W, h, s, one, l)
  BY <1>4, <1>5, Behind, Zenon
<1>7. p \in Seq(W) /\ Len(p) = one + l /\ (\A i \in 1 .. one : p[i] = h[i]) /\ \A i \in 1 .. l : p[one + i] = s[i]
  BY <1>2, <1>6, Zenon DEF IsBehind
<1>8. Len(p) = N + 3 /\ p[1] = Home
  BY <1>1, <1>2, <1>4, <1>7
<1>9. p[1 + 1] = Pre
  <2>1. 1 \in 1 .. l
    BY <1>1, <1>2
  <2> QED
    BY <1>2, <1>5, <1>7, <2>1
<1>10. ASSUME NEW i \in 1 .. N PROVE p[1 + 1 + i] = x[i]
  <2>1. i + 1 \in 1 .. l /\ one + (i + 1) = 1 + 1 + i
    BY <1>1, <1>2
  <2>2. p[one + (i + 1)] = s[i + 1] /\ s[i + 1] = x[i]
    BY <1>5, <1>7, <2>1
  <2> QED
    BY <2>1, <2>2
<1>11. p[1 + N + 2] = Post
  <2>1. l \in 1 .. l /\ one + l = 1 + N + 2
    BY <1>1, <1>2
  <2>2. p[one + l] = s[l]
    BY <1>7, <2>1
  <2> QED
    BY <1>5, <2>1, <2>2
<1>12. OnlyHits(p, x, N, W)
  BY <1>1, <1>7, <1>8, <1>9, <1>10, <1>11, Zenon DEF OnlyHits, InBody
<1>13. M!Page(mirrors, -1) = p
  BY <1>2, Zenon DEF M!Page, M!Hits, Home, ShownText
<1> QED
  BY <1>12, <1>13

Joins(p, u, s, r, v, a, l, k, m, W) ==
  /\ p \in Seq(W) /\ Len(p) = a + l + k + m
  /\ (\A i \in 1 .. a : p[i] = u[i]) /\ (\A i \in 1 .. l : p[a + i] = s[i])
  /\ (\A i \in 1 .. k : p[a + l + i] = r[i]) /\ (\A i \in 1 .. m : p[a + l + k + i] = v[i])

(* Four sequences one behind the other.                                    *)
LEMMA FourJoined ==
  \A W, u, s, r, v, a, l, k, m :
    /\ u \in Seq(W) /\ s \in Seq(W) /\ r \in Seq(W) /\ v \in Seq(W)
    /\ a = Len(u) /\ l = Len(s) /\ k = Len(r) /\ m = Len(v)
    => Joins(u \o s \o r \o v, u, s, r, v, a, l, k, m, W)
<1> TAKE W, u, s, r, v, a, l, k, m
<1> HAVE /\ u \in Seq(W) /\ s \in Seq(W) /\ r \in Seq(W) /\ v \in Seq(W)
         /\ a = Len(u) /\ l = Len(s) /\ k = Len(r) /\ m = Len(v)
<1>0. a \in Nat /\ l \in Nat /\ k \in Nat /\ m \in Nat
  OBVIOUS
<1>1. PICK p1, al : p1 = u \o s /\ al = a + l
  OBVIOUS
<1>2. IsBehind(W, u, s, a, l)
  BY Behind, Zenon
<1>3. p1 \in Seq(W) /\ Len(p1) = al /\ (\A i \in 1 .. a : p1[i] = u[i]) /\ \A i \in 1 .. l : p1[a + i] = s[i]
  BY <1>1, <1>2, Zenon DEF IsBehind
<1>4. PICK p2, alk : p2 = p1 \o r /\ alk = al + k
  OBVIOUS
<1>5. IsBehind(W, p1, r, al, k)
  BY <1>3, Behind, Zenon
<1>6. p2 \in Seq(W) /\ Len(p2) = alk /\ (\A i \in 1 .. al : p2[i] = p1[i]) /\ \A i \in 1 .. k : p2[al + i] = r[i]
  BY <1>4, <1>5, Zenon DEF IsBehind
<1>7. PICK p : p = p2 \o v
  OBVIOUS
<1>8. IsBehind(W, p2, v, alk, m)
  BY <1>6, Behind, Zenon
<1>9. p \in Seq(W) /\ Len(p) = alk + m /\ (\A i \in 1 .. alk : p[i] = p2[i]) /\ \A i \in 1 .. m : p[alk + i] = v[i]
  BY <1>7, <1>8, Zenon DEF IsBehind
<1>10. al = a + l /\ alk = a + l + k
  BY <1>1, <1>4
<1>11. \A i \in 1 .. al : p[i] = p1[i]
  <2>1. \A i \in 1 .. al : i \in 1 .. alk
    BY <1>0, <1>10
  <2> QED
    BY <1>6, <1>9, <2>1
<1>12. \A i \in 1 .. a : p[i] = u[i]
  <2>1. \A i \in 1 .. a : i \in 1 .. al
    BY <1>0, <1>10
  <2> QED
    BY <1>3, <1>11, <2>1
<1>13. \A i \in 1 .. l : p[a + i] = s[i]
  <2>1. \A i \in 1 .. l : a + i \in 1 .. al
    BY <1>0, <1>10
  <2> QED
    BY <1>3, <1>11, <2>1
<1>14. \A i \in 1 .. k : p[al + i] = r[i]
  <2>1. \A i \in 1 .. k : al + i \in 1 .. alk
    BY <1>0, <1>10
  <2> QED
    BY <1>6, <1>9, <2>1
<1>15. Joins(p, u, s, r, v, a, l, k, m, W)
  BY <1>9, <1>10, <1>12, <1>13, <1>14, Zenon DEF Joins
<1> QED
  BY <1>1, <1>4, <1>7, <1>15

(* A page with advertisements: some sections, that with the hits, the      *)
(* mark of their number and one more section.                              *)
LEMMA PageWithAdverts ==
  \A mirrors, x, N, W, b :
    x = ShownText(mirrors) /\ x \in Seq(W) /\ N = Len(x) /\ AllMarks \subseteq W /\ b \in Nat
    => \E a : WithAdverts(M!Page(mirrors, b), x, N, a, b, W)
<1> TAKE mirrors, x, N, W, b
<1> HAVE x = ShownText(mirrors) /\ x \in Seq(W) /\ N = Len(x) /\ AllMarks \subseteq W /\ b \in Nat
<1>1. Pre \in W /\ Post \in W /\ Rep \in W /\ Marks \subseteq W /\ N \in Nat
  <2>1. N \in Nat
    OBVIOUS
  <2> QED
    BY <2>1, Zenon DEF AllMarks, Marks
<1>2. PICK u, s, r, v, p :
        u = Adverts(b) /\ s = M!Section(x) /\ r = <<Rep>> /\ v = M!Advert /\ p = u \o s \o r \o v
  OBVIOUS
<1>3. IsSection(s, x, N, W)
  BY <1>1, <1>2, SectionIs, Zenon
<1>u. InFront(u, b)
  BY <1>2, AdvertsAre, Zenon
<1>4. u \in Seq(W) /\ u \in Seq(Marks)
  <2>1. u \in Seq(Marks)
    BY <1>u, Zenon DEF InFront
  <2>2. PICK K : K = Marks
    OBVIOUS
  <2>3. u \in Seq(K) /\ K \subseteq W
    BY <1>1, <2>1, <2>2
  <2>4. u \in Seq(W)
    BY <2>3
  <2> QED
    BY <2>1, <2>4
<1>5. s \in Seq(W) /\ Len(s) = N + 2 /\ s[1] = Pre /\ s[N + 2] = Post /\ \A i \in 1 .. N : s[i + 1] = x[i]
  BY <1>2, <1>3, Zenon DEF IsSection
<1>6. r \in Seq(W) /\ Len(r) = 1 /\ r[1] = Rep
  BY <1>1, <1>2, OneIs
<1>7. v \in Seq(W) /\ Len(v) = 3 /\ v[1] = Pre /\ v[2] = Ad /\ v[3] = Post
  <2>1. v \in Seq(Marks) /\ Len(v) = 3 /\ v[1] = Pre /\ v[2] = Ad /\ v[3] = Post
    BY <1>2, AdvertIs
  <2>2. PICK K : K = Marks
    OBVIOUS
  <2>3. v \in Seq(K) /\ K \subseteq W
    BY <1>1, <2>1, <2>2
  <2>4. v \in Seq(W)
    BY <2>3
  <2> QED
    BY <2>1, <2>4
<1>8. PICK a, l, k, m : a = Len(u) /\ l = Len(s) /\ k = Len(r) /\ m = Len(v)
  OBVIOUS
<1>9. Joins(p, u, s, r, v, a, l, k, m, W)
  BY <1>2, <1>4, <1>5, <1>6, <1>7, <1>8, FourJoined, Zenon
<1>10. a \in Nat /\ l = N + 2 /\ k = 1 /\ m = 3
  BY <1>4, <1>5, <1>6, <1>7, <1>8
<1>11. /\ p \in Seq(W) /\ Len(p) = a + l + k + m
       /\ (\A i \in 1 .. a : p[i] = u[i]) /\ (\A i \in 1 .. l : p[a + i] = s[i])
       /\ (\A i \in 1 .. k : p[a + l + i] = r[i]) /\ (\A i \in 1 .. m : p[a + l + k + i] = v[i])
  BY <1>9, Zenon DEF Joins
<1>12. Len(p) = a + N + 6
  BY <1>1, <1>10, <1>11
<1>13. InBody(p, x, N, a)
  <2>1. p[a + 1] = Pre
    <3>1. 1 \in 1 .. l
      BY <1>1, <1>10
    <3> QED
      BY <1>5, <1>11, <3>1
  <2>2. ASSUME NEW i \in 1 .. N PROVE p[a + 1 + i] = x[i]
    <3>1. i + 1 \in 1 .. l /\ a + (i + 1) = a + 1 + i
      BY <1>1, <1>10
    <3>2. p[a + (i + 1)] = s[i + 1] /\ s[i + 1] = x[i]
      BY <1>5, <1>11, <3>1
    <3> QED
      BY <3>1, <3>2
  <2>3. p[a + N + 2] = Post
    <3>1. l \in 1 .. l /\ a + l = a + N + 2
      BY <1>1, <1>10
    <3>2. p[a + l] = s[l]
      BY <1>11, <3>1
    <3> QED
      BY <1>5, <1>10, <3>1, <3>2
  <2> QED
    BY <2>1, <2>2, <2>3, Zenon DEF InBody
<1>14. p[a + N + 3] = Rep /\ p[a + N + 4] = Pre /\ p[a + N + 5] = Ad /\ p[a + N + 6] = Post
  <2>1. /\ a + l + 1 = a + N + 3 /\ a + l + k + 1 = a + N + 4 /\ a + l + k + 2 = a + N + 5 /\ a + l + k + 3 = a + N + 6
        /\ 1 \in 1 .. k /\ 1 \in 1 .. m /\ 2 \in 1 .. m /\ 3 \in 1 .. m
    BY <1>1, <1>10
  <2>2. p[a + l + 1] = r[1] /\ p[a + l + k + 1] = v[1] /\ p[a + l + k + 2] = v[2] /\ p[a + l + k + 3] = v[3]
    BY <1>11, <2>1, Zenon
  <2> QED
    BY <1>6, <1>7, <2>1, <2>2
<1>15. \A i \in 1 .. a : p[i] \in Marks
  <2>1. \A i \in 1 .. a : u[i] \in Marks
    BY <1>4, <1>8
  <2> QED
    BY <1>11, <2>1
<1>16. b = 0 => a = 0
  BY <1>8, <1>u, Zenon DEF InFront
<1>17. b # 0 => a >= 3 /\ p[1] = Pre /\ p[2] = Ad /\ p[3] = Post /\ p[4] = Pre
  <2> SUFFICES ASSUME b # 0 PROVE a >= 3 /\ p[1] = Pre /\ p[2] = Ad /\ p[3] = Post /\ p[4] = Pre
    OBVIOUS
  <2>1. a >= 3 /\ u[1] = Pre /\ u[2] = Ad /\ u[3] = Post /\ (a >= 4 => u[4] = Pre)
    BY <1>8, <1>u, Zenon DEF InFront
  <2>2. 1 \in 1 .. a /\ 2 \in 1 .. a /\ 3 \in 1 .. a
    BY <1>10, <2>1
  <2>3. p[1] = Pre /\ p[2] = Ad /\ p[3] = Post
    BY <1>11, <2>1, <2>2
  <2>4. p[4] = Pre
    <3>1. CASE a >= 4
      <4>1. 4 \in 1 .. a
        BY <1>10, <3>1
      <4> QED
        BY <1>11, <2>1, <3>1, <4>1
    <3>2. CASE ~(a >= 4)
      <4>1. a = 3
        BY <1>10, <2>1, <3>2
      <4>2. p[a + 1] = Pre
        BY <1>13, Zenon DEF InBody
      <4>3. a + 1 = 4
        BY <4>1
      <4> QED
        BY <4>2, <4>3
    <3> QED
      BY <3>1, <3>2
  <2> QED
    BY <2>1, <2>3, <2>4
<1>18. WithAdverts(p, x, N, a, b, W)
  BY <1>1, <1>10, <1>11, <1>12, <1>13, <1>14, <1>15, <1>16, <1>17, Zenon DEF WithAdverts
<1>19. M!Page(mirrors, b) = p
  <2>1. b # -1
    OBVIOUS
  <2> QED
    BY <1>2, <2>1, Zenon DEF M!Page, M!Hits, Rep, ShownText, Adverts
<1> QED
  BY <1>18, <1>19

-----------------------------------------------------------------------------
(***************************************************************************)
(* Where the parser looks for the hits on a page that has come so far.     *)
(***************************************************************************)

(* The kinds of a page's tokens.                                           *)
RepKind == "reported hits"
NoneKind == "No hits"

(* A mark is of its kind.                                                  *)
LEMMA MarkKind == \A k : M!Mark(k).kind = k
  BY DEF M!Mark

(* A link is of the kind of links, with its text.                          *)
LEMMA LinkKind == \A t : M!Link(t).kind = "link" /\ M!Link(t).text = t
  BY DEF M!Link

(* The tokens of a page are of different kinds, and none says that there   *)
(* are no hits.                                                            *)
LEMMA TokenKinds ==
  /\ Pre.kind = "PRE" /\ Post.kind = "/PRE" /\ Ad.kind = "link" /\ Home.kind = "link" /\ Rep.kind = RepKind
  /\ RepKind \notin {"PRE", "/PRE", "link"} /\ NoneKind \notin {"PRE", "/PRE", "link", RepKind}
<1>1. M!Mark("PRE").kind = "PRE" /\ M!Mark("/PRE").kind = "/PRE"
  BY MarkKind
<1>2. M!Mark(RepKind).kind = RepKind
  BY MarkKind
<1>3. Ad.kind = "link" /\ Home.kind = "link"
  BY LinkKind DEF Ad, Home
<1>4. RepKind \notin {"PRE", "/PRE", "link"} /\ NoneKind \notin {"PRE", "/PRE", "link", RepKind}
  BY Zenon DEF RepKind, NoneKind
<1>5. Pre.kind = "PRE" /\ Post.kind = "/PRE"
  BY <1>1 DEF Pre, Post
<1>6. Rep.kind = RepKind
  BY <1>2, Zenon DEF Rep, RepKind
<1> QED
  BY <1>3, <1>4, <1>5, <1>6

(* What the parser looks for on a page that has come so far.               *)
Looks(y, pre, post, rep) ==
  /\ pre = M!Places(y, "PRE") /\ post = M!Places(y, "/PRE") /\ rep = M!Places(y, RepKind)
  /\ pre \subseteq Nat /\ post \subseteq Nat /\ rep \subseteq Nat /\ M!Places(y, NoneKind) = {}
Nothing(y) == ~M!Has(y, NoneKind) /\ M!Unlisted(y)
Section(y, p, q) == ~M!Has(y, NoneKind) /\ ~M!Unlisted(y) /\ M!ListStart(y) = p /\ M!ListEnd(y) = q

(* A page has a mark if there is a place for it.                           *)
LEMMA HasIs == \A y, k : M!Has(y, k) <=> M!Places(y, k) # {}
<1> TAKE y, k
<1> QED
  BY DEF M!Has, M!Places

(* An only section is the list if its end has come                         *)
(* (parse_lycos_html_mirror_list).                                         *)
LEMMA OneSection ==
  \A y, pre, post, rep, p :
    Looks(y, pre, post, rep) /\ pre = {p} =>
      /\ post = {} => Nothing(y)
      /\ \A q \in post : (\A j \in post : q <= j) => Section(y, p, q)
<1> TAKE y, pre, post, rep, p
<1> HAVE Looks(y, pre, post, rep) /\ pre = {p}
<1>1. /\ pre = M!Places(y, "PRE") /\ post = M!Places(y, "/PRE")
      /\ pre \subseteq Nat /\ post \subseteq Nat /\ ~M!Has(y, NoneKind)
  BY HasIs, Zenon DEF Looks
<1>2. M!Single(pre)
  BY DEF M!Single
<1>3. M!Has(y, "/PRE") <=> post # {}
  BY <1>1, HasIs, Zenon
<1>4. M!Unlisted(y) <=> post = {}
  BY <1>1, <1>2, <1>3, Zenon DEF M!Unlisted
<1>5. M!ListStart(y) = p
  <2>1. M!Most(pre) = p
    BY <1>1, LeastMost
  <2> QED
    BY <1>1, <1>2, <2>1, Zenon DEF M!ListStart
<1>6. M!ListEnd(y) = M!Least(post)
  BY <1>1, <1>2, Zenon DEF M!ListEnd
<1>7. ASSUME NEW q \in post, \A j \in post : q <= j PROVE Section(y, p, q)
  <2>1. M!Least(post) = q
    BY <1>1, <1>7, LeastMost
  <2> QED
    BY <1>1, <1>4, <1>5, <1>6, <1>7, <2>1, Zenon DEF Section
<1>8. post = {} => Nothing(y)
  BY <1>1, <1>4, Zenon DEF Nothing
<1> QED
  BY <1>7, <1>8

(* Of several sections the list is the last that begins before the mark    *)
(* of the number of hits (parse_filesearching_html_mirror_list).           *)
LEMMA ManySections ==
  \A y, pre, post, rep :
    Looks(y, pre, post, rep) /\ ~M!Single(pre) =>
      /\ rep = {} => Nothing(y)
      /\ \A p \in pre, q \in post, r \in rep :
           /\ p < r /\ p < q /\ rep = {r} /\ (\A j \in pre : j < r => j <= p) /\ \A j \in post : j > p => q <= j
           => Section(y, p, q)
<1> TAKE y, pre, post, rep
<1> HAVE Looks(y, pre, post, rep) /\ ~M!Single(pre)
<1>1. /\ pre = M!Places(y, "PRE") /\ post = M!Places(y, "/PRE") /\ rep = M!Places(y, RepKind)
      /\ pre \subseteq Nat /\ post \subseteq Nat /\ rep \subseteq Nat /\ ~M!Has(y, NoneKind)
  BY HasIs, Zenon DEF Looks
<1>2. M!Has(y, RepKind) <=> rep # {}
  BY <1>1, HasIs, Zenon
<1>3. M!Unlisted(y) <=> (rep = {} \/ \A i \in post : \A j \in pre : i < j)
  BY <1>1, <1>2, Zenon DEF M!Unlisted, RepKind
<1>4. rep = {} => Nothing(y)
  BY <1>1, <1>3, Zenon DEF Nothing
<1>5. ASSUME NEW p \in pre, NEW q \in post, NEW r \in rep, p < r, p < q, rep = {r},
             \A j \in pre : j < r => j <= p, \A j \in post : j > p => q <= j
      PROVE  Section(y, p, q)
  <2>1. ~M!Unlisted(y)
    <3>1. ~(q < p)
      BY <1>1, <1>5
    <3> QED
      BY <1>3, <1>5, <3>1, Zenon
  <2>2. M!Least(rep) = r
    BY <1>1, <1>5, LeastMost
  <2>3. M!ListStart(y) = p
    <3>1. PICK I : I = {i \in pre : i < r}
      OBVIOUS
    <3>2. I \subseteq Nat /\ p \in I /\ \A j \in I : j <= p
      BY <1>1, <1>5, <3>1
    <3>3. M!Most(I) = p
      BY <3>2, LeastMost
    <3>4. M!ListStart(y) = M!Most({i \in pre : i < M!Least(rep)})
      BY <1>1, Zenon DEF M!ListStart, RepKind
    <3> QED
      BY <2>2, <3>1, <3>3, <3>4
  <2>4. M!ListEnd(y) = q
    <3>1. PICK I : I = {i \in post : i > p}
      OBVIOUS
    <3>2. I \subseteq Nat /\ q \in I /\ \A j \in I : q <= j
      BY <1>1, <1>5, <3>1
    <3>3. M!Least(I) = q
      BY <3>2, LeastMost
    <3>4. M!ListEnd(y) = M!Least({i \in post : i > M!ListStart(y)})
      BY <1>1, Zenon DEF M!ListEnd
    <3> QED
      BY <2>3, <3>1, <3>3, <3>4
  <2> QED
    BY <1>1, <2>1, <2>3, <2>4, Zenon DEF Section
<1> QED
  BY <1>4, <1>5

IsCut(y, page, n) == DOMAIN y = 1 .. n /\ \A i \in 1 .. n : y[i] = page[i]

(* A page that was cut short.                                              *)
LEMMA CutOf ==
  \A W, page, n : page \in Seq(W) /\ n \in 0 .. Len(page)
    => SubSeq(page, 1, n) \in Seq(W) /\ IsCut(SubSeq(page, 1, n), page, n)
<1> TAKE W, page, n
<1> HAVE page \in Seq(W) /\ n \in 0 .. Len(page)
<1>1. PICK y : y = SubSeq(page, 1, n)
  OBVIOUS
<1>2. y \in Seq(W) /\ DOMAIN y = 1 .. n /\ \A i \in 1 .. n : y[i] = page[i]
  BY <1>1
<1> QED
  BY <1>1, <1>2 DEF IsCut

(* The kinds decide what it looks like.                                    *)
LEMMA CutLooks ==
  \A y, page, n, kd, pre, post, rep :
    /\ IsCut(y, page, n) /\ n \in Nat /\ \A i \in 1 .. n : kd[i] = page[i].kind /\ kd[i] \in {"PRE", "/PRE", "link", RepKind}
    /\ pre = {i \in 1 .. n : kd[i] = "PRE"} /\ post = {i \in 1 .. n : kd[i] = "/PRE"}
    /\ rep = {i \in 1 .. n : kd[i] = RepKind}
    => Looks(y, pre, post, rep)
<1> TAKE y, page, n, kd, pre, post, rep
<1> HAVE /\ IsCut(y, page, n) /\ n \in Nat /\ \A i \in 1 .. n : kd[i] = page[i].kind /\ kd[i] \in {"PRE", "/PRE", "link", RepKind}
         /\ pre = {i \in 1 .. n : kd[i] = "PRE"} /\ post = {i \in 1 .. n : kd[i] = "/PRE"}
         /\ rep = {i \in 1 .. n : kd[i] = RepKind}
<1>1. ASSUME NEW k PROVE M!Places(y, k) = {i \in 1 .. n : kd[i] = k}
  <2>1. DOMAIN y = 1 .. n /\ \A i \in 1 .. n : y[i].kind = kd[i]
    BY Zenon DEF IsCut
  <2> QED
    BY <2>1 DEF M!Places
<1>2. M!Places(y, NoneKind) = {}
  <2>1. \A i \in 1 .. n : kd[i] # NoneKind
    BY TokenKinds, Zenon
  <2> QED
    BY <1>1, <2>1
<1>3. pre \subseteq Nat /\ post \subseteq Nat /\ rep \subseteq Nat
  OBVIOUS
<1> QED
  BY <1>1, <1>2, <1>3, Zenon DEF Looks

(* A page with only the hits.                                              *)
AreLinks(x, N) == N \in Nat /\ \A i \in 1 .. N : x[i].kind = "link"

(* A page with only the hits shows them when it is whole, and nothing      *)
(* before.                                                                 *)
LEMMA OnlyHitsLooks ==
  \A page, x, N, W, n, y :
    OnlyHits(page, x, N, W) /\ AreLinks(x, N) /\ n \in 0 .. N + 3 /\ IsCut(y, page, n)
    => IF n = N + 3 THEN Section(y, 2, N + 3) ELSE Nothing(y)
<1> TAKE page, x, N, W, n, y
<1> HAVE OnlyHits(page, x, N, W) /\ AreLinks(x, N) /\ n \in 0 .. N + 3 /\ IsCut(y, page, n)
<1>0. /\ N \in Nat /\ page[1] = Home /\ page[2] = Pre /\ page[N + 3] = Post
      /\ \A i \in 1 .. N : page[i + 2] = x[i] /\ x[i].kind = "link"
  <2>1. N \in Nat /\ page[1] = Home /\ InBody(page, x, N, 1) /\ \A i \in 1 .. N : x[i].kind = "link"
    BY Zenon DEF OnlyHits, AreLinks
  <2>2. page[1 + 1] = Pre /\ (\A i \in 1 .. N : page[1 + 1 + i] = x[i]) /\ page[1 + N + 2] = Post
    BY <2>1, Zenon DEF InBody
  <2>3. 1 + 1 = 2 /\ 1 + N + 2 = N + 3 /\ \A i \in 1 .. N : 1 + 1 + i = i + 2
    BY <2>1
  <2> QED
    BY <2>1, <2>2, <2>3
<1>1. PICK kd : kd = [i \in 1 .. N + 3 |-> page[i].kind]
  OBVIOUS
<1>2. kd[1] = "link" /\ kd[2] = "PRE" /\ kd[N + 3] = "/PRE" /\ \A i \in 3 .. N + 2 : kd[i] = "link"
  <2>1. 1 \in 1 .. N + 3 /\ 2 \in 1 .. N + 3 /\ N + 3 \in 1 .. N + 3
    BY <1>0
  <2>2. kd[1] = Home.kind /\ kd[2] = Pre.kind /\ kd[N + 3] = Post.kind
    BY <1>0, <1>1, <2>1
  <2>3. ASSUME NEW i \in 3 .. N + 2 PROVE kd[i] = "link"
    <3>1. PICK j \in 1 .. N : i = j + 2
      <4>1. i - 2 \in 1 .. N /\ i = (i - 2) + 2
        BY <1>0
      <4> QED
        BY <4>1
    <3>2. i \in 1 .. N + 3
      BY <1>0
    <3>3. kd[i] = page[j + 2].kind
      BY <1>1, <3>1, <3>2
    <3> QED
      BY <1>0, <3>3
  <2> QED
    BY <2>2, <2>3, TokenKinds
<1>3. n \in Nat /\ \A i \in 1 .. n : kd[i] = page[i].kind /\ kd[i] \in {"PRE", "/PRE", "link", RepKind}
  <2>1. n \in Nat /\ \A i \in 1 .. n : i \in 1 .. N + 3
    BY <1>0
  <2>2. \A i \in 1 .. n : i = 1 \/ i = 2 \/ i = N + 3 \/ i \in 3 .. N + 2
    BY <1>0
  <2>3. \A i \in 1 .. n : kd[i] \in {"PRE", "/PRE", "link"}
    BY <1>2, <2>2
  <2>4. \A i \in 1 .. n : kd[i] = page[i].kind
    BY <1>1, <2>1
  <2> QED
    BY <2>1, <2>3, <2>4, Zenon
<1>4. PICK pre, post, rep :
        /\ pre = {i \in 1 .. n : kd[i] = "PRE"} /\ post = {i \in 1 .. n : kd[i] = "/PRE"}
        /\ rep = {i \in 1 .. n : kd[i] = RepKind}
  OBVIOUS
<1>5. Looks(y, pre, post, rep)
  BY <1>3, <1>4, CutLooks, Zenon
<1>6. \A i \in 1 .. n : (kd[i] = "PRE" <=> i = 2) /\ (kd[i] = "/PRE" <=> i = N + 3) /\ kd[i] # RepKind
  <2>1. \A i \in 1 .. n : i = 1 \/ i = 2 \/ i = N + 3 \/ i \in 3 .. N + 2
    BY <1>0
  <2>2. N + 3 # 2 /\ N + 3 # 1 /\ \A i \in 3 .. N + 2 : i # 2 /\ i # N + 3
    BY <1>0
  <2>3. "PRE" # RepKind /\ "/PRE" # RepKind /\ "link" # RepKind
    BY TokenKinds, Zenon
  <2> QED
    BY <1>2, <2>1, <2>2, <2>3
<1>7. rep = {}
  BY <1>4, <1>6
<1>8. CASE n = N + 3
  <2>1. pre = {2} /\ post = {N + 3}
    <3>1. 2 \in 1 .. n /\ N + 3 \in 1 .. n
      BY <1>0, <1>8
    <3> QED
      BY <1>4, <1>6, <3>1
  <2>2. N + 3 \in post /\ \A j \in post : N + 3 <= j
    BY <1>0, <2>1
  <2>3. Section(y, 2, N + 3)
    BY <1>5, <2>1, <2>2, OneSection, Zenon
  <2> QED
    BY <1>8, <2>3
<1>9. CASE n # N + 3
  <2>1. post = {}
    <3>1. \A i \in 1 .. n : i # N + 3
      BY <1>0, <1>9
    <3> QED
      BY <1>4, <1>6, <3>1
  <2>2. CASE M!Single(pre)
    <3>1. PICK p \in pre : pre = {p}
      BY <2>2, Zenon DEF M!Single
    <3>2. Nothing(y)
      BY <1>5, <2>1, <3>1, OneSection, Zenon
    <3> QED
      BY <1>9, <3>2
  <2>3. CASE ~M!Single(pre)
    <3>1. Nothing(y)
      BY <1>5, <1>7, <2>3, ManySections, Zenon
    <3> QED
      BY <1>9, <3>1
  <2> QED
    BY <2>2, <2>3
<1> QED
  BY <1>8, <1>9

(* The kinds on a page with other sections.                                *)
KindsWith(kd, N, a, b) ==
  /\ N \in Nat /\ a \in Nat /\ b \in Nat
  /\ \A i \in 1 .. a : kd[i] \in {"PRE", "/PRE", "link"}
  /\ kd[a + 1] = "PRE" /\ (\A i \in a + 2 .. a + N + 1 : kd[i] = "link") /\ kd[a + N + 2] = "/PRE"
  /\ kd[a + N + 3] = RepKind /\ kd[a + N + 4] = "PRE" /\ kd[a + N + 5] = "link" /\ kd[a + N + 6] = "/PRE"
  /\ b = 0 => a = 0
  /\ b # 0 => a >= 3 /\ kd[1] = "PRE" /\ kd[2] = "link" /\ kd[3] = "/PRE" /\ kd[4] = "PRE"

(* The kinds of the tokens on a page with advertisements.                  *)
LEMMA AdvertKinds ==
  \A page, x, N, a, b, W, kd :
    WithAdverts(page, x, N, a, b, W) /\ AreLinks(x, N) /\ kd = [i \in 1 .. a + N + 6 |-> page[i].kind]
    => KindsWith(kd, N, a, b)
<1> TAKE page, x, N, a, b, W, kd
<1> HAVE WithAdverts(page, x, N, a, b, W) /\ AreLinks(x, N) /\ kd = [i \in 1 .. a + N + 6 |-> page[i].kind]
<1>1. /\ N \in Nat /\ a \in Nat /\ b \in Nat
      /\ page[a + N + 3] = Rep /\ page[a + N + 4] = Pre /\ page[a + N + 5] = Ad /\ page[a + N + 6] = Post
      /\ \A i \in 1 .. a : page[i] \in Marks
      /\ b = 0 => a = 0
      /\ b # 0 => a >= 3 /\ page[1] = Pre /\ page[2] = Ad /\ page[3] = Post /\ page[4] = Pre
  BY Zenon DEF WithAdverts
<1>2. /\ page[a + 1] = Pre /\ page[a + N + 2] = Post
      /\ \A i \in 1 .. N : page[a + 1 + i] = x[i] /\ x[i].kind = "link"
  <2>1. InBody(page, x, N, a) /\ \A i \in 1 .. N : x[i].kind = "link"
    BY Zenon DEF WithAdverts, AreLinks
  <2> QED
    BY <2>1, Zenon DEF InBody
<1>3. PICK n \in Nat : n = a + N + 6
  BY <1>1
<1>4. \A i \in 1 .. n : kd[i] = page[i].kind
  BY <1>3
<1>5. /\ a + 1 \in 1 .. n /\ a + N + 2 \in 1 .. n /\ a + N + 3 \in 1 .. n /\ a + N + 4 \in 1 .. n
      /\ a + N + 5 \in 1 .. n /\ a + N + 6 \in 1 .. n /\ 1 \in 1 .. n /\ 2 \in 1 .. n /\ 3 \in 1 .. n /\ 4 \in 1 .. n
  BY <1>1, <1>3
<1>6. /\ kd[a + 1] = "PRE" /\ kd[a + N + 2] = "/PRE" /\ kd[a + N + 3] = RepKind /\ kd[a + N + 4] = "PRE"
      /\ kd[a + N + 5] = "link" /\ kd[a + N + 6] = "/PRE"
  BY <1>1, <1>2, <1>4, <1>5, TokenKinds
<1>7. b # 0 => a >= 3 /\ kd[1] = "PRE" /\ kd[2] = "link" /\ kd[3] = "/PRE" /\ kd[4] = "PRE"
  BY <1>1, <1>4, <1>5, TokenKinds
<1>8. ASSUME NEW i \in 1 .. a PROVE kd[i] \in {"PRE", "/PRE", "link"}
  <2>1. i \in 1 .. n
    BY <1>1, <1>3
  <2>2. page[i] = Pre \/ page[i] = Ad \/ page[i] = Post
    BY <1>1, Zenon DEF Marks
  <2> QED
    BY <1>4, <2>1, <2>2, TokenKinds
<1>9. ASSUME NEW i \in a + 2 .. a + N + 1 PROVE kd[i] = "link"
  <2>1. PICK j \in 1 .. N : i = a + 1 + j
    <3>1. i - a - 1 \in 1 .. N /\ i = a + 1 + (i - a - 1)
      BY <1>1
    <3> QED
      BY <3>1
  <2>2. i \in 1 .. n
    BY <1>1, <1>3
  <2> QED
    BY <1>2, <1>4, <2>1, <2>2
<1> QED
  BY <1>1, <1>6, <1>7, <1>8, <1>9, Zenon DEF KindsWith

(* What the parser finds when n tokens have come.                          *)
FoundOn(y, n, N, a, b) ==
  \/ n < a + N + 3 /\ Nothing(y)
  \/ n >= a + N + 2 /\ Section(y, a + 1, a + N + 2)
  \/ b # 0 /\ n = 3 /\ Section(y, 1, 3)

(* Of such kinds the parser finds the hits, an advertisement if no more    *)
(* has come, or nothing.                                                   *)
LEMMA SectionFound ==
  \A y, kd, n, N, a, b, pre, post, rep :
    /\ KindsWith(kd, N, a, b) /\ n \in 0 .. a + N + 6
    /\ pre = {i \in 1 .. n : kd[i] = "PRE"} /\ post = {i \in 1 .. n : kd[i] = "/PRE"}
    /\ rep = {i \in 1 .. n : kd[i] = RepKind} /\ Looks(y, pre, post, rep)
    => FoundOn(y, n, N, a, b)
<1> TAKE y, kd, n, N, a, b, pre, post, rep
<1> HAVE /\ KindsWith(kd, N, a, b) /\ n \in 0 .. a + N + 6
         /\ pre = {i \in 1 .. n : kd[i] = "PRE"} /\ post = {i \in 1 .. n : kd[i] = "/PRE"}
         /\ rep = {i \in 1 .. n : kd[i] = RepKind} /\ Looks(y, pre, post, rep)
<1>1. /\ N \in Nat /\ a \in Nat /\ b \in Nat
      /\ \A i \in 1 .. a : kd[i] \in {"PRE", "/PRE", "link"}
      /\ kd[a + 1] = "PRE" /\ (\A i \in a + 2 .. a + N + 1 : kd[i] = "link") /\ kd[a + N + 2] = "/PRE"
      /\ kd[a + N + 3] = RepKind /\ kd[a + N + 4] = "PRE" /\ kd[a + N + 5] = "link" /\ kd[a + N + 6] = "/PRE"
      /\ b = 0 => a = 0
      /\ b # 0 => a >= 3 /\ kd[1] = "PRE" /\ kd[2] = "link" /\ kd[3] = "/PRE" /\ kd[4] = "PRE"
  BY Zenon DEF KindsWith
<1>s. "PRE" # "/PRE" /\ "PRE" # "link" /\ "/PRE" # "link" /\ RepKind \notin {"PRE", "/PRE", "link"}
  BY TokenKinds, Zenon
<1>n. n \in Nat /\ n <= a + N + 6
  BY <1>1
<1>2. \A i \in 1 .. n : \/ i \in 1 .. a \/ i = a + 1 \/ i \in a + 2 .. a + N + 1 \/ i = a + N + 2
                        \/ i = a + N + 3 \/ i = a + N + 4 \/ i = a + N + 5 \/ i = a + N + 6
  BY <1>1, <1>n
<1>3. \A i \in 1 .. n : kd[i] = RepKind <=> i = a + N + 3
  <2>1. \A i \in 1 .. a : kd[i] # RepKind
    BY <1>1, <1>s
  <2>2. a + N + 4 # a + N + 3 /\ a + N + 5 # a + N + 3 /\ a + N + 6 # a + N + 3 /\ a + N + 2 # a + N + 3
        /\ a + 1 # a + N + 3 /\ (\A i \in 1 .. a : i # a + N + 3) /\ \A i \in a + 2 .. a + N + 1 : i # a + N + 3
    BY <1>1
  <2> QED
    BY <1>1, <1>2, <1>s, <2>1, <2>2
<1>4. \A i \in pre : i \in 1 .. n /\ (i <= a + 1 \/ i = a + N + 4)
  BY <1>1, <1>2, <1>s
<1>5. \A i \in post : i \in 1 .. n /\ (i <= a \/ i = a + N + 2 \/ i = a + N + 6)
  BY <1>1, <1>2, <1>s
<1>6. CASE M!Single(pre)
  <2>1. PICK p \in pre : pre = {p}
    BY <1>6, Zenon DEF M!Single
  <2>2. \A q \in post : (\A j \in post : q <= j) => Section(y, p, q)
    BY <2>1, OneSection, Zenon
  <2>3. post = {} => Nothing(y)
    BY <2>1, OneSection, Zenon
  <2>4. CASE b = 0
    <3>1. a = 0
      BY <1>1, <2>4
    <3>2. p = a + 1
      <4>1. 1 \in 1 .. n /\ kd[1] = "PRE"
        BY <1>1, <1>4, <1>n, <3>1, <2>1
      <4>2. 1 \in pre
        BY <4>1
      <4> QED
        BY <2>1, <3>1, <4>2
    <3>3. CASE n >= a + N + 2
      <4>1. a + N + 2 \in 1 .. n
        BY <1>1, <1>n, <3>3
      <4>2. a + N + 2 \in post
        BY <1>1, <4>1
      <4>3. \A j \in post : a + N + 2 <= j
        BY <1>1, <1>5, <3>1
      <4>4. Section(y, a + 1, a + N + 2)
        BY <2>2, <3>2, <4>2, <4>3, Zenon
      <4> QED
        BY <3>3, <4>4 DEF FoundOn
    <3>4. CASE ~(n >= a + N + 2)
      <4>1. post = {}
        BY <1>1, <1>5, <1>n, <3>1, <3>4
      <4>2. n < a + N + 3
        BY <1>1, <1>n, <3>4
      <4> QED
        BY <2>3, <4>1, <4>2 DEF FoundOn
    <3> QED
      BY <3>3, <3>4
  <2>5. CASE b # 0
    <3>1. a >= 3 /\ kd[1] = "PRE" /\ kd[2] = "link" /\ kd[3] = "/PRE" /\ kd[4] = "PRE"
      BY <1>1, <2>5
    <3>2. n >= 1
      BY <1>4, <1>n, <2>1
    <3>3. p = 1
      <4>1. 1 \in pre
        BY <1>n, <3>1, <3>2
      <4> QED
        BY <2>1, <4>1
    <3>4. n <= 3
      <4>1. ASSUME ~(n <= 3) PROVE FALSE
        <5>1. 4 \in 1 .. n
          BY <1>n, <4>1
        <5>2. 4 \in pre
          BY <3>1, <5>1
        <5> QED
          BY <2>1, <3>3, <5>2
      <4> QED
        BY <4>1
    <3>5. n < a + N + 3
      BY <1>1, <1>n, <3>1, <3>4
    <3>6. CASE n = 3
      <4>1. 3 \in 1 .. n /\ \A j \in 1 .. n : j = 1 \/ j = 2 \/ j = 3
        BY <3>6
      <4>2. 3 \in post /\ \A j \in post : j = 3
        BY <1>s, <3>1, <4>1
      <4>3. \A j \in post : 3 <= j
        BY <4>2
      <4>4. Section(y, 1, 3)
        BY <2>2, <3>3, <4>2, <4>3, Zenon
      <4> QED
        BY <2>5, <3>6, <4>4 DEF FoundOn
    <3>7. CASE n # 3
      <4>1. \A j \in 1 .. n : j = 1 \/ j = 2
        BY <1>n, <3>4, <3>7
      <4>2. post = {}
        BY <1>s, <3>1, <4>1
      <4> QED
        BY <2>3, <3>5, <4>2 DEF FoundOn
    <3> QED
      BY <3>6, <3>7
  <2> QED
    BY <2>4, <2>5
<1>7. CASE ~M!Single(pre)
  <2>1. CASE n < a + N + 3
    <3>1. rep = {}
      BY <1>1, <1>3, <1>n, <2>1
    <3>2. Nothing(y)
      BY <1>7, <3>1, ManySections, Zenon
    <3> QED
      BY <2>1, <3>2 DEF FoundOn
  <2>2. CASE ~(n < a + N + 3)
    <3>0. PICK p, q, r : p = a + 1 /\ q = a + N + 2 /\ r = a + N + 3
      OBVIOUS
    <3>1. p \in 1 .. n /\ q \in 1 .. n /\ r \in 1 .. n /\ p < r /\ p < q /\ p \in Nat /\ q \in Nat /\ r \in Nat
      BY <1>1, <1>n, <2>2, <3>0
    <3>2. p \in pre /\ q \in post /\ r \in rep
      BY <1>1, <3>0, <3>1
    <3>3. rep = {r}
      BY <1>3, <3>0, <3>2
    <3>4. \A j \in pre : j < r => j <= p
      BY <1>1, <1>4, <3>0
    <3>5. \A j \in post : j > p => q <= j
      BY <1>1, <1>5, <3>0
    <3>6. Section(y, p, q)
      BY <1>7, <3>1, <3>2, <3>3, <3>4, <3>5, ManySections, Zenon
    <3>7. n >= a + N + 2
      BY <1>1, <1>n, <2>2
    <3> QED
      BY <3>0, <3>6, <3>7 DEF FoundOn
  <2> QED
    BY <2>1, <2>2
<1> QED
  BY <1>6, <1>7

(* So it does on a page with advertisements, wherever that was cut.        *)
LEMMA AdvertsLooks ==
  \A page, x, N, a, b, W, n, y :
    WithAdverts(page, x, N, a, b, W) /\ AreLinks(x, N) /\ n \in 0 .. a + N + 6 /\ IsCut(y, page, n)
    => FoundOn(y, n, N, a, b)
<1> TAKE page, x, N, a, b, W, n, y
<1> HAVE WithAdverts(page, x, N, a, b, W) /\ AreLinks(x, N) /\ n \in 0 .. a + N + 6 /\ IsCut(y, page, n)
<1>1. PICK kd : kd = [i \in 1 .. a + N + 6 |-> page[i].kind]
  OBVIOUS
<1>2. KindsWith(kd, N, a, b)
  BY <1>1, AdvertKinds, Zenon
<1>3. N \in Nat /\ a \in Nat
  BY <1>2, Zenon DEF KindsWith
<1>4. n \in Nat /\ \A i \in 1 .. n : kd[i] = page[i].kind /\ kd[i] \in {"PRE", "/PRE", "link", RepKind}
  <2>1. n \in Nat /\ \A i \in 1 .. n : i \in 1 .. a + N + 6
    BY <1>3
  <2>2. \A i \in 1 .. n : \/ i \in 1 .. a \/ i = a + 1 \/ i \in a + 2 .. a + N + 1 \/ i = a + N + 2
                          \/ i = a + N + 3 \/ i = a + N + 4 \/ i = a + N + 5 \/ i = a + N + 6
    BY <1>3
  <2>3. \A i \in 1 .. n : kd[i] \in {"PRE", "/PRE", "link", RepKind}
    BY <1>2, <2>2 DEF KindsWith
  <2>4. \A i \in 1 .. n : kd[i] = page[i].kind
    BY <1>1, <2>1
  <2> QED
    BY <2>1, <2>3, <2>4, Zenon
<1>5. PICK pre, post, rep :
        /\ pre = {i \in 1 .. n : kd[i] = "PRE"} /\ post = {i \in 1 .. n : kd[i] = "/PRE"}
        /\ rep = {i \in 1 .. n : kd[i] = RepKind}
  OBVIOUS
<1>6. Looks(y, pre, post, rep)
  BY <1>4, <1>5, CutLooks, Zenon
<1> QED
  BY <1>2, <1>5, <1>6, SectionFound, Zenon

-----------------------------------------------------------------------------
(***************************************************************************)
(* The list that it makes of them.                                         *)
(***************************************************************************)

(* The links of a section are its texts in their order.                    *)
HasLinks(z, N, T1) ==
  /\ N \in Nat /\ Len(z) = N + 2 /\ z[1].kind # "link" /\ z[N + 2].kind # "link"
  /\ \A i \in 1 .. N : z[i + 1].kind = "link" /\ z[i + 1].text \in T1
LinksTrace(c, z, T1) ==
  /\ c[0] = <<>> /\ M!Links(z) = c[Len(z)]
  /\ \A k \in 1 .. Len(z) : c[k] = M!AddLink(c[k - 1], z[k])

(* The links of a section are gathered token by token.                     *)
LEMMA LinksFold ==
  \A W, z, T1 : z \in Seq(W) /\ (\A i \in 1 .. Len(z) : z[i].kind = "link" => z[i].text \in T1)
    => \E c : LinksTrace(c, z, T1)
<1> TAKE W, z, T1
<1> HAVE z \in Seq(W) /\ \A i \in 1 .. Len(z) : z[i].kind = "link" => z[i].text \in T1
<1>p. PICK p : p = <<>>
  OBVIOUS
<1>0. PICK m, V : m = Len(z) /\ m \in Nat /\ DOMAIN z = 1 .. m /\ V = Seq(T1)
  <2>1. Len(z) \in Nat /\ DOMAIN z = 1 .. Len(z)
    OBVIOUS
  <2> QED
    BY <2>1
<1> DEFINE D == DOMAIN z
           g == [e \in (1 .. m) \X V |-> M!AddLink(e[2], z[e[1]])]
           Raw(h) == h = [s \in SUBSET D |-> IF s = {} THEN p ELSE M!AddLink(h[s \ {Top(s)}], z[Top(s)])]
<1>1. g \in [(1 .. m) \X V -> V] /\ \A k \in 1 .. m, v \in V : g[<<k, v>>] = M!AddLink(v, z[k])
  <2>1. ASSUME NEW k \in 1 .. m, NEW v \in V PROVE M!AddLink(v, z[k]) \in V
    <3>1. CASE z[k].kind = "link"
      <4>1. z[k].text \in T1 /\ v \in Seq(T1)
        BY <1>0, <3>1
      <4>2. Append(v, z[k].text) \in Seq(T1)
        BY <4>1
      <4> QED
        BY <1>0, <3>1, <4>2, Zenon DEF M!AddLink
    <3>2. CASE z[k].kind # "link"
      BY <3>2, Zenon DEF M!AddLink
    <3> QED
      BY <3>1, <3>2
  <2> QED
    BY <2>1
<1>2. PICK F, a : LeftFolds(F, a, m, V, p, g)
  <2>1. p \in V
    BY <1>0, <1>p
  <2> HIDE DEF g
  <2> QED
    BY <1>0, <1>1, <2>1, LeftFold, Zenon
<1> HIDE DEF g
<1>3. Raw(F)
  <2>1. F \in [SUBSET (1 .. m) -> V] /\ F[{}] = p
    BY <1>2 DEF LeftFolds, FoldsLeft
  <2>2. ASSUME NEW s \in SUBSET (1 .. m), s # {} PROVE F[s] = M!AddLink(F[s \ {Top(s)}], z[Top(s)])
    <3>1. Top(s) \in 1 .. m /\ F[s \ {Top(s)}] \in V
      BY <1>2, <2>1, <2>2 DEF LeftFolds
    <3>2. F[s] = g[<<Top(s), F[s \ {Top(s)}]>>]
      BY <1>2, <2>2, <3>1 DEF LeftFolds, FoldsLeft
    <3> QED
      BY <1>1, <3>1, <3>2
  <2>3. F = [s \in SUBSET (1 .. m) |-> IF s = {} THEN p ELSE M!AddLink(F[s \ {Top(s)}], z[Top(s)])]
    BY <2>1, <2>2
  <2> QED
    BY <1>0, <2>3, Zenon
<1>4. PICK h : Raw(h) /\ M!Links(z) = h[D]
  <2>1. Raw(CHOOSE h : Raw(h))
    <3> HIDE DEF Raw
    <3> QED
      BY <1>3, Zenon
  <2>2. M!Links(z) = (CHOOSE h : Raw(h))[D]
    BY <1>p, Zenon DEF M!Links, M!FoldLeft, M!MapThenFoldSet, M!Max, Top
  <2> QED
    <3> HIDE DEF Raw
    <3> QED
      BY <2>1, <2>2, Zenon
<1>5. h = [s \in SUBSET (1 .. m) |-> IF s = {} THEN p ELSE M!AddLink(h[s \ {Top(s)}], z[Top(s)])]
  BY <1>0, <1>4, Zenon
<1> HIDE DEF Raw
<1>6. FoldsLeft(h, m, V, p, g)
  <2>1. h[{}] = p
    BY <1>5
  <2>2. ASSUME NEW s \in SUBSET (1 .. m), s # {}, h[s \ {Top(s)}] \in V
        PROVE  h[s] = g[<<Top(s), h[s \ {Top(s)}]>>]
    <3>1. Top(s) \in 1 .. m
      BY <1>2, <2>2 DEF LeftFolds
    <3>2. h[s] = M!AddLink(h[s \ {Top(s)}], z[Top(s)])
      BY <1>5, <2>2
    <3> QED
      BY <1>1, <2>2, <3>1, <3>2
  <2> QED
    BY <2>1, <2>2 DEF FoldsLeft
<1>7. h[1 .. m] = a[m] /\ Folded(a, m, V, p, g)
  BY <1>2, <1>6, Zenon DEF LeftFolds
<1>8. a[0] = p /\ (\A k \in 0 .. m : a[k] \in V) /\ \A k \in 1 .. m : a[k] = g[<<k, a[k - 1]>>]
  BY <1>7 DEF Folded
<1>9. \A k \in 1 .. m : a[k] = M!AddLink(a[k - 1], z[k])
  <2> SUFFICES ASSUME NEW k \in 1 .. m PROVE a[k] = M!AddLink(a[k - 1], z[k])
    OBVIOUS
  <2>1. k - 1 \in 0 .. m
    BY <1>0
  <2> QED
    BY <1>1, <1>8, <2>1
<1>10. M!Links(z) = a[m]
  BY <1>0, <1>4, <1>7, Zenon
<1>11. LinksTrace(a, z, T1)
  BY <1>0, <1>p, <1>8, <1>9, <1>10, Zenon DEF LinksTrace
<1> QED
  BY <1>11

LinksAre(links, z, N, T1) == links \in Seq(T1) /\ Len(links) = N /\ \A i \in 1 .. N : links[i] = z[i + 1].text

(* They are the texts between its marks.                                   *)
LEMMA LinksOfSection ==
  \A W, z, N, T1 : z \in Seq(W) /\ HasLinks(z, N, T1) => LinksAre(M!Links(z), z, N, T1)
<1> TAKE W, z, N, T1
<1> HAVE z \in Seq(W) /\ HasLinks(z, N, T1)
<1>0. /\ N \in Nat /\ Len(z) = N + 2 /\ z[1].kind # "link" /\ z[N + 2].kind # "link"
      /\ \A i \in 1 .. N : z[i + 1].kind = "link" /\ z[i + 1].text \in T1
  BY Zenon DEF HasLinks
<1>1. \A i \in 1 .. Len(z) : z[i].kind = "link" => z[i].text \in T1
  <2> SUFFICES ASSUME NEW i \in 1 .. N + 2, z[i].kind = "link" PROVE z[i].text \in T1
    BY <1>0
  <2>1. i # 1 /\ i # N + 2
    BY <1>0
  <2>2. i - 1 \in 1 .. N /\ (i - 1) + 1 = i
    BY <1>0, <2>1
  <2> QED
    BY <1>0, <2>2
<1>2. PICK c : LinksTrace(c, z, T1)
  BY <1>1, LinksFold, Zenon
<1>3. c[0] = <<>> /\ M!Links(z) = c[N + 2] /\ \A k \in 1 .. N + 2 : c[k] = M!AddLink(c[k - 1], z[k])
  BY <1>0, <1>2, Zenon DEF LinksTrace
<1>4. c[1] = <<>>
  <2>1. 1 \in 1 .. N + 2 /\ 1 - 1 = 0
    BY <1>0
  <2>2. c[1] = M!AddLink(c[1 - 1], z[1])
    BY <1>3, <2>1
  <2> QED
    BY <1>0, <1>3, <2>1, <2>2, Zenon DEF M!AddLink
<1> DEFINE P == {k \in Nat : k <= N => LinksAre(c[k + 1], z, k, T1)}
<1>5. 0 \in P
  <2>1. c[0 + 1] = <<>>
    BY <1>4
  <2>2. LinksAre(<<>>, z, 0, T1)
    <3>1. <<>> \in Seq(T1) /\ Len(<<>>) = 0 /\ 1 .. 0 = {}
      OBVIOUS
    <3> QED
      BY <3>1, Zenon DEF LinksAre
  <2> QED
    BY <2>1, <2>2, Zenon
<1>6. ASSUME NEW k \in Nat, k \in P PROVE k + 1 \in P
  <2> SUFFICES ASSUME k + 1 <= N PROVE LinksAre(c[(k + 1) + 1], z, k + 1, T1)
    OBVIOUS
  <2>1. PICK q : q = k + 1
    OBVIOUS
  <2>2. q \in 1 .. N /\ q + 1 \in 1 .. N + 2 /\ (q + 1) - 1 = q /\ k <= N
    BY <1>0, <2>1
  <2>3. c[q + 1] = M!AddLink(c[q], z[q + 1])
    BY <1>3, <2>2
  <2>4. z[q + 1].kind = "link" /\ z[q + 1].text \in T1
    BY <1>0, <2>2
  <2>5. PICK s : s = c[q]
    OBVIOUS
  <2>6. PICK t : t = z[q + 1].text
    OBVIOUS
  <2>7. LinksAre(s, z, k, T1) /\ t \in T1
    <3>1. LinksAre(c[k + 1], z, k, T1)
      BY <1>6, <2>2, Zenon
    <3> QED
      BY <2>1, <2>4, <2>5, <2>6, <3>1, Zenon
  <2>8. M!AddLink(s, z[q + 1]) = Append(s, t)
    BY <2>4, <2>6, Zenon DEF M!AddLink
  <2>9. LinksAre(Append(s, t), z, q, T1)
    <3>1. s \in Seq(T1) /\ Len(s) = k /\ \A i \in 1 .. k : s[i] = z[i + 1].text
      BY <2>7, Zenon DEF LinksAre
    <3>2. Append(s, t) \in Seq(T1) /\ Len(Append(s, t)) = q
      BY <2>1, <2>7, <3>1
    <3>3. ASSUME NEW i \in 1 .. q PROVE Append(s, t)[i] = z[i + 1].text
      <4>1. CASE i = q
        BY <2>1, <2>6, <3>1, <4>1
      <4>2. CASE i # q
        <5>1. i \in 1 .. k
          BY <2>1, <4>2
        <5>2. Append(s, t)[i] = s[i]
          BY <3>1, <5>1
        <5> QED
          BY <3>1, <5>1, <5>2
      <4> QED
        BY <4>1, <4>2
    <3> QED
      BY <3>2, <3>3, Zenon DEF LinksAre
  <2> QED
    BY <2>1, <2>3, <2>5, <2>8, <2>9, Zenon
<1>7. LinksAre(c[N + 1], z, N, T1)
  <2>1. \A k \in P : k + 1 \in P
    BY <1>6
  <2> HIDE DEF P
  <2>2. Nat \subseteq P
    BY <1>5, <2>1, NatInductive, Zenon
  <2>3. N \in P
    BY <1>0, <2>2
  <2> QED
    BY <1>0, <2>3 DEF P
<1>8. c[N + 2] = c[N + 1]
  <2>1. N + 2 \in 1 .. N + 2 /\ (N + 2) - 1 = N + 1
    BY <1>0
  <2>2. c[N + 2] = M!AddLink(c[N + 1], z[N + 2])
    BY <1>3, <2>1
  <2> QED
    BY <1>0, <2>2, Zenon DEF M!AddLink
<1> QED
  BY <1>3, <1>7, <1>8, Zenon

(* The part of a page that is a section with links.                        *)
LinksAt(y, p, N, T1) ==
  /\ y[p].kind # "link" /\ y[p + N + 1].kind # "link"
  /\ \A i \in 1 .. N : y[p + i].kind = "link" /\ y[p + i].text \in T1
LinksTexts(links, y, p, N, T1) == links \in Seq(T1) /\ Len(links) = N /\ \A i \in 1 .. N : links[i] = y[p + i].text

(* A part of a sequence, element by element.                               *)
LEMMA PartOf ==
  \A W, y, d, p, q : y \in Seq(W) /\ d = Len(y) /\ p \in 1 .. d /\ q \in p .. d =>
    /\ SubSeq(y, p, q) \in Seq(W) /\ Len(SubSeq(y, p, q)) = q - p + 1
    /\ \A i \in 1 .. q - p + 1 : SubSeq(y, p, q)[i] = y[p + i - 1]
  OBVIOUS

(* The links of the section that begins at a place of a page.              *)
LEMMA LinksOfPart ==
  \A W, y, d, p, N, T1 :
    /\ y \in Seq(W) /\ d = Len(y) /\ N \in Nat /\ p \in 1 .. d /\ p + N + 1 \in 1 .. d /\ LinksAt(y, p, N, T1)
    => LinksTexts(M!Links(SubSeq(y, p, p + N + 1)), y, p, N, T1)
<1> TAKE W, y, d, p, N, T1
<1> HAVE /\ y \in Seq(W) /\ d = Len(y) /\ N \in Nat /\ p \in 1 .. d /\ p + N + 1 \in 1 .. d /\ LinksAt(y, p, N, T1)
<1>0. PICK q, z : q = p + N + 1 /\ z = SubSeq(y, p, q)
  OBVIOUS
<1>1. q \in p .. d /\ q - p + 1 = N + 2 /\ d \in Nat
  BY <1>0
<1>2. z \in Seq(W) /\ Len(z) = q - p + 1 /\ \A i \in 1 .. q - p + 1 : z[i] = y[p + i - 1]
  <2>1. /\ SubSeq(y, p, q) \in Seq(W) /\ Len(SubSeq(y, p, q)) = q - p + 1
        /\ \A i \in 1 .. q - p + 1 : SubSeq(y, p, q)[i] = y[p + i - 1]
    <3>1. p \in 1 .. d /\ q \in p .. d
      BY <1>1
    <3> QED
      BY <3>1, PartOf
  <2> QED
    BY <1>0, <2>1, Zenon
<1>3. Len(z) = N + 2 /\ z[1] = y[p] /\ z[N + 2] = y[p + N + 1] /\ \A i \in 1 .. N : z[i + 1] = y[p + i]
  <2>1. 1 \in 1 .. q - p + 1 /\ N + 2 \in 1 .. q - p + 1 /\ p + 1 - 1 = p /\ p + (N + 2) - 1 = p + N + 1
    BY <1>1
  <2>2. \A i \in 1 .. N : i + 1 \in 1 .. q - p + 1 /\ p + (i + 1) - 1 = p + i
    BY <1>1
  <2> QED
    BY <1>1, <1>2, <2>1, <2>2
<1>4. HasLinks(z, N, T1)
  <2>1. /\ y[p].kind # "link" /\ y[p + N + 1].kind # "link"
        /\ \A i \in 1 .. N : y[p + i].kind = "link" /\ y[p + i].text \in T1
    BY Zenon DEF LinksAt
  <2> QED
    BY <1>3, <2>1, Zenon DEF HasLinks
<1>5. LinksAre(M!Links(z), z, N, T1)
  BY <1>2, <1>4, LinksOfSection, Zenon
<1>6. M!Links(z) \in Seq(T1) /\ Len(M!Links(z)) = N /\ \A i \in 1 .. N : M!Links(z)[i] = z[i + 1].text
  BY <1>5, Zenon DEF LinksAre
<1>7. \A i \in 1 .. N : M!Links(z)[i] = y[p + i].text
  BY <1>3, <1>6, Zenon
<1> QED
  BY <1>0, <1>6, <1>7, Zenon DEF LinksTexts

(* A directory is shown with slashes around it.                            *)
LEMMA StrippedIs ==
  \A service, path : IsSeq(path) /\ (path # <<>> => path[Len(path)] # "/")
    => M!Stripped(service, <<"/">> \o path) = path
<1> TAKE service, path
<1> HAVE IsSeq(path) /\ (path # <<>> => path[Len(path)] # "/")
<1>1. PICK m \in Nat : m = Len(path)
  BY DEF IsSeq
<1>2. PICK V : V = {path[i] : i \in 1 .. m} \cup {"/"}
  OBVIOUS
<1>3. path \in Seq(V)
  <2>1. path = [i \in 1 .. m |-> path[i]]
    BY <1>1 DEF IsSeq
  <2>2. [i \in 1 .. m |-> path[i]] \in Seq(V)
    BY <1>1, <1>2
  <2> QED
    BY <2>1, <2>2
<1>4. PICK p : p = <<"/">> \o path
  OBVIOUS
<1>5. "/" \in V
  BY <1>2
<1>6. p \in Seq(V) /\ Len(p) = 1 + m /\ p[1] = "/" /\ \A i \in 1 .. m : p[1 + i] = path[i]
  BY <1>1, <1>3, <1>4, <1>5
<1>7. p # <<>>
  BY <1>6
<1>8. Tail(p) = path
  <2>1. Tail(p) \in Seq(V) /\ Len(Tail(p)) = m /\ \A i \in 1 .. m : Tail(p)[i] = path[i]
    BY <1>6
  <2> QED
    BY <1>1, <1>3, <2>1, SameSeq
<1>9. M!Last(p) = p[1 + m]
  BY <1>6, Zenon DEF M!Last
<1>10. p[1] = "/"
  BY <1>6
<1>11. CASE m = 0
  <2>1. path = <<>>
    <3>1. <<>> \in Seq(V) /\ Len(<<>>) = m /\ \A i \in 1 .. m : path[i] = <<>>[i]
      BY <1>11
    <3> QED
      BY <1>1, <1>3, <3>1, SameSeq, Zenon
  <2>2. M!Front(p) = <<>>
    <3>1. M!Front(p) = SubSeq(p, 1, Len(p) - 1)
      BY DEF M!Front
    <3>2. Len(p) - 1 = 0
      BY <1>6, <1>11
    <3>3. SubSeq(p, 1, 0) = <<>>
      BY <1>6
    <3> QED
      BY <3>1, <3>2, <3>3, Zenon
  <2>3. CASE service = "FILESEARCH_RU"
    <3>1. M!Last(p) = "/"
      <4>1. 1 + m = 1
        BY <1>11
      <4> QED
        BY <1>9, <1>10, <4>1, Zenon
    <3>2. M!Stripped(service, p) = <<>>
      BY <1>7, <2>2, <2>3, <3>1, Zenon DEF M!Stripped
    <3> QED
      BY <1>4, <2>1, <3>2, Zenon
  <2>4. CASE service # "FILESEARCH_RU"
    <3>1. M!Stripped(service, p) = Tail(p)
      BY <1>7, <1>10, <2>4, Zenon DEF M!Stripped
    <3> QED
      BY <1>4, <1>8, <3>1, Zenon
  <2> QED
    BY <2>3, <2>4
<1>12. CASE m # 0
  <2>1. path # <<>> /\ m \in 1 .. m
    BY <1>1, <1>12
  <2>2. M!Last(p) # "/"
    <3>1. path[m] # "/"
      BY <1>1, <2>1, Zenon
    <3>2. p[1 + m] = path[m]
      BY <1>6, <2>1, Zenon
    <3> QED
      BY <1>9, <3>1, <3>2, Zenon
  <2>3. M!Stripped(service, p) = Tail(p)
    BY <1>7, <1>10, <2>2, Zenon DEF M!Stripped
  <2> QED
    BY <1>4, <1>8, <2>3, Zenon
<1> QED
  BY <1>11, <1>12

(* The mirrors that a page shows.                                          *)
AreMirrors(mirrors, h) ==
  /\ h \in Nat /\ IsSeq(mirrors) /\ Len(mirrors) = h /\ DOMAIN mirrors = 1 .. h
  /\ \A i \in 1 .. h :
       /\ mirrors[i] = [server |-> mirrors[i].server, path |-> mirrors[i].path, file |-> mirrors[i].file]
       /\ IsSeq(mirrors[i].path)
       /\ mirrors[i].path # <<>> => mirrors[i].path[Len(mirrors[i].path)] # "/"

(* What is assumed of a search's hits.                                     *)
LEMMA MirrorsAre == \A mirrors \in Mirrors : \E h : AreMirrors(mirrors, h)
<1> TAKE mirrors \in Mirrors
<1>1. IsSeq(mirrors)
  BY MirrorsAssumption, Zenon
<1>2. PICK h \in Nat : h = Len(mirrors)
  BY <1>1, Zenon DEF IsSeq
<1>3. DOMAIN mirrors = 1 .. h
  <2>1. mirrors = [i \in 1 .. h |-> mirrors[i]]
    BY <1>1, <1>2, Zenon DEF IsSeq
  <2> QED
    BY <2>1
<1>4. \A i \in 1 .. h :
       /\ mirrors[i] = [server |-> mirrors[i].server, path |-> mirrors[i].path, file |-> mirrors[i].file]
       /\ IsSeq(mirrors[i].path)
       /\ mirrors[i].path # <<>> => mirrors[i].path[Len(mirrors[i].path)] # "/"
  BY <1>3, MirrorsAssumption, Zenon
<1> QED
  BY <1>1, <1>2, <1>3, <1>4, Zenon DEF AreMirrors

(* The links of the section with the hits.                                 *)
TextsOf(links, mirrors, h) ==
  /\ Len(links) = 3 * h
  /\ \A k \in 1 .. h : /\ links[3 * k - 2] = mirrors[k].server
                       /\ links[3 * k - 1] = <<"/">> \o mirrors[k].path
                       /\ links[3 * k] = mirrors[k].file
HitsOf(service, links) == [k \in 1 .. Len(links) \div 3 |-> M!Hit(service, links, k)]

(* Three links each give the mirrors back (parse_lycos_html_mirror_list).  *)
LEMMA HitsOfTexts ==
  \A service, links, mirrors, h : AreMirrors(mirrors, h) /\ TextsOf(links, mirrors, h)
    => HitsOf(service, links) = mirrors
<1> TAKE service, links, mirrors, h
<1> HAVE AreMirrors(mirrors, h) /\ TextsOf(links, mirrors, h)
<1>1. h \in Nat /\ mirrors = [k \in 1 .. h |-> mirrors[k]]
  <2>1. h \in Nat /\ IsSeq(mirrors) /\ Len(mirrors) = h
    BY Zenon DEF AreMirrors
  <2> QED
    BY <2>1, Zenon DEF IsSeq
<1>2. Len(links) \div 3 = h
  <2>1. Len(links) = 3 * h
    BY Zenon DEF TextsOf
  <2>2. (3 * h) \div 3 = h
    BY <1>1
  <2> QED
    BY <2>1, <2>2
<1>3. ASSUME NEW k \in 1 .. h PROVE M!Hit(service, links, k) = mirrors[k]
  <2>1. /\ links[3 * k - 2] = mirrors[k].server
        /\ links[3 * k - 1] = <<"/">> \o mirrors[k].path
        /\ links[3 * k] = mirrors[k].file
    BY Zenon DEF TextsOf
  <2>2. PICK m : m = mirrors[k]
    OBVIOUS
  <2>3. m = [server |-> m.server, path |-> m.path, file |-> m.file]
    BY <2>2, Zenon DEF AreMirrors
  <2>4. M!Stripped(service, <<"/">> \o m.path) = m.path
    BY <2>2, StrippedIs, Zenon DEF AreMirrors
  <2>5. M!Hit(service, links, k) = [server |-> m.server, path |-> m.path, file |-> m.file]
    BY <2>1, <2>2, <2>4, Zenon DEF M!Hit
  <2> QED
    BY <2>2, <2>3, <2>5, Zenon
<1>4. [k \in 1 .. h |-> M!Hit(service, links, k)] = [k \in 1 .. h |-> mirrors[k]]
  BY <1>3
<1>5. HitsOf(service, links) = [k \in 1 .. h |-> M!Hit(service, links, k)]
  BY <1>2, Zenon DEF HitsOf
<1> QED
  BY <1>1, <1>4, <1>5, Zenon

(* What is made of the page in each case.                                  *)
LEMMA NothingParsed ==
  \A service, y, own : Nothing(y) => M!ParseMirrorList(service, y, own).list = <<>>
<1> TAKE service, y, own
<1> HAVE Nothing(y)
<1>1. M!ParseMirrorList(service, y, own) = M!NoList("MIRPARSEFAIL")
  BY Zenon DEF M!ParseMirrorList, Nothing, NoneKind
<1>2. M!NoList("MIRPARSEFAIL").list = <<>>
  BY DEF M!NoList
<1> QED
  BY <1>1, <1>2

(* A section gives its hits and the user's own server, unless it has no    *)
(* link.                                                                   *)
LEMMA SectionParsed ==
  \A service, y, own, p, q, links : Section(y, p, q) /\ links = M!Links(SubSeq(y, p, q))
    => M!ParseMirrorList(service, y, own)
         = [err |-> "MIRINFOK", list |-> IF links = <<>> THEN <<>> ELSE M!WithOwn(HitsOf(service, links), own)]
<1> TAKE service, y, own, p, q, links
<1> HAVE Section(y, p, q) /\ links = M!Links(SubSeq(y, p, q))
<1>1. ~M!Has(y, NoneKind) /\ ~M!Unlisted(y) /\ M!ListStart(y) = p /\ M!ListEnd(y) = q
  BY Zenon DEF Section
<1> QED
  BY <1>1, Zenon DEF M!ParseMirrorList, HitsOf, NoneKind

(* The section with the hits gives the list of them.                       *)
LEMMA HitsParsed ==
  \A service, y, own, p, q, links, mirrors, h :
    /\ Section(y, p, q) /\ links = M!Links(SubSeq(y, p, q))
    /\ AreMirrors(mirrors, h) /\ TextsOf(links, mirrors, h)
    /\ links = <<>> <=> h = 0
    => M!ListsHits(mirrors, own, M!ParseMirrorList(service, y, own))
<1> TAKE service, y, own, p, q, links, mirrors, h
<1> HAVE /\ Section(y, p, q) /\ links = M!Links(SubSeq(y, p, q))
         /\ AreMirrors(mirrors, h) /\ TextsOf(links, mirrors, h)
         /\ links = <<>> <=> h = 0
<1>1. M!ParseMirrorList(service, y, own)
         = [err |-> "MIRINFOK", list |-> IF links = <<>> THEN <<>> ELSE M!WithOwn(HitsOf(service, links), own)]
  BY SectionParsed, Zenon
<1>2. HitsOf(service, links) = mirrors
  BY HitsOfTexts, Zenon
<1>3. mirrors = <<>> <=> h = 0
  <2>1. h \in Nat /\ IsSeq(mirrors) /\ Len(mirrors) = h
    BY Zenon DEF AreMirrors
  <2>2. h = 0 => mirrors = <<>>
    <3>1. mirrors = [i \in 1 .. h |-> mirrors[i]]
      BY <2>1, Zenon DEF IsSeq
    <3> QED
      BY <3>1
  <2> QED
    BY <2>1, <2>2
<1>4. M!WithOwn(HitsOf(service, links), own) = mirrors \o (IF own.proto = "ftp" THEN <<own.mirror>> ELSE <<>>)
  BY <1>2, Zenon DEF M!WithOwn
<1> QED
  BY <1>1, <1>3, <1>4, Zenon DEF M!ListsHits

(* Every server of a list is a mirror or the user's own.                   *)
Named(mirrors, own, list) ==
  \A i \in DOMAIN list : list[i] = own.mirror \/ \E j \in DOMAIN mirrors : list[i] = mirrors[j]

(* An empty list names nobody.                                             *)
LEMMA NobodyNamed == \A mirrors, own : Named(mirrors, own, <<>>)
  BY DEF Named

(* The list of the hits names only them and the user's own server.         *)
LEMMA HitsNamed ==
  \A mirrors, h, own, got1 : AreMirrors(mirrors, h) /\ M!ListsHits(mirrors, own, got1)
    => Named(mirrors, own, got1.list)
<1> TAKE mirrors, h, own, got1
<1> HAVE AreMirrors(mirrors, h) /\ M!ListsHits(mirrors, own, got1)
<1>1. PICK o : o = IF own.proto = "ftp" THEN <<own.mirror>> ELSE <<>>
  OBVIOUS
<1>2. PICK l : l = IF mirrors = <<>> THEN <<>> ELSE mirrors \o o
  OBVIOUS
<1>3. got1 = [err |-> "MIRINFOK", list |-> l]
  BY <1>1, <1>2, Zenon DEF M!ListsHits
<1>4. got1.list = l
  BY <1>3
<1>5. CASE mirrors = <<>>
  BY <1>2, <1>4, <1>5, NobodyNamed
<1>6. CASE mirrors # <<>>
  <2>1. h \in Nat /\ mirrors = [k \in 1 .. h |-> mirrors[k]] /\ DOMAIN mirrors = 1 .. h
    BY Zenon DEF AreMirrors, IsSeq
  <2>2. PICK V : V = {mirrors[k] : k \in 1 .. h} \cup {own.mirror}
    OBVIOUS
  <2>3. mirrors \in Seq(V) /\ Len(mirrors) = h
    <3>1. [k \in 1 .. h |-> mirrors[k]] \in Seq(V) /\ Len(mirrors) = h
      <4>1. [k \in 1 .. h |-> mirrors[k]] \in Seq(V)
        BY <2>1, <2>2
      <4> QED
        BY <4>1, Zenon DEF AreMirrors
    <3> QED
      BY <2>1, <3>1, Zenon
  <2>4. o \in Seq(V) /\ \A i \in 1 .. Len(o) : o[i] = own.mirror
    <3>1. own.mirror \in V
      BY <2>2
    <3>2. CASE own.proto = "ftp"
      <4>1. o = <<own.mirror>>
        BY <1>1, <3>2, Zenon
      <4>2. PICK t : t = own.mirror
        OBVIOUS
      <4>3. <<t>> \in Seq(V) /\ Len(<<t>>) = 1 /\ <<t>>[1] = t
        BY <3>1, <4>2, OneIs
      <4> QED
        BY <4>1, <4>2, <4>3
    <3>3. CASE own.proto # "ftp"
      BY <1>1, <3>3
    <3> QED
      BY <3>2, <3>3
  <2>5. PICK d : d = Len(o)
    OBVIOUS
  <2>6. IsBehind(V, mirrors, o, h, d)
    BY <2>3, <2>4, <2>5, Behind, Zenon
  <2>7. /\ l \in Seq(V) /\ Len(l) = h + d
        /\ (\A i \in 1 .. h : l[i] = mirrors[i]) /\ \A i \in 1 .. d : l[h + i] = o[i]
    BY <1>2, <1>6, <2>6, Zenon DEF IsBehind
  <2>8. ASSUME NEW i \in 1 .. h + d PROVE l[i] = own.mirror \/ \E j \in DOMAIN mirrors : l[i] = mirrors[j]
    <3>1. CASE i \in 1 .. h
      BY <2>1, <2>7, <3>1, Zenon
    <3>2. CASE i \notin 1 .. h
      <4>1. d \in Nat
        BY <2>4, <2>5
      <4>2. i - h \in 1 .. d /\ h + (i - h) = i
        BY <2>1, <3>2, <4>1
      <4>3. l[i] = o[i - h] /\ o[i - h] = own.mirror
        BY <2>4, <2>5, <2>7, <4>2
      <4> QED
        BY <4>3
    <3> QED
      BY <3>1, <3>2
  <2>9. DOMAIN l = 1 .. h + d
    BY <2>7
  <2> QED
    BY <1>4, <2>8, <2>9, Zenon DEF Named
<1> QED
  BY <1>5, <1>6

(* The tokens of the hits.                                                 *)
AreTokens(x, mirrors, h, N, T1, W) ==
  /\ AreMirrors(mirrors, h) /\ N = 3 * h /\ x = ShownText(mirrors) /\ x \in Seq(W) /\ Len(x) = N /\ AreLinks(x, N)
  /\ AllMarks \subseteq W /\ \A i \in 1 .. N : x[i].text \in T1
  /\ \A k \in 1 .. h : /\ x[3 * k - 2].text = mirrors[k].server
                       /\ x[3 * k - 1].text = <<"/">> \o mirrors[k].path
                       /\ x[3 * k].text = mirrors[k].file

(* The tokens of the section with the hits.                                *)
LEMMA TokensOfHits ==
  \A mirrors, h : AreMirrors(mirrors, h) => \E x, N, T1, W : AreTokens(x, mirrors, h, N, T1, W)
<1> TAKE mirrors, h
<1> HAVE AreMirrors(mirrors, h)
<1>1. PICK T1, X, W, x, N :
        T1 = LinkTexts(mirrors, h) /\ X = LinksOf(T1) /\ W = X \cup AllMarks /\ x = ShownText(mirrors) /\ N = 3 * h
  OBVIOUS
<1>2. h \in Nat /\ DOMAIN mirrors = 1 .. h
  BY Zenon DEF AreMirrors
<1>3. IsShown(x, mirrors, h, X)
  BY <1>1, <1>2, HitsShown, Zenon
<1>4. /\ x \in Seq(X) /\ Len(x) = N
      /\ \A k \in 1 .. h : /\ x[3 * k - 2] = M!Link(mirrors[k].server)
                           /\ x[3 * k - 1] = M!Link(<<"/">> \o mirrors[k].path)
                           /\ x[3 * k] = M!Link(mirrors[k].file)
  BY <1>1, <1>3, Zenon DEF IsShown
<1>5. x \in Seq(W) /\ AllMarks \subseteq W
  BY <1>1, <1>4
<1>6. N \in Nat /\ \A i \in 1 .. N : x[i] \in X
  BY <1>1, <1>2, <1>4
<1>7. \A t \in X : t.kind = "link" /\ t.text \in T1
  BY <1>1, LinkKind DEF LinksOf
<1>8. AreLinks(x, N) /\ \A i \in 1 .. N : x[i].text \in T1
  BY <1>6, <1>7, Zenon DEF AreLinks
<1>9. ASSUME NEW k \in 1 .. h
      PROVE  /\ x[3 * k - 2].text = mirrors[k].server
             /\ x[3 * k - 1].text = <<"/">> \o mirrors[k].path
             /\ x[3 * k].text = mirrors[k].file
  <2>1. /\ M!Link(mirrors[k].server).text = mirrors[k].server
        /\ M!Link(<<"/">> \o mirrors[k].path).text = <<"/">> \o mirrors[k].path
        /\ M!Link(mirrors[k].file).text = mirrors[k].file
    BY LinkKind, Zenon
  <2> QED
    BY <1>4, <2>1, Zenon
<1>10. AreTokens(x, mirrors, h, N, T1, W)
  BY <1>1, <1>4, <1>5, <1>8, <1>9, Zenon DEF AreTokens
<1> QED
  BY <1>10, Zenon

(* What is made of the section with the hits.                              *)
LEMMA HitsSection ==
  \A service, own, y, d, a, x, mirrors, h, N, T1, W :
    /\ AreTokens(x, mirrors, h, N, T1, W) /\ y \in Seq(W) /\ d = Len(y) /\ a \in Nat /\ d >= a + N + 2
    /\ InBody(y, x, N, a) /\ Section(y, a + 1, a + N + 2)
    => M!ListsHits(mirrors, own, M!ParseMirrorList(service, y, own))
<1> TAKE service, own, y, d, a, x, mirrors, h, N, T1, W
<1> HAVE /\ AreTokens(x, mirrors, h, N, T1, W) /\ y \in Seq(W) /\ d = Len(y) /\ a \in Nat /\ d >= a + N + 2
         /\ InBody(y, x, N, a) /\ Section(y, a + 1, a + N + 2)
<1>1. /\ AreMirrors(mirrors, h) /\ h \in Nat /\ N = 3 * h
      /\ \A i \in 1 .. N : x[i].text \in T1 /\ x[i].kind = "link"
      /\ \A k \in 1 .. h : /\ x[3 * k - 2].text = mirrors[k].server
                           /\ x[3 * k - 1].text = <<"/">> \o mirrors[k].path
                           /\ x[3 * k].text = mirrors[k].file
  BY Zenon DEF AreTokens, AreMirrors, AreLinks
<1>2. PICK p, q, links : p = a + 1 /\ q = a + N + 2 /\ links = M!Links(SubSeq(y, p, q))
  OBVIOUS
<1>3. N \in Nat /\ d \in Nat /\ p \in 1 .. d /\ q \in 1 .. d /\ q = p + N + 1
  <2>1. N \in Nat
    BY <1>1
  <2>2. d \in Nat
    OBVIOUS
  <2> QED
    BY <1>2, <2>1, <2>2
<1>4. y[p] = Pre /\ y[q] = Post /\ \A i \in 1 .. N : y[p + i] = x[i]
  <2>1. y[a + 1] = Pre /\ (\A i \in 1 .. N : y[a + 1 + i] = x[i]) /\ y[a + N + 2] = Post
    BY Zenon DEF InBody
  <2> QED
    BY <1>2, <2>1, Zenon
<1>5. LinksAt(y, p, N, T1)
  <2>1. y[p].kind # "link" /\ y[p + N + 1].kind # "link"
    BY <1>3, <1>4, TokenKinds
  <2> QED
    BY <1>1, <1>4, <2>1, Zenon DEF LinksAt
<1>6. LinksTexts(links, y, p, N, T1)
  <2>1. LinksTexts(M!Links(SubSeq(y, p, p + N + 1)), y, p, N, T1)
    <3>1. p + N + 1 \in 1 .. d
      BY <1>3
    <3> QED
      BY <1>3, <1>5, <3>1, LinksOfPart, Zenon
  <2> QED
    BY <1>2, <1>3, <2>1, Zenon
<1>7. links \in Seq(T1) /\ Len(links) = N /\ \A i \in 1 .. N : links[i] = x[i].text
  BY <1>4, <1>6, Zenon DEF LinksTexts
<1>8. TextsOf(links, mirrors, h)
  <2>1. ASSUME NEW k \in 1 .. h
        PROVE  /\ links[3 * k - 2] = mirrors[k].server
               /\ links[3 * k - 1] = <<"/">> \o mirrors[k].path
               /\ links[3 * k] = mirrors[k].file
    <3>1. 3 * k - 2 \in 1 .. N /\ 3 * k - 1 \in 1 .. N /\ 3 * k \in 1 .. N
      BY <1>1
    <3>2. links[3 * k - 2] = x[3 * k - 2].text /\ links[3 * k - 1] = x[3 * k - 1].text /\ links[3 * k] = x[3 * k].text
      BY <1>7, <3>1, Zenon
    <3> QED
      BY <1>1, <3>2, Zenon
  <2> QED
    BY <1>1, <1>7, <2>1, Zenon DEF TextsOf
<1>9. links = <<>> <=> h = 0
  <2>1. h = 0 => links = <<>>
    <3> HAVE h = 0
    <3>1. N = 0
      BY <1>1
    <3>2. <<>> \in Seq(T1) /\ Len(<<>>) = N /\ \A i \in 1 .. N : links[i] = <<>>[i]
      BY <3>1
    <3> QED
      BY <1>7, <3>2, SameSeq, Zenon
  <2>2. links = <<>> => h = 0
    <3> HAVE links = <<>>
    <3>1. Len(links) = 0
      OBVIOUS
    <3> QED
      BY <1>1, <1>7, <3>1
  <2> QED
    BY <2>1, <2>2
<1>10. Section(y, p, q)
  BY <1>2, Zenon
<1> QED
  BY <1>1, <1>2, <1>8, <1>9, <1>10, HitsParsed, Zenon

(* What is made of one with an advertisement: no hit.                      *)
LEMMA AdvertSection ==
  \A service, own, mirrors, y, d, W :
    y \in Seq(W) /\ d = Len(y) /\ d = 3 /\ y[1] = Pre /\ y[2] = Ad /\ y[3] = Post /\ Section(y, 1, 3)
    => Named(mirrors, own, M!ParseMirrorList(service, y, own).list)
<1> TAKE service, own, mirrors, y, d, W
<1> HAVE y \in Seq(W) /\ d = Len(y) /\ d = 3 /\ y[1] = Pre /\ y[2] = Ad /\ y[3] = Post /\ Section(y, 1, 3)
<1>1. PICK links, one, T1, t : links = M!Links(SubSeq(y, 1, 3)) /\ one = 1 /\ t = <<"advert">> /\ T1 = {t}
  OBVIOUS
<1>2. LinksAt(y, 1, one, T1)
  <2>1. Pre.kind # "link" /\ Post.kind # "link" /\ Ad.kind = "link"
    BY TokenKinds
  <2>2. Ad.text \in T1
    BY <1>1, LinkKind DEF Ad
  <2>3. 1 + one + 1 = 3 /\ \A i \in 1 .. one : 1 + i = 2
    BY <1>1
  <2> QED
    BY <2>1, <2>2, <2>3, Zenon DEF LinksAt
<1>3. LinksTexts(links, y, 1, one, T1)
  <2>1. one \in Nat /\ 1 \in 1 .. d /\ 1 + one + 1 = 3 /\ 3 \in 1 .. d
    BY <1>1
  <2>2. LinksTexts(M!Links(SubSeq(y, 1, 1 + one + 1)), y, 1, one, T1)
    BY <1>2, <2>1, LinksOfPart, Zenon
  <2> QED
    BY <1>1, <2>1, <2>2, Zenon
<1>4. Len(links) = one
  BY <1>3, Zenon DEF LinksTexts
<1>5. HitsOf(service, links) = <<>>
  <2>1. Len(links) \div 3 = 0
    <3>1. one = 1
      BY <1>1
    <3>2. one \div 3 = 0
      BY <3>1
    <3> QED
      BY <1>4, <3>2, Zenon
  <2>2. [k \in 1 .. 0 |-> M!Hit(service, links, k)] = <<>>
    OBVIOUS
  <2> QED
    BY <2>1, <2>2, Zenon DEF HitsOf
<1>6. PICK o : o = IF own.proto = "ftp" THEN <<own.mirror>> ELSE <<>>
  OBVIOUS
<1>7. M!WithOwn(HitsOf(service, links), own) = <<>> \o o
  BY <1>5, <1>6, Zenon DEF M!WithOwn
<1>8. PICK l : l = IF links = <<>> THEN <<>> ELSE <<>> \o o
  OBVIOUS
<1>9. M!ParseMirrorList(service, y, own) = [err |-> "MIRINFOK", list |-> l]
  <2>1. M!ParseMirrorList(service, y, own)
         = [err |-> "MIRINFOK", list |-> IF links = <<>> THEN <<>> ELSE M!WithOwn(HitsOf(service, links), own)]
    BY <1>1, SectionParsed, ZenonT(60)
  <2> QED
    BY <1>7, <1>8, <2>1, Zenon
<1>10. M!ParseMirrorList(service, y, own).list = l
  BY <1>9
<1>11. \A i \in DOMAIN l : l[i] = own.mirror
  <2>1. CASE own.proto = "ftp"
    <3>1. o = <<own.mirror>>
      BY <1>6, <2>1, Zenon
    <3> QED
      BY <1>8, <3>1
  <2>2. CASE own.proto # "ftp"
    BY <1>6, <1>8, <2>2
  <2> QED
    BY <2>1, <2>2
<1> QED
  BY <1>10, <1>11, Zenon DEF Named

(* What the parser makes of a page that has come so far.                   *)
IsListed(mirrors, own, n, d, got1) ==
  /\ n = d => M!ListsHits(mirrors, own, got1)
  /\ Named(mirrors, own, got1.list)

(* A page gives its hits when it is whole, and names no other server when  *)
(* it was cut, wherever that was.                                          *)
LEMMA PageParsed ==
  \A service, own, mirrors, before, n :
    mirrors \in Mirrors /\ before \in Sections /\ n \in 0 .. Len(M!Page(mirrors, before)) =>
    IsListed(mirrors, own, n, Len(M!Page(mirrors, before)),
             M!ParseMirrorList(service, SubSeq(M!Page(mirrors, before), 1, n), own))
<1> TAKE service, own, mirrors, before, n
<1> HAVE mirrors \in Mirrors /\ before \in Sections /\ n \in 0 .. Len(M!Page(mirrors, before))
<1>1. PICK page, d : page = M!Page(mirrors, before) /\ d = Len(page)
  OBVIOUS
<1> SUFFICES IsListed(mirrors, own, n, d, M!ParseMirrorList(service, SubSeq(page, 1, n), own))
  BY <1>1, Zenon
<1>n. n \in 0 .. d
  BY <1>1, Zenon
<1>2. PICK h : AreMirrors(mirrors, h)
  BY MirrorsAre
<1>3. PICK x, N, T1, W : AreTokens(x, mirrors, h, N, T1, W)
  BY <1>2, TokensOfHits, Zenon
<1>4. x = ShownText(mirrors) /\ x \in Seq(W) /\ N = Len(x) /\ AllMarks \subseteq W /\ AreLinks(x, N) /\ N \in Nat
  BY <1>3, Zenon DEF AreTokens, AreLinks
<1>5. PICK y, g : y = SubSeq(page, 1, n) /\ g = M!ParseMirrorList(service, y, own)
  OBVIOUS
<1>6. ASSUME Nothing(y), n # d PROVE IsListed(mirrors, own, n, d, g)
  BY <1>5, <1>6, NothingParsed, NobodyNamed, Zenon DEF IsListed
<1>7. ASSUME NEW a \in Nat, page \in Seq(W), InBody(page, x, N, a), n >= a + N + 2, Section(y, a + 1, a + N + 2)
      PROVE  IsListed(mirrors, own, n, d, g)
  <2>1. y \in Seq(W) /\ IsCut(y, page, n)
    BY <1>1, <1>n, <1>5, <1>7, CutOf
  <2>2. n \in Nat /\ n = Len(y) /\ \A i \in 1 .. n : y[i] = page[i]
    <3>1. DOMAIN y = 1 .. n /\ \A i \in 1 .. n : y[i] = page[i]
      BY <2>1, Zenon DEF IsCut
    <3> QED
      BY <1>1, <1>7, <2>1, <3>1
  <2>3. InBody(y, x, N, a)
    <3>1. a + 1 \in 1 .. n /\ a + N + 2 \in 1 .. n /\ \A i \in 1 .. N : a + 1 + i \in 1 .. n
      BY <1>4, <1>7, <2>2
    <3>2. page[a + 1] = Pre /\ (\A i \in 1 .. N : page[a + 1 + i] = x[i]) /\ page[a + N + 2] = Post
      BY <1>7, Zenon DEF InBody
    <3> QED
      BY <2>2, <3>1, <3>2, Zenon DEF InBody
  <2>4. M!ListsHits(mirrors, own, g)
    BY <1>3, <1>5, <1>7, <2>1, <2>2, <2>3, HitsSection, Zenon
  <2> QED
    BY <1>2, <2>4, HitsNamed, Zenon DEF IsListed
<1>8. CASE before = -1
  <2>1. OnlyHits(page, x, N, W)
    BY <1>1, <1>4, <1>8, PageWithHits, Zenon
  <2>2. page \in Seq(W) /\ Len(page) = N + 3 /\ InBody(page, x, N, 1)
    BY <2>1, Zenon DEF OnlyHits
  <2>3. d = N + 3
    BY <1>1, <2>2, Zenon
  <2>4. IsCut(y, page, n)
    BY <1>1, <1>n, <1>5, <2>2, CutOf
  <2>5. IF n = N + 3 THEN Section(y, 2, N + 3) ELSE Nothing(y)
    BY <1>n, <1>4, <2>1, <2>3, <2>4, OnlyHitsLooks, Zenon
  <2>6. CASE n = N + 3
    <3>1. 1 \in Nat /\ n >= 1 + N + 2 /\ 1 + 1 = 2 /\ 1 + N + 2 = N + 3
      BY <1>4, <2>6
    <3> QED
      BY <1>5, <1>7, <2>2, <2>5, <2>6, <3>1, Zenon
  <2>7. CASE n # N + 3
    BY <1>5, <1>6, <2>3, <2>5, <2>7, Zenon
  <2> QED
    BY <2>6, <2>7
<1>9. CASE before # -1
  <2>1. before \in Nat
    BY <1>9, MirrorsAssumption
  <2>2. PICK a : WithAdverts(page, x, N, a, before, W)
    BY <1>1, <1>4, <2>1, PageWithAdverts, Zenon
  <2>3. /\ page \in Seq(W) /\ a \in Nat /\ Len(page) = a + N + 6 /\ InBody(page, x, N, a)
        /\ before # 0 => a >= 3 /\ page[1] = Pre /\ page[2] = Ad /\ page[3] = Post
    BY <2>2, Zenon DEF WithAdverts
  <2>4. d = a + N + 6
    BY <1>1, <2>3, Zenon
  <2>5. y \in Seq(W) /\ IsCut(y, page, n)
    BY <1>1, <1>n, <1>5, <2>3, CutOf
  <2>6. FoundOn(y, n, N, a, before)
    BY <1>n, <1>4, <2>2, <2>4, <2>5, AdvertsLooks, Zenon
  <2>7. CASE n < a + N + 3 /\ Nothing(y)
    <3>1. n # d
      BY <1>4, <2>3, <2>4, <2>7
    <3> QED
      BY <1>5, <1>6, <2>7, <3>1, Zenon
  <2>8. CASE n >= a + N + 2 /\ Section(y, a + 1, a + N + 2)
    BY <1>5, <1>7, <2>3, <2>8, Zenon
  <2>9. CASE before # 0 /\ n = 3 /\ Section(y, 1, 3)
    <3>1. n # d /\ 1 \in 1 .. n /\ 2 \in 1 .. n /\ 3 \in 1 .. n
      BY <1>4, <2>3, <2>4, <2>9
    <3>2. DOMAIN y = 1 .. n /\ \A i \in 1 .. n : y[i] = page[i]
      BY <2>5, Zenon DEF IsCut
    <3>3. y[1] = Pre /\ y[2] = Ad /\ y[3] = Post
      BY <2>3, <2>9, <3>1, <3>2, Zenon
    <3>4. n = Len(y)
      BY <2>5, <2>9, <3>2
    <3>5. Named(mirrors, own, M!ParseMirrorList(service, y, own).list)
      BY <2>5, <2>9, <3>3, <3>4, AdvertSection, Zenon
    <3> QED
      BY <1>5, <3>1, <3>5, Zenon DEF IsListed
  <2> QED
    BY <2>6, <2>7, <2>8, <2>9, Zenon DEF FoundOn
<1> QED
  BY <1>8, <1>9

(* An answer is a page if its code is 200, and whole if its end came.      *)
IsRead(service, status, stream, own, got1) ==
  IF status = 200 /\ stream.end = "closed" THEN got1 = M!ParseMirrorList(service, stream.lines, own)
  ELSE got1.list = <<>>
IsAnswer(status) == status \in {200, 404, 503}

(* Only a page with the code 200 whose end has come is parsed; otherwise   *)
(* the list is empty (get_mirror_info).                                    *)
LEMMA PageIsRead ==
  \A service, status, stream, own : IsAnswer(status) =>
    IsRead(service, status, stream, own, M!GetMirrorList(service, status, stream, own))
<1> TAKE service, status, stream, own
<1> HAVE IsAnswer(status)
<1>1. PICK err, got1 : err = M!GetMirrorInfo(status, stream.end) /\ got1 = M!GetMirrorList(service, status, stream, own)
  OBVIOUS
<1>2. \A e : M!NoList(e).list = <<>>
  BY DEF M!NoList
<1>3. err = "HOK" => got1 = M!ParseMirrorList(service, stream.lines, own)
  BY <1>1, Zenon DEF M!GetMirrorList
<1>4. err # "HOK" => got1.list = <<>>
  <2> HAVE err # "HOK"
  <2>1. CASE err = "NEWLOCATION"
    <3>1. got1 = M!NoList("DIES")
      BY <1>1, <2>1, Zenon DEF M!GetMirrorList
    <3> QED
      BY <1>2, <3>1
  <2>2. CASE err # "NEWLOCATION"
    <3>1. got1 = M!NoList(err)
      BY <1>1, <2>2, Zenon DEF M!GetMirrorList
    <3> QED
      BY <1>2, <3>1
  <2> QED
    BY <2>1, <2>2
<1>5. PICK s : s = M!StatusErr(status, <<"none">>)
  OBVIOUS
<1>6. s = "HOK" <=> status = 200
  <2>1. CASE status = 200
    <3>1. status \in 200 .. 299
      BY <2>1
    <3> QED
      BY <1>5, <2>1, <3>1 DEF M!StatusErr
  <2>2. CASE status = 404
    <3>1. status \notin 200 .. 299
      BY <2>2
    <3> QED
      BY <1>5, <2>2, <3>1 DEF M!StatusErr
  <2>3. CASE status = 503
    <3>1. status \notin 200 .. 299
      BY <2>3
    <3> QED
      BY <1>5, <2>3, <3>1 DEF M!StatusErr
  <2> QED
    BY <2>1, <2>2, <2>3 DEF IsAnswer
<1>7. err = "HOK" <=> status = 200 /\ stream.end = "closed"
  <2>1. s # "HOK" => err = s
    BY <1>1, <1>5, Zenon DEF M!GetMirrorInfo
  <2>2. s = "HOK" => err = IF stream.end = "closed" THEN "HOK" ELSE "READERR"
    BY <1>1, <1>5, Zenon DEF M!GetMirrorInfo, M!ReadPage, M!AtEnd
  <2> QED
    BY <1>6, <2>1, <2>2
<1> QED
  BY <1>1, <1>3, <1>4, <1>7, Zenon DEF IsRead

(* What a search gives.                                                    *)
IsSearched(mirrors, own, status, end, n, d, got1) ==
  /\ n = d /\ end = "closed" /\ status = 200 => M!ListsHits(mirrors, own, got1)
  /\ status # 200 => got1.list = <<>>
  /\ Named(mirrors, own, got1.list)

(* What a search gives, whatever was answered.                             *)
LEMMA SearchIs ==
  \A service, mirrors, before, own, status, n, stream :
    /\ mirrors \in Mirrors /\ before \in Sections /\ IsAnswer(status)
    /\ n \in 0 .. Len(M!Page(mirrors, before)) /\ stream.lines = SubSeq(M!Page(mirrors, before), 1, n)
    => IsSearched(mirrors, own, status, stream.end, n, Len(M!Page(mirrors, before)),
                  M!GetMirrorList(service, status, stream, own))
<1> TAKE service, mirrors, before, own, status, n, stream
<1> HAVE /\ mirrors \in Mirrors /\ before \in Sections /\ IsAnswer(status)
         /\ n \in 0 .. Len(M!Page(mirrors, before)) /\ stream.lines = SubSeq(M!Page(mirrors, before), 1, n)
<1>1. PICK d, g, l : d = Len(M!Page(mirrors, before)) /\ g = M!GetMirrorList(service, status, stream, own)
                     /\ l = M!ParseMirrorList(service, stream.lines, own)
  OBVIOUS
<1>2. IsRead(service, status, stream, own, g)
  BY <1>1, PageIsRead, Zenon
<1>3. IsListed(mirrors, own, n, d, l)
  BY <1>1, PageParsed, Zenon
<1>4. CASE status = 200 /\ stream.end = "closed"
  <2>1. g = l
    BY <1>1, <1>2, <1>4, Zenon DEF IsRead
  <2>2. IsListed(mirrors, own, n, d, g)
    BY <1>3, <2>1, Zenon
  <2>3. IsSearched(mirrors, own, status, stream.end, n, d, g)
    BY <1>4, <2>2, Zenon DEF IsListed, IsSearched
  <2> QED
    BY <1>1, <2>3, Zenon
<1>5. CASE ~(status = 200 /\ stream.end = "closed")
  <2>1. g.list = <<>>
    BY <1>2, <1>5, Zenon DEF IsRead
  <2>2. Named(mirrors, own, g.list)
    BY <2>1, NobodyNamed, Zenon
  <2>3. IsSearched(mirrors, own, status, stream.end, n, d, g)
    BY <1>5, <2>1, <2>2, Zenon DEF IsSearched
  <2> QED
    BY <1>1, <2>3, Zenon
<1> QED
  BY <1>4, <1>5

(* One search.                                                             *)
IsSearch(service, mirrors, before, own, status, n, stream) ==
  /\ mirrors \in Mirrors /\ before \in Sections /\ IsAnswer(status)
  /\ n \in 0 .. Len(M!Page(mirrors, before)) /\ stream.lines = SubSeq(M!Page(mirrors, before), 1, n)
  /\ job'.mirrors = mirrors /\ job'.own = own /\ (job'.isPage <=> status = 200)
  /\ (job'.whole <=> n = Len(M!Page(mirrors, before)) /\ stream.end = "closed")
  /\ got' = M!GetMirrorList(service, status, stream, own)

(* A search is of a page, of which some has come.                          *)
LEMMA SearchMirrorsIs ==
  ASSUME SearchMirrors
  PROVE  \E service, mirrors, before, own, status, n, stream :
           IsSearch(service, mirrors, before, own, status, n, stream)
<1>1. PICK service \in {"LYCOS", "FILESEARCH_RU"}, mirrors \in Mirrors, before \in Sections, own \in Owns,
           status \in {200, 404, 503} :
        \E n \in 0 .. Len(M!Page(mirrors, before)) :
          \E stream \in R!Streams({SubSeq(M!Page(mirrors, before), 1, n)}) :
            Call([of |-> "mirrors", mirrors |-> mirrors, own |-> own, isPage |-> status = 200,
                  whole |-> n = Len(M!Page(mirrors, before)) /\ stream.end = "closed"],
                 M!GetMirrorList(service, status, stream, own))
  BY Zenon DEF SearchMirrors
<1>2. PICK n \in 0 .. Len(M!Page(mirrors, before)) :
        \E stream \in R!Streams({SubSeq(M!Page(mirrors, before), 1, n)}) :
          Call([of |-> "mirrors", mirrors |-> mirrors, own |-> own, isPage |-> status = 200,
                whole |-> n = Len(M!Page(mirrors, before)) /\ stream.end = "closed"],
               M!GetMirrorList(service, status, stream, own))
  BY <1>1
<1>3. PICK stream \in R!Streams({SubSeq(M!Page(mirrors, before), 1, n)}) :
        Call([of |-> "mirrors", mirrors |-> mirrors, own |-> own, isPage |-> status = 200,
              whole |-> n = Len(M!Page(mirrors, before)) /\ stream.end = "closed"],
             M!GetMirrorList(service, status, stream, own))
  BY <1>2
<1>4. IsAnswer(status) /\ stream.lines = SubSeq(M!Page(mirrors, before), 1, n)
  BY DEF IsAnswer, R!Streams
<1>5. /\ job'.mirrors = mirrors /\ job'.own = own /\ (job'.isPage <=> status = 200)
      /\ (job'.whole <=> n = Len(M!Page(mirrors, before)) /\ stream.end = "closed")
      /\ got' = M!GetMirrorList(service, status, stream, own)
  BY <1>3 DEF Call
<1>6. IsSearch(service, mirrors, before, own, status, n, stream)
  BY <1>4, <1>5 DEF IsSearch
<1> QED
  BY <1>6
=============================================================================
