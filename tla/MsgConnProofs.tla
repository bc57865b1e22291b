---------------------------- MODULE MsgConnProofs ----------------------------
(***************************************************************************)
(* MsgConn, for buffers, messages and pieces of any size: no byte is lost,  *)
(* doubled or moved on its way from the sender to the receiver's decoder,   *)
(* and the callbacks are given exactly the messages that have arrived.      *)
(* First what the operations of Buffer do to the content, whatever they do  *)
(* to the array; then what a decoder makes of a frame and of a part of one; *)
(* then the connection; last the stream as a list of frames.                *)
(***************************************************************************)
EXTENDS MsgConn, SequenceTheorems, FiniteSetTheorems, WellFoundedInduction, TLAPS

-----------------------------------------------------------------------------
(* Numbers and sequences.                                                   *)

\* A set of natural numbers has a least one: induction without an operator.
LEMMA LeastNumber ==
  ASSUME NEW T, T \subseteq Nat, T # {}
  PROVE  \E x \in T : \A y \in T : x <= y
<1>1. PICK x \in T : \A y \in T : ~ (<<y, x>> \in OpToRel(<, Nat))
  BY NatLessThanWellFounded, WFMin
<1>2. \A y \in T : ~ (y < x)
  BY <1>1 DEF OpToRel
<1> QED
  BY <1>2

\* Min and Max of the community modules, for what the decoders look for.
LEMMA LeastIsMin ==
  ASSUME NEW T, T \subseteq Nat, T # {}
  PROVE  Min(T) \in T /\ \A y \in T : Min(T) <= y
<1>1. \E x \in T : \A y \in T : x <= y
  BY LeastNumber
<1> QED
  BY <1>1 DEF Min

\* The same of a bounded set and Max.
LEMMA GreatestIsMax ==
  ASSUME NEW n \in Nat, NEW T, T \subseteq 0..n, T # {}
  PROVE  Max(T) \in T
<1> DEFINE B == {b \in 0..n : \A y \in T : y <= b}
<1>1. B \subseteq Nat /\ n \in B
  OBVIOUS
<1>2. PICK b \in B : \A c \in B : b <= c
  <2> HIDE DEF B
  <2> QED BY <1>1, LeastNumber
<1>3. b \in T
  <2> SUFFICES ASSUME b \notin T PROVE FALSE
    OBVIOUS
  <2>1. PICK y \in T : TRUE
    OBVIOUS
  <2>2. \A z \in T : z \in 0..n /\ z <= b - 1
    OBVIOUS
  <2>3. b - 1 \in B
    BY <2>1, <2>2
  <2> QED
    BY <2>3, <1>2
<1>4. \E x \in T : \A y \in T : x >= y
  BY <1>3
<1> QED
  BY <1>4 DEF Max

\* The smaller of two numbers: the room there is and the bytes there are.
LEMMA MinOfTwo ==
  ASSUME NEW a \in Nat, NEW b \in Nat
  PROVE  Min({a, b}) \in Nat /\ Min({a, b}) <= a /\ Min({a, b}) <= b /\ Min({a, b}) \in {a, b}
BY LeastIsMin, {a, b} \subseteq Nat, {a, b} # {}

\* The largest of three: the capacity expand() chooses.
LEMMA MaxOfThree ==
  ASSUME NEW a \in Nat, NEW b \in Nat, NEW c \in Nat
  PROVE  /\ Max({a, b, c}) \in Nat
         /\ a <= Max({a, b, c}) /\ b <= Max({a, b, c}) /\ c <= Max({a, b, c})
<1>1. \E x \in {a, b, c} : \A y \in {a, b, c} : x >= y
  <2>1. CASE a >= b /\ a >= c
    BY <2>1
  <2>2. CASE b >= a /\ b >= c
    BY <2>2
  <2>3. CASE c >= a /\ c >= b
    BY <2>3
  <2> QED
    BY <2>1, <2>2, <2>3
<1>2. Max({a, b, c}) \in {a, b, c} /\ \A y \in {a, b, c} : Max({a, b, c}) >= y
  BY <1>1 DEF Max
<1> QED
  BY <1>2

\* The larger of two: where the search for the empty line goes on.
LEMMA MaxOfTwo ==
  ASSUME NEW a \in Int, NEW b \in Int
  PROVE  Max({a, b}) \in {a, b} /\ a <= Max({a, b})
<1>1. \E x \in {a, b} : \A y \in {a, b} : x >= y
  OBVIOUS
<1>2. Max({a, b}) \in {a, b} /\ \A y \in {a, b} : Max({a, b}) >= y
  BY <1>1 DEF Max
<1> QED
  BY <1>2

\* A prefix and the rest, cut anywhere.
LEMMA Cut ==
  ASSUME NEW S, NEW s \in Seq(S), NEW n \in 0..Len(s)
  PROVE  /\ SubSeq(s, 1, n) \in Seq(S) /\ Len(SubSeq(s, 1, n)) = n
         /\ SubSeq(s, n + 1, Len(s)) \in Seq(S) /\ Len(SubSeq(s, n + 1, Len(s))) = Len(s) - n
         /\ SubSeq(s, 1, n) \o SubSeq(s, n + 1, Len(s)) = s
<1> DEFINE p == SubSeq(s, 1, n)
           q == SubSeq(s, n + 1, Len(s))
<1>1. p \in Seq(S) /\ Len(p) = n /\ \A i \in 1..n : p[i] = s[i]
  BY SubSeqProperties, LenProperties, ElementOfSeq
<1>2. q \in Seq(S) /\ Len(q) = Len(s) - n /\ \A i \in 1..Len(s) - n : q[i] = s[n + i]
  BY SubSeqProperties, LenProperties, ElementOfSeq
<1> HIDE DEF p, q
<1>3. /\ p \o q \in Seq(S) /\ Len(p \o q) = Len(s)
      /\ \A i \in 1..Len(s) : (p \o q)[i] = IF i <= n THEN p[i] ELSE q[i - n]
  BY <1>1, <1>2, ConcatProperties, LenProperties
<1>4. \A i \in 1..Len(s) : (p \o q)[i] = s[i]
  BY <1>1, <1>2, <1>3, LenProperties
<1>5. p \o q = s
  BY <1>3, <1>4, SeqEqual
<1> QED
  BY <1>1, <1>2, <1>5 DEF p, q

\* What is left of two sequences when the beginning of the first goes.
LEMMA DropOfConcat ==
  ASSUME NEW S, NEW s \in Seq(S), NEW t \in Seq(S), NEW n \in 0..Len(s)
  PROVE  SubSeq(s \o t, n + 1, Len(s \o t)) = SubSeq(s, n + 1, Len(s)) \o t
<1> DEFINE l == SubSeq(s \o t, n + 1, Len(s \o t))
           q == SubSeq(s, n + 1, Len(s))
<1>1. /\ s \o t \in Seq(S) /\ Len(s \o t) = Len(s) + Len(t) /\ Len(s) \in Nat /\ Len(t) \in Nat
      /\ \A i \in 1..Len(s) + Len(t) : (s \o t)[i] = IF i <= Len(s) THEN s[i] ELSE t[i - Len(s)]
  BY ConcatProperties, LenProperties
<1>2. /\ l \in Seq(S) /\ Len(l) = Len(s) + Len(t) - n
      /\ \A i \in 1..Len(l) : l[i] = (s \o t)[n + i]
  BY <1>1, SubSeqProperties, ElementOfSeq
<1>3. q \in Seq(S) /\ Len(q) = Len(s) - n /\ \A i \in 1..Len(s) - n : q[i] = s[n + i]
  BY <1>1, SubSeqProperties, ElementOfSeq
<1> HIDE DEF l, q
<1>4. /\ q \o t \in Seq(S) /\ Len(q \o t) = Len(q) + Len(t)
      /\ \A i \in 1..Len(q) + Len(t) : (q \o t)[i] = IF i <= Len(q) THEN q[i] ELSE t[i - Len(q)]
  BY <1>3, ConcatProperties
<1>5. \A i \in 1..Len(l) : l[i] = (q \o t)[i]
  BY <1>1, <1>2, <1>3, <1>4
<1>6. Len(l) = Len(q \o t)
  BY <1>1, <1>2, <1>3, <1>4
<1>7. l = q \o t
  BY <1>2, <1>4, <1>5, <1>6, SeqEqual
<1> QED
  BY <1>7 DEF l, q

\* What is left when n more go of what was left after m.
LEMMA DropDrop ==
  ASSUME NEW S, NEW s \in Seq(S), NEW m \in Nat, NEW n \in Nat, m + n <= Len(s)
  PROVE  LET r == SubSeq(s, m + 1, Len(s))
         IN  SubSeq(r, n + 1, Len(r)) = SubSeq(s, m + n + 1, Len(s))
<1> DEFINE r == SubSeq(s, m + 1, Len(s))
           l == SubSeq(r, n + 1, Len(r))
           q == SubSeq(s, m + n + 1, Len(s))
<1>1. Len(s) \in Nat /\ \A i \in 1..Len(s) : s[i] \in S
  BY LenProperties, ElementOfSeq
<1>2. r \in Seq(S) /\ Len(r) = Len(s) - m /\ \A i \in 1..Len(s) - m : r[i] = s[m + i]
  BY <1>1, SubSeqProperties
<1>3. q \in Seq(S) /\ Len(q) = Len(s) - m - n /\ \A i \in 1..Len(q) : q[i] = s[m + n + i]
  BY <1>1, SubSeqProperties
<1> HIDE DEF r, q
<1>4. l \in Seq(S) /\ Len(l) = Len(s) - m - n /\ \A i \in 1..Len(l) : l[i] = r[n + i]
  BY <1>1, <1>2, SubSeqProperties, ElementOfSeq
<1> HIDE DEF l
<1>5. \A i \in 1..Len(l) : l[i] = q[i]
  BY <1>1, <1>2, <1>3, <1>4
<1>6. l = q
  BY <1>3, <1>4, <1>5, SeqEqual
<1> QED
  BY <1>6 DEF l, q, r

-----------------------------------------------------------------------------
(* Buffer.                                                                  *)

\* Whatever may be in a buffer or in flight: the tokens of messages and those
\* that encoding puts around them.
Tokens ==
  Bytes \cup {CR, LF, EOT, Opening, Closing, Magic, Junk, BadHeader, NotFound, Failed, <<"hello">>, <<"file">>}
  \cup {Length(n) : n \in Nat}
  \cup {Header("Connection", 0)} \cup {Header("Length", n) : n \in Nat}
  \cup {<<"GET", u>> : u \in STRING}
  \cup {<<"HTTP/1.1", n>> : n \in {200, 404, 500}}
Text == Seq(Tokens)

\* Concatenation of texts: its length, its grouping, and the empty one.
LEMMA TextConcat ==
  ASSUME NEW a \in Text, NEW b \in Text
  PROVE  a \o b \in Text /\ Len(a \o b) = Len(a) + Len(b) /\ Len(a) \in Nat /\ Len(b) \in Nat
BY ConcatProperties, LenProperties DEF Text

\* How a path is grouped makes no difference.
LEMMA TextAssociative ==
  ASSUME NEW a \in Text, NEW b \in Text, NEW c \in Text
  PROVE  (a \o b) \o c = a \o (b \o c)
BY ConcatAssociative DEF Text

\* Nothing added in front or behind changes nothing.
LEMMA TextEmpty ==
  ASSUME NEW a \in Text
  PROVE  <<>> \in Text /\ Len(<<>>) = 0 /\ a \o <<>> = a /\ <<>> \o a = a
BY ConcatEmptySeq DEF Text

\* 0 <= b_ <= e_ <= cap_: the content lies in the array.
Buffers == {buf \in [mem : Text, b : Nat, e : Nat, exp : Nat \ {0}] :
              buf.b <= buf.e /\ buf.e <= Len(buf.mem)}

\* A new buffer is a buffer without content.
LEMMA NewBufferFacts ==
  NewBuffer(Suggest) \in Buffers /\ Data(NewBuffer(Suggest)) = <<>> /\ Size(NewBuffer(Suggest)) = 0
<1>1. <<>> \in Text /\ Len(<<>>) = 0
  BY DEF Text
<1>2. SubSeq(<<>>, 0 + 1, 0) = <<>>
  BY SubSeqEmpty
<1> QED
  BY <1>1, <1>2, MsgAssumption DEF NewBuffer, Buffers, Data, Size

\* What is where in the array, and in the content.
Sound(buf) ==
  /\ buf.mem \in Text /\ Len(buf.mem) \in Nat /\ buf.b \in Nat /\ buf.e \in Nat
  /\ buf.b <= buf.e /\ buf.e <= Len(buf.mem) /\ buf.exp \in Nat \ {0}
  /\ Size(buf) \in Nat /\ Size(buf) = buf.e - buf.b
  /\ Space(buf) \in Nat /\ Space(buf) = Len(buf.mem) - buf.e
  /\ Data(buf) \in Text /\ Len(Data(buf)) = Size(buf)

\* The content is the cells from b_ to e_ (net.h data, size, space).
LEMMA ContentBytes ==
  ASSUME NEW buf \in Buffers
  PROVE  Sound(buf) /\ \A i \in 1..Size(buf) : Data(buf)[i] = buf.mem[buf.b + i]
<1>1. /\ buf.mem \in Text /\ buf.b \in Nat /\ buf.e \in Nat
      /\ buf.b <= buf.e /\ buf.e <= Len(buf.mem) /\ buf.exp \in Nat \ {0}
  BY DEF Buffers
<1> DEFINE m == buf.b + 1
           n == buf.e
<1>2. Len(buf.mem) \in Nat /\ \A i \in 1..Len(buf.mem) : buf.mem[i] \in Tokens
  BY <1>1, LenProperties, ElementOfSeq DEF Text
<1>3. m \in Int /\ n \in Int /\ \A i \in m..n : buf.mem[i] \in Tokens
  BY <1>1, <1>2
<1>4. Data(buf) = SubSeq(buf.mem, m, n)
  BY DEF Data
<1> HIDE DEF m, n
<1>5. /\ Data(buf) \in Text /\ Len(Data(buf)) = IF m <= n THEN n - m + 1 ELSE 0
      /\ \A i \in 1..n - m + 1 : Data(buf)[i] = buf.mem[m + i - 1]
  BY <1>3, <1>4, SubSeqProperties DEF Text
<1>6. Len(Data(buf)) = Size(buf)
  BY <1>1, <1>5 DEF Size, m, n
<1>7. \A i \in 1..Size(buf) : Data(buf)[i] = buf.mem[buf.b + i]
  BY <1>1, <1>5 DEF Size, m, n
<1> QED
  BY <1>1, <1>2, <1>5, <1>6, <1>7 DEF Size, Space, Sound

\* The sizes alone, without the cells.
LEMMA ContentFacts ==
  ASSUME NEW buf \in Buffers
  PROVE  Sound(buf)
BY ContentBytes

\* A buffer with other fields.
Fields(buf, m, b, e) == [buf EXCEPT !.mem = m, !.b = b, !.e = e]

\* Such a buffer is one again if the content still lies in the array.
LEMMA FieldFacts ==
  ASSUME NEW buf \in Buffers, NEW m \in Text, NEW b \in Nat, NEW e \in Nat, b <= e, e <= Len(m)
  PROVE  /\ Fields(buf, m, b, e).mem = m /\ Fields(buf, m, b, e).b = b
         /\ Fields(buf, m, b, e).e = e /\ Fields(buf, m, b, e) \in Buffers
         /\ Size(Fields(buf, m, b, e)) = e - b /\ Space(Fields(buf, m, b, e)) = Len(m) - e
<1>1. buf \in [mem : Text, b : Nat, e : Nat, exp : Nat \ {0}]
  BY DEF Buffers
<1> QED
  BY <1>1 DEF Buffers, Size, Space, Fields

\* The cells of a new array, and half of one.
LEMMA JunkFacts ==
  ASSUME NEW k \in Nat
  PROVE  [i \in 1..k |-> Junk] \in Text /\ Len([i \in 1..k |-> Junk]) = k
<1>1. Junk \in Tokens
  BY DEF Tokens
<1> QED
  BY <1>1 DEF Text

\* makeRoom compares with half of the capacity.
LEMMA HalfFacts ==
  ASSUME NEW k \in Nat
  PROVE  k \div 2 <= k /\ k \div 2 \in Int
OBVIOUS

\* A content is recognised by its length and its bytes in the array.
LEMMA ContentIs ==
  ASSUME NEW buf \in Buffers, NEW s \in Text, Size(buf) = Len(s),
         \A i \in 1..Len(s) : buf.mem[buf.b + i] = s[i]
  PROVE  Data(buf) = s
<1>1. Sound(buf) /\ \A i \in 1..Size(buf) : Data(buf)[i] = buf.mem[buf.b + i]
  BY ContentBytes
<1>2. Data(buf) \in Text /\ Len(Data(buf)) = Len(s)
  BY <1>1 DEF Sound
<1>3. \A i \in 1..Len(s) : Data(buf)[i] = s[i]
  BY <1>1
<1> QED
  BY <1>2, <1>3, SeqEqual DEF Text

\* A content moved to the front of an array, with whatever behind it.
LEMMA FrontFacts ==
  ASSUME NEW buf \in Buffers, NEW s \in Text, NEW t \in Text
  PROVE  /\ Fields(buf, s \o t, 0, Len(s)) \in Buffers
         /\ Data(Fields(buf, s \o t, 0, Len(s))) = s
         /\ Size(Fields(buf, s \o t, 0, Len(s))) = Len(s)
         /\ Space(Fields(buf, s \o t, 0, Len(s))) = Len(t)
<1> DEFINE m == s \o t
           c == Fields(buf, m, 0, Len(s))
<1>1. /\ m \in Text /\ Len(m) = Len(s) + Len(t) /\ Len(s) \in Nat /\ Len(t) \in Nat
      /\ \A i \in 1..Len(s) + Len(t) : m[i] = IF i <= Len(s) THEN s[i] ELSE t[i - Len(s)]
  BY ConcatProperties, LenProperties DEF Text
<1>2. /\ c.mem = m /\ c.b = 0 /\ c \in Buffers
      /\ Size(c) = Len(s) - 0 /\ Space(c) = Len(m) - Len(s)
  <2> HIDE DEF m
  <2> QED
    BY <1>1, FieldFacts
<1> HIDE DEF m, c
<1>3. Size(c) = Len(s) /\ \A i \in 1..Len(s) : c.mem[c.b + i] = s[i]
  BY <1>1, <1>2
<1>4. Data(c) = s
  BY <1>2, <1>3, ContentIs
<1> QED
  BY <1>1, <1>2, <1>3, <1>4 DEF c, m

\* clear() gives the array back: nothing is left.
LEMMA ClearFacts ==
  ASSUME NEW buf \in Buffers
  PROVE  Clear(buf) \in Buffers /\ Data(Clear(buf)) = <<>> /\ Size(Clear(buf)) = 0
<1>1. <<>> \in Text /\ Len(<<>>) = 0
  BY DEF Text
<1>2. SubSeq(<<>>, 0 + 1, 0) = <<>>
  BY SubSeqEmpty
<1> DEFINE c == Clear(buf)
<1>3. c = Fields(buf, <<>>, 0, 0)
  BY DEF Clear, Fields
<1> HIDE DEF c
<1>4. c \in Buffers /\ c.mem = <<>> /\ c.b = 0 /\ c.e = 0
  BY <1>1, <1>3, FieldFacts
<1> QED
  BY <1>2, <1>4 DEF Data, Size, c

\* consume() drops the first bytes of the content, also when it frees the array.
LEMMA ConsumeFacts ==
  ASSUME NEW buf \in Buffers, NEW len \in 0..Size(buf)
  PROVE  /\ Consume(buf, len) \in Buffers /\ Size(Consume(buf, len)) = Size(buf) - len
         /\ Data(Consume(buf, len)) = SubSeq(Data(buf), len + 1, Len(Data(buf)))
<1>0. Sound(buf)
  BY ContentFacts
<1> USE <1>0 DEF Sound
<1>1. CASE buf.b + len = buf.e
  <2>1. len = Size(buf) /\ Consume(buf, len) = Clear(buf) /\ Len(Data(buf)) = len
    BY <1>1 DEF Consume
  <2>2. SubSeq(Data(buf), len + 1, Len(Data(buf))) = <<>>
    BY <2>1, SubSeqEmpty
  <2>3. Size(buf) - len = 0
    BY <2>1
  <2> QED
    BY <2>1, <2>2, <2>3, ClearFacts
<1>2. CASE buf.b + len # buf.e
  <2> DEFINE c == Consume(buf, len)
             s == SubSeq(Data(buf), len + 1, Len(Data(buf)))
  <2>1. /\ c \in Buffers /\ c.mem = buf.mem /\ c.b = buf.b + len
        /\ Size(c) = Size(buf) - len
    <3>1. c = [buf EXCEPT !.b = buf.b + len]
      BY <1>2 DEF Consume
    <3>2. buf \in [mem : Text, b : Nat, e : Nat, exp : Nat \ {0}] /\ buf.b + len \in Nat
          /\ buf.b + len <= buf.e
      BY DEF Buffers
    <3>3. c \in [mem : Text, b : Nat, e : Nat, exp : Nat \ {0}]
      BY <3>1, <3>2
    <3>4. c.mem = buf.mem /\ c.b = buf.b + len /\ c.e = buf.e
      BY <3>1, <3>2
    <3> HIDE DEF c
    <3>5. c.b <= c.e /\ c.e <= Len(c.mem) /\ Size(c) = Size(buf) - len
      BY <3>2, <3>4 DEF Size
    <3> QED
      BY <3>3, <3>4, <3>5 DEF Buffers
  <2>2. /\ s \in Text /\ Len(s) = Size(buf) - len
        /\ \A i \in 1..Size(buf) - len : s[i] = Data(buf)[len + i]
    <3>1. \A i \in 1..Size(buf) : Data(buf)[i] \in Tokens
      BY ElementOfSeq DEF Text
    <3> QED
      BY <3>1, SubSeqProperties DEF Text
  <2> HIDE DEF c, s
  <2>3. \A i \in 1..Len(s) : c.mem[c.b + i] = s[i]
    <3> SUFFICES ASSUME NEW i \in 1..Len(s) PROVE c.mem[c.b + i] = s[i]
      OBVIOUS
    <3>1. len + i \in 1..Size(buf) /\ i \in 1..Size(buf) - len
      BY <2>2
    <3>2. s[i] = buf.mem[buf.b + (len + i)]
      BY <2>2, <3>1, ContentBytes
    <3>3. buf.b + (len + i) = c.b + i
      BY <2>1
    <3> QED
      BY <2>1, <3>2, <3>3
  <2>4. Data(c) = s
    BY <2>1, <2>2, <2>3, ContentIs
  <2> QED
    BY <2>1, <2>4 DEF c, s
<1> QED
  BY <1>1, <1>2

\* expand() moves the content to a new array with the room asked for.
LEMMA ExpandFacts ==
  ASSUME NEW buf \in Buffers, NEW len \in Nat
  PROVE  /\ Expand(buf, len) \in Buffers /\ Data(Expand(buf, len)) = Data(buf)
         /\ Size(Expand(buf, len)) = Size(buf) /\ len <= Space(Expand(buf, len))
<1>0. Sound(buf)
  BY ContentFacts
<1> USE <1>0 DEF Sound
<1> DEFINE ncap == Max({buf.exp, 2 * Len(buf.mem), Size(buf) + len})
           junk == [i \in 1..ncap - Size(buf) |-> Junk]
           c == Expand(buf, len)
<1>1. ncap \in Nat /\ Size(buf) + len <= ncap
  <2>1. buf.exp \in Nat /\ 2 * Len(buf.mem) \in Nat /\ Size(buf) + len \in Nat
    OBVIOUS
  <2> QED
    BY <2>1, MaxOfThree
<1>2. c = Fields(buf, Data(buf) \o junk, 0, Size(buf))
  BY DEF Expand, Fields
<1> HIDE DEF ncap
<1>3. junk \in Text /\ Len(junk) = ncap - Size(buf)
  <2>1. ncap - Size(buf) \in Nat
    BY <1>1
  <2> QED
    BY <2>1, JunkFacts
<1> HIDE DEF junk, c
<1>4. /\ c \in Buffers /\ Data(c) = Data(buf) /\ Size(c) = Size(buf)
      /\ Space(c) = ncap - Size(buf)
  BY <1>2, <1>3, FrontFacts
<1> QED
  BY <1>1, <1>4 DEF c

\* moveHead() moves it to the front of its own array.
LEMMA MoveHeadFacts ==
  ASSUME NEW buf \in Buffers
  PROVE  /\ MoveHead(buf) \in Buffers /\ Data(MoveHead(buf)) = Data(buf)
         /\ Size(MoveHead(buf)) = Size(buf) /\ Space(MoveHead(buf)) = Len(buf.mem) - Size(buf)
<1>0. Sound(buf)
  BY ContentFacts
<1> USE <1>0 DEF Sound
<1> DEFINE rest == SubSeq(buf.mem, Size(buf) + 1, Len(buf.mem))
           c == MoveHead(buf)
<1>1. c = Fields(buf, Data(buf) \o rest, 0, Size(buf))
  BY DEF MoveHead, Fields
<1>2. rest \in Text /\ Len(rest) = Len(buf.mem) - Size(buf)
  <2>1. Size(buf) \in 0..Len(buf.mem)
    OBVIOUS
  <2> QED
    BY <2>1, Cut DEF Text
<1> HIDE DEF rest, c
<1>3. /\ c \in Buffers /\ Data(c) = Data(buf) /\ Size(c) = Size(buf)
      /\ Space(c) = Len(buf.mem) - Size(buf)
  BY <1>1, <1>2, FrontFacts
<1> QED
  BY <1>3 DEF c

\* makeRoom(len) leaves the content as it is and gives the room asked for.
LEMMA MakeRoomFacts ==
  ASSUME NEW buf \in Buffers, NEW len \in Nat
  PROVE  /\ MakeRoom(buf, len) \in Buffers /\ Data(MakeRoom(buf, len)) = Data(buf)
         /\ Size(MakeRoom(buf, len)) = Size(buf) /\ len <= Space(MakeRoom(buf, len))
<1>0. Sound(buf)
  BY ContentFacts
<1> USE <1>0 DEF Sound
<1>1. CASE buf.e + len <= Len(buf.mem)
  BY <1>1 DEF MakeRoom
<1>2. CASE ~(buf.e + len <= Len(buf.mem)) /\ Size(buf) + len < Len(buf.mem) \div 2
  <2>1. Len(buf.mem) \div 2 <= Len(buf.mem) /\ Len(buf.mem) \div 2 \in Int
    BY HalfFacts
  <2>2. MakeRoom(buf, len) = MoveHead(buf)
    BY <1>2 DEF MakeRoom
  <2> DEFINE half == Len(buf.mem) \div 2
  <2>3. half <= Len(buf.mem) /\ half \in Int /\ Size(buf) + len < half
    BY <1>2, <2>1
  <2> HIDE DEF half
  <2>4. len <= Len(buf.mem) - Size(buf)
    BY <2>3
  <2> QED
    BY <2>2, <2>4, MoveHeadFacts
<1>3. CASE ~(buf.e + len <= Len(buf.mem)) /\ ~(Size(buf) + len < Len(buf.mem) \div 2)
  BY <1>3, ExpandFacts DEF MakeRoom
<1> QED
  BY <1>1, <1>2, <1>3

\* makeRoom() without an argument, before a read, leaves the content as it is.
LEMMA MakeSomeRoomFacts ==
  ASSUME NEW buf \in Buffers
  PROVE  /\ MakeSomeRoom(buf) \in Buffers /\ Data(MakeSomeRoom(buf)) = Data(buf)
         /\ Size(MakeSomeRoom(buf)) = Size(buf)
<1>1. 0 \in Nat
  OBVIOUS
<1> QED
  BY <1>1, ExpandFacts DEF MakeSomeRoom

\* Bytes for which there is room are added to the content.
LEMMA PutFacts ==
  ASSUME NEW buf \in Buffers, NEW bytes \in Text, Len(bytes) <= Space(buf)
  PROVE  /\ Put(buf, bytes) \in Buffers /\ Data(Put(buf, bytes)) = Data(buf) \o bytes
         /\ Size(Put(buf, bytes)) = Size(buf) + Len(bytes)
<1>0. Sound(buf)
  BY ContentFacts
<1> USE <1>0 DEF Sound
<1> DEFINE mem == [i \in DOMAIN buf.mem |->
                     IF i - buf.e \in DOMAIN bytes THEN bytes[i - buf.e] ELSE buf.mem[i]]
           c == Put(buf, bytes)
<1>1. /\ Len(bytes) \in Nat /\ DOMAIN bytes = 1..Len(bytes) /\ DOMAIN buf.mem = 1..Len(buf.mem)
      /\ \A i \in 1..Len(bytes) : bytes[i] \in Tokens
      /\ \A i \in 1..Len(buf.mem) : buf.mem[i] \in Tokens
  BY LenProperties, ElementOfSeq DEF Text
<1>2. mem \in Text /\ Len(mem) = Len(buf.mem)
  BY <1>1 DEF Text
<1>3. /\ \A j \in 1..buf.e : mem[j] = buf.mem[j]
      /\ \A k \in 1..Len(bytes) : mem[buf.e + k] = bytes[k]
  <2>1. ASSUME NEW j \in 1..buf.e PROVE mem[j] = buf.mem[j]
    <3>1. j \in DOMAIN buf.mem /\ ~(j - buf.e \in DOMAIN bytes)
      BY <1>1
    <3> QED
      BY <3>1
  <2>2. ASSUME NEW k \in 1..Len(bytes) PROVE mem[buf.e + k] = bytes[k]
    <3>1. buf.e + k \in DOMAIN buf.mem /\ buf.e + k - buf.e = k /\ k \in DOMAIN bytes
      BY <1>1
    <3> QED
      BY <3>1
  <2> QED
    BY <2>1, <2>2
<1>4. c = [buf EXCEPT !.mem = mem, !.e = buf.e + Len(bytes)]
  BY DEF Put
<1> HIDE DEF mem, c
<1>5. /\ c \in Buffers /\ c.mem = mem /\ c.b = buf.b /\ Size(c) = Size(buf) + Len(bytes)
  <2>1. buf \in [mem : Text, b : Nat, e : Nat, exp : Nat \ {0}]
    BY DEF Buffers
  <2>2. buf.e + Len(bytes) \in Nat /\ buf.e + Len(bytes) <= Len(mem) /\ buf.b <= buf.e + Len(bytes)
    BY <1>1, <1>2
  <2>3. /\ c \in [mem : Text, b : Nat, e : Nat, exp : Nat \ {0}]
        /\ c.mem = mem /\ c.b = buf.b /\ c.e = buf.e + Len(bytes)
    BY <1>2, <1>4, <2>1, <2>2
  <2> QED
    BY <1>1, <2>2, <2>3 DEF Buffers, Size
<1>6. /\ Data(buf) \o bytes \in Text /\ Len(Data(buf) \o bytes) = Len(Data(buf)) + Len(bytes)
      /\ \A i \in 1..Len(Data(buf)) + Len(bytes) :
           (Data(buf) \o bytes)[i] = IF i <= Len(Data(buf)) THEN Data(buf)[i] ELSE bytes[i - Len(Data(buf))]
  <2>1. Data(buf) \in Seq(Tokens) /\ bytes \in Seq(Tokens)
    BY DEF Text
  <2> QED
    BY <2>1, ConcatProperties DEF Text
<1>7. ASSUME NEW i \in 1..Size(buf) + Len(bytes)
      PROVE  c.mem[c.b + i] = (Data(buf) \o bytes)[i]
  <2>1. c.mem = mem /\ c.b = buf.b
    BY <1>5
  <2>2. CASE i <= Size(buf)
    <3>1. i \in 1..Size(buf) /\ buf.b + i \in 1..buf.e
      BY <2>2
    <3>2. mem[buf.b + i] = buf.mem[buf.b + i]
      BY <1>3, <3>1
    <3>3. (Data(buf) \o bytes)[i] = Data(buf)[i]
      BY <1>1, <1>6, <2>2
    <3>4. Data(buf)[i] = buf.mem[buf.b + i]
      BY <3>1, ContentBytes
    <3> QED
      BY <2>1, <3>2, <3>3, <3>4
  <2>3. CASE ~(i <= Size(buf))
    <3>1. i - Size(buf) \in 1..Len(bytes) /\ buf.b + i = buf.e + (i - Size(buf))
      <4>1. Len(bytes) \in Nat
        BY <1>1
      <4> QED
        BY <2>3, <4>1
    <3>2. mem[buf.b + i] = bytes[i - Size(buf)]
      BY <1>3, <3>1
    <3>3. (Data(buf) \o bytes)[i] = bytes[i - Size(buf)]
      BY <1>1, <1>6, <2>3
    <3> QED
      BY <2>1, <3>2, <3>3
  <2> QED
    BY <2>2, <2>3
<1>8. Data(c) = Data(buf) \o bytes
  BY <1>5, <1>6, <1>7, ContentIs
<1> QED
  BY <1>5, <1>8 DEF c

\* append() adds to the content, growing or moving as it needs.
LEMMA AppendFacts ==
  ASSUME NEW buf \in Buffers, NEW bytes \in Text
  PROVE  /\ AppendBytes(buf, bytes) \in Buffers
         /\ Data(AppendBytes(buf, bytes)) = Data(buf) \o bytes
<1>1. Len(bytes) \in Nat
  BY LenProperties DEF Text
<1> QED
  BY <1>1, MakeRoomFacts, PutFacts DEF AppendBytes

\* absorb() adds the other's content and leaves the other empty, also when it
\* swaps the arrays.
LEMMA AbsorbFacts ==
  ASSUME NEW buf \in Buffers, NEW other \in Buffers
  PROVE  /\ Absorb(buf, other)[1] \in Buffers /\ Absorb(buf, other)[2] \in Buffers
         /\ Data(Absorb(buf, other)[1]) = Data(buf) \o Data(other)
         /\ Data(Absorb(buf, other)[2]) = <<>>
<1>0. Sound(buf)
  BY ContentFacts
<1> USE <1>0 DEF Sound
<1>1. CASE Size(buf) = 0
  <2> DEFINE c == [other EXCEPT !.exp = buf.exp]
             d == [buf EXCEPT !.exp = other.exp]
  <2>1. c \in Buffers /\ c.mem = other.mem /\ c.b = other.b /\ c.e = other.e
    BY DEF Buffers
  <2>2. d \in Buffers /\ d.mem = buf.mem /\ d.b = buf.b /\ d.e = buf.e
    BY DEF Buffers
  <2>3. Absorb(buf, other) = <<c, d>>
    BY <1>1 DEF Absorb
  <2>4. Data(c) = Data(other) /\ Data(d) = Data(buf)
    BY <2>1, <2>2 DEF Data
  <2>5. Data(buf) = <<>> /\ Data(buf) \o Data(other) = Data(other)
    <3>1. Data(buf) = <<>>
      BY <1>1, EmptySeq DEF Text
    <3> QED
      BY <3>1, ConcatEmptySeq DEF Text
  <2> HIDE DEF c, d
  <2> QED
    BY <2>1, <2>2, <2>3, <2>4, <2>5
<1>2. CASE Size(buf) # 0
  <2>1. Absorb(buf, other) = <<AppendBytes(buf, Data(other)), Clear(other)>>
    BY <1>2 DEF Absorb
  <2>2. Data(other) \in Text
    BY ContentFacts DEF Sound
  <2>3. /\ AppendBytes(buf, Data(other)) \in Buffers
        /\ Data(AppendBytes(buf, Data(other))) = Data(buf) \o Data(other)
        /\ Clear(other) \in Buffers /\ Data(Clear(other)) = <<>>
    BY <2>2, AppendFacts, ClearFacts
  <2> QED
    BY <2>1, <2>3
<1> QED
  BY <1>1, <1>2

-----------------------------------------------------------------------------
(* The pieces of a message: what appending them one after the other adds.   *)

\* The functions that the two loops compute, over the first n pieces.
IsFlat(f, s, n) == f = [i \in 1..n |-> IF i = 1 THEN s[i] ELSE f[i - 1] \o s[i]]
IsAfter(g, buf, s, n) ==
  g = [i \in 0..n |-> IF i = 0 THEN buf ELSE AppendBytes(g[i - 1], s[i])]

\* They exist: each is its predecessor with one more value.
LEMMA FlatExists ==
  ASSUME NEW s, NEW n \in Nat
  PROVE  \E f : IsFlat(f, s, n)
<1> DEFINE T == {k \in Nat : ~ \E f : IsFlat(f, s, k)}
<1>1. T \subseteq Nat
  OBVIOUS
<1> SUFFICES ASSUME T # {} PROVE FALSE
  OBVIOUS
<1>2. PICK k \in T : \A j \in T : k <= j
  <2> HIDE DEF T
  <2> QED
    BY <1>1, LeastNumber
<1>3. k \in Nat /\ ~ \E f : IsFlat(f, s, k)
  OBVIOUS
<1>4. k # 0
  <2>1. IsFlat(<<>>, s, 0)
    BY DEF IsFlat
  <2> QED
    BY <1>3, <2>1
<1>5. k - 1 \in Nat /\ k - 1 \notin T
  BY <1>2, <1>3, <1>4
<1>6. PICK f : IsFlat(f, s, k - 1)
  BY <1>5
<1> DEFINE h == [i \in 1..k |-> IF i < k THEN f[i] ELSE IF i = 1 THEN s[i] ELSE f[i - 1] \o s[i]]
<1>7. \A i \in 1..k : h[i] = IF i = 1 THEN s[i] ELSE h[i - 1] \o s[i]
  <2> SUFFICES ASSUME NEW i \in 1..k PROVE h[i] = IF i = 1 THEN s[i] ELSE h[i - 1] \o s[i]
    OBVIOUS
  <2>1. CASE i = k
    BY <1>3, <1>4, <2>1
  <2>2. CASE i # k
    <3>1. i \in 1..k - 1 /\ h[i] = f[i] /\ (i # 1 => i - 1 \in 1..k /\ i - 1 < k /\ h[i - 1] = f[i - 1])
      BY <1>3, <2>2
    <3>2. f[i] = IF i = 1 THEN s[i] ELSE f[i - 1] \o s[i]
      BY <1>6, <3>1 DEF IsFlat
    <3> QED
      BY <3>1, <3>2
  <2> QED
    BY <2>1, <2>2
<1>8. IsFlat(h, s, k)
  <2>1. h = [i \in 1..k |-> h[i]]
    OBVIOUS
  <2> HIDE DEF h
  <2> QED
    BY <1>7, <2>1 DEF IsFlat
<1> QED
  BY <1>3, <1>8

\* The buffers after each piece exist likewise.
LEMMA AfterExists ==
  ASSUME NEW buf, NEW s, NEW n \in Nat
  PROVE  \E g : IsAfter(g, buf, s, n)
<1> DEFINE T == {k \in Nat : ~ \E g : IsAfter(g, buf, s, k)}
<1>1. T \subseteq Nat
  OBVIOUS
<1> SUFFICES ASSUME T # {} PROVE FALSE
  OBVIOUS
<1>2. PICK k \in T : \A j \in T : k <= j
  <2> HIDE DEF T
  <2> QED
    BY <1>1, LeastNumber
<1>3. k \in Nat /\ ~ \E g : IsAfter(g, buf, s, k)
  OBVIOUS
<1>4. k # 0
  <2>1. IsAfter([i \in 0..0 |-> buf], buf, s, 0)
    BY DEF IsAfter
  <2> QED
    BY <1>3, <2>1
<1>5. k - 1 \in Nat /\ k - 1 \notin T
  BY <1>2, <1>3, <1>4
<1>6. PICK g : IsAfter(g, buf, s, k - 1)
  BY <1>5
<1> DEFINE h == [i \in 0..k |-> IF i < k THEN g[i] ELSE AppendBytes(g[i - 1], s[i])]
<1>7. \A i \in 0..k : h[i] = IF i = 0 THEN buf ELSE AppendBytes(h[i - 1], s[i])
  <2> SUFFICES ASSUME NEW i \in 0..k PROVE h[i] = IF i = 0 THEN buf ELSE AppendBytes(h[i - 1], s[i])
    OBVIOUS
  <2>1. CASE i = k
    BY <1>3, <1>4, <2>1
  <2>2. CASE i # k
    <3>1. i \in 0..k - 1 /\ h[i] = g[i] /\ (i # 0 => i - 1 \in 0..k /\ i - 1 < k /\ h[i - 1] = g[i - 1])
      BY <1>3, <2>2
    <3>2. g[i] = IF i = 0 THEN buf ELSE AppendBytes(g[i - 1], s[i])
      BY <1>6, <3>1 DEF IsAfter
    <3> QED
      BY <3>1, <3>2
  <2> QED
    BY <2>1, <2>2
<1>8. IsAfter(h, buf, s, k)
  <2>1. h = [i \in 0..k |-> h[i]]
    OBVIOUS
  <2> HIDE DEF h
  <2> QED
    BY <1>7, <2>1 DEF IsAfter
<1> QED
  BY <1>3, <1>8

\* The operators are these functions at the last piece.
LEMMA FlattenIs ==
  ASSUME NEW s, Len(s) \in Nat \ {0}
  PROVE  \E f : IsFlat(f, s, Len(s)) /\ FlattenSeq(s) = f[Len(s)]
<1> DEFINE F == CHOOSE f : f = [i \in 1..Len(s) |-> IF i = 1 THEN s[i] ELSE f[i - 1] \o s[i]]
<1>1. \E f : f = [i \in 1..Len(s) |-> IF i = 1 THEN s[i] ELSE f[i - 1] \o s[i]]
  BY FlatExists, Zenon DEF IsFlat
<1>2. IsFlat(F, s, Len(s))
  BY <1>1, Zenon DEF IsFlat
<1>3. FlattenSeq(s) = F[Len(s)]
  BY DEF FlattenSeq
<1> QED
  BY <1>2, <1>3

\* The same for the buffer that pieces are appended to.
LEMMA AppendAllIs ==
  ASSUME NEW buf, NEW s, Len(s) \in Nat
  PROVE  \E g : IsAfter(g, buf, s, Len(s)) /\ AppendAll(buf, s) = g[Len(s)]
<1> DEFINE G == CHOOSE g : g = [i \in 0..Len(s) |-> IF i = 0 THEN buf ELSE AppendBytes(g[i - 1], s[i])]
<1>1. \E g : g = [i \in 0..Len(s) |-> IF i = 0 THEN buf ELSE AppendBytes(g[i - 1], s[i])]
  <2>1. \E g : IsAfter(g, buf, s, Len(s))
    BY AfterExists
  <2> QED
    BY <2>1 DEF IsAfter
<1>2. IsAfter(G, buf, s, Len(s))
  BY <1>1 DEF IsAfter
<1>3. AppendAll(buf, s) = G[Len(s)]
  BY DEF AppendAll
<1> QED
  BY <1>2, <1>3

\* Appending the pieces of a message one after the other adds the message,
\* however the buffer grows in between.  (codec.cc, http.cc encode.)
LEMMA AppendAllFacts ==
  ASSUME NEW buf \in Buffers, NEW s \in Seq(Text)
  PROVE  /\ FlattenSeq(s) \in Text
         /\ AppendAll(buf, s) \in Buffers
         /\ Data(AppendAll(buf, s)) = Data(buf) \o FlattenSeq(s)
<1> DEFINE n == Len(s)
<1>1. n \in Nat /\ \A i \in 1..n : s[i] \in Text
  BY LenProperties, ElementOfSeq
<1>2. PICK g : IsAfter(g, buf, s, n) /\ AppendAll(buf, s) = g[n]
  BY <1>1, AppendAllIs
<1>3. g[0] = buf /\ \A i \in 1..n : g[i] = AppendBytes(g[i - 1], s[i])
  <2>1. \A i \in 0..n : g[i] = IF i = 0 THEN buf ELSE AppendBytes(g[i - 1], s[i])
    BY <1>2 DEF IsAfter
  <2> QED
    BY <1>1, <2>1
<1>4. Data(buf) \in Text
  BY ContentFacts DEF Sound
<1>5. CASE n = 0
  <2>1. s = <<>>
    BY <1>5, EmptySeq
  <2>2. FlattenSeq(s) = <<>>
    BY <1>5, <2>1 DEF FlattenSeq
  <2> QED
    BY <1>2, <1>3, <1>4, <1>5, <2>2, ConcatEmptySeq, EmptySeq DEF Text
<1>6. CASE n # 0
  <2>1. PICK f : IsFlat(f, s, n) /\ FlattenSeq(s) = f[n]
    BY <1>1, <1>6, FlattenIs
  <2>2. \A i \in 1..n : f[i] = IF i = 1 THEN s[i] ELSE f[i - 1] \o s[i]
    BY <2>1 DEF IsFlat
  <2> DEFINE P(i) == f[i] \in Text /\ g[i] \in Buffers /\ Data(g[i]) = Data(buf) \o f[i]
             T == {i \in 1..n : ~P(i)}
  <2>3. T = {}
    <3> SUFFICES ASSUME T # {} PROVE FALSE
      OBVIOUS
    <3>1. T \subseteq Nat
      BY <1>1
    <3>2. PICK k \in T : \A j \in T : k <= j
      <4> HIDE DEF T
      <4> QED
        BY <3>1, LeastNumber
    <3>3. k \in 1..n /\ ~P(k) /\ s[k] \in Text
      BY <1>1
    <3>4. CASE k = 1
      <4>1. f[1] = s[1] /\ g[1] = AppendBytes(buf, s[1])
        BY <1>1, <1>3, <2>2, <3>3, <3>4
      <4> QED
        BY <3>3, <3>4, <4>1, AppendFacts
    <3>5. CASE k # 1
      <4>1. k - 1 \in 1..n /\ k - 1 \notin T
        BY <1>1, <3>2, <3>3, <3>5
      <4>2. P(k - 1)
        BY <4>1
      <4>3. f[k] = f[k - 1] \o s[k] /\ g[k] = AppendBytes(g[k - 1], s[k])
        BY <1>1, <1>3, <2>2, <3>3, <3>5
      <4>4. g[k] \in Buffers /\ Data(g[k]) = (Data(buf) \o f[k - 1]) \o s[k]
        BY <3>3, <4>2, <4>3, AppendFacts
      <4>5. f[k] \in Text /\ (Data(buf) \o f[k - 1]) \o s[k] = Data(buf) \o f[k]
        <5>1. Data(buf) \in Text /\ f[k - 1] \in Text /\ s[k] \in Text
          BY <1>4, <3>3, <4>2
        <5>2. f[k - 1] \o s[k] \in Text
          BY <5>1, ConcatProperties DEF Text
        <5>3. (Data(buf) \o f[k - 1]) \o s[k] = Data(buf) \o (f[k - 1] \o s[k])
          BY <5>1, TextAssociative
        <5> QED
          BY <4>3, <5>2, <5>3
      <4> QED
        BY <3>3, <4>4, <4>5
    <3> QED
      BY <3>4, <3>5
  <2>4. P(n)
    <3>1. n \in 1..n /\ n \notin T
      BY <1>1, <1>6, <2>3
    <3> QED
      BY <3>1
  <2> QED
    BY <1>2, <2>1, <2>4
<1> QED
  BY <1>5, <1>6

-----------------------------------------------------------------------------
(* What is sent, and how much of its input a decoder may consume.           *)

Framings == {"line", "bracket", "length"}

\* A length field and a content length are no smaller than zero.
LEMMA TokenFacts ==
  ASSUME NEW t \in Tokens
  PROVE  (t[1] = "length" => t[2] \in Nat) /\ (t[1] = "header" => t[3] \in Nat)
<1>1. CASE t \in Bytes
  BY <1>1, MsgAssumption
<1>2. CASE t \in {CR, LF, EOT, Opening, Closing, Magic, Junk, BadHeader, NotFound, Failed, <<"hello">>, <<"file">>}
  <2>1. CASE t \in {CR, LF, EOT}
    BY <2>1 DEF CR, LF, EOT
  <2>2. CASE t \in {Opening, Closing, Magic}
    BY <2>2 DEF Opening, Closing, Magic
  <2>3. CASE t \in {Junk, BadHeader, NotFound, Failed}
    BY <2>3 DEF Junk, BadHeader, NotFound, Failed
  <2>4. CASE t \in {<<"hello">>, <<"file">>}
    BY <2>4
  <2> QED
    BY <1>2, <2>1, <2>2, <2>3, <2>4
<1>3. CASE t \in {Length(n) : n \in Nat}
  BY <1>3 DEF Length
<1>4. CASE t \in {Header("Connection", 0)} \cup {Header("Length", n) : n \in Nat}
  BY <1>4 DEF Header
<1>5. CASE t \in {<<"GET", u>> : u \in STRING}
  BY <1>5
<1>6. CASE t \in {<<"HTTP/1.1", n>> : n \in {200, 404, 500}}
  BY <1>6
<1> QED
  BY <1>1, <1>2, <1>3, <1>4, <1>5, <1>6 DEF Tokens

\* Messages of the lists are made of tokens.
LEMMA BytesAreText ==
  ASSUME NEW s \in Seq(Bytes)
  PROVE  s \in Text
<1>1. Bytes \subseteq Tokens
  BY DEF Tokens
<1> QED
  BY <1>1, SeqMonotonic DEF Text

\* The tokens that encoding adds.
LEMMA FrameTokens ==
  /\ {CR, LF, EOT, Opening, Closing, Magic, NotFound, Failed, <<"hello">>, <<"file">>, Junk} \subseteq Tokens
  /\ \A n \in Nat : Length(n) \in Tokens /\ Header("Length", n) \in Tokens
  /\ Header("Connection", 0) \in Tokens
  /\ \A u \in STRING : <<"GET", u>> \in Tokens
  /\ \A n \in {200, 404, 500} : <<"HTTP/1.1", n>> \in Tokens
BY DEF Tokens

\* One, two or three tokens are a text.
LEMMA ShortText ==
  /\ \A t \in Tokens : <<t>> \in Text
  /\ \A t, u \in Tokens : <<t, u>> \in Text
  /\ \A t, u, v \in Tokens : <<t, u, v>> \in Text
BY DEF Text

\* What encode appends is made of tokens. (codec.cc encode.)
LEMMA EncodeFacts ==
  ASSUME NEW codec \in Framings, NEW msg \in Text
  PROVE  Encode(codec, msg) \in Seq(Text)
<1>1. Len(msg) \in Nat
  BY LenProperties DEF Text
<1>2. /\ <<CR, LF>> \in Text /\ <<Opening>> \in Text /\ <<Closing>> \in Text
      /\ <<Magic>> \in Text /\ <<Length(Len(msg))>> \in Text
  BY <1>1, FrameTokens, ShortText
<1>3. CASE codec = "line"
  <2>1. Encode(codec, msg) = <<msg, <<CR, LF>>>>
    BY <1>3 DEF Encode
  <2> QED
    BY <1>2, <2>1
<1>4. CASE codec = "bracket"
  <2>1. Encode(codec, msg) = <<<<Opening>>, msg, <<Closing>>>>
    BY <1>4 DEF Encode
  <2> QED
    BY <1>2, <2>1
<1>5. CASE codec = "length"
  <2>1. Encode(codec, msg) = <<<<Magic>>, <<Length(Len(msg))>>, msg>>
    BY <1>5 DEF Encode
  <2> QED
    BY <1>2, <2>1
<1> QED
  BY <1>3, <1>4, <1>5 DEF Framings

\* What encode of an HTTP message appends is made of tokens. (http.cc encode.)
LEMMA HttpEncodeFacts ==
  ASSUME NEW line \in Tokens, NEW eol \in Text, NEW headers \in Text, NEW body \in Text
  PROVE  HttpEncode(line, eol, headers, body) \in Seq(Text)
<1>1. Len(body) \in Nat
  BY LenProperties DEF Text
<1>2. /\ <<Header("Connection", 0), CR, LF>> \in Text /\ <<Header("Length", Len(body)), CR, LF>> \in Text
      /\ <<CR, LF>> \in Text /\ <<line>> \in Text
  BY <1>1, FrameTokens, ShortText
<1>3. <<line>> \o eol \in Text
  BY <1>2, TextConcat
<1> QED
  BY <1>2, <1>3 DEF HttpEncode

\* A request of the list is sent in such pieces.
LEMMA RequestFacts ==
  ASSUME NEW m \in Requests
  PROVE  RequestPieces(m) \in Seq(Text)
<1>1. m.uri \in STRING /\ m.hdr \in Text /\ m.body \in Text
  BY BytesAreText DEF Requests
<1>2. <<"GET", m.uri>> \in Tokens /\ <<LF, LF>> \in Text
  BY <1>1, FrameTokens, ShortText
<1> QED
  BY <1>1, <1>2, HttpEncodeFacts DEF RequestPieces

Responses == [status : {200, 404, 500}, body : Text, body2 : Text]

\* A response is sent in such pieces.
LEMMA ResponseFacts ==
  ASSUME NEW resp \in Responses
  PROVE  ResponsePieces(resp) \in Seq(Text)
<1>1. <<"HTTP/1.1", resp.status>> \in Tokens /\ <<CR, LF>> \in Text /\ <<>> \in Text
  BY FrameTokens, ShortText, TextEmpty DEF Responses
<1>2. BodyOf(resp) \in Text
  BY DEF BodyOf, Responses
<1> QED
  BY <1>1, <1>2, HttpEncodeFacts DEF ResponsePieces

\* An error is a response too.
LEMMA SetStatusFacts ==
  ASSUME NEW resp \in Responses, NEW status \in {200, 404, 500}, NEW msg \in Tokens
  PROVE  SetStatus(resp, status, msg) \in Responses
<1> DEFINE late == [resp EXCEPT !.status = status]
<1>1. resp \in [status : {200, 404, 500}, body : Text, body2 : Text] /\ <<msg>> \in Text
  BY ShortText DEF Responses
<1>2. SetStatus(resp, status, msg) = [late EXCEPT !.body = <<msg>>]
  BY DEF SetStatus
<1>3. late \in [status : {200, 404, 500}, body : Text, body2 : Text]
  BY <1>1
<1> HIDE DEF late
<1>4. \A b \in Text : [late EXCEPT !.body = b] \in [status : {200, 404, 500}, body : Text, body2 : Text]
  BY <1>3
<1> QED
  BY <1>1, <1>2, <1>4 DEF Responses

\* Whatever the request, what the handler sends and what it leaves in the
\* connection's response is a response.
LEMMA HandlerFacts ==
  ASSUME NEW resp \in Responses, NEW uri
  PROVE  Handler(uri, resp).send \in Responses /\ Handler(uri, resp).resp \in Responses
<1>1. /\ {NotFound, Failed} \subseteq Tokens /\ <<<<"hello">>>> \in Text /\ FileBytes \in Text
      /\ <<Junk>> \in Text /\ <<>> \in Text
  BY FrameTokens, ShortText, TextEmpty DEF FileBytes
<1>2. NewResponse \in Responses
  BY <1>1 DEF NewResponse, Responses
<1>3. CASE uri = "hello"
  <2>1. /\ Handler(uri, resp).send = [NewResponse EXCEPT !.body = <<<<"hello">>>>]
        /\ Handler(uri, resp).resp = resp
    BY <1>3 DEF Handler
  <2>2. [NewResponse EXCEPT !.body = <<<<"hello">>>>] \in Responses
    BY <1>1, <1>2 DEF Responses
  <2> QED
    BY <2>1, <2>2
<1>4. CASE uri = "file"
  <2>1. /\ Handler(uri, resp).send = [resp EXCEPT !.body2 = FileBytes]
        /\ Handler(uri, resp).resp = [resp EXCEPT !.body2 = <<Junk>>]
    BY <1>4 DEF Handler
  <2>2. \A b \in Text : [resp EXCEPT !.body2 = b] \in Responses
    BY DEF Responses
  <2> QED
    BY <1>1, <2>1, <2>2
<1>5. CASE uri = "badfile"
  <2>1. /\ Handler(uri, resp).send = SetStatus(resp, 500, Failed)
        /\ Handler(uri, resp).resp = SetStatus(resp, 500, Failed)
    BY <1>5 DEF Handler
  <2> QED
    BY <1>1, <2>1, SetStatusFacts
<1>6. CASE uri \notin {"hello", "file", "badfile"}
  <2>1. /\ Handler(uri, resp).send = SetStatus(resp, 404, NotFound)
        /\ Handler(uri, resp).resp = SetStatus(resp, 404, NotFound)
    BY <1>6 DEF Handler
  <2> QED
    BY <1>1, <2>1, SetStatusFacts
<1> QED
  BY <1>3, <1>4, <1>5, <1>6

\* A token that is there is found, inside the data.
LEMMA FirstFacts ==
  ASSUME NEW data \in Text, NEW t, Has(data, t)
  PROVE  First(data, t) \in 1..Len(data) /\ data[First(data, t)] = t
<1> DEFINE T == {i \in DOMAIN data : data[i] = t}
<1>1. DOMAIN data = 1..Len(data) /\ Len(data) \in Nat
  BY LenProperties DEF Text
<1>2. T \subseteq Nat /\ T # {}
  BY <1>1 DEF Has
<1>3. Min(T) \in T
  <2> HIDE DEF T
  <2> QED
    BY <1>2, LeastIsMin
<1> QED
  BY <1>1, <1>3 DEF First

\* A part of the data is made of tokens.
LEMMA PartFacts ==
  ASSUME NEW data \in Text, NEW m \in Nat, NEW n \in Int, 1 <= m, n <= Len(data)
  PROVE  SubSeq(data, m, n) \in Text
<1>1. \A i \in m..n : data[i] \in Tokens
  BY ElementOfSeq, LenProperties DEF Text
<1> QED
  BY <1>1, SubSeqProperties DEF Text

\* No codec consumes more than there is.  (codec.cc tryDecode; conn.cc onMsg
\* consumes what it returns.)
LEMMA DecodeFacts ==
  ASSUME NEW codec \in Framings, NEW data \in Text
  PROVE  LET d == TryDecode(codec, data)
         IN  d.r \in Int /\ d.r <= Len(data) /\ d.msg \in Text
<1> DEFINE Good(d) == d.r \in Int /\ d.r <= Len(data) /\ d.msg \in Text
<1>1. Len(data) \in Nat /\ <<>> \in Text
  BY LenProperties, TextEmpty DEF Text
<1>2. Good(Nothing)
  BY <1>1 DEF Nothing
<1>3. ASSUME NEW t, Alone(data, t) PROVE Good([r |-> 1, msg |-> data])
  BY <1>3 DEF Alone
<1>4. Good(LineDecode(data))
  <2>1. CASE Alone(data, EOT)
    <3>1. LineDecode(data) = [r |-> 1, msg |-> data]
      BY <2>1 DEF LineDecode
    <3> QED
      BY <1>3, <2>1, <3>1
  <2>2. CASE ~Alone(data, EOT) /\ Has(data, LF)
    <3> DEFINE i == First(data, LF)
               end == IF i > 1 /\ data[i - 1] = CR THEN i - 2 ELSE i - 1
    <3>1. i \in 1..Len(data) /\ end \in Int /\ end <= Len(data)
      <4>1. i \in 1..Len(data)
        BY <2>2, FirstFacts
      <4> HIDE DEF i
      <4> QED
        BY <1>1, <4>1
    <3>2. LineDecode(data) = [r |-> i, msg |-> SubSeq(data, 1, end)]
      BY <2>2 DEF LineDecode
    <3> HIDE DEF i, end
    <3>3. SubSeq(data, 1, end) \in Text
      BY <3>1, PartFacts
    <3> QED
      BY <1>1, <3>1, <3>2, <3>3
  <2>3. CASE ~Alone(data, EOT) /\ ~Has(data, LF)
    <3>1. LineDecode(data) = Nothing
      BY <2>3 DEF LineDecode
    <3> QED
      BY <1>2, <3>1
  <2> QED
    BY <2>1, <2>2, <2>3
<1>5. Good(BracketDecode(data))
  <2>1. CASE Alone(data, EOT)
    <3>1. BracketDecode(data) = [r |-> 1, msg |-> data]
      BY <2>1, <1>1 DEF BracketDecode, Alone, EOT
    <3> QED
      BY <1>3, <2>1, <3>1
  <2> DEFINE full == Len(data) > 2 /\ data[1] = Opening /\ Has(data, Closing)
  <2>2. CASE ~Alone(data, EOT) /\ full
    <3> DEFINE i == First(data, Closing)
    <3>1. i \in 1..Len(data)
      BY <2>2, FirstFacts
    <3>2. BracketDecode(data) = [r |-> i, msg |-> SubSeq(data, 2, i - 1)]
      BY <2>2 DEF BracketDecode
    <3> HIDE DEF i
    <3>3. SubSeq(data, 2, i - 1) \in Text
      BY <1>1, <3>1, PartFacts
    <3> QED
      BY <1>1, <3>1, <3>2, <3>3
  <2>3. CASE ~Alone(data, EOT) /\ ~full
    <3>1. BracketDecode(data) = Nothing
      BY <2>3 DEF BracketDecode
    <3> QED
      BY <1>2, <3>1
  <2> QED
    BY <2>1, <2>2, <2>3
<1>6. Good(LengthDecode(data))
  <2>1. CASE Len(data) < 2
    <3>1. LengthDecode(data) = Nothing
      BY <1>1, <2>1 DEF LengthDecode
    <3> QED
      BY <1>2, <3>1
  <2>2. CASE Len(data) >= 2
    <3> DEFINE len == LengthOf(data[2])
    <3>1. len \in Nat
      <4>1. data[2] \in Tokens
        BY <1>1, <2>2, ElementOfSeq DEF Text
      <4> QED
        BY <4>1, TokenFacts, MsgAssumption DEF LengthOf
    <3>2. \/ LengthDecode(data) = Nothing
          \/ LengthDecode(data) = [r |-> -1, msg |-> <<>>]
          \/ len + 2 <= Len(data) /\ LengthDecode(data) = [r |-> len + 2, msg |-> SubSeq(data, 3, len + 2)]
      <4>1. CASE data[1] # Magic \/ len > MaxBody
        BY <1>1, <2>2, <4>1 DEF LengthDecode
      <4>2. CASE ~(data[1] # Magic \/ len > MaxBody) /\ len <= MaxBody /\ len + 2 <= Len(data)
        BY <1>1, <2>2, <4>2 DEF LengthDecode
      <4>3. CASE ~(data[1] # Magic \/ len > MaxBody) /\ ~(len <= MaxBody /\ len + 2 <= Len(data))
        BY <1>1, <2>2, <4>3 DEF LengthDecode
      <4> QED
        BY <4>1, <4>2, <4>3
    <3> HIDE DEF len
    <3>3. len + 2 <= Len(data) => SubSeq(data, 3, len + 2) \in Text
      BY <1>1, <3>1, PartFacts
    <3>4. CASE LengthDecode(data) = Nothing
      BY <1>2, <3>4
    <3>5. CASE LengthDecode(data) = [r |-> -1, msg |-> <<>>]
      BY <1>1, <3>5
    <3>6. CASE len + 2 <= Len(data) /\ LengthDecode(data) = [r |-> len + 2, msg |-> SubSeq(data, 3, len + 2)]
      BY <1>1, <3>1, <3>3, <3>6
    <3> QED
      BY <3>2, <3>4, <3>5, <3>6
  <2> QED
    BY <1>1, <2>1, <2>2
<1> QED
  BY <1>4, <1>5, <1>6 DEF TryDecode, Framings

-----------------------------------------------------------------------------
(* What one call of a decoder delivers.                                     *)

\* Two pieces flattened.
LEMMA TwoPieces ==
  ASSUME NEW a, NEW b
  PROVE  FlattenSeq(<<a, b>>) = a \o b
<1> DEFINE s == <<a, b>>
<1>1. Len(s) = 2 /\ s[1] = a /\ s[2] = b
  OBVIOUS
<1> HIDE DEF s
<1>2. PICK f : IsFlat(f, s, 2) /\ FlattenSeq(s) = f[2]
  BY <1>1, FlattenIs
<1>3. \A i \in 1..2 : f[i] = IF i = 1 THEN s[i] ELSE f[i - 1] \o s[i]
  BY <1>2, Zenon DEF IsFlat
<1>4. f[1] = a /\ f[2] = a \o b
  <2>1. 1 \in 1..2 /\ 2 \in 1..2 /\ 2 # 1 /\ 2 - 1 = 1
    OBVIOUS
  <2>2. f[1] = s[1] /\ f[2] = f[2 - 1] \o s[2]
    BY <1>3, <2>1, Zenon
  <2> QED
    BY <1>1, <2>1, <2>2
<1> QED
  BY <1>2, <1>4 DEF s

\* The same of three.
LEMMA ThreePieces ==
  ASSUME NEW s, Len(s) = 3
  PROVE  FlattenSeq(s) = (s[1] \o s[2]) \o s[3]
<1>1. Len(s) = 3
  OBVIOUS
<1>2. PICK f : IsFlat(f, s, 3) /\ FlattenSeq(s) = f[3]
  <2>1. Len(s) \in Nat \ {0}
    BY <1>1
  <2>2. \E f : IsFlat(f, s, Len(s)) /\ FlattenSeq(s) = f[Len(s)]
    BY <2>1, FlattenIs
  <2> QED
    BY <1>1, <2>2
<1>3. \A i \in 1..3 : f[i] = IF i = 1 THEN s[i] ELSE f[i - 1] \o s[i]
  BY <1>2, Zenon DEF IsFlat
<1>4. f[1] = s[1] /\ f[2] = s[1] \o s[2] /\ f[3] = (s[1] \o s[2]) \o s[3]
  <2>1. 1 \in 1..3 /\ 2 \in 1..3 /\ 3 \in 1..3 /\ 2 # 1 /\ 3 # 1 /\ 2 - 1 = 1 /\ 3 - 1 = 2
    OBVIOUS
  <2>2. f[1] = s[1] /\ f[2] = f[2 - 1] \o s[2] /\ f[3] = f[3 - 1] \o s[3]
    BY <1>3, <2>1, Zenon
  <2> QED
    BY <1>1, <2>1, <2>2
<1> QED
  BY <1>2, <1>4

\* Two tokens in a row.
LEMMA PairOf ==
  ASSUME NEW t \in Tokens, NEW u \in Tokens
  PROVE  <<t>> \o <<u>> = <<t, u>>
<1> DEFINE a == <<t>>
           b == <<u>>
           ab == <<t, u>>
<1>1. /\ a \in Seq(Tokens) /\ Len(a) = 1 /\ a[1] = t
      /\ b \in Seq(Tokens) /\ Len(b) = 1 /\ b[1] = u
      /\ ab \in Seq(Tokens) /\ Len(ab) = 2 /\ ab[1] = t /\ ab[2] = u
  OBVIOUS
<1> HIDE DEF a, b, ab
<1>2. /\ a \o b \in Seq(Tokens) /\ Len(a \o b) = 2
      /\ \A i \in 1..2 : (a \o b)[i] = IF i <= 1 THEN a[i] ELSE b[i - 1]
  <2>1. /\ a \o b \in Seq(Tokens) /\ Len(a \o b) = Len(a) + Len(b)
        /\ \A i \in 1..Len(a) + Len(b) : (a \o b)[i] = IF i <= Len(a) THEN a[i] ELSE b[i - Len(a)]
    BY <1>1, ConcatProperties
  <2> QED
    BY <1>1, <2>1
<1>3. \A i \in 1..Len(ab) : (a \o b)[i] = ab[i]
  BY <1>1, <1>2
<1>4. a \o b = ab
  BY <1>1, <1>2, <1>3, SeqEqual
<1> QED
  BY <1>4 DEF a, b, ab

\* What stands where in two texts, one behind the other.
LEMMA TextElements ==
  ASSUME NEW a \in Text, NEW b \in Text
  PROVE  \A i \in 1..Len(a) + Len(b) : (a \o b)[i] = IF i <= Len(a) THEN a[i] ELSE b[i - Len(a)]
BY ConcatProperties DEF Text

\* Where the parts of a framed message stand in the input that begins with it.
FrameAt(data, pre, msg, post, rest) ==
  LET p == Len(pre)
      q == p + Len(msg)
  IN  /\ {p, Len(msg), Len(post), Len(rest)} \subseteq Nat
      /\ data \in Text /\ Len(data) = q + Len(post) + Len(rest)
      /\ \A i \in 1..p : data[i] = pre[i]
      /\ \A i \in 1..Len(msg) : data[p + i] = msg[i]
      /\ \A i \in 1..Len(post) : data[q + i] = post[i]
      /\ SubSeq(data, p + 1, q) = msg

\* They stand there, whatever the message and whatever follows.
LEMMA FrameParts ==
  ASSUME NEW pre \in Text, NEW msg \in Text, NEW post \in Text, NEW rest \in Text
  PROVE  FrameAt(((pre \o msg) \o post) \o rest, pre, msg, post, rest)
<1> DEFINE ab == pre \o msg
           abc == ab \o post
           data == abc \o rest
           p == Len(pre)
           m == Len(msg)
           q == p + m
<1>1. p \in Nat /\ m \in Nat /\ Len(post) \in Nat /\ Len(rest) \in Nat
  BY LenProperties DEF Text
<1>2. /\ ab \in Text /\ Len(ab) = q
      /\ \A i \in 1..q : ab[i] = IF i <= p THEN pre[i] ELSE msg[i - p]
  BY TextConcat, TextElements
<1> HIDE DEF ab
<1>3. /\ abc \in Text /\ Len(abc) = q + Len(post)
      /\ \A i \in 1..q + Len(post) : abc[i] = IF i <= q THEN ab[i] ELSE post[i - q]
  <2>1. ab \in Text
    BY <1>2
  <2>2. /\ abc \in Text /\ Len(abc) = Len(ab) + Len(post)
        /\ \A i \in 1..Len(ab) + Len(post) : abc[i] = IF i <= Len(ab) THEN ab[i] ELSE post[i - Len(ab)]
    BY <2>1, TextConcat, TextElements
  <2> HIDE DEF abc
  <2> QED
    BY <1>1, <1>2, <2>2
<1> HIDE DEF abc
<1>4. /\ data \in Text /\ Len(data) = q + Len(post) + Len(rest)
      /\ \A i \in 1..q + Len(post) : data[i] = abc[i]
  <2>1. /\ data \in Text /\ Len(data) = Len(abc) + Len(rest)
        /\ \A i \in 1..Len(abc) + Len(rest) : data[i] = IF i <= Len(abc) THEN abc[i] ELSE rest[i - Len(abc)]
    <3>1. abc \in Text
      BY <1>3
    <3> QED
      BY <3>1, TextConcat, TextElements
  <2> HIDE DEF data
  <2> QED
    BY <1>1, <1>3, <2>1
<1> HIDE DEF data
<1>5. \A i \in 1..p : data[i] = pre[i]
  BY <1>1, <1>2, <1>3, <1>4
<1>6. \A i \in 1..m : data[p + i] = msg[i]
  <2> SUFFICES ASSUME NEW i \in 1..m PROVE data[p + i] = msg[i]
    OBVIOUS
  <2>1. p + i \in 1..q /\ ~ (p + i <= p) /\ (p + i) - p = i
    BY <1>1
  <2> QED
    BY <1>1, <1>2, <1>3, <1>4, <2>1
<1>7. \A i \in 1..Len(post) : data[q + i] = post[i]
  <2> SUFFICES ASSUME NEW i \in 1..Len(post) PROVE data[q + i] = post[i]
    OBVIOUS
  <2>1. q + i \in 1..q + Len(post) /\ ~ (q + i <= q) /\ (q + i) - q = i
    BY <1>1
  <2> QED
    BY <1>1, <1>3, <1>4, <2>1
<1>8. SubSeq(data, p + 1, q) = msg
  <2> DEFINE l == SubSeq(data, p + 1, q)
  <2>1. q <= Len(data)
    BY <1>1, <1>4
  <2>2. l \in Text /\ Len(l) = m /\ \A i \in 1..m : l[i] = data[p + i]
    <3>1. l \in Text
      BY <1>1, <1>4, <2>1, PartFacts
    <3>2. /\ Len(l) = IF p + 1 <= q + 1 THEN q - (p + 1) + 1 ELSE 0
          /\ \A i \in 1..Len(l) : l[i] = data[(p + 1) + i - 1]
      BY <1>1, <1>4, <2>1, SubSeqProperties, ElementOfSeq DEF Text
    <3> HIDE DEF l
    <3>3. Len(l) = m
      BY <1>1, <3>2
    <3>4. \A i \in 1..m : (p + 1) + i - 1 = p + i
      BY <1>1
    <3> QED
      BY <3>1, <3>2, <3>3, <3>4
  <2> HIDE DEF l
  <2>3. \A i \in 1..Len(l) : l[i] = msg[i]
    BY <1>6, <2>2
  <2>4. l = msg
    BY <2>2, <2>3, SeqEqual DEF Text
  <2> QED
    BY <2>4 DEF l
<1> QED
  <2> HIDE DEF p, m, q
  <2>1. FrameAt(data, pre, msg, post, rest)
    <3> USE DEF p, m, q
    <3> QED
      BY <1>1, <1>4, <1>5, <1>6, <1>7, <1>8 DEF FrameAt
  <2> QED
    BY <2>1 DEF data, abc, ab

\* The first token of its kind is where nothing before it is.
LEMMA FirstIs ==
  ASSUME NEW data \in Text, NEW t, NEW k \in 1..Len(data), data[k] = t,
         \A i \in 1..k - 1 : data[i] # t
  PROVE  Has(data, t) /\ First(data, t) = k
<1>1. Has(data, t)
  BY LenProperties DEF Has, Text
<1>2. DOMAIN data = 1..Len(data) /\ Len(data) \in Nat
  BY LenProperties DEF Text
<1> DEFINE T == {i \in DOMAIN data : data[i] = t}
<1>3. T \subseteq Nat /\ k \in T /\ \A i \in T : k <= i
  BY <1>2
<1>4. Min(T) \in T /\ Min(T) <= k
  <2> HIDE DEF T
  <2> QED
    BY <1>3, LeastIsMin
<1>5. Min(T) = k
  BY <1>2, <1>3, <1>4
<1> QED
  BY <1>1, <1>5 DEF First

\* The input that begins with an encoded message, and how long that message is.
\* (codec.cc encode.)
LEMMA FrameOf ==
  ASSUME NEW msg \in Text
  PROVE  /\ FlattenSeq(Encode("line", msg)) = (<<>> \o msg) \o <<CR, LF>>
         /\ FlattenSeq(Encode("bracket", msg)) = (<<Opening>> \o msg) \o <<Closing>>
         /\ FlattenSeq(Encode("length", msg)) = (<<Magic, Length(Len(msg))>> \o msg) \o <<>>
<1>1. <<>> \o msg = msg
  BY TextEmpty
<1>2. (<<Magic, Length(Len(msg))>> \o msg) \o <<>> = <<Magic, Length(Len(msg))>> \o msg
  <2>1. Len(msg) \in Nat
    BY LenProperties DEF Text
  <2>2. <<Magic, Length(Len(msg))>> \in Text
    BY <2>1, FrameTokens, ShortText
  <2>3. <<Magic, Length(Len(msg))>> \o msg \in Text
    BY <2>2, TextConcat
  <2> QED
    BY <2>3, TextEmpty
<1>3. <<Magic>> \o <<Length(Len(msg))>> = <<Magic, Length(Len(msg))>>
  <2>1. Len(msg) \in Nat
    BY LenProperties DEF Text
  <2> QED
    BY <2>1, FrameTokens, PairOf
<1> QED
  <2> DEFINE size == <<Length(Len(msg))>>
  <2>1. /\ FlattenSeq(<<msg, <<CR, LF>>>>) = msg \o <<CR, LF>>
        /\ FlattenSeq(<<<<Opening>>, msg, <<Closing>>>>) = (<<Opening>> \o msg) \o <<Closing>>
        /\ FlattenSeq(<<<<Magic>>, size, msg>>) = (<<Magic>> \o size) \o msg
    <3> DEFINE op == <<Opening>>
               cl == <<Closing>>
               mag == <<Magic>>
    <3> HIDE DEF size, op, cl, mag
    <3>1. FlattenSeq(<<msg, <<CR, LF>>>>) = msg \o <<CR, LF>>
      BY TwoPieces
    <3>2. FlattenSeq(<<op, msg, cl>>) = (op \o msg) \o cl
      <4> DEFINE s == <<op, msg, cl>>
      <4>1. Len(s) = 3 /\ s[1] = op /\ s[2] = msg /\ s[3] = cl
        OBVIOUS
      <4> HIDE DEF s
      <4>2. FlattenSeq(s) = (op \o msg) \o cl
        BY <4>1, ThreePieces
      <4> QED
        BY <4>2 DEF s
    <3>3. FlattenSeq(<<mag, size, msg>>) = (mag \o size) \o msg
      <4> DEFINE s == <<mag, size, msg>>
      <4>1. Len(s) = 3 /\ s[1] = mag /\ s[2] = size /\ s[3] = msg
        OBVIOUS
      <4> HIDE DEF s
      <4>2. FlattenSeq(s) = (mag \o size) \o msg
        BY <4>1, ThreePieces
      <4> QED
        BY <4>2 DEF s
    <3> QED
      BY <3>1, <3>2, <3>3 DEF op, cl, mag
  <2>2. Encode("line", msg) = <<msg, <<CR, LF>>>>
    BY DEF Encode
  <2>3. Encode("bracket", msg) = <<<<Opening>>, msg, <<Closing>>>>
    BY DEF Encode
  <2>4. Encode("length", msg) = <<<<Magic>>, size, msg>>
    BY DEF Encode
  <2> QED
    BY <1>1, <1>2, <1>3, <2>1, <2>2, <2>3, <2>4, Zenon

\* A line without a line feed in it is delivered as it was sent, whatever
\* follows it, a carriage return at its end included.  (LineCodec::tryDecode.)
LEMMA LineDelivered ==
  ASSUME NEW msg \in Text, NEW rest \in Text, ~Has(msg, LF)
  PROVE  LineDecode(((<<>> \o msg) \o <<CR, LF>>) \o rest) = [r |-> Len(msg) + 2, msg |-> msg]
<1> DEFINE data == ((<<>> \o msg) \o <<CR, LF>>) \o rest
           m == Len(msg)
<1>1. <<>> \in Text /\ <<CR, LF>> \in Text
  BY TextEmpty, FrameTokens, ShortText
<1>2. /\ m \in Nat /\ Len(rest) \in Nat
      /\ data \in Text /\ Len(data) = m + 2 + Len(rest)
      /\ \A i \in 1..m : data[i] = msg[i]
      /\ data[m + 1] = CR /\ data[m + 2] = LF
      /\ SubSeq(data, 1, m) = msg
  <2> DEFINE pre == <<>>
             post == <<CR, LF>>
  <2>1. Len(pre) = 0 /\ Len(post) = 2 /\ post[1] = CR /\ post[2] = LF
    OBVIOUS
  <2>2. /\ {Len(pre), m, Len(post), Len(rest)} \subseteq Nat
        /\ data \in Text /\ Len(data) = Len(pre) + m + Len(post) + Len(rest)
        /\ \A i \in 1..m : data[Len(pre) + i] = msg[i]
        /\ \A i \in 1..Len(post) : data[Len(pre) + m + i] = post[i]
        /\ SubSeq(data, Len(pre) + 1, Len(pre) + m) = msg
    <3>1. FrameAt(data, pre, msg, post, rest)
      BY <1>1, FrameParts
    <3> HIDE DEF data, pre, post
    <3> QED
      BY <3>1 DEF FrameAt
  <2> HIDE DEF data, pre, post
  <2>3. 0 + m = m /\ 0 + 1 = 1 /\ \A i \in 1..m : 0 + i = i
    BY <2>2
  <2> QED
    BY <2>1, <2>2, <2>3
<1> HIDE DEF data
<1>3. \A i \in 1..m + 1 : data[i] # LF
  <2>1. \A i \in 1..m : msg[i] # LF
    BY LenProperties DEF Has, Text
  <2>2. CR # LF
    BY DEF CR, LF
  <2> QED
    BY <1>2, <2>1, <2>2
<1>4. Has(data, LF) /\ First(data, LF) = m + 2
  <2> DEFINE k == m + 2
  <2>1. k \in 1..Len(data) /\ k - 1 = m + 1 /\ data[k] = LF /\ data \in Text
    BY <1>2
  <2>2. \A i \in 1..k - 1 : data[i] # LF
    BY <1>3, <2>1
  <2> HIDE DEF k
  <2>3. Has(data, LF) /\ First(data, LF) = k
    BY <2>1, <2>2, FirstIs
  <2> QED
    BY <2>3 DEF k
<1>5. ~Alone(data, EOT)
  <2>1. Len(<<EOT>>) = 1 /\ Len(data) # 1
    BY <1>2
  <2> QED
    BY <2>1 DEF Alone
<1> DEFINE i == First(data, LF)
           end == IF i > 1 /\ data[i - 1] = CR THEN i - 2 ELSE i - 1
<1>6. LineDecode(data) = [r |-> i, msg |-> SubSeq(data, 1, end)]
  BY <1>4, <1>5 DEF LineDecode
<1>7. i = m + 2 /\ end = m
  <2>1. m + 2 > 1 /\ (m + 2) - 1 = m + 1 /\ (m + 2) - 2 = m
    BY <1>2
  <2> QED
    BY <1>2, <1>4, <2>1
<1> HIDE DEF i, end
<1> QED
  BY <1>2, <1>6, <1>7 DEF data

\* What stands in brackets, without a closing one in it, is delivered as it was
\* sent, except that nothing between brackets waits for what follows it.
\* (BracketCodec::tryDecode.)
LEMMA BracketDelivered ==
  ASSUME NEW msg \in Text, NEW rest \in Text, ~Has(msg, Closing), msg # <<>> \/ rest # <<>>
  PROVE  BracketDecode(((<<Opening>> \o msg) \o <<Closing>>) \o rest) = [r |-> Len(msg) + 2, msg |-> msg]
<1> DEFINE data == ((<<Opening>> \o msg) \o <<Closing>>) \o rest
           m == Len(msg)
<1>1. <<Opening>> \in Text /\ <<Closing>> \in Text
  BY FrameTokens, ShortText
<1>2. /\ m \in Nat /\ Len(rest) \in Nat
      /\ data \in Text /\ Len(data) = m + 2 + Len(rest)
      /\ data[1] = Opening
      /\ \A i \in 1..m : data[1 + i] = msg[i]
      /\ data[m + 2] = Closing
      /\ SubSeq(data, 2, m + 1) = msg
  <2> DEFINE pre == <<Opening>>
             post == <<Closing>>
  <2>1. Len(pre) = 1 /\ Len(post) = 1 /\ pre[1] = Opening /\ post[1] = Closing
    OBVIOUS
  <2>2. /\ {Len(pre), m, Len(post), Len(rest)} \subseteq Nat
        /\ data \in Text /\ Len(data) = Len(pre) + m + Len(post) + Len(rest)
        /\ \A i \in 1..Len(pre) : data[i] = pre[i]
        /\ \A i \in 1..m : data[Len(pre) + i] = msg[i]
        /\ \A i \in 1..Len(post) : data[Len(pre) + m + i] = post[i]
        /\ SubSeq(data, Len(pre) + 1, Len(pre) + m) = msg
    <3>1. FrameAt(data, pre, msg, post, rest)
      BY <1>1, FrameParts
    <3> HIDE DEF data, pre, post
    <3> QED
      BY <3>1 DEF FrameAt
  <2> HIDE DEF data, pre, post
  <2>3. 1 + m = m + 1 /\ 1 + m + 1 = m + 2 /\ 1 + 1 = 2 /\ 1 + m + 1 + Len(rest) = m + 2 + Len(rest)
    BY <2>2
  <2> QED
    BY <2>1, <2>2, <2>3
<1> HIDE DEF data
<1>3. \A i \in 1..m + 1 : data[i] # Closing
  <2>1. \A i \in 1..m : msg[i] # Closing
    BY LenProperties DEF Has, Text
  <2>2. Opening # Closing
    BY DEF Opening, Closing
  <2> SUFFICES ASSUME NEW i \in 1..m + 1 PROVE data[i] # Closing
    OBVIOUS
  <2>3. CASE i = 1
    BY <1>2, <2>2, <2>3
  <2>4. CASE i # 1
    <3>1. i - 1 \in 1..m /\ 1 + (i - 1) = i
      BY <1>2, <2>4
    <3> QED
      BY <1>2, <2>1, <3>1
  <2> QED
    BY <2>3, <2>4
<1>4. Has(data, Closing) /\ First(data, Closing) = m + 2
  <2> DEFINE k == m + 2
  <2>1. k \in 1..Len(data) /\ k - 1 = m + 1 /\ data[k] = Closing /\ data \in Text
    BY <1>2
  <2>2. \A i \in 1..k - 1 : data[i] # Closing
    BY <1>3, <2>1
  <2> HIDE DEF k
  <2>3. Has(data, Closing) /\ First(data, Closing) = k
    BY <2>1, <2>2, FirstIs
  <2> QED
    BY <2>3 DEF k
<1>5. ~Alone(data, EOT) /\ Len(data) > 2
  <2>1. m > 0 \/ Len(rest) > 0
    BY <1>2, EmptySeq DEF Text
  <2>2. Len(data) > 2
    BY <1>2, <2>1
  <2>3. Len(<<EOT>>) = 1
    OBVIOUS
  <2> QED
    BY <2>2, <2>3 DEF Alone
<1> DEFINE i == First(data, Closing)
<1>6. BracketDecode(data) = [r |-> i, msg |-> SubSeq(data, 2, i - 1)]
  BY <1>2, <1>4, <1>5 DEF BracketDecode
<1>7. i = m + 2 /\ i - 1 = m + 1
  BY <1>2, <1>4
<1> HIDE DEF i
<1> QED
  BY <1>2, <1>6, <1>7 DEF data

\* A message that is not too long is delivered as it was sent, whatever it holds
\* and whatever follows it.  (LengthCodec::tryDecode.)
LEMMA LengthDelivered ==
  ASSUME NEW msg \in Text, NEW rest \in Text, Len(msg) <= MaxBody
  PROVE  LengthDecode(((<<Magic, Length(Len(msg))>> \o msg) \o <<>>) \o rest)
           = [r |-> Len(msg) + 2, msg |-> msg]
<1> DEFINE data == ((<<Magic, Length(Len(msg))>> \o msg) \o <<>>) \o rest
           m == Len(msg)
<1>1. m \in Nat /\ <<>> \in Text /\ <<Magic, Length(m)>> \in Text
  <2>1. m \in Nat
    BY LenProperties DEF Text
  <2> QED
    BY <2>1, TextEmpty, FrameTokens, ShortText
<1>2. /\ Len(rest) \in Nat
      /\ data \in Text /\ Len(data) = m + 2 + Len(rest)
      /\ data[1] = Magic /\ data[2] = Length(m)
      /\ SubSeq(data, 3, m + 2) = msg
  <2> DEFINE pre == <<Magic, Length(m)>>
             post == <<>>
  <2>1. Len(pre) = 2 /\ Len(post) = 0 /\ pre[1] = Magic /\ pre[2] = Length(m)
    OBVIOUS
  <2>2. /\ Len(rest) \in Nat
        /\ data \in Text /\ Len(data) = Len(pre) + m + Len(post) + Len(rest)
        /\ \A i \in 1..Len(pre) : data[i] = pre[i]
        /\ SubSeq(data, Len(pre) + 1, Len(pre) + m) = msg
    <3>1. FrameAt(data, pre, msg, post, rest)
      BY <1>1, FrameParts
    <3> HIDE DEF data, pre, post
    <3> QED
      BY <3>1 DEF FrameAt
  <2> HIDE DEF data, pre, post
  <2>3. 2 + m = m + 2 /\ 2 + 1 = 3 /\ 2 + m + 0 + Len(rest) = m + 2 + Len(rest) /\ 1 \in 1..2 /\ 2 \in 1..2
    BY <1>1, <2>2
  <2> QED
    BY <2>1, <2>2, <2>3
<1> HIDE DEF data
<1>3. LengthOf(data[2]) = m
  <2>1. Length(m)[1] = "length" /\ Length(m)[2] = m
    BY DEF Length
  <2> QED
    BY <1>2, <2>1 DEF LengthOf
<1>4. ~(Len(data) < 2) /\ Len(data) >= 2 /\ m + 2 <= Len(data) /\ MaxBody \in Nat /\ ~(m > MaxBody)
  BY <1>1, <1>2, MsgAssumption
<1> HIDE DEF m
<1>5. LengthDecode(data) = [r |-> m + 2, msg |-> SubSeq(data, 3, m + 2)]
  <2> DEFINE len == LengthOf(data[2])
  <2>1. len = m
    BY <1>3
  <2>2. LengthDecode(data) = [r |-> len + 2, msg |-> SubSeq(data, 3, len + 2)]
    <3>1. /\ ~(Len(data) < 2) /\ ~(Len(data) >= 2 /\ (data[1] # Magic \/ len > MaxBody))
          /\ Len(data) >= 2 /\ data[1] = Magic /\ len <= MaxBody /\ len + 2 <= Len(data)
      BY <1>2, <1>4, <2>1, Len(msg) <= MaxBody DEF m
    <3> QED
      BY <3>1 DEF LengthDecode
  <2> HIDE DEF len
  <2> QED
    BY <2>1, <2>2
<1> QED
  BY <1>2, <1>5 DEF data, m

\* How long an encoded message is: each codec adds two tokens.
LEMMA FrameLength ==
  ASSUME NEW codec \in Framings, NEW msg \in Text
  PROVE  Len(FlattenSeq(Encode(codec, msg))) = Len(msg) + 2 /\ Len(msg) \in Nat
<1>1. /\ Len(msg) \in Nat /\ <<>> \in Text /\ <<CR, LF>> \in Text /\ <<Opening>> \in Text /\ <<Closing>> \in Text
      /\ <<Magic, Length(Len(msg))>> \in Text
  <2>1. Len(msg) \in Nat
    BY LenProperties DEF Text
  <2> QED
    BY <2>1, TextEmpty, FrameTokens, ShortText
<1>2. \A pre, post \in Text : Len((pre \o msg) \o post) = Len(pre) + Len(msg) + Len(post)
  <2> TAKE pre, post \in Text
  <2>1. pre \o msg \in Text /\ Len(pre \o msg) = Len(pre) + Len(msg)
    BY ConcatProperties DEF Text
  <2> QED
    BY <2>1, ConcatProperties DEF Text
<1>3. CASE codec = "line"
  <2>1. Len((<<>> \o msg) \o <<CR, LF>>) = Len(msg) + 2
    <3>1. Len(<<>>) = 0 /\ Len(<<CR, LF>>) = 2
      OBVIOUS
    <3> QED
      BY <1>1, <1>2, <3>1
  <2> QED
    BY <1>3, <2>1, <1>1, FrameOf
<1>4. CASE codec = "bracket"
  <2>1. Len((<<Opening>> \o msg) \o <<Closing>>) = Len(msg) + 2
    <3>1. Len(<<Opening>>) = 1 /\ Len(<<Closing>>) = 1
      OBVIOUS
    <3> QED
      BY <1>1, <1>2, <3>1
  <2> QED
    BY <1>4, <2>1, <1>1, FrameOf
<1>5. CASE codec = "length"
  <2>1. Len((<<Magic, Length(Len(msg))>> \o msg) \o <<>>) = Len(msg) + 2
    <3>1. Len(<<Magic, Length(Len(msg))>>) = 2 /\ Len(<<>>) = 0
      OBVIOUS
    <3> QED
      BY <1>1, <1>2, <3>1
  <2> QED
    BY <1>5, <2>1, <1>1, FrameOf
<1> QED
  BY <1>3, <1>4, <1>5 DEF Framings

\* A message that encode wrote is what tryDecode finds at the beginning of the
\* input, whatever follows it, and exactly its bytes are consumed.  The codec's
\* own limits are the hypotheses: no line feed in a line, no closing bracket in
\* brackets, nothing longer than the limit, and an empty message in brackets only
\* with something behind it.  (codec.cc; conn.cc onMsg.)
THEOREM MessageDelivered ==
  ASSUME NEW codec \in Framings, NEW msg \in Text, NEW rest \in Text,
         codec = "line" => ~Has(msg, LF),
         codec = "bracket" => ~Has(msg, Closing) /\ (msg # <<>> \/ rest # <<>>),
         codec = "length" => Len(msg) <= MaxBody
  PROVE  LET sent == FlattenSeq(Encode(codec, msg))
         IN  TryDecode(codec, sent \o rest) = [r |-> Len(sent), msg |-> msg]
<1>1. Len(FlattenSeq(Encode(codec, msg))) = Len(msg) + 2
  BY FrameLength
<1>2. CASE codec = "line"
  BY <1>1, <1>2, FrameOf, LineDelivered DEF TryDecode
<1>3. CASE codec = "bracket"
  BY <1>1, <1>3, FrameOf, BracketDelivered DEF TryDecode
<1>4. CASE codec = "length"
  BY <1>1, <1>4, FrameOf, LengthDelivered DEF TryDecode
<1> QED
  BY <1>2, <1>3, <1>4 DEF Framings

\* The beginning of a text.
LEMMA BeginningOf ==
  ASSUME NEW s \in Text, NEW n \in 0..Len(s)
  PROVE  LET p == SubSeq(s, 1, n)
         IN  p \in Text /\ Len(p) = n /\ DOMAIN p = 1..n /\ \A i \in 1..n : p[i] = s[i]
<1> DEFINE p == SubSeq(s, 1, n)
<1>1. p \in Seq(Tokens) /\ Len(p) = n /\ \A i \in 1..n : p[i] = s[i]
  BY SubSeqProperties, LenProperties, ElementOfSeq DEF Text
<1> HIDE DEF p
<1>2. DOMAIN p = 1..n
  BY <1>1, LenProperties
<1> QED
  BY <1>1, <1>2 DEF p, Text

\* An encoded message, token by token.
LEMMA SentParts ==
  ASSUME NEW pre \in Text, NEW msg \in Text, NEW post \in Text
  PROVE  FrameAt((pre \o msg) \o post, pre, msg, post, <<>>)
<1>1. pre \o msg \in Text
  BY TextConcat
<1>2. (pre \o msg) \o post \in Text
  BY <1>1, TextConcat
<1>3. <<>> \in Text /\ ((pre \o msg) \o post) \o <<>> = (pre \o msg) \o post
  BY <1>2, TextEmpty
<1>4. FrameAt(((pre \o msg) \o post) \o <<>>, pre, msg, post, <<>>)
  BY <1>3, FrameParts
<1> QED
  BY <1>3, <1>4

\* Of a line only a part has come: it is not delivered, unless all that has come
\* is an end of transmission, which LineCodec takes for a message.
LEMMA LineHeld ==
  ASSUME NEW msg \in Text, ~Has(msg, LF), NEW n \in 0..Len(msg) + 1,
         SubSeq((<<>> \o msg) \o <<CR, LF>>, 1, n) # <<EOT>>
  PROVE  LineDecode(SubSeq((<<>> \o msg) \o <<CR, LF>>, 1, n)) = Nothing
<1> DEFINE pre == <<>>
           post == <<CR, LF>>
           s == (pre \o msg) \o post
           m == Len(msg)
           p == SubSeq(s, 1, n)
<1>1. pre \in Text /\ post \in Text
  BY TextEmpty, FrameTokens, ShortText
<1>2. FrameAt(s, pre, msg, post, <<>>)
  BY <1>1, SentParts
<1>3. Len(pre) = 0 /\ Len(post) = 2 /\ post[1] = CR /\ Len(<<>>) = 0
  OBVIOUS
<1> HIDE DEF s, pre, post
<1>4. m \in Nat /\ s \in Text /\ Len(s) = m + 2 /\ (\A i \in 1..m : s[i] = msg[i]) /\ s[m + 1] = CR
  <2>1. /\ m \in Nat /\ s \in Text /\ Len(s) = Len(pre) + m + Len(post) + Len(<<>>)
        /\ \A i \in 1..m : s[Len(pre) + i] = msg[i]
        /\ \A i \in 1..Len(post) : s[Len(pre) + m + i] = post[i]
    BY <1>2 DEF FrameAt
  <2>2. 0 + m = m /\ 1 \in 1..2 /\ \A i \in 1..m : 0 + i = i
    BY <2>1
  <2> QED
    BY <1>3, <2>1, <2>2
<1>5. DOMAIN p = 1..n /\ \A i \in 1..n : p[i] = s[i]
  <2>1. n \in 0..Len(s)
    BY <1>4
  <2> QED
    BY <1>4, <2>1, BeginningOf
<1>6. p # <<EOT>>
  BY DEF s, pre, post
<1> HIDE DEF p
<1>7. ~Has(p, LF)
  <2>1. \A i \in 1..m : msg[i] # LF
    BY LenProperties DEF Has, Text
  <2>2. CR # LF
    BY DEF CR, LF
  <2>3. \A i \in 1..n : i \in 1..m \/ i = m + 1
    BY <1>4
  <2> QED
    BY <1>4, <1>5, <2>1, <2>2, <2>3 DEF Has
<1>8. LineDecode(p) = Nothing
  BY <1>6, <1>7 DEF LineDecode, Alone
<1> QED
  BY <1>8 DEF p, s, pre, post

\* As long as the closing bracket has not come nothing is delivered.
LEMMA BracketHeld ==
  ASSUME NEW msg \in Text, ~Has(msg, Closing), NEW n \in 0..Len(msg) + 1
  PROVE  BracketDecode(SubSeq((<<Opening>> \o msg) \o <<Closing>>, 1, n)) = Nothing
<1> DEFINE pre == <<Opening>>
           post == <<Closing>>
           s == (pre \o msg) \o post
           m == Len(msg)
           p == SubSeq(s, 1, n)
<1>1. pre \in Text /\ post \in Text
  BY FrameTokens, ShortText
<1>2. FrameAt(s, pre, msg, post, <<>>)
  BY <1>1, SentParts
<1>3. Len(pre) = 1 /\ Len(post) = 1 /\ pre[1] = Opening /\ Len(<<>>) = 0
  OBVIOUS
<1> HIDE DEF s, pre, post
<1>4. m \in Nat /\ s \in Text /\ Len(s) = m + 2 /\ (\A i \in 1..m : s[1 + i] = msg[i]) /\ s[1] = Opening
  <2>1. /\ m \in Nat /\ s \in Text /\ Len(s) = Len(pre) + m + Len(post) + Len(<<>>)
        /\ \A i \in 1..Len(pre) : s[i] = pre[i]
        /\ \A i \in 1..m : s[Len(pre) + i] = msg[i]
    BY <1>2 DEF FrameAt
  <2>2. 1 + m + 1 + 0 = m + 2 /\ 1 \in 1..1
    BY <2>1
  <2> QED
    BY <1>3, <2>1, <2>2
<1>5. Len(p) = n /\ DOMAIN p = 1..n /\ \A i \in 1..n : p[i] = s[i]
  <2>1. n \in 0..Len(s)
    BY <1>4
  <2> QED
    BY <1>4, <2>1, BeginningOf
<1> HIDE DEF p
<1>6. ~Has(p, Closing)
  <2>1. \A i \in 1..m : msg[i] # Closing
    BY LenProperties DEF Has, Text
  <2>2. Opening # Closing
    BY DEF Opening, Closing
  <2> SUFFICES ASSUME NEW i \in 1..n PROVE p[i] # Closing
    BY <1>5 DEF Has
  <2>3. CASE i = 1
    BY <1>4, <1>5, <2>2, <2>3
  <2>4. CASE i # 1
    <3>1. i - 1 \in 1..m /\ 1 + (i - 1) = i
      BY <1>4, <2>4
    <3> QED
      BY <1>4, <1>5, <2>1, <3>1
  <2> QED
    BY <2>3, <2>4
<1>7. ~Alone(p, EOT)
  <2> SUFFICES ASSUME p = <<EOT>> PROVE FALSE
    BY DEF Alone
  <2>1. n = 1 /\ p[1] = EOT
    BY <1>5
  <2>2. p[1] = Opening
    BY <1>4, <1>5, <2>1
  <2> QED
    BY <2>1, <2>2 DEF EOT, Opening
<1>8. BracketDecode(p) = Nothing
  BY <1>6, <1>7 DEF BracketDecode
<1> QED
  BY <1>8 DEF p, s, pre, post

\* As long as a part of the message is missing nothing is delivered, and what has
\* come of it is no error.
LEMMA LengthHeld ==
  ASSUME NEW msg \in Text, Len(msg) <= MaxBody, NEW n \in 0..Len(msg) + 1
  PROVE  LengthDecode(SubSeq((<<Magic, Length(Len(msg))>> \o msg) \o <<>>, 1, n)) = Nothing
<1> DEFINE m == Len(msg)
           pre == <<Magic, Length(m)>>
           post == <<>>
           s == (pre \o msg) \o post
           p == SubSeq(s, 1, n)
<1>1. m \in Nat /\ pre \in Text /\ post \in Text
  <2>1. m \in Nat
    BY LenProperties DEF Text
  <2> QED
    BY <2>1, TextEmpty, FrameTokens, ShortText
<1>2. FrameAt(s, pre, msg, post, <<>>)
  BY <1>1, SentParts
<1>3. Len(pre) = 2 /\ Len(post) = 0 /\ pre[1] = Magic /\ pre[2] = Length(m) /\ Len(<<>>) = 0
  OBVIOUS
<1> HIDE DEF s, pre, post
<1>4. s \in Text /\ Len(s) = m + 2 /\ s[1] = Magic /\ s[2] = Length(m)
  <2>1. /\ s \in Text /\ Len(s) = Len(pre) + m + Len(post) + Len(<<>>)
        /\ \A i \in 1..Len(pre) : s[i] = pre[i]
    BY <1>2 DEF FrameAt
  <2>2. 2 + m + 0 + 0 = m + 2 /\ 1 \in 1..2 /\ 2 \in 1..2
    BY <1>1
  <2> QED
    BY <1>3, <2>1, <2>2
<1>5. Len(p) = n /\ \A i \in 1..n : p[i] = s[i]
  <2>1. n \in 0..Len(s)
    BY <1>1, <1>4
  <2> QED
    BY <1>4, <2>1, BeginningOf
<1> HIDE DEF p
<1>6. LengthDecode(p) = Nothing
  <2>1. CASE n < 2
    BY <1>5, <2>1 DEF LengthDecode
  <2>2. CASE n >= 2
    <3>1. p[1] = Magic /\ p[2] = Length(m)
      <4>1. 1 \in 1..n /\ 2 \in 1..n
        BY <2>2
      <4> QED
        BY <1>4, <1>5, <4>1
    <3>2. LengthOf(p[2]) = m
      BY <3>1 DEF LengthOf, Length
    <3>3. ~(Len(p) < 2) /\ ~(LengthOf(p[2]) > MaxBody) /\ ~(LengthOf(p[2]) + 2 <= Len(p))
      BY <1>1, <1>5, <2>2, <3>2, MsgAssumption
    <3> QED
      BY <3>1, <3>3 DEF LengthDecode
  <2> QED
    BY <1>1, <2>1, <2>2
<1> QED
  BY <1>6 DEF p, s, pre, post

\* A message that has not come whole is not delivered, wherever it was cut.
\* (codec.cc tryDecode.)
THEOREM PartNotDelivered ==
  ASSUME NEW codec \in Framings, NEW msg \in Text,
         codec = "line" => ~Has(msg, LF),
         codec = "bracket" => ~Has(msg, Closing),
         codec = "length" => Len(msg) <= MaxBody,
         NEW n \in 0..Len(FlattenSeq(Encode(codec, msg))) - 1,
         codec = "line" => SubSeq(FlattenSeq(Encode(codec, msg)), 1, n) # <<EOT>>
  PROVE  TryDecode(codec, SubSeq(FlattenSeq(Encode(codec, msg)), 1, n)) = Nothing
<1>1. Len(FlattenSeq(Encode(codec, msg))) = Len(msg) + 2 /\ Len(msg) \in Nat
  BY FrameLength
<1>2. n \in 0..Len(msg) + 1
  BY <1>1
<1>3. CASE codec = "line"
  BY <1>2, <1>3, FrameOf, LineHeld DEF TryDecode
<1>4. CASE codec = "bracket"
  BY <1>2, <1>4, FrameOf, BracketHeld DEF TryDecode
<1>5. CASE codec = "length"
  BY <1>2, <1>5, FrameOf, LengthHeld DEF TryDecode
<1> QED
  BY <1>3, <1>4, <1>5 DEF Framings

-----------------------------------------------------------------------------
(* What is kept of an HTTP message while it arrives.                        *)

Https == [complete : BOOLEAN, contentLen : Nat, scanned : Nat, line : Tokens \cup {<<>>}, body : Text]

\* A message that has not begun.
LEMMA NewHttpFacts ==
  NewHttp \in Https /\ NewHttp.scanned = 0
<1>1. <<>> \in Text
  BY DEF Text
<1> QED
  BY <1>1 DEF NewHttp, Https

\* The search for the empty line stops inside the data and never goes back.
LEMMA ScanFacts ==
  ASSUME NEW m \in Https, NEW data \in Text, m.scanned <= Len(data)
  PROVE  Scan(m, data) \in Nat /\ Scan(m, data) <= Len(data)
<1> DEFINE found == {i \in m.scanned..Len(data) - 4 : Ends4(data, i)}
<1>1. m.scanned \in Nat /\ Len(data) \in Nat
  BY LenProperties DEF Https, Text
<1>2. CASE found # {}
  <2>1. Scan(m, data) = Min(found)
    BY <1>2 DEF Scan
  <2>2. found \subseteq Nat /\ found \subseteq m.scanned..Len(data) - 4
    BY <1>1
  <2> HIDE DEF found
  <2>3. Min(found) \in found
    BY <1>2, <2>2, LeastIsMin
  <2>4. Min(found) \in m.scanned..Len(data) - 4
    BY <2>2, <2>3
  <2> QED
    BY <1>1, <2>1, <2>4
<1>3. CASE found = {}
  <2>1. Scan(m, data) = Max({m.scanned, Len(data) - 3})
    BY <1>3 DEF Scan
  <2>2. m.scanned \in Int /\ Len(data) - 3 \in Int
    BY <1>1
  <2>3. Max({m.scanned, Len(data) - 3}) \in {m.scanned, Len(data) - 3}
        /\ m.scanned <= Max({m.scanned, Len(data) - 3})
    BY <2>2, MaxOfTwo
  <2> QED
    BY <1>1, <2>1, <2>3
<1> QED
  BY <1>2, <1>3

\* The content length of a header is a natural number.
LEMMA ContentLenFacts ==
  ASSUME NEW data \in Text, NEW s \in Nat, s <= Len(data)
  PROVE  ContentLen(data, s) \in Nat
<1> DEFINE at == {i \in 2..s : Keyed(data[i], "content-length")}
<1>1. CASE at = {}
  BY <1>1 DEF ContentLen
<1>2. CASE at # {}
  <2>1. ContentLen(data, s) = data[Max(at)][3]
    BY <1>2 DEF ContentLen
  <2>2. at \subseteq 0..s
    OBVIOUS
  <2>3. Max(at) \in at
    <3> HIDE DEF at
    <3> QED
      BY <1>2, <2>2, GreatestIsMax
  <2>4. Max(at) \in 1..Len(data) /\ data[Max(at)][1] = "header"
    BY <2>3, LenProperties DEF Keyed, Text
  <2>5. data[Max(at)] \in Tokens
    BY <2>4, ElementOfSeq DEF Text
  <2> QED
    BY <2>1, <2>4, <2>5, TokenFacts
<1> QED
  BY <1>1, <1>2

\* A complete body lies within the data.
LEMMA TakeBodyFacts ==
  ASSUME NEW m \in Https, NEW data \in Text, m.scanned <= Len(data)
  PROVE  TakeBody(m, data).m \in Https /\ TakeBody(m, data).m.scanned <= Len(data)
<1>1. m.scanned \in Nat /\ m.contentLen \in Nat /\ Len(data) \in Nat
  BY LenProperties DEF Https, Text
<1>2. CASE Len(data) >= m.scanned + m.contentLen
  <2> DEFINE s == m.scanned + m.contentLen
             body == SubSeq(data, m.scanned + 1, s)
             c == [m EXCEPT !.complete = TRUE]
             d == [c EXCEPT !.scanned = s]
  <2>1. TakeBody(m, data).m = [d EXCEPT !.body = body]
    BY <1>2 DEF TakeBody
  <2>2. s \in Nat /\ s <= Len(data) /\ body \in Text
    BY <1>1, <1>2, PartFacts
  <2> HIDE DEF s, body
  <2>3. c \in Https
    BY DEF Https
  <2> HIDE DEF c
  <2>4. d \in Https /\ d.scanned = s
    BY <2>2, <2>3 DEF Https
  <2> HIDE DEF d
  <2>5. [d EXCEPT !.body = body] \in Https /\ [d EXCEPT !.body = body].scanned = s
    BY <2>2, <2>4 DEF Https
  <2> QED
    BY <2>1, <2>2, <2>5
<1>3. CASE ~(Len(data) >= m.scanned + m.contentLen)
  BY <1>3 DEF TakeBody
<1> QED
  BY <1>2, <1>3

\* No call of tryDecode_ scans more than there is, so clearData never consumes
\* more than there is.  (http.cc tryDecode_, http.h clearData.)
LEMMA HttpDecodeFacts ==
  ASSUME NEW m \in Https, NEW data \in Text, m.scanned <= Len(data)
  PROVE  HttpDecode(m, data).m \in Https /\ HttpDecode(m, data).m.scanned <= Len(data)
<1> DEFINE s == Scan(m, data)
           n == ContentLen(data, s)
           h == [m EXCEPT !.scanned = s + 4, !.line = data[1], !.contentLen = ContentLen(data, s)]
<1>1. s \in Nat /\ s <= Len(data) /\ Len(data) \in Nat /\ n \in Nat
  <2>1. s \in Nat /\ s <= Len(data)
    BY ScanFacts
  <2> HIDE DEF s
  <2> QED
    BY <2>1, ContentLenFacts, LenProperties DEF Text
<1>2. CASE m.complete
  BY <1>2 DEF HttpDecode
<1>3. CASE ~m.complete /\ m.contentLen > 0
  <2>1. HttpDecode(m, data) = TakeBody(m, data)
    BY <1>3 DEF HttpDecode, Https
  <2> QED
    BY <2>1, TakeBodyFacts
<1>4. CASE ~m.complete /\ m.contentLen = 0 /\ (s = 0 \/ s + 4 > Len(data))
  <2>1. HttpDecode(m, data).m = [m EXCEPT !.scanned = s]
    BY <1>4 DEF HttpDecode
  <2> HIDE DEF s
  <2>2. [m EXCEPT !.scanned = s] \in Https /\ [m EXCEPT !.scanned = s].scanned = s
    BY <1>1 DEF Https
  <2> QED
    BY <1>1, <2>1, <2>2
<1>5. CASE ~m.complete /\ m.contentLen = 0 /\ ~(s = 0 \/ s + 4 > Len(data))
  <2> DEFINE bad == [m EXCEPT !.scanned = s, !.line = data[1]]
  <2>1. \/ HttpDecode(m, data).m = bad
        \/ HttpDecode(m, data).m = h
        \/ HttpDecode(m, data) = TakeBody(h, data)
    BY <1>5 DEF HttpDecode
  <2>2. data[1] \in Tokens \cup {<<>>}
    <3>1. 1 \in 1..Len(data)
      BY <1>1, <1>5
    <3> QED
      BY <3>1, ElementOfSeq DEF Text
  <2>3. s + 4 \in Nat /\ s + 4 <= Len(data)
    BY <1>1, <1>5
  <2> DEFINE l == data[1]
  <2>4. bad \in Https /\ bad.scanned = s
    <3> DEFINE a == [m EXCEPT !.scanned = s]
    <3>1. bad = [a EXCEPT !.line = l]
      OBVIOUS
    <3> HIDE DEF s, l
    <3>2. a \in Https /\ a.scanned = s
      BY <1>1 DEF Https
    <3> HIDE DEF a, bad
    <3> QED
      BY <2>2, <3>1, <3>2 DEF Https, l
  <2>5. h \in Https /\ h.scanned = s + 4
    <3> DEFINE t == s + 4
               a == [m EXCEPT !.scanned = t]
               b == [a EXCEPT !.line = l]
    <3>1. h = [b EXCEPT !.contentLen = n]
      OBVIOUS
    <3>2. t \in Nat /\ l \in Tokens \cup {<<>>}
      BY <2>2, <2>3
    <3> HIDE DEF t, l, n, h
    <3>3. a \in Https /\ a.scanned = t
      BY <3>2 DEF Https
    <3> HIDE DEF a
    <3>4. b \in Https /\ b.scanned = t
      BY <3>2, <3>3 DEF Https
    <3> HIDE DEF b
    <3>5. h \in Https /\ h.scanned = t
      BY <1>1, <3>1, <3>4 DEF Https
    <3> QED
      BY <3>5 DEF t
  <2> HIDE DEF h, bad, s, l
  <2>6. TakeBody(h, data).m \in Https /\ TakeBody(h, data).m.scanned <= Len(data)
    BY <2>3, <2>5, TakeBodyFacts
  <2> QED
    BY <1>1, <2>1, <2>3, <2>4, <2>5, <2>6
<1>6. m.contentLen \in Nat
  BY DEF Https
<1> QED
  BY <1>2, <1>3, <1>4, <1>5, <1>6

-----------------------------------------------------------------------------
(* A connection.                                                            *)

Conns ==
  [in : Buffers, out : Buffers, wen : BOOLEAN, state : {"open", "reading", "ending", "closed"},
   closing : BOOLEAN, loops : Nat, http : Https, resp : Responses]

MsgTypeOK ==
  /\ mode \in Modes
  /\ nsent \in 0..Len(mode.msgs)
  /\ con \in [Sides -> Conns]
  /\ wire \in [Sides -> Text] /\ \A x \in Sides : Len(wire[x]) <= WireCap
  /\ reset \in BOOLEAN
  /\ handed \in [Sides -> Text]
  /\ taken \in [Sides -> Nat]

\* What has been scanned of an HTTP message is still in input_.
ScannedIsThere ==
  \A x \in Sides : /\ con[x].http.scanned <= Size(con[x].in)
                   /\ Proto # "http" => con[x].http.scanned = 0

\* output_ holds something only while write events are on: what is sent next
\* goes behind it.
OutputInOrder == \A x \in Sides : con[x].wen \/ Data(con[x].out) = <<>>

NotAhead == \A x \in Sides : taken[x] <= Len(handed[Peer(x)])

MsgInv ==
  /\ MsgTypeOK
  /\ ScannedIsThere
  /\ ~reset => OutputInOrder /\ NotAhead
  /\ StreamIntact

\* The other end of the other end.
LEMMA PeerFacts ==
  ASSUME NEW x \in Sides
  PROVE  Peer(x) \in Sides /\ Peer(x) # x /\ Peer(Peer(x)) = x /\ \A y \in Sides : y = x \/ y = Peer(x)
BY DEF Sides, Peer

\* The wire takes no more than it has room for.
LEMMA AcceptsFacts ==
  ASSUME MsgTypeOK, NEW x \in Sides, NEW bytes \in Text
  PROVE  /\ Accepts(x, bytes) \in 0..Len(bytes)
         /\ Len(wire[Peer(x)]) + Accepts(x, bytes) <= WireCap
<1>1. wire[Peer(x)] \in Text /\ Len(wire[Peer(x)]) <= WireCap
  BY PeerFacts DEF MsgTypeOK
<1>2. Len(bytes) \in Nat /\ WireCap - Len(wire[Peer(x)]) \in Nat /\ Len(wire[Peer(x)]) \in Nat /\ WireCap \in Nat
  BY <1>1, LenProperties, MsgAssumption DEF Text
<1> DEFINE room == WireCap - Len(wire[Peer(x)])
<1>3. Min({Len(bytes), room}) \in Nat /\ Min({Len(bytes), room}) <= Len(bytes) /\ Min({Len(bytes), room}) <= room
  <2> HIDE DEF room
  <2> QED
    BY <1>2, MinOfTwo DEF room
<1> QED
  BY <1>2, <1>3 DEF Accepts

\* Written(x, bytes) is what goes on the wire.
Written(x, bytes) == SubSeq(bytes, 1, Accepts(x, bytes))

\* write(): the other direction is as it was, and this one has them behind.
LEMMA WriteFacts ==
  ASSUME MsgTypeOK, NEW x \in Sides, NEW bytes \in Text, Write(x, bytes)
  PROVE  /\ wire' \in [Sides -> Text] /\ \A y \in Sides : Len(wire'[y]) <= WireCap
         /\ wire'[x] = wire[x] /\ wire'[Peer(x)] = wire[Peer(x)] \o Written(x, bytes)
         /\ Written(x, bytes) \in Text
<1> DEFINE w == Written(x, bytes)
<1>1. w \in Text /\ Len(w) = Accepts(x, bytes)
  BY AcceptsFacts, Cut DEF Text, Written
<1>2. wire \in [Sides -> Text] /\ wire' = [wire EXCEPT ![Peer(x)] = @ \o w]
  BY DEF MsgTypeOK, Write, Written
<1> HIDE DEF w
<1>3. wire[Peer(x)] \in Text /\ wire[x] \in Text
  BY <1>2, PeerFacts
<1>4. wire[Peer(x)] \o w \in Text /\ Len(wire[Peer(x)] \o w) = Len(wire[Peer(x)]) + Len(w)
  BY <1>1, <1>3, TextConcat
<1>5. wire' \in [Sides -> Text] /\ wire'[x] = wire[x] /\ wire'[Peer(x)] = wire[Peer(x)] \o w
  BY <1>2, <1>4, PeerFacts
<1>6. Len(wire[Peer(x)]) + Len(w) <= WireCap
  BY <1>1, AcceptsFacts
<1>7. Len(wire[x]) <= WireCap
  BY DEF MsgTypeOK
<1>8. \A y \in Sides : Len(wire'[y]) <= WireCap
  BY <1>4, <1>5, <1>6, <1>7, PeerFacts
<1> QED
  BY <1>1, <1>5, <1>8 DEF w

\* What is written and what stays are what there was.
LEMMA WrittenAndLeft ==
  ASSUME MsgTypeOK, NEW x \in Sides, NEW buf \in Buffers
  PROVE  LET left == Consume(buf, Accepts(x, Data(buf)))
         IN  /\ left \in Buffers /\ Size(left) = Size(buf) - Accepts(x, Data(buf))
             /\ Written(x, Data(buf)) \in Text /\ Data(left) \in Text
             /\ Written(x, Data(buf)) \o Data(left) = Data(buf)
             /\ Accepts(x, Data(buf)) \in 0..Size(buf)
<1> DEFINE n == Accepts(x, Data(buf))
<1>1. Sound(buf)
  BY ContentFacts
<1>2. Data(buf) \in Text /\ Len(Data(buf)) = Size(buf)
  BY <1>1 DEF Sound
<1>3. n \in 0..Size(buf)
  BY <1>2, AcceptsFacts
<1>4. Written(x, Data(buf)) = SubSeq(Data(buf), 1, n)
  BY DEF Written
<1> HIDE DEF n
<1>5. /\ Consume(buf, n) \in Buffers /\ Size(Consume(buf, n)) = Size(buf) - n
      /\ Data(Consume(buf, n)) = SubSeq(Data(buf), n + 1, Len(Data(buf)))
  BY <1>3, ConsumeFacts
<1>6. /\ SubSeq(Data(buf), 1, n) \in Text /\ SubSeq(Data(buf), n + 1, Len(Data(buf))) \in Text
      /\ SubSeq(Data(buf), 1, n) \o SubSeq(Data(buf), n + 1, Len(Data(buf))) = Data(buf)
  BY <1>2, <1>3, Cut DEF Text
<1> QED
  BY <1>3, <1>4, <1>5, <1>6 DEF n

\* An empty content has size zero, and conversely.
LEMMA EmptyFacts ==
  ASSUME NEW buf \in Buffers
  PROVE  (Data(buf) = <<>>) <=> (Size(buf) = 0)
<1>1. Sound(buf)
  BY ContentFacts
<1> QED
  BY <1>1, EmptySeq DEF Sound, Text

\* The fields of a connection, and a connection with other fields.
LEMMA ConnFields ==
  ASSUME NEW c \in Conns
  PROVE  /\ c.in \in Buffers /\ c.out \in Buffers /\ c.wen \in BOOLEAN /\ c.closing \in BOOLEAN
         /\ c.loops \in Nat /\ c.http \in Https /\ c.resp \in Responses
         /\ Data(c.in) \in Text /\ Data(c.out) \in Text
         /\ Len(Data(c.in)) = Size(c.in) /\ Len(Data(c.out)) = Size(c.out)
<1>1. /\ c.in \in Buffers /\ c.out \in Buffers /\ c.wen \in BOOLEAN /\ c.closing \in BOOLEAN
      /\ c.loops \in Nat /\ c.http \in Https /\ c.resp \in Responses
  BY DEF Conns
<1>2. Sound(c.in) /\ Sound(c.out)
  BY <1>1, ContentFacts
<1> QED
  BY <1>1, <1>2 DEF Sound

WithOutput(c, o, w) == [c EXCEPT !.out = o, !.wen = w]

\* A connection with another output_ and another interest in writing.
LEMMA OutputFields ==
  ASSUME NEW c \in Conns, NEW o \in Buffers, NEW w \in BOOLEAN
  PROVE  /\ WithOutput(c, o, w) \in Conns
         /\ WithOutput(c, o, w).in = c.in /\ WithOutput(c, o, w).http = c.http
         /\ WithOutput(c, o, w).out = o /\ WithOutput(c, o, w).wen = w
<1> DEFINE e == [c EXCEPT !.out = o]
           d == WithOutput(c, o, w)
<1>1. e \in Conns /\ e.in = c.in /\ e.http = c.http /\ e.out = o
  BY DEF Conns
<1>2. d = [e EXCEPT !.wen = w]
  BY DEF WithOutput
<1> HIDE DEF e, d
<1>3. d \in Conns /\ d.in = c.in /\ d.http = c.http /\ d.out = o /\ d.wen = w
  BY <1>1, <1>2 DEF Conns
<1> QED
  BY <1>3 DEF d

\* sendOutput: what was in output_ is on the wire or still there, and then write
\* events are on.  (conn.h sendOutput, conn.cc send.)
LEMMA SentOutputFacts ==
  ASSUME MsgTypeOK, NEW x \in Sides, NEW c \in Conns
  PROVE  /\ SentOutput(x, c) \in Conns
         /\ SentOutput(x, c).in = c.in /\ SentOutput(x, c).http = c.http
         /\ Written(x, Data(c.out)) \o Data(SentOutput(x, c).out) = Data(c.out)
         /\ SentOutput(x, c).wen \/ Data(SentOutput(x, c).out) = <<>>
<1> DEFINE n == Accepts(x, Data(c.out))
           o == Consume(c.out, n)
           w == c.wen \/ n < Size(c.out)
           d == SentOutput(x, c)
<1>1. c.out \in Buffers /\ c.wen \in BOOLEAN /\ Size(c.out) \in Nat
  BY ConnFields, LenProperties DEF Text
<1>2. /\ o \in Buffers /\ Size(o) = Size(c.out) - n /\ n \in 0..Size(c.out)
      /\ Written(x, Data(c.out)) \o Data(o) = Data(c.out)
  BY <1>1, WrittenAndLeft
<1>3. d = WithOutput(c, o, w)
  BY DEF SentOutput, WithOutput
<1>4. w \in BOOLEAN /\ (~w => Size(c.out) - n = 0)
  <2> HIDE DEF n
  <2> QED
    BY <1>1, <1>2
<1> HIDE DEF n, o, w, d
<1>5. d \in Conns /\ d.in = c.in /\ d.http = c.http /\ d.out = o /\ d.wen = w
  BY <1>2, <1>3, <1>4, OutputFields
<1>6. w \/ Data(o) = <<>>
  BY <1>2, <1>4, EmptyFacts
<1> QED
  BY <1>2, <1>5, <1>6 DEF d

\* send of another buffer: its content is on the wire or at the end of
\* output_, and it is empty.  (conn.cc send(Buffer&).)
LEMMA SentBufferFacts ==
  ASSUME MsgTypeOK, NEW x \in Sides, NEW c \in Conns, NEW buf \in Buffers, c.wen \/ Data(c.out) = <<>>
  PROVE  LET s == SentBuffer(x, c, buf)
         IN  /\ s.c \in Conns /\ s.c.in = c.in /\ s.c.http = c.http
             /\ s.buf \in Buffers /\ Data(s.buf) = <<>>
             /\ s.bytes \in Text
             /\ Written(x, s.bytes) \o Data(s.c.out) = Data(c.out) \o Data(buf)
             /\ s.c.wen \/ Data(s.c.out) = <<>>
<1> DEFINE s == SentBuffer(x, c, buf)
<1>1. /\ c.out \in Buffers /\ c.wen \in BOOLEAN /\ Data(c.out) \in Text
  BY ConnFields
<1>2. Data(buf) \in Text
  BY ContentFacts DEF Sound
<1>3. CASE c.wen
  <2> DEFINE two == Absorb(c.out, buf)
             d == [c EXCEPT !.out = two[1]]
  <2>1. s.c = d /\ s.buf = two[2] /\ s.bytes = <<>>
    BY <1>3 DEF SentBuffer
  <2>2. /\ two[1] \in Buffers /\ two[2] \in Buffers
        /\ Data(two[1]) = Data(c.out) \o Data(buf) /\ Data(two[2]) = <<>>
    BY <1>1, AbsorbFacts
  <2> HIDE DEF two, s
  <2>3. d \in Conns /\ d.in = c.in /\ d.http = c.http /\ d.out = two[1] /\ d.wen = c.wen
    BY <2>2 DEF Conns
  <2> HIDE DEF d
  <2>4. <<>> \in Text /\ Written(x, <<>>) = <<>>
    <3>1. <<>> \in Text /\ Len(<<>>) = 0
      BY DEF Text
    <3>2. Written(x, <<>>) = SubSeq(<<>>, 1, Accepts(x, <<>>)) /\ Accepts(x, <<>>) \in 0..Len(<<>>)
      BY <3>1, AcceptsFacts DEF Written
    <3>3. Accepts(x, <<>>) = 0
      BY <3>1, <3>2
    <3>4. SubSeq(<<>>, 1, 0) = <<>>
      BY SubSeqEmpty
    <3> QED
      BY <3>1, <3>2, <3>3, <3>4
  <2>5. Data(two[1]) \in Text
    BY <2>2, ContentFacts DEF Sound
  <2>6. <<>> \o Data(two[1]) = Data(two[1])
    BY <2>5, TextEmpty
  <2> QED
    BY <1>3, <2>1, <2>2, <2>3, <2>4, <2>6 DEF s
<1>4. CASE ~c.wen
  <2> DEFINE n == Accepts(x, Data(buf))
             left == Consume(buf, n)
             two == IF Size(left) > 0 THEN Absorb(c.out, left) ELSE <<c.out, left>>
             w == Size(left) > 0
             d == WithOutput(c, two[1], w)
  <2>1. s.c = d /\ s.buf = two[2] /\ s.bytes = Data(buf)
    BY <1>4 DEF SentBuffer, WithOutput
  <2>2. /\ left \in Buffers /\ Written(x, Data(buf)) \o Data(left) = Data(buf) /\ Data(left) \in Text
    BY WrittenAndLeft
  <2>3. Data(c.out) = <<>>
    BY <1>4
  <2> HIDE DEF left, s
  <2>4. /\ two[1] \in Buffers /\ two[2] \in Buffers
        /\ Data(two[1]) = Data(left) /\ Data(two[2]) = <<>>
    <3>1. CASE Size(left) > 0
      <4>1. two = Absorb(c.out, left)
        BY <3>1
      <4>2. <<>> \o Data(left) = Data(left)
        BY <2>2, TextEmpty
      <4>3. LET t == Absorb(c.out, left)
            IN  /\ t[1] \in Buffers /\ t[2] \in Buffers
                /\ Data(t[1]) = Data(c.out) \o Data(left) /\ Data(t[2]) = <<>>
        BY <1>1, <2>2, AbsorbFacts
      <4> QED
        BY <2>3, <4>1, <4>2, <4>3
    <3>2. CASE ~(Size(left) > 0)
      <4>1. two = <<c.out, left>>
        BY <3>2
      <4>2. Size(left) = 0
        <5>1. Size(left) \in Nat
          BY <2>2, ContentFacts DEF Sound
        <5> QED
          BY <3>2, <5>1
      <4>3. Data(left) = <<>>
        BY <2>2, <4>2, EmptyFacts
      <4> QED
        BY <1>1, <2>2, <2>3, <4>1, <4>3
    <3> QED
      BY <3>1, <3>2
  <2>5. ~w => Data(left) = <<>>
    <3>1. Size(left) \in Nat
      BY <2>2, ContentFacts DEF Sound
    <3> QED
      BY <2>2, <3>1, EmptyFacts
  <2>6. w \in BOOLEAN
    OBVIOUS
  <2> HIDE DEF two, w, d
  <2>7. d \in Conns /\ d.in = c.in /\ d.http = c.http /\ d.out = two[1] /\ d.wen = w
    BY <2>4, <2>6, OutputFields DEF d
  <2>8. <<>> \o Data(buf) = Data(buf)
    BY <1>2, TextEmpty
  <2> QED
    BY <1>2, <2>1, <2>2, <2>3, <2>4, <2>5, <2>7, <2>8 DEF s
<1> QED
  BY <1>1, <1>3, <1>4

\* Side x acts: it hands h to the connection and consumes n.  What is in its
\* input or in flight towards it loses n tokens in front; what is in flight
\* from it or in its output gains h behind.  Then nothing is lost on the way.
LEMMA SideStep ==
  ASSUME MsgInv, NEW x \in Sides, NEW d \in Conns, NEW h \in Text, NEW n \in Nat,
         Becomes(x, d),
         mode' = mode, nsent' \in 0..Len(mode.msgs), reset' = reset,
         wire' \in [Sides -> Text], \A y \in Sides : Len(wire'[y]) <= WireCap,
         handed' = [handed EXCEPT ![x] = @ \o h],
         taken' = [taken EXCEPT ![x] = @ + n],
         d.http.scanned <= Size(d.in), Proto # "http" => d.http.scanned = 0,
         ~reset =>
           /\ d.wen \/ Data(d.out) = <<>>
           /\ n <= Len(Data(con[x].in) \o wire[x])
           /\ Data(d.in) \o wire'[x]
                = SubSeq(Data(con[x].in) \o wire[x], n + 1, Len(Data(con[x].in) \o wire[x]))
           /\ wire'[Peer(x)] \o Data(d.out) = (wire[Peer(x)] \o Data(con[x].out)) \o h
  PROVE  MsgInv'
<1> DEFINE y == Peer(x)
           c == con[x]
           e == con[y]
<1>1. /\ mode \in Modes /\ con \in [Sides -> Conns] /\ wire \in [Sides -> Text]
      /\ handed \in [Sides -> Text] /\ taken \in [Sides -> Nat] /\ reset \in BOOLEAN
  BY DEF MsgInv, MsgTypeOK
<1>2. y \in Sides /\ y # x /\ Peer(y) = x /\ \A z \in Sides : z = x \/ z = y
  BY PeerFacts
<1> HIDE DEF y
<1>3. con' \in [Sides -> Conns] /\ con'[x] = d /\ con'[y] = e
  BY <1>1, <1>2 DEF Becomes
<1>4. handed[x] \o h \in Text /\ Len(handed[x] \o h) = Len(handed[x]) + Len(h)
      /\ Len(handed[x]) \in Nat /\ Len(h) \in Nat
  BY <1>1, TextConcat
<1>5. handed' \in [Sides -> Text] /\ handed'[x] = handed[x] \o h /\ handed'[y] = handed[y]
  BY <1>1, <1>2, <1>4
<1>6. taken' \in [Sides -> Nat] /\ taken'[x] = taken[x] + n /\ taken'[y] = taken[y]
  BY <1>1, <1>2
<1>7. MsgTypeOK'
  BY <1>1, <1>3, <1>5, <1>6 DEF MsgTypeOK
<1>8. ScannedIsThere'
  BY <1>2, <1>3 DEF MsgInv, ScannedIsThere, Proto
<1>9. CASE reset
  <2>1. reset'
    BY <1>9
  <2> QED
    BY <1>7, <1>8, <2>1 DEF MsgInv, StreamIntact
<1>10. CASE ~reset
  <2> DEFINE toX == Data(c.in) \o wire[x]
             fromX == wire[y] \o Data(c.out)
             restX == SubSeq(handed[y], taken[x] + 1, Len(handed[y]))
             restY == SubSeq(handed[x], taken[y] + 1, Len(handed[x]))
  <2>1. /\ d.wen \/ Data(d.out) = <<>>
        /\ n <= Len(toX)
        /\ Data(d.in) \o wire'[x] = SubSeq(toX, n + 1, Len(toX))
        /\ wire'[y] \o Data(d.out) = fromX \o h
    BY <1>10 DEF y
  <2>2. /\ restX = toX \o Data(e.out)
        /\ restY = (Data(e.in) \o wire[y]) \o Data(c.out)
    <3>1. \A z \in Sides : SubSeq(handed[Peer(z)], taken[z] + 1, Len(handed[Peer(z)]))
                             = (Data(con[z].in) \o wire[z]) \o Data(con[Peer(z)].out)
      BY <1>10 DEF MsgInv, StreamIntact
    <3> QED
      BY <1>2, <3>1 DEF y
  <2>3. /\ taken[x] <= Len(handed[y]) /\ taken[y] <= Len(handed[x])
        /\ taken[x] \in Nat /\ taken[y] \in Nat /\ Len(handed[y]) \in Nat /\ Len(handed[x]) \in Nat
    <3>1. taken[x] <= Len(handed[y]) /\ taken[y] <= Len(handed[x])
      BY <1>2, <1>10 DEF MsgInv, NotAhead, y
    <3> QED
      BY <1>1, <1>2, <3>1, LenProperties DEF Text
  <2>4. /\ Data(c.in) \in Text /\ Data(c.out) \in Text /\ Data(e.in) \in Text /\ Data(e.out) \in Text
        /\ Data(d.in) \in Text /\ Data(d.out) \in Text
    BY <1>1, <1>2, ConnFields
  <2>5. /\ wire[x] \in Text /\ wire[y] \in Text /\ wire'[x] \in Text /\ wire'[y] \in Text
        /\ handed[x] \in Text /\ handed[y] \in Text
    BY <1>1, <1>2
  <2> HIDE DEF c, e
  <2>6. toX \in Text /\ Len(toX \o Data(e.out)) = Len(toX) + Len(Data(e.out))
        /\ Len(toX) \in Nat /\ Len(Data(e.out)) \in Nat
    <3>1. toX \in Text
      BY <2>4, <2>5, TextConcat
    <3> HIDE DEF toX
    <3> QED
      BY <2>4, <3>1, TextConcat
  <2> HIDE DEF toX, fromX
  <2>7. Len(restX) = Len(handed[y]) - taken[x]
    <3>1. taken[x] \in 0..Len(handed[y])
      BY <2>3
    <3> QED
      BY <2>5, <3>1, Cut DEF Text
  <2> HIDE DEF restX, restY
  <2>8. taken[x] + n <= Len(handed[y])
    BY <2>1, <2>2, <2>3, <2>6, <2>7
  <2>9. SubSeq(handed[y], taken[x] + n + 1, Len(handed[y]))
          = (Data(d.in) \o wire'[x]) \o Data(e.out)
    <3>1. SubSeq(restX, n + 1, Len(restX)) = SubSeq(handed[y], taken[x] + n + 1, Len(handed[y]))
      BY <2>3, <2>5, <2>8, DropDrop DEF restX, Text
    <3>2. n \in 0..Len(toX)
      BY <2>1, <2>6
    <3>3. SubSeq(toX \o Data(e.out), n + 1, Len(toX \o Data(e.out)))
            = SubSeq(toX, n + 1, Len(toX)) \o Data(e.out)
      BY <2>4, <2>6, <3>2, DropOfConcat DEF Text
    <3> QED
      BY <2>1, <2>2, <3>1, <3>3
  <2>10. SubSeq(handed[x] \o h, taken[y] + 1, Len(handed[x] \o h))
          = (Data(e.in) \o wire'[y]) \o Data(d.out)
    <3>1. SubSeq(handed[x] \o h, taken[y] + 1, Len(handed[x] \o h)) = restY \o h
      <4>1. taken[y] \in 0..Len(handed[x])
        BY <2>3
      <4> QED
        BY <2>5, <4>1, DropOfConcat DEF restY, Text
    <3> DEFINE a == Data(e.in)
               b == wire[y]
               f == Data(c.out)
               g == wire'[y]
               k == Data(d.out)
    <3>0. a \in Text /\ b \in Text /\ f \in Text /\ g \in Text /\ k \in Text
          /\ restY = (a \o b) \o f /\ fromX = b \o f
      BY <2>2, <2>4, <2>5 DEF fromX
    <3> HIDE DEF a, b, f, g, k
    <3>2. restY = a \o fromX
      <4>1. a \in Text /\ b \in Text /\ f \in Text
        BY <3>0
      <4>2. (a \o b) \o f = a \o (b \o f)
        BY <4>1, TextAssociative
      <4> QED
        BY <3>0, <4>2
    <3>3. fromX \in Text
      BY <3>0, TextConcat
    <3>4. restY \o h = a \o (fromX \o h)
      <4>1. a \in Text
        BY <3>0
      <4>2. (a \o fromX) \o h = a \o (fromX \o h)
        BY <3>3, <4>1, TextAssociative
      <4> QED
        BY <3>2, <4>2
    <3>5. (a \o g) \o k = a \o (g \o k)
      <4>1. a \in Text /\ g \in Text /\ k \in Text
        BY <3>0
      <4> QED
        BY <4>1, TextAssociative
    <3> USE DEF a, g, k
    <3> QED
      BY <2>1, <3>1, <3>4, <3>5
  <2>11. StreamIntact'
    BY <1>2, <1>3, <1>5, <1>6, <2>9, <2>10 DEF StreamIntact, e, y
  <2>12. OutputInOrder'
    BY <1>2, <1>3, <1>10, <2>1 DEF MsgInv, OutputInOrder, e
  <2>13. NotAhead'
    <3>1. taken'[x] <= Len(handed'[y]) /\ taken'[y] <= Len(handed'[x])
      BY <1>4, <1>5, <1>6, <2>3, <2>8
    <3> QED
      BY <1>2, <3>1 DEF NotAhead, y
  <2> QED
    BY <1>7, <1>8, <2>11, <2>12, <2>13 DEF MsgInv
<1> QED
  BY <1>9, <1>10

\* A connection whose control fields change, its buffers and its message as
\* they were.
SameData(c, d) ==
  /\ d \in Conns /\ d.in = c.in /\ d.out = c.out /\ d.wen = c.wen /\ d.http = c.http

\* None of the assignments to state, closing or loops touches the data.
LEMMA ControlFields ==
  ASSUME NEW c \in Conns, NEW s \in {"open", "reading", "ending", "closed"}, NEW l \in Nat
  PROVE  /\ SameData(c, [c EXCEPT !.state = s])
         /\ SameData(c, [c EXCEPT !.loops = l])
         /\ SameData(c, [c EXCEPT !.state = s, !.loops = l])
         /\ SameData(c, [c EXCEPT !.loops = l, !.state = s])
         /\ SameData(c, [c EXCEPT !.state = s, !.closing = FALSE])
<1>1. SameData(c, [c EXCEPT !.state = s])
  BY DEF SameData, Conns
<1>2. SameData(c, [c EXCEPT !.loops = l])
  BY DEF SameData, Conns
<1>3. SameData(c, [c EXCEPT !.state = s, !.loops = l])
  BY DEF SameData, Conns
<1>4. SameData(c, [c EXCEPT !.loops = l, !.state = s])
  BY DEF SameData, Conns
<1>5. SameData(c, [c EXCEPT !.state = s, !.closing = FALSE])
  BY DEF SameData, Conns
<1> QED
  BY <1>1, <1>2, <1>3, <1>4, <1>5

\* A connection whose input changes.
WithInput(c, d, i) ==
  /\ d \in Conns /\ d.in = i /\ d.out = c.out /\ d.wen = c.wen /\ d.http = c.http

\* Each of the assignments that go with a new input.
LEMMA InputFields ==
  ASSUME NEW c \in Conns, NEW i \in Buffers
  PROVE  /\ WithInput(c, [c EXCEPT !.in = i], i)
         /\ WithInput(c, [c EXCEPT !.in = i, !.state = "reading"], i)
         /\ WithInput(c, [c EXCEPT !.in = i, !.state = "open", !.loops = 1], i)
         /\ WithInput(c, [c EXCEPT !.loops = 0, !.in = i], i)
<1>1. WithInput(c, [c EXCEPT !.in = i], i)
  BY DEF WithInput, Conns
<1>2. WithInput(c, [c EXCEPT !.in = i, !.state = "reading"], i)
  BY DEF WithInput, Conns
<1>3. WithInput(c, [c EXCEPT !.in = i, !.state = "open", !.loops = 1], i)
  BY DEF WithInput, Conns
<1>4. WithInput(c, [c EXCEPT !.loops = 0, !.in = i], i)
  BY DEF WithInput, Conns
<1> QED
  BY <1>1, <1>2, <1>3, <1>4

\* A connection whose message changes.
WithHttp(c, d, m) ==
  /\ d \in Conns /\ d.in = c.in /\ d.out = c.out /\ d.wen = c.wen /\ d.http = m

\* Each of the assignments that go with a new message.
LEMMA HttpFields ==
  ASSUME NEW c \in Conns, NEW m \in Https
  PROVE  /\ WithHttp(c, [c EXCEPT !.http = m, !.loops = 0], m)
         /\ WithHttp(c, [c EXCEPT !.http = m, !.loops = 0, !.closing = TRUE], m)
<1>1. WithHttp(c, [c EXCEPT !.http = m, !.loops = 0], m)
  BY DEF WithHttp, Conns
<1>2. WithHttp(c, [c EXCEPT !.http = m, !.loops = 0, !.closing = TRUE], m)
  BY DEF WithHttp, Conns
<1> QED
  BY <1>1, <1>2

\* clearData: the n tokens leave the input, and the message begins anew.
LEMMA ClearDataFacts ==
  ASSUME NEW c \in Conns, NEW n \in 0..Size(c.in)
  PROVE  /\ ClearData(c, n) \in Conns
         /\ ClearData(c, n).in = Consume(c.in, n) /\ ClearData(c, n).http = NewHttp
         /\ ClearData(c, n).out = c.out /\ ClearData(c, n).wen = c.wen
<1> DEFINE i == Consume(c.in, n)
           m == NewHttp
<1>1. i \in Buffers /\ m \in Https
  BY ConnFields, ConsumeFacts, NewHttpFacts
<1>2. ClearData(c, n) = [c EXCEPT !.in = i, !.http = m]
  BY DEF ClearData
<1> HIDE DEF i, m
<1>3. LET d == [c EXCEPT !.in = i, !.http = m]
      IN  d \in Conns /\ d.in = i /\ d.http = m /\ d.out = c.out /\ d.wen = c.wen
  BY <1>1 DEF Conns
<1> QED
  BY <1>2, <1>3 DEF i, m

\* Pieces appended to output_.
LEMMA OutFields ==
  ASSUME NEW c \in Conns, NEW o \in Buffers
  PROVE  LET d == [c EXCEPT !.out = o]
         IN  d \in Conns /\ d.in = c.in /\ d.http = c.http /\ d.out = o /\ d.wen = c.wen
BY DEF Conns

-----------------------------------------------------------------------------
(* The steps.                                                               *)

\* Tokens that move from the wire to the input, or from the output to the wire,
\* and nothing else.
LEMMA MoveStep ==
  ASSUME MsgInv, NEW x \in Sides, NEW d \in Conns, Becomes(x, d),
         UNCHANGED <<mode, nsent, reset, handed, taken>>,
         wire' \in [Sides -> Text], \A y \in Sides : Len(wire'[y]) <= WireCap,
         d.http.scanned <= Size(d.in), Proto # "http" => d.http.scanned = 0,
         ~reset => d.wen \/ Data(d.out) = <<>>,
         Data(d.in) \o wire'[x] = Data(con[x].in) \o wire[x],
         wire'[Peer(x)] \o Data(d.out) = wire[Peer(x)] \o Data(con[x].out)
  PROVE  MsgInv'
<1> DEFINE s == Data(con[x].in) \o wire[x]
           t == wire[Peer(x)] \o Data(con[x].out)
<1>1. s \in Text /\ t \in Text
  <2>1. con[x] \in Conns /\ wire[x] \in Text /\ wire[Peer(x)] \in Text
    BY PeerFacts DEF MsgInv, MsgTypeOK
  <2>2. Data(con[x].in) \in Text /\ Data(con[x].out) \in Text
    BY <2>1, ConnFields
  <2> QED
    BY <2>1, <2>2, TextConcat
<1> HIDE DEF s, t
<1>2. 0 \in Nat /\ <<>> \in Text /\ t \o <<>> = t /\ Len(s) \in Nat
  BY <1>1, TextEmpty, LenProperties DEF Text
<1>3. SubSeq(s, 0 + 1, Len(s)) = s
  <2>1. 0 \in 0..Len(s)
    BY <1>2
  <2>2. SubSeq(s, 1, 0) \o SubSeq(s, 0 + 1, Len(s)) = s /\ SubSeq(s, 0 + 1, Len(s)) \in Text
    BY <1>1, <2>1, Cut DEF Text
  <2>3. SubSeq(s, 1, 0) = <<>>
    BY SubSeqEmpty
  <2> QED
    BY <2>2, <2>3, TextEmpty
<1>4. handed' = [handed EXCEPT ![x] = @ \o <<>>] /\ taken' = [taken EXCEPT ![x] = @ + 0]
  <2>1. handed \in [Sides -> Text] /\ taken \in [Sides -> Nat]
    BY DEF MsgInv, MsgTypeOK
  <2>2. handed[x] \o <<>> = handed[x] /\ taken[x] + 0 = taken[x]
    BY <2>1, TextEmpty
  <2>3. handed = [handed EXCEPT ![x] = handed[x]] /\ taken = [taken EXCEPT ![x] = taken[x]]
    BY <2>1
  <2> QED
    BY <2>2, <2>3
<1>5. nsent' \in 0..Len(mode.msgs)
  BY DEF MsgInv, MsgTypeOK
<1>6. ~reset =>
           /\ d.wen \/ Data(d.out) = <<>>
           /\ 0 <= Len(s)
           /\ Data(d.in) \o wire'[x] = SubSeq(s, 0 + 1, Len(s))
           /\ wire'[Peer(x)] \o Data(d.out) = t \o <<>>
  <2>1. Data(d.in) \o wire'[x] = s
    BY DEF s
  <2>2. wire'[Peer(x)] \o Data(d.out) = t
    BY DEF t
  <2> QED
    BY <1>2, <1>3, <2>1, <2>2
<1> USE DEF s, t
<1> QED
  BY <1>2, <1>4, <1>5, <1>6, SideStep

\* A step that changes only what is not about the bytes.
LEMMA StillStep ==
  ASSUME MsgInv, NEW x \in Sides, NEW d \in Conns, Becomes(x, d),
         UNCHANGED <<mode, nsent, wire, reset, handed, taken>>,
         d.http.scanned <= Size(d.in), Proto # "http" => d.http.scanned = 0,
         Data(d.in) = Data(con[x].in), d.out = con[x].out, d.wen = con[x].wen
  PROVE  MsgInv'
<1>1. wire' \in [Sides -> Text] /\ \A y \in Sides : Len(wire'[y]) <= WireCap
  BY DEF MsgInv, MsgTypeOK
<1>2. ~reset => d.wen \/ Data(d.out) = <<>>
  BY DEF MsgInv, OutputInOrder
<1>3. /\ Data(d.in) \o wire'[x] = Data(con[x].in) \o wire[x]
      /\ wire'[Peer(x)] \o Data(d.out) = wire[Peer(x)] \o Data(con[x].out)
  OBVIOUS
<1> QED
  BY <1>1, <1>2, <1>3, MoveStep

\* A step of the control fields alone.
LEMMA SameDataStep ==
  ASSUME MsgInv, NEW x \in Sides, NEW d, SameData(con[x], d), Becomes(x, d),
         UNCHANGED <<mode, nsent, wire, reset, handed, taken>>
  PROVE  MsgInv'
<1>1. d \in Conns /\ d.in = con[x].in /\ d.out = con[x].out /\ d.wen = con[x].wen /\ d.http = con[x].http
  BY DEF SameData
<1>2. con[x].http.scanned <= Size(con[x].in) /\ (Proto # "http" => con[x].http.scanned = 0)
  BY DEF MsgInv, ScannedIsThere
<1> QED
  BY <1>1, <1>2, StillStep

\* A read moves the beginning of what is in flight to the end of input_.
\* (conn.cc handleRead.)
LEMMA HandleReadStep ==
  ASSUME MsgInv, NEW x \in Sides, HandleRead(x)
  PROVE  MsgInv'
<1> DEFINE c == con[x]
           room == MakeSomeRoom(con[x].in)
<1>1. c \in Conns /\ c.in \in Buffers /\ wire \in [Sides -> Text] /\ wire[x] \in Text
  <2>1. c \in Conns /\ wire \in [Sides -> Text] /\ wire[x] \in Text
    BY DEF MsgInv, MsgTypeOK
  <2> QED
    BY <2>1, ConnFields
<1>2. room \in Buffers /\ Data(room) = Data(c.in) /\ Size(room) = Size(c.in)
  BY <1>1, MakeSomeRoomFacts
<1>3. Sound(room)
  BY <1>2, ContentFacts
<1>4. PICK n \in 1..Min({Space(room), Len(wire[x])}) :
        /\ Becomes(x, [c EXCEPT !.in = Put(room, SubSeq(wire[x], 1, n)), !.state = "reading"])
        /\ wire' = [wire EXCEPT ![x] = SubSeq(@, n + 1, Len(@))]
  BY DEF HandleRead
<1> HIDE DEF room
<1>5. n \in 0..Len(wire[x]) /\ n <= Space(room)
  <2>1. Space(room) \in Nat /\ Len(wire[x]) \in Nat
    BY <1>1, <1>3, LenProperties DEF Sound, Text
  <2>2. /\ Min({Space(room), Len(wire[x])}) \in Nat /\ Min({Space(room), Len(wire[x])}) <= Space(room)
        /\ Min({Space(room), Len(wire[x])}) <= Len(wire[x])
    BY <2>1, MinOfTwo
  <2> QED
    BY <2>1, <2>2
<1> DEFINE p == SubSeq(wire[x], 1, n)
           q == SubSeq(wire[x], n + 1, Len(wire[x]))
           i == Put(room, p)
           d == [c EXCEPT !.in = i, !.state = "reading"]
<1>6. p \in Text /\ Len(p) = n /\ q \in Text /\ Len(q) = Len(wire[x]) - n /\ p \o q = wire[x]
  BY <1>1, <1>5, Cut DEF Text
<1> HIDE DEF p, q
<1>7. i \in Buffers /\ Data(i) = Data(c.in) \o p /\ Size(i) = Size(c.in) + n
  BY <1>2, <1>5, <1>6, PutFacts
<1> HIDE DEF i
<1>8. d \in Conns /\ d.in = i /\ d.out = c.out /\ d.wen = c.wen /\ d.http = c.http
  BY <1>1, <1>7, InputFields, Zenon DEF WithInput
<1>9. Becomes(x, d)
  BY <1>4 DEF i, p
<1> HIDE DEF d
<1>10. /\ wire' \in [Sides -> Text] /\ wire'[x] = q /\ wire'[Peer(x)] = wire[Peer(x)]
       /\ \A y \in Sides : Len(wire'[y]) <= WireCap
  <2>1. wire' = [wire EXCEPT ![x] = q]
    BY <1>4 DEF q
  <2>2. wire' \in [Sides -> Text] /\ wire'[x] = q /\ wire'[Peer(x)] = wire[Peer(x)]
    BY <1>1, <1>6, <2>1, PeerFacts
  <2>3. Len(q) <= WireCap /\ Len(wire[Peer(x)]) <= WireCap
    <3>1. Len(wire[x]) <= WireCap /\ Len(wire[Peer(x)]) <= WireCap
      BY PeerFacts DEF MsgInv, MsgTypeOK
    <3> QED
      BY <1>5, <1>6, <3>1, MsgAssumption, LenProperties DEF Text
  <2> QED
    BY <2>2, <2>3, PeerFacts
<1>11. Data(d.in) \o wire'[x] = Data(c.in) \o wire[x]
  <2>1. Data(c.in) \in Text
    BY <1>1, ConnFields
  <2>2. (Data(c.in) \o p) \o q = Data(c.in) \o (p \o q)
    BY <1>6, <2>1, TextAssociative
  <2> QED
    BY <1>6, <1>7, <1>8, <1>10, <2>2
<1>12. d.http.scanned <= Size(d.in) /\ (Proto # "http" => d.http.scanned = 0)
  <2>1. c.http.scanned <= Size(c.in) /\ (Proto # "http" => c.http.scanned = 0) /\ c.http.scanned \in Nat
    BY <1>1, ConnFields DEF MsgInv, ScannedIsThere, Https
  <2>2. Size(c.in) \in Nat
    BY <1>1, ContentFacts DEF Sound
  <2> QED
    BY <1>5, <1>7, <1>8, <2>1, <2>2
<1>13. ~reset => d.wen \/ Data(d.out) = <<>>
  BY <1>8 DEF MsgInv, OutputInOrder
<1>14. wire'[Peer(x)] \o Data(d.out) = wire[Peer(x)] \o Data(c.out)
  BY <1>8, <1>10
<1>15. UNCHANGED <<mode, nsent, reset, handed, taken>>
  BY DEF HandleRead
<1> QED
  BY <1>8, <1>9, <1>10, <1>11, <1>12, <1>13, <1>14, <1>15, MoveStep

\* EAGAIN: the room that was made for the next read stays. (conn.cc
\* handleRead.)
LEMMA ReadAgainStep ==
  ASSUME MsgInv, NEW x \in Sides, ReadAgain(x)
  PROVE  MsgInv'
<1> DEFINE c == con[x]
           i == MakeSomeRoom(c.in)
           d == [c EXCEPT !.in = i, !.state = "open", !.loops = 1]
<1>1. c \in Conns /\ c.in \in Buffers
  <2>1. c \in Conns
    BY DEF MsgInv, MsgTypeOK
  <2> QED
    BY <2>1, ConnFields
<1>2. i \in Buffers /\ Data(i) = Data(c.in) /\ Size(i) = Size(c.in)
  BY <1>1, MakeSomeRoomFacts
<1>3. Becomes(x, d)
  BY DEF ReadAgain
<1> HIDE DEF i
<1>4. d \in Conns /\ d.in = i /\ d.out = c.out /\ d.wen = c.wen /\ d.http = c.http
  BY <1>1, <1>2, InputFields, Zenon DEF WithInput
<1> HIDE DEF d
<1>5. c.http.scanned <= Size(c.in) /\ (Proto # "http" => c.http.scanned = 0)
  BY DEF MsgInv, ScannedIsThere
<1>6. UNCHANGED <<mode, nsent, wire, reset, handed, taken>>
  BY DEF ReadAgain
<1> QED
  BY <1>2, <1>3, <1>4, <1>5, <1>6, StillStep

\* The socket takes more of output_.
LEMMA HandleWriteStep ==
  ASSUME MsgInv, NEW x \in Sides, HandleWrite(x)
  PROVE  MsgInv'
<1> DEFINE c == con[x]
           rest == Consume(c.out, Accepts(x, Data(c.out)))
           w == Size(rest) > 0
           d == WithOutput(c, rest, w)
<1>1. MsgTypeOK /\ c \in Conns /\ c.out \in Buffers /\ Data(c.out) \in Text /\ wire[Peer(x)] \in Text
  <2>1. MsgTypeOK /\ c \in Conns /\ wire[Peer(x)] \in Text
    BY PeerFacts DEF MsgInv, MsgTypeOK
  <2> QED
    BY <2>1, ConnFields
<1>2. Becomes(x, d) /\ Write(x, Data(c.out)) /\ UNCHANGED <<mode, nsent, reset, handed, taken>>
  BY DEF HandleWrite, WithOutput
<1>3. /\ rest \in Buffers /\ Data(rest) \in Text
      /\ Written(x, Data(c.out)) \in Text /\ Written(x, Data(c.out)) \o Data(rest) = Data(c.out)
  BY <1>1, WrittenAndLeft
<1>4. /\ wire' \in [Sides -> Text] /\ \A y \in Sides : Len(wire'[y]) <= WireCap
      /\ wire'[x] = wire[x] /\ wire'[Peer(x)] = wire[Peer(x)] \o Written(x, Data(c.out))
  BY <1>1, <1>2, WriteFacts
<1> HIDE DEF rest
<1>5. w \/ Data(rest) = <<>>
  <2>1. Size(rest) \in Nat
    BY <1>3, ContentFacts DEF Sound
  <2> QED
    BY <1>3, <2>1, EmptyFacts
<1>6. w \in BOOLEAN
  OBVIOUS
<1> HIDE DEF w
<1>7. d \in Conns /\ d.in = c.in /\ d.http = c.http /\ d.out = rest /\ d.wen = w
  BY <1>1, <1>3, <1>6, OutputFields
<1> HIDE DEF d
<1>8. wire'[Peer(x)] \o Data(d.out) = wire[Peer(x)] \o Data(c.out)
  <2>1. (wire[Peer(x)] \o Written(x, Data(c.out))) \o Data(rest)
          = wire[Peer(x)] \o (Written(x, Data(c.out)) \o Data(rest))
    BY <1>1, <1>3, TextAssociative
  <2> QED
    BY <1>3, <1>4, <1>7, <2>1
<1>9. d.http.scanned <= Size(d.in) /\ (Proto # "http" => d.http.scanned = 0)
  BY <1>7 DEF MsgInv, ScannedIsThere
<1>10. ~reset => d.wen \/ Data(d.out) = <<>>
  BY <1>5, <1>7
<1>11. Data(d.in) \o wire'[x] = Data(c.in) \o wire[x]
  BY <1>4, <1>7
<1> QED
  BY <1>2, <1>4, <1>7, <1>8, <1>9, <1>10, <1>11, MoveStep

\* The steps that touch no buffer.
LEMMA ControlStep ==
  ASSUME MsgInv, NEW x \in Sides,
         BeginCleanup(x) \/ EndCleanup(x) \/ LoopEnd(x) \/ LoopError(x) \/ (x = "cli" /\ ClientClose)
  PROVE  MsgInv'
<1> DEFINE c == con[x]
<1>1. c \in Conns /\ c.loops \in Nat
  <2>1. c \in Conns
    BY DEF MsgInv, MsgTypeOK
  <2> QED
    BY <2>1, ConnFields
<1> HIDE DEF c
<1>2. CASE BeginCleanup(x)
  <2> DEFINE l == IF Size(c.in) > 0 THEN 1 ELSE 0
             d == [c EXCEPT !.state = "ending", !.loops = l]
  <2>1. Becomes(x, d) /\ UNCHANGED <<mode, nsent, wire, reset, handed, taken>>
    BY <1>2 DEF BeginCleanup, c
  <2>2. l \in Nat
    OBVIOUS
  <2> HIDE DEF l
  <2>3. SameData(c, d)
    BY <1>1, <2>2, ControlFields, Zenon
  <2> HIDE DEF d
  <2> QED
    BY <2>1, <2>3, SameDataStep DEF c
<1>3. CASE EndCleanup(x)
  <2> DEFINE d == [c EXCEPT !.state = "closed", !.closing = FALSE]
  <2>1. Becomes(x, d) /\ UNCHANGED <<mode, nsent, wire, reset, handed, taken>>
    BY <1>3 DEF EndCleanup, c
  <2>2. SameData(c, d)
    BY <1>1, ControlFields, Zenon
  <2> HIDE DEF d
  <2> QED
    BY <2>1, <2>2, SameDataStep DEF c
<1>4. CASE LoopEnd(x)
  <2> DEFINE l == c.loops - 1
             d == [c EXCEPT !.loops = l]
  <2>1. /\ Becomes(x, d) /\ UNCHANGED <<mode, nsent, wire, reset, handed, taken>>
        /\ c.loops > 0
    BY <1>4 DEF LoopEnd, Decoding, c
  <2>2. l \in Nat
    BY <1>1, <2>1
  <2> HIDE DEF l
  <2>3. SameData(c, d)
    BY <1>1, <2>2, ControlFields, Zenon
  <2> HIDE DEF d
  <2> QED
    BY <2>1, <2>3, SameDataStep DEF c
<1>5. CASE LoopError(x)
  <2> DEFINE d == [c EXCEPT !.loops = 0, !.state = "closed"]
  <2>1. Becomes(x, d) /\ UNCHANGED <<mode, nsent, wire, reset, handed, taken>>
    BY <1>5 DEF LoopError, c
  <2>2. SameData(c, d)
    BY <1>1, ControlFields, Zenon
  <2> HIDE DEF d
  <2> QED
    BY <2>1, <2>2, SameDataStep DEF c
<1>6. CASE x = "cli" /\ ClientClose
  <2> DEFINE d == [c EXCEPT !.state = "closed"]
  <2>1. Becomes(x, d) /\ UNCHANGED <<mode, nsent, wire, reset, handed, taken>>
    BY <1>6 DEF ClientClose, c
  <2>2. SameData(c, d)
    BY <1>1, ControlFields, Zenon
  <2> HIDE DEF d
  <2> QED
    BY <2>1, <2>2, SameDataStep DEF c
<1> QED
  BY <1>2, <1>3, <1>4, <1>5, <1>6

\* The host of the client resets the connection: nothing is promised any more.
LEMMA ResetStep ==
  ASSUME MsgInv, Reset
  PROVE  MsgInv'
<1>1. reset' = TRUE /\ UNCHANGED <<mode, nsent, con, wire, handed, taken>>
  BY DEF Reset
<1>2. MsgTypeOK'
  BY <1>1 DEF MsgInv, MsgTypeOK
<1>3. ScannedIsThere'
  BY <1>1 DEF MsgInv, ScannedIsThere, Proto
<1> QED
  BY <1>1, <1>2, <1>3 DEF MsgInv, StreamIntact

\* The n tokens that leave the input leave what is under way to x.
LEMMA InputDropped ==
  ASSUME MsgInv, NEW x \in Sides, NEW n \in 0..Size(con[x].in), NEW i \in Text,
         i = SubSeq(Data(con[x].in), n + 1, Len(Data(con[x].in)))
  PROVE  LET s == Data(con[x].in) \o wire[x]
         IN  n \in Nat /\ n <= Len(s) /\ i \o wire[x] = SubSeq(s, n + 1, Len(s))
<1> DEFINE a == Data(con[x].in)
           b == wire[x]
<1>1. a \in Text /\ b \in Text /\ Len(a) = Size(con[x].in)
  <2>1. con[x] \in Conns /\ wire[x] \in Text
    BY DEF MsgInv, MsgTypeOK
  <2> QED
    BY <2>1, ConnFields
<1>2. i = SubSeq(a, n + 1, Len(a)) /\ n \in 0..Len(a)
  BY <1>1
<1> HIDE DEF a, b
<1>3. Len(a \o b) = Len(a) + Len(b) /\ Len(a) \in Nat /\ Len(b) \in Nat
  BY <1>1, TextConcat
<1>4. SubSeq(a \o b, n + 1, Len(a \o b)) = SubSeq(a, n + 1, Len(a)) \o b
  BY <1>1, <1>2, DropOfConcat DEF Text
<1>5. n \in Nat /\ n <= Len(a \o b)
  <2>1. n \in 0..Len(a) /\ Len(a) \in Nat
    BY <1>2, <1>3
  <2> QED
    BY <1>3, <2>1
<1>6. i \o b = SubSeq(a \o b, n + 1, Len(a \o b))
  BY <1>2, <1>4
<1> QED
  BY <1>5, <1>6 DEF a, b

\* Pieces appended to output_ and sent, n tokens of the input consumed: d is the
\* connection before sendOutput(), e at the end.
LEMMA SendStep ==
  ASSUME MsgInv, NEW x \in Sides, NEW pieces \in Seq(Text), NEW d \in Conns, NEW e \in Conns,
         NEW n \in 0..Size(con[x].in),
         Data(d.out) = Data(con[x].out) \o FlattenSeq(pieces),
         e.out = SentOutput(x, d).out, e.wen = SentOutput(x, d).wen,
         Data(e.in) = SubSeq(Data(con[x].in), n + 1, Len(Data(con[x].in))),
         e.http.scanned <= Size(e.in), Proto # "http" => e.http.scanned = 0,
         Becomes(x, e), Write(x, Data(d.out)), Hand(x, pieces),
         taken' = [taken EXCEPT ![x] = @ + n],
         mode' = mode, nsent' \in 0..Len(mode.msgs), reset' = reset
  PROVE  MsgInv'
<1> DEFINE c == con[x]
           h == FlattenSeq(pieces)
           p == wire[Peer(x)]
           w == Written(x, Data(d.out))
<1>1. MsgTypeOK /\ c \in Conns /\ p \in Text
  BY PeerFacts DEF MsgInv, MsgTypeOK
<1>2. Data(c.out) \in Text /\ Data(d.out) \in Text /\ Data(e.in) \in Text /\ Data(e.out) \in Text
  BY <1>1, ConnFields
<1>3. h \in Text
  BY AppendAllFacts, NewBufferFacts
<1>4. /\ wire' \in [Sides -> Text] /\ \A y \in Sides : Len(wire'[y]) <= WireCap
      /\ wire'[x] = wire[x] /\ wire'[Peer(x)] = p \o w /\ w \in Text
  BY <1>1, <1>2, WriteFacts
<1>5. w \o Data(e.out) = Data(d.out) /\ (e.wen \/ Data(e.out) = <<>>)
  <2>1. /\ Written(x, Data(d.out)) \o Data(SentOutput(x, d).out) = Data(d.out)
        /\ SentOutput(x, d).wen \/ Data(SentOutput(x, d).out) = <<>>
    BY <1>1, SentOutputFacts
  <2> QED
    BY <2>1
<1>6. handed' = [handed EXCEPT ![x] = @ \o h]
  BY DEF Hand
<1>7. LET s == Data(c.in) \o wire[x]
      IN  n \in Nat /\ n <= Len(s) /\ Data(e.in) \o wire[x] = SubSeq(s, n + 1, Len(s))
  BY <1>2, InputDropped
<1>8. (p \o w) \o Data(e.out) = (p \o Data(c.out)) \o h
  <2> DEFINE o == Data(e.out)
             q == Data(c.out)
  <2>1. w \o o = q \o h /\ p \in Text /\ w \in Text /\ o \in Text /\ q \in Text /\ h \in Text
    BY <1>1, <1>2, <1>3, <1>4, <1>5
  <2> HIDE DEF o, q, p, w, h
  <2>2. (p \o w) \o o = p \o (w \o o)
    <3>1. p \in Text /\ w \in Text /\ o \in Text
      BY <2>1
    <3> QED
      BY <3>1, TextAssociative
  <2>3. (p \o q) \o h = p \o (q \o h)
    <3>1. p \in Text /\ q \in Text /\ h \in Text
      BY <2>1
    <3> QED
      BY <3>1, TextAssociative
  <2>4. (p \o w) \o o = (p \o q) \o h
    BY <2>1, <2>2, <2>3
  <2> QED
    BY <2>4 DEF o, q
<1> HIDE DEF h, w
<1> QED
  BY <1>3, <1>4, <1>5, <1>6, <1>7, <1>8, SideStep

\* n tokens of the input consumed, and nothing else.
LEMMA TakeStep ==
  ASSUME MsgInv, NEW x \in Sides, NEW d \in Conns, NEW n \in 0..Size(con[x].in),
         Data(d.in) = SubSeq(Data(con[x].in), n + 1, Len(Data(con[x].in))),
         d.out = con[x].out, d.wen = con[x].wen,
         d.http.scanned <= Size(d.in), Proto # "http" => d.http.scanned = 0,
         Becomes(x, d), taken' = [taken EXCEPT ![x] = @ + n],
         UNCHANGED <<mode, nsent, wire, reset, handed>>
  PROVE  MsgInv'
<1> DEFINE t == wire[Peer(x)] \o Data(con[x].out)
<1>1. Data(d.in) \in Text
  BY ConnFields
<1>2. LET s == Data(con[x].in) \o wire[x]
      IN  n \in Nat /\ n <= Len(s) /\ Data(d.in) \o wire[x] = SubSeq(s, n + 1, Len(s))
  BY <1>1, InputDropped
<1>3. wire' \in [Sides -> Text] /\ \A y \in Sides : Len(wire'[y]) <= WireCap
  BY DEF MsgInv, MsgTypeOK
<1>4. nsent' \in 0..Len(mode.msgs)
  BY DEF MsgInv, MsgTypeOK
<1>5. t \in Text
  <2>1. con[x] \in Conns /\ wire[Peer(x)] \in Text
    BY PeerFacts DEF MsgInv, MsgTypeOK
  <2> QED
    BY <2>1, ConnFields, TextConcat
<1>6. t \o <<>> = t /\ <<>> \in Text
  BY <1>5, TextEmpty
<1>7. handed' = [handed EXCEPT ![x] = @ \o <<>>]
  <2>1. handed \in [Sides -> Text]
    BY DEF MsgInv, MsgTypeOK
  <2>2. handed[x] \o <<>> = handed[x]
    BY <2>1, TextEmpty
  <2>3. handed = [handed EXCEPT ![x] = handed[x]]
    BY <2>1
  <2> QED
    BY <2>2, <2>3
<1>8. ~reset => d.wen \/ Data(d.out) = <<>>
  BY DEF MsgInv, OutputInOrder
<1>9. wire'[Peer(x)] \o Data(d.out) = t \o <<>>
  BY <1>6
<1> QED
  BY <1>2, <1>3, <1>4, <1>6, <1>7, <1>8, <1>9, SideStep

\* A send that fails, the connection being reset.
LEMMA FailStep ==
  ASSUME MsgInv, NEW x \in Sides, NEW c \in Conns, NEW pieces \in Seq(Text), NEW n \in Nat,
         SendFails(x, c),
         c.http.scanned <= Size(c.in), Proto # "http" => c.http.scanned = 0,
         handed' = handed \/ Hand(x, pieces),
         taken' = taken \/ taken' = [taken EXCEPT ![x] = @ + n],
         UNCHANGED <<mode, nsent, wire, reset>>
  PROVE  MsgInv'
<1> DEFINE l == IF Size(c.in) > 0 THEN c.loops + 1 ELSE c.loops
           d == [c EXCEPT !.state = "ending", !.loops = l]
<1>1. reset /\ Becomes(x, d)
  BY DEF SendFails
<1>2. l \in Nat
  BY ConnFields
<1> HIDE DEF l
<1>3. SameData(c, d)
  BY <1>2, ControlFields, Zenon
<1> HIDE DEF d
<1>4. d \in Conns /\ d.in = c.in /\ d.http = c.http
  BY <1>3 DEF SameData
<1>5. MsgTypeOK'
  <2>1. con' \in [Sides -> Conns]
    BY <1>1, <1>4 DEF MsgInv, MsgTypeOK, Becomes
  <2>2. FlattenSeq(pieces) \in Text
    BY AppendAllFacts, NewBufferFacts
  <2>3. handed \in [Sides -> Text] /\ taken \in [Sides -> Nat]
    BY DEF MsgInv, MsgTypeOK
  <2>4. handed' \in [Sides -> Text]
    <3>1. handed[x] \o FlattenSeq(pieces) \in Text
      BY <2>2, <2>3, TextConcat
    <3> QED
      BY <2>3, <3>1 DEF Hand
  <2>5. taken' \in [Sides -> Nat]
    BY <2>3
  <2> QED
    BY <2>1, <2>4, <2>5 DEF MsgInv, MsgTypeOK
<1>6. ScannedIsThere'
  <2>1. con'[x] = d /\ \A y \in Sides : y # x => con'[y] = con[y]
    BY <1>1 DEF MsgInv, MsgTypeOK, Becomes
  <2> QED
    BY <1>4, <2>1 DEF MsgInv, ScannedIsThere, Proto
<1>7. reset'
  BY <1>1
<1> QED
  BY <1>5, <1>6, <1>7 DEF MsgInv, StreamIntact

\* The messages of the lists.
LEMMA FramedMessages ==
  ASSUME MsgTypeOK, Framed \/ Proto = "raw", nsent < Len(mode.msgs)
  PROVE  mode.msgs[nsent + 1] \in Text /\ nsent + 1 \in 0..Len(mode.msgs)
<1>1. mode \in Modes /\ nsent \in 0..Len(mode.msgs)
  BY DEF MsgTypeOK
<1>2. mode.msgs \in Seq(Seq(Bytes))
  BY <1>1, MsgAssumption DEF Framed, Proto
<1>3. Len(mode.msgs) \in Nat /\ nsent + 1 \in 1..Len(mode.msgs)
  BY <1>1, <1>2, LenProperties
<1>4. mode.msgs[nsent + 1] \in Seq(Bytes)
  BY <1>2, <1>3, ElementOfSeq
<1> QED
  BY <1>3, <1>4, BytesAreText

\* The requests of the lists.
LEMMA HttpMessages ==
  ASSUME MsgTypeOK, Proto = "http", nsent < Len(mode.msgs)
  PROVE  mode.msgs[nsent + 1] \in Requests /\ nsent + 1 \in 0..Len(mode.msgs)
<1>1. mode \in Modes /\ nsent \in 0..Len(mode.msgs)
  BY DEF MsgTypeOK
<1>2. mode.msgs \in Seq(Requests)
  BY <1>1, MsgAssumption DEF Proto
<1>3. Len(mode.msgs) \in Nat /\ nsent + 1 \in 1..Len(mode.msgs)
  BY <1>1, <1>2, LenProperties
<1> QED
  BY <1>2, <1>3, ElementOfSeq

\* Nothing consumed is all that was there.
LEMMA DropNothing ==
  ASSUME NEW s \in Text
  PROVE  s = SubSeq(s, 0 + 1, Len(s))
<1>1. 0 \in 0..Len(s)
  BY LenProperties DEF Text
<1>2. SubSeq(s, 1, 0) \o SubSeq(s, 0 + 1, Len(s)) = s /\ SubSeq(s, 0 + 1, Len(s)) \in Text
  BY <1>1, Cut DEF Text
<1>3. SubSeq(s, 1, 0) = <<>>
  BY SubSeqEmpty
<1> QED
  BY <1>2, <1>3, TextEmpty

\* Consuming all leaves nothing.
LEMMA DropAll ==
  ASSUME NEW s \in Text
  PROVE  <<>> = SubSeq(s, Len(s) + 1, Len(s))
<1>1. Len(s) \in Nat
  BY LenProperties DEF Text
<1> QED
  BY <1>1, SubSeqEmpty

\* sendMsg: the encoded message goes behind what is in output_. (conn.cc
\* sendMsg.)
LEMMA SendMsgStep ==
  ASSUME MsgInv, SendMsg
  PROVE  MsgInv'
<1> DEFINE x == "cli"
           c == con[x]
           pieces == Encode(Proto, mode.msgs[nsent + 1])
           o == AppendAll(c.out, pieces)
           d == [c EXCEPT !.out = o]
           e == SentOutput(x, d)
<1>1. x \in Sides /\ MsgTypeOK /\ c \in Conns
  BY DEF Sides, MsgInv, MsgTypeOK
<1>2. /\ Framed /\ nsent < Len(mode.msgs)
      /\ Becomes(x, e) /\ Write(x, Data(d.out)) /\ Hand(x, pieces)
      /\ nsent' = nsent + 1 /\ UNCHANGED <<mode, reset, taken>>
  BY DEF SendMsg, MaySend
<1>3. pieces \in Seq(Text) /\ nsent + 1 \in 0..Len(mode.msgs)
  <2>1. mode.msgs[nsent + 1] \in Text /\ nsent + 1 \in 0..Len(mode.msgs)
    BY <1>1, <1>2, FramedMessages
  <2>2. Proto \in Framings
    BY <1>2 DEF Framed, Framings
  <2> QED
    BY <2>1, <2>2, EncodeFacts
<1> HIDE DEF pieces
<1>4. c.out \in Buffers /\ Data(c.in) \in Text /\ Size(c.in) \in Nat
  BY <1>1, ConnFields, LenProperties DEF Text
<1>5. o \in Buffers /\ Data(o) = Data(c.out) \o FlattenSeq(pieces)
  BY <1>3, <1>4, AppendAllFacts
<1> HIDE DEF o
<1>6. d \in Conns /\ d.in = c.in /\ d.http = c.http /\ d.out = o
  BY <1>1, <1>5, OutFields
<1> HIDE DEF d
<1>7. e \in Conns /\ e.in = c.in /\ e.http = c.http
  BY <1>1, <1>6, SentOutputFacts
<1>8. e.http.scanned <= Size(e.in) /\ (Proto # "http" => e.http.scanned = 0)
  BY <1>1, <1>7 DEF MsgInv, ScannedIsThere
<1>9. Data(e.in) = SubSeq(Data(c.in), 0 + 1, Len(Data(c.in))) /\ 0 \in 0..Size(c.in)
  <2>1. Data(c.in) = SubSeq(Data(c.in), 0 + 1, Len(Data(c.in)))
    BY <1>4, DropNothing
  <2> QED
    BY <1>4, <1>7, <2>1
<1>10. taken' = [taken EXCEPT ![x] = @ + 0]
  BY <1>1, <1>2 DEF MsgTypeOK
<1>11. Data(d.out) = Data(c.out) \o FlattenSeq(pieces)
  BY <1>5, <1>6
<1>12. nsent' \in 0..Len(mode.msgs) /\ mode' = mode /\ reset' = reset
  BY <1>2, <1>3
<1>13. e.out = SentOutput(x, d).out /\ e.wen = SentOutput(x, d).wen
  OBVIOUS
<1> HIDE DEF e, x
<1> QED
  BY <1>1, <1>2, <1>3, <1>6, <1>7, <1>8, <1>9, <1>10, <1>11, <1>12, <1>13, SendStep

\* sendRequest also drops the response that was answered last.
LEMMA SendRequestStep ==
  ASSUME MsgInv, SendRequest
  PROVE  MsgInv'
<1> DEFINE x == "cli"
           c == con[x]
           n == c.http.scanned
           pieces == RequestPieces(mode.msgs[nsent + 1])
           o == AppendAll(c.out, pieces)
           b == [c EXCEPT !.out = o]
           d == ClearData(b, n)
           e == SentOutput(x, d)
<1>1. x \in Sides /\ MsgTypeOK /\ c \in Conns
  BY DEF Sides, MsgInv, MsgTypeOK
<1>2. /\ Proto = "http" /\ nsent < Len(mode.msgs)
      /\ Becomes(x, e) /\ Write(x, Data(d.out)) /\ Hand(x, pieces)
      /\ nsent' = nsent + 1 /\ UNCHANGED <<mode, reset>> /\ taken' = [taken EXCEPT ![x] = @ + n]
  BY DEF SendRequest, MaySend
<1>3. pieces \in Seq(Text) /\ nsent + 1 \in 0..Len(mode.msgs)
  <2>1. mode.msgs[nsent + 1] \in Requests /\ nsent + 1 \in 0..Len(mode.msgs)
    BY <1>1, <1>2, HttpMessages
  <2> QED
    BY <2>1, RequestFacts
<1> HIDE DEF pieces
<1>4. c.out \in Buffers /\ c.in \in Buffers /\ c.http \in Https /\ Size(c.in) \in Nat
  BY <1>1, ConnFields, LenProperties DEF Text
<1>5. o \in Buffers /\ Data(o) = Data(c.out) \o FlattenSeq(pieces)
  BY <1>3, <1>4, AppendAllFacts
<1>6. n \in 0..Size(c.in)
  BY <1>1, <1>4 DEF MsgInv, ScannedIsThere, Https
<1> HIDE DEF o, n
<1>7. b \in Conns /\ b.in = c.in /\ b.http = c.http /\ b.out = o
  BY <1>1, <1>5, OutFields
<1> HIDE DEF b
<1>8. d \in Conns /\ d.in = Consume(c.in, n) /\ d.http = NewHttp /\ d.out = o
  <2>1. n \in 0..Size(b.in)
    BY <1>6, <1>7
  <2> QED
    BY <1>7, <2>1, ClearDataFacts
<1> HIDE DEF d
<1>9. e \in Conns /\ e.in = Consume(c.in, n) /\ e.http = NewHttp
  BY <1>1, <1>8, SentOutputFacts
<1>10. /\ Data(e.in) = SubSeq(Data(c.in), n + 1, Len(Data(c.in)))
       /\ Size(e.in) = Size(c.in) - n
  BY <1>4, <1>6, <1>9, ConsumeFacts
<1>11. e.http.scanned <= Size(e.in) /\ (Proto # "http" => e.http.scanned = 0)
  BY <1>4, <1>6, <1>9, <1>10, NewHttpFacts
<1>12. Data(d.out) = Data(c.out) \o FlattenSeq(pieces)
  BY <1>5, <1>8
<1>13. nsent' \in 0..Len(mode.msgs) /\ mode' = mode /\ reset' = reset
  BY <1>2, <1>3
<1>14. e.out = SentOutput(x, d).out /\ e.wen = SentOutput(x, d).wen
  OBVIOUS
<1> HIDE DEF e, x
<1> QED
  BY <1>1, <1>2, <1>3, <1>6, <1>8, <1>9, <1>10, <1>11, <1>12, <1>13, <1>14, SendStep

\* A message of one piece is that piece.
LEMMA OnePiece ==
  ASSUME NEW m \in Text
  PROVE  FlattenSeq(<<m>>) = m
<1>1. Len(<<m>>) = 1 /\ <<m>>[1] = m
  OBVIOUS
<1>2. PICK f : IsFlat(f, <<m>>, 1) /\ FlattenSeq(<<m>>) = f[1]
  BY <1>1, FlattenIs
<1>3. f[1] = m
  BY <1>1, <1>2 DEF IsFlat
<1> QED
  BY <1>2, <1>3

\* The content of a buffer is sent, n tokens of the input consumed: c is the
\* connection before send(buf), e at the end.
LEMMA BufferStep ==
  ASSUME MsgInv, ~reset, NEW x \in Sides, NEW c \in Conns, NEW buf \in Buffers, NEW e \in Conns,
         NEW n \in 0..Size(con[x].in),
         c.out = con[x].out, c.wen = con[x].wen,
         e.out = SentBuffer(x, c, buf).c.out, e.wen = SentBuffer(x, c, buf).c.wen,
         Data(e.in) = SubSeq(Data(con[x].in), n + 1, Len(Data(con[x].in))),
         e.http.scanned <= Size(e.in), Proto # "http" => e.http.scanned = 0,
         Becomes(x, e), Write(x, SentBuffer(x, c, buf).bytes), Hand(x, <<Data(buf)>>),
         taken' = [taken EXCEPT ![x] = @ + n],
         mode' = mode, nsent' \in 0..Len(mode.msgs), reset' = reset
  PROVE  MsgInv'
<1> DEFINE s == SentBuffer(x, c, buf)
           h == Data(buf)
           p == wire[Peer(x)]
           w == Written(x, s.bytes)
           o == Data(e.out)
           q == Data(con[x].out)
<1>1. MsgTypeOK /\ p \in Text /\ con[x] \in Conns /\ (c.wen \/ Data(c.out) = <<>>)
  BY PeerFacts DEF MsgInv, MsgTypeOK, OutputInOrder
<1>2. h \in Text
  BY ContentFacts DEF Sound
<1>3. s.bytes \in Text /\ w \o Data(s.c.out) = Data(c.out) \o h /\ (s.c.wen \/ Data(s.c.out) = <<>>)
  BY <1>1, SentBufferFacts
<1> HIDE DEF s
<1>4. /\ wire' \in [Sides -> Text] /\ \A y \in Sides : Len(wire'[y]) <= WireCap
      /\ wire'[x] = wire[x] /\ wire'[Peer(x)] = p \o w /\ w \in Text
  BY <1>1, <1>3, WriteFacts DEF s
<1>5. handed' = [handed EXCEPT ![x] = @ \o h]
  BY <1>2, OnePiece DEF Hand
<1>6. LET r == Data(con[x].in) \o wire[x]
      IN  n \in Nat /\ n <= Len(r) /\ Data(e.in) \o wire[x] = SubSeq(r, n + 1, Len(r))
  BY ConnFields, InputDropped
<1>7. (p \o w) \o o = (p \o q) \o h
  <2>1. w \o o = q \o h
    BY <1>3 DEF s
  <2>2. p \in Text /\ w \in Text /\ o \in Text /\ q \in Text /\ h \in Text
    BY <1>1, <1>2, <1>4, ConnFields
  <2> HIDE DEF o, q, p, w, h
  <2>3. (p \o w) \o o = p \o (w \o o)
    <3>1. p \in Text /\ w \in Text /\ o \in Text
      BY <2>2
    <3> QED
      BY <3>1, TextAssociative
  <2>4. (p \o q) \o h = p \o (q \o h)
    <3>1. p \in Text /\ q \in Text /\ h \in Text
      BY <2>2
    <3> QED
      BY <3>1, TextAssociative
  <2> QED
    BY <2>1, <2>3, <2>4
<1>8. e.wen \/ o = <<>>
  BY <1>3 DEF s
<1> HIDE DEF h, w
<1> QED
  BY <1>2, <1>4, <1>5, <1>6, <1>7, <1>8, SideStep

\* send of a buffer that was filled for it. (conn.cc send(Buffer&).)
LEMMA SendRawStep ==
  ASSUME MsgInv, SendRaw
  PROVE  MsgInv'
<1> DEFINE x == "cli"
           c == con[x]
           msg == mode.msgs[nsent + 1]
           buf == AppendBytes(NewBuffer(Suggest), msg)
           s == SentBuffer(x, c, buf)
           e == s.c
<1>1. x \in Sides /\ MsgTypeOK /\ c \in Conns
  BY DEF Sides, MsgInv, MsgTypeOK
<1>2. /\ Proto = "raw" /\ nsent < Len(mode.msgs) /\ ~reset
      /\ Becomes(x, e) /\ Write(x, s.bytes) /\ Hand(x, <<msg>>)
      /\ nsent' = nsent + 1 /\ UNCHANGED <<mode, reset, taken>>
  BY DEF SendRaw, MaySend
<1>3. msg \in Text /\ nsent + 1 \in 0..Len(mode.msgs)
  BY <1>1, <1>2, FramedMessages
<1> HIDE DEF msg
<1>4. buf \in Buffers /\ Data(buf) = msg
  BY <1>3, NewBufferFacts, AppendFacts, TextEmpty
<1> HIDE DEF buf
<1>5. c.wen \/ Data(c.out) = <<>>
  BY <1>1, <1>2 DEF MsgInv, OutputInOrder
<1>6. e \in Conns /\ e.in = c.in /\ e.http = c.http
  BY <1>1, <1>4, <1>5, SentBufferFacts
<1>7. e.http.scanned <= Size(e.in) /\ (Proto # "http" => e.http.scanned = 0)
  BY <1>1, <1>6 DEF MsgInv, ScannedIsThere
<1>8. Data(e.in) = SubSeq(Data(c.in), 0 + 1, Len(Data(c.in))) /\ 0 \in 0..Size(c.in)
  <2>1. Data(c.in) \in Text /\ Size(c.in) \in Nat
    BY <1>1, ConnFields, LenProperties DEF Text
  <2>2. Data(c.in) = SubSeq(Data(c.in), 0 + 1, Len(Data(c.in)))
    BY <2>1, DropNothing
  <2> QED
    BY <1>6, <2>1, <2>2
<1>9. taken' = [taken EXCEPT ![x] = @ + 0]
  BY <1>1, <1>2 DEF MsgTypeOK
<1>10. nsent' \in 0..Len(mode.msgs) /\ mode' = mode /\ reset' = reset /\ Hand(x, <<Data(buf)>>)
  BY <1>2, <1>3, <1>4
<1>11. e.out = SentBuffer(x, c, buf).c.out /\ e.wen = SentBuffer(x, c, buf).c.wen
  OBVIOUS
<1>12. Write(x, SentBuffer(x, c, buf).bytes)
  BY <1>2
<1> HIDE DEF e, s, x
<1> QED
  BY <1>1, <1>2, <1>4, <1>6, <1>7, <1>8, <1>9, <1>10, <1>11, <1>12, BufferStep

\* The echo: the input itself is sent, and swapped or copied it is empty.
LEMMA EchoRawStep ==
  ASSUME MsgInv, EchoRaw
  PROVE  MsgInv'
<1> DEFINE x == "svr"
           a == con[x]
           l == a.loops - 1
           c == [a EXCEPT !.loops = l]
           s == SentBuffer(x, c, a.in)
           e == [s.c EXCEPT !.in = s.buf]
           n == Size(a.in)
<1>1. x \in Sides /\ MsgTypeOK /\ a \in Conns /\ Proto = "raw" /\ a.loops > 0
  BY DEF Sides, MsgInv, MsgTypeOK, EchoRaw
<1>2. nsent' \in 0..Len(mode.msgs) /\ UNCHANGED <<mode, nsent, reset>>
  BY DEF EchoRaw, MsgInv, MsgTypeOK
<1>3. a.in \in Buffers /\ Data(a.in) \in Text /\ n \in Nat /\ Len(Data(a.in)) = n /\ l \in Nat
      /\ a.http \in Https
  BY <1>1, ConnFields, LenProperties DEF Text
<1>4. a.http.scanned <= Size(a.in) /\ a.http.scanned = 0
  BY <1>1 DEF MsgInv, ScannedIsThere
<1>5. CASE SendFails("svr", con["svr"]) /\ UNCHANGED <<wire, handed, taken>>
  <2>1. <<>> \in Seq(Text) /\ 0 \in Nat
    OBVIOUS
  <2>2. SendFails(x, a) /\ handed' = handed /\ taken' = taken /\ wire' = wire
    BY <1>5
  <2> HIDE DEF x
  <2> QED
    BY <1>1, <1>2, <1>4, <2>1, <2>2, FailStep
<1>6. CASE ~(SendFails("svr", con["svr"]) /\ UNCHANGED <<wire, handed, taken>>)
  <2>1. /\ ~reset /\ Becomes(x, e) /\ Write(x, s.bytes) /\ Hand(x, <<Data(a.in)>>)
        /\ taken' = [taken EXCEPT ![x] = @ + n]
    BY <1>6 DEF EchoRaw, Took
  <2> HIDE DEF x, l
  <2>2. c \in Conns /\ c.in = a.in /\ c.out = a.out /\ c.wen = a.wen /\ c.http = a.http
    BY <1>1, <1>3, ControlFields, Zenon DEF SameData
  <2> HIDE DEF c
  <2>3. c.wen \/ Data(c.out) = <<>>
    BY <1>1, <2>1, <2>2 DEF MsgInv, OutputInOrder
  <2>4. s.c \in Conns /\ s.c.http = a.http /\ s.buf \in Buffers /\ Data(s.buf) = <<>>
    BY <1>1, <1>3, <2>2, <2>3, SentBufferFacts
  <2>5. e \in Conns /\ e.in = s.buf /\ e.out = s.c.out /\ e.wen = s.c.wen /\ e.http = s.c.http
    <3> DEFINE b == s.c
               i == s.buf
    <3>1. b \in Conns /\ i \in Buffers
      <4> HIDE DEF s
      <4> QED
        BY <2>4, Zenon
    <3> HIDE DEF s, b, i
    <3>2. WithInput(b, [b EXCEPT !.in = i], i)
      BY <3>1, InputFields
    <3> QED
      BY <3>2 DEF WithInput, b, i
  <2>6. Data(e.in) = SubSeq(Data(a.in), n + 1, Len(Data(a.in)))
    BY <1>3, <2>4, <2>5, DropAll
  <2>7. e.http.scanned = 0 /\ e.http.scanned <= Size(e.in)
    <3>1. Size(s.buf) \in Nat
      BY <2>4, ContentFacts DEF Sound
    <3> QED
      BY <1>4, <2>4, <2>5, <3>1
  <2>8. e.out = SentBuffer(x, c, a.in).c.out /\ e.wen = SentBuffer(x, c, a.in).c.wen
        /\ Write(x, SentBuffer(x, c, a.in).bytes)
    BY <2>1, <2>5
  <2>9. n \in 0..Size(a.in)
    BY <1>3
  <2> HIDE DEF s, e
  <2> QED
    BY <1>1, <1>2, <1>3, <2>1, <2>2, <2>5, <2>6, <2>7, <2>8, <2>9, BufferStep
<1> QED
  BY <1>5, <1>6

\* The client of the raw protocol takes all of its input.
LEMMA TakeRawStep ==
  ASSUME MsgInv, TakeRaw
  PROVE  MsgInv'
<1> DEFINE x == "cli"
           c == con[x]
           i == Clear(c.in)
           d == [c EXCEPT !.loops = 0, !.in = i]
           n == Size(c.in)
<1>1. x \in Sides /\ MsgTypeOK /\ c \in Conns /\ Proto = "raw"
  BY DEF Sides, MsgInv, MsgTypeOK, TakeRaw
<1>2. c.in \in Buffers /\ Data(c.in) \in Text /\ n \in Nat /\ Len(Data(c.in)) = n
  BY <1>1, ConnFields, LenProperties DEF Text
<1>3. i \in Buffers /\ Data(i) = <<>> /\ Size(i) = 0
  BY <1>2, ClearFacts
<1>4. Becomes(x, d) /\ taken' = [taken EXCEPT ![x] = @ + n] /\ UNCHANGED <<mode, nsent, wire, reset, handed>>
  BY Zenon DEF TakeRaw, Took
<1> HIDE DEF i, x
<1>5. d \in Conns /\ d.in = i /\ d.out = c.out /\ d.wen = c.wen /\ d.http = c.http
  BY <1>1, <1>3, InputFields DEF WithInput
<1> HIDE DEF d
<1>6. d.http.scanned = 0
  BY <1>1, <1>5 DEF MsgInv, ScannedIsThere
<1>7. Data(d.in) = SubSeq(Data(c.in), n + 1, Len(Data(c.in)))
  BY <1>2, <1>3, <1>5, DropAll
<1>8. n \in 0..Size(c.in) /\ d.http.scanned <= Size(d.in)
  BY <1>2, <1>3, <1>5, <1>6
<1> QED
  BY <1>1, <1>4, <1>5, <1>6, <1>7, <1>8, TakeStep

\* What one call of tryDecode_ leaves in the message.
LEMMA HttpReadFacts ==
  ASSUME MsgInv, NEW x \in Sides
  PROVE  HttpRead(x).m \in Https /\ HttpRead(x).m.scanned <= Size(con[x].in)
<1>1. con[x] \in Conns
  BY DEF MsgInv, MsgTypeOK
<1>2. con[x].http \in Https /\ Data(con[x].in) \in Text /\ Len(Data(con[x].in)) = Size(con[x].in)
  BY <1>1, ConnFields
<1>3. con[x].http.scanned <= Len(Data(con[x].in))
  BY <1>2 DEF MsgInv, ScannedIsThere
<1> QED
  BY <1>2, <1>3, HttpDecodeFacts DEF HttpRead

\* The reads after which nothing is consumed.
LEMMA HttpKeepStep ==
  ASSUME MsgInv, NEW x \in Sides,
         HttpWait(x) \/ HttpError(x) \/ (x = "cli" /\ HttpResponseComes)
  PROVE  MsgInv'
<1> DEFINE c == con[x]
           m == HttpRead(x).m
           d == [c EXCEPT !.http = m, !.loops = 0]
           f == [c EXCEPT !.http = m, !.loops = 0, !.closing = TRUE]
<1>1. c \in Conns /\ m \in Https /\ m.scanned <= Size(c.in)
  BY HttpReadFacts DEF MsgInv, MsgTypeOK
<1>2. Proto = "http" /\ UNCHANGED <<mode, nsent, wire, reset, handed, taken>>
  BY DEF HttpWait, HttpError, HttpResponseComes, Reading
<1>3. Becomes(x, d) \/ Becomes(x, f)
  BY DEF HttpWait, HttpError, HttpResponseComes
<1> HIDE DEF m
<1>4. WithHttp(c, d, m) /\ WithHttp(c, f, m)
  BY <1>1, HttpFields
<1> HIDE DEF d, f
<1>5. ASSUME NEW e, WithHttp(c, e, m), Becomes(x, e) PROVE MsgInv'
  <2>1. e \in Conns /\ e.in = c.in /\ e.out = c.out /\ e.wen = c.wen /\ e.http = m
    BY <1>5 DEF WithHttp
  <2> QED
    BY <1>1, <1>2, <1>5, <2>1, StillStep
<1> QED
  BY <1>3, <1>4, <1>5

\* A response set, the callback over.
LEMMA ReplyFields ==
  ASSUME NEW c \in Conns, NEW r \in Responses
  PROVE  SameData(c, [c EXCEPT !.resp = r, !.loops = 0])
BY DEF SameData, Conns

\* A request: its bytes are consumed, then the response is sent, or it fails.
LEMMA HttpRequestStep ==
  ASSUME MsgInv, HttpRequestComes
  PROVE  MsgInv'
<1> DEFINE x == "svr"
           c == con[x]
           h == HttpRead(x).m
           n == h.scanned
           a == Handler(h.line[2], c.resp)
           pieces == ResponsePieces(a.send)
           o == AppendAll(c.out, pieces)
           b == [c EXCEPT !.out = o]
           k == ClearData(b, n)
           r == a.resp
           d == [k EXCEPT !.resp = r, !.loops = 0]
           e == SentOutput(x, d)
<1>1. x \in Sides /\ MsgTypeOK /\ c \in Conns
  BY DEF Sides, MsgInv, MsgTypeOK
<1>2. /\ Proto = "http" /\ UNCHANGED <<mode, nsent, reset>>
      /\ Hand(x, pieces) /\ taken' = [taken EXCEPT ![x] = @ + n]
      /\ \/ Becomes(x, e) /\ Write(x, Data(d.out))
         \/ SendFails(x, d) /\ wire' = wire
  BY DEF HttpRequestComes, Reading, SendResponse, Took
<1>3. h \in Https /\ n <= Size(c.in)
  BY <1>1, HttpReadFacts
<1>4. /\ c.out \in Buffers /\ c.in \in Buffers /\ c.resp \in Responses /\ Size(c.in) \in Nat
  BY <1>1, ConnFields, LenProperties DEF Text
<1>5. a.send \in Responses /\ r \in Responses
  BY <1>4, HandlerFacts
<1>6. n \in 0..Size(c.in)
  BY <1>3, <1>4 DEF Https
<1> HIDE DEF n, a, r
<1>7. pieces \in Seq(Text)
  BY <1>5, ResponseFacts
<1> HIDE DEF pieces
<1>8. o \in Buffers /\ Data(o) = Data(c.out) \o FlattenSeq(pieces)
  BY <1>4, <1>7, AppendAllFacts
<1> HIDE DEF o
<1>9. b \in Conns /\ b.in = c.in /\ b.out = o
  BY <1>1, <1>8, OutFields
<1> HIDE DEF b
<1>10. k \in Conns /\ k.in = Consume(c.in, n) /\ k.http = NewHttp /\ k.out = o
  <2>1. n \in 0..Size(b.in)
    BY <1>6, <1>9
  <2> QED
    BY <1>9, <2>1, ClearDataFacts
<1> HIDE DEF k
<1>11. d \in Conns /\ d.in = Consume(c.in, n) /\ d.http = NewHttp /\ d.out = o
  BY <1>5, <1>10, ReplyFields DEF SameData
<1> HIDE DEF d
<1>12. /\ Data(d.in) = SubSeq(Data(c.in), n + 1, Len(Data(c.in)))
       /\ Size(d.in) = Size(c.in) - n
  BY <1>4, <1>6, <1>11, ConsumeFacts
<1>13. d.http.scanned <= Size(d.in) /\ d.http.scanned = 0
  BY <1>4, <1>6, <1>11, <1>12, NewHttpFacts
<1>14. nsent' \in 0..Len(mode.msgs) /\ mode' = mode /\ reset' = reset
  BY <1>1, <1>2 DEF MsgTypeOK
<1>15. CASE Becomes(x, e) /\ Write(x, Data(d.out))
  <2>1. e \in Conns /\ e.in = d.in /\ e.http = d.http
    BY <1>1, <1>11, SentOutputFacts
  <2>2. Data(d.out) = Data(c.out) \o FlattenSeq(pieces)
    BY <1>8, <1>11
  <2>3. e.out = SentOutput(x, d).out /\ e.wen = SentOutput(x, d).wen
    OBVIOUS
  <2>4. Data(e.in) = SubSeq(Data(c.in), n + 1, Len(Data(c.in))) /\ e.http.scanned <= Size(e.in)
        /\ e.http.scanned = 0
    BY <1>12, <1>13, <2>1
  <2> HIDE DEF e, x
  <2> QED
    BY <1>1, <1>2, <1>6, <1>7, <1>11, <1>14, <1>15, <2>1, <2>2, <2>3, <2>4, SendStep
<1>16. CASE SendFails(x, d) /\ wire' = wire
  <2>1. n \in Nat
    BY <1>6
  <2> HIDE DEF x
  <2> QED
    BY <1>1, <1>2, <1>7, <1>11, <1>13, <1>16, <2>1, FailStep
<1> QED
  BY <1>2, <1>15, <1>16

\* A message out of the codec: the callback answers on the server, then the
\* message is consumed.
LEMMA LoopMsgStep ==
  ASSUME MsgInv, NEW x \in Sides, LoopMsg(x)
  PROVE  MsgInv'
<1> DEFINE c == con[x]
           D == Decoded(x)
           n == D.r
           answers == x = "svr" /\ ~mode.quiet
           pieces == Encode(CodecOf(x), D.msg)
           o == AppendAll(c.out, pieces)
           d == [c EXCEPT !.out = o]
           i == Consume(c.in, n)
           s == SentOutput(x, d)
<1>1. MsgTypeOK /\ c \in Conns /\ Framed /\ n > 0
  BY DEF MsgInv, MsgTypeOK, LoopMsg, Decoding
<1>2. CodecOf(x) \in Framings
  BY <1>1 DEF CodecOf, Framed, Framings, Clone
<1>3. /\ c.out \in Buffers /\ c.in \in Buffers /\ Size(c.in) \in Nat
      /\ Data(c.in) \in Text /\ Len(Data(c.in)) = Size(c.in)
  BY <1>1, ConnFields, LenProperties DEF Text
<1>4. n \in Int /\ n <= Size(c.in) /\ D.msg \in Text
  BY <1>2, <1>3, DecodeFacts DEF Decoded
<1>5. n \in 0..Size(c.in) /\ n \in Nat
  BY <1>1, <1>3, <1>4
<1>6. pieces \in Seq(Text)
  BY <1>2, <1>4, EncodeFacts
<1>7. o \in Buffers /\ Data(o) = Data(c.out) \o FlattenSeq(pieces)
  BY <1>3, <1>6, AppendAllFacts
<1>8. i \in Buffers /\ Size(i) = Size(c.in) - n /\ Data(i) = SubSeq(Data(c.in), n + 1, Len(Data(c.in)))
  BY <1>3, <1>5, ConsumeFacts
<1>9. UNCHANGED <<mode, nsent, reset>> /\ nsent' \in 0..Len(mode.msgs)
  BY DEF LoopMsg, MsgInv, MsgTypeOK
<1>10. Proto # "http" /\ c.http.scanned = 0
  BY <1>1 DEF MsgInv, ScannedIsThere, Framed
<1>11. Size(i) \in Nat
  BY <1>3, <1>5, <1>8
<1>12. CASE ~answers
  <2> DEFINE e == [c EXCEPT !.in = i]
  <2>1. /\ UNCHANGED <<handed, wire>> /\ Becomes(x, e) /\ taken' = [taken EXCEPT ![x] = @ + n]
    BY <1>12 DEF LoopMsg, Took
  <2> HIDE DEF i, n
  <2>2. e \in Conns /\ e.in = i /\ e.out = c.out /\ e.wen = c.wen /\ e.http = c.http
    BY <1>1, <1>8, InputFields, Zenon DEF WithInput
  <2> HIDE DEF e
  <2>3. e.http.scanned = 0 /\ e.http.scanned <= Size(e.in)
    BY <1>10, <1>11, <2>2
  <2> QED
    BY <1>1, <1>5, <1>8, <1>9, <2>1, <2>2, <2>3, TakeStep
<1>13. CASE answers
  <2> DEFINE e == [s EXCEPT !.in = Consume(@, n)]
  <2>1. /\ Hand(x, pieces)
        /\ \/ /\ Write(x, Data(d.out)) /\ Becomes(x, e) /\ taken' = [taken EXCEPT ![x] = @ + n]
           \/ SendFails(x, d) /\ UNCHANGED <<wire, taken>>
    BY <1>13 DEF LoopMsg, Took
  <2> HIDE DEF n, o, pieces
  <2>2. d \in Conns /\ d.in = c.in /\ d.http = c.http /\ d.out = o
    BY <1>1, <1>7, OutFields
  <2> HIDE DEF d
  <2>3. s \in Conns /\ s.in = c.in /\ s.http = c.http
    BY <1>1, <2>2, SentOutputFacts
  <2>4. CASE Write(x, Data(d.out)) /\ Becomes(x, e) /\ taken' = [taken EXCEPT ![x] = @ + n]
    <3>1. e = [s EXCEPT !.in = i]
      BY <2>3
    <3>2. e.out = SentOutput(x, d).out /\ e.wen = SentOutput(x, d).wen /\ e.in = i /\ e.http = c.http /\ e \in Conns
      <4> HIDE DEF i
      <4>1. WithInput(s, [s EXCEPT !.in = i], i)
        <5> HIDE DEF s
        <5> QED
          BY <1>8, <2>3, InputFields, Zenon
      <4>2. WithInput(s, e, i)
        BY <3>1, <4>1
      <4> QED
        BY <2>3, <4>2 DEF WithInput
    <3> HIDE DEF e, s, i
    <3>3. Data(d.out) = Data(c.out) \o FlattenSeq(pieces)
      BY <1>7, <2>2
    <3>4. e.http.scanned = 0 /\ e.http.scanned <= Size(e.in)
      BY <1>10, <1>11, <3>2
    <3>5. Data(e.in) = SubSeq(Data(c.in), n + 1, Len(Data(c.in)))
      BY <1>8, <3>2
    <3> QED
      BY <1>5, <1>6, <1>9, <2>1, <2>2, <2>4, <3>2, <3>3, <3>4, <3>5, SendStep
  <2>5. CASE SendFails(x, d) /\ UNCHANGED <<wire, taken>>
    <3>1. d.http.scanned = 0 /\ d.http.scanned <= Size(d.in)
      BY <1>3, <1>10, <2>2
    <3> QED
      BY <1>5, <1>6, <1>9, <2>1, <2>2, <2>5, <3>1, FailStep
  <2> QED
    BY <2>1, <2>4, <2>5
<1> QED
  BY <1>12, <1>13

-----------------------------------------------------------------------------
(* The stream.                                                              *)

\* Two new connections, with nothing on the way.
LEMMA MsgInit == Init => MsgInv
<1> SUFFICES ASSUME Init PROVE MsgInv
  OBVIOUS
<1>1. <<>> \in Text /\ Len(<<>>) = 0
  BY DEF Text
<1>2. \A x \in Sides : /\ con[x].in = NewBuffer(Suggest) /\ con[x].out = NewBuffer(Suggest)
                       /\ con[x].http = NewHttp
  BY DEF Init
<1>3. MsgTypeOK
  <2>1. mode \in Modes /\ nsent \in 0..Len(mode.msgs) /\ reset \in BOOLEAN
    <3>1. mode \in Modes
      BY DEF Init
    <3>2. mode.msgs \in Seq(Seq(Bytes)) \/ mode.msgs \in Seq(Requests)
      BY <3>1, MsgAssumption
    <3>3. Len(mode.msgs) \in Nat
      BY <3>2, LenProperties
    <3> QED
      <4>1. nsent = 0
        BY DEF Init
      <4>2. nsent \in 0..Len(mode.msgs)
        BY <3>3, <4>1
      <4>3. reset \in BOOLEAN
        BY DEF Init
      <4> QED
        BY <3>1, <4>2, <4>3
  <2>2. con \in [Sides -> Conns]
    <3> DEFINE c == [in |-> NewBuffer(Suggest), out |-> NewBuffer(Suggest), wen |-> FALSE,
                     state |-> "open", closing |-> FALSE, loops |-> 0,
                     http |-> NewHttp, resp |-> NewResponse]
    <3>1. con = [x \in Sides |-> c]
      BY DEF Init
    <3>2. c \in Conns
      <4>1. NewBuffer(Suggest) \in Buffers /\ NewHttp \in Https
        BY NewBufferFacts, NewHttpFacts
      <4>2. NewResponse \in Responses
        BY <1>1 DEF NewResponse, Responses
      <4> QED
        BY <4>1, <4>2 DEF Conns
    <3> HIDE DEF c
    <3> QED
      BY <3>1, <3>2
  <2>3. /\ wire \in [Sides -> Text] /\ handed \in [Sides -> Text] /\ taken \in [Sides -> Nat]
        /\ \A x \in Sides : Len(wire[x]) <= WireCap
    BY <1>1, MsgAssumption DEF Init
  <2> QED
    BY <2>1, <2>2, <2>3 DEF MsgTypeOK
<1>4. ScannedIsThere
  BY <1>2, NewBufferFacts, NewHttpFacts DEF ScannedIsThere
<1>5. OutputInOrder
  BY <1>2, NewBufferFacts DEF OutputInOrder
<1>6. \A x \in Sides : Peer(x) \in Sides /\ handed[x] = <<>> /\ wire[x] = <<>> /\ taken[x] = 0
  BY PeerFacts DEF Init
<1>7. NotAhead
  BY <1>1, <1>6 DEF NotAhead
<1>8. StreamIntact
  <2>1. SubSeq(<<>>, 0 + 1, Len(<<>>)) = <<>>
    BY <1>1, DropNothing
  <2>2. <<>> \o <<>> = <<>>
    BY <1>1, TextEmpty
  <2>3. \A x \in Sides : SubSeq(handed[Peer(x)], taken[x] + 1, Len(handed[Peer(x)])) = <<>>
    BY <1>6, <2>1
  <2>4. \A x \in Sides : Data(con[x].in) = <<>> /\ wire[x] = <<>> /\ Data(con[Peer(x)].out) = <<>>
    BY <1>2, <1>6, NewBufferFacts
  <2>5. \A x \in Sides : (Data(con[x].in) \o wire[x]) \o Data(con[Peer(x)].out) = <<>>
    BY <2>2, <2>4
  <2> QED
    BY <2>3, <2>5 DEF StreamIntact
<1> QED
  BY <1>3, <1>4, <1>5, <1>7, <1>8 DEF MsgInv

\* Every step of either side, of a callback and of the host.
LEMMA MsgNext == MsgInv /\ [Next]_vars => MsgInv'
<1> SUFFICES ASSUME MsgInv, [Next]_vars PROVE MsgInv'
  OBVIOUS
<1>1. ASSUME NEW x \in Sides, Step(x) PROVE MsgInv'
  BY <1>1, HandleReadStep, ReadAgainStep, HandleWriteStep, ControlStep, LoopMsgStep, HttpKeepStep
     DEF Step
<1>2. CASE ClientSends
  BY <1>2, SendMsgStep, SendRawStep, SendRequestStep DEF ClientSends
<1>3. CASE Callbacks
  <2>1. CASE HttpResponseComes
    <3>1. "cli" \in Sides
      BY DEF Sides
    <3> QED
      BY <2>1, <3>1, HttpKeepStep
  <2> QED
    BY <1>3, <2>1, EchoRawStep, TakeRawStep, HttpRequestStep DEF Callbacks
<1>4. CASE ClientClose
  <2>1. "cli" \in Sides
    BY DEF Sides
  <2> QED
    BY <1>4, <2>1, ControlStep
<1>5. CASE Reset
  BY <1>5, ResetStep
<1>6. CASE UNCHANGED vars
  <2>1. MsgTypeOK'
    BY <1>6 DEF vars, MsgInv, MsgTypeOK
  <2>2. ScannedIsThere'
    BY <1>6 DEF vars, MsgInv, ScannedIsThere, Proto
  <2>3. (~reset => OutputInOrder /\ NotAhead)'
    BY <1>6 DEF vars, MsgInv, OutputInOrder, NotAhead
  <2>4. StreamIntact'
    BY <1>6 DEF vars, MsgInv, StreamIntact
  <2> QED
    BY <2>1, <2>2, <2>3, <2>4 DEF MsgInv
<1> QED
  BY <1>1, <1>2, <1>3, <1>4, <1>5, <1>6 DEF Next

\* Between two TcpConn objects no byte is lost, doubled or moved, whatever the
\* messages, the suggested buffer size, the room on the wire and the cuts: all
\* that one user handed over and the other end has not consumed is, in order,
\* in input_, in flight or in output_.
THEOREM StreamStaysIntact == Spec => []StreamIntact
<1>1. Spec => []MsgInv
  BY MsgInit, MsgNext, PTL DEF Spec
<1>2. MsgInv => StreamIntact
  BY DEF MsgInv
<1> QED
  BY <1>1, <1>2, PTL

\* A buffer that is not waiting to be written is empty, what an HTTP message has
\* scanned is still in input_, and b_ <= e_ <= cap_ in every buffer.
THEOREM BuffersStaySound == Spec => [](MsgTypeOK /\ ScannedIsThere /\ (~reset => OutputInOrder))
<1>1. Spec => []MsgInv
  BY MsgInit, MsgNext, PTL DEF Spec
<1>2. MsgInv => MsgTypeOK /\ ScannedIsThere /\ (~reset => OutputInOrder)
  BY DEF MsgInv
<1> QED
  BY <1>1, <1>2, PTL

-----------------------------------------------------------------------------
(* The stream of a list of messages.                                        *)

Frame(codec, m) == FlattenSeq(Encode(codec, m))
StreamOf(codec, s) == FlattenSeq([i \in DOMAIN s |-> Frame(codec, s[i])])

\* What one call of encode appends.
LEMMA FrameFacts ==
  ASSUME NEW codec \in Framings, NEW m \in Text
  PROVE  Frame(codec, m) \in Text /\ Len(Frame(codec, m)) = Len(m) + 2 /\ Len(m) \in Nat
<1>1. Encode(codec, m) \in Seq(Text)
  BY EncodeFacts
<1>2. NewBuffer(Suggest) \in Buffers
  BY NewBufferFacts
<1>3. FlattenSeq(Encode(codec, m)) \in Text
  BY <1>1, <1>2, AppendAllFacts
<1> QED
  BY <1>3, FrameLength DEF Frame

\* One more piece is added at the end.
LEMMA FlattenAppend ==
  ASSUME NEW t \in Seq(Text), NEW u \in Text
  PROVE  FlattenSeq(t) \in Text /\ FlattenSeq(Append(t, u)) = FlattenSeq(t) \o u
<1> DEFINE n == Len(t)
           t2 == Append(t, u)
<1>1. n \in Nat /\ t2 \in Seq(Text) /\ Len(t2) = n + 1 /\ t2[n + 1] = u /\ \A i \in 1..n : t2[i] = t[i]
  BY AppendProperties, LenProperties
<1>2. FlattenSeq(t) \in Text
  <2>1. NewBuffer(Suggest) \in Buffers
    BY NewBufferFacts
  <2> QED
    BY <2>1, AppendAllFacts
<1>3. PICK g : IsFlat(g, t2, n + 1) /\ FlattenSeq(t2) = g[n + 1]
  <2>1. Len(t2) \in Nat \ {0}
    BY <1>1
  <2>2. \E g : IsFlat(g, t2, Len(t2)) /\ FlattenSeq(t2) = g[Len(t2)]
    BY <2>1, FlattenIs
  <2> QED
    BY <1>1, <2>2
<1> HIDE DEF t2
<1>4. \A i \in 1..n + 1 : g[i] = IF i = 1 THEN t2[i] ELSE g[i - 1] \o t2[i]
  BY <1>3, Zenon DEF IsFlat
<1>5. CASE n = 0
  <2>1. t = <<>>
    BY <1>5, EmptySeq
  <2>2. FlattenSeq(t) = <<>>
    BY <1>5, <2>1 DEF FlattenSeq
  <2>3. g[1] = u
    <3>1. 1 \in 1..n + 1 /\ n + 1 = 1
      BY <1>5
    <3> QED
      BY <1>1, <1>4, <3>1
  <2>4. <<>> \o u = u
    BY TextEmpty
  <2> QED
    BY <1>2, <1>3, <1>5, <2>2, <2>3, <2>4 DEF t2
<1>6. CASE n # 0
  <2>1. PICK f : IsFlat(f, t, n) /\ FlattenSeq(t) = f[n]
    BY <1>1, <1>6, FlattenIs
  <2>2. \A i \in 1..n : f[i] = IF i = 1 THEN t[i] ELSE f[i - 1] \o t[i]
    BY <2>1, Zenon DEF IsFlat
  <2> DEFINE T == {i \in 1..n : f[i] # g[i]}
  <2>3. T = {}
    <3> SUFFICES ASSUME T # {} PROVE FALSE
      OBVIOUS
    <3>1. T \subseteq Nat
      BY <1>1
    <3>2. PICK k \in T : \A j \in T : k <= j
      <4> HIDE DEF T
      <4> QED
        BY <3>1, LeastNumber
    <3>3. k \in 1..n /\ k \in 1..n + 1 /\ f[k] # g[k] /\ t2[k] = t[k]
      BY <1>1
    <3>4. CASE k = 1
      BY <1>4, <2>2, <3>3, <3>4
    <3>5. CASE k # 1
      <4>1. k - 1 \in 1..n /\ k - 1 \notin T
        BY <1>1, <3>2, <3>3, <3>5
      <4>2. f[k - 1] = g[k - 1]
        BY <4>1
      <4>3. f[k] = f[k - 1] \o t[k] /\ g[k] = g[k - 1] \o t2[k]
        BY <1>4, <2>2, <3>3, <3>5
      <4> QED
        BY <3>3, <4>2, <4>3
    <3> QED
      BY <3>4, <3>5
  <2>4. f[n] = g[n]
    <3>1. n \in 1..n /\ n \notin T
      BY <1>1, <1>6, <2>3
    <3> QED
      BY <3>1
  <2>5. g[n + 1] = g[n] \o u
    <3>1. n + 1 \in 1..n + 1 /\ n + 1 # 1 /\ (n + 1) - 1 = n
      BY <1>1, <1>6
    <3>2. g[n + 1] = g[(n + 1) - 1] \o t2[n + 1]
      BY <1>4, <3>1, Zenon
    <3> QED
      BY <1>1, <3>1, <3>2
  <2> QED
    BY <1>2, <1>3, <2>1, <2>4, <2>5 DEF t2
<1> QED
  BY <1>1, <1>5, <1>6

\* The stream of a list that has one message more.
LEMMA StreamAppend ==
  ASSUME NEW codec \in Framings, NEW s \in Seq(Text), NEW m \in Text
  PROVE  /\ StreamOf(codec, s) \in Text
         /\ StreamOf(codec, Append(s, m)) = StreamOf(codec, s) \o Frame(codec, m)
<1> DEFINE a == Append(s, m)
           F == [i \in DOMAIN s |-> Frame(codec, s[i])]
           G == [i \in DOMAIN a |-> Frame(codec, a[i])]
           n == Len(s)
<1>1. /\ n \in Nat /\ DOMAIN s = 1..n
      /\ a \in Seq(Text) /\ Len(a) = n + 1 /\ DOMAIN a = 1..n + 1
      /\ a[n + 1] = m /\ \A i \in 1..n : a[i] = s[i]
  BY AppendProperties, LenProperties
<1>2. \A i \in 1..n : Frame(codec, s[i]) \in Text
  BY ElementOfSeq, FrameFacts
<1>3. F \in Seq(Text) /\ Len(F) = n /\ \A i \in 1..n : F[i] = Frame(codec, s[i])
  <2>1. F \in [1..n -> Text]
    BY <1>1, <1>2
  <2> QED
    BY <1>1, <2>1, SeqDef, LenProperties
<1>4. Frame(codec, m) \in Text
  BY FrameFacts
<1> HIDE DEF a
<1>5. /\ G = [i \in 1..n + 1 |-> Frame(codec, a[i])]
      /\ \A i \in 1..n + 1 : Frame(codec, a[i]) \in Text
  <2>1. \A i \in 1..n + 1 : i \in 1..n \/ i = n + 1
    BY <1>1
  <2>2. \A i \in 1..n : Frame(codec, a[i]) = Frame(codec, s[i])
    BY <1>1
  <2>3. Frame(codec, a[n + 1]) = Frame(codec, m)
    BY <1>1
  <2> QED
    BY <1>1, <1>2, <1>4, <2>1, <2>2, <2>3
<1>6. G \in Seq(Text) /\ Len(G) = n + 1 /\ \A i \in 1..n + 1 : G[i] = Frame(codec, a[i])
  <2>1. G \in [1..n + 1 -> Text] /\ n + 1 \in Nat
    BY <1>1, <1>5
  <2> QED
    BY <1>5, <2>1, SeqDef, LenProperties
<1> DEFINE H == Append(F, Frame(codec, m))
<1> HIDE DEF F, G
<1>7. /\ H \in Seq(Text) /\ Len(H) = n + 1 /\ H[n + 1] = Frame(codec, m)
      /\ \A i \in 1..n : H[i] = F[i]
  BY <1>3, <1>4, AppendProperties
<1> HIDE DEF H
<1>8. \A i \in 1..Len(G) : G[i] = H[i]
  <2>1. \A i \in 1..n + 1 : i \in 1..n \/ i = n + 1
    BY <1>1
  <2>2. \A i \in 1..n : G[i] = H[i]
    <3> SUFFICES ASSUME NEW i \in 1..n PROVE G[i] = H[i]
      OBVIOUS
    <3>1. i \in 1..n + 1
      BY <1>1
    <3>2. G[i] = Frame(codec, a[i]) /\ a[i] = s[i] /\ H[i] = F[i] /\ F[i] = Frame(codec, s[i])
      BY <1>1, <1>3, <1>6, <1>7, <3>1
    <3> QED
      BY <3>2
  <2>3. G[n + 1] = H[n + 1]
    <3>1. n + 1 \in 1..n + 1
      BY <1>1
    <3>2. G[n + 1] = Frame(codec, a[n + 1]) /\ a[n + 1] = m
      BY <1>1, <1>6, <3>1
    <3> QED
      BY <1>7, <3>2
  <2> QED
    BY <1>6, <2>1, <2>2, <2>3
<1>9. G = H
  BY <1>6, <1>7, <1>8, SeqEqual
<1>10. FlattenSeq(F) \in Text /\ FlattenSeq(H) = FlattenSeq(F) \o Frame(codec, m)
  BY <1>3, <1>4, FlattenAppend DEF H
<1> QED
  BY <1>9, <1>10 DEF StreamOf, F, G, a

\* The stream of no messages.
LEMMA StreamEmpty ==
  ASSUME NEW codec
  PROVE  StreamOf(codec, <<>>) = <<>>
<1> DEFINE e == <<>>
           F == [i \in DOMAIN e |-> Frame(codec, e[i])]
<1>1. F = <<>>
  OBVIOUS
<1>2. Len(F) = 0
  BY <1>1
<1>3. FlattenSeq(F) = F
  BY <1>2 DEF FlattenSeq
<1> QED
  BY <1>1, <1>3 DEF StreamOf

\* One message more of the beginning of a list.
LEMMA OneMore ==
  ASSUME NEW S, NEW s \in Seq(S), NEW j \in Nat, j < Len(s)
  PROVE  /\ SubSeq(s, 1, j) \in Seq(S) /\ Len(SubSeq(s, 1, j)) = j
         /\ s[j + 1] \in S
         /\ SubSeq(s, 1, j + 1) = Append(SubSeq(s, 1, j), s[j + 1])
<1> DEFINE p == SubSeq(s, 1, j)
           q == SubSeq(s, 1, j + 1)
<1>1. Len(s) \in Nat /\ j \in 0..Len(s) /\ j + 1 \in 0..Len(s) /\ j + 1 \in 1..Len(s)
  BY LenProperties
<1>2. p \in Seq(S) /\ Len(p) = j /\ \A i \in 1..j : p[i] = s[i]
  BY <1>1, SubSeqProperties, ElementOfSeq
<1>3. q \in Seq(S) /\ Len(q) = j + 1 /\ \A i \in 1..j + 1 : q[i] = s[i]
  BY <1>1, SubSeqProperties, ElementOfSeq
<1>4. s[j + 1] \in S
  BY <1>1, ElementOfSeq
<1> HIDE DEF p, q
<1> DEFINE a == Append(p, s[j + 1])
<1>5. a \in Seq(S) /\ Len(a) = j + 1 /\ a[j + 1] = s[j + 1] /\ \A i \in 1..j : a[i] = p[i]
  BY <1>2, <1>4, AppendProperties
<1> HIDE DEF a
<1>6. \A i \in 1..Len(q) : q[i] = a[i]
  <2>1. \A i \in 1..j + 1 : i \in 1..j \/ i = j + 1
    OBVIOUS
  <2> QED
    BY <1>2, <1>3, <1>5, <2>1
<1>7. q = a
  BY <1>3, <1>5, <1>6, SeqEqual
<1> QED
  BY <1>2, <1>4, <1>7 DEF p, q, a

\* The whole of a list is its beginning of that length.
LEMMA AllOf ==
  ASSUME NEW S, NEW s \in Seq(S)
  PROVE  SubSeq(s, 1, Len(s)) = s
<1> DEFINE p == SubSeq(s, 1, Len(s))
<1>1. Len(s) \in Nat
  BY LenProperties
<1>2. p \in Seq(S) /\ Len(p) = Len(s) /\ \A i \in 1..Len(s) : p[i] = s[i]
  BY <1>1, SubSeqProperties, ElementOfSeq
<1> HIDE DEF p
<1>3. p = s
  BY <1>2, SeqEqual
<1> QED
  BY <1>3 DEF p

\* The stream of a list seen from one of its messages: what comes before, the
\* message, and what follows, which is nothing only after the last one.
LEMMA StreamAt ==
  ASSUME NEW codec \in Framings, NEW s \in Seq(Text), NEW k \in Nat, k < Len(s)
  PROVE  \E rest \in Text :
           /\ StreamOf(codec, s) = StreamOf(codec, SubSeq(s, 1, k)) \o (Frame(codec, s[k + 1]) \o rest)
           /\ rest = <<>> <=> k + 1 = Len(s)
<1> DEFINE b(j) == SubSeq(s, 1, j)
           m == s[k + 1]
           P(j) == \E rest \in Text :
                     /\ StreamOf(codec, b(j)) = StreamOf(codec, b(k)) \o (Frame(codec, m) \o rest)
                     /\ rest = <<>> <=> k + 1 = j
           T == {j \in k + 1..Len(s) : ~P(j)}
<1>1. Len(s) \in Nat /\ k + 1 \in k + 1..Len(s)
  BY LenProperties
<1>2. \A j \in Nat : j < Len(s) =>
        /\ b(j) \in Seq(Text) /\ s[j + 1] \in Text /\ b(j + 1) = Append(b(j), s[j + 1])
        /\ StreamOf(codec, b(j)) \in Text
        /\ StreamOf(codec, b(j + 1)) = StreamOf(codec, b(j)) \o Frame(codec, s[j + 1])
  <2> SUFFICES ASSUME NEW j \in Nat, j < Len(s)
               PROVE  /\ b(j) \in Seq(Text) /\ s[j + 1] \in Text /\ b(j + 1) = Append(b(j), s[j + 1])
                      /\ StreamOf(codec, b(j)) \in Text
                      /\ StreamOf(codec, b(j + 1)) = StreamOf(codec, b(j)) \o Frame(codec, s[j + 1])
    OBVIOUS
  <2>1. b(j) \in Seq(Text) /\ s[j + 1] \in Text /\ b(j + 1) = Append(b(j), s[j + 1])
    BY OneMore
  <2> HIDE DEF b
  <2> QED
    BY <2>1, StreamAppend
<1>3. StreamOf(codec, b(k)) \in Text /\ Frame(codec, m) \in Text /\ s[k + 1] \in Text
  BY <1>2, FrameFacts
<1> HIDE DEF b
<1>4. T = {}
  <2> SUFFICES ASSUME T # {} PROVE FALSE
    OBVIOUS
  <2>1. T \subseteq Nat
    BY <1>1
  <2>2. PICK j \in T : \A i \in T : j <= i
    <3> HIDE DEF T
    <3> QED
      BY <2>1, LeastNumber
  <2>3. j \in k + 1..Len(s) /\ ~P(j)
    OBVIOUS
  <2>4. CASE j = k + 1
    <3>1. StreamOf(codec, b(j)) = StreamOf(codec, b(k)) \o Frame(codec, m)
      BY <1>2, <2>4
    <3>2. Frame(codec, m) \o <<>> = Frame(codec, m) /\ <<>> \in Text
      BY <1>3, TextEmpty
    <3> QED
      BY <2>3, <2>4, <3>1, <3>2
  <2>5. CASE j # k + 1
    <3>1. j - 1 \in k + 1..Len(s) /\ j - 1 \notin T /\ j - 1 \in Nat /\ j - 1 < Len(s) /\ (j - 1) + 1 = j
      <4>1. j - 1 \in k + 1..Len(s) /\ j - 1 \in Nat /\ j - 1 < Len(s) /\ (j - 1) + 1 = j /\ ~(j <= j - 1)
        BY <1>1, <2>3, <2>5
      <4>2. j - 1 \notin T
        <5> HIDE DEF T
        <5> QED
          BY <2>2, <4>1
      <4> QED
        BY <4>1, <4>2
    <3>2. P(j - 1)
      <4> HIDE DEF P
      <4> QED
        BY <3>1
    <3>3. PICK rest \in Text : StreamOf(codec, b(j - 1)) = StreamOf(codec, b(k)) \o (Frame(codec, m) \o rest)
      BY <3>2
    <3>4. s[j] \in Text /\ StreamOf(codec, b(j)) = StreamOf(codec, b(j - 1)) \o Frame(codec, s[j])
      BY <1>2, <3>1
    <3> DEFINE more == rest \o Frame(codec, s[j])
    <3>5. Frame(codec, s[j]) \in Text /\ Len(Frame(codec, s[j])) \in Nat \ {0}
      BY <3>4, FrameFacts
    <3>6. more \in Text /\ more # <<>>
      <4>1. more \in Text /\ Len(more) = Len(rest) + Len(Frame(codec, s[j])) /\ Len(rest) \in Nat
        BY <3>5, TextConcat
      <4> HIDE DEF more
      <4>2. Len(more) # 0
        BY <3>5, <4>1
      <4> QED
        BY <4>1, <4>2, EmptySeq DEF Text
    <3>7. StreamOf(codec, b(j)) = StreamOf(codec, b(k)) \o (Frame(codec, m) \o more)
      <4> DEFINE f == StreamOf(codec, b(k))
                 g == Frame(codec, m)
                 z == Frame(codec, s[j])
      <4>1. f \in Text /\ g \in Text /\ z \in Text
        BY <1>3, <3>5
      <4>2. StreamOf(codec, b(j - 1)) = f \o (g \o rest)
        BY <3>3
      <4>3. StreamOf(codec, b(j)) = (f \o (g \o rest)) \o z
        BY <3>4, <4>2
      <4> HIDE DEF f, g, z, T, P
      <4>4. (f \o (g \o rest)) \o z = f \o (g \o (rest \o z))
        <5> DEFINE w == g \o rest
        <5>1. w \in Text
          BY <4>1, TextConcat
        <5>2. (f \o w) \o z = f \o (w \o z)
          <6> HIDE DEF w
          <6> QED
            BY <4>1, <5>1, TextAssociative, SMTT(30)
        <5>3. (g \o rest) \o z = g \o (rest \o z)
          BY <4>1, TextAssociative
        <5> QED
          BY <5>2, <5>3
      <4>5. StreamOf(codec, b(j)) = f \o (g \o (rest \o z))
        BY <4>3, <4>4
      <4> QED
        BY <4>5 DEF f, g, z
    <3> QED
      BY <2>3, <2>5, <3>6, <3>7
  <2> QED
    BY <2>4, <2>5
<1>5. P(Len(s))
  <2>1. Len(s) \in k + 1..Len(s)
    BY <1>1
  <2> HIDE DEF P
  <2> QED
    BY <1>4, <2>1
<1>6. b(Len(s)) = s
  BY AllOf DEF b
<1>7. \E rest \in Text :
        /\ StreamOf(codec, s) = StreamOf(codec, b(k)) \o (Frame(codec, m) \o rest)
        /\ rest = <<>> <=> k + 1 = Len(s)
  BY <1>5, <1>6
<1> QED
  BY <1>7 DEF b

\* What two texts that begin the same stream have in common.
SharedStart(data, f) ==
  /\ Len(data) \in Nat /\ Len(f) \in Nat
  /\ \A i \in 1..Len(data) : i <= Len(f) => data[i] = f[i]
  /\ Len(data) <= Len(f) => data = SubSeq(f, 1, Len(data))
  /\ Len(f) <= Len(data) => \E over \in Text : data = f \o over

\* Two readings of one stream: what has come, and what was sent.
LEMMA SameStream ==
  ASSUME NEW data \in Text, NEW more \in Text, NEW f \in Text, NEW rest \in Text,
         data \o more = f \o rest
  PROVE  SharedStart(data, f)
<1> DEFINE s == data \o more
           p == SubSeq(f, 1, Len(data))
           h == SubSeq(data, 1, Len(f))
<1>1. /\ Len(data) \in Nat /\ Len(f) \in Nat /\ Len(more) \in Nat /\ Len(rest) \in Nat
      /\ Len(s) = Len(data) + Len(more) /\ Len(s) = Len(f) + Len(rest)
  BY TextConcat
<1>2. /\ \A i \in 1..Len(data) + Len(more) : s[i] = IF i <= Len(data) THEN data[i] ELSE more[i - Len(data)]
      /\ \A i \in 1..Len(f) + Len(rest) : s[i] = IF i <= Len(f) THEN f[i] ELSE rest[i - Len(f)]
  BY TextElements
<1> HIDE DEF s
<1>3. \A i \in 1..Len(data) : i <= Len(f) => data[i] = f[i]
  BY <1>1, <1>2
<1>4. ASSUME Len(data) <= Len(f) PROVE data = p
  <2>1. Len(data) \in 0..Len(f)
    BY <1>1, <1>4
  <2>2. p \in Text /\ Len(p) = Len(data) /\ \A i \in 1..Len(data) : p[i] = f[i]
    BY <2>1, BeginningOf
  <2> HIDE DEF p
  <2>3. \A i \in 1..Len(data) : data[i] = p[i]
    BY <1>1, <1>3, <1>4, <2>2
  <2> QED
    BY <2>2, <2>3, SeqEqual DEF Text
<1>5. ASSUME Len(f) <= Len(data)
      PROVE  \E over \in Text : data = f \o over
  <2>1. Len(f) \in 0..Len(data)
    BY <1>1, <1>5
  <2>2. h \in Text /\ Len(h) = Len(f) /\ \A i \in 1..Len(f) : h[i] = data[i]
    BY <2>1, BeginningOf
  <2>3. SubSeq(data, Len(f) + 1, Len(data)) \in Text /\ h \o SubSeq(data, Len(f) + 1, Len(data)) = data
    BY <2>1, Cut DEF Text
  <2> HIDE DEF h
  <2>4. \A i \in 1..Len(h) : h[i] = f[i]
    BY <1>1, <1>3, <1>5, <2>2
  <2>5. h = f
    BY <2>2, <2>4, SeqEqual DEF Text
  <2> QED
    BY <2>3, <2>5
<1> QED
  BY <1>1, <1>3, <1>4, <1>5 DEF SharedStart, p

\* A message its codec can frame: no line feed in a line, which does not begin
\* with an end of transmission; no closing bracket in brackets.
Plain(codec, m) ==
  /\ codec = "line" => ~Has(m, LF) /\ (m # <<>> => m[1] # EOT)
  /\ codec = "bracket" => ~Has(m, Closing)

TooLong(codec, m) == codec = "length" /\ Len(m) > MaxBody

\* An empty message in brackets is held while nothing has come behind it.
HeldData(codec, data) == codec = "bracket" /\ data = <<Opening, Closing>>

\* How a frame begins.
LEMMA FrameBegins ==
  ASSUME NEW codec \in Framings, NEW m \in Text, Plain(codec, m)
  PROVE  /\ codec = "line" => Frame(codec, m)[1] # EOT
         /\ codec = "bracket" => /\ Frame(codec, m)[1] = Opening
                                 /\ Frame(codec, m)[2] = IF m = <<>> THEN Closing ELSE m[1]
         /\ codec = "length" => Frame(codec, m)[1] = Magic /\ Frame(codec, m)[2] = Length(Len(m))
<1>1. Len(m) \in Nat /\ (m # <<>> => Len(m) # 0) /\ (m = <<>> => Len(m) = 0)
  BY LenProperties, EmptySeq DEF Text
<1>2. CASE codec = "line"
  <2> DEFINE pre == <<>>
             post == <<CR, LF>>
             s == (pre \o m) \o post
  <2>1. pre \in Text /\ post \in Text
    BY TextEmpty, FrameTokens, ShortText
  <2>2. FrameAt(s, pre, m, post, <<>>)
    BY <2>1, SentParts
  <2>3. Len(pre) = 0 /\ Len(post) = 2 /\ post[1] = CR
    OBVIOUS
  <2>4. Frame(codec, m) = s
    BY <1>2, FrameOf DEF Frame
  <2> HIDE DEF s, pre, post
  <2>5. /\ \A i \in 1..Len(m) : s[Len(pre) + i] = m[i]
        /\ \A i \in 1..Len(post) : s[Len(pre) + Len(m) + i] = post[i]
    BY <2>2 DEF FrameAt
  <2>6. CASE m = <<>>
    <3>1. s[1] = CR
      <4>1. Len(pre) + Len(m) + 1 = 1 /\ 1 \in 1..Len(post)
        BY <1>1, <2>3, <2>6
      <4> QED
        BY <2>3, <2>5, <4>1
    <3> QED
      BY <1>2, <2>4, <3>1 DEF CR, EOT
  <2>7. CASE m # <<>>
    <3>1. s[1] = m[1]
      <4>1. Len(pre) + 1 = 1 /\ 1 \in 1..Len(m)
        BY <1>1, <2>3, <2>7
      <4> QED
        BY <2>5, <4>1
    <3> QED
      BY <1>2, <2>4, <2>7, <3>1 DEF Plain
  <2> QED
    BY <2>6, <2>7
<1>3. CASE codec = "bracket"
  <2> DEFINE pre == <<Opening>>
             post == <<Closing>>
             s == (pre \o m) \o post
  <2>1. pre \in Text /\ post \in Text
    BY FrameTokens, ShortText
  <2>2. FrameAt(s, pre, m, post, <<>>)
    BY <2>1, SentParts
  <2>3. Len(pre) = 1 /\ Len(post) = 1 /\ pre[1] = Opening /\ post[1] = Closing
    OBVIOUS
  <2>4. Frame(codec, m) = s
    BY <1>3, FrameOf DEF Frame
  <2> HIDE DEF s, pre, post
  <2>5. /\ \A i \in 1..Len(pre) : s[i] = pre[i]
        /\ \A i \in 1..Len(m) : s[Len(pre) + i] = m[i]
        /\ \A i \in 1..Len(post) : s[Len(pre) + Len(m) + i] = post[i]
    BY <2>2 DEF FrameAt
  <2>6. s[1] = Opening
    <3>1. 1 \in 1..Len(pre)
      BY <2>3
    <3> QED
      BY <2>3, <2>5, <3>1
  <2>7. m = <<>> => s[2] = Closing
    <3> SUFFICES ASSUME m = <<>> PROVE s[2] = Closing
      OBVIOUS
    <3>1. Len(pre) + Len(m) + 1 = 2 /\ 1 \in 1..Len(post)
      BY <1>1, <2>3
    <3> QED
      BY <2>3, <2>5, <3>1
  <2>8. m # <<>> => s[2] = m[1]
    <3> SUFFICES ASSUME m # <<>> PROVE s[2] = m[1]
      OBVIOUS
    <3>1. Len(pre) + 1 = 2 /\ 1 \in 1..Len(m)
      BY <1>1, <2>3
    <3> QED
      BY <2>5, <3>1
  <2> QED
    BY <1>3, <2>4, <2>6, <2>7, <2>8
<1>4. CASE codec = "length"
  <2> DEFINE pre == <<Magic, Length(Len(m))>>
             post == <<>>
             s == (pre \o m) \o post
  <2>1. pre \in Text /\ post \in Text
    BY <1>1, TextEmpty, FrameTokens, ShortText
  <2>2. FrameAt(s, pre, m, post, <<>>)
    BY <2>1, SentParts
  <2>3. Len(pre) = 2 /\ pre[1] = Magic /\ pre[2] = Length(Len(m))
    OBVIOUS
  <2>4. Frame(codec, m) = s
    BY <1>4, FrameOf DEF Frame
  <2> HIDE DEF s, pre, post
  <2>5. \A i \in 1..Len(pre) : s[i] = pre[i]
    BY <2>2 DEF FrameAt
  <2>6. 1 \in 1..Len(pre) /\ 2 \in 1..Len(pre)
    BY <2>3
  <2> QED
    BY <1>4, <2>3, <2>4, <2>5, <2>6
<1> QED
  BY <1>2, <1>3, <1>4

\* What tryDecode makes of an input that begins with the next message or with a
\* part of it: the message, if it is there; nothing, if it is not; and an error
\* only for one that is too long.
NextIs(codec, m, data) ==
  LET d == TryDecode(codec, data)
  IN  /\ d.r > 0 => d.r = Len(Frame(codec, m)) /\ d.msg = m /\ ~TooLong(codec, m)
      /\ d.r = 0 => Len(data) < Len(Frame(codec, m)) \/ (HeldData(codec, data) /\ m = <<>>)

\* It does so whatever comes behind.  (codec.cc tryDecode.)
LEMMA NextDecoded ==
  ASSUME NEW codec \in Framings, NEW m \in Text, Plain(codec, m),
         NEW data \in Text, NEW more \in Text, NEW rest \in Text,
         data \o more = Frame(codec, m) \o rest
  PROVE  NextIs(codec, m, data)
<1> DEFINE f == Frame(codec, m)
           d == TryDecode(codec, data)
<1> SUFFICES /\ d.r > 0 => d.r = Len(f) /\ d.msg = m /\ ~TooLong(codec, m)
             /\ d.r = 0 => Len(data) < Len(f) \/ (HeldData(codec, data) /\ m = <<>>)
  BY DEF NextIs
<1>1. f \in Text /\ Len(f) = Len(m) + 2 /\ Len(m) \in Nat
  BY FrameFacts
<1>2. SharedStart(data, f)
  <2>1. data \o more = f \o rest
    OBVIOUS
  <2> HIDE DEF f
  <2> QED
    BY <1>1, <2>1, SameStream
<1>3. /\ codec = "line" => f[1] # EOT
      /\ codec = "bracket" => f[1] = Opening /\ f[2] = IF m = <<>> THEN Closing ELSE m[1]
      /\ codec = "length" => f[1] = Magic /\ f[2] = Length(Len(m))
  BY FrameBegins
<1>4. CASE TooLong(codec, m)
  <2>1. codec = "length" /\ Len(m) > MaxBody
    BY <1>4 DEF TooLong
  <2>2. d = LengthDecode(data)
    BY <2>1 DEF TryDecode
  <2>10. Len(data) \in Nat /\ \A i \in 1..Len(data) : i <= Len(f) => data[i] = f[i]
    BY <1>2, Zenon DEF SharedStart
  <2> HIDE DEF d, f
  <2>3. CASE Len(data) < 2
    <3>1. d = Nothing
      BY <2>2, <2>3 DEF LengthDecode
    <3> QED
      BY <1>1, <2>3, <3>1 DEF Nothing, d, f
  <2>4. CASE ~(Len(data) < 2)
    <3>1. data[2] = Length(Len(m))
      <4>1. 2 \in 1..Len(data) /\ 2 <= Len(f)
        BY <1>1, <2>10, <2>4
      <4> QED
        BY <1>3, <2>10, <2>1, <4>1
    <3>2. LengthOf(data[2]) = Len(m)
      BY <3>1 DEF LengthOf, Length
    <3>3. d.r = -1
      <4> DEFINE len == LengthOf(data[2])
      <4>1. Len(data) >= 2 /\ ~(Len(data) < 2) /\ len > MaxBody /\ ~(len <= MaxBody)
        BY <1>1, <2>10, <2>1, <2>4, <3>2, MsgAssumption
      <4>2. LengthDecode(data)
              = CASE Len(data) < 2 -> Nothing
                  [] Len(data) >= 2 /\ (data[1] # Magic \/ len > MaxBody) -> [r |-> -1, msg |-> <<>>]
                  [] Len(data) >= 2 /\ data[1] = Magic /\ len <= MaxBody /\ len + 2 <= Len(data) ->
                       [r |-> len + 2, msg |-> SubSeq(data, 3, len + 2)]
                  [] OTHER -> Nothing
        BY Zenon DEF LengthDecode
      <4> HIDE DEF len
      <4>3. LengthDecode(data) = [r |-> -1, msg |-> <<>>]
        BY <4>1, <4>2
      <4> QED
        BY <2>2, <4>3
    <3> QED
      BY <3>3 DEF d, f
  <2> QED
    BY <2>3, <2>4
<1>5. CASE ~TooLong(codec, m) /\ Len(data) < Len(f)
  <2>1. codec = "length" => Len(m) <= MaxBody
    BY <1>1, <1>5, MsgAssumption DEF TooLong
  <2>10. /\ Len(data) \in Nat /\ \A i \in 1..Len(data) : i <= Len(f) => data[i] = f[i]
         /\ Len(data) <= Len(f) => data = SubSeq(f, 1, Len(data))
    BY <1>2, Zenon DEF SharedStart
  <2>2. data = SubSeq(f, 1, Len(data)) /\ Len(data) \in 0..Len(f) - 1
    <3> HIDE DEF f
    <3>1. Len(f) \in Nat /\ Len(data) \in Nat /\ Len(data) < Len(f)
      BY <1>1, <1>5, <2>10
    <3>2. Len(data) <= Len(f) /\ Len(data) \in 0..Len(f) - 1
      BY <3>1
    <3> QED
      BY <2>10, <3>2, Zenon
  <2>3. codec = "line" => data # <<EOT>>
    <3> SUFFICES ASSUME codec = "line", data = <<EOT>> PROVE FALSE
      OBVIOUS
    <3>1. Len(data) = 1 /\ data[1] = EOT
      OBVIOUS
    <3>2. data[1] = f[1]
      <4>1. 1 \in 1..Len(data) /\ 1 <= Len(f)
        BY <1>1, <3>1
      <4> QED
        BY <2>10, <4>1
    <3> QED
      BY <1>3, <3>1, <3>2
  <2>4. d = Nothing
    <3> DEFINE n == Len(data)
    <3>1. n \in 0..Len(FlattenSeq(Encode(codec, m))) - 1
      BY <2>2 DEF Frame
    <3>2. SubSeq(FlattenSeq(Encode(codec, m)), 1, n) = data
      BY <2>2 DEF Frame
    <3> HIDE DEF n
    <3>3. TryDecode(codec, SubSeq(FlattenSeq(Encode(codec, m)), 1, n)) = Nothing
      BY <2>1, <2>3, <3>1, <3>2, PartNotDelivered DEF Plain
    <3> QED
      BY <3>2, <3>3
  <2> QED
    BY <1>5, <2>4 DEF Nothing
<1>6. CASE ~TooLong(codec, m) /\ ~(Len(data) < Len(f))
  <2>1. codec = "length" => Len(m) <= MaxBody
    BY <1>1, <1>6, MsgAssumption DEF TooLong
  <2>2. PICK over \in Text : data = f \o over
    <3>1. Len(data) \in Nat /\ (Len(f) <= Len(data) => \E over \in Text : data = f \o over)
      BY <1>2, Zenon DEF SharedStart
    <3> HIDE DEF f
    <3>2. Len(f) \in Nat /\ ~(Len(data) < Len(f))
      BY <1>1, <1>6
    <3>3. Len(f) <= Len(data)
      BY <3>1, <3>2
    <3> QED
      BY <3>1, <3>3, Zenon
  <2>3. CASE codec = "bracket" /\ m = <<>> /\ over = <<>>
    <3>1. data = f
      BY <1>1, <2>2, <2>3, TextEmpty
    <3>2. Len(f) = 2 /\ f[1] = Opening /\ f[2] = Closing
      <4>1. Len(m) = 0
        BY <2>3
      <4> QED
        BY <1>1, <1>3, <2>3, <4>1
    <3>3. data = <<Opening, Closing>>
      <4> DEFINE two == <<Opening, Closing>>
      <4>1. two \in Text /\ Len(two) = 2 /\ two[1] = Opening /\ two[2] = Closing
        BY FrameTokens, ShortText
      <4> HIDE DEF two, f
      <4>2. \A i \in 1..2 : f[i] = two[i]
        BY <3>2, <4>1
      <4>3. f = two
        BY <1>1, <3>2, <4>1, <4>2, SeqEqual DEF Text
      <4> QED
        BY <3>1, <4>3 DEF two
    <3>4. d = Nothing
      <4>1. Len(data) = 2 /\ data # <<EOT>>
        BY <3>1, <3>2
      <4>2. BracketDecode(data) = Nothing
        <5>1. ~Alone(data, EOT)
          BY <4>1, Zenon DEF Alone
        <5>2. ~(Len(data) > 2)
          BY <4>1
        <5> QED
          BY <5>1, <5>2 DEF BracketDecode
      <4> QED
        BY <2>3, <4>2 DEF TryDecode
    <3>5. d.r = 0 /\ ~(d.r > 0)
      <4> HIDE DEF d
      <4> QED
        BY <3>4 DEF Nothing
    <3>6. HeldData(codec, data)
      BY <2>3, <3>3 DEF HeldData
    <3> QED
      BY <2>3, <3>5, <3>6
  <2>4. CASE ~(codec = "bracket" /\ m = <<>> /\ over = <<>>)
    <3>1. TryDecode(codec, f \o over) = [r |-> Len(f), msg |-> m]
      BY <2>1, <2>2, <2>4, MessageDelivered DEF Plain, Frame
    <3>2. d.r = Len(f) /\ d.msg = m
      BY <2>2, <3>1
    <3> QED
      BY <1>1, <1>6, <3>2
  <2> QED
    BY <2>3, <2>4
<1> QED
  BY <1>4, <1>5, <1>6

\* Only an empty message is held.
LEMMA HeldIsEmpty ==
  ASSUME NEW codec \in Framings, NEW m \in Text, Plain(codec, m),
         NEW data \in Text, NEW more \in Text, NEW rest \in Text,
         data \o more = Frame(codec, m) \o rest, HeldData(codec, data)
  PROVE  m = <<>> /\ Len(data) = 2 /\ Len(Frame(codec, m)) = 2
<1>1. codec = "bracket" /\ Len(data) = 2 /\ data[2] = Closing
  BY DEF HeldData
<1>2. Frame(codec, m) \in Text /\ Len(Frame(codec, m)) = Len(m) + 2 /\ Len(m) \in Nat
  BY FrameFacts
<1>3. data[2] = Frame(codec, m)[2]
  <2>1. SharedStart(data, Frame(codec, m))
    BY <1>2, SameStream
  <2> QED
    BY <1>1, <1>2, <2>1 DEF SharedStart
<1>4. m = <<>>
  <2> SUFFICES ASSUME m # <<>> PROVE FALSE
    OBVIOUS
  <2>1. Closing = m[1]
    BY <1>1, <1>3, FrameBegins
  <2>2. DOMAIN m = 1..Len(m) /\ Len(m) # 0
    BY LenProperties, EmptySeq DEF Text
  <2>3. 1 \in DOMAIN m
    BY <1>2, <2>2
  <2> QED
    BY <1>1, <2>1, <2>3 DEF Plain, Has
<1>5. Len(m) = 0
  BY <1>4
<1> QED
  BY <1>1, <1>2, <1>4, <1>5

\* Of no input nothing is decoded.
LEMMA EmptyDecoded ==
  ASSUME NEW codec \in Framings
  PROVE  TryDecode(codec, <<>>).r = 0
<1> DEFINE e == <<>>
<1>1. Len(e) = 0 /\ ~Has(e, LF) /\ e # <<EOT>>
  BY DEF Has
<1> HIDE DEF e
<1>2. LineDecode(e) = Nothing /\ BracketDecode(e) = Nothing /\ LengthDecode(e) = Nothing
  BY <1>1 DEF LineDecode, BracketDecode, LengthDecode, Alone
<1>3. TryDecode(codec, e) = Nothing
  BY <1>2 DEF TryDecode, Framings
<1> QED
  BY <1>3 DEF Nothing, e

\* What is left behind the first of two texts is the second.
LEMMA DropFirst ==
  ASSUME NEW a \in Text, NEW b \in Text
  PROVE  SubSeq(a \o b, Len(a) + 1, Len(a \o b)) = b
<1>1. Len(a) \in 0..Len(a)
  BY LenProperties DEF Text
<1>2. SubSeq(a \o b, Len(a) + 1, Len(a \o b)) = SubSeq(a, Len(a) + 1, Len(a)) \o b
  BY <1>1, DropOfConcat DEF Text
<1>3. SubSeq(a, Len(a) + 1, Len(a)) = <<>>
  BY DropAll
<1> QED
  BY <1>2, <1>3, TextEmpty

\* A stream is a text.
LEMMA StreamText ==
  ASSUME NEW codec \in Framings, NEW s \in Seq(Text)
  PROVE  StreamOf(codec, s) \in Text
<1>1. <<>> \in Text
  BY DEF Text
<1> QED
  BY <1>1, StreamAppend

\* The beginning of a list, and the beginning of that.
LEMMA PrefixFacts ==
  ASSUME NEW S, NEW s \in Seq(S), NEW n \in 0..Len(s)
  PROVE  /\ SubSeq(s, 1, n) \in Seq(S) /\ Len(SubSeq(s, 1, n)) = n
         /\ \A i \in 1..n : SubSeq(s, 1, n)[i] = s[i]
         /\ \A k \in 0..n : SubSeq(SubSeq(s, 1, n), 1, k) = SubSeq(s, 1, k)
<1> DEFINE p == SubSeq(s, 1, n)
<1>1. Len(s) \in Nat /\ \A i \in 1..Len(s) : s[i] \in S
  BY LenProperties, ElementOfSeq
<1>2. p \in Seq(S) /\ Len(p) = n /\ \A i \in 1..n : p[i] = s[i]
  BY <1>1, SubSeqProperties
<1> HIDE DEF p
<1>3. ASSUME NEW k \in 0..n PROVE SubSeq(p, 1, k) = SubSeq(s, 1, k)
  <2> DEFINE q == SubSeq(p, 1, k)
             r == SubSeq(s, 1, k)
  <2>1. \A i \in 1..Len(p) : p[i] \in S
    BY <1>2, ElementOfSeq
  <2>2. q \in Seq(S) /\ Len(q) = k /\ \A i \in 1..k : q[i] = p[i]
    BY <1>2, <2>1, SubSeqProperties
  <2>3. r \in Seq(S) /\ Len(r) = k /\ \A i \in 1..k : r[i] = s[i]
    BY <1>1, SubSeqProperties
  <2> HIDE DEF q, r
  <2>4. \A i \in 1..Len(q) : q[i] = r[i]
    BY <1>1, <1>2, <2>2, <2>3
  <2>5. q = r
    BY <2>2, <2>3, <2>4, SeqEqual
  <2> QED
    BY <2>5 DEF q, r
<1> QED
  BY <1>2, <1>3 DEF p

\* A list that has one element more begins as it did.
LEMMA PrefixOfMore ==
  ASSUME NEW S, NEW s \in Seq(S), NEW m \in S, NEW k \in 0..Len(s)
  PROVE  SubSeq(Append(s, m), 1, k) = SubSeq(s, 1, k)
<1> DEFINE a == Append(s, m)
<1>1. Len(s) \in Nat /\ \A i \in 1..Len(s) : s[i] \in S
  BY LenProperties, ElementOfSeq
<1>2. a \in Seq(S) /\ Len(a) = Len(s) + 1 /\ \A i \in 1..Len(s) : a[i] = s[i]
  BY <1>1, AppendProperties
<1> HIDE DEF a
<1> DEFINE q == SubSeq(a, 1, k)
           r == SubSeq(s, 1, k)
<1>3. \A i \in 1..Len(a) : a[i] \in S
  BY <1>2, ElementOfSeq
<1>4. q \in Seq(S) /\ Len(q) = k /\ \A i \in 1..k : q[i] = a[i]
  BY <1>1, <1>2, <1>3, SubSeqProperties
<1>5. r \in Seq(S) /\ Len(r) = k /\ \A i \in 1..k : r[i] = s[i]
  BY <1>1, SubSeqProperties
<1> HIDE DEF q, r
<1>6. \A i \in 1..Len(q) : q[i] = r[i]
  <2>1. \A i \in 1..k : i \in 1..Len(s)
    BY <1>1
  <2> QED
    BY <1>2, <1>4, <1>5, <2>1
<1>7. q = r
  BY <1>4, <1>5, <1>6, SeqEqual
<1> QED
  BY <1>7 DEF q, r, a

-----------------------------------------------------------------------------
(* Which messages have been delivered.                                      *)

\* A mode of one of the three codecs whose messages it can frame.
PlainMode ==
  /\ Framed /\ (mode.cloned => Proto # "bracket")
  /\ \A i \in 1..Len(mode.msgs) : Plain(Proto, mode.msgs[i])

\* The messages the other end has handed over: the client those of its list,
\* the server what it was given, unless it answers nothing.
Src(x) ==
  IF x = "svr" THEN SubSeq(mode.msgs, 1, nsent)
               ELSE IF mode.quiet THEN <<>> ELSE got["svr"]

\* x has been given a prefix of them, none of it too long, and has consumed
\* exactly the bytes of that prefix.
Delivered(x) ==
  /\ handed[Peer(x)] = StreamOf(Proto, Src(x))
  /\ Len(got[x]) <= Len(Src(x)) /\ got[x] = SubSeq(Src(x), 1, Len(got[x]))
  /\ taken[x] = Len(StreamOf(Proto, got[x]))
  /\ \A i \in 1..Len(got[x]) : ~TooLong(Proto, got[x][i])

\* Between two callbacks there is nothing in the input that could be decoded.
Settled(x) == con[x].state = "open" /\ con[x].loops = 0 => Decoded(x).r = 0

FrameInv ==
  PlainMode /\ ~reset =>
    got \in [Sides -> Seq(Text)] /\ \A x \in Sides : Delivered(x) /\ Settled(x)

\* What the types of the messages are.
LEMMA Sources ==
  ASSUME MsgTypeOK, PlainMode, got \in [Sides -> Seq(Text)], NEW x \in Sides
  PROVE  /\ Proto \in Framings /\ CodecOf(x) = Proto
         /\ mode.msgs \in Seq(Text) /\ nsent \in 0..Len(mode.msgs) /\ Len(mode.msgs) \in Nat
         /\ Src(x) \in Seq(Text) /\ got[x] \in Seq(Text) /\ Len(Src(x)) \in Nat /\ Len(got[x]) \in Nat
<1>1. Proto \in Framings /\ Framed
  BY DEF PlainMode, Framed, Framings
<1>2. CodecOf(x) = Proto
  BY DEF PlainMode, CodecOf, Clone
<1>3. mode \in Modes /\ nsent \in 0..Len(mode.msgs)
  BY DEF MsgTypeOK
<1>4. mode.msgs \in Seq(Seq(Bytes))
  BY <1>1, <1>3, MsgAssumption DEF Framed, Proto
<1>5. Seq(Bytes) \subseteq Text
  BY BytesAreText
<1>6. mode.msgs \in Seq(Text)
  BY <1>4, <1>5, SeqMonotonic
<1>7. SubSeq(mode.msgs, 1, nsent) \in Seq(Text) /\ <<>> \in Seq(Text) /\ "svr" \in Sides
  BY <1>3, <1>6, PrefixFacts DEF Sides
<1>8. Src(x) \in Seq(Text) /\ got[x] \in Seq(Text)
  BY <1>7 DEF Src
<1> QED
  BY <1>1, <1>2, <1>3, <1>6, <1>8, LenProperties

\* Every message handed over is one its codec can frame.
LEMMA SourcesPlain ==
  ASSUME MsgTypeOK, PlainMode, got \in [Sides -> Seq(Text)], Delivered("svr"), NEW x \in Sides,
         NEW k \in 1..Len(Src(x))
  PROVE  Plain(Proto, Src(x)[k]) /\ Src(x)[k] \in Text
<1>1. "svr" \in Sides
  BY DEF Sides
<1>2. /\ mode.msgs \in Seq(Text) /\ nsent \in 0..Len(mode.msgs) /\ Len(mode.msgs) \in Nat
      /\ Src("svr") \in Seq(Text) /\ Src(x) \in Seq(Text)
      /\ Len(Src("svr")) \in Nat /\ Len(got["svr"]) \in Nat
  BY <1>1, Sources
<1>3. /\ Src("svr") = SubSeq(mode.msgs, 1, nsent) /\ Len(Src("svr")) = nsent
      /\ \A i \in 1..nsent : Src("svr")[i] = mode.msgs[i]
  BY <1>2, PrefixFacts DEF Src
<1>4. \A i \in 1..nsent : Plain(Proto, Src("svr")[i])
  <2>1. \A i \in 1..nsent : i \in 1..Len(mode.msgs)
    BY <1>2
  <2> QED
    BY <1>3, <2>1 DEF PlainMode
<1>5. Src(x)[k] \in Text
  BY <1>2, ElementOfSeq
<1>6. CASE x = "svr"
  BY <1>3, <1>4, <1>5, <1>6
<1>7. CASE x # "svr"
  <2>1. CASE mode.quiet
    <3>1. Src(x) = <<>> /\ Len(<<>>) = 0
      BY <1>7, <2>1 DEF Src
    <3> QED
      BY <3>1
  <2>2. CASE ~mode.quiet
    <3>1. Src(x) = got["svr"]
      BY <1>7, <2>2 DEF Src
    <3>2. got["svr"] = SubSeq(Src("svr"), 1, Len(got["svr"])) /\ Len(got["svr"]) \in 0..nsent
      BY <1>2, <1>3 DEF Delivered
    <3>3. \A i \in 1..Len(got["svr"]) : got["svr"][i] = Src("svr")[i]
      <4> DEFINE n == Len(got["svr"])
      <4>1. n \in 0..Len(Src("svr")) /\ got["svr"] = SubSeq(Src("svr"), 1, n)
        BY <1>3, <3>2
      <4> HIDE DEF n
      <4>2. \A i \in 1..n : got["svr"][i] = Src("svr")[i]
        BY <1>2, <4>1, PrefixFacts
      <4> QED
        BY <4>2 DEF n
    <3>4. k \in 1..nsent /\ Src(x)[k] = Src("svr")[k]
      <4>1. k \in 1..Len(got["svr"])
        BY <3>1
      <4>2. k \in 1..nsent
        BY <1>2, <3>2, <4>1
      <4> QED
        BY <3>1, <3>3, <4>1, <4>2
    <3> QED
      BY <1>4, <1>5, <3>4
  <2> QED
    BY <2>1, <2>2
<1> QED
  BY <1>6, <1>7

\* What is on its way to x behind its input.
Coming(x) == wire[x] \o Data(con[Peer(x)].out)

\* The input of x and what comes behind it begin with the first message x has
\* not been given; if it has been given all there are, nothing is on the way.
LEMMA NextMessage ==
  ASSUME MsgInv, PlainMode, ~reset, got \in [Sides -> Seq(Text)], NEW x \in Sides, Delivered(x)
  PROVE  /\ Data(con[x].in) \in Text /\ Coming(x) \in Text
         /\ Len(Data(con[x].in)) = Size(con[x].in)
         /\ Len(got[x]) = Len(Src(x)) => Data(con[x].in) = <<>> /\ Coming(x) = <<>>
         /\ Len(got[x]) < Len(Src(x)) =>
              \E rest \in Text :
                /\ Data(con[x].in) \o Coming(x) = Frame(Proto, Src(x)[Len(got[x]) + 1]) \o rest
                /\ rest = <<>> <=> Len(got[x]) + 1 = Len(Src(x))
<1> DEFINE data == Data(con[x].in)
           more == Coming(x)
           k == Len(got[x])
           all == handed[Peer(x)]
           out == Data(con[Peer(x)].out)
<1>1. /\ Proto \in Framings /\ Src(x) \in Seq(Text) /\ got[x] \in Seq(Text)
      /\ Len(Src(x)) \in Nat /\ k \in Nat
  BY Sources DEF MsgInv
<1>2. data \in Text /\ wire[x] \in Text /\ out \in Text /\ Len(data) = Size(con[x].in)
  <2>1. con[x] \in Conns /\ con[Peer(x)] \in Conns /\ wire[x] \in Text
    BY PeerFacts DEF MsgInv, MsgTypeOK
  <2> QED
    BY <2>1, ConnFields
<1>3. more \in Text
  BY <1>2, TextConcat DEF Coming
<1>4. SubSeq(all, taken[x] + 1, Len(all)) = data \o more
  <2>1. SubSeq(all, taken[x] + 1, Len(all)) = (data \o wire[x]) \o out
    BY DEF MsgInv, StreamIntact
  <2>2. (data \o wire[x]) \o out = data \o (wire[x] \o out)
    <3> HIDE DEF data, out
    <3> QED
      BY <1>2, TextAssociative
  <2> QED
    BY <2>1, <2>2 DEF Coming
<1>5. all = StreamOf(Proto, Src(x)) /\ taken[x] = Len(StreamOf(Proto, got[x])) /\ k <= Len(Src(x))
      /\ got[x] = SubSeq(Src(x), 1, k)
  BY DEF Delivered
<1>6. StreamOf(Proto, got[x]) \in Text
  BY <1>1, StreamText
<1> HIDE DEF data, more, all, k
<1>7. ASSUME k = Len(Src(x)) PROVE data = <<>> /\ more = <<>>
  <2>1. got[x] = Src(x)
    BY <1>1, <1>5, <1>7, AllOf
  <2>2. data \o more = <<>>
    BY <1>4, <1>5, <1>6, <2>1, DropAll
  <2>3. Len(data) = 0 /\ Len(more) = 0
    <3>1. Len(data) + Len(more) = Len(<<>>) /\ Len(data) \in Nat /\ Len(more) \in Nat
      BY <1>2, <1>3, <2>2, TextConcat
    <3> QED
      BY <3>1
  <2> QED
    BY <1>2, <1>3, <2>3, EmptySeq DEF Text
<1>8. ASSUME k < Len(Src(x))
      PROVE  \E rest \in Text : /\ data \o more = Frame(Proto, Src(x)[k + 1]) \o rest
                                /\ rest = <<>> <=> k + 1 = Len(Src(x))
  <2> DEFINE f == Frame(Proto, Src(x)[k + 1])
  <2>1. PICK rest \in Text : /\ StreamOf(Proto, Src(x)) = StreamOf(Proto, SubSeq(Src(x), 1, k)) \o (f \o rest)
                             /\ rest = <<>> <=> k + 1 = Len(Src(x))
    BY <1>1, <1>8, StreamAt
  <2>2. f \in Text
    <3>1. Src(x)[k + 1] \in Text
      <4>1. k + 1 \in 1..Len(Src(x))
        BY <1>1, <1>8
      <4> QED
        BY <1>1, <4>1, ElementOfSeq
    <3> QED
      BY <1>1, <3>1, FrameFacts
  <2> HIDE DEF f
  <2> DEFINE g == StreamOf(Proto, got[x])
             t == f \o rest
  <2>3. t \in Text /\ g \in Text
    BY <1>6, <2>2, TextConcat
  <2>4. all = g \o t /\ taken[x] = Len(g)
    BY <1>5, <2>1
  <2> HIDE DEF g, t
  <2>5. SubSeq(all, taken[x] + 1, Len(all)) = t
    BY <2>3, <2>4, DropFirst
  <2>6. data \o more = f \o rest
    BY <1>4, <2>5 DEF t
  <2> QED
    BY <2>1, <2>6, Zenon DEF f
<1> QED
  BY <1>2, <1>3, <1>7, <1>8, Zenon DEF data, more, k

\* The steps of one side that leave what has been delivered alone: only whether
\* the input of that side is settled can change.
LEMMA SettledStep ==
  ASSUME MsgTypeOK, NEW x \in Sides, NEW d, Becomes(x, d), mode' = mode,
         \A y \in Sides : Settled(y),
         d.state = "open" /\ d.loops = 0 => TryDecode(CodecOf(x), Data(d.in)).r = 0
  PROVE  \A y \in Sides : Settled(y)'
<1>1. con'[x] = d /\ \A y \in Sides : y # x => con'[y] = con[y]
  BY DEF MsgTypeOK, Becomes
<1>2. \A y \in Sides : CodecOf(y)' = CodecOf(y)
  BY DEF CodecOf, Proto
<1>3. Settled(x)'
  BY <1>1, <1>2 DEF Settled, Decoded
<1>4. ASSUME NEW y \in Sides, y # x PROVE Settled(y)'
  <2>1. Settled(y)
    OBVIOUS
  <2> QED
    BY <1>1, <1>2, <1>4, <2>1 DEF Settled, Decoded
<1> QED
  BY <1>3, <1>4

\* sendOutput touches neither the input nor the control fields.
LEMMA OutputKeeps ==
  ASSUME MsgTypeOK, NEW x \in Sides, NEW c \in Conns, NEW o \in Buffers
  PROVE  LET e == SentOutput(x, [c EXCEPT !.out = o])
         IN  e.in = c.in /\ e.state = c.state /\ e.loops = c.loops
<1> DEFINE d == [c EXCEPT !.out = o]
           n == Accepts(x, Data(d.out))
           b == Consume(d.out, n)
           w == d.wen \/ n < Size(d.out)
<1>1. SentOutput(x, d) = [d EXCEPT !.out = b, !.wen = w]
  BY DEF SentOutput
<1> HIDE DEF b, w
<1>2. LET e == [d EXCEPT !.out = b, !.wen = w]
      IN  e.in = c.in /\ e.state = c.state /\ e.loops = c.loops
  BY DEF Conns
<1> QED
  BY <1>1, <1>2

\* Whether a callback is running, and what is in the input, after each step.
LEMMA SettledNext ==
  ASSUME MsgInv, MsgTypeOK', PlainMode, ~reset', \A y \in Sides : Settled(y), [Next]_vars
  PROVE  \A y \in Sides : Settled(y)'
<1>1. /\ \A x \in Sides : con[x] \in Conns
      /\ MsgTypeOK /\ Framed /\ Proto # "raw" /\ Proto # "http"
  BY DEF MsgInv, MsgTypeOK, PlainMode, Framed
<1>2. ASSUME NEW x \in Sides, Step(x) PROVE \A y \in Sides : Settled(y)'
  <2> DEFINE c == con[x]
  <2>1. c \in Conns /\ c.in \in Buffers /\ c.out \in Buffers
    BY <1>1, ConnFields
  <2>3. CASE HandleRead(x)
    <3> DEFINE room == MakeSomeRoom(con[x].in)
    <3>1. PICK n \in 1..Min({Space(room), Len(wire[x])}) :
            /\ Becomes(x, [c EXCEPT !.in = Put(room, SubSeq(wire[x], 1, n)), !.state = "reading"])
            /\ wire' = [wire EXCEPT ![x] = SubSeq(@, n + 1, Len(@))]
      BY <2>3, Zenon DEF HandleRead
    <3>4. mode' = mode
      BY <2>3 DEF HandleRead
    <3> DEFINE i == Put(room, SubSeq(wire[x], 1, n))
               d == [c EXCEPT !.in = i, !.state = "reading"]
    <3> HIDE DEF i
    <3>2. d.state = "reading"
      BY <2>1 DEF Conns
    <3>3. Becomes(x, d)
      BY <3>1 DEF i
    <3> HIDE DEF d
    <3> QED
      BY <1>1, <3>2, <3>3, <3>4, SettledStep
  <2>4. CASE ReadAgain(x)
    <3> DEFINE i == MakeSomeRoom(c.in)
               d == [c EXCEPT !.in = i, !.state = "open", !.loops = 1]
    <3>1. Becomes(x, d) /\ mode' = mode
      BY <2>4 DEF ReadAgain
    <3> HIDE DEF i
    <3>2. d.loops = 1
      BY <2>1 DEF Conns
    <3> HIDE DEF d
    <3> QED
      BY <1>1, <3>1, <3>2, SettledStep
  <2>5. CASE HandleWrite(x)
    <3> DEFINE rest == Consume(c.out, Accepts(x, Data(c.out)))
               w == Size(rest) > 0
               d == [c EXCEPT !.out = rest, !.wen = w]
    <3>1. Becomes(x, d) /\ mode' = mode
      BY <2>5 DEF HandleWrite
    <3> HIDE DEF rest, w
    <3>2. d.in = c.in /\ d.state = c.state /\ d.loops = c.loops
      BY <2>1 DEF Conns
    <3> HIDE DEF d
    <3> QED
      BY <1>1, <3>1, <3>2, SettledStep DEF Settled, Decoded
  <2>6. CASE BeginCleanup(x)
    <3> DEFINE l == IF Size(c.in) > 0 THEN 1 ELSE 0
               d == [c EXCEPT !.state = "ending", !.loops = l]
    <3>1. Becomes(x, d) /\ mode' = mode
      BY <2>6 DEF BeginCleanup
    <3> HIDE DEF l
    <3>2. d.state = "ending"
      BY <2>1 DEF Conns
    <3> HIDE DEF d
    <3> QED
      BY <1>1, <3>1, <3>2, SettledStep
  <2>7. CASE EndCleanup(x)
    <3> DEFINE d == [c EXCEPT !.state = "closed", !.closing = FALSE]
    <3>1. Becomes(x, d) /\ mode' = mode
      BY <2>7 DEF EndCleanup
    <3>2. d.state = "closed"
      BY <2>1 DEF Conns
    <3> HIDE DEF d
    <3> QED
      BY <1>1, <3>1, <3>2, SettledStep
  <2>8. CASE LoopMsg(x)
    <3> DEFINE o == AppendAll(c.out, Encode(CodecOf(x), Decoded(x).msg))
               b == [c EXCEPT !.out = o]
               s == SentOutput(x, b)
               n == Decoded(x).r
    <3>1. c.loops > 0 /\ c.loops \in Nat
      BY <2>1, <2>8, ConnFields DEF LoopMsg, Decoding
    <3>2. /\ ~reset /\ mode' = mode
          /\ \/ Becomes(x, [s EXCEPT !.in = Consume(@, n)])
             \/ Becomes(x, [c EXCEPT !.in = Consume(@, n)])
      BY <2>8 DEF LoopMsg, SendFails
    <3>3. o \in Buffers
      <4>1. CodecOf(x) \in Framings /\ Data(c.in) \in Text
        BY <1>1, <2>1, ConnFields DEF CodecOf, Framed, Framings, Clone
      <4>2. Encode(CodecOf(x), Decoded(x).msg) \in Seq(Text)
        BY <4>1, DecodeFacts, EncodeFacts DEF Decoded
      <4> QED
        BY <2>1, <4>2, AppendAllFacts
    <3> HIDE DEF o, n
    <3>4. s \in Conns /\ s.loops = c.loops
      <4>1. b \in Conns
        BY <2>1, <3>3, OutFields
      <4>2. s \in Conns
        <5> HIDE DEF b
        <5> QED
          BY <1>1, <4>1, SentOutputFacts
      <4> QED
        BY <1>1, <2>1, <3>3, <4>2, OutputKeeps
    <3> HIDE DEF s
    <3>5. ASSUME NEW e \in Conns, e.loops = c.loops, Becomes(x, [e EXCEPT !.in = Consume(@, n)])
          PROVE  \A y \in Sides : Settled(y)'
      <4> DEFINE i == Consume(e.in, n)
                 d == [e EXCEPT !.in = i]
      <4>1. Becomes(x, d)
        BY <3>5
      <4> HIDE DEF i
      <4>2. d.loops = c.loops
        BY <3>5 DEF Conns
      <4> HIDE DEF d
      <4>3. d.loops # 0
        BY <3>1, <4>2
      <4> QED
        BY <1>1, <3>2, <4>1, <4>3, SettledStep
    <3> QED
      BY <2>1, <3>2, <3>4, <3>5
  <2>9. CASE LoopEnd(x)
    <3> DEFINE l == c.loops - 1
               d == [c EXCEPT !.loops = l]
    <3>1. Becomes(x, d) /\ mode' = mode /\ Decoded(x).r = 0
      BY <2>9 DEF LoopEnd
    <3> HIDE DEF l
    <3>2. d.in = c.in
      BY <2>1 DEF Conns
    <3> HIDE DEF d
    <3> QED
      BY <1>1, <3>1, <3>2, SettledStep DEF Decoded
  <2>10. CASE LoopError(x)
    <3> DEFINE d == [c EXCEPT !.loops = 0, !.state = "closed"]
    <3>1. Becomes(x, d) /\ mode' = mode
      BY <2>10 DEF LoopError
    <3>2. d.state = "closed"
      BY <2>1 DEF Conns
    <3> HIDE DEF d
    <3> QED
      BY <1>1, <3>1, <3>2, SettledStep
  <2>11. CASE HttpWait(x) \/ HttpError(x)
    BY <1>1, <2>11 DEF HttpWait, HttpError, Reading
  <2> QED
    BY <1>2, <2>3, <2>4, <2>5, <2>6, <2>7, <2>8, <2>9, <2>10, <2>11 DEF Step
<1>3. CASE SendMsg
  <2> DEFINE x == "cli"
             c == con[x]
             o == AppendAll(c.out, Encode(Proto, mode.msgs[nsent + 1]))
             e == SentOutput(x, [c EXCEPT !.out = o])
  <2>1. x \in Sides /\ c \in Conns /\ c.out \in Buffers
    BY <1>1, ConnFields DEF Sides
  <2>2. Becomes(x, e) /\ mode' = mode
    BY <1>3 DEF SendMsg
  <2>3. o \in Buffers
    <3>1. mode.msgs[nsent + 1] \in Text /\ Proto \in Framings
      BY <1>1, <1>3, FramedMessages DEF SendMsg, MaySend, Framed, Framings
    <3> QED
      BY <2>1, <3>1, EncodeFacts, AppendAllFacts
  <2> HIDE DEF o
  <2>4. e.in = c.in /\ e.state = c.state /\ e.loops = c.loops
    <3> HIDE DEF x, c
    <3> QED
      BY <1>1, <2>1, <2>3, OutputKeeps
  <2> HIDE DEF e, x
  <2>5. Settled(x)
    BY <2>1
  <2> QED
    BY <1>1, <2>1, <2>2, <2>4, <2>5, SettledStep DEF Settled, Decoded
<1>4. CASE ClientClose
  <2> DEFINE x == "cli"
             d == [con[x] EXCEPT !.state = "closed"]
  <2>1. x \in Sides /\ con[x] \in Conns
    BY <1>1 DEF Sides
  <2>2. Becomes(x, d) /\ mode' = mode
    BY <1>4 DEF ClientClose
  <2>3. d.state = "closed"
    BY <2>1 DEF Conns
  <2> HIDE DEF d, x
  <2> QED
    BY <1>1, <2>1, <2>2, <2>3, SettledStep
<1>5. CASE SendRaw \/ SendRequest \/ Callbacks \/ Reset
  BY <1>1, <1>5 DEF SendRaw, SendRequest, Callbacks, EchoRaw, TakeRaw, HttpRequestComes, HttpResponseComes,
                    Reading, Reset
<1>6. CASE UNCHANGED vars
  <2>1. con' = con /\ mode' = mode
    BY <1>6 DEF vars
  <2> QED
    BY <2>1 DEF Settled, Decoded, CodecOf, Proto
<1> QED
  BY <1>2, <1>3, <1>4, <1>5, <1>6 DEF Next, ClientSends

\* What each side has been given depends on the history variables alone.
LEMMA DeliveredStays ==
  ASSUME UNCHANGED <<mode, nsent, got, handed, taken>>, NEW x \in Sides, Delivered(x)
  PROVE  Delivered(x)'
BY DEF Delivered, Src, Proto

\* One message more at the end of what the client has handed over.
LEMMA SendMsgDelivered ==
  ASSUME MsgInv, PlainMode, ~reset, got \in [Sides -> Seq(Text)],
         Delivered("svr"), Delivered("cli"), SendMsg
  PROVE  Delivered("svr")' /\ Delivered("cli")'
<1> DEFINE s == Src("svr")
           m == mode.msgs[nsent + 1]
           k == Len(got["svr"])
<1>1. /\ "svr" \in Sides /\ "cli" \in Sides /\ Peer("svr") = "cli" /\ Peer("cli") = "svr"
      /\ MsgTypeOK /\ handed \in [Sides -> Text]
  BY DEF Sides, Peer, MsgInv, MsgTypeOK
<1>2. /\ Proto \in Framings /\ mode.msgs \in Seq(Text) /\ nsent \in 0..Len(mode.msgs)
      /\ Len(mode.msgs) \in Nat /\ s \in Seq(Text) /\ Len(s) \in Nat /\ k \in Nat
  BY <1>1, Sources
<1>3. /\ nsent < Len(mode.msgs) /\ nsent' = nsent + 1 /\ UNCHANGED <<mode, got, taken>>
      /\ handed' = [handed EXCEPT !["cli"] = @ \o Frame(Proto, m)]
  BY <1>1 DEF SendMsg, MaySend, Hand, Frame
<1>4. m \in Text /\ Src("svr")' = Append(s, m)
  <2>1. nsent \in Nat
    BY <1>2
  <2>2. m \in Text /\ SubSeq(mode.msgs, 1, nsent + 1) = Append(SubSeq(mode.msgs, 1, nsent), m)
    BY <1>2, <1>3, <2>1, OneMore
  <2> QED
    BY <1>3, <2>2 DEF Src
<1>5. /\ handed["cli"] = StreamOf(Proto, s) /\ k <= Len(s) /\ got["svr"] = SubSeq(s, 1, k)
      /\ taken["svr"] = Len(StreamOf(Proto, got["svr"]))
      /\ \A i \in 1..k : ~TooLong(Proto, got["svr"][i])
  BY <1>1 DEF Delivered
<1> HIDE DEF s, m, k
<1>6. /\ Len(Append(s, m)) = Len(s) + 1 /\ SubSeq(Append(s, m), 1, k) = SubSeq(s, 1, k)
      /\ StreamOf(Proto, Append(s, m)) = StreamOf(Proto, s) \o Frame(Proto, m)
  <2>1. k \in 0..Len(s)
    BY <1>2, <1>5
  <2>2. Len(Append(s, m)) = Len(s) + 1
    BY <1>2, <1>4, AppendProperties
  <2>3. SubSeq(Append(s, m), 1, k) = SubSeq(s, 1, k)
    BY <1>2, <1>4, <2>1, PrefixOfMore
  <2>4. StreamOf(Proto, Append(s, m)) = StreamOf(Proto, s) \o Frame(Proto, m)
    BY <1>2, <1>4, StreamAppend
  <2> QED
    BY <2>2, <2>3, <2>4
<1>7. handed'["cli"] = StreamOf(Proto, Append(s, m)) /\ handed'["svr"] = handed["svr"]
  BY <1>1, <1>3, <1>5, <1>6
<1>8. Proto' = Proto
  BY <1>3 DEF Proto
<1>9. Delivered("svr")'
  <2>1. (Len(got["svr"]) <= Len(Src("svr")))' /\ (got["svr"] = SubSeq(Src("svr"), 1, Len(got["svr"])))'
    <3>1. got' = got /\ Len(got["svr"]) = k
      BY <1>3 DEF k
    <3>2. k <= Len(Append(s, m)) /\ got["svr"] = SubSeq(Append(s, m), 1, k)
      BY <1>2, <1>5, <1>6
    <3> QED
      BY <1>4, <3>1, <3>2
  <2>2. (handed[Peer("svr")] = StreamOf(Proto, Src("svr")))'
    BY <1>1, <1>4, <1>7, <1>8
  <2>3. (taken["svr"] = Len(StreamOf(Proto, got["svr"])))'
    BY <1>3, <1>5, <1>8
  <2>4. (\A i \in 1..Len(got["svr"]) : ~TooLong(Proto, got["svr"][i]))'
    BY <1>3, <1>5, <1>8 DEF k, TooLong
  <2> QED
    BY <2>1, <2>2, <2>3, <2>4 DEF Delivered
<1>10. Delivered("cli")'
  <2>1. Src("cli")' = Src("cli")
    BY <1>3 DEF Src
  <2>2. (handed[Peer("cli")] = StreamOf(Proto, Src("cli")))'
    BY <1>1, <1>7, <1>8, <2>1 DEF Delivered
  <2> QED
    BY <1>3, <1>8, <2>1, <2>2 DEF Delivered, TooLong
<1> QED
  BY <1>9, <1>10

\* One message more that a side has been given: the next of those on the way.
LEMMA LoopMsgDelivered ==
  ASSUME MsgInv, PlainMode, ~reset, got \in [Sides -> Seq(Text)],
         Delivered("svr"), NEW x \in Sides, Delivered(x), Delivered(Peer(x)), LoopMsg(x)
  PROVE  got' \in [Sides -> Seq(Text)] /\ Delivered(x)' /\ Delivered(Peer(x))'
<1> DEFINE y == Peer(x)
           s == Src(x)
           k == Len(got[x])
           m == Src(x)[k + 1]
           data == Data(con[x].in)
           d == Decoded(x)
           f == Frame(Proto, m)
<1>1. /\ y \in Sides /\ y # x /\ Peer(y) = x /\ \A z \in Sides : z = x \/ z = y
      /\ MsgTypeOK /\ handed \in [Sides -> Text] /\ taken \in [Sides -> Nat]
  BY PeerFacts DEF MsgInv, MsgTypeOK
<1>2. /\ Proto \in Framings /\ CodecOf(x) = Proto /\ s \in Seq(Text) /\ Len(s) \in Nat
      /\ got[x] \in Seq(Text) /\ k \in Nat
  BY <1>1, Sources
<1>3. /\ d = TryDecode(Proto, data) /\ d.r > 0
      /\ got' = [got EXCEPT ![x] = Append(@, d.msg)]
      /\ taken' = [taken EXCEPT ![x] = @ + d.r]
      /\ UNCHANGED <<mode, nsent, reset>>
      /\ handed' = IF x = "svr" /\ ~mode.quiet
                   THEN [handed EXCEPT ![x] = @ \o FlattenSeq(Encode(Proto, d.msg))]
                   ELSE handed
  <2>1. d = TryDecode(Proto, data)
    BY <1>2 DEF Decoded
  <2>2. d.r > 0 /\ got' = [got EXCEPT ![x] = Append(@, d.msg)] /\ UNCHANGED <<mode, nsent, reset>>
    BY DEF LoopMsg, Deliver
  <2>3. taken' = [taken EXCEPT ![x] = @ + d.r]
    BY DEF LoopMsg, Took, SendFails
  <2>4. handed' = IF x = "svr" /\ ~mode.quiet
                  THEN [handed EXCEPT ![x] = @ \o FlattenSeq(Encode(Proto, d.msg))]
                  ELSE handed
    <3>1. CASE x = "svr" /\ ~mode.quiet
      <4>1. Hand(x, Encode(CodecOf(x), Decoded(x).msg))
        BY <3>1, Zenon DEF LoopMsg
      <4> QED
        BY <1>2, <3>1, <4>1 DEF Hand
    <3>2. CASE ~(x = "svr" /\ ~mode.quiet)
      <4>1. UNCHANGED handed
        BY <3>2, Zenon DEF LoopMsg
      <4> QED
        BY <3>2, <4>1
    <3> QED
      BY <3>1, <3>2
  <2> QED
    BY <2>1, <2>2, <2>3, <2>4
<1>4. /\ handed[y] = StreamOf(Proto, s) /\ k <= Len(s) /\ got[x] = SubSeq(s, 1, k)
      /\ taken[x] = Len(StreamOf(Proto, got[x]))
      /\ \A i \in 1..k : ~TooLong(Proto, got[x][i])
  BY <1>1 DEF Delivered
<1>5. /\ data \in Text /\ Coming(x) \in Text
      /\ k = Len(s) => data = <<>>
      /\ k < Len(s) => \E rest \in Text : data \o Coming(x) = f \o rest
  BY NextMessage
<1> HIDE DEF d, data, s, k
<1>6. k < Len(s)
  <2> SUFFICES ASSUME k = Len(s) PROVE FALSE
    BY <1>2, <1>4
  <2>1. d = TryDecode(Proto, <<>>)
    BY <1>3, <1>5
  <2>2. d.r = 0
    BY <1>2, <2>1, EmptyDecoded
  <2> QED
    BY <1>3, <2>2
<1>7. Plain(Proto, m) /\ m \in Text
  <2>1. k + 1 \in 1..Len(s)
    BY <1>2, <1>6
  <2> QED
    BY <1>1, <2>1, SourcesPlain DEF s
<1> HIDE DEF m, f
<1>8. d.r = Len(f) /\ d.msg = m /\ ~TooLong(Proto, m) /\ f \in Text /\ Len(f) \in Nat
  <2>1. PICK rest \in Text : data \o Coming(x) = Frame(Proto, m) \o rest
    BY <1>5, <1>6 DEF f
  <2>2. NextIs(Proto, m, data)
    <3>1. data \in Text /\ Coming(x) \in Text
      BY <1>5
    <3> QED
      BY <1>2, <1>7, <2>1, <3>1, NextDecoded
  <2>3. f \in Text
    BY <1>2, <1>7, FrameFacts DEF f
  <2>4. Len(f) \in Nat
    BY <2>3, LenProperties DEF Text
  <2> QED
    BY <1>3, <2>2, <2>3, <2>4 DEF NextIs, f
<1> DEFINE g == Append(got[x], m)
<1>9. /\ SubSeq(s, 1, k + 1) = g /\ g \in Seq(Text) /\ Len(g) = k + 1
      /\ g[k + 1] = m /\ \A i \in 1..k : g[i] = got[x][i]
  <2>1. SubSeq(s, 1, k + 1) = Append(SubSeq(s, 1, k), s[k + 1])
    BY <1>2, <1>6, OneMore
  <2>2. m = s[k + 1]
    BY DEF m, s
  <2>3. /\ g \in Seq(Text) /\ Len(g) = Len(got[x]) + 1 /\ g[Len(got[x]) + 1] = m
        /\ \A i \in 1..Len(got[x]) : g[i] = got[x][i]
    BY <1>2, <1>7, AppendProperties
  <2> QED
    BY <1>4, <2>1, <2>2, <2>3 DEF k
<1>10. StreamOf(Proto, g) = StreamOf(Proto, got[x]) \o f /\ Len(StreamOf(Proto, g)) = taken[x] + Len(f)
  <2>1. StreamOf(Proto, g) = StreamOf(Proto, got[x]) \o f /\ StreamOf(Proto, got[x]) \in Text
    BY <1>2, <1>7, StreamAppend DEF f
  <2> HIDE DEF g
  <2> DEFINE a == StreamOf(Proto, got[x])
  <2>2. Len(a \o f) = Len(a) + Len(f)
    <3>1. a \in Text
      BY <2>1
    <3> HIDE DEF a
    <3> QED
      BY <1>8, <3>1, TextConcat
  <2> QED
    BY <1>4, <2>1, <2>2
<1> HIDE DEF g
<1>11. /\ got' \in [Sides -> Seq(Text)] /\ got'[x] = g /\ got'[y] = got[y]
       /\ taken'[x] = taken[x] + Len(f) /\ taken'[y] = taken[y]
       /\ handed'[y] = handed[y] /\ Proto' = Proto
  <2>1. got' = [got EXCEPT ![x] = g]
    BY <1>3, <1>8 DEF g
  <2>2. got' \in [Sides -> Seq(Text)] /\ got'[x] = g /\ got'[y] = got[y]
    BY <1>1, <1>9, <2>1
  <2>3. taken'[x] = taken[x] + Len(f) /\ taken'[y] = taken[y]
    BY <1>1, <1>3, <1>8
  <2>4. handed'[y] = handed[y]
    BY <1>1, <1>3
  <2> QED
    BY <1>3, <2>2, <2>3, <2>4 DEF Proto
<1>12. Delivered(x)'
  <2>1. Src(x)' = s
    BY <1>1, <1>3, <1>11, PeerFacts DEF Src, s, Sides, Peer
  <2>2. (handed[Peer(x)] = StreamOf(Proto, Src(x)))'
    BY <1>4, <1>11, <2>1
  <2>3. (Len(got[x]) <= Len(Src(x)))' /\ (got[x] = SubSeq(Src(x), 1, Len(got[x])))'
    BY <1>2, <1>6, <1>9, <1>11, <2>1
  <2>4. (taken[x] = Len(StreamOf(Proto, got[x])))'
    BY <1>10, <1>11
  <2>5. (\A i \in 1..Len(got[x]) : ~TooLong(Proto, got[x][i]))'
    <3>1. \A i \in 1..k + 1 : ~TooLong(Proto, g[i])
      <4> SUFFICES ASSUME NEW i \in 1..k + 1 PROVE ~TooLong(Proto, g[i])
        OBVIOUS
      <4>1. CASE i = k + 1
        BY <1>8, <1>9, <4>1
      <4>2. CASE i # k + 1
        <5>1. i \in 1..k
          BY <1>2, <4>2
        <5> QED
          BY <1>4, <1>9, <5>1
      <4> QED
        BY <4>1, <4>2
    <3> QED
      BY <1>9, <1>11, <3>1 DEF TooLong
  <2> QED
    BY <2>2, <2>3, <2>4, <2>5 DEF Delivered
<1>13. Delivered(y)'
  <2> DEFINE t == Src(y)
             j == Len(got[y])
  <2>1. t \in Seq(Text) /\ Len(t) \in Nat /\ j \in Nat
    BY <1>1, Sources
  <2>2. /\ handed[x] = StreamOf(Proto, t) /\ j <= Len(t) /\ got[y] = SubSeq(t, 1, j)
        /\ taken[y] = Len(StreamOf(Proto, got[y]))
        /\ \A i \in 1..j : ~TooLong(Proto, got[y][i])
    BY <1>1 DEF Delivered
  <2> HIDE DEF t, j
  <2>3. /\ handed'[x] = StreamOf(Proto, Src(y)') /\ j <= Len(Src(y)')
        /\ got[y] = SubSeq(Src(y)', 1, j)
    <3>1. CASE x = "svr" /\ ~mode.quiet
      <4>1. y # "svr"
        BY <1>1, <3>1
      <4>2. t = got[x] /\ Src(y)' = g
        BY <1>3, <1>11, <3>1, <4>1 DEF Src, t
      <4>3. handed'[x] = handed[x] \o f
        BY <1>1, <1>3, <1>8, <3>1 DEF f, Frame
      <4>4. SubSeq(g, 1, j) = SubSeq(got[x], 1, j)
        <5>1. j \in 0..Len(got[x])
          BY <2>1, <2>2, <4>2
        <5> QED
          BY <1>2, <1>7, <5>1, PrefixOfMore DEF g
      <4>5. j <= Len(g)
        BY <1>9, <2>1, <2>2, <4>2 DEF k
      <4> QED
        BY <1>10, <2>2, <4>2, <4>3, <4>4, <4>5
    <3>2. CASE ~(x = "svr" /\ ~mode.quiet)
      <4>1. handed' = handed
        BY <1>3, <3>2
      <4>2. Src(y)' = t
        <5>1. y = "svr" \/ mode.quiet
          BY <1>1, <3>2 DEF Sides, Peer
        <5> QED
          BY <1>3, <5>1 DEF Src, t
      <4> QED
        BY <2>2, <4>1, <4>2
    <3> QED
      BY <3>1, <3>2
  <2>4. (\A i \in 1..Len(got[y]) : ~TooLong(Proto, got[y][i]))'
    BY <1>11, <2>2 DEF TooLong, j
  <2>5. handed'[Peer(y)] = StreamOf(Proto, Src(y)') /\ Len(got'[y]) <= Len(Src(y)')
        /\ got'[y] = SubSeq(Src(y)', 1, Len(got'[y]))
    BY <1>1, <1>11, <2>3 DEF j
  <2>6. taken'[y] = Len(StreamOf(Proto, got'[y]))
    BY <1>11, <2>2
  <2> QED
    BY <1>11, <2>4, <2>5, <2>6 DEF Delivered
<1> QED
  BY <1>11, <1>12, <1>13

\* Nothing has been sent.
LEMMA FrameInit == Init => FrameInv
<1> SUFFICES ASSUME Init, PlainMode PROVE got \in [Sides -> Seq(Text)] /\ \A x \in Sides : Delivered(x) /\ Settled(x)
  BY DEF FrameInv
<1>1. MsgTypeOK
  BY MsgInit DEF MsgInv
<1>2. got \in [Sides -> Seq(Text)]
  BY DEF Init
<1> SUFFICES ASSUME NEW x \in Sides PROVE Delivered(x) /\ Settled(x)
  BY <1>2
<1>3. /\ Peer(x) \in Sides /\ got[x] = <<>> /\ handed[Peer(x)] = <<>> /\ taken[x] = 0
      /\ got["svr"] = <<>> /\ nsent = 0
      /\ con[x].in = NewBuffer(Suggest)
  BY PeerFacts DEF Init, Sides
<1>4. Proto \in Framings /\ CodecOf(x) = Proto /\ mode.msgs \in Seq(Text) /\ Len(mode.msgs) \in Nat
  BY <1>1, <1>2, Sources
<1>5. Src(x) = <<>>
  <2>1. SubSeq(mode.msgs, 1, 0) = <<>>
    BY SubSeqEmpty
  <2> QED
    BY <1>3, <2>1 DEF Src
<1>6. StreamOf(Proto, <<>>) = <<>> /\ Len(<<>>) = 0 /\ SubSeq(<<>>, 1, 0) = <<>>
  BY StreamEmpty, SubSeqEmpty
<1>7. Delivered(x)
  <2>1. handed[Peer(x)] = StreamOf(Proto, Src(x)) /\ taken[x] = Len(StreamOf(Proto, got[x]))
    BY <1>3, <1>5, <1>6
  <2>2. Len(got[x]) <= Len(Src(x)) /\ got[x] = SubSeq(Src(x), 1, Len(got[x]))
    BY <1>3, <1>5, <1>6
  <2>3. \A i \in 1..Len(got[x]) : ~TooLong(Proto, got[x][i])
    BY <1>3, <1>6
  <2> QED
    BY <2>1, <2>2, <2>3 DEF Delivered
<1>8. Settled(x)
  <2>1. Data(con[x].in) = <<>>
    BY <1>3, NewBufferFacts
  <2>2. Decoded(x).r = 0
    BY <1>4, <2>1, EmptyDecoded DEF Decoded
  <2> QED
    BY <2>2 DEF Settled
<1> QED
  BY <1>7, <1>8

\* Only sendMsg and the loop of onMsg touch what has been handed over and given.
LEMMA FrameNext == MsgInv /\ FrameInv /\ [Next]_vars => FrameInv'
<1> SUFFICES ASSUME MsgInv, FrameInv, [Next]_vars, PlainMode', ~reset'
             PROVE  (got \in [Sides -> Seq(Text)] /\ \A x \in Sides : Delivered(x) /\ Settled(x))'
  BY DEF FrameInv
<1>1. mode' = mode /\ ~reset
  <2>1. ASSUME NEW x \in Sides, Step(x) PROVE mode' = mode /\ reset' = reset
    <3>1. CASE ReadAgain(x) \/ HandleWrite(x)
      BY <3>1 DEF ReadAgain, HandleWrite
    <3>2. CASE BeginCleanup(x) \/ EndCleanup(x) \/ LoopEnd(x) \/ LoopError(x)
      BY <3>2 DEF BeginCleanup, EndCleanup, LoopEnd, LoopError
    <3>3. CASE LoopMsg(x)
      BY <3>3 DEF LoopMsg
    <3>4. CASE HttpWait(x) \/ HttpError(x)
      BY <3>4 DEF HttpWait, HttpError
    <3>5. CASE HandleRead(x)
      BY <3>5, Zenon DEF HandleRead
    <3> QED
      BY <2>1, <3>1, <3>2, <3>3, <3>4, <3>5 DEF Step
  <2>2. CASE ClientSends
    BY <2>2 DEF ClientSends, SendMsg, SendRaw, SendRequest
  <2>3. CASE Callbacks
    <3>1. CASE EchoRaw
      BY <3>1, Zenon DEF EchoRaw
    <3>2. CASE TakeRaw
      BY <3>2, Zenon DEF TakeRaw
    <3>3. CASE HttpRequestComes
      BY <3>3, Zenon DEF HttpRequestComes
    <3>4. CASE HttpResponseComes
      BY <3>4, Zenon DEF HttpResponseComes
    <3> QED
      BY <2>3, <3>1, <3>2, <3>3, <3>4 DEF Callbacks
  <2>4. CASE ClientClose
    BY <2>4 DEF ClientClose
  <2>5. CASE Reset
    BY <2>5 DEF Reset
  <2>6. CASE UNCHANGED vars
    BY <2>6 DEF vars
  <2> QED
    BY <2>1, <2>2, <2>3, <2>4, <2>5, <2>6 DEF Next
<1>2. PlainMode
  BY <1>1 DEF PlainMode, Framed, Proto
<1>3. got \in [Sides -> Seq(Text)] /\ \A x \in Sides : Delivered(x) /\ Settled(x)
  BY <1>1, <1>2 DEF FrameInv
<1>4. "svr" \in Sides /\ "cli" \in Sides /\ Peer("svr") = "cli" /\ Peer("cli") = "svr"
      /\ \A x \in Sides : x = "svr" \/ x = "cli"
  BY DEF Sides, Peer
<1>5. \A x \in Sides : Settled(x)'
  <2>1. MsgTypeOK'
    BY MsgNext DEF MsgInv
  <2> QED
    BY <1>2, <1>3, <2>1, SettledNext
<1>6. got' \in [Sides -> Seq(Text)] /\ \A x \in Sides : Delivered(x)'
  <2>1. CASE SendMsg
    <3>1. got' = got
      BY <2>1 DEF SendMsg
    <3> QED
      BY <1>1, <1>2, <1>3, <1>4, <2>1, <3>1, SendMsgDelivered
  <2>2. ASSUME NEW x \in Sides, LoopMsg(x) PROVE got' \in [Sides -> Seq(Text)] /\ \A z \in Sides : Delivered(z)'
    <3>1. Peer(x) \in Sides /\ \A z \in Sides : z = x \/ z = Peer(x)
      BY PeerFacts
    <3>2. got' \in [Sides -> Seq(Text)] /\ Delivered(x)' /\ Delivered(Peer(x))'
      BY <1>1, <1>2, <1>3, <1>4, <2>2, <3>1, LoopMsgDelivered
    <3> QED
      BY <3>1, <3>2
  <2>3. ASSUME UNCHANGED <<mode, nsent, got, handed, taken>>
        PROVE  got' \in [Sides -> Seq(Text)] /\ \A z \in Sides : Delivered(z)'
    BY <1>3, <2>3, DeliveredStays
  <2>4. ASSUME NEW x \in Sides, Step(x) PROVE LoopMsg(x) \/ UNCHANGED <<mode, nsent, got, handed, taken>>
    <3>1. CASE ReadAgain(x) \/ HandleWrite(x)
      BY <3>1 DEF ReadAgain, HandleWrite
    <3>2. CASE BeginCleanup(x) \/ EndCleanup(x) \/ LoopEnd(x) \/ LoopError(x)
      BY <3>2 DEF BeginCleanup, EndCleanup, LoopEnd, LoopError
    <3>3. CASE HttpWait(x) \/ HttpError(x)
      BY <3>3 DEF HttpWait, HttpError
    <3>4. CASE HandleRead(x)
      BY <3>4, Zenon DEF HandleRead
    <3> QED
      BY <2>4, <3>1, <3>2, <3>3, <3>4 DEF Step
  <2>5. CASE SendRaw \/ SendRequest \/ Callbacks \/ Reset
    BY <1>1, <1>2, <2>5 DEF PlainMode, Framed, SendRaw, SendRequest, Callbacks, EchoRaw, TakeRaw,
                            HttpRequestComes, HttpResponseComes, Reading, Reset
  <2>6. CASE ClientClose
    BY <2>3, <2>6 DEF ClientClose
  <2>7. CASE UNCHANGED vars
    BY <2>3, <2>7 DEF vars
  <2> QED
    BY <2>1, <2>2, <2>3, <2>4, <2>5, <2>6, <2>7 DEF Next, ClientSends
<1> QED
  BY <1>5, <1>6

\* Both invariants together.
LEMMA FramesStay == Spec => [](MsgInv /\ FrameInv)
<1>1. Init => MsgInv /\ FrameInv
  BY MsgInit, FrameInit
<1>2. MsgInv /\ FrameInv /\ [Next]_vars => MsgInv' /\ FrameInv'
  BY MsgNext, FrameNext
<1> QED
  BY <1>1, <1>2, PTL DEF Spec

-----------------------------------------------------------------------------
(* The theorems about frames.                                               *)

\* A prefix as IsPrefix has it.
LEMMA PrefixIs ==
  ASSUME NEW S, NEW s \in Seq(S), NEW t, Len(s) <= Len(t), s = SubSeq(t, 1, Len(s))
  PROVE  IsPrefix(s, t)
<1>1. SubSeq(s, 1, Len(s)) = s
  BY AllOf
<1> QED
  BY <1>1 DEF IsPrefix

\* A number that is in the set and that nothing in it exceeds.
LEMMA MaxIs ==
  ASSUME NEW T, T \subseteq Nat, NEW g \in T, \A k \in T : k <= g
  PROVE  Max(T) = g
<1>1. \A y \in T : g >= y
  OBVIOUS
<1>2. Max(T) \in T /\ \A y \in T : Max(T) >= y
  BY <1>1 DEF Max
<1>3. Max(T) \in Nat /\ g \in Nat /\ Max(T) >= g /\ g >= Max(T)
  BY <1>1, <1>2
<1> QED
  BY <1>3

\* What the client sends for a list of messages.
LEMMA SentIs ==
  ASSUME PlainMode, NEW s
  PROVE  Sent(s) = StreamOf(Proto, s)
<1>1. Framed /\ CodecOf("cli") = Proto /\ Proto # "raw" /\ Proto # "http"
  BY DEF PlainMode, CodecOf, Framed
<1>2. \A m : Flat(Pieces("cli", m)) = Frame(Proto, m)
  <2>1. \A m : Pieces("cli", m) = Encode(Proto, m)
    BY <1>1, Zenon DEF Pieces
  <2> QED
    BY <2>1 DEF Flat, Frame
<1> QED
  BY <1>2 DEF Sent, StreamOf

\* With one message more the stream is longer by a frame, with several more at
\* least by that.
LEMMA StreamGrows ==
  ASSUME NEW codec \in Framings, NEW s \in Seq(Text), NEW k \in 0..Len(s), NEW j \in Nat, j < k
  PROVE  /\ Len(StreamOf(codec, SubSeq(s, 1, k))) \in Nat
         /\ Len(StreamOf(codec, SubSeq(s, 1, j))) \in Nat
         /\ Len(Frame(codec, s[j + 1])) \in Nat
         /\ Len(StreamOf(codec, SubSeq(s, 1, k)))
              >= Len(StreamOf(codec, SubSeq(s, 1, j))) + Len(Frame(codec, s[j + 1]))
<1> DEFINE t == SubSeq(s, 1, k)
           u == SubSeq(s, 1, j)
           f == Frame(codec, s[j + 1])
<1>1. Len(s) \in Nat /\ j \in 0..k /\ j \in 0..Len(s) /\ j + 1 \in 1..k
  BY LenProperties
<1>2. t \in Seq(Text) /\ Len(t) = k /\ t[j + 1] = s[j + 1] /\ SubSeq(t, 1, j) = u
  BY <1>1, PrefixFacts
<1>3. u \in Seq(Text)
  BY <1>1, PrefixFacts
<1>4. t[j + 1] \in Text
  BY <1>1, <1>2, ElementOfSeq
<1>5. f \in Text
  BY <1>2, <1>4, FrameFacts
<1> DEFINE b == StreamOf(codec, u)
<1>6. b \in Text
  BY <1>3, StreamText
<1>7. PICK rest \in Text : StreamOf(codec, t) = b \o (f \o rest)
  <2> HIDE DEF t, u
  <2>1. j < Len(t)
    BY <1>2
  <2>2. \E rest \in Text : StreamOf(codec, t) = StreamOf(codec, SubSeq(t, 1, j)) \o (Frame(codec, t[j + 1]) \o rest)
    BY <1>2, <2>1, StreamAt
  <2> QED
    BY <1>2, <2>2
<1> HIDE DEF t, u, f, b
<1> DEFINE w == f \o rest
<1>8. w \in Text /\ Len(w) = Len(f) + Len(rest) /\ Len(f) \in Nat /\ Len(rest) \in Nat
  BY <1>5, TextConcat
<1> HIDE DEF w
<1>9. Len(b \o w) = Len(b) + Len(w) /\ Len(b) \in Nat /\ Len(w) \in Nat
  BY <1>6, <1>8, TextConcat
<1>10. StreamOf(codec, t) = b \o w
  BY <1>7 DEF w
<1>11. Len(StreamOf(codec, t)) \in Nat /\ Len(StreamOf(codec, t)) >= Len(b) + Len(f)
  BY <1>8, <1>9, <1>10
<1> QED
  BY <1>8, <1>9, <1>11 DEF t, u, f, b

\* The messages of the list that the server has been given.
LEMMA GivenToServer ==
  ASSUME MsgTypeOK, PlainMode, got \in [Sides -> Seq(Text)], Delivered("svr")
  PROVE  /\ Len(got["svr"]) \in 0..nsent /\ Len(got["svr"]) \in 0..Len(mode.msgs)
         /\ got["svr"] = SubSeq(mode.msgs, 1, Len(got["svr"]))
         /\ Len(Src("svr")) = nsent
         /\ \A i \in 1..nsent : Src("svr")[i] = mode.msgs[i]
<1> DEFINE g == Len(got["svr"])
<1>1. /\ "svr" \in Sides /\ mode.msgs \in Seq(Text) /\ nsent \in 0..Len(mode.msgs)
      /\ Len(mode.msgs) \in Nat /\ g \in Nat
  BY Sources DEF Sides
<1>2. Src("svr") = SubSeq(mode.msgs, 1, nsent)
  BY DEF Src
<1>3. /\ Len(Src("svr")) = nsent
      /\ \A i \in 1..nsent : Src("svr")[i] = mode.msgs[i]
      /\ \A k \in 0..nsent : SubSeq(Src("svr"), 1, k) = SubSeq(mode.msgs, 1, k)
  BY <1>1, <1>2, PrefixFacts
<1>4. g <= Len(Src("svr")) /\ got["svr"] = SubSeq(Src("svr"), 1, g)
  BY DEF Delivered
<1> HIDE DEF g
<1>5. g \in 0..nsent /\ g \in 0..Len(mode.msgs)
  BY <1>1, <1>3, <1>4
<1>6. got["svr"] = SubSeq(mode.msgs, 1, g)
  BY <1>3, <1>4, <1>5
<1> QED
  BY <1>3, <1>5, <1>6 DEF g

\* How many messages have arrived whole, if nothing in the input can be decoded.
LEMMA WholeIs ==
  ASSUME MsgInv, PlainMode, ~reset, got \in [Sides -> Seq(Text)],
         Delivered("svr"), Decoded("svr").r = 0
  PROVE  /\ Held("svr") => Len(got["svr"]) + 1 \in 0..Len(mode.msgs)
         /\ Whole(taken["svr"] + Size(con["svr"].in))
              = IF Held("svr") THEN Len(got["svr"]) + 1 ELSE Len(got["svr"])
<1> DEFINE g == Len(got["svr"])
           n == taken["svr"] + Size(con["svr"].in)
           msgs == mode.msgs
           len(k) == Len(StreamOf(Proto, SubSeq(mode.msgs, 1, k)))
           T == {k \in 0..Len(mode.msgs) :
                   /\ Len(Sent(SubSeq(mode.msgs, 1, k))) <= n
                   /\ \A i \in 1..k : ~Rejected(mode.msgs[i])}
           data == Data(con["svr"].in)
<1>1. /\ "svr" \in Sides /\ Proto \in Framings /\ msgs \in Seq(Text) /\ nsent \in 0..Len(msgs)
      /\ Len(msgs) \in Nat /\ g \in Nat /\ CodecOf("svr") = Proto
  BY Sources DEF Sides, MsgInv
<1>2. /\ g \in 0..nsent /\ g \in 0..Len(msgs) /\ got["svr"] = SubSeq(msgs, 1, g)
      /\ Len(Src("svr")) = nsent /\ \A i \in 1..nsent : Src("svr")[i] = msgs[i]
  BY GivenToServer DEF MsgInv
<1>3. /\ taken["svr"] = len(g)
      /\ \A i \in 1..g : ~TooLong(Proto, msgs[i])
  <2>1. taken["svr"] = Len(StreamOf(Proto, got["svr"])) /\ \A i \in 1..g : ~TooLong(Proto, got["svr"][i])
    BY DEF Delivered
  <2>2. \A i \in 1..g : got["svr"][i] = msgs[i]
    BY <1>1, <1>2, PrefixFacts
  <2> QED
    BY <1>2, <2>1, <2>2
<1>4. \A m : Rejected(m) <=> TooLong(Proto, m)
  BY <1>1 DEF Rejected, TooLong, Framings
<1>5. \A k : Sent(SubSeq(msgs, 1, k)) = StreamOf(Proto, SubSeq(msgs, 1, k))
  BY SentIs
<1>6. T = {k \in 0..Len(msgs) : len(k) <= n /\ \A i \in 1..k : ~TooLong(Proto, msgs[i])}
  BY <1>4, <1>5
<1>7. Whole(n) = Max(T)
  BY DEF Whole
<1>8. /\ data \in Text /\ Coming("svr") \in Text /\ Len(data) = Size(con["svr"].in) /\ Len(data) \in Nat
      /\ g = nsent => data = <<>>
      /\ g < nsent => \E rest \in Text : data \o Coming("svr") = Frame(Proto, Src("svr")[g + 1]) \o rest
  <2>1. /\ data \in Text /\ Coming("svr") \in Text /\ Len(data) = Size(con["svr"].in)
        /\ Len(got["svr"]) = Len(Src("svr")) => data = <<>>
        /\ Len(got["svr"]) < Len(Src("svr")) =>
             \E rest \in Text : data \o Coming("svr") = Frame(Proto, Src("svr")[Len(got["svr"]) + 1]) \o rest
    <3> HIDE DEF data
    <3> QED
      BY <1>1, NextMessage, Zenon DEF data
  <2> QED
    BY <1>2, <2>1, LenProperties DEF Text
<1>9. \A k \in 0..Len(msgs), j \in Nat : j < k =>
        /\ len(k) \in Nat /\ len(j) \in Nat /\ Len(Frame(Proto, msgs[j + 1])) \in Nat
        /\ len(k) >= len(j) + Len(Frame(Proto, msgs[j + 1]))
  BY <1>1, StreamGrows
<1>10. \A i \in 1..Len(msgs) : msgs[i] \in Text /\ Plain(Proto, msgs[i])
                               /\ Len(Frame(Proto, msgs[i])) \in Nat /\ Len(Frame(Proto, msgs[i])) >= 2
  <2> SUFFICES ASSUME NEW i \in 1..Len(msgs)
               PROVE  msgs[i] \in Text /\ Plain(Proto, msgs[i])
                      /\ Len(Frame(Proto, msgs[i])) \in Nat /\ Len(Frame(Proto, msgs[i])) >= 2
    OBVIOUS
  <2>1. msgs[i] \in Text
    BY <1>1, ElementOfSeq
  <2>2. Len(Frame(Proto, msgs[i])) = Len(msgs[i]) + 2 /\ Len(msgs[i]) \in Nat
    BY <1>1, <2>1, FrameFacts
  <2>3. Plain(Proto, msgs[i])
    BY DEF PlainMode
  <2> QED
    BY <2>1, <2>2, <2>3
<1>11. len(g) \in Nat /\ n \in Nat /\ n = len(g) + Len(data)
  <2>1. StreamOf(Proto, SubSeq(msgs, 1, g)) \in Text
    BY <1>1, <1>2, PrefixFacts, StreamText
  <2>2. len(g) \in Nat
    BY <2>1, LenProperties DEF Text
  <2> QED
    BY <1>3, <1>8, <2>2
<1> HIDE DEF T, data, len, n, g
<1>12. CASE Held("svr")
  <2>1. Proto = "bracket" /\ HeldData(Proto, data) /\ data # <<>>
    BY <1>12 DEF Held, HeldData, data
  <2>2. g < nsent /\ g + 1 \in 1..nsent /\ g + 1 \in 1..Len(msgs)
    BY <1>1, <1>2, <1>8, <2>1
  <2>3. Src("svr")[g + 1] = msgs[g + 1] /\ msgs[g + 1] \in Text /\ Plain(Proto, msgs[g + 1])
    BY <1>2, <1>10, <2>2
  <2>4. PICK rest \in Text : data \o Coming("svr") = Frame(Proto, msgs[g + 1]) \o rest
    BY <1>8, <2>2, <2>3
  <2>5. Len(data) = 2 /\ Len(Frame(Proto, msgs[g + 1])) = 2
    <3> DEFINE more == Coming("svr")
               m == msgs[g + 1]
    <3>1. /\ Proto \in Framings /\ m \in Text /\ Plain(Proto, m) /\ data \in Text /\ more \in Text
          /\ data \o more = Frame(Proto, m) \o rest /\ HeldData(Proto, data)
      BY <1>1, <1>8, <2>1, <2>3, <2>4
    <3> HIDE DEF m, more
    <3>2. Len(data) = 2 /\ Len(Frame(Proto, m)) = 2
      BY <3>1, HeldIsEmpty, Zenon
    <3> QED
      BY <3>2 DEF m
  <2>6. len(g + 1) = len(g) + 2
    <3> DEFINE p == SubSeq(msgs, 1, g)
               f == Frame(Proto, msgs[g + 1])
    <3>1. g < Len(msgs)
      BY <1>1, <2>2
    <3>2. p \in Seq(Text) /\ SubSeq(msgs, 1, g + 1) = Append(p, msgs[g + 1])
      BY <1>1, <3>1, OneMore
    <3>3. f \in Text
      BY <1>1, <2>3, FrameFacts
    <3> HIDE DEF p
    <3>4. StreamOf(Proto, p) \in Text /\ StreamOf(Proto, Append(p, msgs[g + 1])) = StreamOf(Proto, p) \o f
      BY <1>1, <2>3, <3>2, StreamAppend
    <3>5. Len(StreamOf(Proto, p) \o f) = Len(StreamOf(Proto, p)) + Len(f)
      <4> DEFINE q == StreamOf(Proto, p)
      <4> HIDE DEF q, f
      <4>1. q \in Text
        BY <3>4 DEF q
      <4>2. Len(q \o f) = Len(q) + Len(f)
        BY <3>3, <4>1, TextConcat
      <4> QED
        BY <4>2 DEF q
    <3> QED
      BY <2>5, <3>2, <3>4, <3>5 DEF len, p
  <2>7. g + 1 \in T
    <3>1. g + 1 \in 0..Len(msgs) /\ len(g + 1) <= n
      BY <1>1, <1>11, <2>2, <2>5, <2>6
    <3>2. \A i \in 1..g + 1 : ~TooLong(Proto, msgs[i])
      BY <2>1 DEF TooLong
    <3> QED
      BY <1>6, <3>1, <3>2
  <2>8. \A k \in T : k <= g + 1
    <3> SUFFICES ASSUME NEW k \in T, ~(k <= g + 1) PROVE FALSE
      OBVIOUS
    <3>1. k \in 0..Len(msgs) /\ len(k) <= n /\ g + 1 \in Nat /\ g + 1 < k
      BY <1>1, <1>6
    <3>2. /\ len(k) \in Nat /\ Len(Frame(Proto, msgs[(g + 1) + 1])) \in Nat
          /\ len(k) >= len(g + 1) + Len(Frame(Proto, msgs[(g + 1) + 1]))
      BY <1>9, <3>1
    <3>3. Len(Frame(Proto, msgs[(g + 1) + 1])) >= 2
      <4>1. (g + 1) + 1 \in 1..Len(msgs)
        BY <1>1, <3>1
      <4> QED
        BY <1>10, <4>1
    <3> QED
      BY <1>11, <2>5, <2>6, <3>1, <3>2, <3>3
  <2>9. T \subseteq Nat
    BY <1>6
  <2>10. Max(T) = g + 1
    BY <2>7, <2>8, <2>9, MaxIs
  <2> QED
    BY <1>7, <1>12, <2>2, <2>10 DEF n, g, msgs
<1>13. CASE ~Held("svr")
  <2>1. g \in T
    <3>1. len(g) <= n
      BY <1>8, <1>11
    <3> QED
      BY <1>2, <1>3, <1>6, <3>1
  <2>2. \A k \in T : k <= g
    <3> SUFFICES ASSUME NEW k \in T, ~(k <= g) PROVE FALSE
      OBVIOUS
    <3>1. k \in 0..Len(msgs) /\ len(k) <= n /\ g < k /\ g + 1 \in 1..Len(msgs)
      BY <1>1, <1>6
    <3>2. /\ len(k) \in Nat /\ Len(Frame(Proto, msgs[g + 1])) \in Nat
          /\ len(k) >= len(g) + Len(Frame(Proto, msgs[g + 1]))
      BY <1>1, <1>9, <3>1
    <3>3. Len(data) < Len(Frame(Proto, msgs[g + 1]))
      <4>1. CASE g < nsent
        <5>1. /\ Src("svr")[g + 1] = msgs[g + 1] /\ msgs[g + 1] \in Text /\ Plain(Proto, msgs[g + 1])
          <6>1. g + 1 \in 1..nsent
            BY <1>1, <4>1
          <6> QED
            BY <1>2, <1>10, <3>1, <6>1
        <5>2. PICK rest \in Text : data \o Coming("svr") = Frame(Proto, msgs[g + 1]) \o rest
          BY <1>8, <4>1, <5>1
        <5>3. NextIs(Proto, msgs[g + 1], data)
          BY <1>1, <1>8, <5>1, <5>2, NextDecoded
        <5>4. TryDecode(Proto, data).r = 0
          BY <1>1 DEF Decoded, data
        <5>5. ~HeldData(Proto, data)
          BY <1>13 DEF Held, HeldData, data
        <5> QED
          BY <5>3, <5>4, <5>5 DEF NextIs
      <4>2. CASE ~(g < nsent)
        <5>1. data = <<>> /\ Len(<<>>) = 0
          BY <1>1, <1>2, <1>8, <4>2
        <5> QED
          BY <1>10, <3>1, <5>1
      <4> QED
        BY <4>1, <4>2
    <3> QED
      BY <1>8, <1>11, <3>1, <3>2, <3>3
  <2>3. T \subseteq Nat
    BY <1>6
  <2>4. Max(T) = g
    BY <2>1, <2>2, <2>3, MaxIs
  <2> QED
    BY <1>7, <1>13, <2>4 DEF n, g
<1> QED
  BY <1>12, <1>13

\* FramedExactly, where the codec can frame the messages and no reset came.
LEMMA FramesAreMessages == MsgInv /\ FrameInv /\ PlainMode /\ ~reset => FramedExactly
<1> SUFFICES ASSUME MsgInv, FrameInv, PlainMode, ~reset PROVE FramedExactly
  OBVIOUS
<1> DEFINE g == Len(got["svr"])
           n == taken["svr"] + Size(con["svr"].in)
           msgs == mode.msgs
           whole == SubSeq(mode.msgs, 1, Whole(n))
<1>1. /\ "svr" \in Sides /\ "cli" \in Sides /\ Proto # "http" /\ MsgTypeOK
      /\ got \in [Sides -> Seq(Text)] /\ \A x \in Sides : Delivered(x) /\ Settled(x)
  BY DEF Sides, FrameInv, PlainMode, Framed, MsgInv
<1>2. msgs \in Seq(Text) /\ Len(msgs) \in Nat /\ got["svr"] \in Seq(Text) /\ got["cli"] \in Seq(Text)
      /\ Len(got["cli"]) \in Nat /\ g \in Nat
  BY <1>1, Sources
<1>3. g \in 0..Len(msgs) /\ got["svr"] = SubSeq(msgs, 1, g)
  BY <1>1, GivenToServer
<1>4. ASSUME con["svr"].state = "open", con["svr"].loops = 0
      PROVE  got["svr"] = IF Held("svr") THEN SubSeq(whole, 1, Len(whole) - 1) ELSE whole
  <2>1. Decoded("svr").r = 0
    BY <1>1, <1>4 DEF Settled
  <2>2. /\ Held("svr") => g + 1 \in 0..Len(msgs)
        /\ Whole(n) = IF Held("svr") THEN g + 1 ELSE g
    BY <1>1, <2>1, WholeIs
  <2> HIDE DEF g, n, msgs
  <2>3. CASE Held("svr")
    <3>1. g + 1 \in 0..Len(msgs) /\ Whole(n) = g + 1
      BY <2>2, <2>3
    <3>2. whole = SubSeq(msgs, 1, g + 1)
      BY <3>1 DEF msgs
    <3>3. Len(whole) = g + 1 /\ \A k \in 0..g + 1 : SubSeq(whole, 1, k) = SubSeq(msgs, 1, k)
      BY <1>2, <3>1, <3>2, PrefixFacts
    <3>4. Len(whole) - 1 = g /\ g \in 0..g + 1
      <4> HIDE DEF whole
      <4>1. g \in Nat
        BY <1>2
      <4> QED
        BY <3>3, <4>1
    <3> QED
      BY <1>3, <2>3, <3>3, <3>4
  <2>4. CASE ~Held("svr")
    BY <1>3, <2>2, <2>4 DEF msgs
  <2> QED
    BY <2>3, <2>4
<1>5. IsPrefix(got["cli"], got["svr"])
  <2>1. Len(got["cli"]) <= Len(Src("cli")) /\ got["cli"] = SubSeq(Src("cli"), 1, Len(got["cli"]))
    BY <1>1 DEF Delivered
  <2>2. CASE mode.quiet
    <3>1. Src("cli") = <<>> /\ Len(<<>>) = 0
      BY <2>2 DEF Src
    <3>2. Len(got["cli"]) = 0
      BY <1>2, <2>1, <3>1
    <3>3. SubSeq(got["svr"], 1, 0) = <<>> /\ SubSeq(got["cli"], 1, 0) = <<>>
      BY SubSeqEmpty
    <3> QED
      BY <1>2, <3>2, <3>3 DEF IsPrefix
  <2>3. CASE ~mode.quiet
    <3>1. Src("cli") = got["svr"]
      BY <2>3 DEF Src
    <3> QED
      BY <1>2, <2>1, <3>1, PrefixIs
  <2> QED
    BY <2>2, <2>3
<1>6. Given(SubSeq(msgs, 1, Whole(n))) = whole
  BY <1>1 DEF Given
<1> QED
  BY <1>1, <1>4, <1>5, <1>6 DEF FramedExactly

\* What the end of the exchange leaves: all has been given, but for a message
\* that is held.
LEMMA LeftAtTheEnd ==
  ASSUME MsgInv, PlainMode, ~reset, got \in [Sides -> Seq(Text)],
         Delivered("svr"), NEW x \in Sides, Delivered(x), Decoded(x).r = 0, Coming(x) = <<>>
  PROVE  /\ Size(con[x].in) = IF Held(x) THEN 2 ELSE 0
         /\ Len(Src(x)) = Len(got[x]) + IF Held(x) THEN 1 ELSE 0
         /\ Len(Src(x)) \in Nat /\ Len(got[x]) \in Nat
<1> DEFINE data == Data(con[x].in)
           k == Len(got[x])
<1>1. /\ MsgTypeOK /\ Proto \in Framings /\ CodecOf(x) = Proto
      /\ Src(x) \in Seq(Text) /\ Len(Src(x)) \in Nat /\ k \in Nat
  BY Sources DEF MsgInv
<1>2. k <= Len(Src(x))
  BY DEF Delivered
<1>3. /\ data \in Text /\ Len(data) = Size(con[x].in)
      /\ k = Len(Src(x)) => data = <<>>
      /\ k < Len(Src(x)) =>
           \E rest \in Text : /\ data \o <<>> = Frame(Proto, Src(x)[k + 1]) \o rest
                              /\ rest = <<>> <=> k + 1 = Len(Src(x))
  BY NextMessage
<1>4. data \o <<>> = data /\ <<>> \in Text /\ Len(data) \in Nat
  BY <1>3, TextEmpty, LenProperties DEF Text
<1>5. TryDecode(Proto, data).r = 0
  BY <1>1 DEF Decoded
<1>6. Held(x) <=> HeldData(Proto, data)
  BY DEF Held, HeldData
<1> HIDE DEF data, k
<1>7. CASE k = Len(Src(x))
  <2>1. data = <<>> /\ Len(<<>>) = 0
    BY <1>3, <1>7
  <2>2. ~Held(x)
    BY <1>6, <2>1 DEF HeldData
  <2> QED
    BY <1>1, <1>3, <1>7, <2>1, <2>2 DEF k
<1>8. CASE k < Len(Src(x))
  <2> DEFINE m == Src(x)[k + 1]
             f == Frame(Proto, m)
  <2>1. k + 1 \in 1..Len(Src(x))
    BY <1>1, <1>8
  <2>2. Plain(Proto, m) /\ m \in Text
    BY <1>1, <2>1, SourcesPlain
  <2> HIDE DEF m
  <2>3. f \in Text /\ Len(f) \in Nat
    BY <1>1, <2>2, FrameFacts, LenProperties DEF Text
  <2>4. PICK rest \in Text : data \o <<>> = f \o rest /\ (rest = <<>> <=> k + 1 = Len(Src(x)))
    BY <1>3, <1>8 DEF m
  <2>5. NextIs(Proto, m, data)
    BY <1>1, <1>3, <1>4, <2>2, <2>4, NextDecoded
  <2>6. Len(data) = Len(f) + Len(rest) /\ Len(rest) \in Nat
    <3>1. data = f \o rest
      BY <1>4, <2>4
    <3> HIDE DEF f
    <3>2. Len(f \o rest) = Len(f) + Len(rest) /\ Len(rest) \in Nat
      BY <2>3, TextConcat
    <3> QED
      BY <3>1, <3>2
  <2>7. HeldData(Proto, data)
    <3>1. ~(Len(data) < Len(f))
      BY <2>3, <2>6
    <3> QED
      BY <1>5, <2>5, <3>1 DEF NextIs
  <2>8. Len(data) = 2 /\ Len(f) = 2
    <3>1. data \in Text /\ <<>> \in Text /\ Proto \in Framings
      BY <1>1, <1>3, <1>4
    <3> DEFINE e == <<>>
    <3>2. e \in Text /\ data \o e = Frame(Proto, m) \o rest
      BY <2>4, <3>1
    <3> HIDE DEF e
    <3> QED
      BY <2>2, <2>7, <3>1, <3>2, HeldIsEmpty, Zenon
  <2>9. rest = <<>>
    <3>1. Len(rest) = 0
      <4> DEFINE a == Len(data)
                 b == Len(f)
                 c == Len(rest)
      <4>1. a = b + c /\ c \in Nat /\ a = 2 /\ b = 2
        BY <2>6, <2>8
      <4> HIDE DEF a, b, c
      <4>2. c = 0
        BY <4>1
      <4> QED
        BY <4>2 DEF c
    <3> QED
      BY <3>1, EmptySeq DEF Text
  <2> QED
    BY <1>1, <1>3, <1>6, <2>4, <2>7, <2>8, <2>9 DEF k
<1> QED
  BY <1>1, <1>2, <1>7, <1>8

\* NothingStranded, where the codec can frame the messages.
LEMMA NothingLeft == MsgInv /\ FrameInv /\ PlainMode => NothingStranded
<1> SUFFICES ASSUME MsgInv, FrameInv, PlainMode, Quiet, ~mode.quiet
             PROVE  /\ Size(con["svr"].in) = IF Held("svr") THEN 2 ELSE 0
                    /\ Len(got["cli"]) = Len(mode.msgs) - Cardinality({x \in Sides : Held(x)})
  BY DEF NothingStranded, PlainMode, Framed
<1> DEFINE H == {x \in Sides : Held(x)}
           h(x) == IF Held(x) THEN 1 ELSE 0
<1>1. /\ "svr" \in Sides /\ "cli" \in Sides /\ Sides = {"cli", "svr"} /\ ~reset /\ Proto # "http" /\ MsgTypeOK
      /\ got \in [Sides -> Seq(Text)] /\ \A x \in Sides : Delivered(x) /\ Settled(x)
  BY DEF Sides, FrameInv, PlainMode, Framed, MsgInv, Quiet
<1>2. \A x \in Sides : Decoded(x).r = 0
  BY <1>1 DEF Quiet, Settled
<1>3. \A x \in Sides : Coming(x) = <<>>
  <2> SUFFICES ASSUME NEW x \in Sides PROVE Coming(x) = <<>>
    OBVIOUS
  <2>1. wire[x] = <<>> /\ Peer(x) \in Sides /\ ~con[Peer(x)].wen
    BY PeerFacts DEF Quiet
  <2>2. Data(con[Peer(x)].out) = <<>>
    BY <1>1, <2>1 DEF MsgInv, OutputInOrder
  <2> QED
    BY <2>1, <2>2 DEF Coming
<1>4. nsent = Len(mode.msgs)
  <2>1. nsent \in 0..Len(mode.msgs) /\ Len(mode.msgs) \in Nat /\ ~(nsent < Len(mode.msgs))
    BY <1>1, Sources DEF Quiet, MaySend
  <2> QED
    BY <2>1
<1>5. /\ Size(con["svr"].in) = IF Held("svr") THEN 2 ELSE 0
      /\ Len(Src("svr")) = Len(got["svr"]) + h("svr")
      /\ Len(got["svr"]) \in Nat
  BY <1>1, <1>2, <1>3, LeftAtTheEnd
<1>6. /\ Len(Src("cli")) = Len(got["cli"]) + h("cli")
      /\ Len(got["cli"]) \in Nat
  BY <1>1, <1>2, <1>3, LeftAtTheEnd
<1>7. Len(Src("svr")) = Len(mode.msgs)
  BY <1>1, <1>4, GivenToServer
<1>8. Src("cli") = got["svr"]
  BY DEF Src
<1>9. Cardinality(H) = h("svr") + h("cli")
  <2>1. Cardinality({}) = 0 /\ Cardinality({"svr"}) = 1 /\ Cardinality({"cli"}) = 1 /\ Cardinality(Sides) = 2
    <3>1. IsFiniteSet({"cli"}) /\ Cardinality({"cli"}) = 1 /\ Cardinality({"svr"}) = 1 /\ Cardinality({}) = 0
      BY FS_Singleton, FS_EmptySet
    <3>2. Cardinality({"cli"} \cup {"svr"}) = 2
      <4>1. "svr" \notin {"cli"}
        OBVIOUS
      <4>2. Cardinality({"cli"} \cup {"svr"}) = 1 + 1
        BY <3>1, <4>1, FS_AddElement
      <4> QED
        BY <4>2
    <3>3. Sides = {"cli"} \cup {"svr"}
      BY DEF Sides
    <3> QED
      BY <3>1, <3>2, <3>3
  <2>2. CASE Held("svr") /\ Held("cli")
    <3>1. H = Sides
      BY <1>1, <2>2
    <3> QED
      BY <2>1, <2>2, <3>1
  <2>3. CASE Held("svr") /\ ~Held("cli")
    <3>1. H = {"svr"}
      BY <1>1, <2>3
    <3> QED
      BY <2>1, <2>3, <3>1
  <2>4. CASE ~Held("svr") /\ Held("cli")
    <3>1. H = {"cli"}
      BY <1>1, <2>4
    <3> QED
      BY <2>1, <2>4, <3>1
  <2>5. CASE ~Held("svr") /\ ~Held("cli")
    <3>1. H = {}
      BY <1>1, <2>5
    <3> QED
      BY <2>1, <2>5, <3>1
  <2> QED
    BY <2>2, <2>3, <2>4, <2>5
<1>10. Len(mode.msgs) = Len(got["cli"]) + h("cli") + h("svr")
  BY <1>5, <1>6, <1>7, <1>8
<1> QED
  BY <1>5, <1>6, <1>9, <1>10

\* Whatever the messages, the pieces they arrive in and the buffers: between
\* two callbacks the server has been given exactly the messages that have
\* arrived whole, each once and in order, and the client a prefix of the
\* answers, with each codec that can frame the messages.  (codec.cc tryDecode,
\* conn.cc onMsg.)
THEOREM MessagesFramed == Spec => [](PlainMode /\ ~reset => FramedExactly)
<1>1. MsgInv /\ FrameInv => (PlainMode /\ ~reset => FramedExactly)
  BY FramesAreMessages
<1> QED
  BY <1>1, FramesStay, PTL

\* When nothing is left to happen, everything that was sent has been answered
\* and the client has the answers: no data waits without a write event and no
\* whole message in an input, but for an empty one in brackets.  (conn.cc
\* handleWrite, sendOutput, onMsg.)
THEOREM NoneStranded == Spec => [](PlainMode => NothingStranded)
<1>1. MsgInv /\ FrameInv => (PlainMode => NothingStranded)
  BY NothingLeft
<1> QED
  BY <1>1, FramesStay, PTL

\* As long as no reset comes, the callback is given a prefix of what was sent:
\* no message twice, none out of order.  After a reset a message whose answer
\* cannot be sent is given again.  (conn.cc onMsg, cleanup.)
THEOREM OnceWithoutReset == Spec => [](PlainMode /\ ~reset => DeliveredOnce)
<1>1. MsgInv /\ FrameInv => (PlainMode /\ ~reset => DeliveredOnce)
  <2> SUFFICES ASSUME MsgInv, FrameInv, PlainMode, ~reset PROVE IsPrefix(got["svr"], mode.msgs)
    BY DEF DeliveredOnce
  <2>1. /\ "svr" \in Sides /\ MsgTypeOK /\ got \in [Sides -> Seq(Text)] /\ Delivered("svr")
    BY DEF Sides, FrameInv, MsgInv
  <2>2. /\ Len(got["svr"]) \in 0..Len(mode.msgs) /\ got["svr"] = SubSeq(mode.msgs, 1, Len(got["svr"]))
    BY <2>1, GivenToServer
  <2>3. got["svr"] \in Seq(Text) /\ Len(mode.msgs) \in Nat
    BY <2>1, Sources
  <2>4. Len(got["svr"]) <= Len(mode.msgs)
    BY <2>2, <2>3
  <2> QED
    BY <2>2, <2>3, <2>4, PrefixIs
<1> QED
  BY <1>1, FramesStay, PTL

===============================================================================
