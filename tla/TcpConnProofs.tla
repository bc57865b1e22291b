--------------------------- MODULE TcpConnProofs ---------------------------
(***************************************************************************)
(* TcpConn for any sets of user operations and any bounds.                  *)
(*                                                                          *)
(* If user code sends nothing before the handshake is over, what it sends   *)
(* on a first connection reaches the socket in order and never waits        *)
(* unwatched.  If user code also leaves sending and closeNow out of readcb_ *)
(* and writablecb_, and closeNow out of statecb_, the process survives and  *)
(* the end of a connection is told once.                                    *)
(*                                                                          *)
(* The argument is about the call stack: which calls can be active below    *)
(* which, and what each of them may rely on when control comes back to it.  *)
(***************************************************************************)
EXTENDS TcpConn, SequenceTheorems, TLAPS

\* The calls that are active, and those below the innermost one.
On == {stack[i] : i \in 1..Depth}
Lower == {stack[i] : i \in 1..(Depth - 1)}

-----------------------------------------------------------------------------
(* The operations on the stack.                                             *)

\* The calls below the innermost one.
LEMMA BelowFacts ==
  ASSUME stack \in Seq(Frames), Depth > 0
  PROVE  /\ Depth \in Nat /\ Below \in Seq(Frames) /\ Len(Below) = Depth - 1
         /\ \A i \in 1..(Depth - 1) : Below[i] = stack[i]
         /\ On = Lower \cup {stack[Depth]}
<1>1. Depth \in Nat /\ Below \in Seq(Frames) /\ Len(Below) = Depth - 1
  <2>1. Depth \in Nat /\ Depth = Len(stack)
    BY DEF Depth
  <2>2. \A i \in 1..(Depth - 1) : i \in 1..Len(stack)
    BY <2>1
  <2>3. SubSeq(stack, 1, Depth - 1) \in Seq(Frames)
    BY <2>1, <2>2, SubSeqProperties
  <2>4. Len(Below) = Depth - 1
    BY <2>1 DEF Below
  <2> QED
    BY <2>1, <2>3, <2>4 DEF Below
<1>2. \A i \in 1..(Depth - 1) : Below[i] = stack[i]
  BY DEF Depth, Below
<1>3. On = Lower \cup {stack[Depth]}
  <2>1. \A i \in 1..Depth : i \in 1..(Depth - 1) \/ i = Depth
    BY <1>1
  <2>2. \A i \in 1..(Depth - 1) : i \in 1..Depth
    BY <1>1
  <2>3. Depth \in 1..Depth
    BY <1>1
  <2> QED
    BY <2>1, <2>2, <2>3 DEF On, Lower
<1> QED
  BY <1>1, <1>2, <1>3

\* A call is pushed.
LEMMA PushFacts ==
  ASSUME NEW s \in Seq(Frames), NEW f \in Frames
  PROVE  /\ Append(s, f) \in Seq(Frames) /\ Len(Append(s, f)) = Len(s) + 1
         /\ Append(s, f)[Len(s) + 1] = f
         /\ \A i \in 1..Len(s) : Append(s, f)[i] = s[i]
         /\ {Append(s, f)[i] : i \in 1..Len(Append(s, f))} = {s[i] : i \in 1..Len(s)} \cup {f}
<1> DEFINE t == Append(s, f)
<1>1. /\ t \in Seq(Frames) /\ Len(t) = Len(s) + 1 /\ t[Len(s) + 1] = f /\ Len(s) \in Nat
      /\ \A i \in 1..Len(s) : t[i] = s[i]
  OBVIOUS
<1> HIDE DEF t
<1>2. \A i \in 1..Len(t) : i \in 1..Len(s) \/ i = Len(s) + 1
  BY <1>1
<1>3. Len(s) + 1 \in 1..Len(t) /\ \A i \in 1..Len(s) : i \in 1..Len(t)
  BY <1>1
<1>4. {t[i] : i \in 1..Len(t)} = {s[i] : i \in 1..Len(s)} \cup {f}
  BY <1>1, <1>2, <1>3
<1> QED
  BY <1>1, <1>4 DEF t

\* A call returns.
LEMMA ReturnFacts ==
  ASSUME stack \in Seq(Frames), Depth > 0, Return
  PROVE  /\ stack' \in Seq(Frames) /\ Depth' = Depth - 1
         /\ \A i \in 1..(Depth - 1) : stack'[i] = stack[i]
         /\ On' = Lower
<1>1. stack' = Below
  BY DEF Return
<1>2. Depth' = Len(Below)
  BY <1>1 DEF Depth
<1> QED
  BY <1>1, <1>2, BelowFacts DEF On, Lower

\* A call goes on as f.
LEMMA GoOnFacts ==
  ASSUME stack \in Seq(Frames), Depth > 0, NEW f \in Frames, GoOn(f)
  PROVE  /\ stack' \in Seq(Frames) /\ Depth' = Depth /\ stack'[Depth] = f
         /\ \A i \in 1..(Depth - 1) : stack'[i] = stack[i]
         /\ On' = Lower \cup {f}
<1>1. stack' = Append(Below, f)
  BY DEF GoOn
<1>2. Depth \in Nat /\ Below \in Seq(Frames) /\ Len(Below) = Depth - 1
  BY BelowFacts
<1>3. /\ stack' \in Seq(Frames) /\ Len(stack') = Len(Below) + 1 /\ stack'[Len(Below) + 1] = f
      /\ \A i \in 1..Len(Below) : stack'[i] = Below[i]
      /\ {stack'[i] : i \in 1..Len(stack')} = {Below[i] : i \in 1..Len(Below)} \cup {f}
  BY <1>1, <1>2, PushFacts
<1>4. Depth' = Len(stack') /\ Len(Below) + 1 = Depth
  BY <1>2 DEF Depth
<1>5. {Below[i] : i \in 1..Len(Below)} = Lower
  BY <1>2, BelowFacts DEF Lower
<1>6. \A i \in 1..(Depth - 1) : stack'[i] = stack[i]
  BY <1>2, <1>3, BelowFacts
<1> QED
  BY <1>3, <1>4, <1>5, <1>6 DEF On

\* A call goes on as f after calling g.
LEMMA CallFacts ==
  ASSUME stack \in Seq(Frames), Depth > 0, NEW f \in Frames, NEW g \in Frames, Call(f, g)
  PROVE  /\ stack' \in Seq(Frames) /\ Depth' = Depth + 1
         /\ stack'[Depth] = f /\ stack'[Depth + 1] = g
         /\ \A i \in 1..(Depth - 1) : stack'[i] = stack[i]
         /\ On' = Lower \cup {f, g}
<1> DEFINE s == Append(Below, f)
<1>1. stack' = Append(s, g)
  BY DEF Call
<1>2. Depth \in Nat /\ Below \in Seq(Frames) /\ Len(Below) = Depth - 1
  BY BelowFacts
<1>3. /\ s \in Seq(Frames) /\ Len(s) = Len(Below) + 1 /\ s[Len(Below) + 1] = f
      /\ \A i \in 1..Len(Below) : s[i] = Below[i]
      /\ {s[i] : i \in 1..Len(s)} = {Below[i] : i \in 1..Len(Below)} \cup {f}
  BY <1>2, PushFacts
<1> HIDE DEF s
<1>4. /\ stack' \in Seq(Frames) /\ Len(stack') = Len(s) + 1 /\ stack'[Len(s) + 1] = g
      /\ \A i \in 1..Len(s) : stack'[i] = s[i]
      /\ {stack'[i] : i \in 1..Len(stack')} = {s[i] : i \in 1..Len(s)} \cup {g}
  BY <1>1, <1>3, PushFacts
<1>5. Depth' = Len(stack') /\ Len(s) = Depth /\ Len(Below) + 1 = Depth
  BY <1>2, <1>3 DEF Depth
<1>6. {Below[i] : i \in 1..Len(Below)} = Lower
  BY <1>2, BelowFacts DEF Lower
<1>7. \A i \in 1..(Depth - 1) : stack'[i] = stack[i]
  <2>1. \A i \in 1..(Depth - 1) : i \in 1..Len(s) /\ i \in 1..Len(Below)
    BY <1>2, <1>5
  <2> QED
    BY <1>3, <1>4, <2>1, BelowFacts
<1>8. Depth \in 1..Len(s)
  BY <1>2, <1>5
<1>9. stack'[Depth] = f
  BY <1>3, <1>4, <1>5, <1>8
<1> QED
  BY <1>3, <1>4, <1>5, <1>6, <1>7, <1>9 DEF On

\* User code calls g.
LEMMA EnterFacts ==
  ASSUME stack \in Seq(Frames), NEW g \in Frames, Enter(g)
  PROVE  /\ stack' \in Seq(Frames) /\ Depth' = Depth + 1 /\ stack'[Depth + 1] = g
         /\ \A i \in 1..Depth : stack'[i] = stack[i]
         /\ On' = On \cup {g} /\ Depth \in Nat
  BY PushFacts DEF Enter, Depth, On

-----------------------------------------------------------------------------
(* Types.                                                                   *)

\* The state with the stack left out, one conjunct for each field.
FieldsOK ==
  /\ state_ \in States
  /\ channel_ \in {"null", "open", "closed"}
  /\ wen \in BOOLEAN /\ cbs \in BOOLEAN /\ timer \in BOOLEAN /\ reconnects \in BOOLEAN
  /\ exit_ \in BOOLEAN /\ ended \in BOOLEAN /\ closeTask \in BOOLEAN /\ txFull \in BOOLEAN
  /\ input_ \in 0..1 /\ rx \in 0..1
  /\ output_ \in Seq(Units) /\ wire \in Seq(Units)
  /\ recon \in {"no", "timed", "orphan"}
  /\ sock \in {"connecting", "refused", "up", "eof", "reset"}
  /\ sends \in 0..MaxSends /\ attempts \in 1..MaxAttempts /\ notes \in Nat
  /\ bad \in {"no", "null", "fatal"}

\* TypeOK, written so that each field can be cited.
LEMMA TypeParts == TypeOK <=> FieldsOK /\ stack \in Seq(Frames)
  BY Zenon DEF TypeOK, FieldsOK

\* Streams of units are joined in any order.
LEMMA StreamAssociative ==
  ASSUME NEW s \in Seq(Units), NEW t \in Seq(Units), NEW u \in Seq(Units)
  PROVE  (s \o t) \o u = s \o (t \o u)
  BY ConcatAssociative

\* isend(buf) writes a prefix of buf: what is on the wire and what is left are
\* together what they were before, and what is left on an open channel is
\* watched.
LEMMA IsendFacts ==
  ASSUME FieldsOK, NEW buf \in Seq(Units), NEW k \in Nat, isend(buf, k)
  PROVE  /\ k <= Len(buf) /\ Rest(buf, k) \in Seq(Units)
         /\ wire' \in Seq(Units) /\ wire' \o Rest(buf, k) = wire \o buf
         /\ Rest(buf, k) # <<>> => k < Len(buf)
         /\ Rest(buf, k) = <<>> => k = Len(buf)
         /\ wen' \in BOOLEAN /\ txFull' \in BOOLEAN
         /\ wen => wen'
         /\ k < Len(buf) /\ channel_ = "open" => wen'
<1>1. wire \in Seq(Units) /\ wen \in BOOLEAN /\ txFull \in BOOLEAN
  BY DEF FieldsOK
<1>2. Len(buf) \in Nat
  OBVIOUS
<1>3. k <= Len(buf)
  BY <1>2 DEF isend, Writes
<1> DEFINE pre == SubSeq(buf, 1, k)
           rest == SubSeq(buf, k + 1, Len(buf))
<1>4. pre \in Seq(Units)
  <2>1. \A i \in 1..k : i \in 1..Len(buf)
    BY <1>2, <1>3
  <2> QED
    BY <2>1, SubSeqProperties
<1>5. rest \in Seq(Units) /\ Len(rest) = Len(buf) - k
  <2>1. \A i \in (k + 1)..Len(buf) : i \in 1..Len(buf)
    BY <1>2
  <2>2. k + 1 \in Int /\ Len(buf) \in Int
    BY <1>2
  <2>3. rest \in Seq(Units)
    BY <2>1, <2>2, SubSeqProperties
  <2>4. Len(rest) = Len(buf) - k
    BY <1>2, <1>3
  <2> QED
    BY <2>3, <2>4
<1>6. pre \o rest = buf
  <2>1. Len(pre) = k /\ \A i \in 1..k : pre[i] = buf[i]
    BY <1>2, <1>3
  <2>2. Len(rest) = Len(buf) - k /\ \A i \in 1..(Len(buf) - k) : rest[i] = buf[k + i]
    BY <1>2, <1>3
  <2> HIDE DEF pre, rest
  <2>3. pre \o rest \in Seq(Units) /\ Len(pre \o rest) = Len(buf)
    BY <1>2, <1>4, <1>5, <2>1, <2>2
  <2>4. ASSUME NEW i \in 1..Len(buf)
        PROVE  (pre \o rest)[i] = buf[i]
    <3>1. CASE i <= k
      BY <3>1, <2>1, <1>2, <1>3, <1>4, <1>5
    <3>2. CASE i > k
      <4>1. i - k \in 1..(Len(buf) - k) /\ k + (i - k) = i
        BY <3>2, <1>2, <1>3
      <4>2. (pre \o rest)[i] = rest[i - k]
        BY <3>2, <2>1, <1>2, <1>3, <1>4, <1>5
      <4> QED
        BY <4>1, <4>2, <2>2
    <3>3. i <= k \/ i > k
      BY <1>2
    <3> QED
      BY <3>1, <3>2, <3>3
  <2> QED
    BY <2>3, <2>4, SeqEqual
<1>7. Rest(buf, k) = rest /\ wire' = wire \o pre
  BY DEF Rest, isend
<1> HIDE DEF pre, rest
<1>8. wire' \in Seq(Units)
  BY <1>1, <1>4, <1>7
<1>9. wire' \o rest = wire \o buf
  <2>1. (wire \o pre) \o rest = wire \o (pre \o rest)
    BY <1>1, <1>4, <1>5, StreamAssociative
  <2> QED
    BY <2>1, <1>6, <1>7, Zenon
<1>10. (rest # <<>> => k < Len(buf)) /\ (rest = <<>> => k = Len(buf))
  BY <1>2, <1>3, <1>5
<1>11. wen' \in BOOLEAN /\ (wen => wen') /\ (k < Len(buf) /\ channel_ = "open" => wen')
  BY <1>1, Zenon DEF isend
<1>12. txFull' \in BOOLEAN
  <2>1. CASE k = 0
    BY <2>1, <1>1, Zenon DEF isend
  <2>2. CASE k # 0
    BY <2>2, Zenon DEF isend
  <2> QED
    BY <2>1, <2>2
<1> QED
  BY <1>3, <1>5, <1>7, <1>8, <1>9, <1>10, <1>11, <1>12

\* A unit is a stream of its own, and appending it is joining that stream.
LEMMA UnitFacts ==
  ASSUME NEW u \in Units, NEW s \in Seq(Units), NEW t \in Seq(Units)
  PROVE  /\ <<u>> \in Seq(Units) /\ Append(s, u) = s \o <<u>> /\ Append(s, u) \in Seq(Units)
         /\ Len(<<u>>) = 1 /\ <<u>> # <<>> /\ Append(s, u) # <<>>
         /\ s \o <<>> = s /\ <<>> \in Seq(Units)
         /\ t \o Append(s, u) = Append(t \o s, u) /\ t \o s \in Seq(Units)
<1>1. <<u>> \in Seq(Units) /\ Append(s, u) \in Seq(Units) /\ t \o s \in Seq(Units)
  OBVIOUS
<1>2. Append(s, u) = s \o <<u>> /\ Append(t \o s, u) = (t \o s) \o <<u>>
  BY <1>1, AppendIsConcat
<1>3. (t \o s) \o <<u>> = t \o (s \o <<u>>)
  BY <1>1, StreamAssociative
<1>4. Len(<<u>>) = 1 /\ <<u>> # <<>> /\ Append(s, u) # <<>> /\ s \o <<>> = s /\ <<>> \in Seq(Units)
  BY ConcatEmptySeq
<1>5. t \o Append(s, u) = Append(t \o s, u)
  BY <1>2, <1>3, Zenon
<1> QED
  BY <1>1, <1>2, <1>4, <1>5

\* What the three ways to send have in common.  The unit goes behind wire and
\* output_, or is dropped as the peer is known to be gone, and then cleanup is
\* called.  send(Buffer&) alone can overtake: when output_ waits unwatched on a
\* good connection.  What output_ holds is watched afterwards unless it already
\* waited unwatched before.
LEMMA SendFacts ==
  ASSUME TypeOK, UserSend \/ UserSendBuffer \/ UserSendMsg
  PROVE  /\ sends' = sends + 1 /\ sends' \in Units
         /\ output_' \in Seq(Units) /\ wire' \in Seq(Units)
         /\ wen' \in BOOLEAN /\ txFull' \in BOOLEAN /\ bad' \in {bad, "fatal"}
         /\ \/ wire' \o output_' = wire \o output_
            \/ wire' \o output_' = Append(wire \o output_, sends')
            \/ output_ # <<>> /\ ~wen /\ channel_ = "open" /\ sock \in {"up", "eof"}
         /\ \/ Enter("cleanup") /\ bad' = bad /\ wen' = wen /\ channel_ = "open"
               /\ sock \in {"reset", "refused"}
            \/ /\ stack' = stack
               /\ bad' = bad \/ channel_ = "closed"
               /\ output_' # <<>> /\ channel_ = "open" => wen' \/ (output_ # <<>> /\ ~wen)
         /\ UNCHANGED <<flags, channel_, base, sock, rx, attempts, notes>>
         /\ Live /\ state_ \in SendStates /\ \E op \in Ops \ {"closeNow"} : InUser(op)
<1>1. FieldsOK
  BY TypeParts
<1>2. output_ \in Seq(Units) /\ wire \in Seq(Units) /\ wen \in BOOLEAN /\ txFull \in BOOLEAN
  BY <1>1 DEF FieldsOK
<1>3. \E op \in {"send", "sendBuffer", "sendMsg"} : Sends(op)
  BY Zenon DEF UserSend, UserSendBuffer, UserSendMsg
<1>4. sends' = sends + 1 /\ sends' \in Units
  <2>1. sends < MaxSends /\ sends' = sends + 1
    BY <1>3 DEF Sends
  <2> QED
    BY <2>1, <1>1, ConnAssumption DEF FieldsOK, Units
<1>5. Live /\ state_ \in SendStates /\ \E op \in Ops \ {"closeNow"} : InUser(op)
  <2>1. PICK op \in {"send", "sendBuffer", "sendMsg"} : Sends(op)
    BY <1>3
  <2>2. op \in Ops \ {"closeNow"}
    BY DEF Ops
  <2> QED
    BY <2>1, <2>2, Zenon DEF Sends
<1>6. UNCHANGED <<flags, channel_, base, sock, rx, attempts, notes>>
  BY Zenon DEF UserSend, UserSendBuffer, UserSendMsg
<1> DEFINE u == sends'
<1>7. /\ <<u>> \in Seq(Units) /\ Append(output_, u) = output_ \o <<u>>
      /\ Append(output_, u) \in Seq(Units) /\ Append(output_, u) # <<>>
      /\ Len(<<u>>) = 1 /\ <<u>> # <<>>
      /\ wire \o Append(output_, u) = Append(wire \o output_, u)
      /\ wire \o output_ \in Seq(Units)
  BY <1>2, <1>4, UnitFacts
<1>8. ASSUME NEW k \in Nat, isend(<<u>>, k), output_' = Rest(<<u>>, k), output_ = <<>>
      PROVE  /\ output_' \in Seq(Units) /\ wire' \in Seq(Units)
             /\ wen' \in BOOLEAN /\ txFull' \in BOOLEAN
             /\ wire' \o output_' = Append(wire \o output_, u)
             /\ output_' # <<>> /\ channel_ = "open" => wen'
  <2>1. /\ Rest(<<u>>, k) \in Seq(Units) /\ wire' \in Seq(Units)
        /\ wire' \o Rest(<<u>>, k) = wire \o <<u>>
        /\ Rest(<<u>>, k) # <<>> => k < Len(<<u>>)
        /\ wen' \in BOOLEAN /\ txFull' \in BOOLEAN
        /\ k < Len(<<u>>) /\ channel_ = "open" => wen'
    BY <1>1, <1>7, <1>8, IsendFacts
  <2>2. wire \o <<u>> = Append(wire \o output_, u)
    BY <1>2, <1>4, <1>8, UnitFacts
  <2> QED
    BY <2>1, <2>2, <1>8, Zenon
<1>9. CASE UserSend
  <2>1. bad' = bad
    BY <1>9, Zenon DEF UserSend
  <2>2. CASE output_ # <<>>
    <3>1. output_' = Append(output_, u) /\ UNCHANGED <<wen, wire, txFull, stack>>
      BY <1>9, <2>2, Zenon DEF UserSend
    <3>2. wire' \o output_' = Append(wire \o output_, u)
      BY <3>1, <1>7, Zenon
    <3>3. output_' \in Seq(Units) /\ wire' \in Seq(Units) /\ wen' \in BOOLEAN /\ txFull' \in BOOLEAN
      BY <3>1, <1>2, <1>7, Zenon
    <3>4. wen' \/ (output_ # <<>> /\ ~wen)
      BY <3>1, <2>2, Zenon
    <3> QED
      BY <1>4, <1>5, <1>6, <2>1, <3>1, <3>2, <3>3, <3>4, Zenon
  <2>3. CASE output_ = <<>> /\ Broken(<<u>>)
    <3>1. Enter("cleanup") /\ UNCHANGED <<output_, wen, wire, txFull>>
      BY <1>9, <2>3, Zenon DEF UserSend
    <3>2. channel_ = "open" /\ sock \in {"reset", "refused"}
      BY <2>3, Zenon DEF Broken
    <3>3. wire' \o output_' = wire \o output_
      BY <3>1, Zenon
    <3> QED
      BY <1>2, <1>4, <1>5, <1>6, <2>1, <3>1, <3>2, <3>3, Zenon
  <2>4. CASE output_ = <<>> /\ ~Broken(<<u>>)
    <3>1. PICK k \in 0..1 : isend(<<u>>, k) /\ output_' = Rest(<<u>>, k)
      BY <1>9, <2>4, Zenon DEF UserSend
    <3>2. stack' = stack
      BY <1>9, <2>4, Zenon DEF UserSend
    <3>3. k \in Nat
      BY <3>1
    <3> QED
      BY <1>4, <1>5, <1>6, <1>8, <2>1, <2>4, <3>1, <3>2, <3>3, Zenon
  <2> QED
    BY <2>2, <2>3, <2>4
<1>10. CASE UserSendBuffer
  <2>1. CASE wen
    <3>1. output_' = Append(output_, u) /\ UNCHANGED <<wen, wire, txFull, stack, bad>>
      BY <1>10, <2>1, Zenon DEF UserSendBuffer
    <3>2. wire' \o output_' = Append(wire \o output_, u)
      BY <3>1, <1>7, Zenon
    <3>3. output_' \in Seq(Units) /\ wire' \in Seq(Units) /\ wen' \in BOOLEAN /\ txFull' \in BOOLEAN
      BY <3>1, <1>2, <1>7, Zenon
    <3>4. wen'
      BY <3>1, <2>1, Zenon
    <3> QED
      BY <1>4, <1>5, <1>6, <3>1, <3>2, <3>3, <3>4, Zenon
  <2>2. CASE ~wen /\ Broken(<<u>>)
    <3>1. Enter("cleanup") /\ UNCHANGED <<output_, wen, wire, txFull, bad>>
      BY <1>10, <2>2, Zenon DEF UserSendBuffer
    <3>2. channel_ = "open" /\ sock \in {"reset", "refused"}
      BY <2>2, Zenon DEF Broken
    <3>3. wire' \o output_' = wire \o output_
      BY <3>1, Zenon
    <3> QED
      BY <1>2, <1>4, <1>5, <1>6, <3>1, <3>2, <3>3, Zenon
  <2>3. CASE ~wen /\ ~Broken(<<u>>)
    <3>1. PICK k \in 0..1 : /\ isend(<<u>>, k) /\ output_' = output_ \o Rest(<<u>>, k)
                            /\ bad' = EnableWriteOutcome(k = 0)
      BY <1>10, <2>3, Zenon DEF UserSendBuffer
    <3>2. stack' = stack
      BY <1>10, <2>3, Zenon DEF UserSendBuffer
    <3>3. bad' \in {bad, "fatal"} /\ (bad' = bad \/ channel_ = "closed")
      BY <3>1, Zenon DEF EnableWriteOutcome
    <3>4. k \in Nat
      BY <3>1
    <3>5. /\ Rest(<<u>>, k) \in Seq(Units) /\ wire' \in Seq(Units)
          /\ wire' \o Rest(<<u>>, k) = wire \o <<u>>
          /\ wen' \in BOOLEAN /\ txFull' \in BOOLEAN
          /\ k < Len(<<u>>) /\ channel_ = "open" => wen'
      BY <1>1, <1>7, <3>1, <3>4, IsendFacts
    <3>6. output_' \in Seq(Units)
      BY <3>1, <3>5, <1>2
    <3>7. CASE output_ = <<>>
      <4>1. output_' = Rest(<<u>>, k)
        BY <3>1, <3>5, <3>7, ConcatEmptySeq
      <4> QED
        BY <1>4, <1>5, <1>6, <1>8, <3>1, <3>2, <3>3, <3>4, <3>7, <4>1, Zenon
    <3>8. CASE output_ # <<>> /\ k = 0
      <4>1. wire' = wire /\ Rest(<<u>>, k) = <<u>>
        <5>1. wire' = wire \o SubSeq(<<u>>, 1, 0)
          BY <3>1, <3>8 DEF isend
        <5>2. SubSeq(<<u>>, 1, 0) = <<>>
          BY <1>7
        <5>3. Rest(<<u>>, k) = SubSeq(<<u>>, 1, 1)
          BY <3>8, <1>7 DEF Rest
        <5>4. SubSeq(<<u>>, 1, 1) = <<u>>
          BY <1>7, SubSeqFull
        <5> QED
          BY <5>1, <5>2, <5>3, <5>4, <1>2, ConcatEmptySeq
      <4>2. wire' \o output_' = Append(wire \o output_, u)
        BY <4>1, <3>1, <1>7, Zenon
      <4>3. channel_ = "open" => wen'
        BY <3>5, <3>8, <1>7
      <4> QED
        BY <1>4, <1>5, <1>6, <3>1, <3>2, <3>3, <3>5, <3>6, <4>2, <4>3, Zenon
    <3>9. CASE output_ # <<>> /\ k = 1
      <4>1. channel_ = "open" /\ sock \in {"up", "eof"}
        BY <3>1, <3>9 DEF isend, Writes
      <4>2. ~wen
        BY <2>3
      <4> QED
        BY <1>4, <1>5, <1>6, <3>1, <3>2, <3>3, <3>5, <3>6, <3>9, <4>1, <4>2, Zenon
    <3>10. k = 0 \/ k = 1
      BY <3>1
    <3> QED
      BY <3>7, <3>8, <3>9, <3>10
  <2> QED
    BY <2>1, <2>2, <2>3
<1>11. CASE UserSendMsg
  <2> DEFINE buf == Append(output_, u)
  <2>1. CASE Broken(buf)
    <3>1. Enter("cleanup") /\ output_' = buf /\ UNCHANGED <<wen, wire, txFull, bad>>
      BY <1>11, <2>1, Zenon DEF UserSendMsg
    <3>2. channel_ = "open" /\ sock \in {"reset", "refused"}
      BY <2>1, Zenon DEF Broken
    <3>3. wire' \o output_' = Append(wire \o output_, u)
      BY <3>1, <1>7, Zenon
    <3> QED
      BY <1>2, <1>4, <1>5, <1>6, <1>7, <3>1, <3>2, <3>3, Zenon
  <2>2. CASE ~Broken(buf)
    <3>1. PICK k \in 0..MaxSends : /\ isend(buf, k) /\ output_' = Rest(buf, k)
                                   /\ bad' = EnableWriteOutcome(~wen /\ k < Len(buf))
      BY <1>11, <2>2, Zenon DEF UserSendMsg
    <3>2. stack' = stack
      BY <1>11, <2>2, Zenon DEF UserSendMsg
    <3>3. bad' \in {bad, "fatal"} /\ (bad' = bad \/ channel_ = "closed")
      BY <3>1, Zenon DEF EnableWriteOutcome
    <3>4. k \in Nat
      BY <3>1, ConnAssumption
    <3>5. /\ Rest(buf, k) \in Seq(Units) /\ wire' \in Seq(Units)
          /\ wire' \o Rest(buf, k) = wire \o buf
          /\ Rest(buf, k) # <<>> => k < Len(buf)
          /\ wen' \in BOOLEAN /\ txFull' \in BOOLEAN
          /\ k < Len(buf) /\ channel_ = "open" => wen'
      <4>1. buf \in Seq(Units)
        BY <1>7
      <4> HIDE DEF buf
      <4> QED
        BY <1>1, <3>1, <3>4, <4>1, IsendFacts
    <3>6. wire' \o output_' = Append(wire \o output_, u)
      BY <3>1, <3>5, <1>7, Zenon
    <3>7. output_' # <<>> /\ channel_ = "open" => wen'
      BY <3>1, <3>5, Zenon
    <3> QED
      BY <1>4, <1>5, <1>6, <3>1, <3>2, <3>3, <3>5, <3>6, <3>7, Zenon
  <2> QED
    BY <2>1, <2>2
<1> QED
  BY <1>9, <1>10, <1>11

\* handleWrite moves a prefix of output_ to the wire; what is left on an open
\* channel is watched.
LEMMA HandleWriteFacts ==
  ASSUME TypeOK, HandleWrite
  PROVE  /\ output_' \in Seq(Units) /\ wire' \in Seq(Units)
         /\ wen' \in BOOLEAN /\ txFull' \in BOOLEAN
         /\ wire' \o output_' = wire \o output_
         /\ output_' # <<>> => output_ # <<>>
         /\ output_' # <<>> /\ channel_ = "open" => wen'
         /\ Call("hw2", "writable") \/ GoOn("hw2")
<1>1. FieldsOK /\ output_ \in Seq(Units)
  BY TypeParts DEF FieldsOK
<1>2. PICK k \in 0..MaxSends : isend(output_, k) /\ output_' = Rest(output_, k)
  BY Zenon DEF HandleWrite
<1>3. k \in Nat
  BY <1>2, ConnAssumption
<1>4. /\ k <= Len(output_) /\ Rest(output_, k) \in Seq(Units)
      /\ wire' \in Seq(Units) /\ wire' \o Rest(output_, k) = wire \o output_
      /\ Rest(output_, k) # <<>> => k < Len(output_)
      /\ wen' \in BOOLEAN /\ txFull' \in BOOLEAN
      /\ k < Len(output_) /\ channel_ = "open" => wen'
  BY <1>1, <1>2, <1>3, IsendFacts
<1>5. output_' # <<>> => output_ # <<>>
  BY <1>1, <1>2, <1>3, <1>4
<1>6. Call("hw2", "writable") \/ GoOn("hw2")
  BY Zenon DEF HandleWrite
<1> QED
  BY <1>2, <1>4, <1>5, <1>6, Zenon

\* Every step leaves a stack of calls, and none ends a call below the innermost
\* one: what is active under user code stays active.
LEMMA StackStep ==
  ASSUME stack \in Seq(Frames), Next
  PROVE  stack' \in Seq(Frames) /\ (Depth > 0 => Lower \subseteq On')
<1> USE DEF Frames, UserFrames
<1> DEFINE Goal == stack' \in Seq(Frames) /\ (Depth > 0 => Lower \subseteq On')
<1> SUFFICES Goal
  OBVIOUS
<1>0. stack' = stack => Goal
  <2> SUFFICES ASSUME stack' = stack PROVE Goal
    OBVIOUS
  <2>1. On' = On
    BY DEF On, Depth
  <2>2. Depth > 0 => Lower \subseteq On
    BY BelowFacts
  <2> QED
    BY <2>1, <2>2
<1>1. ASSUME NEW f \in Frames, Top(f) PROVE Depth > 0
  BY <1>1 DEF Top
<1>2. ASSUME NEW f \in Frames, Top(f), Return PROVE Goal
  BY <1>2, <1>1, ReturnFacts
<1>3. ASSUME NEW f \in Frames, Top(f), NEW g \in Frames, GoOn(g) PROVE Goal
  BY <1>3, <1>1, GoOnFacts
<1>4. ASSUME NEW f \in Frames, Top(f), NEW g \in Frames, NEW h \in Frames, Call(g, h) PROVE Goal
  BY <1>4, <1>1, CallFacts
<1> HIDE DEF Goal
<1>5. ASSUME NEW f \in {"hr", "hw"}, Handshake(f) PROVE Goal
  <2>1. Depth > 0 /\ Top(f) /\ f \in Frames
    BY <1>5 DEF Handshake, Top
  <2>2. Return \/ GoOn("state") \/ GoOn("loop") \/ Call("loop", "state")
    BY <1>5 DEF Handshake, Return, GoOn, Call
  <2> QED
    BY <2>1, <2>2, <1>2, <1>3, <1>4
<1>6. ASSUME NEW f \in {"hr", "hw"}, HandshakeFail(f) PROVE Goal
  BY <1>6, <1>3 DEF HandshakeFail
<1>7. CASE HandleRead \/ ReadEnd \/ HandleWriteBroken \/ CleanupReconnect
  BY <1>7, <1>3 DEF HandleRead, ReadEnd, HandleWriteBroken, CleanupReconnect
<1>8. CASE ReadLoopEnd \/ AfterWritable \/ CleanupEnd
  BY <1>8, <1>2 DEF ReadLoopEnd, AfterWritable, CleanupEnd
<1>9. CASE ReadAgain
  BY <1>9, <1>2, <1>3 DEF ReadAgain
<1>10. CASE HandleWrite \/ Cleanup \/ CleanupState
  BY <1>10, <1>3, <1>4 DEF HandleWrite, Cleanup, CleanupState
<1>11. CASE ReconnectLater
  BY <1>11, <1>0, <1>2 DEF ReconnectLater
<1>12. CASE UserReturn
  BY <1>12, <1>2 DEF UserReturn
<1>13. CASE UserSend \/ UserSendBuffer \/ UserSendMsg \/ UserCloseNow
  <2>1. \/ stack' = stack \/ Enter("cleanup") \/ Enter("hr")
    BY <1>13, Zenon DEF UserSend, UserSendBuffer, UserSendMsg, UserCloseNow
  <2>2. ASSUME NEW g \in Frames, Enter(g) PROVE Goal
    <3>1. stack' \in Seq(Frames) /\ On' = On \cup {g}
      BY <2>2, EnterFacts
    <3>2. Depth > 0 => Lower \subseteq On
      BY BelowFacts
    <3> QED
      BY <3>1, <3>2 DEF Goal
  <2> QED
    BY <2>1, <2>2, <1>0
<1>14. CASE Event \/ CloseTask \/ ConnectTimeout \/ LoopEnd
  <2>1. /\ <<"hr", "hw">> \in Seq(Frames) /\ <<"hr">> \in Seq(Frames)
        /\ <<"hw">> \in Seq(Frames) /\ <<"cleanup">> \in Seq(Frames)
    OBVIOUS
  <2>2. stack' \in {stack, <<"hr", "hw">>, <<"hr">>, <<"hw">>, <<"cleanup">>}
    BY <1>14, Zenon DEF Event, CloseTask, ConnectTimeout, LoopEnd
  <2>3. stack = <<>>
    BY <1>14, Zenon DEF Event, CloseTask, ConnectTimeout, LoopEnd, Idle
  <2>4. ~(Depth > 0)
    BY <2>3 DEF Depth
  <2> QED
    BY <2>1, <2>2, <2>4 DEF Goal
<1>15. CASE ReadData \/ UserConsume \/ UserClose \/ ReconnectNow \/ Exit \/ Network
  BY <1>15, <1>0 DEF ReadData, UserConsume, UserClose, ReconnectNow, Exit, Network
<1> QED
  BY <1>5, <1>6, <1>7, <1>8, <1>9, <1>10, <1>11, <1>12, <1>13, <1>14, <1>15, Zenon
  DEF Next, Internal, User

\* Every step keeps the types of the fields.
LEMMA FieldsStep ==
  ASSUME TypeOK, Next
  PROVE  FieldsOK'
<1> USE DEF conn, flags, base, kernel, hist
<1>1. FieldsOK
  BY TypeParts
<1>2. ASSUME NEW f \in {"hr", "hw"}, Handshake(f) PROVE FieldsOK'
  <2>1. state_' \in States /\ wen' \in BOOLEAN
    BY <1>2, Zenon DEF Handshake, States
  <2> QED
    BY <1>1, <1>2, <2>1 DEF FieldsOK, Handshake
<1>3. ASSUME NEW f \in {"hr", "hw"}, HandshakeFail(f) PROVE FieldsOK'
  BY <1>1, <1>3 DEF FieldsOK, HandshakeFail
<1>4. CASE HandleRead \/ ReadLoopEnd \/ ReadAgain \/ ReadEnd \/ HandleWriteBroken \/ Cleanup
           \/ CleanupReconnect \/ UserReturn \/ Event
  BY <1>1, <1>4 DEF FieldsOK, HandleRead, ReadLoopEnd, ReadAgain, ReadEnd,
    HandleWriteBroken, Cleanup, CleanupReconnect, UserReturn, Event
<1>5. CASE ReadData \/ UserConsume
  <2>1. input_' \in 0..1 /\ rx' \in 0..1
    BY <1>1, <1>5 DEF FieldsOK, ReadData, UserConsume
  <2> QED
    BY <1>1, <1>5, <2>1 DEF FieldsOK, ReadData, UserConsume
<1>6. CASE HandleWrite
  BY <1>1, <1>6, HandleWriteFacts DEF FieldsOK, HandleWrite
<1>7. CASE AfterWritable
  BY <1>1, <1>7 DEF FieldsOK, AfterWritable
<1>8. CASE CleanupState
  <2>1. notes' \in Nat
    BY <1>1, <1>8 DEF FieldsOK, CleanupState
  <2>2. state_' \in States /\ timer' \in BOOLEAN
    BY <1>8, Zenon DEF CleanupState, States
  <2> QED
    BY <1>1, <1>8, <2>1, <2>2 DEF FieldsOK, CleanupState
<1>9. CASE CleanupEnd
  BY <1>1, <1>9, Zenon DEF FieldsOK, CleanupEnd
<1>10. CASE ReconnectLater
  <2>1. recon' \in {"no", "timed", "orphan"} /\ channel_' \in {"null", "open", "closed"}
        /\ wen' \in BOOLEAN /\ bad' \in {"no", "null", "fatal"}
    BY <1>1, <1>10, Zenon DEF FieldsOK, ReconnectLater
  <2> QED
    BY <1>1, <1>10, <2>1, Zenon DEF FieldsOK, ReconnectLater
<1>11. CASE UserSend \/ UserSendBuffer \/ UserSendMsg
  <2>1. /\ sends' \in Units
        /\ output_' \in Seq(Units) /\ wire' \in Seq(Units)
        /\ wen' \in BOOLEAN /\ txFull' \in BOOLEAN /\ bad' \in {bad, "fatal"}
        /\ UNCHANGED <<flags, channel_, base, sock, rx, attempts, notes>>
    BY <1>11, SendFacts
  <2>2. sends' \in 0..MaxSends
    BY <2>1, ConnAssumption DEF Units
  <2> QED
    BY <1>1, <2>1, <2>2 DEF FieldsOK
<1>12. CASE UserCloseNow \/ UserClose
  <2>1. closeTask' \in BOOLEAN
    BY <1>1, <1>12, Zenon DEF FieldsOK, UserCloseNow, UserClose
  <2> QED
    BY <1>1, <1>12, <2>1 DEF FieldsOK, UserCloseNow, UserClose
<1>13. CASE CloseTask
  <2>1. closeTask' \in BOOLEAN
    BY <1>13, Zenon DEF CloseTask
  <2> QED
    BY <1>1, <1>13, <2>1 DEF FieldsOK, CloseTask
<1>14. CASE ConnectTimeout
  BY <1>1, <1>14, Zenon DEF FieldsOK, ConnectTimeout
<1>15. CASE ReconnectNow
  <2>1. attempts' \in 1..MaxAttempts /\ notes' \in Nat /\ rx' \in 0..1 /\ wire' \in Seq(Units)
    BY <1>1, <1>15, ConnAssumption DEF FieldsOK, ReconnectNow
  <2>2. timer' \in BOOLEAN /\ bad' \in {"no", "null", "fatal"} /\ state_' \in States
    BY <1>1, <1>15, Zenon DEF FieldsOK, ReconnectNow, States
  <2> QED
    BY <1>1, <1>15, <2>1, <2>2, Zenon DEF FieldsOK, ReconnectNow
<1>16. CASE Exit
  BY <1>1, <1>16 DEF FieldsOK, Exit
<1>17. CASE LoopEnd
  BY <1>1, <1>17 DEF FieldsOK, LoopEnd
<1>18. CASE Network /\ (PeerAnswers \/ PeerSends \/ PeerCloses \/ PeerResets \/ PeerReads)
  <2>1. rx' \in 0..1
    BY <1>1, <1>18 DEF FieldsOK, PeerAnswers, PeerSends, PeerCloses, PeerResets, PeerReads
  <2>2. sock' \in {"connecting", "refused", "up", "eof", "reset"} /\ txFull' \in BOOLEAN
    BY <1>1, <1>18, Zenon
    DEF FieldsOK, PeerAnswers, PeerSends, PeerCloses, PeerResets, PeerReads
  <2> QED
    BY <1>1, <1>18, <2>1, <2>2, Zenon DEF FieldsOK, Network
<1> QED
  BY <1>2, <1>3, <1>4, <1>5, <1>6, <1>7, <1>8, <1>9, <1>10, <1>11, <1>12, <1>13, <1>14, <1>15,
     <1>16, <1>17, <1>18, Zenon
  DEF Next, Internal, User

\* A step that changes nothing.
LEMMA StutterFacts ==
  ASSUME UNCHANGED vars
  PROVE  UNCHANGED <<state_, channel_, wen, input_, output_, cbs, timer, reconnects, recon, exit_,
                     ended, closeTask, sock, rx, txFull, stack, sends, attempts, wire, notes, bad>>
  BY DEF vars, conn, flags, base, kernel, hist

\* The types of the connection's fields, whatever user code does.
THEOREM ConnTypeCorrect == Spec => []TypeOK
<1>1. Init => TypeOK
  <2> SUFFICES ASSUME Init PROVE TypeOK
    OBVIOUS
  <2>1. /\ output_ \in Seq(Units) /\ wire \in Seq(Units) /\ stack \in Seq(Frames)
        /\ sends \in 0..MaxSends /\ attempts \in 1..MaxAttempts /\ notes \in Nat
        /\ input_ \in 0..1 /\ rx \in 0..1
    BY ConnAssumption DEF Init
  <2>2. wen \in BOOLEAN /\ cbs \in BOOLEAN /\ timer \in BOOLEAN /\ reconnects \in BOOLEAN
    BY ConnAssumption, Zenon DEF Init
  <2> QED
    BY <2>1, <2>2, TypeParts, Zenon DEF Init, FieldsOK, States
<1>2. TypeOK /\ [Next]_vars => TypeOK'
  <2> SUFFICES ASSUME TypeOK, [Next]_vars PROVE TypeOK'
    OBVIOUS
  <2>1. CASE Next
    <3>1. FieldsOK' /\ stack' \in Seq(Frames)
      BY <2>1, FieldsStep, StackStep, TypeParts
    <3> QED
      BY <3>1, TypeParts, Zenon DEF TypeOK, FieldsOK
  <2>2. CASE UNCHANGED vars
    BY <2>2, StutterFacts, Zenon DEF TypeOK, Units
  <2> QED
    BY <2>1, <2>2
<1> QED
  BY <1>1, <1>2, PTL DEF Spec

-----------------------------------------------------------------------------
(* What is sent on a first connection.                                      *)

\* User code sends nothing before the handshake is over.
SendsAfterHandshake == "Handshaking" \notin SendStates

CleanupFrames == {"cleanup", "cl2", "cl3", "rc"}
InCleanup == \E f \in CleanupFrames : f \in On

Increasing(s) == \A i, j \in 1..Len(s) : i < j => s[i] < s[j]

\* Nothing waits while the first connection is made.
HandshakeOutput == attempts = 1 /\ state_ = "Handshaking" => output_ = <<>>
\* What waits unwatched afterwards waits for cleanup, which is under way because
\* the peer is gone: the next send finds the connection broken.
OutputInv ==
  attempts = 1 /\ channel_ = "open" /\ state_ # "Handshaking" /\ output_ # <<>> /\ ~wen =>
    Hup /\ (bad # "no" \/ InCleanup)
\* The stream is in order, and below the number of the next send.
StreamInv ==
  attempts = 1 =>
    /\ Increasing(wire \o output_)
    /\ \A i \in 1..Len(wire \o output_) : (wire \o output_)[i] <= sends

OutputsInv == TypeOK /\ HandshakeOutput /\ OutputInv /\ StreamInv

\* cleanup, once entered, is active until it has closed the channel; a process
\* that has ended stays ended.
LEMMA CleanupPersists ==
  ASSUME stack \in Seq(Frames), Next, bad # "no" \/ InCleanup
  PROVE  bad' # "no" \/ InCleanup' \/ channel_' = "null"
<1> USE DEF Frames, UserFrames
<1>1. CASE bad # "no"
  <2>1. Exit
    BY <1>1, Zenon DEF Next, Internal, User, Handshake, HandshakeFail, HandleRead, ReadLoopEnd,
      ReadData, ReadAgain, ReadEnd, HandleWrite, HandleWriteBroken, AfterWritable, Cleanup,
      CleanupState, CleanupEnd, CleanupReconnect, ReconnectLater, UserConsume, UserSend,
      UserSendBuffer, UserSendMsg, UserCloseNow, UserClose, UserReturn, Event, CloseTask,
      ConnectTimeout, ReconnectNow, LoopEnd, Network, Sends, InUser, Idle, Top
  <2> QED
    BY <2>1, <1>1, Zenon DEF Exit
<1>2. CASE InCleanup
  <2>1. PICK c \in CleanupFrames : c \in On
    BY <1>2 DEF InCleanup
  <2>2. Depth \in Nat /\ Depth > 0
    <3>1. Depth \in Nat
      BY DEF Depth
    <3>2. PICK i \in 1..Depth : c = stack[i]
      BY <2>1 DEF On
    <3> QED
      BY <3>1, <3>2
  <2>3. CASE c \in Lower
    BY <2>2, <2>3, StackStep DEF InCleanup
  <2>4. CASE stack[Depth] = c
    <3>1. ASSUME NEW f \in Frames, Top(f) PROVE f = c
      BY <2>4, <3>1 DEF Top
    <3>2. ~Idle
      BY <2>2 DEF Idle, Depth
    <3>3. ASSUME NEW op, InUser(op) PROVE FALSE
      <4>1. PICK f \in UserFrames : Top(f)
        BY <3>2, <3>3, Zenon DEF InUser
      <4> QED
        BY <2>1, <3>1, <4>1 DEF CleanupFrames
    <3>4. ASSUME NEW g \in CleanupFrames, GoOn(g) PROVE InCleanup'
      <4>1. On' = Lower \cup {g}
        BY <3>4, <2>2, GoOnFacts DEF CleanupFrames
      <4> QED
        BY <4>1 DEF InCleanup
    <3>5. ASSUME NEW g \in CleanupFrames, NEW h \in UserFrames, Call(g, h) PROVE InCleanup'
      <4>1. On' = Lower \cup {g, h}
        BY <3>5, <2>2, CallFacts DEF CleanupFrames
      <4> QED
        BY <4>1 DEF InCleanup
    <3>6. CASE Cleanup \/ CleanupState \/ CleanupReconnect
      BY <3>6, <3>4, <3>5 DEF Cleanup, CleanupState, CleanupReconnect, CleanupFrames
    <3>7. CASE CleanupEnd \/ ReconnectLater
      BY <3>7, Zenon DEF CleanupEnd, ReconnectLater
    <3>8. CASE Exit \/ Network
      <4>1. stack' = stack
        BY <3>8 DEF Exit, Network
      <4>2. On' = On
        BY <4>1 DEF On, Depth
      <4> QED
        BY <4>2, <1>2 DEF InCleanup
    <3>9. ASSUME NEW f \in Frames \ CleanupFrames, Top(f) PROVE FALSE
      BY <3>9, <3>1
    <3>10. ~(\E f \in {"hr", "hw"} : Handshake(f) \/ HandshakeFail(f))
      BY <3>9 DEF Handshake, HandshakeFail, CleanupFrames
    <3>11. ~(HandleRead \/ ReadLoopEnd \/ ReadData \/ ReadAgain \/ ReadEnd \/ HandleWrite
             \/ HandleWriteBroken \/ AfterWritable)
      BY <3>9 DEF HandleRead, ReadLoopEnd, ReadData, ReadAgain, ReadEnd, HandleWrite,
        HandleWriteBroken, AfterWritable, CleanupFrames
    <3>12. ~(User \/ UserReturn)
      <4>1. ~User
        BY <3>3 DEF User, UserConsume, UserSend, UserSendBuffer, UserSendMsg, UserCloseNow,
          UserClose, Sends
      <4>2. ~UserReturn
        BY <3>9 DEF UserReturn, CleanupFrames
      <4> QED
        BY <4>1, <4>2
    <3>13. ~(Event \/ CloseTask \/ ConnectTimeout \/ ReconnectNow \/ LoopEnd)
      BY <3>2 DEF Event, CloseTask, ConnectTimeout, ReconnectNow, LoopEnd
    <3> QED
      BY <3>6, <3>7, <3>8, <3>10, <3>11, <3>12, <3>13, Zenon DEF Next, Internal
  <2> QED
    BY <2>1, <2>2, <2>3, <2>4, BelowFacts
<1> QED
  BY <1>1, <1>2

\* What waits in output_ stays watched, or its cleanup under way.
LEMMA OutputStep ==
  ASSUME SendsAfterHandshake, TypeOK, HandshakeOutput, OutputInv, Next
  PROVE  HandshakeOutput' /\ OutputInv'
<1> USE DEF conn, flags, base, kernel, hist
<1>1. stack \in Seq(Frames) /\ FieldsOK
  BY TypeParts
<1>2. ASSUME UNCHANGED <<attempts, state_, output_>>, Hup => Hup',
             output_ # <<>> => wen' = wen, channel_' = "open" => channel_ = "open"
      PROVE  HandshakeOutput' /\ OutputInv'
  <2>1. HandshakeOutput'
    BY <1>2, Zenon DEF HandshakeOutput
  <2>2. SUFFICES ASSUME attempts' = 1, channel_' = "open", state_' # "Handshaking",
                        output_' # <<>>, ~wen'
                 PROVE  Hup' /\ (bad' # "no" \/ InCleanup')
    BY <2>1 DEF OutputInv
  <2>3. Hup /\ (bad # "no" \/ InCleanup)
    <3>1. attempts = 1 /\ channel_ = "open" /\ state_ # "Handshaking" /\ output_ # <<>>
      BY <1>2, <2>2
    <3>2. ~wen
      BY <1>2, <2>2, <3>1
    <3> QED
      BY <3>1, <3>2 DEF OutputInv
  <2>4. Hup'
    BY <1>2, <2>3
  <2>5. channel_' # "null"
    BY <2>2
  <2> QED
    BY <1>1, <2>3, <2>4, <2>5, CleanupPersists
<1>3. ASSUME NEW f \in {"hr", "hw"}, Handshake(f) PROVE HandshakeOutput' /\ OutputInv'
  BY <1>3, Zenon DEF Handshake, HandshakeOutput, OutputInv
<1>4. ASSUME NEW f \in {"hr", "hw"}, HandshakeFail(f) PROVE HandshakeOutput' /\ OutputInv'
  BY <1>2, <1>4 DEF HandshakeFail, Hup
<1>5. CASE HandleRead \/ ReadLoopEnd \/ ReadAgain \/ ReadEnd \/ HandleWriteBroken \/ Cleanup
           \/ CleanupReconnect \/ UserReturn \/ Event
  <2>1. UNCHANGED <<attempts, state_, output_, sock, wen, channel_>>
    BY <1>5 DEF HandleRead, ReadLoopEnd, ReadAgain, ReadEnd, HandleWriteBroken, Cleanup,
      CleanupReconnect, UserReturn, Event
  <2> QED
    BY <1>2, <2>1 DEF Hup
<1>6. CASE ReadData \/ UserConsume \/ UserClose \/ UserCloseNow
  <2>1. UNCHANGED <<attempts, state_, output_, sock, wen>> /\ channel_' \in {channel_, "closed"}
    BY <1>6 DEF ReadData, UserConsume, UserClose, UserCloseNow
  <2> QED
    BY <1>2, <2>1 DEF Hup
<1>7. CASE HandleWrite
  <2>1. state_' = "Connected" /\ channel_' = channel_
    BY <1>7, Zenon DEF HandleWrite
  <2>2. output_' # <<>> /\ channel_ = "open" => wen'
    BY <1>7, HandleWriteFacts
  <2> QED
    BY <2>1, <2>2, Zenon DEF HandshakeOutput, OutputInv
<1>8. CASE AfterWritable
  <2>1. UNCHANGED <<attempts, state_, output_, sock, channel_>>
    BY <1>8 DEF AfterWritable
  <2>2. output_ # <<>> => wen' = wen
    BY <1>1, <1>8, Zenon DEF AfterWritable, FieldsOK
  <2> QED
    BY <1>2, <2>1, <2>2 DEF Hup
<1>9. CASE CleanupState
  <2>1. UNCHANGED <<attempts, output_, sock, channel_, wen>> /\ state_' # "Handshaking"
    BY <1>9 DEF CleanupState
  <2>2. CASE state_ = "Handshaking"
    BY <2>1, <2>2, Zenon DEF HandshakeOutput, OutputInv
  <2>3. CASE state_ # "Handshaking"
    <3>1. ASSUME attempts' = 1, channel_' = "open", output_' # <<>>, ~wen'
          PROVE  Hup' /\ (bad' # "no" \/ InCleanup')
      <4>1. Hup /\ (bad # "no" \/ InCleanup)
        BY <2>1, <2>3, <3>1, Zenon DEF OutputInv
      <4>2. Hup' /\ channel_' # "null"
        BY <2>1, <3>1, <4>1 DEF Hup
      <4> QED
        BY <1>1, <4>1, <4>2, CleanupPersists
    <3> QED
      BY <2>1, <3>1, Zenon DEF HandshakeOutput, OutputInv
  <2> QED
    BY <2>2, <2>3
<1>10. CASE CleanupEnd
  <2>1. UNCHANGED <<attempts, state_, output_>> /\ channel_' = "null"
    BY <1>10 DEF CleanupEnd
  <2> QED
    BY <2>1, Zenon DEF HandshakeOutput, OutputInv
<1>11. CASE ReconnectLater
  <2>1. UNCHANGED <<attempts, state_, output_, sock>>
    BY <1>11 DEF ReconnectLater
  <2>2. channel_' = "null" \/ (channel_' = channel_ /\ wen' = wen)
    BY <1>11, Zenon DEF ReconnectLater
  <2>3. CASE channel_' = "null"
    BY <2>1, <2>3, Zenon DEF HandshakeOutput, OutputInv
  <2>4. CASE channel_' = channel_ /\ wen' = wen
    BY <1>2, <2>1, <2>4 DEF Hup
  <2> QED
    BY <2>2, <2>3, <2>4
<1>12. CASE UserSend \/ UserSendBuffer \/ UserSendMsg
  <2>1. UNCHANGED <<attempts, state_, sock, channel_>> /\ state_ # "Handshaking"
    BY <1>12, SendFacts DEF SendsAfterHandshake
  <2>2. SUFFICES ASSUME attempts' = 1, channel_' = "open", output_' # <<>>, ~wen'
                 PROVE  Hup' /\ (bad' # "no" \/ InCleanup')
    BY <2>1 DEF HandshakeOutput, OutputInv
  <2>3. CASE Enter("cleanup") /\ sock \in {"reset", "refused"}
    <3>1. On' = On \cup {"cleanup"}
      BY <1>1, <2>3, EnterFacts DEF Frames
    <3>2. InCleanup'
      BY <3>1 DEF InCleanup, CleanupFrames
    <3> QED
      BY <2>1, <2>3, <3>2 DEF Hup
  <2>4. CASE output_ # <<>> /\ ~wen
    <3>1. Hup /\ (bad # "no" \/ InCleanup)
      BY <2>1, <2>2, <2>4, Zenon DEF OutputInv
    <3>2. Hup' /\ channel_' # "null"
      BY <2>1, <2>2, <3>1 DEF Hup
    <3> QED
      BY <1>1, <3>1, <3>2, CleanupPersists
  <2> QED
    BY <1>12, <2>1, <2>2, <2>3, <2>4, SendFacts
<1>13. CASE CloseTask \/ ConnectTimeout \/ LoopEnd
  <2>1. UNCHANGED <<attempts, state_, output_, sock, wen>> /\ channel_' \in {channel_, "closed"}
    BY <1>13, Zenon DEF CloseTask, ConnectTimeout, LoopEnd
  <2> QED
    BY <1>2, <2>1 DEF Hup
<1>14. CASE ReconnectNow
  <2>1. attempts' # 1
    BY <1>1, <1>14 DEF ReconnectNow, FieldsOK
  <2> QED
    BY <2>1 DEF HandshakeOutput, OutputInv
<1>15. CASE Exit
  BY <1>2, <1>15 DEF Exit, Hup
<1>16. CASE Network /\ (PeerAnswers \/ PeerSends \/ PeerCloses \/ PeerResets \/ PeerReads)
  <2>1. UNCHANGED <<attempts, state_, output_, wen, channel_>>
    BY <1>16 DEF Network
  <2>2. Hup => Hup'
    BY <1>16 DEF Hup, PeerAnswers, PeerSends, PeerCloses, PeerResets, PeerReads
  <2> QED
    BY <1>2, <2>1, <2>2
<1> QED
  BY <1>3, <1>4, <1>5, <1>6, <1>7, <1>8, <1>9, <1>10, <1>11, <1>12, <1>13, <1>14, <1>15, <1>16,
     Zenon
  DEF Next, Internal, User

\* The stream grows at its end, by the number of the new send.
LEMMA StreamStep ==
  ASSUME SendsAfterHandshake, TypeOK, OutputInv, StreamInv, Next
  PROVE  StreamInv'
<1> USE DEF conn, flags, base, kernel, hist
<1>1. stack \in Seq(Frames) /\ FieldsOK
  BY TypeParts
<1>2. CASE UserSend \/ UserSendBuffer \/ UserSendMsg
  <2> DEFINE old == wire \o output_
             new == wire' \o output_'
  <2>1. /\ sends' = sends + 1 /\ sends \in Nat
        /\ UNCHANGED <<attempts, channel_, state_, sock>> /\ state_ # "Handshaking"
    BY <1>1, <1>2, SendFacts, ConnAssumption DEF FieldsOK, SendsAfterHandshake
  <2>2. old \in Seq(Units) /\ Len(old) \in Nat
    BY <1>1 DEF FieldsOK
  <2>3. SUFFICES ASSUME attempts = 1 PROVE Increasing(new) /\ \A i \in 1..Len(new) : new[i] <= sends'
    BY <2>1 DEF StreamInv
  <2>4. Increasing(old) /\ \A i \in 1..Len(old) : old[i] <= sends
    BY <2>3 DEF StreamInv
  <2>5. \A i \in 1..Len(old) : old[i] \in Nat
    BY <2>2, ConnAssumption DEF Units
  <2>6. new = old \/ new = Append(old, sends')
    <3>1. ~(output_ # <<>> /\ ~wen /\ channel_ = "open" /\ sock \in {"up", "eof"})
      BY <2>1, <2>3 DEF OutputInv, Hup
    <3> QED
      BY <1>2, <3>1, SendFacts
  <2> HIDE DEF old, new
  <2>7. CASE new = old
    BY <2>1, <2>4, <2>5, <2>7
  <2>8. CASE new = Append(old, sends')
    <3>1. /\ Len(new) = Len(old) + 1 /\ new[Len(old) + 1] = sends'
          /\ \A i \in 1..Len(old) : new[i] = old[i]
      BY <2>1, <2>2, <2>8
    <3>2. \A i \in 1..Len(new) : i \in 1..Len(old) \/ i = Len(old) + 1
      BY <2>2, <3>1
    <3>3. \A i \in 1..Len(new) : new[i] <= sends'
      BY <2>1, <2>4, <2>5, <3>1, <3>2
    <3>4. ASSUME NEW i \in 1..Len(new), NEW j \in 1..Len(new), i < j PROVE new[i] < new[j]
      <4>1. i \in 1..Len(old)
        BY <2>2, <3>1, <3>4
      <4>2. CASE j \in 1..Len(old)
        BY <2>4, <3>1, <3>4, <4>1, <4>2 DEF Increasing
      <4>3. CASE j = Len(old) + 1
        BY <2>1, <2>4, <2>5, <3>1, <4>1, <4>3
      <4> QED
        BY <3>2, <4>2, <4>3
    <3> QED
      BY <3>3, <3>4 DEF Increasing
  <2> QED
    BY <2>6, <2>7, <2>8
<1>3. CASE HandleWrite
  <2>1. wire' \o output_' = wire \o output_ /\ attempts' = attempts /\ sends' = sends
    BY <1>3, HandleWriteFacts DEF HandleWrite
  <2> QED
    BY <2>1, Zenon DEF StreamInv
<1>4. CASE ReconnectNow
  BY <1>1, <1>4 DEF ReconnectNow, FieldsOK, StreamInv
<1>5. CASE UNCHANGED <<wire, output_, sends, attempts>>
  BY <1>5, Zenon DEF StreamInv
<1>6. ASSUME NEW f \in {"hr", "hw"}, Handshake(f) \/ HandshakeFail(f)
      PROVE  UNCHANGED <<wire, output_, sends, attempts>>
  BY <1>6 DEF Handshake, HandshakeFail
<1>7. CASE HandleRead \/ ReadLoopEnd \/ ReadData \/ ReadAgain \/ ReadEnd \/ HandleWriteBroken
           \/ AfterWritable \/ Cleanup \/ CleanupState \/ CleanupEnd \/ CleanupReconnect
           \/ ReconnectLater
  <2>1. UNCHANGED <<wire, output_, sends, attempts>>
    BY <1>7 DEF HandleRead, ReadLoopEnd, ReadData, ReadAgain, ReadEnd, HandleWriteBroken,
      AfterWritable, Cleanup, CleanupState, CleanupEnd, CleanupReconnect, ReconnectLater
  <2> QED
    BY <2>1, <1>5
<1>8. CASE UserConsume \/ UserCloseNow \/ UserClose \/ UserReturn \/ Event \/ CloseTask
           \/ ConnectTimeout \/ Exit \/ LoopEnd \/ Network
  <2>1. UNCHANGED <<wire, output_, sends, attempts>>
    BY <1>8 DEF UserConsume, UserCloseNow, UserClose, UserReturn, Event, CloseTask,
      ConnectTimeout, Exit, LoopEnd, Network
  <2> QED
    BY <2>1, <1>5
<1> QED
  BY <1>2, <1>3, <1>4, <1>5, <1>6, <1>7, <1>8, Zenon DEF Next, Internal, User

\* The invariant behind the two theorems on output.
THEOREM OutputsInvariant ==
  ASSUME SendsAfterHandshake
  PROVE  Spec => []OutputsInv
<1>1. Init => HandshakeOutput /\ OutputInv /\ StreamInv
  BY DEF Init, HandshakeOutput, OutputInv, StreamInv, Increasing
<1>2. TypeOK /\ OutputsInv /\ [Next]_vars => (HandshakeOutput /\ OutputInv /\ StreamInv)'
  <2> SUFFICES ASSUME OutputsInv, [Next]_vars PROVE (HandshakeOutput /\ OutputInv /\ StreamInv)'
    OBVIOUS
  <2>1. CASE Next
    BY <2>1, OutputStep, StreamStep DEF OutputsInv
  <2>2. CASE UNCHANGED vars
    BY <2>2, StutterFacts, Zenon DEF OutputsInv, HandshakeOutput, OutputInv, StreamInv, InCleanup,
      On, Depth, Hup
  <2> QED
    BY <2>1, <2>2
<1>3. OutputsInv <=> TypeOK /\ (HandshakeOutput /\ OutputInv /\ StreamInv)
  BY DEF OutputsInv
<1> QED
  BY <1>1, <1>2, <1>3, ConnTypeCorrect, PTL DEF Spec

\* WireInOrder: if user code does not send before the handshake is over, the
\* units of a first connection reach the socket in the order of the sends,
\* however send, send(Buffer&) and sendMsg are mixed and whatever the callbacks
\* do besides.
THEOREM WireStaysInOrder ==
  ASSUME SendsAfterHandshake
  PROVE  Spec => []WireInOrder
<1>1. OutputsInv => WireInOrder
  BY DEF OutputsInv, StreamInv, Increasing, WireInOrder
<1> QED
  BY <1>1, OutputsInvariant, PTL

\* FirstOutputArmed: and what is left in output_ is always watched when control
\* is back in the loop.
THEOREM FirstOutputStaysArmed ==
  ASSUME SendsAfterHandshake
  PROVE  Spec => []FirstOutputArmed
<1>1. OutputsInv => FirstOutputArmed
  <2> SUFFICES ASSUME OutputsInv, Idle, state_ = "Connected", channel_ = "open", output_ # <<>>,
                      attempts = 1, ~wen
               PROVE  FALSE
    BY Zenon DEF FirstOutputArmed
  <2>1. bad # "no" \/ InCleanup
    BY Zenon DEF OutputsInv, OutputInv
  <2>2. On = {}
    BY DEF Idle, On, Depth
  <2> QED
    BY <2>1, <2>2 DEF InCleanup, Idle
<1> QED
  BY <1>1, OutputsInvariant, PTL

-----------------------------------------------------------------------------
(* The end of a connection, for user code that keeps to three rules.        *)

\* User code sends when connected only, neither sends nor calls closeNow in
\* readcb_ and writablecb_, and does not call closeNow in statecb_.  Tasks may do
\* anything, and close() is allowed everywhere.
CarefulUser ==
  /\ ReadOps \cup WritableOps \subseteq {"consume", "close"}
  /\ "closeNow" \notin StateOps
  /\ SendStates \subseteq {"Connected"}

Up == state_ \in {"Handshaking", "Connected"}

\* Calls that may have anything above them, and those that wait for one callback.
Plain == {"hr", "loop", "state"}
Waits(g, f) ==
  \/ g = "cl2" /\ f = "read"
  \/ g = "cl3" /\ f = "state"
  \/ g = "hw2" /\ f = "writable"

\* Under a callback at most one call waits for it, and cleanup is not entered
\* while it is active.
StackInv ==
  /\ \A i \in 1..(Depth - 2) : stack[i] \in Plain
  /\ Depth > 1 => stack[Depth - 1] \in Plain \/ Waits(stack[Depth - 1], stack[Depth])

Ending == "cl3" \in On \/ "rc" \in On
Starting == "cleanup" \in On \/ "cl2" \in On

\* What an active call may rely on: a connection that is up has a channel, one
\* that is over keeps it only until its cleanup is done; handleWrite and
\* reconnect still have it; a closed channel is about to be cleaned up, and no
\* code that could send runs before that.
ChannelInv ==
  /\ bad = "no"
  /\ Up => Live
  /\ ~Up => ~Live \/ Ending
  /\ "loop" \in On => state_ # "Handshaking"
  /\ channel_ = "closed" => "hr" \in On \/ "loop" \in On \/ InCleanup
  /\ channel_ = "closed" /\ Up => {"state", "hw", "hw2"} \cap On = {}
  /\ InCleanup => Live \/ exit_
  /\ "rc" \in On \/ "hw2" \in On => Live
  /\ Starting => exit_ \/ Up
  /\ Ending => ~Up
\* The connect timeout is cancelled with the channel; only a connection that is
\* over and done waits to reconnect.
TimerInv ==
  /\ ~Live \/ Ending => ~timer
  /\ recon # "no" => ~Up /\ ~Live
\* No end is told while the connection is up, and then one.
NotesInv ==
  /\ exit_ \/ notes <= 1
  /\ Up => exit_ \/ notes = 0

LifeInv == ChannelInv /\ TimerInv /\ NotesInv
ConnInv == TypeOK /\ StackInv /\ LifeInv

\* What is below the innermost call f.
LEMMA TopFacts ==
  ASSUME stack \in Seq(Frames), StackInv, NEW f \in Frames, Top(f)
  PROVE  /\ Depth > 0 /\ On = Lower \cup {f}
         /\ \A g \in Lower : g \in Plain \/ Waits(g, f)
         /\ f \notin UserFrames => Lower \subseteq Plain
<1>1. Depth > 0 /\ stack[Depth] = f /\ Depth \in Nat /\ On = Lower \cup {f}
  BY BelowFacts DEF Top
<1>2. ASSUME NEW g \in Lower PROVE g \in Plain \/ Waits(g, f)
  <2>1. PICK i \in 1..(Depth - 1) : g = stack[i]
    BY <1>2 DEF Lower
  <2>2. CASE i = Depth - 1
    <3>1. Depth > 1
      BY <1>1, <2>1, <2>2
    <3> QED
      BY <1>1, <2>1, <2>2, <3>1 DEF StackInv
  <2>3. CASE i # Depth - 1
    <3>1. i \in 1..(Depth - 2)
      BY <1>1, <2>1, <2>3
    <3> QED
      BY <2>1, <3>1 DEF StackInv
  <2> QED
    BY <2>2, <2>3
<1>3. f \notin UserFrames => Lower \subseteq Plain
  BY <1>2 DEF UserFrames, Waits
<1> QED
  BY <1>1, <1>2, <1>3

\* User code that sends, or calls closeNow, does so in statecb_ or in a task.
LEMMA CarefulFacts ==
  ASSUME CarefulUser, NEW op \in Ops \ {"consume", "close"}, InUser(op)
  PROVE  /\ Idle \/ Top("state")
         /\ op = "closeNow" => Idle
<1>1. ReadOps \subseteq {"consume", "close"} /\ WritableOps \subseteq {"consume", "close"}
  BY DEF CarefulUser
<1>2. CASE Idle
  BY <1>2
<1>3. ASSUME NEW f \in UserFrames, Top(f), op \in OpsAt(f) PROVE f = "state" /\ op # "closeNow"
  <2>1. f # "read" /\ f # "writable"
    BY <1>1, <1>3 DEF OpsAt
  <2>2. f = "state"
    BY <2>1 DEF UserFrames
  <2>3. op # "closeNow"
    BY <1>3, <2>2 DEF OpsAt, CarefulUser
  <2> QED
    BY <2>2, <2>3
<1> QED
  BY <1>2, <1>3 DEF InUser

\* The shape of the stack is kept.
LEMMA ShapeStep ==
  ASSUME CarefulUser, TypeOK, StackInv, ChannelInv, Next
  PROVE  StackInv'
<1> USE DEF Frames, UserFrames
<1>0. stack \in Seq(Frames) /\ Depth \in Nat
  BY DEF TypeOK, Depth
<1>1. ASSUME NEW f \in Frames, Top(f), Return PROVE StackInv'
  <2>1. /\ Depth > 0 /\ Depth' = Depth - 1
        /\ \A i \in 1..(Depth - 1) : stack'[i] = stack[i]
    BY <1>0, <1>1, ReturnFacts DEF Top
  <2>2. \A i \in 1..(Depth' - 2) : i \in 1..(Depth - 2) /\ i \in 1..(Depth - 1)
    BY <1>0, <2>1
  <2>3. Depth' > 1 => Depth' - 1 \in 1..(Depth - 2) /\ Depth' - 1 \in 1..(Depth - 1)
    BY <1>0, <2>1
  <2> QED
    BY <2>1, <2>2, <2>3 DEF StackInv
<1>2. ASSUME NEW f \in Frames \ UserFrames, Top(f), NEW g \in Frames, GoOn(g) PROVE StackInv'
  <2>1. Depth > 0 /\ Lower \subseteq Plain
    BY <1>0, <1>2, TopFacts
  <2>2. Depth' = Depth /\ \A i \in 1..(Depth - 1) : stack'[i] = stack[i]
    BY <1>0, <1>2, <2>1, GoOnFacts
  <2>3. \A i \in 1..(Depth - 1) : stack'[i] \in Plain
    BY <2>1, <2>2 DEF Lower
  <2>4. \A i \in 1..(Depth - 2) : i \in 1..(Depth - 1)
    BY <1>0
  <2>5. Depth > 1 => Depth - 1 \in 1..(Depth - 1)
    BY <1>0
  <2> QED
    BY <2>2, <2>3, <2>4, <2>5 DEF StackInv
<1>3. ASSUME NEW f \in Frames \ UserFrames, Top(f), NEW g \in Frames, NEW h \in Frames, Call(g, h),
             g \in Plain \/ Waits(g, h)
      PROVE  StackInv'
  <2>1. Depth > 0 /\ Lower \subseteq Plain
    BY <1>0, <1>3, TopFacts
  <2>2. /\ Depth' = Depth + 1 /\ stack'[Depth] = g /\ stack'[Depth + 1] = h
        /\ \A i \in 1..(Depth - 1) : stack'[i] = stack[i]
    BY <1>0, <1>3, <2>1, CallFacts
  <2>3. \A i \in 1..(Depth - 1) : stack'[i] \in Plain
    BY <2>1, <2>2 DEF Lower
  <2>4. Depth' - 2 = Depth - 1 /\ Depth' - 1 = Depth
    BY <1>0, <2>2
  <2> QED
    BY <1>3, <2>2, <2>3, <2>4 DEF StackInv
<1>4. ASSUME On \subseteq Plain, NEW g \in Frames, Enter(g) PROVE StackInv'
  <2>1. Depth' = Depth + 1 /\ \A i \in 1..Depth : stack'[i] = stack[i]
    BY <1>0, <1>4, EnterFacts
  <2>2. \A i \in 1..Depth : stack'[i] \in Plain
    BY <1>4, <2>1 DEF On
  <2>3. Depth' - 1 = Depth /\ \A i \in 1..(Depth' - 2) : i \in 1..Depth
    BY <1>0, <2>1
  <2>4. Depth' > 1 => Depth \in 1..Depth
    BY <1>0, <2>1
  <2> QED
    BY <2>2, <2>3, <2>4 DEF StackInv
<1>5. stack' = stack => StackInv'
  BY DEF StackInv, Depth
<1>6. ASSUME NEW f \in {"hr", "hw"}, Handshake(f) PROVE StackInv'
  <2>1. Top(f) /\ f \in Frames \ UserFrames
    BY <1>6 DEF Handshake
  <2>2. Return \/ GoOn("state") \/ GoOn("loop") \/ Call("loop", "state")
    BY <1>6 DEF Handshake, Return, GoOn, Call
  <2>3. "loop" \in Plain
    BY DEF Plain
  <2> QED
    BY <2>1, <2>2, <2>3, <1>1, <1>2, <1>3
<1>7. ASSUME NEW f \in {"hr", "hw"}, HandshakeFail(f) PROVE StackInv'
  BY <1>7, <1>2 DEF HandshakeFail
<1>8. CASE HandleRead \/ ReadEnd \/ HandleWriteBroken \/ CleanupReconnect
  BY <1>8, <1>2 DEF HandleRead, ReadEnd, HandleWriteBroken, CleanupReconnect
<1>9. CASE ReadLoopEnd \/ AfterWritable \/ CleanupEnd
  BY <1>9, <1>1 DEF ReadLoopEnd, AfterWritable, CleanupEnd
<1>10. CASE ReadAgain
  BY <1>10, <1>1, <1>2 DEF ReadAgain
<1>11. CASE HandleWrite \/ Cleanup \/ CleanupState
  <2>1. Waits("hw2", "writable") /\ Waits("cl2", "read") /\ Waits("cl3", "state")
    BY DEF Waits
  <2> QED
    BY <1>11, <2>1, <1>2, <1>3 DEF HandleWrite, Cleanup, CleanupState
<1>12. CASE ReconnectLater
  BY <1>12, <1>1, <1>5 DEF ReconnectLater
<1>13. CASE UserReturn
  BY <1>13, <1>1 DEF UserReturn
<1>14. CASE UserSend \/ UserSendBuffer \/ UserSendMsg
  <2>1. Up /\ \E op \in Ops \ {"consume", "close"} : InUser(op)
    <3>1. state_ \in SendStates
      BY <1>14, SendFacts
    <3>2. \E op \in {"send", "sendBuffer", "sendMsg"} : Sends(op)
      BY <1>14, Zenon DEF UserSend, UserSendBuffer, UserSendMsg
    <3> QED
      BY <3>1, <3>2 DEF CarefulUser, Up, Ops, Sends
  <2>2. Idle \/ Top("state")
    BY <2>1, CarefulFacts
  <2>3. On \subseteq Plain
    <3>1. CASE Idle
      BY <3>1 DEF Idle, On, Depth
    <3>2. CASE Top("state")
      <4>1. ~Ending
        BY <2>1 DEF ChannelInv
      <4> QED
        BY <1>0, <3>2, <4>1, TopFacts DEF Ending, Plain, Waits
    <3> QED
      BY <2>2, <3>1, <3>2
  <2> QED
    BY <1>14, <1>4, <1>5, <2>3, SendFacts
<1>15. CASE UserCloseNow
  <2>1. Idle /\ Enter("hr")
    BY <1>15, CarefulFacts DEF UserCloseNow, Ops
  <2>2. On \subseteq Plain
    BY <2>1 DEF Idle, On, Depth
  <2> QED
    BY <2>1, <2>2, <1>4
<1>16. CASE Event \/ CloseTask \/ ConnectTimeout \/ LoopEnd
  <2>1. stack' \in {stack, <<"hr", "hw">>, <<"hr">>, <<"hw">>, <<"cleanup">>}
    BY <1>16, Zenon DEF Event, CloseTask, ConnectTimeout, LoopEnd
  <2>2. CASE stack' \in {<<"hr">>, <<"hw">>, <<"cleanup">>}
    <3>1. Depth' = 1
      BY <2>2 DEF Depth
    <3> QED
      BY <3>1 DEF StackInv
  <2>3. CASE stack' = <<"hr", "hw">>
    <3>1. Depth' = 2 /\ stack'[1] = "hr"
      BY <2>3 DEF Depth
    <3> QED
      BY <3>1 DEF StackInv, Plain
  <2> QED
    BY <1>5, <2>1, <2>2, <2>3
<1>17. CASE ReadData \/ UserConsume \/ UserClose \/ ReconnectNow \/ Exit \/ Network
  BY <1>17, <1>5 DEF ReadData, UserConsume, UserClose, ReconnectNow, Exit, Network
<1> QED
  BY <1>6, <1>7, <1>8, <1>9, <1>10, <1>11, <1>12, <1>13, <1>14, <1>15, <1>16, <1>17, Zenon
  DEF Next, Internal, User

\* What every active call relies on is kept.
LEMMA LifeStep ==
  ASSUME CarefulUser, TypeOK, StackInv, LifeInv, Next
  PROVE  LifeInv'
<1> USE DEF conn, flags, base, kernel, hist, Frames, UserFrames
<1>1. stack \in Seq(Frames) /\ FieldsOK
  BY TypeParts
<1>2. notes \in Nat
  BY <1>1 DEF FieldsOK
\* The steps by which a handler goes on, below which only plain calls are active.
<1>3. ASSUME NEW f \in Frames \ UserFrames, Top(f)
      PROVE  Depth > 0 /\ On = Lower \cup {f} /\ Lower \subseteq Plain
  BY <1>1, <1>3, TopFacts
<1>4. ASSUME NEW f \in Frames \ UserFrames, Top(f), Return PROVE On' = Lower
  BY <1>1, <1>3, <1>4, ReturnFacts
<1>5. ASSUME NEW f \in Frames \ UserFrames, Top(f), NEW g \in Frames, GoOn(g)
      PROVE  On' = Lower \cup {g}
  BY <1>1, <1>3, <1>5, GoOnFacts
<1>6. ASSUME NEW f \in Frames \ UserFrames, Top(f), NEW g \in Frames, NEW h \in Frames, Call(g, h)
      PROVE  On' = Lower \cup {g, h}
  BY <1>1, <1>3, <1>6, CallFacts
<1>7. stack' = stack => On' = On
  BY DEF On, Depth
<1>8. Idle => On = {}
  BY DEF Idle, On, Depth
<1> USE DEF LifeInv, ChannelInv, TimerInv, NotesInv, Up, Live, Ending, Starting, InCleanup,
        CleanupFrames, Plain
<1>9. ASSUME NEW f \in {"hr", "hw"}, Handshake(f) PROVE LifeInv'
  <2>1. Top(f) /\ f \in Frames \ UserFrames
    BY <1>9 DEF Handshake
  <2>2. Return \/ GoOn("state") \/ GoOn("loop") \/ Call("loop", "state")
    BY <1>9 DEF Handshake, Return, GoOn, Call
  <2>3. On' \subseteq Plain /\ Lower \subseteq On'
    BY <2>1, <2>2, <1>3, <1>4, <1>5, <1>6
  <2>4. /\ state_ = "Handshaking" /\ state_' = "Connected" /\ channel_ = "open"
        /\ UNCHANGED <<channel_, timer, recon, exit_, notes, bad>>
    BY <1>9 DEF Handshake, Writable
  <2> QED
    BY <2>3, <2>4
<1>10. ASSUME NEW f \in {"hr", "hw"}, HandshakeFail(f) PROVE LifeInv'
  <2>1. On' = Lower \cup {"cleanup"} /\ Lower \subseteq Plain /\ On = Lower \cup {f}
    BY <1>10, <1>3, <1>5 DEF HandshakeFail
  <2>2. state_ = "Handshaking" /\ UNCHANGED <<state_, channel_, timer, recon, exit_, notes, bad>>
    BY <1>10 DEF HandshakeFail
  <2> QED
    BY <2>1, <2>2
<1>11. CASE HandleRead
  <2>1. On' = Lower \cup {"loop"} /\ Lower \subseteq Plain /\ On = Lower \cup {"hr"}
    BY <1>11, <1>3, <1>5 DEF HandleRead
  <2>2. state_ # "Handshaking" /\ UNCHANGED <<state_, channel_, timer, recon, exit_, notes, bad>>
    BY <1>11 DEF HandleRead
  <2> QED
    BY <2>1, <2>2
<1>12. CASE ReadLoopEnd
  <2>1. On' = Lower /\ Lower \subseteq Plain /\ On = Lower \cup {"loop"}
    BY <1>12, <1>3, <1>4 DEF ReadLoopEnd
  <2>2. state_ # "Connected" /\ UNCHANGED <<state_, channel_, timer, recon, exit_, notes, bad>>
    BY <1>12 DEF ReadLoopEnd
  <2>3. ~Up /\ ~Live
    BY <2>1, <2>2
  <2> QED
    BY <2>1, <2>2, <2>3
<1>13. CASE ReadAgain
  <2>1. /\ Lower \subseteq Plain /\ On = Lower \cup {"loop"}
        /\ On' = Lower \/ On' = Lower \cup {"read"}
    BY <1>13, <1>3, <1>4, <1>5 DEF ReadAgain
  <2>2. /\ state_ = "Connected" /\ channel_ = "open"
        /\ UNCHANGED <<state_, channel_, timer, recon, exit_, notes, bad>>
    BY <1>13 DEF ReadAgain
  <2> QED
    BY <2>1, <2>2
<1>14. CASE ReadEnd \/ HandleWriteBroken
  <2>1. /\ Lower \subseteq Plain /\ On' = Lower \cup {"cleanup"}
        /\ On = Lower \cup {"loop"} \/ On = Lower \cup {"hw"}
    BY <1>14, <1>3, <1>5 DEF ReadEnd, HandleWriteBroken
  <2>2. state_ = "Connected" /\ UNCHANGED <<state_, channel_, timer, recon, exit_, notes, bad>>
    BY <1>14 DEF ReadEnd, HandleWriteBroken
  <2> QED
    BY <2>1, <2>2
<1>15. CASE HandleWrite
  <2>1. /\ Lower \subseteq Plain /\ On = Lower \cup {"hw"}
        /\ On' = Lower \cup {"hw2"} \/ On' = Lower \cup {"hw2", "writable"}
    <3>1. Top("hw") /\ (Call("hw2", "writable") \/ GoOn("hw2"))
      BY <1>15, HandleWriteFacts DEF HandleWrite
    <3> QED
      BY <3>1, <1>3, <1>5, <1>6
  <2>2. state_ = "Connected" /\ UNCHANGED <<state_, channel_, timer, recon, exit_, notes, bad>>
    BY <1>15 DEF HandleWrite
  <2> QED
    BY <2>1, <2>2
<1>16. CASE AfterWritable
  <2>1. On' = Lower /\ Lower \subseteq Plain /\ On = Lower \cup {"hw2"}
    BY <1>16, <1>3, <1>4 DEF AfterWritable
  <2>2. Live
    BY <2>1
  <2>3. UNCHANGED <<state_, channel_, timer, recon, exit_, notes, bad>>
    BY <1>16, <2>2 DEF AfterWritable
  <2> QED
    BY <2>1, <2>2, <2>3
<1>17. CASE Cleanup
  <2>1. /\ Lower \subseteq Plain /\ On = Lower \cup {"cleanup"}
        /\ On' = Lower \cup {"cl2"} \/ On' = Lower \cup {"cl2", "read"}
    BY <1>17, <1>3, <1>5, <1>6 DEF Cleanup
  <2>2. UNCHANGED <<state_, channel_, timer, recon, exit_, notes, bad>>
    BY <1>17 DEF Cleanup
  <2> QED
    BY <2>1, <2>2
<1>18. CASE CleanupState
  <2>1. /\ Lower \subseteq Plain /\ On = Lower \cup {"cl2"}
        /\ On' = Lower \cup {"cl3"} \/ On' = Lower \cup {"cl3", "state"}
    BY <1>18, <1>3, <1>5, <1>6 DEF CleanupState
  <2>2. /\ state_' \in {"Failed", "Closed"} /\ ~timer'
        /\ UNCHANGED <<channel_, recon, exit_, bad>>
        /\ notes' = notes \/ notes' = notes + 1
    BY <1>18 DEF CleanupState
  <2>3. exit_ \/ notes' <= 1
    BY <1>2, <2>1, <2>2
  <2> QED
    BY <2>1, <2>2, <2>3
<1>19. CASE CleanupEnd
  <2>1. On' = Lower /\ Lower \subseteq Plain /\ On = Lower \cup {"cl3"}
    BY <1>19, <1>3, <1>4 DEF CleanupEnd
  <2>2. channel_' = "null" /\ UNCHANGED <<state_, timer, recon, exit_, notes, bad>>
    BY <1>19 DEF CleanupEnd
  <2>3. ~Up /\ ~timer
    BY <2>1
  <2> QED
    BY <2>1, <2>2, <2>3
<1>20. CASE CleanupReconnect
  <2>1. On' = Lower \cup {"rc"} /\ Lower \subseteq Plain /\ On = Lower \cup {"cl3"}
    BY <1>20, <1>3, <1>5 DEF CleanupReconnect
  <2>2. ~exit_ /\ UNCHANGED <<state_, channel_, timer, recon, exit_, notes, bad>>
    BY <1>20 DEF CleanupReconnect
  <2>3. ~Up /\ ~timer /\ Live
    BY <2>1, <2>2
  <2> QED
    BY <2>1, <2>2, <2>3
<1>21. CASE ReconnectLater
  <2>1. Lower \subseteq Plain /\ On = Lower \cup {"rc"}
    BY <1>21, <1>3 DEF ReconnectLater
  <2>2. ~Up /\ ~timer /\ Live
    BY <2>1
  <2>3. Return /\ channel_' = "null" /\ UNCHANGED <<state_, timer, exit_, notes, bad>>
    BY <1>21, <2>2 DEF ReconnectLater
  <2>4. On' = Lower
    BY <1>21, <2>3, <1>4 DEF ReconnectLater
  <2> QED
    BY <2>1, <2>2, <2>3, <2>4
<1>22. CASE UserReturn
  <2>1. PICK f \in UserFrames : Top(f)
    BY <1>22 DEF UserReturn
  <2>2. On = Lower \cup {f} /\ On' = Lower
    BY <1>1, <1>22, <2>1, TopFacts, ReturnFacts DEF UserReturn
  <2>3. UNCHANGED <<state_, channel_, timer, recon, exit_, notes, bad>>
    BY <1>22 DEF UserReturn
  <2> QED
    BY <2>2, <2>3
<1>23. CASE UserSend \/ UserSendBuffer \/ UserSendMsg
  <2>1. /\ state_ = "Connected" /\ UNCHANGED <<state_, channel_, timer, recon, exit_, notes>>
    BY <1>23, SendFacts DEF CarefulUser
  <2>2. Idle \/ Top("state")
    <3>1. \E op \in {"send", "sendBuffer", "sendMsg"} : Sends(op)
      BY <1>23, Zenon DEF UserSend, UserSendBuffer, UserSendMsg
    <3> QED
      BY <3>1, CarefulFacts DEF Sends, Ops
  <2>3. channel_ # "closed"
    <3>1. CASE Idle
      BY <3>1, <1>8
    <3>2. CASE Top("state")
      <4>1. "state" \in On
        BY <1>1, <3>2, TopFacts
      <4> QED
        BY <2>1, <4>1
    <3> QED
      BY <2>2, <3>1, <3>2
  <2>4. CASE stack' = stack
    <3>1. On' = On /\ bad' = bad
      BY <1>7, <1>23, <2>3, <2>4, SendFacts
    <3> QED
      BY <2>1, <3>1
  <2>5. CASE Enter("cleanup") /\ bad' = bad /\ channel_ = "open"
    <3>1. On' = On \cup {"cleanup"}
      BY <1>1, <2>5, EnterFacts
    <3> QED
      BY <2>1, <2>5, <3>1
  <2> QED
    BY <1>23, <2>4, <2>5, SendFacts
<1>24. CASE UserCloseNow
  <2>1. Idle /\ Enter("hr") /\ channel_ = "open" /\ channel_' = "closed"
    BY <1>24, CarefulFacts DEF UserCloseNow, Ops
  <2>2. On = {} /\ On' = {"hr"}
    BY <1>1, <1>8, <2>1, EnterFacts
  <2>3. UNCHANGED <<state_, timer, recon, exit_, notes, bad>>
    BY <1>24 DEF UserCloseNow
  <2> QED
    BY <2>1, <2>2, <2>3
<1>25. CASE ReadData \/ UserConsume \/ UserClose \/ Network
  <2>1. UNCHANGED <<state_, channel_, timer, recon, exit_, notes, bad, stack>>
    BY <1>25 DEF ReadData, UserConsume, UserClose, Network
  <2> QED
    BY <2>1, <1>7
<1>26. CASE Event
  <2>1. channel_ = "open" /\ On = {} /\ UNCHANGED <<state_, channel_, timer, recon, exit_, notes, bad>>
    BY <1>8, <1>26 DEF Event
  <2>2. stack' = <<"hr", "hw">> \/ stack' = <<"hr">> \/ stack' = <<"hw">>
    BY <1>26 DEF Event
  <2>3. On' \subseteq {"hr", "hw"}
    BY <2>2 DEF On, Depth
  <2> QED
    BY <2>1, <2>3
<1>27. CASE CloseTask
  <2>1. On = {} /\ UNCHANGED <<state_, timer, recon, exit_, notes, bad>>
    BY <1>8, <1>27 DEF CloseTask
  <2>2. CASE channel_ = "open"
    <3>1. channel_' = "closed" /\ stack' = <<"hr">>
      BY <1>27, <2>2 DEF CloseTask
    <3>2. On' = {"hr"}
      BY <3>1 DEF On, Depth
    <3> QED
      BY <2>1, <2>2, <3>1, <3>2
  <2>3. CASE channel_ # "open"
    <3>1. channel_' = channel_ /\ stack' = stack
      BY <1>27, <2>3 DEF CloseTask
    <3> QED
      BY <2>1, <3>1, <1>7
  <2> QED
    BY <2>2, <2>3
<1>28. CASE ConnectTimeout
  <2>1. On = {} /\ timer /\ ~timer' /\ UNCHANGED <<state_, recon, exit_, notes>>
    BY <1>8, <1>28 DEF ConnectTimeout
  <2>2. bad' = bad
    BY <1>28, <2>1 DEF ConnectTimeout
  <2>3. CASE state_ = "Handshaking" /\ channel_ = "open"
    <3>1. channel_' = "closed" /\ stack' = <<"hr">>
      BY <1>28, <2>3 DEF ConnectTimeout
    <3>2. On' = {"hr"}
      BY <3>1 DEF On, Depth
    <3> QED
      BY <2>1, <2>2, <2>3, <3>1, <3>2
  <2>4. CASE ~(state_ = "Handshaking" /\ channel_ = "open")
    <3>1. channel_' = channel_ /\ stack' = stack
      BY <1>28, <2>4 DEF ConnectTimeout
    <3> QED
      BY <2>1, <2>2, <3>1, <1>7
  <2> QED
    BY <2>3, <2>4
<1>29. CASE ReconnectNow
  <2>1. /\ On = {} /\ recon = "timed" /\ recon' = "no" /\ state_' = "Handshaking"
        /\ channel_' = "open" /\ notes' = 0 /\ stack' = stack /\ exit_' = exit_
    BY <1>8, <1>29 DEF ReconnectNow
  <2>2. state_ \in {"Closed", "Failed"}
    BY <1>1, <2>1 DEF FieldsOK, States
  <2>3. bad' = bad
    BY <1>29, <2>2 DEF ReconnectNow
  <2> QED
    BY <2>1, <2>3, <1>7
<1>30. CASE Exit
  <2>1. exit_' /\ On' = On /\ UNCHANGED <<state_, channel_, timer, recon, notes, bad>>
    BY <1>7, <1>30 DEF Exit
  <2> QED
    BY <2>1
<1>31. CASE LoopEnd
  <2>1. On = {} /\ exit_ /\ ~timer' /\ recon' = "no" /\ UNCHANGED <<state_, exit_, notes, bad>>
    BY <1>8, <1>31 DEF LoopEnd
  <2>2. CASE recon # "no"
    <3>1. stack' = <<"cleanup">> /\ channel_' = channel_
      BY <1>31, <2>2 DEF LoopEnd
    <3>2. On' = {"cleanup"}
      BY <3>1 DEF On, Depth
    <3> QED
      BY <2>1, <2>2, <3>1, <3>2
  <2>3. CASE recon = "no" /\ channel_ = "open"
    <3>1. stack' = <<"hr">> /\ channel_' = "closed"
      BY <1>31, <2>3 DEF LoopEnd
    <3>2. On' = {"hr"}
      BY <3>1 DEF On, Depth
    <3> QED
      BY <2>1, <2>3, <3>1, <3>2
  <2>4. CASE recon = "no" /\ channel_ # "open"
    <3>1. stack' = stack /\ channel_' = channel_
      BY <1>31, <2>4 DEF LoopEnd
    <3> QED
      BY <2>1, <3>1, <1>7
  <2> QED
    BY <2>2, <2>3, <2>4
<1> QED
  BY <1>9, <1>10, <1>11, <1>12, <1>13, <1>14, <1>15, <1>16, <1>17, <1>18, <1>19, <1>20, <1>21,
     <1>22, <1>23, <1>24, <1>25, <1>26, <1>27, <1>28, <1>29, <1>30, <1>31
  DEF Next, Internal, User

\* The inductive invariant of a connection whose user is careful.
THEOREM ConnInvariant ==
  ASSUME CarefulUser
  PROVE  Spec => []ConnInv
<1>1. Init => StackInv /\ LifeInv
  <2> SUFFICES ASSUME Init PROVE StackInv /\ LifeInv
    OBVIOUS
  <2>1. On = {} /\ Depth = 0
    BY DEF Init, On, Depth
  <2>2. StackInv
    BY <2>1 DEF StackInv
  <2>3. LifeInv
    BY <2>1 DEF Init, LifeInv, ChannelInv, TimerInv, NotesInv, Up, Live, Ending, Starting, InCleanup
  <2> QED
    BY <2>2, <2>3
<1>2. ConnInv /\ [Next]_vars => (StackInv /\ LifeInv)'
  <2> SUFFICES ASSUME ConnInv, [Next]_vars PROVE (StackInv /\ LifeInv)'
    OBVIOUS
  <2>1. CASE Next
    BY <2>1, ShapeStep, LifeStep DEF ConnInv, LifeInv
  <2>2. CASE UNCHANGED vars
    <3>1. UNCHANGED <<state_, channel_, timer, recon, exit_, notes, bad, stack>>
      BY <2>2, StutterFacts
    <3>2. On' = On
      BY <3>1 DEF On, Depth
    <3>3. StackInv'
      BY <3>1 DEF ConnInv, StackInv, Depth
    <3>4. LifeInv'
      BY <3>1, <3>2, Zenon DEF ConnInv, LifeInv, ChannelInv, TimerInv, NotesInv, Up, Live, Ending,
        Starting, InCleanup
    <3> QED
      BY <3>3, <3>4
  <2> QED
    BY <2>1, <2>2
<1>3. ConnInv <=> TypeOK /\ (StackInv /\ LifeInv)
  BY DEF ConnInv
<1> QED
  BY <1>1, <1>2, <1>3, ConnTypeCorrect, PTL DEF Spec

\* NoCrash: with a careful user the process survives every order of resets,
\* timeouts, close(), failed writes, reconnections and exit(): no frame of
\* handleWrite, cleanup, reconnect or the timeout lambda meets a null channel_.
THEOREM NeverCrashes ==
  ASSUME CarefulUser
  PROVE  Spec => []NoCrash
<1>1. ConnInv => NoCrash
  BY DEF ConnInv, LifeInv, ChannelInv, Up, NoCrash
<1> QED
  BY <1>1, ConnInvariant, PTL

\* EndsOnce: with a careful user the end of a connection is told once until
\* exit(), and cleanup is never entered while it is active.
THEOREM AlwaysEndsOnce ==
  ASSUME CarefulUser
  PROVE  Spec => []EndsOnce
<1>1. ConnInv => EndsOnce
  <2> SUFFICES ASSUME ConnInv PROVE EndsOnce
    OBVIOUS
  <2> DEFINE C == {"cl2", "cl3", "rc"}
  <2>1. Depth \in Nat
    BY DEF ConnInv, TypeOK, Depth
  <2>2. ASSUME NEW i \in 1..Depth, stack[i] \in C
        PROVE  i = Depth \/ (i = Depth - 1 /\ stack[Depth] \in UserFrames)
    <3>1. CASE i \in 1..(Depth - 2)
      BY <2>2, <3>1 DEF ConnInv, StackInv, Plain
    <3>2. CASE i = Depth - 1
      <4>1. Depth > 1
        BY <2>1, <2>2, <3>2
      <4> QED
        BY <2>2, <3>2, <4>1 DEF ConnInv, StackInv, Plain, Waits, UserFrames
    <3> QED
      BY <2>1, <3>1, <3>2
  <2>3. ASSUME NEW i \in 1..Depth, NEW j \in 1..Depth, stack[i] \in C, stack[j] \in C
        PROVE  i = j
    <3>1. stack[Depth] \in C => ~(stack[Depth] \in UserFrames)
      BY DEF UserFrames
    <3> QED
      BY <2>2, <2>3, <3>1
  <2>4. exit_ \/ notes <= 1
    BY DEF ConnInv, LifeInv, NotesInv
  <2> QED
    BY <2>3, <2>4 DEF EndsOnce
<1> QED
  BY <1>1, ConnInvariant, PTL
=============================================================================
