-------------------------------- MODULE Buffer --------------------------------
(***************************************************************************)
(* handy/net.h and net.cc: Buffer, the growing byte array behind every      *)
(* connection's input_ and output_.  A buffer is a record: mem is the       *)
(* allocated array buf_ (cap_ is its length), the content lies in the cells *)
(* after b up to e, exp is the suggested size.  Cells that were never       *)
(* written hold Junk.                                                       *)
(***************************************************************************)
EXTENDS Integers, Sequences, FiniteSetsExt

Junk == <<"junk">>

NewBuffer(exp) == [mem |-> <<>>, b |-> 0, e |-> 0, exp |-> exp]

Size(buf) == buf.e - buf.b
Space(buf) == Len(buf.mem) - buf.e
Data(buf) == SubSeq(buf.mem, buf.b + 1, buf.e)

Clear(buf) == [buf EXCEPT !.mem = <<>>, !.b = 0, !.e = 0]

MoveHead(buf) ==
  [buf EXCEPT !.mem = Data(buf) \o SubSeq(buf.mem, Size(buf) + 1, Len(buf.mem)),
              !.b = 0, !.e = Size(buf)]

Expand(buf, len) ==
  LET ncap == Max({buf.exp, 2 * Len(buf.mem), Size(buf) + len})
  IN  [buf EXCEPT !.mem = Data(buf) \o [i \in 1..ncap - Size(buf) |-> Junk],
                  !.b = 0, !.e = Size(buf)]

\* makeRoom(len): room for len more bytes after the content.
MakeRoom(buf, len) ==
  IF buf.e + len <= Len(buf.mem) THEN buf
  ELSE IF Size(buf) + len < Len(buf.mem) \div 2 THEN MoveHead(buf)
  ELSE Expand(buf, len)

\* makeRoom(): at least exp bytes of room, so that read() is never called
\* with room for none, which would look like the end of the stream.
MakeSomeRoom(buf) == IF Space(buf) < buf.exp THEN Expand(buf, 0) ELSE buf

\* Bytes are stored at end() and addSize counts them; a store behind the
\* array is lost.
Put(buf, bytes) ==
  [buf EXCEPT !.mem = [i \in DOMAIN buf.mem |->
                         IF i - buf.e \in DOMAIN bytes THEN bytes[i - buf.e] ELSE buf.mem[i]],
              !.e = buf.e + Len(bytes)]

AppendBytes(buf, bytes) == Put(MakeRoom(buf, Len(bytes)), bytes)

Consume(buf, len) ==
  IF buf.b + len = buf.e THEN Clear(buf) ELSE [buf EXCEPT !.b = buf.b + len]

\* A mutant: the swap does not look whether there is content to keep.
MutAbsorb(buf, other) == <<[other EXCEPT !.exp = buf.exp], [buf EXCEPT !.exp = other.exp]>>

\* buf.absorb(other), for two different buffers: both afterwards.  An empty
\* buffer swaps arrays with the other, each keeping its suggested size.
Absorb(buf, other) ==
  IF Size(buf) = 0
  THEN <<[other EXCEPT !.exp = buf.exp], [buf EXCEPT !.exp = other.exp]>>
  ELSE <<AppendBytes(buf, Data(other)), Clear(other)>>
===============================================================================
