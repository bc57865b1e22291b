-------------------------------- MODULE Codecs --------------------------------
(***************************************************************************)
(* handy/codec.cc and http.cc: how messages are cut out of a byte stream.   *)
(* A byte, or a group of bytes nobody looks into (a magic word, a length    *)
(* field, one line of an HTTP header), is a token.                          *)
(***************************************************************************)
EXTENDS Integers, Sequences, FiniteSetsExt

CONSTANT MaxBody     \* the longest message LengthCodec accepts (1024 * 1024)

CR == <<"CR">>
LF == <<"LF">>
EOT == <<"EOT">>
Opening == <<"opening">>
Closing == <<"closing">>
Magic == <<"mBdT">>
Length(n) == <<"length", n>>

\* The four bytes at offset 4 read as a number: those of any text are far too large.
LengthOf(t) == IF t[1] = "length" THEN t[2] ELSE MaxBody + 1

\* The offset of the first token t, which must be there.
First(data, t) == Min({i \in DOMAIN data : data[i] = t})
Has(data, t) == \E i \in DOMAIN data : data[i] = t

\* What tryDecode returns: the bytes scanned, 0 for "not yet", -1 for an
\* error, and the message.
Nothing == [r |-> 0, msg |-> <<>>]
Alone(data, t) == data = <<t>>

LineDecode(data) ==
  CASE Alone(data, EOT) -> [r |-> 1, msg |-> data]
    [] ~Alone(data, EOT) /\ Has(data, LF) ->
         LET i == First(data, LF)
             end == IF i > 1 /\ data[i - 1] = CR THEN i - 2 ELSE i - 1
         IN  [r |-> i, msg |-> SubSeq(data, 1, end)]
    [] OTHER -> Nothing

BracketDecode(data) ==
  CASE Alone(data, EOT) -> [r |-> 1, msg |-> data]
    [] Len(data) > 2 /\ data[1] = Opening /\ Has(data, Closing) ->
         LET i == First(data, Closing) IN [r |-> i, msg |-> SubSeq(data, 2, i - 1)]
    [] OTHER -> Nothing

\* The header is two tokens, eight bytes in the code.
LengthDecode(data) ==
  LET len == LengthOf(data[2])
  IN  CASE Len(data) < 2 -> Nothing
        [] Len(data) >= 2 /\ (data[1] # Magic \/ len > MaxBody) -> [r |-> -1, msg |-> <<>>]
        [] Len(data) >= 2 /\ data[1] = Magic /\ len <= MaxBody /\ len + 2 <= Len(data) ->
             [r |-> len + 2, msg |-> SubSeq(data, 3, len + 2)]
        [] OTHER -> Nothing

TryDecode(codec, data) ==
  CASE codec = "line" -> LineDecode(data)
    [] codec = "bracket" -> BracketDecode(data)
    [] codec = "length" -> LengthDecode(data)

\* What a server makes of the codec it was given, for each connection.
Clone(codec) == IF codec = "bracket" THEN "line" ELSE codec

\* encode: the pieces that are appended to the buffer one after the other.
Encode(codec, msg) ==
  CASE codec = "line" -> <<msg, <<CR, LF>>>>
    [] codec = "bracket" -> <<<<Opening>>, msg, <<Closing>>>>
    [] codec = "length" -> <<<<Magic>>, <<Length(Len(msg))>>, msg>>

-------------------------------------------------------------------------------
(* HttpMsg: what is kept of a message while it arrives.  line is the request *)
(* or status line; of the headers only the keys and the content length are   *)
(* kept.                                                                     *)

NewHttp == [complete |-> FALSE, contentLen |-> 0, scanned |-> 0, line |-> <<>>, body |-> <<>>]

Header(key, n) == <<"header", key, n>>
BadHeader == <<"bad">>

\* Keys are stored in lower case: no stored key is the "Expect" that
\* tryDecode_ looks up.
Lower == [Expect |-> "expect", Connection |-> "connection", Length |-> "content-length"]
Keyed(t, key) == t[1] = "header" /\ Lower[t[2]] = key

HeaderEnd == <<CR, LF, CR, LF>>
Ends4(data, i) == SubSeq(data, i + 1, i + 4) = HeaderEnd

\* A mutant: each call scans only the bytes that are new, and misses an empty
\* line that is cut in two.
MutScan(m, data) ==
  LET found == {i \in m.scanned..Len(data) - 4 : Ends4(data, i)}
  IN  IF found # {} THEN Min(found) ELSE Max({m.scanned, Len(data)})

\* Where the search for the empty line stops: on it, or on the first position
\* that has not got four bytes yet.
Scan(m, data) ==
  LET found == {i \in m.scanned..Len(data) - 4 : Ends4(data, i)}
  IN  IF found # {} THEN Min(found) ELSE Max({m.scanned, Len(data) - 3})

\* The body: complete as soon as contentLen bytes follow the header.
TakeBody(m, data) ==
  IF Len(data) >= m.scanned + m.contentLen
  THEN [res |-> "Complete",
        m |-> [m EXCEPT !.complete = TRUE, !.scanned = m.scanned + m.contentLen,
                        !.body = SubSeq(data, m.scanned + 1, m.scanned + m.contentLen)]]
  ELSE [res |-> "NotComplete", m |-> m]

\* The content length of a header of s tokens: of two, the later one is stored.
ContentLen(data, s) ==
  LET at == {i \in 2..s : Keyed(data[i], "content-length")}
  IN  IF at = {} THEN 0 ELSE data[Max(at)][3]

\* tryDecode_ of the unconsumed input, with the line it stores in the message.
HttpDecode(m, data) ==
  LET s == Scan(m, data)
      h == [m EXCEPT !.scanned = s + 4, !.line = data[1], !.contentLen = ContentLen(data, s)]
  IN  CASE m.complete -> [res |-> "Complete", m |-> m]
        [] ~m.complete /\ m.contentLen > 0 -> TakeBody(m, data)
        [] ~m.complete /\ m.contentLen = 0 /\ (s = 0 \/ s + 4 > Len(data)) ->
             [res |-> "NotComplete", m |-> [m EXCEPT !.scanned = s]]
        [] OTHER ->
             IF \E i \in 2..s : data[i] = BadHeader
             THEN [res |-> "Error", m |-> [m EXCEPT !.scanned = s, !.line = data[1]]]
             ELSE IF (\E i \in 2..s : Keyed(data[i], "Expect")) /\ Len(data) < h.contentLen + h.scanned
                  THEN [res |-> "Continue100", m |-> h]
                  ELSE TakeBody(h, data)

\* encode of a request (eol is then two line feeds) or a response.
HttpEncode(line, eol, headers, body) ==
  <<<<line>> \o eol, headers, <<Header("Connection", 0), CR, LF>>,
    <<Header("Length", Len(body)), CR, LF>>, <<CR, LF>>, body>>
===============================================================================
