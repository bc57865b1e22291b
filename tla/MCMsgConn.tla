------------------------------ MODULE MCMsgConn ------------------------------
EXTENDS MsgConn

A == <<"a">>
B == <<"b">>

Mode(proto, cloned, quiet, msgs) ==
  [proto |-> proto, cloned |-> cloned, quiet |-> quiet, msgs |-> msgs]
Req(uri, hdr, body) == [uri |-> uri, hdr |-> hdr, body |-> body]
Expect == <<Header("Expect", 0), CR, LF>>
Bad == <<BadHeader, CR, LF>>
UserBytes == {A, B, CR, LF, Header("Expect", 0), BadHeader}

\* Lines that are empty, end in a carriage return, or are long, so that a later
\* append moves what is left to the front of the buffer;
\* brackets around nothing, at the front and twice at the end; lengths zero, the
\* largest and one too many; raw bytes.
FramedModes ==
  {Mode("line", TRUE, q, <<<<>>, <<A, CR>>, <<B, A, B>>>>) : q \in BOOLEAN}
  \cup {Mode("line", FALSE, TRUE, <<<<A, B, A, B, A, B>>, <<A, B>>, <<B>>>>)}
  \cup {Mode("bracket", FALSE, q, <<<<>>, <<A>>, <<>>, <<>>>>) : q \in BOOLEAN}
  \cup {Mode("length", TRUE, q, <<<<A, B>>, <<>>, <<B>>>>) : q \in BOOLEAN}
  \cup {Mode("length", FALSE, q, <<<<A>>, <<A, B, A>>, <<B>>>>) : q \in BOOLEAN}
  \cup {Mode("raw", FALSE, FALSE, <<<<A, B, A>>, <<B>>, <<A, A>>>>)}

\* One request at a time, with a body, an Expect header, an unknown uri, a
\* file, files that cannot be read or are missing, a header that does not parse.
\* The connection's response is used again, but no list goes from a file that
\* was served to one that was not or back: what one of them left in it, the
\* dangling body or the status, would go out with the other.
HttpModes ==
  {Mode("http", FALSE, FALSE, m) : m \in
     { <<Req("hello", <<>>, <<A, B>>), Req("miss", Expect, <<A>>), Req("hello", <<>>, <<>>)>>,
       <<Req("file", <<>>, <<>>), Req("hello", Expect, <<B>>), Req("file", <<>>, <<A>>)>>,
       <<Req("nofile", <<>>, <<>>), Req("badfile", <<>>, <<A>>), Req("miss", <<>>, <<>>)>>,
       <<Req("hello", <<>>, <<CR, LF, CR, LF>>), Req("hello", Bad, <<A>>)>> }}

AllModes == FramedModes \cup HttpModes

\* A line server that answers.
ResetModes == {Mode("line", FALSE, FALSE, <<<<A>>, <<B>>>>)}
===============================================================================
