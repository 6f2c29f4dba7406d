---------------------------- MODULE MCConnection ----------------------------
(* Requests as tests/test_server.cpp writes them, of one or two values; a  *)
(* value may itself be a line end, or hold a whole request.  Malformed are *)
(* a request that is no array, an array of none, a value of length -1, and *)
(* one that is longer than it says.                                        *)
EXTENDS Connection

MCNumerals ==
  [n \in 0..99 |->
     IF n < 10 THEN <<DigitLetters[n + 1]>>
               ELSE <<DigitLetters[(n \div 10) + 1], DigitLetters[(n % 10) + 1]>>]

Malformed(bytes) == [command |-> NoCommand, bytes |-> bytes]

Plain == Request(<<<<"a">>>>, CRLF)

Nested == Request(<<Request(<<<<>>>>, CRLF).bytes>>, CRLF)

WithCRLF == {Plain, Request(<<<<"b">>, <<>>>>, CRLF), Request(<<CRLF>>, CRLF)}

WithLF == {Request(c, <<"LF">>) : c \in {<<<<"a">>>>, <<<<"b">>, <<"LF">>>>}}

MalformedRequests ==
  {Malformed(bytes) :
     bytes \in {<<"a">> \o CRLF,
                <<"*", "0">> \o CRLF,
                <<"*", "1">> \o CRLF \o <<"$", "-", "1">> \o CRLF,
                <<"*", "1">> \o CRLF \o <<"$", "1">> \o CRLF \o <<"a", "b">> \o CRLF}}

MCStreams ==
  UNION {[1..n -> WithCRLF] : n \in 1..3}
    \cup UNION {[1..n -> WithLF] : n \in 1..3}
    \cup {<<r, bad, s>> : r, s \in WithCRLF, bad \in MalformedRequests}
    \cup {<<bad, Nested>> : bad \in MalformedRequests}
    \cup {<<Plain, Nested, Plain>>}
=============================================================================
