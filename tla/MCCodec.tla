------------------------------- MODULE MCCodec -------------------------------
(* Instances of Codec: a buffer of 20 bytes, rows of 5 bytes. *)
EXTENDS Codec

a == 97
b == 98
c == 99
d == 100
e == 101
f == 102
g == 103
q == 113
s == 115
x == 120

Plain(commands) == [command : commands, tail : {<<>>}]
WithNewline(commands) == [command : commands, tail : {<<NEWLINE>>}]

\* Sets with a key and a value, gets with a key, and a shutdown: the shortest ones, a set
\* that fills the buffer and one that is too long for it, words of one and of four letters
\* in the same place, and words that fill a row.
SessionRequests ==
  Plain({<<s, TAB, a, TAB, b>>, <<s, TAB, c, d, e, f, TAB, 49, 50, 51, 52>>,
         <<s, TAB, c, d, e, f, TAB, 49, 50, 51, 52, 53>>,
         <<s, TAB, c, d, e, f, g, TAB, b>>, <<g, TAB, c, d, e, f, g>>,
         <<g, TAB, c>>, <<q>>})
    \cup WithNewline({<<s, TAB, c, d, e, TAB, 49, 50, 51, 52>>, <<g, TAB, a>>})

\* Requests that leave the messages of a stream at many offsets; one has a word
\* that begins like a message, one has too many words, and one is too long.
StreamRequests ==
  Plain({<<s, TAB, a, TAB, b, TAB, c, TAB, d>>, <<x, TAB, a, TAB, b, b, b, TAB, c, c, c, c>>})
    \cup WithNewline({<<x, TAB, STAR, 48>>})

\* Requests that fit the buffer, with words that fit their rows.
ShortRequests ==
  Plain({<<s, TAB, a, TAB, b>>, <<s, TAB, c, d, e, f, TAB, 49, 50, 51, 52>>, <<q>>})
    \cup WithNewline({<<g, TAB, a>>})

\* A byte that is part of an argument, and the two that end one.
AnyJunk == {NUL, TAB, BANG}
==============================================================================
