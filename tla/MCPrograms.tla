----------------------------- MODULE MCPrograms ----------------------------
(* A directory in the order of the repository's image, with short names.   *)
EXTENDS Programs

Entry(name, kind, text) == [name |-> name, kind |-> kind, text |-> text]

MCDirectory == <<
    Entry(<<".">>, "dir", ""), Entry(<<"g">>, "grep", ""), Entry(<<"r">>, "rtc", ""),
    Entry(<<"f">>, "fish", ""), Entry(<<"n">>, "counter", ""), Entry(<<"c">>, "cat", ""),
    Entry(<<"f", "0">>, "file", "frame0"), Entry(<<"l">>, "ls", ""),
    Entry(<<"f", "1">>, "file", "frame1")>>

x == "x"
y == "y"
b == " "
nl == "/n"

\* Rows of different lengths and numbers, lines that begin in the middle of a buffer of
\* three and end with it, behind it and with the file.
MCPictures ==
    {<<  <<x, nl, x, y>>,         <<y, nl>>              >>,
     <<  <<x, y, x, nl, y>>,      <<x, b, y, nl, x, nl>> >>,
     <<  <<x, y, nl, x, y, x, nl>>, <<nl, b, x>>         >>,
     <<  <<nl, nl, x, y>>,        <<x, x, y, x>>         >>,
     <<  <<b, x>>,                <<y, y, b>>            >>}

MCLines ==
    {<<>>, <<"q">>, <<b>>, <<b, "q">>, <<"f", "0", "0">>, <<"q", x>>, <<b, "l">>, <<b, b, ".">>}
    \cup {<<"c", b>> \o file : file \in {<<"f", "0">>, <<b, "f", "1">>, <<".">>, <<"r">>,
                                         <<"f", "0", b>>, <<"f", "0", "0">>}}
    \cup {<<"g", b>> \o text : text \in {<<x>>, <<x, y>>, <<x, b>>}}
    \cup {<<"l">>, <<"c">>, <<"f">>, <<"n">>, <<"g">>, <<"r">>, <<"f", "0">>,
          <<".", b, "f", "0">>}

MCExit == <<"q">>
MCAnswers == {<<>>, <<"0">>, <<"1">>, <<"7">>, <<"1", "2">>, <<"7", "0">>, <<"1", "0", "0">>}
MCCountTo == [d \in {"0", "1"} |-> IF d = "0" THEN 2 ELSE 5]
MCInks == {x, y}
MCLetters == {x, y, ".", "0", "1", "7", "c", "f", "g", "l", "n", "q", "r"}
=============================================================================
