---------------------------- MODULE MCStaticHttp ----------------------------
(***************************************************************************)
(* Instances of StaticHttp for TLC: requests with CR LF and with bare LF   *)
(* line ends, two that close (HTTP/1.1 and HTTP/1.0), an HTTP/1.0 one that *)
(* keeps the connection, one with a body, two that are one byte too long,  *)
(* one without headers (HTTP/1.0), one of another version, and one for     *)
(* each method and kind of path.                                           *)
(***************************************************************************)
EXTENDS StaticHttp

CrLf == <<"x", "r", "n", "x", "r", "n", "r", "n">>
Lf == <<"x", "n", "x", "n", "n">>
Close == <<"x", "r", "n", "c", "r", "n", "r", "n">>
Old == <<"o", "n", "x", "n", "n">>
OldKept == <<"o", "n", "k", "n", "n">>
Body == <<"x", "n", "b", "n", "n">>
LongLine == <<"x", "x", "x", "n", "x", "n", "n">>
LongHeaders == <<"x", "n", "x", "x", "x", "x", "n", "n">>
NoHeaders == <<"o", "r", "n", "r", "n">>

Newer == <<"v", "n", "k", "n", "n">>
HeadFile == <<"h", "n", "x", "n", "n">>
HeadDir == <<"h", "d", "n", "c", "n", "n">>
HeadMissing == <<"h", "m", "n", "x", "n", "n">>
Post == <<"p", "n", "x", "n", "n">>
Escape == <<"e", "n", "x", "n", "n">>
Missing == <<"m", "n", "c", "n", "n">>
Outside == <<"u", "n", "x", "n", "n">>
Dir == <<"d", "o", "n", "k", "n", "n">>

Requests == {CrLf, Lf, Close, Old, OldKept, Body, LongLine, LongHeaders}
Paths == {Newer, HeadFile, HeadDir, HeadMissing, Post, Escape, Missing, Outside, Dir}
AllScripts ==
    {<<a, Lf>> : a \in Paths} \cup {<<Lf, a>> : a \in Paths} \cup
    {<<a, b>> : a, b \in Requests} \cup {<<CrLf, Lf, CrLf>>, <<NoHeaders>>, <<NoHeaders, CrLf>>}
=============================================================================
