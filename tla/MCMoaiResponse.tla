---------------------------- MODULE MCMoaiResponse ----------------------------
(* Model-checking instances of MoaiResponse: conversations of two messages.   *)
EXTENDS MoaiResponse

MCDigits == <<"0", "1", "2", "3">>

Msg(method, ok, isText, framing, chunks) ==
  [method |-> method, ok |-> ok, text |-> isText, framing |-> framing, chunks |-> chunks]

\* Bodies: in two pieces; with a line end; with what looks like a header.
Two == <<<<"x", "y">>, <<"x">>>>
Lines == <<<<"x", "r", "n", "y">>>>
Header == <<<<"x", "y", "H">>>>

Good ==
  {Msg("GET", TRUE, t, "length", b) : t \in BOOLEAN, b \in {Lines, Header}}
  \cup {Msg("GET", FALSE, t, "length", Lines) : t \in BOOLEAN}
  \cup {Msg("GET", TRUE, t, f, Two) : t \in BOOLEAN, f \in {"chunked", "implicit"}}
  \cup {Msg("GET", TRUE, t, "none", Lines) : t \in BOOLEAN}
  \cup {Msg("GET", FALSE, TRUE, "none", <<>>), Msg("GET", FALSE, FALSE, "none", Lines),
        Msg("HEAD", TRUE, TRUE, "length", Two), Msg("HEAD", TRUE, FALSE, "chunked", Two)}

MCGood == {<<a, b>> : a \in Good, b \in Good}

\* What servers may do and Moai does not expect: a size that is none, a body
\* that begins like a chunk, one shorter than check_size, an empty one.
Odd ==
  {Msg("GET", TRUE, TRUE, f, <<c>>) :
     f \in {"length", "none"},
     c \in {<<"1", "r", "n", "x", "y", "r", "n">>, <<"1", "r", "n", "x", "r", "n", "y", "r", "n">>,
            <<"x">>, <<>>}}

\* An error page of a length nobody tells.
ErrorPage == Msg("GET", FALSE, TRUE, "none", Lines)
Ends == {Msg("HEAD", TRUE, TRUE, "length", Two)}

MCAll ==
  MCGood \cup {<<a, b>> : a \in Odd, b \in Odd \cup Ends} \cup {<<ErrorPage, b>> : b \in Ends}

Page == Msg("GET", TRUE, TRUE, "length", Lines)
MCTwoPages == {<<Page, Page>>}
=============================================================================
