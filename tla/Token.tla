-------------------------------- MODULE Token -------------------------------
(***************************************************************************)
(* What both commands read: a bearer token as text (fujie/token.rs), which *)
(* is a word and what follows it on the line it came from, nothing, a line *)
(* end or a blank, and a timeout.  Of a word the model keeps whether it is *)
(* long enough and visible ASCII.                                          *)
(***************************************************************************)
EXTENDS Integers

CONSTANTS Words, Good,  \* words, and those of at least 16 visible ASCII bytes
          None          \* what is not given

\* Milliseconds to wait for a connection.
Timeouts == 1..300000

Tokens == [word : Words, tail : {"none", "newline", "blank"}]

ASSUME TokenAssumption == Good \subseteq Words /\ None \notin Tokens

\* Token::parse: a blank or a line end is no visible ASCII.
\* Bug: the characters are not looked at.
ParsesAny(token) == TRUE
Parses(token) == token.word \in Good /\ token.tail = "none"

\* normalize_environment_token, and read_token of the client for its standard
\* input: line ends are trimmed, blanks are not.
Trimmed(token) ==
    IF token.tail = "newline" THEN [token EXCEPT !.tail = "none"] ELSE token

\* parse_request trims a header's value, and parse_bearer what is between the
\* scheme and the token: the relay compares what is left.
VerifyBearer(sent, token) == [sent EXCEPT !.tail = "none"] = token
=============================================================================
