----------------------------- MODULE MCCommands -----------------------------
(* The commands on two directories, one name of a CA file, two good words    *)
(* and a short one, and every address at an end of a reserved range.         *)
EXTENDS Commands

CONSTANTS wa, wb, short, etc, home, cafile

MCWords == {wa, wb, short}
MCGood == {wa, wb}
MCDirs == {etc, home}
MCNames == {cafile}

Tok(word, tail) == [word |-> word, tail |-> tail]

MCRelay == [r \in {"one", "other", "path", "blank"} |->
               CASE r = "blank" -> "blank" [] r = "path" -> "unusable" [] OTHER -> "usable"]

A(dir) == [dir |-> dir, name |-> cafile]

MCCommandLines ==
    { <<>>,
      [relay |-> "one"],
      [relay |-> "path", token |-> Tok(wa, "none")],
      [relay |-> "one", ca |-> A(None)],
      [relay |-> "one", token |-> Tok(wb, "blank"), ca |-> A(home)],
      [relay |-> "other", token |-> Tok(wb, "none"), ca |-> A(home), insecure |-> TRUE,
       timeout |-> 300000, listen |-> "elsewhere"],
      [relay |-> "one", token |-> Tok(wa, "newline"), timeout |-> 300001],
      [ca |-> A(None), insecure |-> TRUE] }

MCEnvironments == {None, Tok(wb, "none"), Tok(wa, "newline")}
MCEntered == {Tok(wa, "newline"), Tok(short, "none")}

MCEdited ==
    { [relay |-> "one"],
      [relay |-> "other", token |-> Tok(wa, "none"), ca |-> A(None)],
      [relay |-> "blank", token |-> Tok(wb, "none")] }

-----------------------------------------------------------------------------

MCStartLines ==
    { [token |-> t, ports |-> p, allowPrivate |-> FALSE, timeout |-> m] :
        t \in {None, Tok(wa, "none"), Tok(wa, "newline"), Tok(wb, "blank")},
        p \in {<<80, 65535>>, <<80, None>>, <<0>>, <<65535, 65536>>},
        m \in {0, 10000} }
      \cup { [token |-> Tok(wa, "none"), ports |-> <<80, 65535>>, allowPrivate |-> TRUE,
              timeout |-> 10000] }

MCStartTokens == {None, Tok(wa, "newline"), Tok(wb, "none"), Tok(short, "none")}

\* The address before a range's first one and after its last one, if any.
Pred(a, most) ==
    LET i == CHOOSE i \in 1..Len(a) : a[i] # 0 /\ \A j \in (i + 1)..Len(a) : a[j] = 0
    IN  [j \in 1..Len(a) |-> IF j < i THEN a[j] ELSE IF j = i THEN a[j] - 1 ELSE most]
Succ(a, most) ==
    LET i == CHOOSE i \in 1..Len(a) : a[i] # most /\ \A j \in (i + 1)..Len(a) : a[j] = most
    IN  [j \in 1..Len(a) |-> IF j < i THEN a[j] ELSE IF j = i THEN a[j] + 1 ELSE 0]

Ends(ranges, most) ==
    UNION { {range[1], range[2]} : range \in ranges }
      \cup { Pred(range[1], most) : range \in {r \in ranges : \E i \in DOMAIN r[1] : r[1][i] # 0} }
      \cup { Succ(range[2], most) : range \in {r \in ranges : \E i \in DOMAIN r[2] : r[2][i] # most} }

MCAddresses == Ends(Ranges4, 255) \cup Ends(Ranges6, 65535)
MCAsked == {80, 443, 65535} \X MCAddresses
=============================================================================
