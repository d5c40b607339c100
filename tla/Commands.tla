------------------------------ MODULE Commands ------------------------------
(***************************************************************************)
(* The two programs as their users start them: the client's commands and   *)
(* the relay's, which share nothing but the token's text.                  *)
(***************************************************************************)
EXTENDS Qiankui, QiankuiRelay

vars == <<qvars, rvars>>

Init == QiankuiInit /\ QiankuiRelayInit

\* Bound: the relay is started, and asked, before the client's first step: no
\* step of one reads what the other writes.
Next ==
    \/ dialed = None /\ QiankuiNext /\ UNCHANGED rvars
    \/ QiankuiInit /\ QiankuiRelayNext /\ UNCHANGED qvars

Spec == Init /\ [][Next]_vars

TypeOK ==
    /\ config = None \/ DOMAIN config \subseteq Fields
    /\ disk \in [Files -> {"absent", "junk", "certificate"}]
    /\ bindable \subseteq Listening
    /\ used = None \/ used.token \in Tokens
    /\ started = None \/ started.ports \in SUBSET PortNumbers

\* A token's text means the same to both programs, whichever of an argument,
\* the environment, standard input, a prompt or a configuration it comes by and
\* whatever ends its line there: a text that has configured a client starts a
\* relay from its environment, one that has started a relay configures a client
\* from its standard input, with the same token both times; and a client and a
\* relay that run understand each other exactly when the texts they were given
\* first are of one word (fujie/token.rs:24-77, bin/qiankui.rs:215-230 and
\* 265-269, bin/qiankui-relay.rs:59).
TokensMeet ==
    /\ initialized # None => FromArgOrEnv(None, storedText) = initialized.token
    /\ started # None => ReadToken(<<>>, TRUE, None, started.text) = started.token
    /\ used # None /\ started # None =>
          (VerifyBearer(used.token, started.token) <=> usedText.word = started.text.word)
=============================================================================
