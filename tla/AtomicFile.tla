----------------------------- MODULE AtomicFile -----------------------------
(***************************************************************************)
(* What replacing a file atomically promises: at every moment the file is  *)
(* absent or holds one complete content; a replacement puts a complete     *)
(* content in its place in one step; and a power loss may at most undo     *)
(* replacements since the last one, giving back what the file held before. *)
(***************************************************************************)
CONSTANTS Contents, None

VARIABLES file, past

Init ==
    /\ file \in Contents \cup {None}
    /\ past = {}

Replace(content) ==
    /\ file' = content
    /\ past' = past \cup {file}

PowerLoss ==
    /\ file' \in past \cup {file}
    /\ past' = {}

Next == (\E content \in Contents : Replace(content)) \/ PowerLoss

Spec == Init /\ [][Next]_<<file, past>>
=============================================================================
