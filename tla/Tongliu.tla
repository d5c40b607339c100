------------------------------ MODULE Tongliu -------------------------------
(***************************************************************************)
(* bridge (tongliu.rs): tokio's copy_bidirectional between a left and a    *)
(* right stream.  Each direction copies in order until end of input, then  *)
(* shuts the other side's writing half; an error in either direction ends  *)
(* both at once.  Up is left to right.  `done` holds the directions that   *)
(* have seen their end of input.  Cap bounds what an output may hold       *)
(* before a write waits.  The caller drops both streams when the bridge    *)
(* returns, so returning is an action of the caller.                       *)
(***************************************************************************)
EXTENDS Wire

CONSTANTS Conns, Cap

VARIABLES leftIn, leftOut, rightIn, rightOut, done

\* A direction copies until its own end of input.
Running(c, direction) == direction \notin done[c]

\* A write goes through while the reader keeps up.
HasRoom(w) == Len(w.q) < Cap

\* End of input is a clean end, not an error.
InputEnds(w) == AtEof(w)

CopyUp(c) ==
    /\ Running(c, "up") /\ leftIn[c].q # <<>> /\ HasRoom(rightOut[c])
    /\ rightOut' = [rightOut EXCEPT ![c] = Put(@, Head(leftIn[c].q))]
    /\ leftIn' = [leftIn EXCEPT ![c] = Take(@)]
    /\ UNCHANGED <<leftOut, rightIn, done>>

CopyDown(c) ==
    /\ Running(c, "down") /\ rightIn[c].q # <<>> /\ HasRoom(leftOut[c])
    /\ leftOut' = [leftOut EXCEPT ![c] = Put(@, Head(rightIn[c].q))]
    /\ rightIn' = [rightIn EXCEPT ![c] = Take(@)]
    /\ UNCHANGED <<leftIn, rightOut, done>>

\* Bug: the output is shut whatever ended the copy.
ShutUpAnyway(c) ==
    /\ Running(c, "up") /\ (AtEof(leftIn[c]) \/ Broken(leftIn[c]))
    /\ rightOut' = [rightOut EXCEPT ![c] = Shut(@)]
    /\ done' = [done EXCEPT ![c] = @ \cup {"up"}]
    /\ UNCHANGED <<leftIn, leftOut, rightIn>>

ShutUp(c) ==
    /\ Running(c, "up") /\ InputEnds(leftIn[c])
    /\ rightOut' = [rightOut EXCEPT ![c] = Shut(@)]
    /\ done' = [done EXCEPT ![c] = @ \cup {"up"}]
    /\ UNCHANGED <<leftIn, leftOut, rightIn>>

ShutDown(c) ==
    /\ Running(c, "down") /\ InputEnds(rightIn[c])
    /\ leftOut' = [leftOut EXCEPT ![c] = Shut(@)]
    /\ done' = [done EXCEPT ![c] = @ \cup {"down"}]
    /\ UNCHANGED <<leftIn, rightIn, rightOut>>

\* Bug: one direction is copied after the other.
StepInTurn(c) ==
    CopyUp(c) \/ ShutUp(c) \/ ("up" \in done[c] /\ (CopyDown(c) \/ ShutDown(c)))

Step(c) == CopyUp(c) \/ CopyDown(c) \/ ShutUp(c) \/ ShutDown(c)

\* One direction fails: its input is truncated, or it has something to write
\* (or to shut) and the write does not go through.
DirectionFails(in, out) ==
    Broken(in) \/ (WriteMayFail(out) /\ (in.q # <<>> \/ AtEof(in)))

\* Bug: two copies are joined, and an error of one waits for the other.
FailsJoined(c) ==
    \/ "down" \in done[c] /\ Running(c, "up") /\ DirectionFails(leftIn[c], rightOut[c])
    \/ "up" \in done[c] /\ Running(c, "down") /\ DirectionFails(rightIn[c], leftOut[c])

Fails(c) == \/ Running(c, "up") /\ DirectionFails(leftIn[c], rightOut[c])
            \/ Running(c, "down") /\ DirectionFails(rightIn[c], leftOut[c])

Finished(c) == done[c] = {"up", "down"}
=============================================================================
