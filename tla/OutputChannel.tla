--------------------------- MODULE OutputChannel ---------------------------
(***************************************************************************)
(* What a session's output queue promises (src/execution/queue.go:15-24    *)
(* and 120-122): chunks come out one at a time, each once, in the order    *)
(* they went in, and the end of the run is announced only when nothing is  *)
(* left behind.                                                            *)
(***************************************************************************)
EXTENDS Naturals, Sequences

VARIABLES in,     \* chunks the session's process wrote
          out,    \* chunks handed to the upstream stream
          ended   \* the run is over and may report its result

chanVars == <<in, out, ended>>

Init ==
    /\ in = <<>>
    /\ out = <<>>
    /\ ended = FALSE

\* The process writes a chunk.
Write ==
    /\ ~ended
    /\ Len(in') = Len(in) + 1
    /\ \A i \in 1 .. Len(in) : in'[i] = in[i]
    /\ UNCHANGED <<out, ended>>

\* The oldest chunk that is not out yet leaves.
Deliver ==
    /\ Len(out) < Len(in)
    /\ out' = Append(out, in[Len(out) + 1])
    /\ UNCHANGED <<in, ended>>

\* The run ends with every chunk out.
End ==
    /\ ~ended
    /\ out = in
    /\ ended' = TRUE
    /\ UNCHANGED <<in, out>>

Next == Write \/ Deliver \/ End

Spec == Init /\ [][Next]_chanVars
=============================================================================
