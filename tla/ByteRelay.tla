----------------------------- MODULE ByteRelay -----------------------------
(***************************************************************************)
(* What a relay promises the two ends of a connection: two pipes, each of   *)
(* which hands over the bytes put into it in order, none missing, none      *)
(* twice and none of anybody else's.  How much is under way, and whether    *)
(* all of it arrives, is left open.                                         *)
(***************************************************************************)
EXTENDS SequencesExt

VARIABLES sentUp, gotUp, sentDown, gotDown

Init == sentUp = <<>> /\ gotUp = <<>> /\ sentDown = <<>> /\ gotDown = <<>>

Pipe(sent, got, nextSent, nextGot) ==
    /\ IsPrefix(sent, nextSent)
    /\ IsPrefix(got, nextGot)
    /\ IsPrefix(nextGot, nextSent)

Next == /\ Pipe(sentUp, gotUp, sentUp', gotUp')
        /\ Pipe(sentDown, gotDown, sentDown', gotDown')

Spec == Init /\ [][Next]_<<sentUp, gotUp, sentDown, gotDown>>
=============================================================================
