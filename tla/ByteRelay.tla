------------------------------- MODULE ByteRelay -------------------------------
(***************************************************************************)
(* What a relay of one TCP connection promises: two independent byte       *)
(* streams, each delivered in order, without gaps and without repetition.  *)
(* A relay may give up: it then forgets a tail of what it still holds, and *)
(* delivers nothing beyond it, but it never forgets bytes in the middle.   *)
(* The stream towards the client ends with an end-of-file mark (a FIN)     *)
(* only after every byte taken for it, unless the client itself had        *)
(* finished its own stream first.                                          *)
(*                                                                         *)
(* Byte i of a stream is the number i.                                     *)
(***************************************************************************)
EXTENDS Integers, Sequences

VARIABLES
    upTaken,   \* number of bytes taken from the client
    up,        \* those held by the relay, oldest first
    upDone,    \* number of bytes handed to the SOCKS connection
    downTaken, \* number of bytes taken from the SOCKS connection
    down,      \* those held by the relay
    downDone,  \* number of bytes the client acknowledged
    clientFin, \* the client finished its stream
    eof        \* the end-of-file mark follows the bytes of down

relayVars == <<upTaken, up, upDone, downTaken, down, downDone, clientFin, eof>>

\* The bytes a+1, ..., a+n of a stream.
Run(a, n) == [i \in 1..n |-> a + i]

Init ==
    /\ upTaken = 0 /\ up = <<>> /\ upDone = 0
    /\ downTaken = 0 /\ down = <<>> /\ downDone = 0
    /\ clientFin = FALSE /\ eof = FALSE

\* Some bytes leave the front, a tail may be forgotten or new bytes be taken;
\* what is held is a run of consecutive bytes, and a forgotten tail stays so.
Up ==
    /\ upDone' \in upDone .. upDone + Len(up)
    /\ up' = Run(upDone', Len(up'))
    /\ upTaken' >= upTaken
    /\ upDone' + Len(up') <= upTaken'
    /\ upDone + Len(up) < upTaken => upDone' + Len(up') <= upDone + Len(up)

Down ==
    /\ downDone' \in downDone .. downDone + Len(down)
    /\ down' = Run(downDone', Len(down'))
    /\ downTaken' >= downTaken
    /\ downDone' + Len(down') <= downTaken'
    /\ downDone + Len(down) < downTaken => downDone' + Len(down') <= downDone + Len(down)

\* The end-of-file mark is set once, after the last byte.
End ==
    /\ clientFin => clientFin'
    /\ eof => eof' /\ downTaken' = downTaken
    /\ eof' /\ ~eof => downDone' + Len(down') = downTaken' \/ clientFin'

Next == Up /\ Down /\ End

Spec == Init /\ [][Next]_relayVars
=============================================================================
