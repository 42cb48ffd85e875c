-------------------------- MODULE MCStreamEvents --------------------------
(***************************************************************************)
(* StreamEvents on small instances.  Rows o1 and o2 hold the same          *)
(* stream.offline message m1, n1 a stream.online, u1 a channel.update and  *)
(* c1 a channel.raid.                                                      *)
(***************************************************************************)
EXTENDS StreamEvents, TLC

CONSTANTS o1, o2, n1, u1, c1, m1

OfflineTwice == {o1, o2}
OneOffline   == {o1}
OffThenOn    == {o1, n1}

TypeOfWork(w) ==
    CASE w \in {o1, o2} -> "stream.offline"
      [] w = n1 -> "stream.online"
      [] w = u1 -> "channel.update"
      [] w = c1 -> "channel.raid"

TypesOfWorks    == [w \in Works |-> TypeOfWork(w)]
MessagesOfWorks == [w \in Works |-> IF w \in {o1, o2} THEN m1 ELSE w]

(* The two rows of the one message are interchangeable. *)
SameMessage == Permutations({o1, o2})
=============================================================================
