--------------------------- MODULE MCStreamPlayers ---------------------------
(* An audio and a video stream with a few packets; see the configurations. *)
EXTENDS StreamPlayers

OnePacket == [q \in Streams |-> 1]
TwoVideoPackets == [audio |-> 1, video |-> 2]
=============================================================================
