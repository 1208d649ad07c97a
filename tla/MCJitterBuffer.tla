---------------------------- MODULE MCJitterBuffer ----------------------------
(***************************************************************************)
(* Instances of JitterBuffer for TLC: eight sequence numbers instead of    *)
(* 65536, and a stream long enough to wrap around.                         *)
(***************************************************************************)
EXTENDS JitterBuffer

CONSTANTS FirstPacket, LastPacket

MCPackets == FirstPacket .. LastPacket

===============================================================================
