---------------------------- MODULE MCRecvPacket ----------------------------
(* Instance of RecvPacket: a header of 2 bytes, a package without a body,  *)
(* one with a body of 2, and one length on either side of what is legal.   *)
EXTENDS RecvPacket
MCAnnounced == {1, 2, 4, 5}
=============================================================================
