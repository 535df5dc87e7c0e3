----------------------------- MODULE MCDispatch -----------------------------
EXTENDS Dispatch, TLC
CONSTANTS c1, c2, register, ping, damaged

(* A registration of one client; a ping and a registration of the other,   *)
(* damaged in 32 consecutive bits.                                         *)
Bytes(s) == [i \in DOMAIN s |-> {b \in Byte : (s[i] \div 2^b) % 2 = 1}]
Name == Bytes(<<97, 108, 105, 99, 101, 0>>)
Burst == [i \in DOMAIN Name |-> IF i \in 2..5 THEN Byte \ Name[i] ELSE Name[i]]
Checksum == Remainder(Name)
Packets ==
  register :> [conn |-> c1, code |-> 5, body |-> Name, crc32 |-> Checksum, sent |-> Name]
  @@ damaged :> [conn |-> c2, code |-> 5, body |-> Burst, crc32 |-> Checksum, sent |-> Name]
  @@ ping :> [conn |-> c2, code |-> 0, body |-> <<>>, crc32 |-> {}, sent |-> <<>>]

=============================================================================
