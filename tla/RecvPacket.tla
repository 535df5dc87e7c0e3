----------------------------- MODULE RecvPacket -----------------------------
(***************************************************************************)
(* How the epoll thread cuts the byte stream of a client into packages:    *)
(* the state machine of ngx_read_request_handler(), fed by recv() calls    *)
(* that return any part of what was asked for, with the flood test, the    *)
(* closing of the connection at any time by another thread, and the reuse  *)
(* of the connection object for the next client.                           *)
(* (net/ngx_c_socket_request.cxx, net/ngx_c_socket.cxx,                    *)
(* net/ngx_c_socket_conn.cxx.)                                             *)
(*                                                                         *)
(* A byte is the pair of its package's number and its place in it.  A      *)
(* client may announce a length the server refuses; then it sends no body, *)
(* as the server only skips the header.                                    *)
(***************************************************************************)
EXTENDS Integers, Sequences, FiniteSets

CONSTANTS
  HeadLen,     \* m_iLenPkgHeader
  MaxLen,      \* _PKG_MAX_LENGTH - 1000
  Announced,   \* the values of pkgLen that clients send
  MaxPkgs,     \* bound on the packages of one client
  MaxClients,  \* bound on the uses of the connection object
  FloodOn,     \* m_floodAkEnable
  Interval,    \* m_floodTimeInterval, in units of time
  KickCount    \* m_floodKickCount

ASSUME RecvAssumption ==
  /\ HeadLen \in Nat \ {0} /\ MaxLen \in Nat /\ HeadLen <= MaxLen
  /\ Announced \subseteq Nat /\ MaxPkgs \in Nat /\ MaxClients \in Nat \ {0}
  /\ FloodOn \in BOOLEAN /\ Interval \in Nat \ {0} /\ KickCount \in Nat \ {0}

VARIABLES
  open,      \* the socket is open
  parked,    \* the object is on the recycle list
  curStat,   \* "HD_INIT", "HD_RECVING", "BD_INIT" or "BD_RECVING"
  irecvlen,  \* how many bytes are still wanted
  head,      \* what dataHeadInfo holds, up to precvbuf
  block,     \* precvMemPointer: the number of the block, 0 for NULL
  room,      \* how much of it was allocated for the body
  body,      \* what the body part holds, up to precvbuf
  lastGap,   \* time since FloodkickLastTime, Interval when it is at least that
  flood,     \* FloodAttackCount
  allocated, \* history: blocks allocated so far
  handed, freed,  \* history: blocks given to the thread pool, released
  out,       \* history: packages of this client given to the pool
  gaps,      \* history: the last KickCount gaps between packages
  sent,      \* environment: the lengths this client announced
  inbuf,     \* environment: bytes in the socket's receive buffer
  fin,       \* environment: the client has closed its side
  clients    \* environment: how many clients there have been

parser == <<curStat, irecvlen, head, block, room, body>>
floodVars == <<lastGap, flood, gaps>>
memVars == <<allocated, handed, freed>>
envVars == <<sent, inbuf, fin, clients>>
vars == <<open, parked, parser, floodVars, memVars, out, envVars>>

Init ==
  /\ open = TRUE /\ parked = FALSE
  /\ curStat = "HD_INIT" /\ irecvlen = HeadLen /\ head = <<>>
  /\ block = 0 /\ room = 0 /\ body = <<>>
  /\ lastGap = Interval /\ flood = 0 /\ gaps = <<>>
  /\ allocated = 0 /\ handed = {} /\ freed = {} /\ out = <<>>
  /\ sent = <<>> /\ inbuf = <<>> /\ fin = FALSE /\ clients = 1

-----------------------------------------------------------------------------
Min(a, b) == IF a <= b THEN a ELSE b
Bytes(i, n) == [k \in 1..n |-> <<i, k>>]
Legal(len) == HeadLen <= len /\ len <= MaxLen

(* What is sent of a package with that length in its header.               *)
SizeOf(len) == IF Legal(len) THEN len ELSE HeadLen

(* The length in a header: what its client announced.                      *)
PkgLen(h) == sent[h[1][1]]

-----------------------------------------------------------------------------
(* The client.                                                             *)
ClientSends(len) ==
  /\ open /\ ~fin /\ Len(sent) < MaxPkgs
  /\ sent' = Append(sent, len)
  /\ inbuf' = inbuf \o Bytes(Len(sent) + 1, SizeOf(len))
  /\ UNCHANGED <<open, parked, parser, floodVars, memVars, out, fin, clients>>

ClientCloses ==
  /\ open /\ ~fin
  /\ fin' = TRUE
  /\ UNCHANGED <<open, parked, parser, floodVars, memVars, out, sent, inbuf, clients>>

Tick ==
  /\ lastGap < Interval
  /\ lastGap' = lastGap + 1
  /\ UNCHANGED <<open, parked, parser, flood, gaps, memVars, out, envVars>>

-----------------------------------------------------------------------------
(* Mutant: the count is never set back.                                    *)
TestFloodSticky ==
  /\ lastGap' = 0
  /\ flood' = IF lastGap < Interval THEN flood + 1 ELSE flood
  /\ gaps' = LET g == Append(gaps, lastGap)
             IN IF Len(g) > KickCount THEN Tail(g) ELSE g

(* TestFlood(), on each complete package, after its gap is noted.          *)
TestFlood ==
  /\ lastGap' = 0
  /\ flood' = IF lastGap < Interval THEN flood + 1 ELSE 0
  /\ gaps' = LET g == Append(gaps, lastGap)
             IN IF Len(g) > KickCount THEN Tail(g) ELSE g

IsFlood == FloodOn /\ flood' >= KickCount

(* Ready for the next header.                                              *)
ExpectHeader ==
  /\ curStat' = "HD_INIT" /\ irecvlen' = HeadLen /\ head' = <<>>

(* ngx_wait_request_handler_proc_plast() with block b, which holds package *)
(* p: to the thread pool, or released and the client cut off.              *)
Plast(b, p) ==
  /\ IF FloodOn THEN TestFlood ELSE UNCHANGED floodVars
  /\ IF IsFlood
     THEN /\ freed' = freed \cup {b} /\ open' = FALSE /\ parked' = TRUE
          /\ UNCHANGED <<handed, out>>
     ELSE /\ handed' = handed \cup {b} /\ out' = Append(out, p)
          /\ UNCHANGED <<freed, open, parked>>
  /\ block' = 0 /\ room' = 0 /\ body' = <<>>
  /\ ExpectHeader

(* ngx_wait_request_handler_proc_p1() with a whole header h, after which   *)
(* the rest of the package is asked for.                                   *)
P1With(h, rest) ==
  IF ~Legal(PkgLen(h))
  THEN /\ ExpectHeader
       /\ UNCHANGED <<open, parked, block, room, body, floodVars, memVars, out>>
  ELSE /\ allocated' = allocated + 1
       /\ IF PkgLen(h) = HeadLen
          THEN Plast(allocated + 1, h)
          ELSE /\ curStat' = "BD_INIT" /\ head' = h
               /\ block' = allocated + 1 /\ body' = <<>>
               /\ irecvlen' = rest /\ room' = PkgLen(h) - HeadLen
               /\ UNCHANGED <<open, parked, floodVars, handed, freed, out>>

(* Mutant: pkgLen taken for the length of the body.                        *)
P1WholeLength(h) == P1With(h, PkgLen(h))

P1(h) == P1With(h, PkgLen(h) - HeadLen)

(* recv() of n of the bytes that are there, at most irecvlen.              *)
Receive(n) ==
  /\ open /\ n \in 1..Min(irecvlen, Len(inbuf))
  /\ inbuf' = SubSeq(inbuf, n + 1, Len(inbuf))
  /\ UNCHANGED <<sent, fin, clients>>

Got(n) == SubSeq(inbuf, 1, n)

InHead == curStat \in {"HD_INIT", "HD_RECVING"}

(* Mutant: the rest of a header is compared with the size of a whole one.  *)
ReadHeaderWhole(n) ==
  /\ InHead /\ Receive(n)
  /\ IF n = HeadLen
     THEN P1(head \o Got(n))
     ELSE /\ curStat' = "HD_RECVING" /\ irecvlen' = irecvlen - n
          /\ head' = head \o Got(n)
          /\ UNCHANGED <<open, parked, block, room, body, floodVars, memVars, out>>

(* ngx_read_request_handler(), by what it was waiting for.  Receiving and  *)
(* handling the bytes is one step: no other thread touches the parser.     *)
ReadHeader(n) ==
  /\ InHead /\ Receive(n)
  /\ IF n = irecvlen
     THEN P1(head \o Got(n))
     ELSE /\ curStat' = "HD_RECVING" /\ irecvlen' = irecvlen - n
          /\ head' = head \o Got(n)
          /\ UNCHANGED <<open, parked, block, room, body, floodVars, memVars, out>>

(* Mutant: a body is taken to be complete when its first part has come.    *)
ReadBodyOnce(n) ==
  /\ ~InHead /\ Receive(n)
  /\ Plast(block, head \o body \o Got(n))
  /\ UNCHANGED allocated

ReadBody(n) ==
  /\ ~InHead /\ Receive(n)
  /\ IF n = irecvlen
     THEN Plast(block, head \o body \o Got(n)) /\ UNCHANGED allocated
     ELSE /\ curStat' = "BD_RECVING" /\ irecvlen' = irecvlen - n
          /\ body' = body \o Got(n)
          /\ UNCHANGED <<open, parked, head, block, room, floodVars, memVars, out>>

(* recv() returned 0.                                                      *)
ReadClosed ==
  /\ open /\ fin /\ inbuf = <<>>
  /\ open' = FALSE /\ parked' = TRUE
  /\ UNCHANGED <<parser, floodVars, memVars, out, envVars>>

(* Another thread closes the connection, whatever has been received.       *)
ClosedByOther ==
  /\ open
  /\ open' = FALSE /\ parked' = TRUE
  /\ UNCHANGED <<parser, floodVars, memVars, out, envVars>>

-----------------------------------------------------------------------------
(* R puts the object back (PutOneToFree), accept takes it (GetOneToUse).   *)
NewClient ==
  /\ clients' = clients + 1
  /\ open' = TRUE /\ parked' = FALSE
  /\ freed' = freed \cup ({block} \ {0})
  /\ sent' = <<>> /\ inbuf' = <<>> /\ fin' = FALSE /\ out' = <<>> /\ gaps' = <<>>

(* Mutants: the parser is not set back; the flood count is not set back.   *)
ReuseMidPackage ==
  /\ parked /\ clients < MaxClients /\ NewClient
  /\ block' = 0 /\ lastGap' = Interval /\ flood' = 0
  /\ UNCHANGED <<curStat, irecvlen, head, room, body, allocated, handed>>
ReuseForgetsBlock ==
  /\ parked /\ clients < MaxClients /\ NewClient
  /\ ExpectHeader
  /\ room' = 0 /\ body' = <<>> /\ lastGap' = Interval /\ flood' = 0
  /\ UNCHANGED <<block, allocated, handed>>

Reuse ==
  /\ parked /\ clients < MaxClients /\ NewClient
  /\ ExpectHeader
  /\ block' = 0 /\ room' = 0 /\ body' = <<>> /\ lastGap' = Interval /\ flood' = 0
  /\ UNCHANGED <<allocated, handed>>

ReadStep == ReadClosed \/ \E n \in 1..MaxLen : ReadHeader(n) \/ ReadBody(n)

Next ==
  \/ \E len \in Announced : ClientSends(len)
  \/ ClientCloses \/ Tick \/ ClosedByOther \/ Reuse \/ ReadStep

Spec == Init /\ [][Next]_vars

(* E serves a readable socket again and again: epoll is level triggered.   *)
FairSpec == Spec /\ WF_vars(ReadStep)

-----------------------------------------------------------------------------
(* Properties.                                                             *)

(* Types, and where there is a block.                                      *)
TypeOK ==
  /\ open \in BOOLEAN /\ parked \in BOOLEAN /\ fin \in BOOLEAN
  /\ curStat \in {"HD_INIT", "HD_RECVING", "BD_INIT", "BD_RECVING"}
  /\ irecvlen \in Nat /\ room \in Nat /\ block \in 0..allocated
  /\ InHead <=> block = 0
  /\ flood \in Nat /\ lastGap \in 0..Interval /\ clients \in 1..MaxClients

(* recv() is asked for what is missing of the header or of the block, so   *)
(* it never writes past either; and never for nothing, as its result 0     *)
(* would then be taken for the end of the connection.                      *)
RecvFits ==
  /\ irecvlen > 0
  /\ Len(head) + (IF InHead THEN irecvlen ELSE 0) = HeadLen
  /\ ~InHead => Len(body) + irecvlen = room

LegalSent == {k \in 1..Len(sent) : Legal(sent[k])}

(* README, "the length in the header solves packages that stick together": *)
(* what reaches the logic threads is the legal packages of this client,    *)
(* whole, in order, none left out and none of a former client's, however   *)
(* recv() cuts and joins them.                                             *)
Number(p) == p[1][1]
Framing ==
  /\ \A i \in 1..Len(out) : \E k \in LegalSent : out[i] = Bytes(k, sent[k])
  /\ \A i, j \in 1..Len(out) : i < j => Number(out[i]) < Number(out[j])
  /\ \A j \in 1..Len(out) : \A k \in LegalSent :
       k < Number(out[j]) => \E i \in 1..Len(out) : Number(out[i]) = k

(* Each block is with the connection, with the pool or released, and only  *)
(* one of them, so none leaks and none is released twice.                  *)
BlockOwned ==
  \A b \in 1..allocated :
    LET here == b = block /\ block # 0
    IN /\ here \/ b \in handed \/ b \in freed
       /\ ~(here /\ b \in handed) /\ ~(here /\ b \in freed) /\ b \notin handed \cap freed

(* The flood test counts this client's packages only, and only those in a  *)
(* row: a client still connected has not sent KickCount in a row that were *)
(* too close, and the count is never above the number of close ones.       *)
Close == {i \in 1..Len(gaps) : gaps[i] < Interval}
FloodExact ==
  /\ open /\ FloodOn => ~(Len(gaps) = KickCount /\ Close = 1..KickCount)
  /\ flood >= KickCount => Len(gaps) = KickCount /\ Close = 1..KickCount

(* A legal package that was sent whole reaches the pool, unless the        *)
(* connection is closed.                                                   *)
AllDelivered ==
  \A k \in 1..MaxPkgs :
    (open /\ Cardinality(LegalSent) = k) ~> (~open \/ Len(out) >= k)

=============================================================================
