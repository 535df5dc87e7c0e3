-------------------------- MODULE RecvPacketProofs --------------------------
(***************************************************************************)
(* The receive state machine of RecvPacket, for every length of a header,  *)
(* every limit and every way recv() may cut the stream: recv() is never    *)
(* asked for more than fits, what reaches the logic threads is whole       *)
(* packages, a block has one owner, and the flood count is exact.          *)
(***************************************************************************)
EXTENDS RecvPacket, SequenceTheorems, TLAPS

Octet == (Nat \ {0}) \X (Nat \ {0})

Types ==
  /\ open \in BOOLEAN /\ parked \in BOOLEAN /\ fin \in BOOLEAN
  /\ curStat \in {"HD_INIT", "HD_RECVING", "BD_INIT", "BD_RECVING"}
  /\ irecvlen \in 1..MaxLen /\ block \in Nat /\ room \in Nat
  /\ head \in Seq(Octet) /\ body \in Seq(Octet) /\ inbuf \in Seq(Octet)
  /\ out \in Seq(Seq(Octet)) /\ sent \in Seq(Announced)
  /\ lastGap \in 0..Interval /\ flood \in Nat /\ gaps \in Seq(0..Interval)
  /\ allocated \in Nat /\ clients \in 1..MaxClients

(* What has come and what is wanted make up a header, or a package; there  *)
(* is a block exactly while a body is on its way.                          *)
ParserInv ==
  /\ InHead => Len(head) + irecvlen = HeadLen /\ block = 0 /\ body = <<>>
  /\ ~InHead => Len(head) = HeadLen /\ Len(body) + irecvlen = room /\ block # 0

(* The blocks allocated are the connection's, the pool's and the released. *)
BlockInv ==
  /\ 1..allocated = ({block} \ {0}) \cup handed \cup freed
  /\ block \notin handed \cup freed /\ handed \cap freed = {}

(* The count is the number of close gaps at the end of gaps.               *)
FloodInv ==
  /\ Len(gaps) <= KickCount /\ flood <= Len(gaps)
  /\ \A i \in 1..Len(gaps) : i > Len(gaps) - flood => gaps[i] < Interval
  /\ flood < Len(gaps) => gaps[Len(gaps) - flood] >= Interval
  /\ open /\ FloodOn => flood < KickCount
  /\ ~FloodOn => gaps = <<>>

-----------------------------------------------------------------------------
(* From each byte on, buf has the rest of its package, and then the next   *)
(* package, or nothing if it was the last.                                 *)
RunsOnAt(buf, i) ==
  LET k == buf[i][1]
      p == buf[i][2]
      last == i + SizeOf(sent[k]) - p
  IN /\ k <= Len(sent) /\ p <= SizeOf(sent[k]) /\ last <= Len(buf)
     /\ \A j \in i..last : buf[j] = <<k, p + j - i>>
     /\ IF last = Len(buf) THEN k = Len(sent) ELSE buf[last + 1] = <<k + 1, 1>>
RunsOn(buf) == \A i \in 1..Len(buf) : RunsOnAt(buf, i)

(* The server is at package cur, of which it has read so many bytes.       *)
Read == Len(head) + Len(body)
Receiving(cur) ==
  /\ \A i \in 1..Len(head) : head[i] = <<cur, i>>
  /\ \A i \in 1..Len(body) : body[i] = <<cur, HeadLen + i>>
  /\ ~InHead => Legal(sent[cur]) /\ room = sent[cur] - HeadLen
  /\ IF inbuf = <<>> THEN Read = 0 /\ cur = Len(sent) + 1 ELSE inbuf[1] = <<cur, Read + 1>>

(* All legal packages before it are out, but the one a flood ended with.   *)
Delivered(cur) ==
  /\ \A i \in 1..Len(out) : \E k \in 1..cur - 1 : Legal(sent[k]) /\ out[i] = Bytes(k, sent[k])
  /\ \A i, j \in 1..Len(out) : i < j => Number(out[i]) < Number(out[j])
  /\ \A k \in 1..cur - 1 : Legal(sent[k]) =>
       \/ \E i \in 1..Len(out) : Number(out[i]) = k
       \/ ~open /\ k = cur - 1

StreamInv ==
  /\ RunsOn(inbuf)
  /\ \E cur \in 1..Len(sent) + 1 : Receiving(cur) /\ Delivered(cur)

Inv == Types /\ ParserInv /\ BlockInv /\ FloodInv /\ StreamInv

-----------------------------------------------------------------------------
(* A length that a client announced is a number, and at least a header is  *)
(* sent of its package.                                                    *)
LEMMA Lengths ==
  ASSUME sent \in Seq(Announced), NEW k \in 1..Len(sent)
  PROVE  /\ sent[k] \in Nat /\ SizeOf(sent[k]) \in Nat /\ SizeOf(sent[k]) >= HeadLen
         /\ Legal(sent[k]) => SizeOf(sent[k]) = sent[k]
<1>1. sent[k] \in Nat
  BY ElementOfSeq, RecvAssumption DEF RecvAssumption
<1>2. QED
  BY <1>1, RecvAssumption DEF RecvAssumption, SizeOf, Legal

(* What recv() hands over is the next bytes of the package being received, *)
(* and what remains runs on.                                               *)
LEMMA Consume ==
  ASSUME Types, ParserInv, RunsOn(inbuf), NEW cur \in 1..Len(sent) + 1, Receiving(cur),
         NEW n \in Nat, Receive(n)
  PROVE  /\ cur \in 1..Len(sent) /\ n \in 1..irecvlen /\ Read \in Nat
         /\ Read + n <= SizeOf(sent[cur])
         /\ Got(n) \in Seq(Octet) /\ Len(Got(n)) = n
         /\ \A i \in 1..n : Got(n)[i] = <<cur, Read + i>>
         /\ inbuf' \in Seq(Octet) /\ RunsOn(inbuf)'
         /\ IF inbuf' = <<>> THEN cur = Len(sent) /\ Read + n = SizeOf(sent[cur])
            ELSE inbuf'[1] = IF Read + n < SizeOf(sent[cur]) THEN <<cur, Read + n + 1>>
                             ELSE <<cur + 1, 1>>
<1>0. /\ head \in Seq(Octet) /\ body \in Seq(Octet) /\ inbuf \in Seq(Octet)
      /\ sent \in Seq(Announced) /\ irecvlen \in Nat \ {0} /\ HeadLen \in Nat \ {0}
      /\ Len(sent) \in Nat /\ Len(inbuf) \in Nat /\ Len(head) \in Nat /\ Len(body) \in Nat
  BY RecvAssumption DEF Types, RecvAssumption
<1>1. Read \in Nat
  BY <1>0 DEF Read
<1>2. n \in 1..irecvlen /\ n <= Len(inbuf) /\ inbuf # <<>> /\ sent' = sent
      /\ inbuf' = SubSeq(inbuf, n + 1, Len(inbuf))
  BY <1>0 DEF Receive, Min
<1>3. inbuf[1] = <<cur, Read + 1>> /\ 1 \in 1..Len(inbuf)
  BY <1>0, <1>2 DEF Receiving
<1>4. RunsOnAt(inbuf, 1)
  BY <1>3 DEF RunsOn
<1>5. cur \in 1..Len(sent)
  BY <1>0, <1>3, <1>4 DEF RunsOnAt
<1>6. sent[cur] \in Nat /\ SizeOf(sent[cur]) \in Nat /\ SizeOf(sent[cur]) >= HeadLen
      /\ (Legal(sent[cur]) => SizeOf(sent[cur]) = sent[cur])
  BY <1>0, <1>5, Lengths
<1>7. Read + n <= SizeOf(sent[cur])
  <2>1. CASE InHead
    <3>1. Read + irecvlen = HeadLen
      BY <1>0, <2>1 DEF ParserInv, Read
    <3>2. QED
      BY <1>0, <1>1, <1>2, <1>6, <3>1
  <2>2. CASE ~InHead
    <3>a. Len(head) = HeadLen /\ Len(body) + irecvlen = room
      BY <2>2 DEF ParserInv
    <3>b. Legal(sent[cur]) /\ room = sent[cur] - HeadLen
      BY <2>2 DEF Receiving
    <3>1. Read + irecvlen = sent[cur] /\ Legal(sent[cur])
      <4>1. Read = HeadLen + Len(body) /\ Len(body) + irecvlen = sent[cur] - HeadLen
        BY <3>a, <3>b DEF Read
      <4>2. HeadLen \in Int /\ Len(body) \in Int /\ irecvlen \in Int /\ sent[cur] \in Int
        BY <1>0, <1>6
      <4>3. QED
        BY SMTT(40), <3>b, <4>1, <4>2
    <3>2. QED
      BY <1>0, <1>1, <1>2, <1>6, <3>1
  <2>3. QED
    BY <2>1, <2>2
<1>8. /\ \A j \in 1..SizeOf(sent[cur]) - Read : inbuf[j] = <<cur, Read + j>>
      /\ SizeOf(sent[cur]) - Read <= Len(inbuf)
      /\ IF SizeOf(sent[cur]) - Read = Len(inbuf) THEN cur = Len(sent)
         ELSE inbuf[SizeOf(sent[cur]) - Read + 1] = <<cur + 1, 1>>
  <2>1. /\ inbuf[1][1] = cur /\ inbuf[1][2] = Read + 1
        /\ 1 + SizeOf(sent[cur]) - (Read + 1) = SizeOf(sent[cur]) - Read
        /\ \A j \in Nat : Read + 1 + j - 1 = Read + j
    BY <1>1, <1>3, <1>6
  <2>2. QED
    BY SMTT(40), <1>1, <1>4, <1>6, <2>1 DEF RunsOnAt
<1>9. /\ Got(n) \in Seq(Octet) /\ Len(Got(n)) = n
      /\ \A i \in 1..n : Got(n)[i] = inbuf[i]
  <2>1. \A i \in 1..n : inbuf[i] \in Octet
    BY <1>0, <1>2, ElementOfSeq
  <2>2. QED
    BY <1>2, <2>1, SubSeqProperties DEF Got
<1>10. \A i \in 1..n : Got(n)[i] = <<cur, Read + i>>
  <2>1. TAKE i \in 1..n
  <2>2. i \in 1..SizeOf(sent[cur]) - Read
    BY <1>1, <1>6, <1>7
  <2>3. QED
    BY <1>8, <1>9, <2>2
<1>11. /\ inbuf' \in Seq(Octet) /\ Len(inbuf') = Len(inbuf) - n
       /\ \A i \in 1..Len(inbuf) - n : inbuf'[i] = inbuf[n + i]
  <2>1. \A i \in n + 1..Len(inbuf) : inbuf[i] \in Octet
    BY <1>0, <1>2, ElementOfSeq
  <2>2. /\ inbuf' \in Seq(Octet)
        /\ Len(inbuf') = IF n + 1 <= Len(inbuf) THEN Len(inbuf) - (n + 1) + 1 ELSE 0
        /\ \A i \in 1..Len(inbuf) - (n + 1) + 1 : inbuf'[i] = inbuf[n + 1 + i - 1]
    BY <1>0, <1>2, <2>1, SubSeqProperties
  <2>3. QED
    BY <1>0, <1>2, <2>2
<1>12. RunsOn(inbuf)'
  <2>1. SUFFICES ASSUME NEW i \in 1..Len(inbuf) - n PROVE RunsOnAt(inbuf, i)'
    BY <1>11, <2>1 DEF RunsOn
  <2>2. RunsOnAt(inbuf, n + i) /\ n + i \in 1..Len(inbuf)
    BY <1>0, <1>2 DEF RunsOn
  <2> DEFINE k == inbuf[n + i][1]
             p == inbuf[n + i][2]
             last == n + i + SizeOf(sent[k]) - p
  <2>3. inbuf[n + i] \in Octet
    BY <1>0, <2>2, ElementOfSeq
  <2>4. k \in Nat \ {0} /\ p \in Nat \ {0} /\ k <= Len(sent)
    BY <2>2, <2>3 DEF Octet, RunsOnAt
  <2>5. SizeOf(sent[k]) \in Nat /\ p <= SizeOf(sent[k])
    <3>1. k \in 1..Len(sent) /\ p <= SizeOf(sent[k])
      BY SMTT(40), <1>0, <2>2, <2>4 DEF RunsOnAt
    <3>2. QED
      BY <1>0, <3>1, Lengths
  <2>6. /\ last \in Nat /\ last <= Len(inbuf) /\ last >= n + i
        /\ \A j \in n + i..last : inbuf[j] = <<k, p + j - (n + i)>>
        /\ IF last = Len(inbuf) THEN k = Len(sent) ELSE inbuf[last + 1] = <<k + 1, 1>>
    <3>1. /\ last <= Len(inbuf)
          /\ \A j \in n + i..last : inbuf[j] = <<k, p + j - (n + i)>>
          /\ IF last = Len(inbuf) THEN k = Len(sent) ELSE inbuf[last + 1] = <<k + 1, 1>>
      BY <2>2 DEF RunsOnAt
    <3> HIDE DEF k, p
    <3>2. last \in Nat /\ last >= n + i
      BY SMTT(40), <1>2, <2>4, <2>5
    <3>3. QED
      BY <3>1, <3>2
  <2>7. inbuf'[i][1] = k /\ inbuf'[i][2] = p
    BY <1>11
  <2> HIDE DEF k, p
  <2>8. i + SizeOf(sent[k]) - p = last - n
    BY SMTT(40), <1>2, <2>4, <2>5
  <2> HIDE DEF last
  <2>9. last - n <= Len(inbuf')
    BY <1>0, <1>2, <1>11, <2>6
  <2>10. \A j \in i..last - n : inbuf'[j] = <<k, p + j - i>>
    <3>1. TAKE j \in i..last - n
    <3>2. inbuf'[j] = inbuf[n + j] /\ n + j \in n + i..last
      BY <1>0, <1>2, <1>11, <2>6, <3>1
    <3>3. inbuf[n + j] = <<k, p + (n + j) - (n + i)>>
      BY <2>6, <3>2
    <3>4. p + (n + j) - (n + i) = p + j - i
      BY <1>2, <2>4, <2>6, <3>1
    <3>5. QED
      BY <3>2, <3>3, <3>4
  <2>11. IF last - n = Len(inbuf') THEN k = Len(sent) ELSE inbuf'[last - n + 1] = <<k + 1, 1>>
    <3>1. CASE last = Len(inbuf)
      BY <1>0, <1>2, <1>11, <2>6, <3>1
    <3>2. CASE last # Len(inbuf)
      <4>1. last - n + 1 \in 1..Len(inbuf) - n /\ n + (last - n + 1) = last + 1
        BY SMTT(40), <1>0, <1>2, <2>6, <3>2
      <4>2. QED
        BY SMTT(40), <1>0, <1>2, <1>11, <2>6, <3>2, <4>1
    <3>3. QED
      BY <3>1, <3>2
  <2>12. QED
    BY <1>2, <2>4, <2>5, <2>7, <2>8, <2>9, <2>10, <2>11 DEF RunsOnAt
<1>13. IF inbuf' = <<>> THEN cur = Len(sent) /\ Read + n = SizeOf(sent[cur])
       ELSE inbuf'[1] = IF Read + n < SizeOf(sent[cur]) THEN <<cur, Read + n + 1>>
                        ELSE <<cur + 1, 1>>
  <2>1. CASE Len(inbuf) = n
    BY <1>0, <1>1, <1>2, <1>6, <1>7, <1>8, <1>11, <2>1
  <2>2. CASE Len(inbuf) # n
    <3>1. inbuf' # <<>> /\ inbuf'[1] = inbuf[n + 1] /\ n + 1 \in 1..Len(inbuf)
      <4>1. 1 \in 1..Len(inbuf) - n /\ Len(inbuf) - n # 0
        BY <1>0, <1>2, <2>2
      <4>2. n + 1 \in 1..Len(inbuf)
        BY <1>0, <1>2, <2>2
      <4>3. inbuf' # <<>>
        BY <1>11, <4>1
      <4>4. QED
        BY <1>11, <4>1, <4>2, <4>3
    <3>2. CASE Read + n < SizeOf(sent[cur])
      <4>1. n + 1 \in 1..SizeOf(sent[cur]) - Read /\ Read + (n + 1) = Read + n + 1
        BY SMTT(40), <1>0, <1>1, <1>2, <1>6, <3>2
      <4>2. QED
        BY <1>8, <3>1, <3>2, <4>1
    <3>3. CASE ~(Read + n < SizeOf(sent[cur]))
      <4>1. SizeOf(sent[cur]) - Read = n
        BY <1>1, <1>6, <1>7, <3>3
      <4>2. QED
        BY <1>8, <2>2, <3>1, <3>3, <4>1
    <3>4. QED
      BY <3>1, <3>2, <3>3
  <2>3. QED
    BY <2>1, <2>2
<1>14. QED
  BY <1>1, <1>2, <1>5, <1>7, <1>9, <1>10, <1>11, <1>12, <1>13

(* The bytes of a package.                                                 *)
LEMMA BytesFacts ==
  ASSUME NEW k \in Nat \ {0}, NEW m \in Nat
  PROVE  /\ Bytes(k, m) \in Seq(Octet) /\ Len(Bytes(k, m)) = m
         /\ \A i \in 1..m : Bytes(k, m)[i] = <<k, i>>
<1>1. Bytes(k, m) \in [1..m -> Octet]
  BY DEF Bytes, Octet
<1>2. Bytes(k, m) \in Seq(Octet)
  BY <1>1, SeqDef
<1>3. DOMAIN Bytes(k, m) = 1..m
  BY DEF Bytes
<1>4. 1..Len(Bytes(k, m)) = 1..m /\ Len(Bytes(k, m)) \in Nat
  BY <1>2, <1>3, LenProperties
<1>5. Len(Bytes(k, m)) = m
  BY <1>4
<1>6. QED
  BY <1>2, <1>5 DEF Bytes

(* Only a package that was sent is being received.                         *)
LEMMA CurrentSent ==
  ASSUME Types, ParserInv, RunsOn(inbuf), NEW cur \in 1..Len(sent) + 1, Receiving(cur),
         inbuf # <<>> \/ ~InHead
  PROVE  cur \in 1..Len(sent) /\ inbuf # <<>>
<1>0. /\ head \in Seq(Octet) /\ body \in Seq(Octet) /\ inbuf \in Seq(Octet)
      /\ sent \in Seq(Announced) /\ HeadLen \in Nat \ {0}
      /\ Len(sent) \in Nat /\ Len(inbuf) \in Nat /\ Len(head) \in Nat /\ Len(body) \in Nat
  BY RecvAssumption DEF Types, RecvAssumption
<1>1. inbuf # <<>>
  <2>1. CASE ~InHead
    <3>1. Len(head) = HeadLen
      BY <2>1 DEF ParserInv
    <3>2. Read # 0
      BY <1>0, <3>1 DEF Read
    <3>3. QED
      BY <3>2 DEF Receiving
  <2>2. QED
    BY <2>1
<1>2. inbuf[1] = <<cur, Read + 1>> /\ 1 \in 1..Len(inbuf)
  BY <1>0, <1>1 DEF Receiving
<1>3. inbuf[1][1] <= Len(sent)
  BY <1>2 DEF RunsOn, RunsOnAt
<1>4. QED
  BY <1>0, <1>1, <1>2, <1>3

(* A package more runs on from the last.                                   *)
LEMMA SendRuns ==
  ASSUME Types, RunsOn(inbuf), NEW len \in Announced, ClientSends(len)
  PROVE  /\ sent' \in Seq(Announced) /\ inbuf' \in Seq(Octet)
         /\ Len(sent') = Len(sent) + 1 /\ inbuf' # <<>>
         /\ \A k \in 1..Len(sent) : sent'[k] = sent[k]
         /\ inbuf'[1] = IF inbuf = <<>> THEN <<Len(sent) + 1, 1>> ELSE inbuf[1]
         /\ RunsOn(inbuf)'
<1> DEFINE more == Bytes(Len(sent) + 1, SizeOf(len))
<1>0. /\ inbuf \in Seq(Octet) /\ sent \in Seq(Announced) /\ HeadLen \in Nat \ {0}
      /\ Len(sent) \in Nat /\ Len(inbuf) \in Nat /\ len \in Nat
  BY RecvAssumption DEF Types, RecvAssumption
<1>1. sent' = Append(sent, len) /\ inbuf' = inbuf \o more
  BY DEF ClientSends
<1>2. SizeOf(len) \in Nat \ {0}
  BY <1>0 DEF SizeOf, Legal
<1>3. /\ more \in Seq(Octet) /\ Len(more) = SizeOf(len)
      /\ \A i \in 1..SizeOf(len) : more[i] = <<Len(sent) + 1, i>>
  <2>1. Len(sent) + 1 \in Nat \ {0} /\ SizeOf(len) \in Nat
    BY <1>0, <1>2
  <2> HIDE DEF more
  <2>2. \A k \in Nat \ {0} : \A m \in Nat :
          /\ Bytes(k, m) \in Seq(Octet) /\ Len(Bytes(k, m)) = m
          /\ \A i \in 1..m : Bytes(k, m)[i] = <<k, i>>
    BY BytesFacts
  <2>3. QED
    BY <2>1, <2>2 DEF more
<1> HIDE DEF more
<1>4. /\ sent' \in Seq(Announced) /\ Len(sent') = Len(sent) + 1
      /\ \A k \in 1..Len(sent) : sent'[k] = sent[k]
      /\ sent'[Len(sent) + 1] = len
  BY <1>0, <1>1, AppendProperties
<1>5. /\ inbuf' \in Seq(Octet) /\ Len(inbuf') = Len(inbuf) + SizeOf(len)
      /\ \A i \in 1..Len(inbuf) + SizeOf(len) :
           inbuf'[i] = IF i <= Len(inbuf) THEN inbuf[i] ELSE more[i - Len(inbuf)]
  BY <1>0, <1>1, <1>3, ConcatProperties
<1>6. \A i \in 1..Len(inbuf) : inbuf'[i] = inbuf[i]
  BY <1>0, <1>2, <1>5
<1>7. \A i \in 1..SizeOf(len) : inbuf'[Len(inbuf) + i] = <<Len(sent) + 1, i>>
  <2>1. TAKE i \in 1..SizeOf(len)
  <2>2. /\ Len(inbuf) + i \in 1..Len(inbuf) + SizeOf(len) /\ ~(Len(inbuf) + i <= Len(inbuf))
        /\ Len(inbuf) + i - Len(inbuf) = i
    BY <1>0, <1>2
  <2>3. QED
    BY <1>3, <1>5, <2>2
<1>8. inbuf' # <<>> /\ inbuf'[1] = IF inbuf = <<>> THEN <<Len(sent) + 1, 1>> ELSE inbuf[1]
  <2>1. inbuf' # <<>>
    BY <1>0, <1>2, <1>5
  <2>2. CASE inbuf = <<>>
    <3>1. Len(inbuf) = 0 /\ 1 \in 1..SizeOf(len) /\ 0 + 1 = 1
      BY <1>2, <2>2
    <3>2. QED
      BY <1>7, <2>1, <2>2, <3>1
  <2>3. CASE inbuf # <<>>
    <3>1. 1 \in 1..Len(inbuf)
      BY <1>0, <2>3
    <3>2. QED
      BY <1>6, <2>1, <2>3, <3>1
  <2>4. QED
    BY <2>2, <2>3
<1>9. ASSUME NEW i \in 1..Len(inbuf) PROVE RunsOnAt(inbuf, i)'
  <2> DEFINE k == inbuf[i][1]
             p == inbuf[i][2]
             last == i + SizeOf(sent[k]) - p
  <2>1. inbuf[i] \in Octet
    BY <1>0, ElementOfSeq
  <2>2. /\ k \in 1..Len(sent) /\ p \in Nat \ {0} /\ p <= SizeOf(sent[k]) /\ last <= Len(inbuf)
        /\ \A j \in i..last : inbuf[j] = <<k, p + j - i>>
        /\ IF last = Len(inbuf) THEN k = Len(sent) ELSE inbuf[last + 1] = <<k + 1, 1>>
    <3>1. RunsOnAt(inbuf, i)
      BY DEF RunsOn
    <3>2. k \in Nat \ {0} /\ p \in Nat \ {0}
      BY <2>1 DEF Octet
    <3>3. QED
      BY SMTT(40), <1>0, <3>1, <3>2 DEF RunsOnAt
  <2>3. SizeOf(sent[k]) \in Nat
    BY <1>0, <2>2, Lengths
  <2>4. last \in i..Len(inbuf)
    BY SMTT(40), <1>0, <2>2, <2>3
  <2>5. inbuf'[i][1] = k /\ inbuf'[i][2] = p /\ sent'[k] = sent[k] /\ SizeOf(sent[k]) = SizeOf(sent'[k])
    BY <1>4, <1>6, <2>2
  <2> HIDE DEF k, p
  <2>6. i + SizeOf(sent[k]) - p = last
    OBVIOUS
  <2> HIDE DEF last
  <2>7. \A j \in i..last : inbuf'[j] = <<k, p + j - i>>
    <3>1. TAKE j \in i..last
    <3>2. j \in 1..Len(inbuf)
      BY <1>0, <2>4, <3>1
    <3>3. QED
      BY <1>6, <2>2, <3>2
  <2>8. last # Len(inbuf') /\ last <= Len(inbuf')
    BY <1>0, <1>2, <1>5, <2>4
  <2>9. inbuf'[last + 1] = <<k + 1, 1>>
    <3>1. CASE last = Len(inbuf)
      BY <1>2, <1>7, <2>2, <3>1
    <3>2. CASE last # Len(inbuf)
      <4>1. last + 1 \in 1..Len(inbuf)
        BY <1>0, <2>4, <3>2
      <4>2. QED
        BY <1>6, <2>2, <3>2, <4>1
    <3>3. QED
      BY <3>1, <3>2
  <2>10. k <= Len(sent')
    BY <1>0, <1>4, <2>2
  <2>11. QED
    BY <2>2, <2>5, <2>6, <2>7, <2>8, <2>9, <2>10 DEF RunsOnAt, SizeOf, Legal
<1>10. ASSUME NEW i \in Len(inbuf) + 1..Len(inbuf) + SizeOf(len) PROVE RunsOnAt(inbuf, i)'
  <2>0. Len(sent) + 1 \in Nat /\ i - Len(inbuf) \in Nat
    BY <1>0, <1>2
  <2>1. PICK k \in Nat, d \in Nat : k = Len(sent) + 1 /\ d = i - Len(inbuf)
    BY <2>0, Zenon
  <2>2. d \in 1..SizeOf(len) /\ i = Len(inbuf) + d
    BY <1>0, <1>2, <2>1
  <2>3. inbuf'[i] = <<k, d>> /\ sent'[k] = len
    BY <1>4, <1>7, <2>1, <2>2
  <2>4. i + SizeOf(len) - d = Len(inbuf')
    BY <1>0, <1>2, <1>5, <2>2
  <2>5. \A j \in i..Len(inbuf') : inbuf'[j] = <<k, d + j - i>>
    <3>1. TAKE j \in i..Len(inbuf')
    <3>2. /\ j - Len(inbuf) \in 1..SizeOf(len) /\ Len(inbuf) + (j - Len(inbuf)) = j
          /\ d + j - i = j - Len(inbuf)
      BY SMTT(40), <1>0, <1>2, <1>5, <2>1, <2>2
    <3>3. QED
      BY <1>7, <2>1, <3>2
  <2>6. k = Len(sent') /\ d <= SizeOf(len) /\ Len(inbuf') <= Len(inbuf')
    BY <1>0, <1>2, <1>4, <1>5, <2>1, <2>2
  <2>7. inbuf'[i][1] = k /\ inbuf'[i][2] = d
    BY <2>3
  <2>8. QED
    BY SMTT(40), <2>3, <2>4, <2>5, <2>6, <2>7 DEF RunsOnAt, SizeOf, Legal
<1>11. RunsOn(inbuf)'
  <2>1. SUFFICES ASSUME NEW i \in 1..Len(inbuf') PROVE RunsOnAt(inbuf, i)'
    BY DEF RunsOn
  <2>2. i \in 1..Len(inbuf) \/ i \in Len(inbuf) + 1..Len(inbuf) + SizeOf(len)
    BY <1>0, <1>2, <1>5
  <2>3. QED
    BY <1>9, <1>10, <2>2
<1>12. QED
  BY <1>4, <1>5, <1>8, <1>11

-----------------------------------------------------------------------------
(* A package more from the client leaves the server where it was.          *)
LEMMA SendStream ==
  ASSUME Types, ParserInv, StreamInv, NEW len \in Announced, ClientSends(len)
  PROVE  StreamInv'
<1>0. Len(sent) \in Nat /\ sent \in Seq(Announced)
  BY DEF Types
<1>1. RunsOn(inbuf)
  BY DEF StreamInv
<1>2. PICK cur \in 1..Len(sent) + 1 : Receiving(cur) /\ Delivered(cur)
  BY DEF StreamInv
<1>3. /\ Len(sent') = Len(sent) + 1 /\ inbuf' # <<>>
      /\ \A k \in 1..Len(sent) : sent'[k] = sent[k]
      /\ inbuf'[1] = IF inbuf = <<>> THEN <<Len(sent) + 1, 1>> ELSE inbuf[1]
      /\ RunsOn(inbuf)'
  BY <1>1, SendRuns
<1>4. UNCHANGED <<open, head, body, curStat, room, out>>
  BY DEF ClientSends, parser
<1>5. cur \in 1..Len(sent') + 1 /\ \A k \in 1..cur - 1 : k \in 1..Len(sent)
  BY <1>0, <1>3
<1>6. Receiving(cur)'
  <2>1. (~InHead)' => Legal(sent'[cur]) /\ room' = sent'[cur] - HeadLen
    <3>1. SUFFICES ASSUME ~InHead PROVE Legal(sent'[cur]) /\ room' = sent'[cur] - HeadLen
      BY <1>4 DEF InHead
    <3>2. cur \in 1..Len(sent)
      BY <1>1, <1>2, <3>1, CurrentSent
    <3>3. Legal(sent[cur]) /\ room = sent[cur] - HeadLen
      BY <1>2, <3>1 DEF Receiving
    <3>4. QED
      BY <1>3, <1>4, <3>2, <3>3
  <2>2. inbuf'[1] = <<cur, Read + 1>>
    <3>1. CASE inbuf = <<>>
      <4>1. Read = 0 /\ cur = Len(sent) + 1
        BY <1>2, <3>1 DEF Receiving
      <4>2. QED
        BY <1>3, <3>1, <4>1
    <3>2. CASE inbuf # <<>>
      BY <1>2, <1>3, <3>2 DEF Receiving
    <3>3. QED
      BY <3>1, <3>2
  <2>3. Read' = Read
    BY <1>4 DEF Read
  <2>4. /\ \A i \in 1..Len(head') : head'[i] = <<cur, i>>
        /\ \A i \in 1..Len(body') : body'[i] = <<cur, HeadLen + i>>
    BY <1>2, <1>4 DEF Receiving
  <2>5. QED
    BY <1>3, <2>1, <2>2, <2>3, <2>4 DEF Receiving
<1>7. Delivered(cur)'
  <2>1. \A k \in 1..cur - 1 : sent'[k] = sent[k]
    BY <1>3, <1>5
  <2>2. QED
    BY <1>2, <1>4, <2>1 DEF Delivered, Legal, Number
<1>8. QED
  BY <1>3, <1>5, <1>6, <1>7 DEF StreamInv

(* So does a step that receives and sends nothing.                         *)
LEMMA StillStream ==
  ASSUME StreamInv, UNCHANGED <<parser, out, sent, inbuf>>, open' => open
  PROVE  StreamInv'
<1>1. UNCHANGED <<head, body, curStat, room, out, sent, inbuf>>
  BY DEF parser
<1>2. PICK cur \in 1..Len(sent) + 1 : Receiving(cur) /\ Delivered(cur)
  BY DEF StreamInv
<1>3. Receiving(cur)'
  BY <1>1, <1>2 DEF Receiving, Read, InHead, Legal
<1>4. Delivered(cur)'
  BY <1>1, <1>2 DEF Delivered, Legal, Number
<1>5. RunsOn(inbuf)'
  <2>1. SUFFICES ASSUME NEW i \in 1..Len(inbuf) PROVE RunsOnAt(inbuf, i)'
    BY <1>1 DEF RunsOn
  <2>2. RunsOnAt(inbuf, i)
    BY DEF StreamInv, RunsOn
  <2>3. QED
    BY SMTT(40), <1>1, <2>2 DEF RunsOnAt, SizeOf, Legal
<1>6. QED
  BY <1>1, <1>2, <1>3, <1>4, <1>5 DEF StreamInv

(* A new client begins with its first package.                             *)
LEMMA FreshStream ==
  ASSUME head = <<>>, body = <<>>, inbuf = <<>>, sent = <<>>, out = <<>>, InHead
  PROVE  StreamInv
<1>1. Len(head) = 0 /\ Len(body) = 0 /\ Len(inbuf) = 0 /\ Len(out) = 0 /\ Len(sent) = 0
  OBVIOUS
<1>2. Receiving(1)
  BY <1>1 DEF Receiving, Read
<1>3. Delivered(1)
  BY <1>1 DEF Delivered
<1>4. RunsOn(inbuf)
  BY <1>1 DEF RunsOn
<1>5. 1 \in 1..Len(sent) + 1
  BY <1>1
<1>6. QED
  BY <1>2, <1>3, <1>4, <1>5 DEF StreamInv

(***************************************************************************)
(* A complete package.                                                     *)
(***************************************************************************)

(* TestFlood() keeps the count exact, whatever it makes of the package.    *)
LEMMA TestFloodExact ==
  ASSUME Types, FloodInv, open, FloodOn, TestFlood
  PROVE  /\ lastGap' \in 0..Interval /\ flood' \in Nat /\ gaps' \in Seq(0..Interval)
         /\ Len(gaps') <= KickCount /\ flood' <= Len(gaps')
         /\ \A i \in 1..Len(gaps') : i > Len(gaps') - flood' => gaps'[i] < Interval
         /\ flood' < Len(gaps') => gaps'[Len(gaps') - flood'] >= Interval
<1>0. /\ KickCount \in Nat \ {0} /\ Interval \in Nat \ {0}
      /\ lastGap \in 0..Interval /\ flood \in Nat /\ gaps \in Seq(0..Interval) /\ Len(gaps) \in Nat
  BY RecvAssumption DEF Types, RecvAssumption
<1>1. /\ Len(gaps) <= KickCount /\ flood <= Len(gaps) /\ flood < KickCount
      /\ \A i \in 1..Len(gaps) : i > Len(gaps) - flood => gaps[i] < Interval
      /\ flood < Len(gaps) => gaps[Len(gaps) - flood] >= Interval
  BY DEF FloodInv
<1> DEFINE g == Append(gaps, lastGap)
<1>2. /\ lastGap' = 0 /\ flood' = IF lastGap < Interval THEN flood + 1 ELSE 0
      /\ gaps' = IF Len(g) > KickCount THEN Tail(g) ELSE g
  BY DEF TestFlood
<1>3. /\ g \in Seq(0..Interval) /\ Len(g) = Len(gaps) + 1
      /\ \A i \in 1..Len(gaps) : g[i] = gaps[i]
      /\ g[Len(gaps) + 1] = lastGap
  BY <1>0, AppendProperties
<1> HIDE DEF g
<1>f. PICK f \in Nat : f = flood' /\ f = IF lastGap < Interval THEN flood + 1 ELSE 0
  <2>1. flood' \in Nat
    BY <1>0, <1>2
  <2>2. QED
    BY <1>2, <2>1
<1>4. \A i \in 1..Len(g) : i > Len(g) - f => g[i] < Interval
  <2>1. SUFFICES ASSUME NEW i \in 1..Len(g), i > Len(g) - f PROVE g[i] < Interval
    OBVIOUS
  <2>2. CASE lastGap < Interval
    <3>1. CASE i = Len(gaps) + 1
      BY <1>3, <2>2, <3>1
    <3>2. CASE i # Len(gaps) + 1
      <4>1. i \in 1..Len(gaps) /\ i > Len(gaps) - flood
        BY <1>0, <1>f, <1>3, <2>1, <2>2, <3>2
      <4>2. QED
        BY <1>1, <1>3, <4>1
    <3>3. QED
      BY <3>1, <3>2
  <2>3. CASE ~(lastGap < Interval)
    BY <1>0, <1>f, <1>3, <2>1, <2>3
  <2>4. QED
    BY <2>2, <2>3
<1>5. f < Len(g) => g[Len(g) - f] >= Interval
  <2>1. SUFFICES ASSUME f < Len(g) PROVE g[Len(g) - f] >= Interval
    OBVIOUS
  <2>2. CASE lastGap < Interval
    <3>1. Len(g) - f = Len(gaps) - flood /\ Len(gaps) - flood \in 1..Len(gaps) /\ flood < Len(gaps)
      BY SMTT(40), <1>0, <1>f, <1>3, <2>1, <2>2
    <3>2. QED
      BY <1>1, <1>3, <3>1
  <2>3. CASE ~(lastGap < Interval)
    <3>1. Len(g) - f = Len(gaps) + 1 /\ lastGap >= Interval
      BY <1>0, <1>f, <1>3, <2>3
    <3>2. QED
      BY <1>3, <3>1
  <2>4. QED
    BY <2>2, <2>3
<1>6. f <= Len(g) /\ f <= KickCount
  BY <1>0, <1>1, <1>f, <1>3
<1>7. CASE Len(g) > KickCount
  <2>a. Len(g) = KickCount + 1 /\ Len(g) # 0
    <3>1. KickCount \in Nat /\ Len(gaps) \in Nat /\ Len(gaps) <= KickCount
      BY <1>0, <1>1
    <3>2. Len(g) = Len(gaps) + 1 /\ Len(g) > KickCount
      BY <1>3, <1>7
    <3>3. QED
      BY <3>1, <3>2
  <2>c. f <= KickCount /\ KickCount \in Nat
    BY <1>0, <1>6
  <2>b. Len(<<>>) = 0
    OBVIOUS
  <2>1. gaps' = Tail(g) /\ g # <<>> /\ Len(g) = KickCount + 1
    BY <1>2, <1>7, <2>a, <2>b, Zenon
  <2>2. /\ gaps' \in Seq(0..Interval) /\ Len(gaps') = KickCount
        /\ \A i \in 1..KickCount : gaps'[i] = g[i + 1]
    <3>1. /\ Tail(g) \in Seq(0..Interval) /\ Len(Tail(g)) = Len(g) - 1
          /\ \A i \in 1..Len(Tail(g)) : Tail(g)[i] = g[i + 1]
      BY <1>3, <2>1, HeadTailProperties
    <3>2. QED
      BY <1>0, <2>1, <3>1
  <2>3. \A i \in 1..KickCount : i > KickCount - f => gaps'[i] < Interval
    <3>1. SUFFICES ASSUME NEW i \in 1..KickCount, i > KickCount - f PROVE gaps'[i] < Interval
      OBVIOUS
    <3>2. i + 1 \in 1..Len(g) /\ i + 1 > Len(g) - f
      BY <2>a, <2>c, <3>1
    <3>3. QED
      BY <1>4, <2>2, <3>2
  <2>4. f < KickCount => gaps'[KickCount - f] >= Interval
    <3>1. SUFFICES ASSUME f < KickCount PROVE gaps'[KickCount - f] >= Interval
      OBVIOUS
    <3>2. /\ KickCount - f \in 1..KickCount /\ f < Len(g)
          /\ KickCount - f + 1 = Len(g) - f
      BY <2>a, <2>c, <3>1
    <3>3. QED
      BY <1>5, <2>2, <3>2
  <2>5. KickCount <= KickCount /\ 0 \in 0..Interval
    BY <1>0
  <2>6. QED
    BY <1>2, <1>6, <2>2, <2>3, <1>f, <2>4, <2>5
<1>8. CASE ~(Len(g) > KickCount)
  <2>1. gaps' = g /\ Len(g) <= KickCount /\ 0 \in 0..Interval
    BY <1>0, <1>2, <1>3, <1>8
  <2>2. QED
    BY <1>2, <1>f, <1>3, <1>4, <1>5, <1>6, <2>1
<1>9. QED
  BY <1>7, <1>8

(* The last of a legal package: handed on, or the connection ends.         *)
LEMMA FinishStream ==
  ASSUME Types, StreamInv, RunsOn(inbuf), NEW cur \in 1..Len(sent) + 1,
         Receiving(cur), Delivered(cur),
         ParserInv, NEW n \in Nat, Receive(n), open,
         Legal(sent[cur]), Read + n = SizeOf(sent[cur]),
         NEW b, NEW p, p = Bytes(cur, sent[cur]), Plast(b, p)
  PROVE  StreamInv' /\ out' \in Seq(Seq(Octet))
<1>0. /\ HeadLen \in Nat \ {0} /\ out \in Seq(Seq(Octet)) /\ Len(out) \in Nat
      /\ sent \in Seq(Announced) /\ Len(sent) \in Nat
  BY RecvAssumption DEF Types, RecvAssumption
<1>1. /\ cur \in 1..Len(sent) /\ inbuf' \in Seq(Octet) /\ RunsOn(inbuf)'
      /\ IF inbuf' = <<>> THEN cur = Len(sent) ELSE inbuf'[1] = <<cur + 1, 1>>
  <2>1. /\ cur \in 1..Len(sent) /\ inbuf' \in Seq(Octet) /\ RunsOn(inbuf)'
        /\ IF inbuf' = <<>> THEN cur = Len(sent) /\ Read + n = SizeOf(sent[cur])
            ELSE inbuf'[1] = IF Read + n < SizeOf(sent[cur]) THEN <<cur, Read + n + 1>>
                             ELSE <<cur + 1, 1>>
    BY Consume
  <2>2. SizeOf(sent[cur]) \in Nat
    BY <1>0, <2>1, Lengths
  <2>3. ~(Read + n < SizeOf(sent[cur]))
    BY <2>2
  <2>4. QED
    BY <2>1, <2>3
<1>2. sent' = sent /\ body' = <<>> /\ head' = <<>> /\ InHead'
  BY DEF Receive, Plast, ExpectHeader, InHead
<1>3. Receiving(cur + 1)'
  <2>1. Len(head') = 0 /\ Len(body') = 0 /\ Read' = 0
    BY <1>2 DEF Read
  <2>2. QED
    BY <1>1, <1>2, <2>1 DEF Receiving
<1>4. \A k \in 1..Len(sent) : sent[k] \in Nat /\ (Legal(sent[k]) => Number(Bytes(k, sent[k])) = k)
  <2>1. TAKE k \in 1..Len(sent)
  <2>2. sent[k] \in Nat
    BY <1>0, Lengths
  <2>3. ASSUME Legal(sent[k]) PROVE 1 \in 1..sent[k]
    BY <1>0, <2>2, <2>3 DEF Legal
  <2>4. QED
    BY <2>2, <2>3 DEF Number, Bytes
<1>5. p \in Seq(Octet)
  <2>1. cur \in Nat \ {0} /\ sent[cur] \in Nat
    BY <1>0, <1>1, <1>4
  <2>2. \A k \in Nat \ {0} : \A m \in Nat : Bytes(k, m) \in Seq(Octet)
    BY BytesFacts
  <2>3. QED
    BY <2>1, <2>2
<1>6. Number(p) = cur
  BY <1>1, <1>4
<1>7. /\ \A i \in 1..Len(out) : \E k \in 1..cur - 1 : Legal(sent[k]) /\ out[i] = Bytes(k, sent[k])
      /\ \A i, j \in 1..Len(out) : i < j => Number(out[i]) < Number(out[j])
      /\ \A k \in 1..cur - 1 : Legal(sent[k]) => \E i \in 1..Len(out) : Number(out[i]) = k
  BY DEF Delivered
<1>8. /\ \A k \in 1..cur - 1 : k \in 1..cur /\ k \in 1..Len(sent)
      /\ cur \in 1..cur /\ cur + 1 - 1 = cur /\ cur + 1 \in 1..Len(sent) + 1
      /\ \A k \in 1..cur : k \in 1..cur - 1 \/ k = cur
  BY <1>0, <1>1
<1>9. (Delivered(cur + 1)' /\ out' \in Seq(Seq(Octet)))
  <2>1. CASE IsFlood
    <3>1. out' = out /\ open' = FALSE
      BY <2>1 DEF Plast
    <3>2. \A i \in 1..Len(out) : \E k \in 1..cur : Legal(sent[k]) /\ out[i] = Bytes(k, sent[k])
      BY <1>7, <1>8
    <3>3. \A k \in 1..cur : Legal(sent[k]) =>
            \/ \E i \in 1..Len(out) : Number(out[i]) = k
            \/ k = cur
      BY <1>7, <1>8
    <3>4. QED
      BY <1>0, <1>2, <1>7, <1>8, <3>1, <3>2, <3>3 DEF Delivered, Legal, Number
  <2>2. CASE ~IsFlood
    <3>1. out' = Append(out, p) /\ open' = open
      BY <2>2 DEF Plast
    <3>2. /\ out' \in Seq(Seq(Octet)) /\ Len(out') = Len(out) + 1
          /\ \A i \in 1..Len(out) : out'[i] = out[i]
          /\ out'[Len(out) + 1] = p
      BY <1>0, <1>5, <3>1, AppendProperties
    <3>3. \A i \in 1..Len(out') : i \in 1..Len(out) \/ i = Len(out) + 1
      BY <1>0, <3>2
    <3>4. \A i \in 1..Len(out) : i \in 1..Len(out') /\ i < Len(out) + 1
      BY <1>0, <3>2
    <3>5. Len(out) + 1 \in 1..Len(out')
      BY <1>0, <3>2
    <3>6. \A i \in 1..Len(out') : \E k \in 1..cur : Legal(sent[k]) /\ out'[i] = Bytes(k, sent[k])
      BY <1>7, <1>8, <3>2, <3>3
    <3>7. \A k \in 1..cur : Legal(sent[k]) => \E i \in 1..Len(out') : Number(out'[i]) = k
      <4>1. ASSUME NEW k \in 1..cur, Legal(sent[k])
            PROVE  \E i \in 1..Len(out') : Number(out'[i]) = k
        <5>1. CASE k = cur
          BY <1>6, <3>2, <3>5, <5>1
        <5>2. CASE k \in 1..cur - 1
          <6>1. PICK i \in 1..Len(out) : Number(out[i]) = k
            BY <1>7, <4>1, <5>2
          <6>2. QED
            BY <3>2, <3>4, <6>1
        <5>3. QED
          BY <1>8, <5>1, <5>2
      <4>2. QED
        BY <4>1
    <3>8. \A i \in 1..Len(out) : Number(out[i]) < cur
      <4>1. TAKE i \in 1..Len(out)
      <4>2. PICK k \in 1..cur - 1 : Legal(sent[k]) /\ out[i] = Bytes(k, sent[k])
        BY <1>7
      <4>3. Number(out[i]) = k
        BY <1>4, <1>8, <4>2
      <4>4. QED
        BY <1>8, <4>3
    <3>9. \A i, j \in 1..Len(out') : i < j => Number(out'[i]) < Number(out'[j])
      <4>1. ASSUME NEW i \in 1..Len(out'), NEW j \in 1..Len(out'), i < j
            PROVE  Number(out'[i]) < Number(out'[j])
        <5>1. i \in 1..Len(out)
          BY <1>0, <3>2, <4>1
        <5>2. CASE j = Len(out) + 1
          BY <1>6, <3>2, <3>8, <5>1, <5>2
        <5>3. CASE j \in 1..Len(out)
          BY <1>7, <3>2, <4>1, <5>1, <5>3
        <5>4. QED
          BY <3>3, <5>2, <5>3
      <4>2. QED
        BY <4>1
    <3>10. QED
      BY <1>2, <1>8, <3>2, <3>6, <3>7, <3>9 DEF Delivered, Legal, Number
  <2>3. QED
    BY <2>1, <2>2
<1>10. QED
  BY <1>1, <1>2, <1>3, <1>8, <1>9 DEF StreamInv

(* With the last of a legal package, in block b, everything is kept.       *)
LEMMA FinishInv ==
  ASSUME Types, ParserInv, FloodInv, StreamInv, RunsOn(inbuf),
         NEW cur \in 1..Len(sent) + 1, Receiving(cur), Delivered(cur),
         NEW n \in Nat, Receive(n), open,
         Legal(sent[cur]), Read + n = SizeOf(sent[cur]),
         NEW b \in Nat \ {0}, NEW p, p = Bytes(cur, sent[cur]), Plast(b, p),
         allocated' \in Nat, 1..allocated' = {b} \cup handed \cup freed,
         b \notin handed \cup freed, handed \cap freed = {}
  PROVE  Inv'
<1>1. StreamInv' /\ out' \in Seq(Seq(Octet))
  BY FinishStream
<1>2. inbuf' \in Seq(Octet) /\ UNCHANGED <<sent, fin, clients>>
  <2>1. inbuf' \in Seq(Octet)
    BY Consume
  <2>2. QED
    BY <2>1 DEF Receive
<1>3. /\ curStat' = "HD_INIT" /\ irecvlen' = HeadLen /\ head' = <<>>
      /\ block' = 0 /\ room' = 0 /\ body' = <<>>
  BY DEF Plast, ExpectHeader
<1>4. HeadLen \in 1..MaxLen /\ 0 \in Nat
  BY RecvAssumption DEF RecvAssumption
<1>5. ParserInv'
  <2>1. Len(head') + irecvlen' = HeadLen
    BY <1>3, <1>4
  <2>2. QED
    BY <1>3, <2>1 DEF ParserInv, InHead
<1>6. BlockInv'
  <2>1. CASE IsFlood
    BY <1>3, <2>1 DEF Plast, BlockInv
  <2>2. CASE ~IsFlood
    BY <1>3, <2>2 DEF Plast, BlockInv
  <2>3. QED
    BY <2>1, <2>2
<1>7. FloodInv' /\ lastGap' \in 0..Interval /\ flood' \in Nat /\ gaps' \in Seq(0..Interval)
  <2>1. CASE FloodOn
    <3>1. TestFlood
      BY <2>1 DEF Plast
    <3>2. /\ lastGap' \in 0..Interval /\ flood' \in Nat /\ gaps' \in Seq(0..Interval)
          /\ Len(gaps') <= KickCount /\ flood' <= Len(gaps')
          /\ \A i \in 1..Len(gaps') : i > Len(gaps') - flood' => gaps'[i] < Interval
          /\ flood' < Len(gaps') => gaps'[Len(gaps') - flood'] >= Interval
      BY <2>1, <3>1, TestFloodExact
    <3>3. open' => flood' < KickCount
      <4>1. ASSUME open' PROVE ~(flood' >= KickCount)
        BY <2>1, <4>1 DEF Plast, IsFlood
      <4>2. QED
        BY <3>2, <4>1, RecvAssumption DEF RecvAssumption
    <3>4. QED
      BY <2>1, <3>2, <3>3 DEF FloodInv
  <2>2. CASE ~FloodOn
    <3>1. UNCHANGED <<lastGap, flood, gaps>>
      BY <2>2 DEF Plast, floodVars
    <3>2. QED
      BY <2>2, <3>1 DEF FloodInv, Types
  <2>3. QED
    BY <2>1, <2>2
<1>8. open' \in BOOLEAN /\ parked' \in BOOLEAN
  <2>1. CASE IsFlood
    BY <2>1 DEF Plast
  <2>2. CASE ~IsFlood
    BY <2>2 DEF Plast, Types
  <2>3. QED
    BY <2>1, <2>2
<1>9. Types'
  <2>1. <<>> \in Seq(Octet)
    OBVIOUS
  <2>2. QED
    BY <1>1, <1>2, <1>3, <1>4, <1>7, <1>8, <2>1 DEF Types
<1>10. QED
  BY <1>1, <1>5, <1>6, <1>7, <1>9 DEF Inv

(***************************************************************************)
(* The steps of the read handler.                                          *)
(***************************************************************************)

(* The header that a read makes whole is that of the current package.      *)
LEMMA WholeHeader ==
  ASSUME Types, ParserInv, RunsOn(inbuf), NEW cur \in 1..Len(sent) + 1, Receiving(cur),
         InHead, NEW n \in Nat, Receive(n)
  PROVE  /\ body = <<>> /\ block = 0 /\ Read = Len(head)
         /\ head \o Got(n) \in Seq(Octet) /\ Len(head \o Got(n)) = Read + n
         /\ \A i \in 1..Read + n : (head \o Got(n))[i] = <<cur, i>>
         /\ n = irecvlen => Read + n = HeadLen /\ PkgLen(head \o Got(n)) = sent[cur]
         /\ n # irecvlen => Read + n < HeadLen /\ irecvlen - n \in 1..MaxLen
                            /\ Read + n + (irecvlen - n) = HeadLen
<1>0. /\ head \in Seq(Octet) /\ Len(head) \in Nat /\ irecvlen \in 1..MaxLen
      /\ HeadLen \in Nat \ {0} /\ MaxLen \in Nat
  BY RecvAssumption DEF Types, RecvAssumption
<1>1. /\ n \in 1..irecvlen /\ Read \in Nat /\ Got(n) \in Seq(Octet) /\ Len(Got(n)) = n
      /\ \A i \in 1..n : Got(n)[i] = <<cur, Read + i>>
  BY Consume
<1>2. body = <<>> /\ block = 0 /\ Len(head) + irecvlen = HeadLen
  BY DEF ParserInv
<1>3. Read = Len(head)
  <2>1. Len(body) = 0
    BY <1>2
  <2>2. QED
    BY <1>0, <2>1 DEF Read
<1>4. /\ head \o Got(n) \in Seq(Octet) /\ Len(head \o Got(n)) = Len(head) + n
      /\ \A i \in 1..Len(head) + n :
           (head \o Got(n))[i] = IF i <= Len(head) THEN head[i] ELSE Got(n)[i - Len(head)]
  BY <1>0, <1>1, ConcatProperties
<1>5. \A i \in 1..Read + n : (head \o Got(n))[i] = <<cur, i>>
  <2>1. TAKE i \in 1..Read + n
  <2>2. CASE i <= Len(head)
    <3>1. i \in 1..Len(head)
      BY <1>0, <1>3, <2>2
    <3>2. head[i] = <<cur, i>>
      BY <3>1 DEF Receiving
    <3>3. QED
      BY <1>3, <1>4, <2>2, <3>2
  <2>3. CASE ~(i <= Len(head))
    <3>1. i - Len(head) \in 1..n /\ Read + (i - Len(head)) = i
      BY <1>0, <1>1, <1>3, <2>3
    <3>2. QED
      BY <1>1, <1>3, <1>4, <2>3, <3>1
  <2>4. QED
    BY <2>2, <2>3
<1>6. n = irecvlen => Read + n = HeadLen /\ PkgLen(head \o Got(n)) = sent[cur]
  <2>1. SUFFICES ASSUME n = irecvlen
                 PROVE  Read + n = HeadLen /\ PkgLen(head \o Got(n)) = sent[cur]
    OBVIOUS
  <2>2. Read + n = HeadLen /\ 1 \in 1..Read + n
    BY <1>0, <1>2, <1>3, <2>1
  <2>3. (head \o Got(n))[1] = <<cur, 1>>
    BY <1>5, <2>2
  <2>4. QED
    BY <2>2, <2>3 DEF PkgLen
<1>7. n # irecvlen => Read + n < HeadLen /\ irecvlen - n \in 1..MaxLen
                      /\ Read + n + (irecvlen - n) = HeadLen
  <2>1. /\ n \in 1..irecvlen /\ irecvlen \in 1..MaxLen /\ MaxLen \in Nat
        /\ Read \in Nat /\ Read + irecvlen = HeadLen
    BY <1>0, <1>1, <1>2, <1>3
  <2>2. Read + n < Read + irecvlen \/ n = irecvlen
    BY <2>1
  <2>3. QED
    BY <2>1, <2>2
<1>8. QED
  BY <1>2, <1>3, <1>4, <1>5, <1>6, <1>7

(* The body that a read makes whole completes the current package.         *)
LEMMA WholeBody ==
  ASSUME Types, ParserInv, RunsOn(inbuf), NEW cur \in 1..Len(sent) + 1, Receiving(cur),
         ~InHead, NEW n \in Nat, Receive(n)
  PROVE  /\ Legal(sent[cur]) /\ Len(head) = HeadLen /\ block # 0
         /\ room = sent[cur] - HeadLen
         /\ body \o Got(n) \in Seq(Octet) /\ Len(body \o Got(n)) = Len(body) + n
         /\ \A i \in 1..Len(body) + n : (body \o Got(n))[i] = <<cur, HeadLen + i>>
         /\ n = irecvlen => Read + n = SizeOf(sent[cur])
                            /\ head \o body \o Got(n) = Bytes(cur, sent[cur])
         /\ n # irecvlen => Read + n < SizeOf(sent[cur]) /\ irecvlen - n \in 1..MaxLen
                            /\ Len(body) + n + (irecvlen - n) = room
<1>0. /\ head \in Seq(Octet) /\ Len(head) \in Nat /\ body \in Seq(Octet) /\ Len(body) \in Nat
      /\ irecvlen \in 1..MaxLen /\ HeadLen \in Nat \ {0} /\ MaxLen \in Nat
      /\ sent \in Seq(Announced) /\ Len(sent) \in Nat /\ room \in Nat
  BY RecvAssumption DEF Types, RecvAssumption
<1>1. /\ n \in 1..irecvlen /\ Read \in Nat /\ Got(n) \in Seq(Octet) /\ Len(Got(n)) = n
      /\ \A i \in 1..n : Got(n)[i] = <<cur, Read + i>>
      /\ cur \in 1..Len(sent)
  BY Consume
<1>2. block # 0 /\ Len(head) = HeadLen /\ Len(body) + irecvlen = room
  BY DEF ParserInv
<1>3. Legal(sent[cur]) /\ room = sent[cur] - HeadLen
  BY DEF Receiving
<1>4. sent[cur] \in Nat /\ SizeOf(sent[cur]) = sent[cur]
  BY <1>0, <1>1, <1>3, Lengths
<1>5. Read = HeadLen + Len(body)
  BY <1>2 DEF Read
<1>a. HeadLen \in Int /\ Len(body) \in Int /\ irecvlen \in Int /\ sent[cur] \in Int
  BY <1>0, <1>4
<1>6. Read + irecvlen = sent[cur]
  <2>1. Read = HeadLen + Len(body) /\ Len(body) + irecvlen = sent[cur] - HeadLen
    BY <1>2, <1>3, <1>5
  <2>2. QED
    BY SMTT(40), <1>a, <2>1
<1>7. /\ body \o Got(n) \in Seq(Octet) /\ Len(body \o Got(n)) = Len(body) + n
      /\ \A i \in 1..Len(body) + n :
           (body \o Got(n))[i] = IF i <= Len(body) THEN body[i] ELSE Got(n)[i - Len(body)]
  BY <1>0, <1>1, ConcatProperties
<1>8. \A i \in 1..Len(body) + n : (body \o Got(n))[i] = <<cur, HeadLen + i>>
  <2>1. TAKE i \in 1..Len(body) + n
  <2>2. CASE i <= Len(body)
    <3>1. i \in 1..Len(body)
      BY <1>0, <2>2
    <3>2. body[i] = <<cur, HeadLen + i>>
      BY <3>1 DEF Receiving
    <3>3. QED
      BY <1>7, <2>2, <3>2
  <2>3. CASE ~(i <= Len(body))
    <3>1. i - Len(body) \in 1..n /\ Read + (i - Len(body)) = HeadLen + i
      BY <1>0, <1>1, <1>5, <2>3
    <3>2. QED
      BY <1>1, <1>7, <2>3, <3>1
  <2>4. QED
    BY <2>2, <2>3
<1>9. n = irecvlen => Read + n = SizeOf(sent[cur])
                      /\ head \o body \o Got(n) = Bytes(cur, sent[cur])
  <2>1. SUFFICES ASSUME n = irecvlen
                 PROVE  head \o body \o Got(n) = Bytes(cur, sent[cur])
    BY <1>4, <1>6
  <2> DEFINE got == Got(n)
  <2>2. got \in Seq(Octet) /\ Len(got) = n /\ \A i \in 1..n : got[i] = <<cur, Read + i>>
    BY <1>1
  <2> HIDE DEF got
  <2>3. /\ head \o body \in Seq(Octet) /\ Len(head \o body) = Len(head) + Len(body)
        /\ \A i \in 1..Len(head) + Len(body) :
             (head \o body)[i] = IF i <= Len(head) THEN head[i] ELSE body[i - Len(head)]
    BY <1>0, ConcatProperties
  <2> DEFINE hb == head \o body
  <2>4. hb \in Seq(Octet) /\ Len(hb) = Read
    BY <2>3 DEF Read
  <2>5. \A i \in 1..Read : hb[i] = <<cur, i>>
    <3>1. TAKE i \in 1..Read
    <3>2. CASE i <= Len(head)
      <4>1. i \in 1..Len(head) /\ i \in 1..Len(head) + Len(body)
        BY <1>0, <3>2
      <4>2. head[i] = <<cur, i>>
        BY <4>1 DEF Receiving
      <4>3. QED
        BY <2>3, <3>2, <4>1, <4>2
    <3>3. CASE ~(i <= Len(head))
      <4>1. /\ i - Len(head) \in 1..Len(body) /\ i \in 1..Len(head) + Len(body)
            /\ HeadLen + (i - Len(head)) = i
        BY <1>0, <1>1, <1>2, <1>5, <3>3
      <4>2. body[i - Len(head)] = <<cur, HeadLen + (i - Len(head))>>
        BY <4>1 DEF Receiving
      <4>3. QED
        BY <2>3, <3>3, <4>1, <4>2
    <3>4. QED
      BY <3>2, <3>3
  <2> HIDE DEF hb
  <2>6. /\ hb \o got \in Seq(Octet) /\ Len(hb \o got) = Read + n
        /\ \A i \in 1..Read + n :
             (hb \o got)[i] = IF i <= Read THEN hb[i] ELSE got[i - Read]
    BY <2>2, <2>4, ConcatProperties
  <2>7. \A i \in 1..sent[cur] : (hb \o got)[i] = <<cur, i>>
    <3>1. TAKE i \in 1..sent[cur]
    <3>2. i \in 1..Read + n
      BY <1>6, <2>1
    <3>3. CASE i <= Read
      <4>1. i \in 1..Read
        BY <1>1, <3>3
      <4>2. QED
        BY <2>5, <2>6, <3>2, <3>3, <4>1
    <3>4. CASE ~(i <= Read)
      <4>1. i - Read \in 1..n /\ Read + (i - Read) = i
        BY <1>1, <3>2, <3>4
      <4>2. QED
        BY <2>2, <2>6, <3>2, <3>4, <4>1
    <3>5. QED
      BY <3>3, <3>4
  <2>8. /\ Bytes(cur, sent[cur]) \in Seq(Octet) /\ Len(Bytes(cur, sent[cur])) = sent[cur]
        /\ \A i \in 1..sent[cur] : Bytes(cur, sent[cur])[i] = <<cur, i>>
    <3>1. cur \in Nat \ {0}
      BY <1>0, <1>1
    <3>2. \A k \in Nat \ {0} : \A m \in Nat :
            /\ Bytes(k, m) \in Seq(Octet) /\ Len(Bytes(k, m)) = m
            /\ \A i \in 1..m : Bytes(k, m)[i] = <<k, i>>
      BY BytesFacts
    <3>3. QED
      BY <1>4, <3>1, <3>2
  <2>9. hb \o got = Bytes(cur, sent[cur])
    <3> DEFINE x == hb \o got
               y == Bytes(cur, sent[cur])
    <3>1. x \in Seq(Octet) /\ y \in Seq(Octet) /\ Len(x) = Len(y)
      BY <1>6, <2>1, <2>6, <2>8
    <3>2. \A i \in 1..Len(x) : x[i] = y[i]
      BY <1>6, <2>1, <2>6, <2>7, <2>8
    <3> HIDE DEF x, y
    <3>3. x = y
      BY <3>1, <3>2, SeqEqual
    <3>4. QED
      BY <3>3 DEF x, y
  <2>10. QED
    BY <2>9 DEF hb, got
<1>10. n # irecvlen => Read + n < SizeOf(sent[cur]) /\ irecvlen - n \in 1..MaxLen
                       /\ Len(body) + n + (irecvlen - n) = room
  <2>1. n \in 1..irecvlen /\ irecvlen \in 1..MaxLen /\ MaxLen \in Nat
    BY <1>0, <1>1
  <2>2. Len(body) + n + (irecvlen - n) = room
    BY <1>a, <1>2, <2>1
  <2>3. Read \in Nat /\ Read + irecvlen = sent[cur] /\ SizeOf(sent[cur]) = sent[cur]
    BY <1>1, <1>4, <1>6
  <2>4. n # irecvlen => Read + n < Read + irecvlen /\ irecvlen - n \in 1..MaxLen
    BY <2>1, <2>3
  <2>5. QED
    BY <2>2, <2>3, <2>4
<1>11. QED
  BY <1>2, <1>3, <1>7, <1>8, <1>9, <1>10

(* A read that leaves the package unfinished keeps the stream.             *)
LEMMA OnwardStream ==
  ASSUME Types, ParserInv, RunsOn(inbuf), NEW cur \in 1..Len(sent) + 1,
         Receiving(cur), Delivered(cur), NEW n \in Nat, Receive(n), UNCHANGED <<open, out>>,
         Read + n < SizeOf(sent[cur]), Read' = Read + n,
         \A i \in 1..Len(head') : head'[i] = <<cur, i>>,
         \A i \in 1..Len(body') : body'[i] = <<cur, HeadLen + i>>,
         (~InHead)' => Legal(sent[cur]) /\ room' = sent[cur] - HeadLen
  PROVE  StreamInv'
<1>0. HeadLen \in Nat \ {0} /\ sent \in Seq(Announced) /\ Len(sent) \in Nat
  BY RecvAssumption DEF Types, RecvAssumption
<1>1. /\ cur \in 1..Len(sent) /\ RunsOn(inbuf)' /\ Read \in Nat
      /\ IF inbuf' = <<>> THEN cur = Len(sent) /\ Read + n = SizeOf(sent[cur])
          ELSE inbuf'[1] = IF Read + n < SizeOf(sent[cur]) THEN <<cur, Read + n + 1>>
                           ELSE <<cur + 1, 1>>
  BY Consume
<1>2. SizeOf(sent[cur]) \in Nat
  BY <1>0, <1>1, Lengths
<1>3. inbuf' # <<>> /\ inbuf'[1] = <<cur, Read' + 1>>
  <2>1. Read + n # SizeOf(sent[cur])
    BY <1>1, <1>2
  <2>2. QED
    BY <1>1, <2>1
<1>4. sent' = sent
  BY DEF Receive
<1>5. Receiving(cur)'
  BY <1>3, <1>4 DEF Receiving, Legal
<1>6. Delivered(cur)'
  BY <1>4 DEF Delivered, Legal, Number
<1>7. QED
  BY <1>1, <1>4, <1>5, <1>6 DEF StreamInv

(* Reading of a header keeps everything.                                   *)
LEMMA ReadHeaderInv ==
  ASSUME Inv, NEW n \in Nat, ReadHeader(n)
  PROVE  Inv'
<1>0. /\ Types /\ ParserInv /\ BlockInv /\ FloodInv /\ StreamInv /\ RunsOn(inbuf)
      /\ InHead /\ Receive(n) /\ open
  BY DEF Inv, StreamInv, ReadHeader, Receive
<1>a. /\ HeadLen \in Nat \ {0} /\ MaxLen \in Nat /\ HeadLen <= MaxLen
      /\ sent \in Seq(Announced) /\ Len(sent) \in Nat /\ allocated \in Nat
  BY <1>0, RecvAssumption DEF Types, RecvAssumption
<1>1. PICK cur \in 1..Len(sent) + 1 : Receiving(cur) /\ Delivered(cur)
  BY <1>0 DEF StreamInv
<1>2. /\ cur \in 1..Len(sent) /\ inbuf' \in Seq(Octet) /\ RunsOn(inbuf)' /\ Read \in Nat
      /\ IF inbuf' = <<>> THEN cur = Len(sent) /\ Read + n = SizeOf(sent[cur])
          ELSE inbuf'[1] = IF Read + n < SizeOf(sent[cur]) THEN <<cur, Read + n + 1>>
                           ELSE <<cur + 1, 1>>
  BY <1>0, <1>1, Consume
<1> DEFINE h == head \o Got(n)
<1>3. /\ body = <<>> /\ block = 0 /\ Read = Len(head)
      /\ h \in Seq(Octet) /\ Len(h) = Read + n /\ \A i \in 1..Read + n : h[i] = <<cur, i>>
      /\ n = irecvlen => Read + n = HeadLen /\ PkgLen(h) = sent[cur]
      /\ n # irecvlen => Read + n < HeadLen /\ irecvlen - n \in 1..MaxLen
                         /\ Read + n + (irecvlen - n) = HeadLen
  BY <1>0, <1>1, WholeHeader
<1>4. /\ sent[cur] \in Nat /\ SizeOf(sent[cur]) \in Nat /\ SizeOf(sent[cur]) >= HeadLen
      /\ (Legal(sent[cur]) => SizeOf(sent[cur]) = sent[cur])
  BY <1>a, <1>2, Lengths
<1>5. UNCHANGED <<sent, fin, clients>>
  BY <1>0 DEF Receive
<1>6. Len(<<>>) = 0 /\ <<>> \in Seq(Octet)
  OBVIOUS
<1>7. CASE n # irecvlen
  <2>1. /\ curStat' = "HD_RECVING" /\ irecvlen' = irecvlen - n /\ head' = h
        /\ UNCHANGED <<open, parked, block, room, body, out>>
        /\ UNCHANGED floodVars /\ UNCHANGED memVars
    BY <1>7 DEF ReadHeader
  <2> HIDE DEF h
  <2>2. /\ UNCHANGED <<lastGap, flood, gaps>> /\ UNCHANGED <<allocated, handed, freed>>
    BY <2>1 DEF floodVars, memVars
  <2>3. Types'
    BY <1>0, <1>2, <1>3, <1>5, <1>7, <2>1, <2>2 DEF Types
  <2>4. ParserInv'
    BY <1>3, <1>7, <2>1 DEF ParserInv, InHead
  <2>5. BlockInv' /\ FloodInv'
    BY <1>0, <2>1, <2>2 DEF BlockInv, FloodInv
  <2>6. Read' = Read + n
    <3>1. Len(body') = 0 /\ Len(head') = Read + n /\ Read + n \in Nat
      BY <1>2, <1>3, <1>6, <2>1
    <3>2. QED
      BY <3>1 DEF Read
  <2>7. /\ \A i \in 1..Len(head') : head'[i] = <<cur, i>>
        /\ \A i \in 1..Len(body') : body'[i] = <<cur, HeadLen + i>>
        /\ InHead'
    BY <1>3, <1>6, <2>1 DEF InHead
  <2>8. Read + n < SizeOf(sent[cur])
    <3>1. Read + n < HeadLen /\ n \in Nat /\ Read \in Nat
      BY <1>2, <1>3, <1>7
    <3>2. QED
      BY <1>a, <1>4, <3>1
  <2>9. UNCHANGED <<open, out>> /\ ((~InHead)' => Legal(sent[cur]) /\ room' = sent[cur] - HeadLen)
    BY <2>1, <2>7
  <2>10. StreamInv'
    BY <1>0, <1>1, <2>6, <2>7, <2>8, <2>9, OnwardStream
  <2>11. QED
    BY <2>3, <2>4, <2>5, <2>10 DEF Inv
<1>8. CASE n = irecvlen
  <2>0. P1(h) /\ PkgLen(h) = sent[cur] /\ Read + n = HeadLen
    BY <1>3, <1>8 DEF ReadHeader
  <2> HIDE DEF h
  <2>1. CASE ~Legal(sent[cur])
    <3>1. /\ curStat' = "HD_INIT" /\ irecvlen' = HeadLen /\ head' = <<>>
          /\ UNCHANGED <<open, parked, block, room, body, out>>
          /\ UNCHANGED <<lastGap, flood, gaps>> /\ UNCHANGED <<allocated, handed, freed>>
      BY <2>0, <2>1 DEF P1, P1With, ExpectHeader, floodVars, memVars
    <3>2. HeadLen \in 1..MaxLen
      BY <1>a
    <3>3. Types'
      BY <1>0, <1>2, <1>5, <1>6, <3>1, <3>2 DEF Types
    <3>4. ParserInv'
      <4>1. Len(head') + irecvlen' = HeadLen
        BY <1>a, <1>6, <3>1
      <4>2. QED
        BY <1>3, <3>1, <4>1 DEF ParserInv, InHead
    <3>5. BlockInv' /\ FloodInv'
      BY <1>0, <3>1 DEF BlockInv, FloodInv
    <3>6. IF inbuf' = <<>> THEN cur = Len(sent) ELSE inbuf'[1] = <<cur + 1, 1>>
      <4>1. Read + n = SizeOf(sent[cur])
        BY <2>0, <2>1 DEF SizeOf
      <4>2. ~(Read + n < SizeOf(sent[cur]))
        BY <1>4, <4>1
      <4>3. QED
        BY <1>2, <4>2
    <3>7. Receiving(cur + 1)'
      <4>1. Len(head') = 0 /\ Len(body') = 0
        BY <1>3, <1>6, <3>1
      <4>2. Read' = 0 /\ InHead'
        BY <3>1, <4>1 DEF Read, InHead
      <4>3. QED
        BY <1>5, <3>6, <4>1, <4>2 DEF Receiving
    <3>8. Delivered(cur + 1)'
      <4>1. /\ \A k \in 1..cur - 1 : k \in 1..cur
            /\ \A k \in 1..cur : k \in 1..cur - 1 \/ k = cur
            /\ cur + 1 - 1 = cur
        BY <1>a, <1>2
      <4>2. \A i \in 1..Len(out) : \E k \in 1..cur : Legal(sent[k]) /\ out[i] = Bytes(k, sent[k])
        BY <1>1, <4>1 DEF Delivered
      <4>3. \A k \in 1..cur : Legal(sent[k]) => \E i \in 1..Len(out) : Number(out[i]) = k
        BY <1>0, <1>1, <2>1, <4>1 DEF Delivered
      <4>4. QED
        BY <1>1, <1>5, <3>1, <4>1, <4>2, <4>3 DEF Delivered, Legal, Number
    <3>9. cur + 1 \in 1..Len(sent') + 1
      BY <1>a, <1>2, <1>5
    <3>10. QED
      BY <1>2, <3>3, <3>4, <3>5, <3>7, <3>8, <3>9 DEF Inv, StreamInv
  <2>2. CASE Legal(sent[cur]) /\ sent[cur] = HeadLen
    <3>1. Plast(allocated + 1, h) /\ allocated' = allocated + 1
      BY <2>0, <2>2 DEF P1, P1With
    <3>2. allocated + 1 \in Nat \ {0} /\ allocated' \in Nat
      BY <1>a, <3>1
    <3>3. /\ 1..allocated' = {allocated + 1} \cup handed \cup freed
          /\ allocated + 1 \notin handed \cup freed /\ handed \cap freed = {}
      <4>1. 1..allocated = handed \cup freed /\ handed \cap freed = {}
        BY <1>0, <1>3 DEF BlockInv
      <4>2. 1..allocated + 1 = 1..allocated \cup {allocated + 1} /\ allocated + 1 \notin 1..allocated
        BY <1>a
      <4>3. QED
        BY <3>1, <4>1, <4>2
    <3>4. h = Bytes(cur, sent[cur])
      <4>1. /\ Bytes(cur, sent[cur]) \in Seq(Octet) /\ Len(Bytes(cur, sent[cur])) = sent[cur]
            /\ \A i \in 1..sent[cur] : Bytes(cur, sent[cur])[i] = <<cur, i>>
        <5>1. cur \in Nat \ {0}
          BY <1>a, <1>2
        <5>2. \A k \in Nat \ {0} : \A m \in Nat :
                /\ Bytes(k, m) \in Seq(Octet) /\ Len(Bytes(k, m)) = m
                /\ \A i \in 1..m : Bytes(k, m)[i] = <<k, i>>
          BY BytesFacts
        <5>3. QED
          BY <1>4, <5>1, <5>2
      <4> DEFINE y == Bytes(cur, sent[cur])
      <4>2. h \in Seq(Octet) /\ y \in Seq(Octet) /\ Len(h) = Len(y)
        BY <1>3, <2>0, <2>2, <4>1
      <4>3. \A i \in 1..Len(h) : h[i] = y[i]
        BY <1>3, <2>0, <2>2, <4>1
      <4> HIDE DEF y
      <4>4. h = y
        BY <4>2, <4>3, SeqEqual
      <4>5. QED
        BY <4>4 DEF y
    <3>5. Read + n = SizeOf(sent[cur])
      BY <1>4, <2>0, <2>2
    <3> DEFINE b == allocated + 1
    <3>6. /\ b \in Nat \ {0} /\ Plast(b, h) /\ 1..allocated' = {b} \cup handed \cup freed
          /\ b \notin handed \cup freed
      BY <3>1, <3>2, <3>3
    <3> HIDE DEF b
    <3>7. QED
      BY <1>0, <1>1, <2>2, <3>2, <3>3, <3>4, <3>5, <3>6, FinishInv
  <2>3. CASE Legal(sent[cur]) /\ sent[cur] # HeadLen
    <3>1. /\ allocated' = allocated + 1 /\ curStat' = "BD_INIT" /\ head' = h
          /\ block' = allocated + 1 /\ body' = <<>>
          /\ irecvlen' = sent[cur] - HeadLen /\ room' = sent[cur] - HeadLen
          /\ UNCHANGED <<open, parked, handed, freed, out>> /\ UNCHANGED <<lastGap, flood, gaps>>
      BY <2>0, <2>3 DEF P1, P1With, floodVars
    <3>2. sent[cur] - HeadLen \in 1..MaxLen /\ allocated + 1 \in Nat \ {0}
      BY <1>a, <1>4, <2>3 DEF Legal
    <3>3. Types'
      <4>1. allocated' \in Nat /\ block' \in Nat /\ irecvlen' \in 1..MaxLen /\ room' \in Nat
        BY <1>a, <3>1, <3>2
      <4>2. head' \in Seq(Octet) /\ body' \in Seq(Octet) /\ inbuf' \in Seq(Octet)
        BY <1>2, <1>3, <1>6, <3>1
      <4>3. QED
        BY <1>0, <1>5, <3>1, <4>1, <4>2 DEF Types
    <3>4. ParserInv'
      <4>1. Len(body') + irecvlen' = room'
        BY <1>a, <1>4, <1>6, <3>1
      <4>2. Len(head') = HeadLen /\ block' # 0
        BY <1>3, <2>0, <3>1, <3>2
      <4>3. QED
        BY <3>1, <4>1, <4>2 DEF ParserInv, InHead
    <3>5. BlockInv'
      <4>1. 1..allocated = handed \cup freed /\ handed \cap freed = {}
        BY <1>0, <1>3 DEF BlockInv
      <4>2. 1..allocated + 1 = 1..allocated \cup {allocated + 1} /\ allocated + 1 \notin 1..allocated
        BY <1>a
      <4>3. allocated + 1 # 0
        BY <3>2
      <4>4. QED
        BY <3>1, <4>1, <4>2, <4>3 DEF BlockInv
    <3>6. FloodInv'
      BY <1>0, <3>1 DEF FloodInv
    <3>7. Read' = Read + n
      <4>1. Len(body') = 0 /\ Len(head') = Read + n /\ Read + n \in Nat
        BY <1>a, <1>3, <1>6, <2>0, <3>1
      <4>2. QED
        BY <4>1 DEF Read
    <3>8. /\ \A i \in 1..Len(head') : head'[i] = <<cur, i>>
          /\ \A i \in 1..Len(body') : body'[i] = <<cur, HeadLen + i>>
          /\ ((~InHead)' => Legal(sent[cur]) /\ room' = sent[cur] - HeadLen)
      BY <1>3, <1>6, <2>3, <3>1
    <3>9. Read + n < SizeOf(sent[cur])
      BY <1>a, <1>4, <2>0, <2>3 DEF Legal
    <3>10. StreamInv'
      BY <1>0, <1>1, <3>1, <3>7, <3>8, <3>9, OnwardStream
    <3>11. QED
      BY <3>3, <3>4, <3>5, <3>6, <3>10 DEF Inv
  <2>4. QED
    BY <2>1, <2>2, <2>3
<1>9. QED
  BY <1>7, <1>8

(* So does that of a body.                                                 *)
LEMMA ReadBodyInv ==
  ASSUME Inv, NEW n \in Nat, ReadBody(n)
  PROVE  Inv'
<1>0. /\ Types /\ ParserInv /\ BlockInv /\ FloodInv /\ StreamInv /\ RunsOn(inbuf)
      /\ ~InHead /\ Receive(n) /\ open
  BY DEF Inv, StreamInv, ReadBody, Receive
<1>a. HeadLen \in Nat \ {0} /\ Len(body) \in Nat /\ allocated \in Nat /\ block \in Nat
  BY <1>0, RecvAssumption DEF Types, RecvAssumption
<1>1. PICK cur \in 1..Len(sent) + 1 : Receiving(cur) /\ Delivered(cur)
  BY <1>0 DEF StreamInv
<1>2. inbuf' \in Seq(Octet) /\ Read \in Nat /\ UNCHANGED <<sent, fin, clients>>
  <2>1. inbuf' \in Seq(Octet) /\ Read \in Nat
    BY <1>0, <1>1, Consume
  <2>2. QED
    BY <1>0, <2>1 DEF Receive
<1> DEFINE got == body \o Got(n)
<1>3. /\ Legal(sent[cur]) /\ Len(head) = HeadLen /\ block # 0 /\ room = sent[cur] - HeadLen
      /\ got \in Seq(Octet) /\ Len(got) = Len(body) + n
      /\ \A i \in 1..Len(body) + n : got[i] = <<cur, HeadLen + i>>
      /\ n = irecvlen => Read + n = SizeOf(sent[cur])
                         /\ head \o body \o Got(n) = Bytes(cur, sent[cur])
      /\ n # irecvlen => Read + n < SizeOf(sent[cur]) /\ irecvlen - n \in 1..MaxLen
                         /\ Len(body) + n + (irecvlen - n) = room
  BY <1>0, <1>1, WholeBody
<1>4. CASE n = irecvlen
  <2>1. Plast(block, head \o body \o Got(n)) /\ allocated' = allocated
    BY <1>4 DEF ReadBody
  <2> DEFINE p == head \o body \o Got(n)
  <2>2. p = Bytes(cur, sent[cur]) /\ Plast(block, p) /\ Read + n = SizeOf(sent[cur])
    BY <1>3, <1>4, <2>1
  <2> HIDE DEF p, got
  <2>3. block \in Nat \ {0} /\ allocated' \in Nat
    BY <1>a, <1>3, <2>1
  <2>4. /\ 1..allocated' = {block} \cup handed \cup freed
        /\ block \notin handed \cup freed /\ handed \cap freed = {}
    BY <1>0, <1>3, <2>1 DEF BlockInv
  <2>5. QED
    BY <1>0, <1>1, <1>3, <2>2, <2>3, <2>4, FinishInv
<1>5. CASE n # irecvlen
  <2>1. /\ curStat' = "BD_RECVING" /\ irecvlen' = irecvlen - n /\ body' = got
        /\ UNCHANGED <<open, parked, head, block, room, out>>
        /\ UNCHANGED <<lastGap, flood, gaps>> /\ UNCHANGED <<allocated, handed, freed>>
    BY <1>5 DEF ReadBody, floodVars, memVars
  <2> HIDE DEF got
  <2>2. Types'
    BY <1>0, <1>2, <1>3, <1>5, <2>1 DEF Types
  <2>3. ParserInv'
    BY <1>3, <1>5, <2>1 DEF ParserInv, InHead
  <2>4. BlockInv' /\ FloodInv'
    BY <1>0, <2>1 DEF BlockInv, FloodInv
  <2>5. Read' = Read + n
    <3>1. Len(body') = Len(body) + n /\ head' = head
      BY <1>3, <2>1
    <3>2. Read = HeadLen + Len(body) /\ Read' = HeadLen + Len(body')
      BY <1>3, <3>1 DEF Read
    <3>3. QED
      BY <1>a, <3>1, <3>2
  <2>6. /\ \A i \in 1..Len(head') : head'[i] = <<cur, i>>
        /\ \A i \in 1..Len(body') : body'[i] = <<cur, HeadLen + i>>
        /\ ((~InHead)' => Legal(sent[cur]) /\ room' = sent[cur] - HeadLen)
    BY <1>1, <1>3, <2>1 DEF Receiving
  <2>7. StreamInv'
    BY <1>0, <1>1, <1>3, <1>5, <2>1, <2>5, <2>6, OnwardStream
  <2>8. QED
    BY <2>2, <2>3, <2>4, <2>7 DEF Inv
<1>6. QED
  BY <1>4, <1>5

(***************************************************************************)
(* The theorems.                                                           *)
(***************************************************************************)

(* A connection object that is used for the first time.                    *)
LEMMA InitInv == ASSUME Init PROVE Inv
<1>1. HeadLen \in 1..MaxLen /\ Interval \in 0..Interval /\ 1 \in 1..MaxClients /\ 0 < KickCount
      /\ HeadLen \in Nat \ {0}
  BY RecvAssumption DEF RecvAssumption
<1>2. Len(<<>>) = 0
  OBVIOUS
<1>3. Types
  <2>1. /\ <<>> \in Seq(Octet) /\ <<>> \in Seq(Seq(Octet))
        /\ <<>> \in Seq(Announced) /\ <<>> \in Seq(0..Interval)
    OBVIOUS
  <2>2. QED
    BY <1>1, <2>1 DEF Init, Types
<1>4. ParserInv
  <2>1. Len(head) + irecvlen = HeadLen
    BY <1>1, <1>2 DEF Init
  <2>2. QED
    BY <2>1 DEF Init, ParserInv, InHead
<1>5. BlockInv
  BY DEF Init, BlockInv
<1>6. FloodInv
  BY <1>1, <1>2, RecvAssumption DEF Init, FloodInv, RecvAssumption
<1>7. InHead
  BY DEF Init, InHead
<1>8. StreamInv
  BY <1>7, FreshStream DEF Init
<1>9. QED
  BY <1>3, <1>4, <1>5, <1>6, <1>8 DEF Inv

(* The steps that neither read nor send leave what has been received.      *)
LEMMA StillInv ==
  ASSUME Inv, ClientCloses \/ Tick \/ ClosedByOther \/ ReadClosed \/ UNCHANGED vars
  PROVE  Inv'
<1>1. /\ UNCHANGED parser /\ UNCHANGED memVars /\ UNCHANGED <<out, sent, inbuf, clients>>
      /\ UNCHANGED <<flood, gaps>> /\ (open' => open)
      /\ open' \in BOOLEAN /\ parked' \in BOOLEAN /\ fin' \in BOOLEAN
      /\ lastGap' \in 0..Interval
  <2>0. Interval \in Nat /\ Types
    BY RecvAssumption DEF RecvAssumption, Inv
  <2>1. CASE ClientCloses
    BY <2>0, <2>1 DEF ClientCloses, floodVars, envVars, Types
  <2>2. CASE Tick
    <3>1. lastGap + 1 \in 0..Interval
      BY <2>0, <2>2 DEF Tick, Types
    <3>2. QED
      BY <2>0, <2>2, <3>1 DEF Tick, floodVars, envVars, Types
  <2>3. CASE ClosedByOther
    BY <2>0, <2>3 DEF ClosedByOther, floodVars, envVars, Types
  <2>4. CASE ReadClosed
    BY <2>0, <2>4 DEF ReadClosed, floodVars, envVars, Types
  <2>5. CASE UNCHANGED vars
    BY <2>0, <2>5 DEF vars, floodVars, envVars, Types
  <2>6. QED
    BY <2>1, <2>2, <2>3, <2>4, <2>5
<1>2. UNCHANGED <<curStat, irecvlen, head, block, room, body>> /\ UNCHANGED <<allocated, handed, freed>>
  BY <1>1 DEF parser, memVars
<1>3. Types'
  BY <1>1, <1>2 DEF Inv, Types
<1>4. ParserInv' /\ BlockInv'
  BY <1>2 DEF Inv, ParserInv, BlockInv, InHead
<1>5. FloodInv'
  BY <1>1 DEF Inv, FloodInv
<1>6. StreamInv'
  BY <1>1, StillStream DEF Inv
<1>7. QED
  BY <1>3, <1>4, <1>5, <1>6 DEF Inv

(* A package more on its way.                                              *)
LEMMA SendInv == ASSUME Inv, NEW len \in Announced, ClientSends(len) PROVE Inv'
<1>1. Types /\ ParserInv /\ StreamInv /\ RunsOn(inbuf)
  BY DEF Inv, StreamInv
<1>2. sent' \in Seq(Announced) /\ inbuf' \in Seq(Octet)
  BY <1>1, SendRuns
<1>3. /\ UNCHANGED <<open, parked, curStat, irecvlen, head, block, room, body>>
      /\ UNCHANGED <<lastGap, flood, gaps>> /\ UNCHANGED <<allocated, handed, freed>>
      /\ UNCHANGED <<out, fin, clients>>
  BY DEF ClientSends, parser, floodVars, memVars
<1>4. Types'
  BY <1>1, <1>2, <1>3 DEF Types
<1>5. ParserInv' /\ BlockInv' /\ FloodInv'
  BY <1>3 DEF Inv, ParserInv, BlockInv, FloodInv, InHead
<1>6. StreamInv'
  BY <1>1, SendStream
<1>7. QED
  BY <1>4, <1>5, <1>6 DEF Inv

(* The object for the next client.                                         *)
LEMMA ReuseInv == ASSUME Inv, Reuse PROVE Inv'
<1>1. /\ HeadLen \in 1..MaxLen /\ HeadLen \in Nat \ {0} /\ Interval \in 0..Interval
      /\ 0 < KickCount /\ KickCount \in Nat /\ Len(<<>>) = 0
  BY RecvAssumption DEF RecvAssumption
<1>2. clients' \in 1..MaxClients
  <2>1. clients \in 1..MaxClients /\ clients < MaxClients /\ clients' = clients + 1 /\ MaxClients \in Nat
    BY RecvAssumption DEF Inv, Types, Reuse, NewClient, RecvAssumption
  <2>2. QED
    BY <2>1
<1>3. /\ open' = TRUE /\ parked' = FALSE /\ freed' = freed \cup ({block} \ {0})
      /\ sent' = <<>> /\ inbuf' = <<>> /\ fin' = FALSE /\ out' = <<>> /\ gaps' = <<>>
      /\ curStat' = "HD_INIT" /\ irecvlen' = HeadLen /\ head' = <<>>
      /\ block' = 0 /\ room' = 0 /\ body' = <<>> /\ lastGap' = Interval /\ flood' = 0
      /\ allocated' = allocated /\ handed' = handed
  BY DEF Reuse, NewClient, ExpectHeader
<1>4. Types'
  <2>1. allocated \in Nat
    BY DEF Inv, Types
  <2>2. /\ <<>> \in Seq(Octet) /\ <<>> \in Seq(Seq(Octet))
        /\ <<>> \in Seq(Announced) /\ <<>> \in Seq(0..Interval)
    OBVIOUS
  <2>3. QED
    BY <1>1, <1>2, <1>3, <2>1, <2>2 DEF Types
<1>5. ParserInv'
  <2>1. Len(head') + irecvlen' = HeadLen
    BY <1>1, <1>3
  <2>2. QED
    BY <1>3, <2>1 DEF ParserInv, InHead
<1>6. BlockInv'
  <2>1. /\ 1..allocated = ({block} \ {0}) \cup handed \cup freed
        /\ block \notin handed \cup freed /\ handed \cap freed = {}
    BY DEF Inv, BlockInv
  <2>2. 0 \notin 1..allocated
    OBVIOUS
  <2>3. QED
    BY <1>3, <2>1, <2>2 DEF BlockInv
<1>7. FloodInv'
  BY <1>1, <1>3 DEF FloodInv
<1>8. InHead'
  BY <1>3 DEF InHead
<1>9. StreamInv'
  <2>1. Len(head') = 0 /\ Len(body') = 0 /\ Len(inbuf') = 0 /\ Len(out') = 0 /\ Len(sent') = 0
    BY <1>1, <1>3
  <2>2. Receiving(1)'
    BY <1>3, <1>8, <2>1 DEF Receiving, Read
  <2>3. Delivered(1)' /\ RunsOn(inbuf)'
    BY <2>1 DEF Delivered, RunsOn
  <2>4. 1 \in 1..Len(sent') + 1
    BY <2>1
  <2>5. QED
    BY <2>2, <2>3, <2>4 DEF StreamInv
<1>10. QED
  BY <1>4, <1>5, <1>6, <1>7, <1>9 DEF Inv

(* Every step keeps the invariant: one case per action.                    *)
LEMMA NextInv == ASSUME Inv, [Next]_vars PROVE Inv'
<1>1. CASE \E len \in Announced : ClientSends(len)
  BY <1>1, SendInv
<1>2. CASE ClientCloses \/ Tick \/ ClosedByOther \/ ReadClosed \/ UNCHANGED vars
  BY <1>2, StillInv
<1>3. CASE Reuse
  BY <1>3, ReuseInv
<1>4. CASE \E n \in 1..MaxLen : ReadHeader(n) \/ ReadBody(n)
  <2>1. PICK n \in 1..MaxLen : ReadHeader(n) \/ ReadBody(n)
    BY <1>4
  <2>2. n \in Nat
    OBVIOUS
  <2>3. QED
    BY <2>1, <2>2, ReadHeaderInv, ReadBodyInv
<1>5. QED
  BY <1>1, <1>2, <1>3, <1>4 DEF Next, ReadStep

(* The invariant the others rest on: parser, blocks, flood count, stream.  *)
THEOREM ReceiveInvariant == Spec => []Inv
<1>1. Init => Inv
  BY InitInv
<1>2. Inv /\ [Next]_vars => Inv'
  BY NextInv
<1>3. QED
  BY <1>1, <1>2, PTL DEF Spec

(* Type correctness; there is a block exactly while a body is received.    *)
THEOREM TypeCorrect == Spec => []TypeOK
<1>1. Inv => TypeOK
  <2>1. SUFFICES ASSUME Inv PROVE TypeOK
    OBVIOUS
  <2>2. block \in 0..allocated /\ (InHead <=> block = 0)
    <3>1. allocated \in Nat /\ (InHead <=> block = 0)
      BY <2>1 DEF Inv, Types, ParserInv
    <3>2. 1..allocated = ({block} \ {0}) \cup handed \cup freed
      BY <2>1 DEF Inv, BlockInv
    <3>3. block = 0 \/ block \in 1..allocated
      BY <3>2
    <3>4. QED
      BY <3>1, <3>3
  <2>3. QED
    BY <2>1, <2>2 DEF Inv, Types, ParserInv, TypeOK
<1>2. QED
  BY <1>1, ReceiveInvariant, PTL

(* The bytes that recv() is asked for fit into the header buffer and into  *)
(* the block of the package, and there is always one.                      *)
THEOREM NeverOverrun == Spec => []RecvFits
<1>1. Inv => RecvFits
  <2>1. SUFFICES ASSUME Inv PROVE RecvFits
    OBVIOUS
  <2>2. irecvlen \in 1..MaxLen /\ MaxLen \in Nat /\ HeadLen \in Nat
    BY <2>1, RecvAssumption DEF Inv, Types, RecvAssumption
  <2>3. /\ InHead => Len(head) + irecvlen = HeadLen
        /\ ~InHead => Len(head) = HeadLen /\ Len(body) + irecvlen = room
    BY <2>1 DEF Inv, ParserInv
  <2>4. QED
    BY <2>2, <2>3 DEF RecvFits
<1>2. QED
  BY <1>1, ReceiveInvariant, PTL

(* However the stream is cut: whole packages, in order, none left out.     *)
THEOREM PackagesWhole == Spec => []Framing
<1>1. Inv => Framing
  <2>1. SUFFICES ASSUME Inv PROVE Framing
    OBVIOUS
  <2>2. sent \in Seq(Announced) /\ Len(sent) \in Nat /\ HeadLen \in Nat \ {0}
    BY <2>1, RecvAssumption DEF Inv, Types, RecvAssumption
  <2>3. PICK cur \in 1..Len(sent) + 1 : Delivered(cur)
    BY <2>1 DEF Inv, StreamInv
  <2>4. \A i \in 1..Len(out) :
          \E k \in 1..cur - 1 : k \in LegalSent /\ out[i] = Bytes(k, sent[k]) /\ Number(out[i]) = k
    <3>1. TAKE i \in 1..Len(out)
    <3>2. PICK k \in 1..cur - 1 : Legal(sent[k]) /\ out[i] = Bytes(k, sent[k])
      BY <2>3 DEF Delivered
    <3>3. k \in 1..Len(sent)
      BY <2>2, <2>3
    <3>4. sent[k] \in Nat
      BY <2>2, <3>3, Lengths
    <3>5. 1 \in 1..sent[k]
      BY <2>2, <3>2, <3>4 DEF Legal
    <3>6. Number(out[i]) = k
      BY <3>2, <3>5 DEF Number, Bytes
    <3>7. QED
      BY <3>2, <3>3, <3>6 DEF LegalSent
  <2>5. ASSUME NEW j \in 1..Len(out), NEW k \in LegalSent, k < Number(out[j])
        PROVE  \E i \in 1..Len(out) : Number(out[i]) = k
    <3>1. PICK l \in 1..cur - 1 : Number(out[j]) = l
      BY <2>4
    <3>2. k \in 1..cur - 1 /\ k # cur - 1
      BY <2>2, <2>3, <2>5, <3>1 DEF LegalSent
    <3>3. Legal(sent[k])
      BY DEF LegalSent
    <3>4. QED
      BY <2>3, <3>2, <3>3 DEF Delivered
  <2>6. \A i, j \in 1..Len(out) : i < j => Number(out[i]) < Number(out[j])
    BY <2>3 DEF Delivered
  <2>7. QED
    BY <2>4, <2>5, <2>6 DEF Framing
<1>2. QED
  BY <1>1, ReceiveInvariant, PTL

(* No block leaks and none has two owners.                                 *)
THEOREM BlockHasOneOwner == Spec => []BlockOwned
<1>1. Inv => BlockOwned
  <2>1. SUFFICES ASSUME Inv PROVE BlockOwned
    OBVIOUS
  <2>2. /\ 1..allocated = ({block} \ {0}) \cup handed \cup freed
        /\ block \notin handed \cup freed /\ handed \cap freed = {}
    BY <2>1 DEF Inv, BlockInv
  <2>3. QED
    BY <2>2 DEF BlockOwned
<1>2. QED
  BY <1>1, ReceiveInvariant, PTL

(* The flood test cuts a client off exactly when KickCount of its packages *)
(* in a row were too close.                                                *)
THEOREM FloodCountExact == Spec => []FloodExact
<1>1. Inv => FloodExact
  <2>1. SUFFICES ASSUME Inv PROVE FloodExact
    OBVIOUS
  <2>2. /\ KickCount \in Nat \ {0} /\ Interval \in Nat /\ flood \in Nat /\ Len(gaps) \in Nat
        /\ gaps \in Seq(0..Interval)
    BY <2>1, RecvAssumption DEF Inv, Types, RecvAssumption
  <2>3. FloodInv
    BY <2>1 DEF Inv
  <2>4. open /\ FloodOn => ~(Len(gaps) = KickCount /\ Close = 1..KickCount)
    <3>1. SUFFICES ASSUME open, FloodOn, Len(gaps) = KickCount PROVE Close # 1..KickCount
      OBVIOUS
    <3>2. flood < Len(gaps) /\ KickCount - flood \in 1..KickCount
      BY <2>2, <2>3, <3>1 DEF FloodInv
    <3>3. gaps[KickCount - flood] >= Interval
      BY <2>3, <3>1, <3>2 DEF FloodInv
    <3>4. gaps[KickCount - flood] \in 0..Interval
      BY <2>2, <3>1, <3>2, ElementOfSeq
    <3>5. KickCount - flood \notin Close
      BY <2>2, <3>3, <3>4 DEF Close
    <3>6. QED
      BY <3>2, <3>5
  <2>5. flood >= KickCount => Len(gaps) = KickCount /\ Close = 1..KickCount
    <3>1. SUFFICES ASSUME flood >= KickCount PROVE Len(gaps) = KickCount /\ Close = 1..KickCount
      OBVIOUS
    <3>2. Len(gaps) <= KickCount /\ flood <= Len(gaps)
      BY <2>3 DEF FloodInv
    <3>3. Len(gaps) = KickCount /\ flood = Len(gaps)
      BY <2>2, <3>1, <3>2
    <3>4. \A i \in 1..Len(gaps) : i > Len(gaps) - flood
      BY <2>2, <3>3
    <3>5. \A i \in 1..Len(gaps) : gaps[i] < Interval
      BY <2>3, <3>4 DEF FloodInv
    <3>6. QED
      BY <3>3, <3>5 DEF Close
  <2>6. QED
    BY <2>4, <2>5 DEF FloodExact
<1>2. QED
  BY <1>1, ReceiveInvariant, PTL

=============================================================================
