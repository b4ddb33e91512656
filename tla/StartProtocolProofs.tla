------------------------ MODULE StartProtocolProofs ------------------------
(***************************************************************************)
(* The start protocol for bytes of every size, requests and configurations *)
(* of every content and length, and every way to cut the stream.           *)
(*                                                                         *)
(* The properties say what holds when a request is decoded, refused or     *)
(* answered; none of them is inductive, for none says where the reader     *)
(* stands while it decodes.  The inductive invariant of StartProtocol      *)
(* does: it gives, for every await of the handler, the position in the     *)
(* message (ReadFollowsLabel), the fields decoded by then                  *)
(* (GotFollowsLabel) and the part of the answer that is out                *)
(* (BackFollowsLabel), and ties the client to them (ClientInStep).         *)
(*                                                                         *)
(* That a read takes the field it means to rests on two facts about the    *)
(* encoding: numbers survive their bytes (LeRoundTrip16, LeRoundTrip32),   *)
(* and every field of a message lies where the handler looks for it        *)
(* (Layout).  FieldAwaited joins them with the invariant: the next bytes   *)
(* of the stream are the awaited field, and the message does not end       *)
(* within it.                                                              *)
(***************************************************************************)
EXTENDS StartProtocol, TLAPS

\* A remainder, and that of a number that is small already.
LEMMA Remainder ==
  ASSUME NEW k \in Nat, NEW b \in Nat, b > 0
  PROVE  k % b \in 0..(b - 1) /\ (k < b => k % b = k) /\ k % b <= k
<1>1. k % b \in 0..(b - 1) /\ (k < b => k % b = k)
  OBVIOUS
<1> QED BY <1>1

\* A u16 survives its two bytes.
LEMMA LeRoundTrip16 ==
  ASSUME NEW n \in 0..(Words - 1)
  PROVE  ToLe16(n) \in Seq(Bytes) /\ Len(ToLe16(n)) = 2 /\ FromLe16(ToLe16(n)) = n
<1> DEFINE q == n \div B
           r == n % B
<1>1. B \in Nat /\ B > 0 /\ n \in Nat /\ n < B * B
  BY StartProtocolAssumption DEF Words
<1>2. q \in Int /\ r \in 0..(B - 1) /\ n = B * q + r
  BY <1>1
<1> HIDE DEF q, r
<1>3. q >= 0
  BY <1>1, <1>2
<1>4. q < B
  <2> SUFFICES ASSUME q >= B PROVE FALSE
    BY <1>1, <1>2
  <2>1. B * q >= B * B
    BY <1>1, <1>2
  <2> QED BY <1>1, <1>2, <2>1
<1>5. q % B = q
  BY <1>1, <1>2, <1>3, <1>4
<1>6. ToLe16(n) = <<r, q>>
  BY <1>5 DEF ToLe16, q, r
<1>7. r + B * q = n
  BY <1>1, <1>2
<1>8. r \in Bytes /\ q \in Bytes
  BY <1>1, <1>2, <1>3, <1>4 DEF Bytes
<1>9. <<r, q>> \in Seq(Bytes) /\ Len(<<r, q>>) = 2 /\ <<r, q>>[1] = r /\ <<r, q>>[2] = q
  BY <1>8
<1> QED BY <1>6, <1>7, <1>9 DEF FromLe16

\* The two halves of a concatenation.
LEMMA HalvesOfConcat ==
  ASSUME NEW s \in Seq(Bytes), NEW t \in Seq(Bytes)
  PROVE  /\ s \o t \in Seq(Bytes) /\ Len(s \o t) = Len(s) + Len(t)
         /\ SubSeq(s \o t, 1, Len(s)) = s
         /\ SubSeq(s \o t, Len(s) + 1, Len(s) + Len(t)) = t
<1>1. s \o t \in Seq(Bytes) /\ Len(s \o t) = Len(s) + Len(t)
  OBVIOUS
<1>2. SubSeq(s \o t, 1, Len(s)) = s
  OBVIOUS
<1>3. SubSeq(s \o t, Len(s) + 1, Len(s) + Len(t)) = t
  OBVIOUS
<1> QED BY <1>1, <1>2, <1>3

\* A u32 survives its four bytes.
LEMMA LeRoundTrip32 ==
  ASSUME NEW n \in 0..(Words * Words - 1)
  PROVE  ToLe32(n) \in Seq(Bytes) /\ Len(ToLe32(n)) = 4 /\ FromLe32(ToLe32(n)) = n
<1> DEFINE q == n \div Words
           r == n % Words
<1>1. Words \in Nat /\ Words > 0 /\ n \in Nat /\ n < Words * Words
  BY StartProtocolAssumption DEF Words
<1>2. q \in Int /\ r \in 0..(Words - 1) /\ n = Words * q + r
  BY <1>1
<1> HIDE DEF q, r
<1>3. q >= 0
  BY <1>1, <1>2
<1>4. q < Words
  <2> SUFFICES ASSUME q >= Words PROVE FALSE
    BY <1>1, <1>2
  <2>1. Words * q >= Words * Words
    BY <1>1, <1>2
  <2> QED BY <1>1, <1>2, <2>1
<1>5. q % Words = q
  BY <1>1, <1>2, <1>3, <1>4
<1>6. ToLe32(n) = ToLe16(r) \o ToLe16(q)
  BY <1>5 DEF ToLe32, q, r
<1>7. /\ ToLe16(r) \in Seq(Bytes) /\ Len(ToLe16(r)) = 2 /\ FromLe16(ToLe16(r)) = r
      /\ ToLe16(q) \in Seq(Bytes) /\ Len(ToLe16(q)) = 2 /\ FromLe16(ToLe16(q)) = q
  BY <1>1, <1>2, <1>3, <1>4, LeRoundTrip16
<1>8. /\ ToLe32(n) \in Seq(Bytes) /\ Len(ToLe32(n)) = 4
      /\ SubSeq(ToLe32(n), 1, 2) = ToLe16(r) /\ SubSeq(ToLe32(n), 3, 4) = ToLe16(q)
  <2> DEFINE lo == ToLe16(r)
             hi == ToLe16(q)
  <2>1. lo \in Seq(Bytes) /\ Len(lo) = 2 /\ hi \in Seq(Bytes) /\ Len(hi) = 2
    BY <1>7
  <2>2. /\ lo \o hi \in Seq(Bytes) /\ Len(lo \o hi) = Len(lo) + Len(hi)
        /\ SubSeq(lo \o hi, 1, Len(lo)) = lo
        /\ SubSeq(lo \o hi, Len(lo) + 1, Len(lo) + Len(hi)) = hi
    <3> HIDE DEF lo, hi
    <3> QED BY <2>1, HalvesOfConcat
  <2>3. ToLe32(n) = lo \o hi
    BY <1>6
  <2> HIDE DEF lo, hi
  <2>4. /\ ToLe32(n) \in Seq(Bytes) /\ Len(ToLe32(n)) = 4
        /\ SubSeq(ToLe32(n), 1, 2) = lo /\ SubSeq(ToLe32(n), 3, 4) = hi
    BY <2>1, <2>2, <2>3
  <2> QED BY <2>4 DEF lo, hi
<1>9. r + Words * q = n
  BY <1>1, <1>2
<1> QED BY <1>7, <1>8, <1>9 DEF FromLe32

\* The bytes of a concatenation.
LEMMA ByteOfConcat ==
  ASSUME NEW s \in Seq(Bytes), NEW t \in Seq(Bytes), NEW i \in 1..(Len(s) + Len(t))
  PROVE  (s \o t)[i] = IF i <= Len(s) THEN s[i] ELSE t[i - Len(s)]
  OBVIOUS

\* The bytes of a slice.
LEMMA ByteOfSlice ==
  ASSUME NEW s \in Seq(Bytes), NEW a \in Nat \ {0}, NEW b \in 0..Len(s), NEW j \in 1..(b - a + 1)
  PROVE  SubSeq(s, a, b)[j] = s[a + j - 1]
  OBVIOUS

\* The slice of one byte.
LEMMA FirstByte ==
  ASSUME NEW s \in Seq(Bytes), 1 <= Len(s)
  PROVE  SubSeq(s, 1, 1) = <<s[1]>>
<1> DEFINE t == SubSeq(s, 1, 1)
<1>1. t \in Seq(Bytes) /\ Len(t) = 1 /\ t[1] = s[1]
  OBVIOUS
<1>2. s[1] \in Bytes
  OBVIOUS
<1> HIDE DEF t
<1>3. t = <<s[1]>>
  BY <1>1, <1>2
<1> QED BY <1>3 DEF t

\* What follows a slice of the stream does not change it.
LEMMA SliceKept ==
  ASSUME NEW s \in Seq(Bytes), NEW t \in Seq(Bytes), NEW a \in Nat \ {0}, NEW b \in 0..Len(s)
  PROVE  SubSeq(s \o t, a, b) = SubSeq(s, a, b)
  OBVIOUS

\* A mapping takes five bytes, from which it can be read again.
LEMMA PortBytesDecode ==
  ASSUME NEW p \in Mappings
  PROVE  /\ PortBytes(p) \in Seq(Bytes) /\ Len(PortBytes(p)) = 5
         /\ FromLe16(SubSeq(PortBytes(p), 1, 2)) = p[1]
         /\ FromLe16(SubSeq(PortBytes(p), 3, 4)) = p[2]
         /\ PortBytes(p)[5] = TypeId(p[3])
<1> DEFINE x == ToLe16(p[1])
           y == ToLe16(p[2])
           z == <<TypeId(p[3])>>
<1>1. p[1] \in 0..(Words - 1) /\ p[2] \in 0..(Words - 1) /\ p[3] \in PortTypes
  BY DEF Mappings
<1>2. /\ x \in Seq(Bytes) /\ Len(x) = 2 /\ FromLe16(x) = p[1]
      /\ y \in Seq(Bytes) /\ Len(y) = 2 /\ FromLe16(y) = p[2]
  BY <1>1, LeRoundTrip16
<1>3. TypeId(p[3]) \in Bytes
  BY StartProtocolAssumption DEF TypeId, Bytes
<1>4. z \in Seq(Bytes) /\ Len(z) = 1 /\ z[1] = TypeId(p[3])
  BY <1>3
<1>5. PortBytes(p) = (x \o y) \o z
  BY DEF PortBytes
<1> HIDE DEF x, y, z
<1>6. /\ x \o y \in Seq(Bytes) /\ Len(x \o y) = 4
      /\ SubSeq(x \o y, 1, 2) = x /\ SubSeq(x \o y, 3, 4) = y
  <2>1. /\ x \o y \in Seq(Bytes) /\ Len(x \o y) = Len(x) + Len(y)
        /\ SubSeq(x \o y, 1, Len(x)) = x
        /\ SubSeq(x \o y, Len(x) + 1, Len(x) + Len(y)) = y
    BY <1>2, HalvesOfConcat
  <2> QED BY <1>2, <2>1
<1> DEFINE u == x \o y
<1>7. u \in Seq(Bytes) /\ Len(u) = 4 /\ SubSeq(u, 1, 2) = x /\ SubSeq(u, 3, 4) = y
  BY <1>6
<1>8. PortBytes(p) = u \o z
  BY <1>5
<1> HIDE DEF u
<1>9. u \o z \in Seq(Bytes) /\ Len(u \o z) = 5
  <2>1. u \o z \in Seq(Bytes) /\ Len(u \o z) = Len(u) + Len(z)
    BY <1>4, <1>7, HalvesOfConcat
  <2> QED BY <1>4, <1>7, <2>1
<1>10. (u \o z)[5] = z[1]
  <2>1. 5 \in 1..(Len(u) + Len(z)) /\ ~(5 <= Len(u)) /\ 5 - Len(u) = 1
    BY <1>4, <1>7
  <2>2. (u \o z)[5] = IF 5 <= Len(u) THEN u[5] ELSE z[5 - Len(u)]
    BY <1>4, <1>7, <2>1, ByteOfConcat
  <2> QED BY <2>1, <2>2
<1>11. SubSeq(u \o z, 1, 2) = SubSeq(u, 1, 2)
  <2>1. 1 \in Nat \ {0} /\ 2 \in 0..Len(u)
    BY <1>7
  <2> QED BY <1>4, <1>7, <2>1, SliceKept
<1>12. SubSeq(u \o z, 3, 4) = SubSeq(u, 3, 4)
  <2>1. 3 \in Nat \ {0} /\ 4 \in 0..Len(u)
    BY <1>7
  <2> QED BY <1>4, <1>7, <2>1, SliceKept
<1> QED BY <1>2, <1>4, <1>7, <1>8, <1>9, <1>10, <1>11, <1>12

\* The mappings lie one after the other.
LEMMA PortsBytesSlices ==
  ASSUME NEW ports \in Seq(Mappings)
  PROVE  /\ PortsBytes(ports) \in Seq(Bytes) /\ Len(PortsBytes(ports)) = 5 * Len(ports)
         /\ \A i \in 1..Len(ports) :
               SubSeq(PortsBytes(ports), 5 * (i - 1) + 1, 5 * (i - 1) + 5) = PortBytes(ports[i])
<1> DEFINE n == Len(ports)
           all == PortsBytes(ports)
<1>1. n \in Nat /\ \A i \in 1..n : ports[i] \in Mappings
  OBVIOUS
<1>2. \A i \in 1..n : PortBytes(ports[i]) \in Seq(Bytes) /\ Len(PortBytes(ports[i])) = 5
  BY <1>1, PortBytesDecode
<1>3. all = [k \in 1..(5 * n) |-> PortBytes(ports[((k - 1) \div 5) + 1])[((k - 1) % 5) + 1]]
  BY DEF PortsBytes
<1> HIDE DEF n, all
<1>4. \A k \in 1..(5 * n) : ((k - 1) \div 5) + 1 \in 1..n /\ ((k - 1) % 5) + 1 \in 1..5
  BY <1>1
<1>5. \A k \in 1..(5 * n) : PortBytes(ports[((k - 1) \div 5) + 1])[((k - 1) % 5) + 1] \in Bytes
  <2> SUFFICES ASSUME NEW k \in 1..(5 * n)
               PROVE  PortBytes(ports[((k - 1) \div 5) + 1])[((k - 1) % 5) + 1] \in Bytes
    OBVIOUS
  <2>1. PICK i \in 1..n : i = ((k - 1) \div 5) + 1
    BY <1>4
  <2>2. PICK j \in 1..5 : j = ((k - 1) % 5) + 1
    BY <1>4
  <2>3. PortBytes(ports[i])[j] \in Bytes
    BY <1>2
  <2> QED BY <2>1, <2>2, <2>3
<1>6. all \in [1..(5 * n) -> Bytes]
  BY <1>3, <1>5
<1>7. all \in Seq(Bytes) /\ Len(all) = 5 * n
  BY <1>1, <1>6
<1>8. ASSUME NEW i \in 1..n
      PROVE  SubSeq(all, 5 * (i - 1) + 1, 5 * (i - 1) + 5) = PortBytes(ports[i])
  <2> DEFINE one == PortBytes(ports[i])
             cut == SubSeq(all, 5 * (i - 1) + 1, 5 * (i - 1) + 5)
  <2>1. one \in Seq(Bytes) /\ Len(one) = 5
    BY <1>2
  <2>2. i \in Nat /\ i >= 1 /\ 5 * (i - 1) + 5 <= 5 * n
    BY <1>1
  <2>3. cut \in Seq(Bytes) /\ Len(cut) = 5
    BY <1>1, <1>7, <2>2
  <2>4. ASSUME NEW j \in 1..5 PROVE cut[j] = one[j]
    <3> DEFINE k == 5 * (i - 1) + j
    <3>1. cut[j] = all[k]
      <4>1. /\ 5 * (i - 1) + 1 \in Nat \ {0} /\ 5 * (i - 1) + 5 \in 0..Len(all)
            /\ j \in 1..((5 * (i - 1) + 5) - (5 * (i - 1) + 1) + 1)
            /\ (5 * (i - 1) + 1) + j - 1 = 5 * (i - 1) + j
        BY <1>1, <1>7, <2>2
      <4> QED BY <1>7, <4>1, ByteOfSlice
    <3>2. k \in 1..(5 * n) /\ ((k - 1) \div 5) + 1 = i /\ ((k - 1) % 5) + 1 = j
      BY <1>1, <2>2
    <3> HIDE DEF k, cut
    <3>3. all[k] = PortBytes(ports[((k - 1) \div 5) + 1])[((k - 1) % 5) + 1]
      BY <1>3, <3>2
    <3> QED BY <3>1, <3>2, <3>3
  <2> HIDE DEF one, cut
  <2>5. cut = one
    BY <2>1, <2>3, <2>4
  <2> QED BY <2>5 DEF one, cut
<1> QED BY <1>7, <1>8 DEF n, all

\* A field appended to the message: its bytes, and those of the fields before it.
LEMMA FieldAppended ==
  ASSUME NEW s \in Seq(Bytes), NEW t \in Seq(Bytes)
  PROVE  /\ s \o t \in Seq(Bytes) /\ Len(s \o t) = Len(s) + Len(t)
         /\ SubSeq(s \o t, Len(s) + 1, Len(s) + Len(t)) = t
         /\ \A a \in Nat \ {0}, b \in 0..Len(s) : SubSeq(s \o t, a, b) = SubSeq(s, a, b)
<1>1. \A a \in Nat \ {0}, b \in 0..Len(s) : SubSeq(s \o t, a, b) = SubSeq(s, a, b)
  BY SliceKept
<1> QED BY <1>1, HalvesOfConcat

\* Where start_container puts the fields of a request: the message m of q has a code
\* of c bytes, an image of l bytes and n ports.
LaidOut(q, c, l, n, m) ==
  /\ c \in Nat /\ l \in Nat /\ n \in Nat
  /\ m \in Seq(Bytes) /\ Len(m) = 3 + c + l + 5 * n
  /\ SubSeq(m, 1, 1) = <<ModeId(q.mode)>>
  /\ q.mode = "guest" => SubSeq(m, 2, 5) = ToLe32(q.code)
  /\ SubSeq(m, 2 + c, 2 + c) = <<l>>
  /\ SubSeq(m, 3 + c, 2 + c + l) = q.image
  /\ SubSeq(m, 3 + c + l, 3 + c + l) = <<n % B>>
  /\ \A i \in 1..n : SubSeq(m, 3 + c + l + 5 * (i - 1) + 1, 3 + c + l + 5 * (i - 1) + 5)
                        = PortBytes(q.ports[i])

\* Every request is laid out like that.
LEMMA Layout ==
  ASSUME NEW q \in Requests
  PROVE  LaidOut(q, CodeLen(q), Len(q.image), Len(q.ports), Message(q))
<1> SUFFICES ASSUME NEW c, NEW l, NEW n, NEW m,
                    c = CodeLen(q), l = Len(q.image), n = Len(q.ports), m = Message(q)
             PROVE  LaidOut(q, c, l, n, m)
  OBVIOUS
<1> DEFINE p1 == <<ModeId(q.mode)>>
           p2 == IF q.mode = "guest" THEN ToLe32(q.code) ELSE << >>
           p3 == <<LengthByte(q.image)>>
           p4 == q.image
           p5 == <<Len(q.ports) % B>>
           p6 == PortsBytes(q.ports)
<1>1. /\ q.mode \in {"guest", "demo"} /\ q.code \in 0..(Words * Words - 1)
      /\ q.image \in Seq(Bytes) /\ Len(q.image) < B /\ q.ports \in Seq(Mappings)
      /\ B \in Nat /\ B >= 4
  BY StartProtocolAssumption
<1>2. c \in Nat /\ l \in Nat /\ n \in Nat /\ c \in {0, 4}
  BY <1>1 DEF CodeLen
<1>3. p1 \in Seq(Bytes) /\ Len(p1) = 1
  <2>1. ModeId(q.mode) \in Bytes
    BY <1>1 DEF ModeId, Bytes
  <2> QED BY <2>1
<1>4. p2 \in Seq(Bytes) /\ Len(p2) = c /\ (q.mode = "guest" => c = 4 /\ p2 = ToLe32(q.code))
  <2>1. CASE q.mode = "guest"
    BY <1>1, <2>1, LeRoundTrip32 DEF CodeLen
  <2>2. CASE q.mode # "guest"
    BY <2>2 DEF CodeLen
  <2> QED BY <2>1, <2>2
<1>5. p3 = <<l>> /\ p3 \in Seq(Bytes) /\ Len(p3) = 1
  <2>1. B \in Nat /\ B > 0 /\ l \in Nat /\ l < B
    BY <1>1, <1>2
  <2>2. l % B = l /\ l \in Bytes
    BY ONLY <2>1, Remainder DEF Bytes
  <2> QED BY <2>2 DEF LengthByte
<1>6. p5 = <<n % B>> /\ p5 \in Seq(Bytes) /\ Len(p5) = 1
  <2>1. B \in Nat /\ B > 0 /\ n \in Nat
    BY <1>1, <1>2
  <2>2. n % B \in Bytes
    BY ONLY <2>1, Remainder DEF Bytes
  <2> QED BY <2>2
<1>7. /\ p6 \in Seq(Bytes) /\ Len(p6) = 5 * n
      /\ \A i \in 1..n : SubSeq(p6, 5 * (i - 1) + 1, 5 * (i - 1) + 5) = PortBytes(q.ports[i])
  BY <1>1, PortsBytesSlices
<1>8. p4 \in Seq(Bytes) /\ Len(p4) = l /\ p4 = q.image
  BY <1>1
<1>9. m = ((((p1 \o p2) \o p3) \o p4) \o p5) \o p6
  BY DEF Message
<1> HIDE DEF p1, p2, p3, p4, p5, p6
<1> DEFINE m2 == p1 \o p2
           m3 == m2 \o p3
           m4 == m3 \o p4
           m5 == m4 \o p5
           m6 == m5 \o p6
<1>10. m = m6
  BY <1>9
<1>11. /\ m2 \in Seq(Bytes) /\ Len(m2) = 1 + c
       /\ SubSeq(m2, 1, 1) = p1 /\ SubSeq(m2, 2, 1 + c) = p2
  <2>1. /\ m2 \in Seq(Bytes) /\ Len(m2) = Len(p1) + Len(p2)
        /\ SubSeq(m2, 1, Len(p1)) = p1
        /\ SubSeq(m2, Len(p1) + 1, Len(p1) + Len(p2)) = p2
    BY <1>3, <1>4, HalvesOfConcat
  <2> QED BY <1>2, <1>3, <1>4, <2>1
<1> HIDE DEF m2
<1>12. /\ m3 \in Seq(Bytes) /\ Len(m3) = 2 + c /\ SubSeq(m3, 2 + c, 2 + c) = p3
       /\ \A a \in Nat \ {0}, b \in 0..(1 + c) : SubSeq(m3, a, b) = SubSeq(m2, a, b)
  <2>1. /\ m3 \in Seq(Bytes) /\ Len(m3) = Len(m2) + Len(p3)
        /\ SubSeq(m3, Len(m2) + 1, Len(m2) + Len(p3)) = p3
        /\ \A a \in Nat \ {0}, b \in 0..Len(m2) : SubSeq(m3, a, b) = SubSeq(m2, a, b)
    BY <1>11, <1>5, FieldAppended
  <2>2. Len(m2) + 1 = 2 + c /\ Len(m2) + Len(p3) = 2 + c
    BY <1>2, <1>5, <1>11
  <2> QED BY <1>11, <2>1, <2>2
<1> HIDE DEF m3
<1>13. /\ m4 \in Seq(Bytes) /\ Len(m4) = 2 + c + l /\ SubSeq(m4, 3 + c, 2 + c + l) = p4
       /\ \A a \in Nat \ {0}, b \in 0..(2 + c) : SubSeq(m4, a, b) = SubSeq(m3, a, b)
  <2>1. /\ m4 \in Seq(Bytes) /\ Len(m4) = Len(m3) + Len(p4)
        /\ SubSeq(m4, Len(m3) + 1, Len(m3) + Len(p4)) = p4
        /\ \A a \in Nat \ {0}, b \in 0..Len(m3) : SubSeq(m4, a, b) = SubSeq(m3, a, b)
    BY <1>12, <1>8, FieldAppended
  <2>2. Len(m3) + 1 = 3 + c /\ Len(m3) + Len(p4) = 2 + c + l
    BY <1>2, <1>8, <1>12
  <2> QED BY <1>12, <2>1, <2>2
<1> HIDE DEF m4
<1>14. /\ m5 \in Seq(Bytes) /\ Len(m5) = 3 + c + l /\ SubSeq(m5, 3 + c + l, 3 + c + l) = p5
       /\ \A a \in Nat \ {0}, b \in 0..(2 + c + l) : SubSeq(m5, a, b) = SubSeq(m4, a, b)
  <2>1. /\ m5 \in Seq(Bytes) /\ Len(m5) = Len(m4) + Len(p5)
        /\ SubSeq(m5, Len(m4) + 1, Len(m4) + Len(p5)) = p5
        /\ \A a \in Nat \ {0}, b \in 0..Len(m4) : SubSeq(m5, a, b) = SubSeq(m4, a, b)
    BY <1>13, <1>6, FieldAppended
  <2>2. Len(m4) + 1 = 3 + c + l /\ Len(m4) + Len(p5) = 3 + c + l
    BY <1>2, <1>6, <1>13
  <2> QED BY <1>13, <2>1, <2>2
<1> HIDE DEF m5
<1>15. /\ m6 \in Seq(Bytes) /\ Len(m6) = 3 + c + l + 5 * n
       /\ SubSeq(m6, 3 + c + l + 1, 3 + c + l + 5 * n) = p6
       /\ \A a \in Nat \ {0}, b \in 0..(3 + c + l) : SubSeq(m6, a, b) = SubSeq(m5, a, b)
  <2>1. /\ m6 \in Seq(Bytes) /\ Len(m6) = Len(m5) + Len(p6)
        /\ SubSeq(m6, Len(m5) + 1, Len(m5) + Len(p6)) = p6
        /\ \A a \in Nat \ {0}, b \in 0..Len(m5) : SubSeq(m6, a, b) = SubSeq(m5, a, b)
    BY <1>14, <1>7, FieldAppended
  <2> QED BY <1>7, <1>14, <2>1
<1> HIDE DEF m6
<1>16. SubSeq(m6, 3 + c + l, 3 + c + l) = p5
  <2>1. 3 + c + l \in Nat \ {0} /\ 3 + c + l \in 0..(3 + c + l)
    BY <1>2
  <2> QED BY <1>14, <1>15, <2>1
<1>17. \A a \in Nat \ {0}, b \in 0..(2 + c + l) : SubSeq(m6, a, b) = SubSeq(m4, a, b)
  <2>1. \A b \in 0..(2 + c + l) : b \in 0..(3 + c + l)
    BY <1>2
  <2> QED BY <1>14, <1>15, <2>1
<1>18. SubSeq(m6, 3 + c, 2 + c + l) = p4
  <2>1. 3 + c \in Nat \ {0} /\ 2 + c + l \in 0..(2 + c + l)
    BY <1>2
  <2> QED BY <1>13, <1>17, <2>1
<1>19. \A a \in Nat \ {0}, b \in 0..(2 + c) : SubSeq(m6, a, b) = SubSeq(m3, a, b)
  <2>1. \A b \in 0..(2 + c) : b \in 0..(2 + c + l)
    BY <1>2
  <2> QED BY <1>13, <1>17, <2>1
<1>20. /\ SubSeq(m6, 2 + c, 2 + c) = p3
       /\ SubSeq(m6, 1, 1) = p1
       /\ SubSeq(m6, 2, 1 + c) = p2
  <2>1. 2 + c \in Nat \ {0} /\ 2 + c \in 0..(2 + c)
    BY <1>2
  <2>2. /\ 1 \in Nat \ {0} /\ 1 \in 0..(2 + c) /\ 1 \in 0..(1 + c)
        /\ 2 \in Nat \ {0} /\ 1 + c \in 0..(2 + c) /\ 1 + c \in 0..(1 + c)
    BY <1>2
  <2>3. SubSeq(m6, 2 + c, 2 + c) = SubSeq(m3, 2 + c, 2 + c)
    BY <1>19, <2>1
  <2>4. SubSeq(m6, 1, 1) = SubSeq(m3, 1, 1) /\ SubSeq(m3, 1, 1) = SubSeq(m2, 1, 1)
    BY <1>12, <1>19, <2>2
  <2>5. /\ SubSeq(m6, 2, 1 + c) = SubSeq(m3, 2, 1 + c)
        /\ SubSeq(m3, 2, 1 + c) = SubSeq(m2, 2, 1 + c)
    BY <1>12, <1>19, <2>2
  <2> QED BY <1>11, <1>12, <2>3, <2>4, <2>5
<1>21. ASSUME NEW i \in 1..n
       PROVE  SubSeq(m6, 3 + c + l + 5 * (i - 1) + 1, 3 + c + l + 5 * (i - 1) + 5)
                = PortBytes(q.ports[i])
  <2> DEFINE o == 3 + c + l
             a == 5 * (i - 1) + 1
             b == 5 * (i - 1) + 5
  <2>1. o \in Nat /\ a \in Nat \ {0} /\ b \in 0..(5 * n) /\ a <= b
    BY <1>2
  <2>2. SubSeq(p6, a, b) = PortBytes(q.ports[i])
    BY <1>7
  <2>3. Len(m6) = o + 5 * n /\ SubSeq(m6, o + 1, o + 5 * n) = p6 /\ m6 \in Seq(Bytes)
    BY <1>15
  <2> HIDE DEF o, a, b
  <2>4. SubSeq(SubSeq(m6, o + 1, o + 5 * n), a, b) = SubSeq(m6, o + a, o + b)
    BY <1>2, <2>1, <2>3
  <2>5. SubSeq(m6, o + a, o + b) = PortBytes(q.ports[i])
    BY <2>2, <2>3, <2>4
  <2>6. o + a = 3 + c + l + 5 * (i - 1) + 1 /\ o + b = 3 + c + l + 5 * (i - 1) + 5
    BY <1>2 DEF o, a, b
  <2> QED BY <2>5, <2>6
<1>22. q.mode = "guest" => SubSeq(m6, 2, 5) = ToLe32(q.code)
  BY <1>4, <1>20
<1>23. p1 = <<ModeId(q.mode)>>
  BY DEF p1
<1>24. p3 = <<l>> /\ p4 = q.image /\ p5 = <<n % B>>
  BY <1>5, <1>6, <1>8
<1> QED BY <1>2, <1>10, <1>15, <1>16, <1>18, <1>20, <1>21, <1>22, <1>23, <1>24 DEF LaidOut
-----------------------------------------------------------------------------
(* What the handler finds where it reads.                                  *)

\* The facts about the request.
LEMMA RequestFacts ==
  ASSUME IInv
  PROVE  /\ request.mode \in {"guest", "demo"} /\ request.code \in 0..(Words * Words - 1)
         /\ request.image \in Seq(Bytes) /\ IsUtf8(request.image)
         /\ Len(request.image) \in Nat /\ Len(request.image) < B
         /\ request.ports \in Seq(Mappings) /\ Len(request.ports) \in Nat
         /\ CodeLen(request) \in {0, 4} /\ (request.mode = "guest" <=> CodeLen(request) = 4)
         /\ B \in Nat /\ B >= 4 /\ Limit \in Nat
         /\ Len(request.ports) % B \in Nat
         /\ Len(request.ports) % B <= Len(request.ports)
         /\ (Len(request.ports) < B => Len(request.ports) % B = Len(request.ports))
<1>1. request \in Requests
  BY DEF IInv, TypeOK
<1>2. /\ request.mode \in {"guest", "demo"} /\ request.code \in 0..(Words * Words - 1)
      /\ request.image \in Seq(Bytes) /\ IsUtf8(request.image) /\ Len(request.image) < B
      /\ request.ports \in Seq(Mappings) /\ B \in Nat /\ B >= 4 /\ Limit \in Nat
  BY <1>1, StartProtocolAssumption
<1>3. Len(request.image) \in Nat /\ Len(request.ports) \in Nat
  BY <1>2
<1>4. CodeLen(request) \in {0, 4} /\ (request.mode = "guest" <=> CodeLen(request) = 4)
  BY DEF CodeLen
<1>5. /\ Len(request.ports) % B \in Nat /\ Len(request.ports) % B <= Len(request.ports)
      /\ (Len(request.ports) < B => Len(request.ports) % B = Len(request.ports))
  <2> DEFINE n == Len(request.ports)
  <2>1. B \in Nat /\ B > 0 /\ n \in Nat
    BY <1>2, <1>3
  <2> HIDE DEF n
  <2>2. n % B \in 0..(B - 1) /\ (n < B => n % B = n) /\ n % B <= n
    BY <2>1, Remainder
  <2>3. n % B \in Nat
    BY <2>1, <2>2
  <2> QED BY <2>2, <2>3 DEF n
<1> QED BY <1>2, <1>3, <1>4, <1>5

\* The next bytes of the stream are the field that is awaited, and the message does
\* not end within it.
LEMMA FieldAwaited ==
  ASSUME IInv
  PROVE  /\ at = "mode" => Bite(1) = <<ModeId(request.mode)>>
         /\ at = "code" => Bite(4) = ToLe32(request.code)
         /\ at = "len" => Bite(1) = <<Len(request.image)>>
         /\ at = "name" => Bite(got.len) = request.image
         /\ at = "count" => Bite(1) = <<Len(request.ports) % B>>
         /\ at = "port" => /\ Len(got.ports) + 1 \in 1..Len(request.ports)
                           /\ Bite(5) = PortBytes(request.ports[Len(got.ports) + 1])
         /\ at \in Reading => Need(at) \in Nat /\ read + Need(at) <= Len(Message(request))
<1> DEFINE c == CodeLen(request)
           l == Len(request.image)
           n == Len(request.ports)
           g == Len(got.ports)
           m == Message(request)
<1>1. LaidOut(request, c, l, n, m)
  BY Layout DEF IInv, TypeOK
<1>2. c \in {0, 4} /\ (request.mode = "guest" <=> c = 4) /\ n % B \in Nat /\ n % B <= n
  BY RequestFacts
<1>3. g \in Nat
  BY DEF IInv, TypeOK, Fields
<1>4. /\ at = "mode" => read = 0
      /\ at = "code" => read = 1 /\ request.mode = "guest"
      /\ at = "len" => read = 1 + c
      /\ at = "name" => read = 2 + c /\ got.len = l
      /\ at = "count" => read = 2 + c + l
      /\ at = "port" => read = 3 + c + l + 5 * g /\ g < n % B
  BY DEF IInv, ReadFollowsLabel, GotFollowsLabel
<1> HIDE DEF c, l, n, g, m
<1>5. c \in Nat /\ l \in Nat /\ n \in Nat /\ Len(m) = 3 + c + l + 5 * n
  BY <1>1 DEF LaidOut
<1>6. at = "mode" => Bite(1) = <<ModeId(request.mode)>>
  <2>1. SubSeq(m, 1, 1) = <<ModeId(request.mode)>>
    BY <1>1 DEF LaidOut
  <2> QED BY <1>4, <2>1 DEF Bite, m
<1>7. at = "code" => Bite(4) = ToLe32(request.code)
  <2>1. request.mode = "guest" => SubSeq(m, 2, 5) = ToLe32(request.code)
    BY <1>1 DEF LaidOut
  <2> QED BY <1>4, <2>1 DEF Bite, m
<1>8. at = "len" => Bite(1) = <<l>>
  <2>1. SubSeq(m, 2 + c, 2 + c) = <<l>>
    BY <1>1 DEF LaidOut
  <2>2. at = "len" => read + 1 = 2 + c
    BY <1>4, <1>5
  <2> QED BY <2>1, <2>2 DEF Bite, m
<1>9. at = "name" => Bite(got.len) = request.image
  <2>1. SubSeq(m, 3 + c, 2 + c + l) = request.image
    BY <1>1 DEF LaidOut
  <2>2. at = "name" => read + 1 = 3 + c /\ read + got.len = 2 + c + l
    BY <1>4, <1>5
  <2> QED BY <2>1, <2>2 DEF Bite, m
<1>10. at = "count" => Bite(1) = <<n % B>>
  <2>1. SubSeq(m, 3 + c + l, 3 + c + l) = <<n % B>>
    BY <1>1 DEF LaidOut
  <2>2. at = "count" => read + 1 = 3 + c + l
    BY <1>4, <1>5
  <2> QED BY <2>1, <2>2 DEF Bite, m
<1>11. at = "port" => g + 1 \in 1..n /\ Bite(5) = PortBytes(request.ports[g + 1])
  <2> SUFFICES ASSUME at = "port" PROVE g + 1 \in 1..n /\ Bite(5) = PortBytes(request.ports[g + 1])
    OBVIOUS
  <2>1. g + 1 \in 1..n
    BY <1>2, <1>3, <1>4, <1>5
  <2>2. SubSeq(m, 3 + c + l + 5 * ((g + 1) - 1) + 1, 3 + c + l + 5 * ((g + 1) - 1) + 5)
           = PortBytes(request.ports[g + 1])
    BY <1>1, <2>1 DEF LaidOut
  <2>3. /\ 3 + c + l + 5 * ((g + 1) - 1) + 1 = read + 1
        /\ 3 + c + l + 5 * ((g + 1) - 1) + 5 = read + 5
    BY <1>3, <1>4, <1>5
  <2> QED BY <2>1, <2>2, <2>3 DEF Bite, m
<1>12. at \in Reading => Need(at) \in Nat /\ read + Need(at) <= Len(m)
  <2>1. CASE at \in {"mode", "code", "len", "count"}
    BY <1>5, <1>2, <1>4, <2>1 DEF Need
  <2>2. CASE at = "name"
    BY <1>5, <1>2, <1>4, <2>2 DEF Need
  <2>3. CASE at = "port"
    BY <1>5, <1>2, <1>3, <1>4, <2>3 DEF Need
  <2> QED BY <2>1, <2>2, <2>3 DEF Reading
<1> QED BY <1>6, <1>7, <1>8, <1>9, <1>10, <1>11, <1>12 DEF l, n, g, m
-----------------------------------------------------------------------------
(* The inductive invariant.                                                *)

\* The length of a message is a natural number.
LEMMA MessageLength ==
  ASSUME NEW q \in Requests
  PROVE  Len(Message(q)) \in Nat /\ Len(Message(q)) > 0
<1> DEFINE c == CodeLen(q)
           l == Len(q.image)
           n == Len(q.ports)
           m == Message(q)
<1>1. LaidOut(q, c, l, n, m)
  BY Layout
<1> HIDE DEF c, l, n, m
<1>2. c \in Nat /\ l \in Nat /\ n \in Nat /\ Len(m) = 3 + c + l + 5 * n
  BY <1>1 DEF LaidOut
<1>3. Len(m) \in Nat /\ Len(m) > 0
  BY <1>2
<1> QED BY <1>3 DEF m

\* A connection that was just opened satisfies it.
LEMMA InitIInv == Init => IInv
<1> SUFFICES ASSUME Init PROVE IInv
  OBVIOUS
<1>1. got = Nothing /\ at = "mode" /\ answer = "none" /\ request \in Requests
  BY DEF Init
<1>2. Len(Message(request)) \in Nat /\ Len(Message(request)) > 0
  BY <1>1, MessageLength
<1>3. got \in Fields /\ got.ports = << >>
  BY <1>1 DEF Nothing, Fields
<1>4. TypeOK
  BY <1>2, <1>3 DEF Init, TypeOK, Reading
<1>5. ReadFollowsLabel /\ GotFollowsLabel
  BY <1>1, <1>3 DEF Init, ReadFollowsLabel, GotFollowsLabel, Served, IsDecoded
<1>6. BackFollowsLabel /\ ClientInStep /\ RefusedForCause /\ AnswerUnderstood
  BY <1>1, <1>2 DEF Init, BackFollowsLabel, ClientInStep, RefusedForCause, AnswerUnderstood
<1> QED BY <1>4, <1>5, <1>6 DEF IInv

\* What the client does leaves the facts about the daemon alone.
LEMMA ClientKeepsDaemonFacts ==
  ASSUME IInv, UNCHANGED <<request, daemonVars>>
  PROVE  ReadFollowsLabel' /\ GotFollowsLabel' /\ BackFollowsLabel'
<1>1. UNCHANGED <<request, at, read, got, answer, issued, back>>
  BY DEF daemonVars
<1>2. ReadFollowsLabel' /\ GotFollowsLabel'
  BY <1>1 DEF IInv, ReadFollowsLabel, GotFollowsLabel, Served, IsDecoded
<1>3. BackFollowsLabel'
  BY <1>1 DEF IInv, BackFollowsLabel, Reply, Head0, Head3
<1> QED BY <1>2, <1>3

\* conn.write_all.
LEMMA WriteKeeps ==
  ASSUME IInv, NEW n \in 1..Len(Message(request)), Write(n)
  PROVE  IInv'
<1> DEFINE len == Len(Message(request))
<1>1. UNCHANGED <<request, outcome, config, taken, hungup, at, read, got, answer, issued, back>>
  BY DEF Write, daemonVars
<1>2. len \in Nat /\ len' = len
  BY <1>1, MessageLength DEF IInv, TypeOK
<1>3. sent' = sent + n /\ sent' <= len /\ client = "write" /\ "daemon" \notin hungup
      /\ client' = IF sent' = len THEN "result" ELSE "write"
  BY DEF Write
<1>4. TypeOK'
  <2>1. sent' \in 0..len' /\ read' \in 0..sent'
    BY <1>1, <1>2, <1>3 DEF IInv, TypeOK
  <2> HIDE DEF len
  <2>2. client' \in {"write", "result", "config", "returned"}
    BY <1>3
  <2> QED BY <1>1, <2>1, <2>2 DEF IInv, TypeOK, len
<1>5. ClientInStep'
  BY <1>1, <1>2, <1>3 DEF IInv, ClientInStep
<1>6. RefusedForCause' /\ AnswerUnderstood'
  BY <1>1 DEF IInv, RefusedForCause, AnswerUnderstood
<1> QED BY <1>1, <1>4, <1>5, <1>6, ClientKeepsDaemonFacts DEF IInv, daemonVars

\* start_container returns with an answer that agrees with the daemon's.
LEMMA ReturnKeeps ==
  ASSUME IInv, NEW value \in {"OK", "error", "dropped"}, NEW cfg \in Configs \cup {<< >>},
         Return(value, cfg), client # "returned", UNCHANGED <<request, sent, daemonVars>>,
         taken' \in 0..Len(back),
         value = "OK" => answer = "OK" /\ cfg = issued,
         value = "error" => /\ at \in {"ended", "gone"}
                            /\ answer = "OK" => at = "gone" \/ Len(request.ports) >= B
  PROVE  IInv'
<1>1. /\ UNCHANGED <<request, sent, at, read, got, answer, issued, back>>
      /\ client' = "returned" /\ outcome' = value /\ config' = cfg
      /\ hungup' = hungup \cup {"client"}
  BY DEF Return, daemonVars
<1>2. outcome = "none"
  BY DEF IInv, ClientInStep
<1>3. TypeOK'
  BY <1>1 DEF IInv, TypeOK
<1>4. ClientInStep'
  BY <1>1 DEF IInv, ClientInStep, TypeOK
<1>5. AnswerUnderstood'
  BY <1>1 DEF IInv, AnswerUnderstood
<1>6. RefusedForCause'
  BY <1>1, <1>2 DEF IInv, RefusedForCause
<1> QED BY <1>1, <1>3, <1>4, <1>5, <1>6, ClientKeepsDaemonFacts DEF IInv, daemonVars

\* The bytes of the whole answer: the result, then for a guest the length of the
\* configuration and the configuration.
LEMMA ReplyLayout ==
  ASSUME IInv
  PROVE  /\ Head0 \in Seq(Bytes) /\ Len(Head0) = 1 /\ Head0[1] = 0
         /\ Head3 \in Seq(Bytes) /\ Len(Head3) = 3 /\ Head3[1] = 0
         /\ FromLe16(SubSeq(Head3, 2, 3)) = Len(issued)
         /\ Reply \in Seq(Bytes) /\ Len(Reply) >= 1 /\ Reply[1] = 0
         /\ issued \in Seq(Bytes)
         /\ request.mode = "guest" =>
               /\ Len(Reply) = 3 + Len(issued)
               /\ FromLe16(SubSeq(Reply, 2, 3)) = Len(issued)
               /\ SubSeq(Reply, 4, 3 + Len(issued)) = issued
<1> DEFINE n == Len(issued)
           w == ToLe16(n)
           h == Head0
           t == Head3
<1>1. B \in Nat /\ B >= 4
  BY StartProtocolAssumption
<1>2. issued \in Seq(Bytes) /\ n \in Nat /\ n < Words
  <2>1. Words > 0
    BY <1>1 DEF Words
  <2>2. CASE issued = << >>
    BY <2>1, <2>2
  <2>3. CASE issued \in Configs
    BY <2>3, StartProtocolAssumption
  <2> QED BY <2>2, <2>3 DEF IInv, TypeOK
<1>3. w \in Seq(Bytes) /\ Len(w) = 2 /\ FromLe16(w) = n
  <2>1. n \in 0..(Words - 1)
    BY <1>1, <1>2 DEF Words
  <2> HIDE DEF n
  <2> QED BY <2>1, LeRoundTrip16
<1>4. h \in Seq(Bytes) /\ Len(h) = 1 /\ h[1] = 0
  <2>1. h = <<0>> /\ 0 \in Bytes
    BY <1>1 DEF Head0, ResultByte, Bytes
  <2> QED BY <2>1
<1>5. t = h \o w /\ Reply = IF request.mode = "guest" THEN t \o issued ELSE h
  BY DEF Head3, Reply
<1> HIDE DEF n, w, h, t
<1>6. /\ t \in Seq(Bytes) /\ Len(t) = 3 /\ SubSeq(t, 2, 3) = w /\ t[1] = 0
  <2>1. /\ h \o w \in Seq(Bytes) /\ Len(h \o w) = Len(h) + Len(w)
        /\ SubSeq(h \o w, Len(h) + 1, Len(h) + Len(w)) = w
    BY <1>3, <1>4, HalvesOfConcat
  <2>2. 1 \in 1..(Len(h) + Len(w)) /\ 1 <= Len(h)
    BY <1>3, <1>4
  <2>3. (h \o w)[1] = IF 1 <= Len(h) THEN h[1] ELSE w[1 - Len(h)]
    BY <1>3, <1>4, <2>2, ByteOfConcat
  <2>4. Len(h) + Len(w) = 3 /\ Len(h) + 1 = 2
    BY <1>3, <1>4
  <2> QED BY <1>4, <1>5, <2>1, <2>2, <2>3, <2>4
<1>7. CASE request.mode # "guest"
  <2>1. Reply \in Seq(Bytes) /\ Len(Reply) >= 1 /\ Reply[1] = 0
    <3>1. Reply = h
      BY <1>5, <1>7
    <3>2. Reply \in Seq(Bytes) /\ Len(Reply) = 1 /\ Reply[1] = 0
      BY <1>4, <3>1, Zenon
    <3> QED BY <3>2
  <2>2. FromLe16(SubSeq(t, 2, 3)) = n
    BY <1>3, <1>6
  <2>3. h = Head0 /\ t = Head3 /\ n = Len(issued)
    BY DEF n, h, t
  <2> QED BY <1>2, <1>4, <1>6, <1>7, <2>1, <2>2, <2>3
<1>8. CASE request.mode = "guest"
  <2> DEFINE all == t \o issued
  <2>1. Reply = all
    BY <1>5, <1>8
  <2>2. /\ all \in Seq(Bytes) /\ Len(all) = Len(t) + Len(issued)
        /\ SubSeq(all, Len(t) + 1, Len(t) + Len(issued)) = issued
        /\ \A a \in Nat \ {0}, b \in 0..Len(t) : SubSeq(all, a, b) = SubSeq(t, a, b)
    BY <1>2, <1>6, FieldAppended
  <2>3. 1 \in 1..(Len(t) + Len(issued)) /\ 1 <= Len(t)
    BY <1>2, <1>6 DEF n
  <2>4. all[1] = IF 1 <= Len(t) THEN t[1] ELSE issued[1 - Len(t)]
    BY <1>2, <1>6, <2>3, ByteOfConcat
  <2> HIDE DEF all
  <2>5. 2 \in Nat \ {0} /\ 3 \in 0..Len(t)
    BY <1>6
  <2>6. SubSeq(all, 2, 3) = w
    BY <1>6, <2>2, <2>5
  <2>7. Len(all) = 3 + n /\ SubSeq(all, 4, 3 + n) = issued
    <3>1. Len(t) + 1 = 4 /\ Len(t) + Len(issued) = 3 + n
      BY <1>6 DEF n
    <3> QED BY <2>2, <3>1
  <2>8. Len(all) >= 1 /\ all[1] = 0
    BY <1>2, <1>6, <2>3, <2>4, <2>7
  <2>9. FromLe16(SubSeq(all, 2, 3)) = n /\ FromLe16(SubSeq(t, 2, 3)) = n
    BY <1>3, <1>6, <2>6
  <2>10. all \in Seq(Bytes)
    BY <2>2
  <2>11. /\ Reply \in Seq(Bytes) /\ Len(Reply) >= 1 /\ Reply[1] = 0 /\ Len(Reply) = 3 + n
         /\ FromLe16(SubSeq(Reply, 2, 3)) = n /\ SubSeq(Reply, 4, 3 + n) = issued
    BY <2>1, <2>7, <2>8, <2>9, <2>10
  <2>12. h = Head0 /\ t = Head3 /\ n = Len(issued)
    BY DEF n, h, t
  <2> QED BY <1>2, <1>4, <1>6, <2>9, <2>11, <2>12
<1> QED BY <1>7, <1>8

\* A conn.write_all that fails: the daemon did not go away with a session unless it
\* crashed or the number of ports was cut.
LEMMA WriteFailsKeeps ==
  ASSUME IInv, WriteFails
  PROVE  IInv'
<1>1. /\ client = "write" /\ "daemon" \in hungup /\ Return("error", << >>)
      /\ UNCHANGED <<request, sent, taken, daemonVars>>
  BY DEF WriteFails
<1>2. at \in {"ended", "gone"} /\ sent < Len(Message(request))
  BY <1>1 DEF IInv, ClientInStep
<1>3. ASSUME answer = "OK", at # "gone", ~(Len(request.ports) >= B) PROVE FALSE
  <2> DEFINE c == CodeLen(request)
             l == Len(request.image)
             n == Len(request.ports)
             m == Message(request)
  <2>1. LaidOut(request, c, l, n, m)
    BY Layout DEF IInv, TypeOK
  <2>2. Served
    BY <1>2, <1>3 DEF Served
  <2>3. read = 3 + c + l + 5 * Len(got.ports) /\ Len(got.ports) = n % B
    BY <2>2 DEF IInv, ReadFollowsLabel, GotFollowsLabel
  <2>4. n \in Nat /\ n % B = n
    BY <1>3, RequestFacts
  <2>5. read \in 0..sent /\ sent < Len(m) /\ sent \in 0..Len(m)
    BY <1>2 DEF IInv, TypeOK
  <2> HIDE DEF c, l, n, m
  <2>6. c \in Nat /\ l \in Nat /\ Len(m) = 3 + c + l + 5 * n
    BY <2>1 DEF LaidOut
  <2> QED BY <2>3, <2>4, <2>5, <2>6
<1>4. taken' \in 0..Len(back)
  BY <1>1 DEF IInv, TypeOK
<1>5. answer = "OK" => at = "gone" \/ Len(request.ports) >= B
  BY <1>3
<1>6. client # "returned" /\ << >> \in Configs \cup {<< >>}
  BY <1>1
<1> QED BY <1>1, <1>2, <1>4, <1>5, <1>6, ReturnKeeps

\* conn.read_u8: RESPONSE_OK means that there is a session.
LEMMA ReadResultKeeps ==
  ASSUME IInv, ReadResult
  PROVE  IInv'
<1>1. /\ client = "result" /\ taken = 0 /\ Arrived(1) /\ taken' = 1
      /\ UNCHANGED <<request, sent, daemonVars>>
  BY DEF ReadResult, IInv, ClientInStep
<1>2. back \in Seq(Bytes) /\ Len(back) \in Nat /\ 1 <= Len(back)
  BY <1>1 DEF Arrived, IInv, TypeOK
<1>3. taken' \in 0..Len(back)
  BY <1>1, <1>2
<1>4. Incoming(1) = <<back[1]>>
  <2>1. Incoming(1) = SubSeq(back, 1, 1)
    BY <1>1 DEF Incoming
  <2>2. SubSeq(back, 1, 1) = <<back[1]>>
    BY <1>2, FirstByte
  <2> QED BY <2>1, <2>2
<1>5. answer # "none" /\ answer \in DOMAIN ResultByte
  BY <1>2 DEF IInv, TypeOK, BackFollowsLabel
<1>6. answer = "OK" => back[1] = 0
  BY <1>2, ReplyLayout DEF IInv, BackFollowsLabel
<1>7. answer # "OK" => back[1] # 0 /\ at = "ended"
  BY <1>5 DEF IInv, BackFollowsLabel, ResultByte
<1>8. CASE Incoming(1) # <<0>> /\ Return("error", << >>)
  <2>1. answer # "OK" /\ at = "ended"
    BY <1>4, <1>6, <1>7, <1>8
  <2> QED BY <1>1, <1>3, <1>8, <2>1, ReturnKeeps
<1>9. CASE Incoming(1) = <<0>> /\ ~ExpectsConfig(request.mode) /\ Return("OK", << >>)
  <2>1. answer = "OK" /\ request.mode # "guest"
    BY <1>4, <1>7, <1>9 DEF ExpectsConfig
  <2>2. issued = << >>
    BY <2>1 DEF IInv, BackFollowsLabel
  <2> QED BY <1>1, <1>3, <1>9, <2>1, <2>2, ReturnKeeps
<1>10. CASE /\ Incoming(1) = <<0>> /\ ExpectsConfig(request.mode) /\ client' = "config"
            /\ UNCHANGED <<outcome, config, hungup>>
  <2>1. answer = "OK" /\ request.mode = "guest"
    BY <1>4, <1>7, <1>10 DEF ExpectsConfig
  <2>2. UNCHANGED <<request, sent, at, read, got, answer, issued, back, outcome, config, hungup>>
    BY <1>1, <1>10 DEF daemonVars
  <2>3. TypeOK'
    BY <1>3, <1>10, <2>2 DEF IInv, TypeOK
  <2>4. ClientInStep'
    BY <1>1, <1>10, <2>1, <2>2 DEF IInv, ClientInStep
  <2>5. RefusedForCause' /\ AnswerUnderstood'
    BY <2>2 DEF IInv, RefusedForCause, AnswerUnderstood
  <2> QED BY <1>1, <2>3, <2>4, <2>5, ClientKeepsDaemonFacts DEF IInv
<1> QED BY <1>8, <1>9, <1>10 DEF ReadResult

\* Once the whole answer is out, the client has all it awaits.
LEMMA ReplyArrives ==
  ASSUME IInv, back = Reply
  PROVE  /\ client = "result" => Arrived(1)
         /\ client = "config" => ConfigArrived
<1>1. client = "result" => Arrived(1)
  <2> SUFFICES ASSUME client = "result" PROVE Arrived(1)
    OBVIOUS
  <2>1. taken = 0 /\ Len(back) \in Nat /\ Len(back) >= 1
    BY ReplyLayout DEF IInv, ClientInStep, TypeOK
  <2> QED BY <2>1 DEF Arrived
<1>2. client = "config" => ConfigArrived
  <2> SUFFICES ASSUME client = "config" PROVE ConfigArrived
    OBVIOUS
  <2>1. taken = 1 /\ request.mode = "guest"
    BY DEF IInv, ClientInStep
  <2>2. issued \in Seq(Bytes) /\ Len(back) = 3 + Len(issued)
        /\ FromLe16(SubSeq(back, 2, 3)) = Len(issued)
    BY <2>1, ReplyLayout
  <2>3. Incoming(2) = SubSeq(back, 2, 3)
    BY <2>1 DEF Incoming
  <2>4. Len(issued) \in Nat
    BY <2>2
  <2>5. FromLe16(Incoming(2)) = Len(issued)
    BY <2>2, <2>3
  <2>6. taken + 2 <= Len(back) /\ taken + (2 + Len(issued)) <= Len(back)
    BY <2>1, <2>2, <2>4
  <2> QED BY <2>5, <2>6 DEF ConfigArrived, Arrived
<1> QED BY <1>1, <1>2

\* conn.read_u16_le and conn.read_exact: what is returned is the whole configuration.
LEMMA ReadConfigKeeps ==
  ASSUME IInv, ReadConfig
  PROVE  IInv'
<1> DEFINE len == FromLe16(Incoming(2))
           n   == Len(issued)
<1>1. /\ client = "config" /\ taken = 1 /\ answer = "OK" /\ request.mode = "guest"
      /\ Arrived(2) /\ Arrived(2 + len) /\ taken' = taken + 2 + len
      /\ Return("OK", SubSeq(back, taken + 3, taken + 2 + len))
      /\ UNCHANGED <<request, sent, daemonVars>>
  BY DEF ReadConfig, ConfigArrived, IInv, ClientInStep
<1>2. back \in Seq(Bytes) /\ Len(back) \in Nat
  BY DEF IInv, TypeOK
<1>3. issued \in Seq(Bytes) /\ n \in Nat
  BY ReplyLayout
<1>4. 3 <= Len(back) /\ Incoming(2) = SubSeq(back, 2, 3)
  BY <1>1, <1>2 DEF Arrived, Incoming
<1>5. len = n /\ (back = Head3 \/ back = Reply)
  <2>1. back = Head3 \/ back = Reply
    <3>1. back = << >> \/ back = Head0 \/ back = Reply \/ back = Head3
      BY <1>1 DEF IInv, BackFollowsLabel
    <3>2. Len(Head0) = 1
      BY ReplyLayout
    <3> QED BY <1>4, <3>1, <3>2
  <2>2. FromLe16(SubSeq(back, 2, 3)) = n
    BY <1>1, <2>1, ReplyLayout
  <2> QED BY <1>4, <2>1, <2>2
<1> HIDE DEF len
<1>6. 3 + n <= Len(back)
  BY <1>1, <1>2, <1>3, <1>5 DEF Arrived
<1>7. SubSeq(back, 4, 3 + n) = issued
  <2>1. CASE back = Reply
    BY <1>1, <2>1, ReplyLayout
  <2>2. CASE back = Head3
    <3>1. Len(back) = 3
      BY <2>2, ReplyLayout
    <3>2. n = 0
      BY <1>3, <1>6, <3>1
    <3>3. issued = << >>
      BY <1>3, <3>2
    <3>4. SubSeq(back, 4, 3 + n) = << >>
      BY <1>2, <3>2
    <3> QED BY <3>3, <3>4
  <2> QED BY <1>5, <2>1, <2>2
<1>8. Return("OK", issued)
  <2>1. taken + 3 = 4 /\ taken + 2 + len = 3 + n
    BY <1>1, <1>3, <1>5
  <2> QED BY <1>1, <1>7, <2>1
<1>9. taken' \in 0..Len(back)
  BY <1>1, <1>2, <1>3, <1>5, <1>6
<1>10. issued \in Configs \cup {<< >>} /\ client # "returned"
  BY <1>1 DEF IInv, TypeOK
<1> QED BY <1>1, <1>8, <1>9, <1>10, ReturnKeeps

\* The stream ends while the client awaits something: the daemon crashed, or refused.
LEMMA ReadFailsKeeps ==
  ASSUME IInv, ReadFails
  PROVE  IInv'
<1>1. /\ "daemon" \in hungup
      /\ (client = "result" /\ ~Arrived(1)) \/ (client = "config" /\ ~ConfigArrived)
      /\ Return("error", << >>) /\ UNCHANGED <<request, sent, taken, daemonVars>>
  BY DEF ReadFails
<1>2. at \in {"ended", "gone"}
  BY <1>1 DEF IInv, ClientInStep
<1>3. answer = "OK" => at = "gone"
  <2> SUFFICES ASSUME answer = "OK", at = "ended" PROVE FALSE
    BY <1>2
  <2>1. back = Reply
    BY DEF IInv, BackFollowsLabel
  <2> QED BY <1>1, <2>1, ReplyArrives
<1>4. taken' \in 0..Len(back)
  BY <1>1 DEF IInv, TypeOK
<1>5. client # "returned" /\ << >> \in Configs \cup {<< >>}
  BY <1>1
<1> QED BY <1>1, <1>2, <1>3, <1>4, <1>5, ReturnKeeps

\* start_container is dropped.
LEMMA AbortKeeps ==
  ASSUME IInv, Abort
  PROVE  IInv'
<1>1. /\ client # "returned" /\ Return("dropped", << >>)
      /\ UNCHANGED <<request, sent, taken, daemonVars>>
  BY DEF Abort
<1>2. taken' \in 0..Len(back)
  BY <1>1 DEF IInv, TypeOK
<1> QED BY <1>1, <1>2, ReturnKeeps

\* The handler takes a field and goes on.
LEMMA AcceptKeeps ==
  ASSUME IInv, at \in Reading, at' \in Reading \cup {"decoded"},
         UNCHANGED <<request, clientVars, issued, answer, back, hungup>>,
         read' \in 0..sent,
         got' \in Fields,
         ReadFollowsLabel', GotFollowsLabel'
  PROVE  IInv'
<1>1. UNCHANGED <<request, client, sent, outcome, config, taken, issued, answer, back, hungup>>
  BY DEF clientVars
<1>2. answer = "none" /\ back = << >>
  BY DEF IInv, BackFollowsLabel
<1>3. TypeOK'
  BY <1>1 DEF IInv, TypeOK
<1>4. BackFollowsLabel'
  BY <1>1, <1>2 DEF BackFollowsLabel, Reading
<1>5. ClientInStep'
  <2>1. at \notin {"ended", "gone"} /\ at' \notin {"ended", "gone"}
    BY DEF Reading
  <2> QED BY <1>1, <2>1 DEF IInv, ClientInStep
<1>6. RefusedForCause' /\ AnswerUnderstood'
  BY <1>1, <1>2 DEF IInv, RefusedForCause, AnswerUnderstood
<1> QED BY <1>3, <1>4, <1>5, <1>6 DEF IInv

\* The handler refuses, for a cause.
LEMMA RefuseKeeps ==
  ASSUME IInv, at \in Reading \cup {"decoded"},
         NEW result \in {"MALFORMED_REQUEST", "INVALID_PORT", "BUSY"}, Refuse(result),
         UNCHANGED <<request, clientVars, got, issued>>, read' \in 0..sent,
         result = "MALFORMED_REQUEST" => outcome = "dropped",
         result = "INVALID_PORT" => outcome = "dropped" \/ Len(request.ports) >= Limit
  PROVE  IInv'
<1>1. /\ UNCHANGED <<request, client, sent, outcome, config, taken, issued, got>>
      /\ at' = "ended" /\ answer' = result /\ back' = <<ResultByte[result]>>
      /\ hungup' = hungup \cup {"daemon"}
  BY DEF clientVars, Refuse
<1>2. answer = "none" /\ back = << >>
  BY DEF IInv, BackFollowsLabel
<1>3. back' \in Seq(Bytes) /\ Len(back') = 1
  <2>1. ResultByte[result] \in Bytes
    BY StartProtocolAssumption DEF ResultByte, Bytes
  <2> QED BY <1>1, <2>1
<1>4. taken = 0 /\ taken' = 0
  BY <1>1, <1>2 DEF IInv, TypeOK
<1>5. TypeOK'
  <2>1. answer' \in DOMAIN ResultByte \cup {"none"}
    BY <1>1 DEF ResultByte
  <2>2. taken' \in 0..Len(back')
    BY <1>3, <1>4
  <2> QED BY <1>1, <1>3, <2>1, <2>2 DEF IInv, TypeOK
<1>6. ~Served'
  BY <1>1 DEF Served, IsDecoded
<1>7. ReadFollowsLabel' /\ GotFollowsLabel'
  BY <1>1, <1>6 DEF ReadFollowsLabel, GotFollowsLabel, Reading
<1>8. BackFollowsLabel'
  BY <1>1 DEF BackFollowsLabel, Reading
<1>9. ClientInStep'
  BY <1>1, <1>2 DEF IInv, ClientInStep, TypeOK, Reading
<1>10. RefusedForCause' /\ AnswerUnderstood'
  BY <1>1, <1>2 DEF IInv, RefusedForCause, AnswerUnderstood
<1> QED BY <1>5, <1>7, <1>8, <1>9, <1>10 DEF IInv

\* A client that is gone while the daemon still reads was dropped.
LEMMA GoneMeansDropped ==
  ASSUME IInv, at \in Reading, "client" \in hungup
  PROVE  outcome = "dropped"
<1>1. answer = "none" /\ at \notin {"ended", "gone"}
  BY DEF IInv, BackFollowsLabel, Reading
<1>2. outcome # "none" /\ outcome # "error"
  BY <1>1 DEF IInv, ClientInStep
<1>3. outcome # "OK"
  BY <1>1 DEF IInv, AnswerUnderstood
<1> QED BY <1>2, <1>3 DEF IInv, TypeOK

\* The mode.
LEMMA ReadModeKeeps ==
  ASSUME IInv, ReadMode
  PROVE  IInv'
<1> DEFINE id == Bite(1)[1]
<1>1. at = "mode" /\ read = 0 /\ got.ports = << >>
  BY DEF ReadMode, Decode, IInv, ReadFollowsLabel, GotFollowsLabel, Reading
<1>2. id = ModeId(request.mode) /\ request.mode \in {"guest", "demo"}
  BY <1>1, FieldAwaited, RequestFacts
<1>3. id \in {0, 1} /\ (id = 0 <=> request.mode = "guest") /\ id <= 1
  BY <1>2 DEF ModeId
<1>4. /\ read + 1 <= sent /\ read' = read + 1
      /\ got' = [got EXCEPT !.mode = IF id = 0 THEN "guest" ELSE "demo"]
      /\ at' = IF id = 0 THEN "code" ELSE "len"
      /\ UNCHANGED <<request, clientVars, issued, answer, back, hungup>>
  BY <1>3 DEF ReadMode, Decode, Need
<1> HIDE DEF id
<1>5. /\ got' \in Fields
      /\ got'.mode = request.mode /\ got'.ports = << >>
  BY <1>1, <1>2, <1>3, <1>4 DEF IInv, TypeOK, Fields
<1>6. read' = 1 /\ read' \in 0..sent
  BY <1>1, <1>4 DEF IInv, TypeOK
<1>7. \/ at' = "code" /\ request.mode = "guest"
      \/ at' = "len" /\ request.mode = "demo" /\ CodeLen(request) = 0
  BY <1>2, <1>3, <1>4 DEF CodeLen
<1>8. at \in Reading /\ at' \in Reading /\ ~Served'
  BY <1>1, <1>7 DEF Reading, Served, IsDecoded
<1>9. request' = request
  BY <1>4
<1>10. ReadFollowsLabel'
  BY <1>6, <1>7, <1>8, <1>9 DEF ReadFollowsLabel
<1>11. GotFollowsLabel'
  BY <1>5, <1>7, <1>8, <1>9 DEF GotFollowsLabel
<1> QED BY <1>4, <1>5, <1>6, <1>8, <1>10, <1>11, AcceptKeeps

\* The guest code.
LEMMA ReadCodeKeeps ==
  ASSUME IInv, ReadCode
  PROVE  IInv'
<1> DEFINE code == FromLe32(Bite(Need("code")))
<1>1. /\ at = "code" /\ read = 1 /\ got.ports = << >> /\ got.mode = request.mode
      /\ request.mode = "guest"
  BY DEF ReadCode, Decode, IInv, ReadFollowsLabel, GotFollowsLabel, Reading
<1>2. code = request.code /\ code \in Nat /\ CodeLen(request) = 4
  <2>1. Need("code") = 4
    BY DEF Need
  <2>2. request.code \in 0..(Words * Words - 1) /\ CodeLen(request) = 4
    BY <1>1, RequestFacts
  <2>3. Bite(4) = ToLe32(request.code)
    BY <1>1, FieldAwaited
  <2>4. FromLe32(ToLe32(request.code)) = request.code
    BY <2>2, LeRoundTrip32
  <2>5. request.code \in Nat
    BY <2>2
  <2> QED BY <2>1, <2>2, <2>3, <2>4, <2>5
<1>3. /\ read + 4 <= sent /\ read' = read + 4
      /\ got' = [got EXCEPT !.code = code]
      /\ at' = "len"
      /\ UNCHANGED <<request, clientVars, issued, answer, back, hungup>>
  BY DEF ReadCode, Decode, Need
<1> HIDE DEF code
<1>4. /\ got' \in Fields
      /\ got'.mode = request.mode /\ got'.ports = << >> /\ got'.code = request.code
  BY <1>1, <1>2, <1>3 DEF IInv, TypeOK, Fields
<1>5. read' = 1 + CodeLen(request) /\ read' \in 0..sent
  BY <1>1, <1>2, <1>3 DEF IInv, TypeOK
<1>6. at \in Reading /\ at' \in Reading /\ ~Served'
  BY <1>1, <1>3 DEF Reading, Served, IsDecoded
<1>7. ReadFollowsLabel'
  BY <1>3, <1>5, <1>6 DEF ReadFollowsLabel
<1>8. GotFollowsLabel'
  BY <1>3, <1>4, <1>6 DEF GotFollowsLabel
<1> QED BY <1>3, <1>4, <1>5, <1>6, <1>7, <1>8, AcceptKeeps

\* The length of the name.
LEMMA ReadLenKeeps ==
  ASSUME IInv, ReadLen
  PROVE  IInv'
<1> DEFINE len == Bite(1)[1]
<1>1. /\ at = "len" /\ read = 1 + CodeLen(request) /\ got.ports = << >> /\ got.mode = request.mode
      /\ got.mode = "guest" => got.code = request.code
  BY DEF ReadLen, Decode, IInv, ReadFollowsLabel, GotFollowsLabel, Reading
<1>2. len = Len(request.image) /\ len \in Nat
  BY <1>1, FieldAwaited, RequestFacts
<1>3. /\ read + 1 <= sent /\ read' = read + 1
      /\ got' = [got EXCEPT !.len = len]
      /\ at' = "name"
      /\ UNCHANGED <<request, clientVars, issued, answer, back, hungup>>
  BY DEF ReadLen, Decode, Need
<1> HIDE DEF len
<1>4. /\ got' \in Fields
      /\ got'.mode = got.mode /\ got'.ports = << >> /\ got'.code = got.code
      /\ got'.len = Len(request.image)
  BY <1>1, <1>2, <1>3 DEF IInv, TypeOK, Fields
<1>5. read' = 2 + CodeLen(request) /\ read' \in 0..sent
  <2>1. CodeLen(request) \in Nat
    BY DEF CodeLen
  <2> QED BY <1>1, <1>3, <2>1 DEF IInv, TypeOK
<1>6. at \in Reading /\ at' \in Reading /\ ~Served'
  BY <1>1, <1>3 DEF Reading, Served, IsDecoded
<1>7. ReadFollowsLabel'
  BY <1>3, <1>5, <1>6 DEF ReadFollowsLabel
<1>8. GotFollowsLabel'
  BY <1>1, <1>3, <1>4, <1>6 DEF GotFollowsLabel
<1> QED BY <1>3, <1>4, <1>5, <1>6, <1>7, <1>8, AcceptKeeps

\* The name, which is the valid UTF-8 that was sent.
LEMMA ReadNameKeeps ==
  ASSUME IInv, ReadName
  PROVE  IInv'
<1> DEFINE name == Bite(got.len)
<1>1. /\ at = "name" /\ read = 2 + CodeLen(request) /\ got.ports = << >> /\ got.mode = request.mode
      /\ got.mode = "guest" => got.code = request.code
      /\ got.len = Len(request.image)
  BY DEF ReadName, Decode, IInv, ReadFollowsLabel, GotFollowsLabel, Reading
<1>2. name = request.image /\ IsUtf8(name) /\ name \in Seq(Bytes) /\ Len(request.image) \in Nat
  <2>1. name = request.image
    BY <1>1, FieldAwaited
  <2> QED BY <2>1, RequestFacts
<1>3. /\ read + got.len <= sent /\ read' = read + got.len
      /\ got' = [got EXCEPT !.image = name]
      /\ at' = "count"
      /\ UNCHANGED <<request, clientVars, issued, answer, back, hungup>>
  BY <1>2 DEF ReadName, Decode, Need
<1> HIDE DEF name
<1>4. /\ got' \in Fields
      /\ got'.mode = got.mode /\ got'.ports = << >> /\ got'.code = got.code
      /\ got'.image = request.image
  BY <1>1, <1>2, <1>3 DEF IInv, TypeOK, Fields
<1>5. read' = 2 + CodeLen(request) + Len(request.image) /\ read' \in 0..sent
  <2>1. CodeLen(request) \in Nat
    BY DEF CodeLen
  <2> QED BY <1>1, <1>2, <1>3, <2>1 DEF IInv, TypeOK
<1>6. at \in Reading /\ at' \in Reading /\ ~Served'
  BY <1>1, <1>3 DEF Reading, Served, IsDecoded
<1>7. ReadFollowsLabel'
  BY <1>3, <1>5, <1>6 DEF ReadFollowsLabel
<1>8. GotFollowsLabel'
  BY <1>1, <1>3, <1>4, <1>6 DEF GotFollowsLabel
<1> QED BY <1>3, <1>4, <1>5, <1>6, <1>7, <1>8, AcceptKeeps

\* The number of ports, as far as a byte holds it: refused if it is too large.
LEMMA ReadCountKeeps ==
  ASSUME IInv, ReadCount
  PROVE  IInv'
<1> DEFINE count == Bite(1)[1]
           n     == Len(request.ports)
<1>1. /\ at = "count" /\ read = 2 + CodeLen(request) + Len(request.image)
      /\ got.ports = << >> /\ got.mode = request.mode
      /\ got.mode = "guest" => got.code = request.code
      /\ got.image = request.image
  BY DEF ReadCount, Decode, IInv, ReadFollowsLabel, GotFollowsLabel, Reading
<1>2. count = n % B /\ count \in Nat /\ count <= n /\ n \in Nat
  <2>1. Bite(1) = <<n % B>>
    BY <1>1, FieldAwaited
  <2>2. n % B \in Nat /\ n % B <= n /\ n \in Nat
    BY RequestFacts
  <2> QED BY <2>1, <2>2
<1>3. read + 1 <= sent /\ read' = read + 1 /\ UNCHANGED <<request, clientVars, issued>>
  BY DEF ReadCount, Decode, Need
<1>4. CodeLen(request) \in Nat /\ Len(request.image) \in Nat
  BY RequestFacts DEF CodeLen
<1>5. read' = 3 + CodeLen(request) + Len(request.image) /\ read' \in 0..sent
  BY <1>1, <1>3, <1>4 DEF IInv, TypeOK
<1>6. CASE TooMany(count)
  <2>1. Refuse("INVALID_PORT") /\ UNCHANGED got
    BY <1>6 DEF ReadCount, Decode
  <2>2. n >= Limit
    BY <1>2, <1>6, RequestFacts DEF TooMany
  <2>3. at \in Reading
    BY <1>1 DEF Reading
  <2> QED BY <1>3, <1>5, <2>1, <2>2, <2>3, RefuseKeeps
<1>7. CASE ~TooMany(count)
  <2>1. /\ got' = [got EXCEPT !.count = count]
        /\ at' = IF count = 0 THEN "decoded" ELSE "port"
        /\ UNCHANGED <<answer, back, hungup>>
    BY <1>7 DEF ReadCount, Decode
  <2> HIDE DEF count
  <2>2. /\ got' \in Fields /\ got'.mode = got.mode /\ got'.ports = << >> /\ got'.code = got.code
        /\ got'.image = got.image /\ got'.count = count
    BY <1>1, <1>2, <2>1 DEF IInv, TypeOK, Fields
  <2>3. at \in Reading /\ at' \in {"port", "decoded"} /\ at' \in Reading \cup {"decoded"}
    BY <1>1, <2>1 DEF Reading
  <2>4. Len(got'.ports) = 0
    BY <2>2
  <2>5. ReadFollowsLabel'
    <3>1. read' = 3 + CodeLen(request) + Len(request.image) + 5 * Len(got'.ports)
      BY <1>4, <1>5, <2>4
    <3> QED BY <1>3, <2>3, <3>1 DEF ReadFollowsLabel
  <2>6. IsPrefix(got'.ports, request.ports)
    <3>1. request.ports \in Seq(Mappings)
      BY RequestFacts
    <3>2. IsPrefix(<< >>, request.ports)
      BY <3>1 DEF IsPrefix
    <3> QED BY <2>2, <3>2
  <2>7. /\ Len(got'.ports) <= n % B
        /\ at' = "port" => got'.count = n % B /\ Len(got'.ports) < got'.count
        /\ at' = "decoded" => Len(got'.ports) = n % B
    BY <1>2, <2>1, <2>2, <2>4
  <2>8. Served' => at' = "decoded"
    BY <2>3 DEF Served, IsDecoded
  <2>9. GotFollowsLabel'
    BY <1>1, <1>3, <2>2, <2>3, <2>6, <2>7, <2>8 DEF GotFollowsLabel, Reading
  <2> QED BY <1>3, <1>5, <2>1, <2>2, <2>3, <2>5, <2>9, AcceptKeeps
<1> QED BY <1>6, <1>7

\* A prefix that takes one more element.
LEMMA PrefixGrows ==
  ASSUME NEW s \in Seq(Mappings), NEW t \in Seq(Mappings), IsPrefix(s, t), Len(s) + 1 \in 1..Len(t)
  PROVE  IsPrefix(Append(s, t[Len(s) + 1]), t)
<1> DEFINE n == Len(s)
           x == t[n + 1]
           u == Append(s, x)
<1>1. n \in Nat /\ n + 1 <= Len(t) /\ x \in Mappings
  OBVIOUS
<1>2. u \in Seq(Mappings) /\ Len(u) = n + 1
  BY <1>1
<1>3. \A i \in 1..n : s[i] = t[i]
  <2> SUFFICES ASSUME NEW i \in 1..n PROVE s[i] = t[i]
    OBVIOUS
  <2>1. SubSeq(s, 1, n) = SubSeq(t, 1, n)
    BY DEF IsPrefix
  <2>2. SubSeq(s, 1, n)[i] = s[i] /\ SubSeq(t, 1, n)[i] = t[i]
    BY <1>1
  <2> QED BY <2>1, <2>2
<1>4. \A i \in 1..(n + 1) : u[i] = t[i]
  BY <1>1, <1>3
<1> HIDE DEF u, n
<1>5. SubSeq(u, 1, n + 1) = SubSeq(t, 1, n + 1)
  BY <1>1, <1>2, <1>4
<1> QED BY <1>1, <1>2, <1>5 DEF IsPrefix, u, n

\* One mapping: the next of those asked for.
LEMMA ReadPortKeeps ==
  ASSUME IInv, ReadPort
  PROVE  IInv'
<1> DEFINE bytes == Bite(5)
           port  == <<FromLe16(SubSeq(bytes, 1, 2)), FromLe16(SubSeq(bytes, 3, 4)),
                      IF bytes[5] = 0 THEN "tcp" ELSE "udp">>
           g == Len(got.ports)
           n == Len(request.ports)
           p == request.ports[g + 1]
<1>1. /\ at = "port" /\ read = 3 + CodeLen(request) + Len(request.image) + 5 * g
      /\ got.mode = request.mode
      /\ got.mode = "guest" => got.code = request.code
      /\ got.image = request.image
      /\ got.count = n % B /\ g < got.count /\ IsPrefix(got.ports, request.ports)
  BY DEF ReadPort, Decode, IInv, ReadFollowsLabel, GotFollowsLabel, Reading
<1>2. g + 1 \in 1..n /\ bytes = PortBytes(p)
  BY <1>1, FieldAwaited
<1>3. got.ports \in Seq(Mappings) /\ g \in Nat /\ request.ports \in Seq(Mappings) /\ n % B \in Nat
  BY RequestFacts DEF IInv, TypeOK, Fields
<1>4. p \in Mappings
  BY <1>2, <1>3
<1>5. bytes[5] <= 1 /\ port = p
  <2>1. /\ FromLe16(SubSeq(bytes, 1, 2)) = p[1] /\ FromLe16(SubSeq(bytes, 3, 4)) = p[2]
        /\ bytes[5] = TypeId(p[3])
    BY <1>2, <1>4, PortBytesDecode
  <2> HIDE DEF bytes, p
  <2>2. p[3] \in PortTypes /\ p = <<p[1], p[2], p[3]>>
    BY <1>4 DEF Mappings
  <2>3. (IF bytes[5] = 0 THEN "tcp" ELSE "udp") = p[3] /\ bytes[5] <= 1
    BY <2>1, <2>2 DEF TypeId, PortTypes
  <2>4. port = <<p[1], p[2], p[3]>>
    BY <2>1, <2>3
  <2> QED BY <2>2, <2>3, <2>4
<1>6. /\ read + 5 <= sent /\ read' = read + 5
      /\ got' = [got EXCEPT !.ports = Append(@, port)]
      /\ at' = IF g + 1 = got.count THEN "decoded" ELSE "port"
      /\ UNCHANGED <<request, clientVars, issued, answer, back, hungup>>
  BY <1>5 DEF ReadPort, Decode, Need
<1>7. got' = [got EXCEPT !.ports = Append(got.ports, p)]
  BY <1>5, <1>6
<1> HIDE DEF bytes, port
<1>8. Append(got.ports, p) \in Seq(Mappings) /\ Len(Append(got.ports, p)) = g + 1
  BY <1>3, <1>4
<1>9. /\ got' \in Fields /\ got'.mode = got.mode /\ got'.code = got.code
      /\ got'.image = got.image /\ got'.count = got.count
      /\ got'.ports = Append(got.ports, p)
  BY <1>7, <1>8 DEF IInv, TypeOK, Fields
<1>10. Len(got'.ports) = g + 1 /\ IsPrefix(got'.ports, request.ports)
  BY <1>1, <1>2, <1>3, <1>8, <1>9, PrefixGrows
<1>11. CodeLen(request) \in Nat /\ Len(request.image) \in Nat
  BY RequestFacts DEF CodeLen
<1>12. /\ read' = 3 + CodeLen(request) + Len(request.image) + 5 * (g + 1)
       /\ read' \in 0..sent
  <2>1. read \in Nat /\ sent \in Nat
    BY DEF IInv, TypeOK
  <2> DEFINE c == CodeLen(request)
             l == Len(request.image)
  <2>2. c \in Nat /\ l \in Nat /\ read = 3 + c + l + 5 * g
    BY <1>1, <1>11
  <2> HIDE DEF c, l, g
  <2>3. read' = 3 + c + l + 5 * (g + 1) /\ read' \in 0..sent
    BY <1>3, <1>6, <2>1, <2>2
  <2> QED BY <2>3 DEF c, l
<1>13. at \in Reading /\ at' \in {"port", "decoded"} /\ at' \in Reading \cup {"decoded"}
  BY <1>1, <1>6 DEF Reading
<1>14. ReadFollowsLabel'
  BY <1>6, <1>10, <1>12, <1>13 DEF ReadFollowsLabel
<1>15. /\ Len(got'.ports) <= n % B
       /\ at' = "port" => got'.count = n % B /\ Len(got'.ports) < got'.count
       /\ at' = "decoded" => Len(got'.ports) = n % B
  BY <1>1, <1>3, <1>6, <1>9, <1>10
<1>16. Served' => at' = "decoded"
  BY <1>13 DEF Served, IsDecoded
<1>17. GotFollowsLabel'
  BY <1>1, <1>6, <1>9, <1>10, <1>13, <1>15, <1>16 DEF GotFollowsLabel, Reading
<1> QED BY <1>6, <1>9, <1>12, <1>13, <1>14, <1>17, AcceptKeeps

\* The stream ends within a field.
LEMMA ReadEofKeeps ==
  ASSUME IInv, ReadEof
  PROVE  IInv'
<1> DEFINE result == IF at \in {"count", "port"} THEN "INVALID_PORT" ELSE "MALFORMED_REQUEST"
<1>1. /\ at \in Reading /\ "client" \in hungup /\ Refuse(result)
      /\ UNCHANGED <<request, clientVars, read, got, issued>>
  BY DEF ReadEof
<1>2. outcome = "dropped"
  BY <1>1, GoneMeansDropped
<1>3. read' \in 0..sent
  BY <1>1 DEF IInv, TypeOK
<1>4. result \in {"MALFORMED_REQUEST", "INVALID_PORT", "BUSY"}
  OBVIOUS
<1> HIDE DEF result
<1> QED BY <1>1, <1>2, <1>3, <1>4, RefuseKeeps

\* No address is free.
LEMMA RefuseBusyKeeps ==
  ASSUME IInv, RefuseBusy
  PROVE  IInv'
<1>1. /\ at = "decoded" /\ Refuse("BUSY")
      /\ UNCHANGED <<request, clientVars, read, got, issued>>
  BY DEF RefuseBusy
<1>2. read' \in 0..sent
  BY <1>1 DEF IInv, TypeOK
<1> QED BY <1>1, <1>2, RefuseKeeps

\* The daemon goes on after the request was decoded: what it decoded stays.
LEMMA ServedKeeps ==
  ASSUME IInv, IsDecoded, Served', at' \notin Reading, UNCHANGED <<request, read, got>>
  PROVE  ReadFollowsLabel' /\ GotFollowsLabel'
<1>1. Served
  BY DEF Served
<1>2. at' # "mode" /\ at' # "code" /\ at' # "len" /\ at' # "name" /\ at' # "count" /\ at' # "port"
  BY DEF Reading
<1>3. ReadFollowsLabel'
  BY <1>1, <1>2 DEF IInv, ReadFollowsLabel
<1>4. GotFollowsLabel'
  BY <1>1, <1>2 DEF IInv, GotFollowsLabel
<1> QED BY <1>3, <1>4

\* The session was started.
LEMMA StartedKeeps ==
  ASSUME IInv, NEW cfg \in Configs, Started(cfg)
  PROVE  IInv'
<1>1. /\ at = "decoded" /\ answer' = "OK" /\ at' = "send_ok"
      /\ issued' = IF got.mode = "guest" THEN cfg ELSE << >>
      /\ UNCHANGED <<request, client, sent, outcome, config, taken, read, got, back, hungup>>
  BY DEF Started, clientVars
<1>2. answer = "none" /\ back = << >>
  BY <1>1 DEF IInv, BackFollowsLabel
<1>3. IsDecoded /\ Served' /\ at' \notin Reading /\ Served
  BY <1>1 DEF IsDecoded, Served, Reading
<1>4. got.mode = request.mode
  BY <1>3 DEF IInv, GotFollowsLabel
<1>5. TypeOK'
  <2>1. issued' \in Configs \cup {<< >>} /\ answer' \in DOMAIN ResultByte \cup {"none"}
    BY <1>1 DEF ResultByte
  <2> QED BY <1>1, <2>1 DEF IInv, TypeOK
<1>6. BackFollowsLabel'
  BY <1>1, <1>2, <1>3, <1>4 DEF BackFollowsLabel
<1>7. ClientInStep'
  BY <1>1, <1>2 DEF IInv, ClientInStep
<1>8. RefusedForCause'
  BY <1>1 DEF RefusedForCause
<1>9. AnswerUnderstood'
  <2>1. outcome # "OK" /\ outcome # "error"
    BY <1>1, <1>2 DEF IInv, AnswerUnderstood, ClientInStep
  <2> QED BY <1>1, <2>1 DEF AnswerUnderstood
<1> QED BY <1>1, <1>3, <1>5, <1>6, <1>7, <1>8, <1>9, ServedKeeps DEF IInv

\* The response task writes one more part of the answer.
LEMMA SendKeeps ==
  ASSUME IInv, at \in {"send_ok", "send_len", "send_config"},
         at' \in {"send_len", "send_config", "shutdown"}, NEW bytes \in Seq(Bytes),
         back' = back \o bytes,
         UNCHANGED <<request, clientVars, read, got, answer, issued, hungup>>,
         at' = "send_len" => request.mode = "guest" /\ back' = Head0,
         at' = "send_config" => request.mode = "guest" /\ back' = Head3,
         at' = "shutdown" => back' = Reply
  PROVE  IInv'
<1>1. UNCHANGED <<request, client, sent, outcome, config, taken, read, got, answer, issued, hungup>>
  BY DEF clientVars
<1>2. IsDecoded /\ Served' /\ at' \notin Reading
  BY DEF IsDecoded, Served, Reading
<1>3. answer = "OK" /\ at \notin {"ended", "gone"}
  BY DEF IInv, BackFollowsLabel
<1>4. back \in Seq(Bytes) /\ back' \in Seq(Bytes) /\ taken' \in 0..Len(back')
  <2>1. back \in Seq(Bytes) /\ taken \in 0..Len(back)
    BY DEF IInv, TypeOK
  <2>2. back' \in Seq(Bytes) /\ Len(back') = Len(back) + Len(bytes)
    BY <2>1, HalvesOfConcat
  <2>3. Len(back) \in Nat /\ Len(bytes) \in Nat
    BY <2>1
  <2> QED BY <1>1, <2>1, <2>2, <2>3
<1>5. TypeOK'
  BY <1>1, <1>4 DEF IInv, TypeOK
<1>6. BackFollowsLabel'
  <2>1. Head0' = Head0 /\ Head3' = Head3 /\ Reply' = Reply
    BY <1>1 DEF Head0, Head3, Reply
  <2>2. issued = << >> \/ request.mode = "guest"
    BY <1>3 DEF IInv, BackFollowsLabel
  <2> QED BY <1>1, <1>2, <1>3, <2>1, <2>2 DEF BackFollowsLabel
<1>7. ClientInStep'
  <2>1. outcome # "error"
    BY <1>3 DEF IInv, ClientInStep
  <2> QED BY <1>1, <1>3, <2>1 DEF IInv, ClientInStep
<1>8. RefusedForCause'
  BY <1>1 DEF IInv, RefusedForCause
<1>9. AnswerUnderstood'
  <2>1. outcome # "error"
    BY <1>3 DEF IInv, ClientInStep
  <2> QED BY <1>1, <2>1 DEF IInv, AnswerUnderstood
<1> QED BY <1>1, <1>2, <1>5, <1>6, <1>7, <1>8, <1>9, ServedKeeps DEF IInv

\* The result byte.
LEMMA SendOkKeeps ==
  ASSUME IInv, SendOk
  PROVE  IInv'
<1>1. /\ at = "send_ok" /\ back' = back \o Head0
      /\ at' = IF got.mode = "guest" THEN "send_len" ELSE "shutdown"
      /\ UNCHANGED <<request, clientVars, read, got, answer, issued, hungup>>
  BY DEF SendOk, Send, Head0
<1>2. Head0 \in Seq(Bytes)
  BY ReplyLayout
<1>3. back' = Head0
  <2>1. back = << >>
    BY <1>1 DEF IInv, BackFollowsLabel
  <2> HIDE DEF Head0
  <2> QED BY <1>1, <1>2, <2>1
<1>4. got.mode = request.mode
  BY <1>1 DEF IInv, GotFollowsLabel, Served, IsDecoded
<1>5. at' = "shutdown" => back' = Reply
  BY <1>1, <1>3, <1>4 DEF Reply
<1> QED BY <1>1, <1>2, <1>3, <1>4, <1>5, SendKeeps

\* The length of the configuration.
LEMMA SendLenKeeps ==
  ASSUME IInv, SendLen
  PROVE  IInv'
<1> DEFINE w == ToLe16(Len(issued))
<1>1. /\ at = "send_len" /\ back' = back \o w /\ at' = "send_config"
      /\ UNCHANGED <<request, clientVars, read, got, answer, issued, hungup>>
  BY DEF SendLen, Send
<1>2. back = Head0 /\ request.mode = "guest"
  BY <1>1 DEF IInv, BackFollowsLabel
<1>3. back' = Head3
  BY <1>1, <1>2 DEF Head3
<1>4. w \in Seq(Bytes)
  <2>1. Len(issued) \in 0..(Words - 1)
    <3>1. B \in Nat /\ B >= 4
      BY StartProtocolAssumption
    <3>2. Words \in Nat /\ Words > 0
      BY <3>1 DEF Words
    <3>3. CASE issued = << >>
      BY <3>2, <3>3
    <3>4. CASE issued \in Configs
      BY <3>2, <3>4, StartProtocolAssumption
    <3> QED BY <3>3, <3>4 DEF IInv, TypeOK
  <2> QED BY <2>1, LeRoundTrip16
<1> HIDE DEF w
<1> QED BY <1>1, <1>2, <1>3, <1>4, SendKeeps

\* The configuration itself.
LEMMA SendConfigKeeps ==
  ASSUME IInv, SendConfig
  PROVE  IInv'
<1>1. /\ at = "send_config" /\ back' = back \o issued /\ at' = "shutdown"
      /\ UNCHANGED <<request, clientVars, read, got, answer, issued, hungup>>
  BY DEF SendConfig, Send
<1>2. back = Head3 /\ request.mode = "guest"
  BY <1>1 DEF IInv, BackFollowsLabel
<1>3. back' = Reply
  BY <1>1, <1>2 DEF Reply
<1>4. issued \in Seq(Bytes)
  BY ReplyLayout
<1> QED BY <1>1, <1>3, <1>4, SendKeeps

\* The stream is shut down after the answer.
LEMMA ShutdownKeeps ==
  ASSUME IInv, Shutdown
  PROVE  IInv'
<1>1. /\ at = "shutdown" /\ at' = "ended" /\ hungup' = hungup \cup {"daemon"}
      /\ UNCHANGED <<request, client, sent, outcome, config, taken, read, got, answer, issued, back>>
  BY DEF Shutdown, clientVars
<1>2. answer = "OK" /\ back = Reply
  BY <1>1 DEF IInv, BackFollowsLabel
<1>3. IsDecoded /\ Served' /\ at' \notin Reading
  BY <1>1, <1>2 DEF IsDecoded, Served, Reading
<1>4. TypeOK'
  BY <1>1 DEF IInv, TypeOK
<1>5. BackFollowsLabel'
  <2>1. Reply' = Reply
    BY <1>1 DEF Head0, Head3, Reply
  <2>2. issued = << >> \/ request.mode = "guest"
    BY <1>2 DEF IInv, BackFollowsLabel
  <2> QED BY <1>1, <1>2, <1>3, <2>1, <2>2 DEF BackFollowsLabel
<1>6. ClientInStep'
  BY <1>1 DEF IInv, ClientInStep, TypeOK
<1>7. RefusedForCause' /\ AnswerUnderstood'
  <2>1. outcome # "error"
    BY <1>1 DEF IInv, ClientInStep
  <2> QED BY <1>1, <2>1 DEF IInv, RefusedForCause, AnswerUnderstood
<1> QED BY <1>1, <1>3, <1>4, <1>5, <1>6, <1>7, ServedKeeps DEF IInv

\* The daemon crashes.
LEMMA DaemonGoneKeeps ==
  ASSUME IInv, DaemonGone
  PROVE  IInv'
<1>1. /\ at \notin {"ended", "gone"} /\ at' = "gone" /\ hungup' = hungup \cup {"daemon"}
      /\ UNCHANGED <<request, client, sent, outcome, config, taken, read, got, answer, issued, back>>
  BY DEF DaemonGone, clientVars
<1>2. TypeOK'
  BY <1>1 DEF IInv, TypeOK
<1>3. ReadFollowsLabel' /\ GotFollowsLabel'
  BY <1>1 DEF ReadFollowsLabel, GotFollowsLabel, Served, IsDecoded, Reading
<1>4. BackFollowsLabel'
  <2>1. Head0' = Head0 /\ Head3' = Head3 /\ Reply' = Reply
    BY <1>1 DEF Head0, Head3, Reply
  <2>2. answer \in {"none", "OK"}
    BY <1>1 DEF IInv, BackFollowsLabel
  <2> QED BY <1>1, <2>1, <2>2 DEF IInv, BackFollowsLabel, Reading
<1>5. ClientInStep'
  BY <1>1 DEF IInv, ClientInStep, TypeOK
<1>6. RefusedForCause' /\ AnswerUnderstood'
  BY <1>1 DEF IInv, RefusedForCause, AnswerUnderstood
<1> QED BY <1>2, <1>3, <1>4, <1>5, <1>6 DEF IInv

\* Every step of either end keeps the inductive invariant.
LEMMA NextIInv == IInv /\ [Next]_vars => IInv'
<1> SUFFICES ASSUME IInv, [Next]_vars PROVE IInv'
  OBVIOUS
<1>1. CASE UNCHANGED vars
  <2>1. UNCHANGED <<request, client, sent, outcome, config, taken, hungup, daemonVars>>
    BY <1>1 DEF vars, clientVars
  <2>2. TypeOK'
    BY <2>1 DEF IInv, TypeOK, daemonVars
  <2>3. ClientInStep'
    BY <2>1 DEF IInv, ClientInStep, daemonVars
  <2>4. RefusedForCause' /\ AnswerUnderstood'
    BY <2>1 DEF IInv, RefusedForCause, AnswerUnderstood, daemonVars
  <2> QED BY <2>1, <2>2, <2>3, <2>4, ClientKeepsDaemonFacts DEF IInv
<1>2. CASE ClientStep
  BY <1>2, WriteKeeps, WriteFailsKeeps, ReadResultKeeps, ReadConfigKeeps, ReadFailsKeeps
     DEF ClientStep
<1>3. CASE DaemonStep
  BY <1>3, ReadModeKeeps, ReadCodeKeeps, ReadLenKeeps, ReadNameKeeps, ReadCountKeeps, ReadPortKeeps,
     ReadEofKeeps, RefuseBusyKeeps, StartedKeeps, SendOkKeeps, SendLenKeeps, SendConfigKeeps,
     ShutdownKeeps
     DEF DaemonStep
<1> QED BY <1>1, <1>2, <1>3, AbortKeeps, DaemonGoneKeeps DEF Next
-----------------------------------------------------------------------------
(* The theorems.                                                           *)

\* The two ends stay in step, field by field and byte by byte.
THEOREM SpecIInv == Spec => []IInv
  BY InitIInv, NextIInv, PTL DEF Spec

\* A request is refused only because its client left, it has too many ports, or no
\* address is free.
THEOREM SpecRefusedForCause == Spec => []RefusedForCause
<1>1. IInv => RefusedForCause
  BY DEF IInv
<1> QED BY <1>1, SpecIInv, PTL

\* start_container returns OK exactly with the configuration of the session, and an
\* error only without one, crashes and more than 255 ports apart.
THEOREM SpecAnswerUnderstood == Spec => []AnswerUnderstood
<1>1. IInv => AnswerUnderstood
  BY DEF IInv
<1> QED BY <1>1, SpecIInv, PTL

\* The handler never awaits a byte beyond the end of the message, so the two ends do
\* not wait for each other.
THEOREM SpecNeverStarved == Spec => []NeverStarved
<1>1. IInv => NeverStarved
  <2> SUFFICES ASSUME IInv, client \in {"result", "config"}, at \in Reading
               PROVE  read + Need(at) <= sent
    BY DEF NeverStarved
  <2>1. sent = Len(Message(request))
    BY DEF IInv, ClientInStep
  <2> QED BY <2>1, FieldAwaited
<1> QED BY <1>1, SpecIInv, PTL

\* A mapping is found in the map of the container's ports under its own port.
LEMMA IntoHashmapFinds ==
  ASSUME NEW ports \in Seq(Mappings), NEW addr, NEW i \in DOMAIN ports,
         \A j, k \in DOMAIN ports : ports[j][1] = ports[k][1] => j = k
  PROVE  /\ <<ports[i][1], ports[i][3]>> \in DOMAIN IntoHashmap(ports, addr)
         /\ IntoHashmap(ports, addr)[<<ports[i][1], ports[i][3]>>] = <<addr, ports[i][2], ports[i][3]>>
<1> DEFINE key == <<ports[i][1], ports[i][3]>>
           Last1(j) == /\ <<ports[j][1], ports[j][3]>> = key
                       /\ \A k \in DOMAIN ports : <<ports[k][1], ports[k][3]>> = key => k <= j
           it == CHOOSE j \in DOMAIN ports : Last1(j)
<1>1. \A k \in DOMAIN ports : <<ports[k][1], ports[k][3]>> = key => k = i
  OBVIOUS
<1>2. i \in Nat
  OBVIOUS
<1>3. Last1(i)
  BY <1>1, <1>2
<1>4. it \in DOMAIN ports /\ Last1(it)
  <2> HIDE DEF Last1
  <2> QED BY <1>3
<1>5. it = i
  BY <1>1, <1>4
<1>6. key \in {<<ports[j][1], ports[j][3]>> : j \in DOMAIN ports}
  OBVIOUS
<1>7. IntoHashmap(ports, addr)[key] = <<addr, ports[it][2], key[2]>>
  BY <1>6 DEF IntoHashmap
<1>8. key \in DOMAIN IntoHashmap(ports, addr)
  BY <1>6 DEF IntoHashmap
<1>9. key[2] = ports[i][3]
  OBVIOUS
<1> HIDE DEF it
<1> QED BY <1>5, <1>7, <1>8, <1>9

\* What the daemon starts is what the archive asked for, with every port in its
\* place unless their number does not fit into a byte.
THEOREM SpecDecodedAsMeant == Spec => []DecodedAsMeant
<1>1. IInv => DecodedAsMeant
  <2> SUFFICES ASSUME IInv, IsDecoded
               PROVE  /\ got.mode = request.mode
                      /\ got.mode = "guest" => got.code = request.code
                      /\ got.image = request.image
                      /\ IsPrefix(got.ports, request.ports)
                      /\ Len(request.ports) < B =>
                            \A i \in DOMAIN request.ports : LET p == request.ports[i] IN
                                /\ <<p[1], p[3]>> \in DOMAIN IntoHashmap(got.ports, "ip")
                                /\ IntoHashmap(got.ports, "ip")[<<p[1], p[3]>>] = <<"ip", p[2], p[3]>>
    BY DEF DecodedAsMeant
  <2>1. /\ got.mode = request.mode /\ (got.mode = "guest" => got.code = request.code)
        /\ got.image = request.image /\ IsPrefix(got.ports, request.ports)
        /\ Len(got.ports) = Len(request.ports) % B
    BY DEF IInv, GotFollowsLabel, Served
  <2>2. ASSUME Len(request.ports) < B PROVE got.ports = request.ports
    <3>1. Len(got.ports) = Len(request.ports) /\ request.ports \in Seq(Mappings)
      BY <2>1, <2>2, RequestFacts
    <3>2. got.ports \in Seq(Mappings)
      BY DEF IInv, TypeOK, Fields
    <3>3. SubSeq(got.ports, 1, Len(got.ports)) = SubSeq(request.ports, 1, Len(request.ports))
      BY <2>1, <3>1 DEF IsPrefix
    <3>4. \A s \in Seq(Mappings) : SubSeq(s, 1, Len(s)) = s
      OBVIOUS
    <3> QED BY <3>1, <3>2, <3>3, <3>4
  <2>3. /\ request.ports \in Seq(Mappings)
        /\ \A j, k \in DOMAIN request.ports : request.ports[j][1] = request.ports[k][1] => j = k
    BY StartProtocolAssumption DEF IInv, TypeOK
  <2>4. ASSUME Len(request.ports) < B, NEW i \in DOMAIN request.ports
        PROVE  LET p == request.ports[i] IN
                 /\ <<p[1], p[3]>> \in DOMAIN IntoHashmap(got.ports, "ip")
                 /\ IntoHashmap(got.ports, "ip")[<<p[1], p[3]>>] = <<"ip", p[2], p[3]>>
    <3> DEFINE q == request.ports
    <3>1. got.ports = q
      BY <2>2, <2>4
    <3>2. q \in Seq(Mappings) /\ i \in DOMAIN q
          /\ \A j, k \in DOMAIN q : q[j][1] = q[k][1] => j = k
      BY <2>3, <2>4
    <3> HIDE DEF q
    <3>3. /\ <<q[i][1], q[i][3]>> \in DOMAIN IntoHashmap(q, "ip")
          /\ IntoHashmap(q, "ip")[<<q[i][1], q[i][3]>>] = <<"ip", q[i][2], q[i][3]>>
      BY <3>2, IntoHashmapFinds
    <3> QED BY <3>1, <3>3 DEF q
  <2> QED BY <2>1, <2>4
<1> QED BY <1>1, SpecIInv, PTL
=============================================================================
