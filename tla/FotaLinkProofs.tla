--------------------------- MODULE FotaLinkProofs ---------------------------
(***************************************************************************)
(* Proofs about FotaLink, for any buffer, slots, datagrams and sender.     *)
(***************************************************************************)
EXTENDS FotaLink, FiniteSetTheorems, WellFoundedInduction, TLAPS

\* The numbers of the ring: the count is within the buffer, and while the main
\* loop decrements it, it is at least what was loaded, and not zero.
Counters ==
  /\ num_items \in 0 .. Size /\ loaded \in 0 .. Size
  /\ accepted \in Nat /\ taken \in Nat /\ lost \in Nat
  /\ pc \in {"check", "load", "store"}
  /\ pc = "load" => num_items > 0
  /\ pc = "store" => loaded > 0 /\ loaded <= num_items

IInv == Counters /\ CountIsBehind /\ CompleteIsFreed

LEMMA InitIInv == Init => IInv
<1> SUFFICES ASSUME Init PROVE IInv
  OBVIOUS
<1>1. Counters
  BY LinkAssumption DEF Init, Counters
<1>2. CountIsBehind
  BY DEF Init, CountIsBehind, Unread
<1>3. CompleteIsFreed
  BY DEF Init, CompleteIsFreed
<1> QED
  BY <1>1, <1>2, <1>3 DEF IInv

-----------------------------------------------------------------------------
(* The counters. *)

LEMMA SendCounts ==
  ASSUME Counters, CountIsBehind, NEW p \in Packets, Send(p)
  PROVE  Counters' /\ CountIsBehind'
BY DEF Send, Counters, CountIsBehind, Unread, bufferVars, historyVars

\* The interrupt changes count and bytes together, or neither.
LEMMA ReceiveCounts ==
  ASSUME Counters, CountIsBehind, Receive
  PROVE  Counters' /\ CountIsBehind'
<1>1. /\ UNCHANGED <<pc, loaded, taken, lost>>
      /\ \/ UNCHANGED <<num_items, accepted>>
         \/ num_items # Size /\ num_items' = num_items + 1 /\ accepted' = accepted + 1
  BY DEF Receive
<1> QED
  BY <1>1, LinkAssumption DEF Counters, CountIsBehind, Unread

LEMMA ReadCounts ==
  ASSUME Counters, CountIsBehind, ReadByte
  PROVE  Counters' /\ CountIsBehind'
<1>1. /\ pc = "check" /\ pc' = "load" /\ num_items > 0 /\ taken' = taken + 1
      /\ UNCHANGED <<num_items, loaded, accepted, lost>>
  BY DEF ReadByte
<1> QED
  BY <1>1 DEF Counters, CountIsBehind, Unread

LEMMA LoadCounts ==
  ASSUME Counters, CountIsBehind, LoadCount
  PROVE  Counters' /\ CountIsBehind'
<1>1. /\ pc = "load" /\ pc' = "store" /\ loaded' = num_items
      /\ UNCHANGED <<num_items, accepted, taken, lost>>
  BY DEF LoadCount, bufferVars, historyVars
<1> QED
  BY <1>1 DEF Counters, CountIsBehind, Unread

\* What the store overwrites is what the history calls lost.
LEMMA StoreCounts ==
  ASSUME Counters, CountIsBehind, StoreCount
  PROVE  Counters' /\ CountIsBehind'
<1>1. /\ pc = "store" /\ pc' = "check" /\ loaded' = 0
      /\ num_items' = loaded - 1 /\ lost' = lost + (num_items - loaded)
      /\ UNCHANGED <<accepted, taken>>
  BY DEF StoreCount
<1> QED
  BY <1>1, LinkAssumption DEF Counters, CountIsBehind, Unread
-----------------------------------------------------------------------------
(* The datagrams. *)

LEMMA SettleFrees ==
  ASSUME NEW o, NEW d, Settle(o, d),
         \A e \in DOMAIN o \ {d} : ~Complete(o[e])
  PROVE  CompleteIsFreed'
<1>1. CASE Complete(o[d])
  <2>1. open' = [e \in DOMAIN o \ {d} |-> o[e]]
    BY <1>1 DEF Settle, Without
  <2> QED
    BY <2>1 DEF CompleteIsFreed, Complete
<1>2. CASE ~Complete(o[d])
  <2>1. open' = o
    BY <1>2 DEF Settle
  <2> QED
    BY <1>2, <2>1 DEF CompleteIsFreed, Complete
<1> QED
  BY <1>1, <1>2

LEMMA HandleFrees ==
  ASSUME CompleteIsFreed, NEW head, NEW payload, HandlePacket(head, payload)
  PROVE  CompleteIsFreed'
<1> DEFINE d == head.datagram
           header == Settle(WithHeader(d, payload), d)
           data   == Settle(WithData(d, head.seq, payload), d)
<1>1. header \/ data \/ open' = open
  BY DEF HandlePacket, Refuse
<1>2. CASE header
  <2>1. \A e \in DOMAIN WithHeader(d, payload) \ {d} :
          e \in DOMAIN open /\ WithHeader(d, payload)[e] = open[e]
    BY DEF WithHeader
  <2>2. \A e \in DOMAIN WithHeader(d, payload) \ {d} : ~Complete(WithHeader(d, payload)[e])
    BY <2>1 DEF CompleteIsFreed
  <2> QED
    BY <1>2, <2>2, SettleFrees
<1>3. CASE data
  <2>1. \A e \in DOMAIN WithData(d, head.seq, payload) \ {d} :
          e \in DOMAIN open /\ WithData(d, head.seq, payload)[e] = open[e]
    BY DEF WithData
  <2>2. \A e \in DOMAIN WithData(d, head.seq, payload) \ {d} :
          ~Complete(WithData(d, head.seq, payload)[e])
    BY <2>1 DEF CompleteIsFreed
  <2> QED
    BY <1>3, <2>2, SettleFrees
<1>4. CASE open' = open
  BY <1>4 DEF CompleteIsFreed, Complete
<1> QED
  BY <1>1, <1>2, <1>3, <1>4

LEMMA ByteFrees == CompleteIsFreed /\ HandleByte => CompleteIsFreed'
<1> SUFFICES ASSUME CompleteIsFreed, HandleByte PROVE CompleteIsFreed'
  OBVIOUS
<1>1. CASE open' = open
  BY <1>1 DEF CompleteIsFreed, Complete
<1>2. CASE \E head, payload : HandlePacket(head, payload)
  BY <1>2, HandleFrees
<1> QED
  BY <1>1, <1>2 DEF HandleByte, FindSof, EndPacket, RunOn, Refuse

LEMMA OthersFree ==
  ASSUME CompleteIsFreed, Next, ~HandleByte
  PROVE  CompleteIsFreed'
<1>1. open' = open
  BY DEF Next, Send, Receive, MainLoop, ReadByte, LoadCount, packetVars
<1> QED
  BY <1>1 DEF CompleteIsFreed, Complete
-----------------------------------------------------------------------------
(* Types.  What the state machine holds are numbers of bytes that have arrived, *)
(* or 0 for a slot of the ring that was never written and for the bytes of a    *)
(* refused packet, which do not matter: only byte 1 of a packet gives an id.    *)

Bytes == 0 .. arrived

TypeInv ==
  /\ TypeOK
  /\ arrived <= Length * Len(sent)
  /\ ring \in [0 .. Size - 1 -> Bytes]
  /\ byte \in Bytes
  /\ rx \in Seq(Bytes)
  /\ IsFiniteSet(DOMAIN open)

\* The first byte of a packet that has arrived belongs to one of the sender's.
LEMMA FirstByte ==
  ASSUME TypeInv, NEW n \in Bytes, Place(n) = 1
  PROVE  PacketOf(n) \in Packets
<1>1. n \in Nat /\ n <= 2 * Len(sent) /\ Len(sent) \in Nat /\ sent \in Seq(Packets)
  BY DEF TypeInv, TypeOK, Bytes, Length
<1>2. n # 0
  BY <1>1 DEF Place, Length
<1>3. ((n - 1) \div 2) + 1 \in 1 .. Len(sent)
  BY <1>1, <1>2
<1> QED
  BY <1>1, <1>3 DEF PacketOf, Length

LEMMA PacketFields ==
  ASSUME NEW p \in Packets
  PROVE  p.datagram \in Datagrams
BY DEF Packets, Data, Header

LEMMA SettleTypes ==
  ASSUME TypeInv, NEW o, NEW d \in Datagrams, Settle(o, d),
         DOMAIN o \subseteq Datagrams, IsFiniteSet(DOMAIN o), Cardinality(DOMAIN o) <= Slots
  PROVE  /\ DOMAIN open' \subseteq Datagrams /\ Cardinality(DOMAIN open') <= Slots
         /\ IsFiniteSet(DOMAIN open')
         /\ delivered' \in Seq(Datagrams)
<1>1. delivered' \in Seq(Datagrams)
  <2>1. delivered' \in {delivered, Append(delivered, d)}
    BY DEF Settle
  <2>2. delivered \in Seq(Datagrams)
    BY DEF TypeInv, TypeOK
  <2> QED
    BY <2>1, <2>2
<1>2. CASE Complete(o[d])
  <2>1. DOMAIN open' = DOMAIN o \ {d}
    BY <1>2 DEF Settle, Without
  <2>2. IsFiniteSet(DOMAIN open') /\ Cardinality(DOMAIN open') <= Cardinality(DOMAIN o)
        /\ Cardinality(DOMAIN open') \in Nat /\ Cardinality(DOMAIN o) \in Nat
    BY <2>1, FS_Subset, FS_CardinalityType
  <2> QED
    BY <1>1, <2>1, <2>2, LinkAssumption
<1>3. CASE ~Complete(o[d])
  BY <1>1, <1>3 DEF Settle
<1> QED
  BY <1>2, <1>3

LEMMA HandleTypes ==
  ASSUME TypeInv, NEW head \in Packets, NEW payload, HandlePacket(head, payload)
  PROVE  /\ DOMAIN open' \subseteq Datagrams /\ Cardinality(DOMAIN open') <= Slots
         /\ IsFiniteSet(DOMAIN open')
         /\ delivered' \in Seq(Datagrams)
         /\ rx' \in {<<>>, <<0, 0>>}
<1> DEFINE d == head.datagram
           header == /\ d \in DOMAIN open \/ Cardinality(DOMAIN open) < Slots
                     /\ Settle(WithHeader(d, payload), d)
           data   == d \in DOMAIN open /\ Settle(WithData(d, head.seq, payload), d)
<1>1. d \in Datagrams
  BY PacketFields
<1>2. /\ DOMAIN open \subseteq Datagrams /\ Cardinality(DOMAIN open) <= Slots
      /\ IsFiniteSet(DOMAIN open) /\ Cardinality(DOMAIN open) \in Nat
      /\ delivered \in Seq(Datagrams)
  BY FS_CardinalityType DEF TypeInv, TypeOK
<1>3. rx' \in {<<>>, <<0, 0>>} /\ (header \/ data \/ UNCHANGED <<open, delivered>>)
  BY DEF HandlePacket, Refuse
<1>4. CASE header
  <2>1. DOMAIN WithHeader(d, payload) = DOMAIN open \union {d}
    BY DEF WithHeader
  <2>2. /\ IsFiniteSet(DOMAIN open \union {d})
        /\ Cardinality(DOMAIN open \union {d}) =
             IF d \in DOMAIN open THEN Cardinality(DOMAIN open) ELSE Cardinality(DOMAIN open) + 1
    BY <1>2, FS_AddElement
  <2>3. Cardinality(DOMAIN open \union {d}) <= Slots
    BY <1>2, <1>4, <2>2, LinkAssumption
  <2> QED
    BY <1>1, <1>2, <1>3, <1>4, <2>1, <2>2, <2>3, SettleTypes
<1>5. CASE data
  <2>1. DOMAIN WithData(d, head.seq, payload) = DOMAIN open
    BY DEF WithData
  <2> QED
    BY <1>1, <1>2, <1>3, <1>5, <2>1, SettleTypes
<1>6. CASE UNCHANGED <<open, delivered>>
  BY <1>2, <1>3, <1>6
<1> QED
  BY <1>3, <1>4, <1>5, <1>6

LEMMA InitTypes == Init => TypeInv
<1> SUFFICES ASSUME Init PROVE TypeInv
  OBVIOUS
<1>1. ring \in [0 .. Size - 1 -> Bytes]
  BY LinkAssumption DEF Init, Bytes
<1>2. DOMAIN open = {}
  BY DEF Init
<1>3. IsFiniteSet(DOMAIN open) /\ Cardinality(DOMAIN open) = 0
  BY <1>2, FS_EmptySet
<1>4. /\ sent \in Seq(Packets) /\ Len(sent) = 0
      /\ rx \in Seq(Nat) /\ rx \in Seq(Bytes) /\ Len(rx) = 0
      /\ delivered \in Seq(Datagrams)
  BY DEF Init
<1> QED
  BY <1>1, <1>2, <1>3, <1>4, LinkAssumption DEF Init, TypeInv, TypeOK, Bytes, Length

LEMMA SendTypes ==
  ASSUME TypeInv, NEW p \in Packets, Send(p)
  PROVE  TypeInv'
<1>1. /\ sent' \in Seq(Packets) /\ Len(sent') = Len(sent) + 1 /\ Len(sent) \in Nat
      /\ Len(sent) < MaxPackets
  BY DEF Send, TypeInv, TypeOK
<1>2. UNCHANGED <<arrived, bufferVars, pc, loaded, byte, packetVars, historyVars>>
  BY DEF Send
<1> QED
  BY <1>1, <1>2, LinkAssumption
  DEF TypeInv, TypeOK, Bytes, Length, bufferVars, packetVars, historyVars

LEMMA ReceiveTypes ==
  ASSUME TypeInv, Counters', Receive
  PROVE  TypeInv'
<1>1. /\ arrived < Length * Len(sent) /\ arrived' = arrived + 1
      /\ UNCHANGED <<sent, read_index, pc, loaded, byte, packetVars, taken, lost>>
  BY DEF Receive
<1>2. arrived \in Nat /\ Len(sent) \in Nat /\ Bytes \subseteq Bytes' /\ arrived + 1 \in Bytes'
  BY <1>1 DEF TypeInv, TypeOK, Bytes
<1>3. /\ ring' \in {ring, [ring EXCEPT ![write_index] = arrived + 1]}
      /\ write_index' \in {write_index, (write_index + 1) % Size}
      /\ intact' \in {FALSE, intact /\ Unread < Size}
  BY DEF Receive
<1>4. ring \in [0 .. Size - 1 -> Bytes'] /\ write_index \in 0 .. Size - 1
  BY <1>2 DEF TypeInv, TypeOK
<1>5. ring' \in [0 .. Size - 1 -> Bytes']
  BY <1>2, <1>3, <1>4
<1>6. ring' \in [0 .. Size - 1 -> Nat]
  BY <1>1, <1>2, <1>5 DEF Bytes
<1>7. write_index' \in 0 .. Size - 1
  BY <1>3, <1>4, LinkAssumption
<1>8. byte \in Bytes' /\ rx \in Seq(Bytes')
  BY <1>2 DEF TypeInv
<1>9. intact' \in BOOLEAN
  BY <1>3
<1> QED
  BY <1>1, <1>2, <1>5, <1>6, <1>7, <1>8, <1>9 DEF TypeInv, TypeOK, Counters, Length, packetVars

LEMMA ReadTypes ==
  ASSUME TypeInv, Counters', ReadByte
  PROVE  TypeInv'
<1>1. /\ byte' = ring[read_index] /\ read_index' = (read_index + 1) % Size
      /\ pc' = "load"
      /\ UNCHANGED <<sent, arrived, ring, write_index, packetVars, intact>>
  BY DEF ReadByte
<1>2. byte' \in Bytes /\ Bytes' = Bytes /\ arrived \in Nat
  BY <1>1 DEF TypeInv, TypeOK, Bytes
<1>3. byte' \in Nat /\ read_index' \in 0 .. Size - 1
  BY <1>1, <1>2, LinkAssumption DEF Bytes, TypeInv, TypeOK
<1> QED
  BY <1>1, <1>2, <1>3 DEF TypeInv, TypeOK, Counters, packetVars

LEMMA LoadTypes ==
  ASSUME TypeInv, Counters', LoadCount
  PROVE  TypeInv'
BY DEF LoadCount, TypeInv, TypeOK, Counters, Bytes, bufferVars, packetVars, historyVars

LEMMA ByteTypes ==
  ASSUME TypeInv, Counters', HandleByte
  PROVE  TypeInv'
<1>1. /\ byte' = 0 /\ UNCHANGED <<sent, arrived, ring, write_index, read_index>>
  BY DEF HandleByte, StoreCount
<1>2. Bytes' = Bytes /\ arrived \in Nat /\ 0 \in Bytes
  BY <1>1 DEF TypeInv, TypeOK, Bytes
<1>3. \A s \in Seq(Bytes) : s \in Seq(Nat)
  BY <1>2 DEF Bytes
<1>4. /\ rx' \in Seq(Bytes) /\ Len(rx') <= Length /\ intact' \in BOOLEAN
      /\ DOMAIN open' \subseteq Datagrams /\ Cardinality(DOMAIN open') <= Slots
      /\ IsFiniteSet(DOMAIN open')
      /\ delivered' \in Seq(Datagrams)
  <2>1. \A s \in {<<>>, <<byte>>, <<0, 0>>} : s \in Seq(Bytes) /\ Len(s) <= Length
    <3>1. <<0, 0>> \in Seq(Bytes) /\ Len(<<0, 0>>) = 2 /\ <<>> \in Seq(Bytes) /\ Len(<<>>) = 0
      BY <1>2
    <3>2. <<byte>> \in Seq(Bytes) /\ Len(<<byte>>) = 1
      BY DEF TypeInv
    <3>3. Len(<<0, 0>>) <= Length /\ Len(<<byte>>) <= Length /\ Len(<<>>) <= Length
      BY <3>1, <3>2 DEF Length
    <3> QED
      BY <3>1, <3>2, <3>3
  <2>2. CASE FindSof
    <3>1. rx' \in {<<>>, <<byte>>} /\ UNCHANGED <<open, delivered, intact>>
      BY <2>2 DEF FindSof
    <3> QED
      BY <2>1, <3>1 DEF TypeInv, TypeOK
  <2>3. CASE RunOn
    BY <2>3 DEF RunOn, TypeInv, TypeOK
  <2>4. CASE EndPacket
    <3>1. CASE Refuse /\ intact' \in BOOLEAN
      BY <2>1, <3>1 DEF Refuse, TypeInv, TypeOK
    <3>2. CASE UNCHANGED intact
      <4> DEFINE bytes == Append(rx, byte)
      <4>1. bytes[1] \in Bytes
        <5>1. Len(rx) = 1 /\ rx \in Seq(Bytes) /\ byte \in Bytes
          BY <2>4 DEF EndPacket, TypeInv, Length
        <5>2. bytes[1] = rx[1]
          BY <5>1
        <5> QED
          BY <5>1, <5>2
      <4>2. CASE Fits(bytes) /\ HandlePacket(PacketOf(bytes[1]), PacketOf(bytes[2]))
        <5>1. Place(bytes[1]) = 1
          BY <4>2 DEF Fits
        <5>2. PacketOf(bytes[1]) \in Packets
          BY <4>1, <5>1, FirstByte
        <5>3. PICK head \in Packets, payload \in {PacketOf(bytes[2])} : HandlePacket(head, payload)
          BY <4>2, <5>2
        <5>4. intact' \in BOOLEAN
          BY <3>2 DEF TypeInv, TypeOK
        <5>5. /\ DOMAIN open' \subseteq Datagrams /\ Cardinality(DOMAIN open') <= Slots
              /\ IsFiniteSet(DOMAIN open')
              /\ delivered' \in Seq(Datagrams)
              /\ rx' \in {<<>>, <<0, 0>>}
          BY <5>3, HandleTypes
        <5> QED
          BY <2>1, <5>4, <5>5
      <4> HIDE DEF bytes
      <4> QED
        BY <2>4, <3>1, <3>2, <4>2 DEF EndPacket, TypeInv, TypeOK, bytes
    <3> QED
      BY <2>4, <3>1, <3>2 DEF EndPacket
  <2> QED
    BY <2>2, <2>3, <2>4 DEF HandleByte
<1> QED
  BY <1>1, <1>2, <1>3, <1>4 DEF TypeInv, TypeOK, Counters
-----------------------------------------------------------------------------
(* Induction.  The naturals are well-founded: a set of them without 0, or that *)
(* some number enters only with its predecessor, is all of them.               *)

LEMMA SetInduction ==
  ASSUME NEW S, 0 \in S, \A n \in Nat : n \in S => n + 1 \in S
  PROVE  Nat \subseteq S
<1> SUFFICES ASSUME Nat \ S # {} PROVE FALSE
  OBVIOUS
<1> DEFINE Less == OpToRel(<, Nat)
<1>1. IsWellFoundedOn(Less, Nat)
  BY NatLessThanWellFounded, Zenon
<1>2. \A x, y \in Nat : y < x => <<y, x>> \in Less
  BY Zenon DEF OpToRel
<1> HIDE DEF Less
<1>3. PICK x \in Nat \ S : \A y \in Nat \ S : <<y, x>> \notin Less
  BY <1>1, WFMin, Zenon
<1>4. x # 0 /\ x - 1 \in Nat /\ x - 1 < x /\ (x - 1) + 1 = x
  BY <1>3
<1>5. x - 1 \in S
  BY <1>2, <1>3, <1>4
<1> QED
  BY <1>3, <1>4, <1>5
-----------------------------------------------------------------------------
(* The datagrams that a prefix of the packets completes. *)

\* One packet more: f says what the packets before it complete.
After(s, n, f) ==
  IF n = 0 THEN <<>>
  ELSE IF IsLast(s[n]) THEN Append(f[n - 1], s[n].datagram) ELSE f[n - 1]

LEMMA EndedExists ==
  ASSUME NEW s, NEW m \in Nat
  PROVE  \E f : f = [n \in 0 .. m |-> After(s, n, f)]
<1> DEFINE Good(k) == \E f : f = [n \in 0 .. k |-> After(s, n, f)]
           S == {k \in Nat : Good(k)}
<1>1. 0 \in S
  <2> DEFINE f == [n \in 0 .. 0 |-> <<>>]
  <2>1. \A n \in 0 .. 0 : After(s, n, f) = <<>>
    BY DEF After
  <2>2. f = [n \in 0 .. 0 |-> After(s, n, f)]
    BY <2>1
  <2> QED
    BY <2>2
<1>2. ASSUME NEW k \in Nat, Good(k) PROVE Good(k + 1)
  <2>1. PICK f : f = [n \in 0 .. k |-> After(s, n, f)]
    BY <1>2
  <2> DEFINE g == [n \in 0 .. k + 1 |-> IF n = k + 1 THEN After(s, n, f) ELSE f[n]]
  <2>2. \A n \in 0 .. k : g[n] = f[n] /\ f[n] = After(s, n, f)
    BY <2>1
  <2>3. \A n \in 0 .. k + 1 : After(s, n, g) = After(s, n, f)
    <3> SUFFICES ASSUME NEW n \in 0 .. k + 1 PROVE After(s, n, g) = After(s, n, f)
      OBVIOUS
    <3>1. n = 0 \/ n - 1 \in 0 .. k
      OBVIOUS
    <3>2. n = 0 \/ g[n - 1] = f[n - 1]
      BY <2>2, <3>1
    <3> HIDE DEF g
    <3> QED
      BY <3>2 DEF After
  <2>4. \A n \in 0 .. k + 1 : g[n] = After(s, n, g)
    <3> SUFFICES ASSUME NEW n \in 0 .. k + 1 PROVE g[n] = After(s, n, g)
      OBVIOUS
    <3>1. n = k + 1 \/ n \in 0 .. k
      OBVIOUS
    <3>2. g[k + 1] = After(s, k + 1, f)
      OBVIOUS
    <3> HIDE DEF g
    <3> QED
      BY <2>2, <2>3, <3>1, <3>2
  <2>5. g = [n \in 0 .. k + 1 |-> g[n]]
    OBVIOUS
  <2> HIDE DEF g
  <2>6. g = [n \in 0 .. k + 1 |-> After(s, n, g)]
    BY <2>4, <2>5
  <2> QED
    BY <2>6
<1>3. \A n \in Nat : n \in S => n + 1 \in S
  BY <1>2
<1> HIDE DEF S
<1>4. Nat \subseteq S
  BY <1>1, <1>3, SetInduction
<1> QED
  BY <1>4 DEF S

LEMMA EndedRecursion ==
  ASSUME NEW s \in Seq(Packets)
  PROVE  /\ Ended(s)[0] = <<>>
         /\ \A n \in 1 .. Len(s) :
              Ended(s)[n] = IF IsLast(s[n]) THEN Append(Ended(s)[n - 1], s[n].datagram)
                                            ELSE Ended(s)[n - 1]
<1>1. Len(s) \in Nat
  OBVIOUS
<1>2. Ended(s) = CHOOSE f : f = [n \in 0 .. Len(s) |-> After(s, n, f)]
  BY Zenon DEF Ended, After
<1>3. Ended(s) = [n \in 0 .. Len(s) |-> After(s, n, Ended(s))]
  BY <1>1, <1>2, EndedExists, Zenon
<1>4. \A n \in 0 .. Len(s) : Ended(s)[n] = After(s, n, Ended(s))
  BY <1>3, Zenon
<1> QED
  BY <1>1, <1>4 DEF After

LEMMA EndedTypes ==
  ASSUME NEW s \in Seq(Packets)
  PROVE  \A n \in 0 .. Len(s) : Ended(s)[n] \in Seq(Datagrams)
<1> DEFINE S == {n \in Nat : n <= Len(s) => Ended(s)[n] \in Seq(Datagrams)}
<1>1. Len(s) \in Nat
  OBVIOUS
<1>2. 0 \in S
  <2>1. Ended(s)[0] = <<>>
    BY EndedRecursion
  <2>2. <<>> \in Seq(Datagrams)
    OBVIOUS
  <2> QED
    BY <2>1, <2>2
<1>3. ASSUME NEW n \in Nat, n \in S PROVE n + 1 \in S
  <2> SUFFICES ASSUME n + 1 <= Len(s) PROVE Ended(s)[n + 1] \in Seq(Datagrams)
    OBVIOUS
  <2>1. Ended(s)[n] \in Seq(Datagrams) /\ n + 1 \in 1 .. Len(s) /\ (n + 1) - 1 = n
    BY <1>1, <1>3
  <2>2. s[n + 1].datagram \in Datagrams
    BY <2>1, PacketFields
  <2>3. Append(Ended(s)[n], s[n + 1].datagram) \in Seq(Datagrams)
    BY <2>1, <2>2
  <2>4. Ended(s)[n + 1] \in {Ended(s)[n], Append(Ended(s)[n], s[n + 1].datagram)}
    BY <2>1, EndedRecursion
  <2> QED
    BY <2>1, <2>3, <2>4
<1> HIDE DEF S
<1>4. Nat \subseteq S
  BY <1>2, <1>3, SetInduction
<1> QED
  BY <1>1, <1>4 DEF S

\* What more packets complete comes behind what fewer have completed.
LEMMA EndedGrows ==
  ASSUME NEW s \in Seq(Packets), NEW k \in 0 .. Len(s)
  PROVE  /\ Len(Ended(s)[k]) <= Len(Ended(s)[Len(s)])
         /\ \A i \in 1 .. Len(Ended(s)[k]) : Ended(s)[k][i] = Ended(s)[Len(s)][i]
<1> DEFINE E(n) == Ended(s)[n]
           Extends(n) == /\ Len(E(k)) <= Len(E(n))
                         /\ \A i \in 1 .. Len(E(k)) : E(k)[i] = E(n)[i]
           S == {n \in Nat : k + n <= Len(s) => Extends(k + n)}
<1>1. Len(s) \in Nat /\ k \in Nat
  OBVIOUS
<1>2. 0 \in S
  <2>1. k + 0 = k /\ E(k) \in Seq(Datagrams)
    BY <1>1, EndedTypes
  <2>2. Len(E(k)) \in Nat
    BY <2>1
  <2> QED
    BY <2>1, <2>2
<1>3. ASSUME NEW n \in Nat, n \in S PROVE n + 1 \in S
  <2> SUFFICES ASSUME k + (n + 1) <= Len(s) PROVE Extends(k + (n + 1))
    OBVIOUS
  <2>1. /\ Extends(k + n) /\ k + n \in 0 .. Len(s)
        /\ k + (n + 1) \in 1 .. Len(s) /\ (k + (n + 1)) - 1 = k + n
    BY <1>1, <1>3
  <2>2. E(k + n) \in Seq(Datagrams) /\ E(k) \in Seq(Datagrams)
    BY <2>1, EndedTypes
  <2>3. E(k + (n + 1)) = E(k + n) \/ \E d : E(k + (n + 1)) = Append(E(k + n), d)
    BY <2>1, EndedRecursion
  <2>4. CASE E(k + (n + 1)) = E(k + n)
    BY <2>1, <2>4
  <2>5. CASE \E d : E(k + (n + 1)) = Append(E(k + n), d)
    <3>1. PICK d : E(k + (n + 1)) = Append(E(k + n), d)
      BY <2>5
    <3>2. Len(E(k + n)) \in Nat /\ Len(E(k)) \in Nat
      BY <2>2
    <3>3. /\ Len(E(k + (n + 1))) = Len(E(k + n)) + 1
          /\ \A i \in 1 .. Len(E(k + n)) : E(k + (n + 1))[i] = E(k + n)[i]
      BY <2>2, <3>1
    <3> QED
      BY <2>1, <3>2, <3>3
  <2> QED
    BY <2>3, <2>4, <2>5
<1> HIDE DEF S
<1>4. Nat \subseteq S
  BY <1>2, <1>3, SetInduction
<1>5. Len(s) - k \in S /\ k + (Len(s) - k) = Len(s)
  BY <1>1, <1>4
<1> QED
  BY <1>1, <1>5 DEF S

\* Packets sent later change nothing of what the earlier ones complete.
LEMMA EndedStays ==
  ASSUME NEW s \in Seq(Packets), NEW p \in Packets
  PROVE  \A n \in 0 .. Len(s) : Ended(Append(s, p))[n] = Ended(s)[n]
<1> DEFINE t == Append(s, p)
           S == {n \in Nat : n <= Len(s) => Ended(t)[n] = Ended(s)[n]}
<1>1. /\ Len(s) \in Nat /\ t \in Seq(Packets) /\ Len(t) = Len(s) + 1
      /\ \A n \in 1 .. Len(s) : t[n] = s[n]
  OBVIOUS
<1> HIDE DEF t
<1>2. 0 \in S
  BY <1>1, EndedRecursion
<1>3. ASSUME NEW n \in Nat, n \in S PROVE n + 1 \in S
  <2> SUFFICES ASSUME n + 1 <= Len(s) PROVE Ended(t)[n + 1] = Ended(s)[n + 1]
    OBVIOUS
  <2>1. /\ Ended(t)[n] = Ended(s)[n] /\ t[n + 1] = s[n + 1] /\ (n + 1) - 1 = n
        /\ n + 1 \in 1 .. Len(s) /\ n + 1 \in 1 .. Len(t)
    BY <1>1, <1>3
  <2>2. Ended(t)[n + 1] = IF IsLast(t[n + 1]) THEN Append(Ended(t)[n], t[n + 1].datagram)
                                              ELSE Ended(t)[n]
    BY <1>1, <2>1, EndedRecursion
  <2>3. Ended(s)[n + 1] = IF IsLast(s[n + 1]) THEN Append(Ended(s)[n], s[n + 1].datagram)
                                              ELSE Ended(s)[n]
    BY <2>1, EndedRecursion
  <2> QED
    BY <2>1, <2>2, <2>3
<1> HIDE DEF S
<1>4. Nat \subseteq S
  BY <1>2, <1>3, SetInduction
<1> QED
  BY <1>1, <1>4 DEF S, t
-----------------------------------------------------------------------------
(* What has been put together of a datagram: its packets up to one.  *)

Packet(d, i) == [datagram |-> d, seq |-> i]
First(d, n)  == {<<i, Packet(d, i)>> : i \in 0 .. n - 1}

LEMMA FirstNext ==
  ASSUME NEW d, NEW n \in Nat
  PROVE  /\ First(d, n + 1) = First(d, n) \union {<<n, Packet(d, n)>>}
         /\ \A q : <<n, q>> \notin First(d, n)
<1>1. 0 .. (n + 1) - 1 = (0 .. n - 1) \union {n} /\ n \notin 0 .. n - 1
  OBVIOUS
<1> QED
  BY <1>1 DEF First

LEMMA FirstCount ==
  ASSUME NEW d
  PROVE  \A n \in Nat : IsFiniteSet(First(d, n)) /\ Cardinality(First(d, n)) = n
<1> DEFINE S == {n \in Nat : IsFiniteSet(First(d, n)) /\ Cardinality(First(d, n)) = n}
<1>1. 0 \in S
  <2>1. First(d, 0) = {}
    BY DEF First
  <2> QED
    BY <2>1, FS_EmptySet
<1>2. ASSUME NEW n \in Nat, n \in S PROVE n + 1 \in S
  <2>1. IsFiniteSet(First(d, n)) /\ Cardinality(First(d, n)) = n
    BY <1>2
  <2>2. /\ First(d, n + 1) = First(d, n) \union {<<n, Packet(d, n)>>}
        /\ <<n, Packet(d, n)>> \notin First(d, n)
    BY FirstNext
  <2>3. /\ IsFiniteSet(First(d, n) \union {<<n, Packet(d, n)>>})
        /\ Cardinality(First(d, n) \union {<<n, Packet(d, n)>>}) = n + 1
    BY <2>1, <2>2, FS_AddElement
  <2> QED
    BY <2>2, <2>3
<1> HIDE DEF S
<1>3. Nat \subseteq S
  BY <1>1, <1>2, SetInduction
<1> QED
  BY <1>3 DEF S
-----------------------------------------------------------------------------
(* The ring is a queue while no byte is lost: what is unread stands behind the *)
(* read index, in the order of arrival.                                        *)

Wrap(x) == IF x < Size THEN x ELSE x - Size

InOrder ==
  /\ accepted = arrived /\ Unread <= Size
  /\ write_index = Wrap(read_index + Unread)
  /\ \A j \in 0 .. Unread - 1 : ring[Wrap(read_index + j)] = taken + 1 + j
  /\ pc # "check" => byte = taken /\ taken > 0

LEMMA UnreadType == IInv => Unread \in Nat
BY DEF IInv, Counters, CountIsBehind, Unread

LEMMA WrapNext ==
  ASSUME NEW x \in 0 .. Size - 1
  PROVE  (x + 1) % Size = Wrap(x + 1)
<1>1. Size \in Nat \ {0}
  BY LinkAssumption
<1>2. CASE x + 1 < Size
  BY <1>1, <1>2 DEF Wrap
<1>3. CASE x + 1 = Size
  <2>1. Size % Size = 0
    BY <1>1
  <2> QED
    BY <1>1, <1>3, <2>1 DEF Wrap
<1> QED
  BY <1>1, <1>2, <1>3

LEMMA ReceiveInOrder ==
  ASSUME TypeInv, IInv, intact => InOrder, Receive, intact'
  PROVE  InOrder'
<1> DEFINE r == read_index  u == Unread
<1>1. /\ intact /\ u < Size
      /\ ring' = [ring EXCEPT ![write_index] = arrived + 1]
      /\ write_index' = (write_index + 1) % Size
      /\ accepted' = accepted + 1 /\ arrived' = arrived + 1
      /\ UNCHANGED <<read_index, taken, pc, byte>>
  BY DEF Receive, TypeInv, TypeOK
<1>2. InOrder
  BY <1>1
<1>3. /\ Size \in Nat \ {0} /\ u \in Nat /\ r \in 0 .. Size - 1
      /\ write_index \in 0 .. Size - 1
      /\ ring \in [0 .. Size - 1 -> Nat] /\ accepted \in Nat /\ taken \in Nat /\ arrived \in Nat
  BY LinkAssumption, UnreadType DEF TypeInv, TypeOK
<1>4. Unread' = u + 1 /\ accepted = taken + u /\ accepted = arrived
  BY <1>1, <1>2, <1>3 DEF Unread, InOrder
<1>5. write_index = Wrap(r + u)
  BY <1>2 DEF InOrder
<1>6. write_index' = Wrap(r + (u + 1))
  <2>1. write_index' = Wrap(write_index + 1)
    BY <1>1, <1>3, WrapNext
  <2> HIDE DEF u, r
  <2> QED
    BY <1>1, <1>3, <1>5, <2>1 DEF Wrap
<1>7. ASSUME NEW j \in 0 .. u PROVE ring'[Wrap(r + j)] = taken + 1 + j
  <2>1. CASE j = u
    <3> HIDE DEF u, r
    <3> QED
      BY <1>1, <1>3, <1>4, <1>5, <2>1
  <2>2. CASE j \in 0 .. u - 1
    <3>1. ring[Wrap(r + j)] = taken + 1 + j
      BY <1>2, <2>2 DEF InOrder
    <3> HIDE DEF u, r
    <3>2. Wrap(r + j) # write_index /\ Wrap(r + j) \in 0 .. Size - 1
      BY <1>1, <1>3, <1>5, <2>2 DEF Wrap
    <3> QED
      BY <1>1, <1>3, <3>1, <3>2
  <2> HIDE DEF u
  <2> QED
    BY <1>3, <2>1, <2>2
<1>8. pc' # "check" => byte' = taken' /\ taken' > 0
  BY <1>1, <1>2 DEF InOrder
<1>9. accepted' = arrived' /\ Unread' <= Size /\ Unread' - 1 = u
  <2> HIDE DEF u
  <2> QED
    BY <1>1, <1>3, <1>4
<1>10. (Wrap(read_index + Unread))' = Wrap(r + (u + 1))
  BY <1>1, <1>4 DEF Wrap
<1>11. \A j \in 0 .. Unread' - 1 : ring'[Wrap(read_index' + j)] = taken' + 1 + j
  BY <1>1, <1>7, <1>9
<1> QED
  BY <1>6, <1>8, <1>9, <1>10, <1>11 DEF InOrder, Wrap

LEMMA ReadInOrder ==
  ASSUME TypeInv, IInv, InOrder, ReadByte
  PROVE  InOrder'
<1> DEFINE r == read_index  u == Unread
<1>1. /\ pc = "check" /\ num_items > 0
      /\ byte' = ring[r] /\ read_index' = (r + 1) % Size /\ taken' = taken + 1
      /\ UNCHANGED <<arrived, ring, write_index, accepted>>
  BY DEF ReadByte
<1>2. /\ Size \in Nat \ {0} /\ r \in 0 .. Size - 1
      /\ accepted \in Nat /\ taken \in Nat /\ arrived \in Nat
  BY LinkAssumption DEF TypeInv, TypeOK
<1>3. u \in Nat \ {0}
  BY <1>1 DEF IInv, Counters, CountIsBehind, Unread
<1>4. Unread' = u - 1
  BY <1>1, <1>2 DEF Unread
<1>5. /\ u <= Size /\ write_index = Wrap(r + u)
      /\ \A j \in 0 .. u - 1 : ring[Wrap(r + j)] = taken + 1 + j
  BY DEF InOrder
<1>6. read_index' = Wrap(r + 1)
  BY <1>1, <1>2, WrapNext
<1>7. write_index' = Wrap(read_index' + (u - 1))
  <2> HIDE DEF u, r
  <2> QED
    BY <1>1, <1>2, <1>3, <1>5, <1>6 DEF Wrap
<1>8. byte' = taken + 1
  <2> HIDE DEF u, r
  <2>1. Wrap(r + 0) = r /\ 0 \in 0 .. u - 1
    BY <1>2, <1>3 DEF Wrap
  <2>2. ring[Wrap(r + 0)] = taken + 1 + 0
    BY <1>5, <2>1
  <2> QED
    BY <1>1, <1>2, <2>1, <2>2
<1>9. ASSUME NEW j \in 0 .. (u - 1) - 1
      PROVE  ring[Wrap(read_index' + j)] = (taken + 1) + 1 + j
  <2> HIDE DEF u, r
  <2>1. j + 1 \in 0 .. u - 1 /\ Wrap(read_index' + j) = Wrap(r + (j + 1))
    BY <1>2, <1>3, <1>5, <1>6 DEF Wrap
  <2>2. ring[Wrap(r + (j + 1))] = taken + 1 + (j + 1)
    BY <1>5, <2>1
  <2> QED
    BY <1>2, <2>1, <2>2
<1>10. accepted' = arrived' /\ Unread' <= Size /\ taken' > 0 /\ byte' = taken'
  <2>1. accepted = arrived
    BY DEF InOrder
  <2> HIDE DEF u
  <2> QED
    BY <1>1, <1>2, <1>3, <1>4, <1>5, <1>8, <2>1
<1>11. write_index' = (Wrap(read_index + Unread))'
  BY <1>4, <1>7 DEF Wrap
<1>12. \A j \in 0 .. Unread' - 1 : ring'[Wrap(read_index' + j)] = taken' + 1 + j
  BY <1>1, <1>4, <1>9
<1> QED
  BY <1>10, <1>11, <1>12 DEF InOrder, Wrap

LEMMA NextInOrder ==
  ASSUME TypeInv, IInv, intact => InOrder, Next, intact'
  PROVE  InOrder'
<1>1. CASE Receive
  BY <1>1, ReceiveInOrder
<1>2. CASE \/ \E p \in Packets : Send(p)
           \/ ReadByte
           \/ LoadCount
  <2>1. InOrder
    BY <1>2 DEF Send, ReadByte, LoadCount, historyVars
  <2>2. CASE ReadByte
    BY <2>1, <2>2, ReadInOrder
  <2>3. CASE ~ReadByte
    <3>1. /\ UNCHANGED <<arrived, ring, write_index, read_index, accepted, taken, byte>>
          /\ pc' # "check" => pc # "check"
      BY <1>2, <2>3 DEF Send, LoadCount, bufferVars, historyVars
    <3> QED
      BY <2>1, <3>1 DEF InOrder, Wrap, Unread
  <2> QED
    BY <2>2, <2>3
<1>3. CASE HandleByte
  <2>1. /\ pc' = "check"
        /\ UNCHANGED <<arrived, ring, write_index, read_index, accepted, taken>>
    BY <1>3 DEF HandleByte, StoreCount
  <2>2. intact
    BY <1>3 DEF HandleByte, FindSof, EndPacket, RunOn
  <2> QED
    BY <2>1, <2>2 DEF InOrder, Wrap, Unread
<1> QED
  BY <1>1, <1>2, <1>3 DEF Next, MainLoop
-----------------------------------------------------------------------------
(* From an orderly sender, over a line that loses nothing, the main loop is     *)
(* always behind a whole number of packets or one byte further, has delivered   *)
(* what these complete, and holds the packets of the datagram begun.            *)

\* The bytes the state machine has handled.
Handled == IF pc = "check" THEN taken ELSE taken - 1

\* What is open after the first k packets.
Assembled(k) ==
  IF k = 0 \/ IsLast(sent[k]) THEN DOMAIN open = {}
  ELSE LET d == sent[k].datagram
           n == IF IsHeader(sent[k]) THEN 0 ELSE sent[k].seq + 1
       IN  DOMAIN open = {d} /\ open[d] = [of |-> {d}, got |-> First(d, n)]

InPlaceAt(k) ==
  /\ \/ Handled = 2 * k /\ rx = <<>>
     \/ Handled = 2 * k + 1 /\ rx = <<2 * k + 1>>
  /\ delivered = Ended(sent)[k]
  /\ Assembled(k)

InPlace == \E k \in 0 .. Len(sent) : InPlaceAt(k)

\* A packet is its datagram and number; the header's number is behind the last.
LEMMA PacketShape ==
  ASSUME NEW p \in Packets
  PROVE  /\ p = Packet(p.datagram, p.seq) /\ p.seq \in 0 .. Parts[p.datagram]
         /\ Parts[p.datagram] \in Nat \ {0}
         /\ IsHeader(p) <=> p.seq = Parts[p.datagram]
         /\ IsLast(p) => ~IsHeader(p)
<1>1. p.datagram \in Datagrams /\ Parts[p.datagram] \in Nat \ {0}
  BY PacketFields, LinkAssumption
<1>2. p = Packet(p.datagram, p.seq) /\ p.seq \in 0 .. Parts[p.datagram]
  <2>1. PICK d \in Datagrams : p \in Data(d) \union {Header(d)}
    BY DEF Packets
  <2>2. Parts[d] \in Nat \ {0}
    BY LinkAssumption
  <2>3. CASE p = Header(d)
    BY <2>2, <2>3 DEF Header, Packet
  <2>4. CASE p \in Data(d)
    BY <2>2, <2>4 DEF Data, Packet
  <2> QED
    BY <2>1, <2>3, <2>4
<1>3. IsHeader(p) <=> p.seq = Parts[p.datagram]
  BY <1>2 DEF IsHeader, Header, Packet
<1> QED
  BY <1>1, <1>2, <1>3 DEF IsLast

\* The first packets up to the last one are all the data.
LEMMA FirstAll ==
  ASSUME NEW d \in Datagrams
  PROVE  First(d, Parts[d]) = {<<p.seq, p>> : p \in Data(d)}
<1>1. ASSUME NEW i \in 0 .. Parts[d] - 1
      PROVE  Packet(d, i) \in Data(d) /\ Packet(d, i).seq = i
  BY DEF Packet, Data
<1>2. ASSUME NEW p \in Data(d)
      PROVE  p.seq \in 0 .. Parts[d] - 1 /\ p = Packet(d, p.seq)
  BY DEF Packet, Data
<1> QED
  BY <1>1, <1>2 DEF First

LEMMA HandleHeader ==
  ASSUME NEW p \in Packets, IsHeader(p), DOMAIN open = {}, HandlePacket(p, p)
  PROVE  /\ rx' = <<>> /\ delivered' = delivered
         /\ DOMAIN open' = {p.datagram}
         /\ open'[p.datagram] = [of |-> {p.datagram}, got |-> First(p.datagram, 0)]
<1> DEFINE d == p.datagram
           o == WithHeader(d, p)
<1>1. Cardinality(DOMAIN open) = 0 /\ 0 < Slots
  BY FS_EmptySet, LinkAssumption
<1>2. rx' = <<>> /\ Settle(o, d)
  BY <1>1 DEF HandlePacket
<1>3. DOMAIN o = {d} /\ o[d] = [of |-> {d}, got |-> {}]
  BY DEF WithHeader, Announced
<1>4. ~Complete(o[d])
  <2>1. Cardinality({}) = 0 /\ Parts[d] # 0
    BY FS_EmptySet, PacketShape
  <2> HIDE DEF o, d
  <2> QED
    BY <1>3, <2>1 DEF Complete
<1>5. First(d, 0) = {}
  BY DEF First
<1> QED
  BY <1>2, <1>3, <1>4, <1>5 DEF Settle

LEMMA HandleData ==
  ASSUME NEW p \in Packets, ~IsHeader(p), DOMAIN open = {p.datagram},
         open[p.datagram] = [of |-> {p.datagram}, got |-> First(p.datagram, p.seq)],
         HandlePacket(p, p)
  PROVE  /\ rx' = <<>>
         /\ IF IsLast(p)
            THEN delivered' = Append(delivered, p.datagram) /\ DOMAIN open' = {}
            ELSE /\ delivered' = delivered
                 /\ DOMAIN open' = {p.datagram}
                 /\ open'[p.datagram] =
                      [of |-> {p.datagram}, got |-> First(p.datagram, p.seq + 1)]
<1> DEFINE d == p.datagram
           o == WithData(d, p.seq, p)
<1>1. /\ d \in Datagrams /\ p = Packet(d, p.seq) /\ p.seq \in Nat
      /\ Parts[d] \in Nat \ {0}
  BY PacketFields, PacketShape
<1>2. ~ \E q \in Packets : <<p.seq, q>> \in open[d].got
  <2>1. \A q : <<p.seq, q>> \notin First(d, p.seq)
    BY <1>1, FirstNext
  <2>2. open[d].got = First(d, p.seq)
    OBVIOUS
  <2> QED
    BY <2>1, <2>2
<1>3. rx' = <<>> /\ Settle(o, d)
  BY <1>2 DEF HandlePacket
<1>4. DOMAIN o = {d} /\ o[d] = [of |-> {d}, got |-> First(d, p.seq + 1)]
  <2>1. First(d, p.seq + 1) = First(d, p.seq) \union {<<p.seq, p>>}
    BY <1>1, FirstNext
  <2>2. /\ DOMAIN o = {d}
        /\ o[d] = [open[d] EXCEPT !.got = @ \union {<<p.seq, p>>}]
    BY DEF WithData
  <2> QED
    BY <2>1, <2>2
<1>5. Cardinality(First(d, p.seq + 1)) = p.seq + 1
  BY <1>1, FirstCount
<1>6. Complete(o[d]) <=> IsLast(p)
  <2>1. Complete(o[d]) <=> p.seq + 1 = Parts[d]
    <3> HIDE DEF o, d
    <3> QED
      BY <1>4, <1>5 DEF Complete
  <2> QED
    BY <1>1, <2>1 DEF IsLast
<1>7. CASE IsLast(p)
  <2>1. p.seq + 1 = Parts[d]
    BY <1>1, <1>7 DEF IsLast
  <2>2. Verified(o[d])
    <3>1. First(d, p.seq + 1) = {<<q.seq, q>> : q \in Data(d)}
      BY <1>1, <2>1, FirstAll
    <3> HIDE DEF o, d
    <3> QED
      BY <1>4, <3>1 DEF Verified
  <2>3. /\ open' = Without(o, d) /\ delivered' = Append(delivered, d)
    BY <1>3, <1>6, <1>7, <2>2 DEF Settle
  <2>4. DOMAIN open' = {}
    <3> HIDE DEF o, d
    <3> QED
      BY <1>4, <2>3 DEF Without
  <2> QED
    BY <1>3, <1>7, <2>3, <2>4
<1>8. CASE ~IsLast(p)
  <2>1. open' = o /\ delivered' = delivered
    BY <1>3, <1>6, <1>8 DEF Settle
  <2> QED
    BY <1>3, <1>4, <1>8, <2>1
<1> QED
  BY <1>7, <1>8

\* One packet further: the next one of an orderly sender fits what is open.
LEMMA HandleNext ==
  ASSUME TypeInv, Orderly, NEW k \in 0 .. Len(sent), k < Len(sent),
         delivered = Ended(sent)[k], Assembled(k),
         HandlePacket(sent[k + 1], sent[k + 1]), sent' = sent
  PROVE  rx' = <<>> /\ delivered' = Ended(sent)[k + 1] /\ Assembled(k + 1)'
<1> DEFINE p == sent[k + 1]  d == p.datagram
<1>1. /\ sent \in Seq(Packets) /\ Len(sent) \in Nat /\ k \in Nat
      /\ k + 1 \in 1 .. Len(sent) /\ (k + 1) - 1 = k /\ k + 1 # 0
  BY DEF TypeInv, TypeOK
<1>2. p \in Packets
  BY <1>1
<1>3. /\ p.seq \in 0 .. Parts[d] /\ Parts[d] \in Nat \ {0}
      /\ IsHeader(p) <=> p.seq = Parts[d]
      /\ IsLast(p) => ~IsHeader(p)
  BY <1>2, PacketShape
<1>4. IF IsHeader(p)
      THEN k + 1 = 1 \/ IsLast(sent[k])
      ELSE /\ k + 1 > 1 /\ sent[k].datagram = d
           /\ IF p.seq = 0 THEN IsHeader(sent[k]) ELSE sent[k].seq = p.seq - 1
  BY <1>1 DEF Orderly
<1>5. Ended(sent)[k + 1] = IF IsLast(p) THEN Append(Ended(sent)[k], d) ELSE Ended(sent)[k]
  BY <1>1, EndedRecursion
<1>6. Assembled(k + 1)' <=>
        IF IsLast(p) THEN DOMAIN open' = {}
        ELSE /\ DOMAIN open' = {d}
             /\ open'[d] = [of |-> {d},
                            got |-> First(d, IF IsHeader(p) THEN 0 ELSE p.seq + 1)]
  BY <1>1 DEF Assembled, First
<1>7. CASE IsHeader(p)
  <2>1. DOMAIN open = {}
    BY <1>1, <1>4, <1>7 DEF Assembled
  <2>2. /\ rx' = <<>> /\ delivered' = delivered
        /\ DOMAIN open' = {d} /\ open'[d] = [of |-> {d}, got |-> First(d, 0)]
    BY <1>2, <1>7, <2>1, HandleHeader
  <2>3. ~IsLast(p)
    BY <1>3, <1>7
  <2> HIDE DEF p, d
  <2> QED
    BY <1>5, <1>6, <1>7, <2>2, <2>3
<1>8. CASE ~IsHeader(p)
  <2>1. k \in 1 .. Len(sent) /\ sent[k] \in Packets /\ sent[k].datagram = d
    BY <1>1, <1>4, <1>8
  <2>2. /\ ~IsLast(sent[k])
        /\ (IF IsHeader(sent[k]) THEN 0 ELSE sent[k].seq + 1) = p.seq
    <3>1. /\ sent[k].seq \in 0 .. Parts[d]
          /\ IsHeader(sent[k]) <=> sent[k].seq = Parts[d]
          /\ IsLast(sent[k]) <=> sent[k].seq = Parts[d] - 1
      BY <2>1, PacketShape DEF IsLast
    <3> HIDE DEF p, d
    <3> QED
      BY <1>3, <1>4, <1>8, <3>1
  <2>3. DOMAIN open = {d} /\ open[d] = [of |-> {d}, got |-> First(d, p.seq)]
    <3>1. Assembled(k) =>
            LET e == sent[k].datagram
                n == IF IsHeader(sent[k]) THEN 0 ELSE sent[k].seq + 1
            IN  DOMAIN open = {e} /\ open[e] = [of |-> {e}, got |-> First(e, n)]
      BY <2>1, <2>2 DEF Assembled
    <3> HIDE DEF p, d
    <3> QED
      BY <2>1, <2>2, <3>1
  <2>4. /\ rx' = <<>>
        /\ IF IsLast(p)
           THEN delivered' = Append(delivered, d) /\ DOMAIN open' = {}
           ELSE /\ delivered' = delivered
                /\ DOMAIN open' = {d}
                /\ open'[d] = [of |-> {d}, got |-> First(d, p.seq + 1)]
    BY <1>2, <1>8, <2>3, HandleData
  <2> HIDE DEF p, d
  <2> QED
    BY <1>5, <1>6, <1>8, <2>4
<1> QED
  BY <1>7, <1>8

\* A sender that is orderly with a packet more was orderly before it.
LEMMA SendInPlace ==
  ASSUME TypeInv, intact /\ Orderly => InPlace, NEW p \in Packets, Send(p),
         intact', Orderly'
  PROVE  InPlace'
<1>1. /\ sent' = Append(sent, p) /\ sent \in Seq(Packets) /\ Len(sent) \in Nat
      /\ UNCHANGED <<pc, taken, rx, open, delivered, intact>>
  BY DEF Send, TypeInv, TypeOK, packetVars, historyVars
<1>2. Len(sent') = Len(sent) + 1 /\ \A k \in 1 .. Len(sent) : sent'[k] = sent[k]
  BY <1>1
<1>3. Orderly
  <2> SUFFICES ASSUME NEW k \in 1 .. Len(sent)
               PROVE  /\ SameCrc(sent[k])
                      /\ IF IsHeader(sent[k])
                         THEN k = 1 \/ IsLast(sent[k - 1])
                         ELSE /\ k > 1 /\ sent[k - 1].datagram = sent[k].datagram
                              /\ IF sent[k].seq = 0 THEN IsHeader(sent[k - 1])
                                 ELSE sent[k - 1].seq = sent[k].seq - 1
    BY DEF Orderly
  <2>1. k \in 1 .. Len(sent') /\ sent'[k] = sent[k] /\ (k = 1 \/ sent'[k - 1] = sent[k - 1])
    BY <1>1, <1>2
  <2>2. /\ SameCrc(sent'[k])
        /\ IF IsHeader(sent'[k])
           THEN k = 1 \/ IsLast(sent'[k - 1])
           ELSE /\ k > 1 /\ sent'[k - 1].datagram = sent'[k].datagram
                /\ IF sent'[k].seq = 0 THEN IsHeader(sent'[k - 1])
                   ELSE sent'[k - 1].seq = sent'[k].seq - 1
    BY <2>1 DEF Orderly, SameCrc, IsHeader, IsLast, Header
  <2> QED
    BY <2>1, <2>2
<1>4. PICK k \in 0 .. Len(sent) : InPlaceAt(k)
  BY <1>1, <1>3 DEF InPlace
<1>5. k \in 0 .. Len(sent') /\ (k = 0 \/ sent'[k] = sent[k])
  BY <1>1, <1>2
<1>6. Ended(sent')[k] = Ended(sent)[k]
  BY <1>1, EndedStays
<1>7. Assembled(k)'
  BY <1>1, <1>4, <1>5 DEF InPlaceAt, Assembled, IsLast, IsHeader, Header, First, Packet
<1>8. InPlaceAt(k)'
  BY <1>1, <1>4, <1>6, <1>7 DEF InPlaceAt, Handled
<1> QED
  BY <1>5, <1>8 DEF InPlace

\* Every byte read is the next one of the stream: the packet machine takes it as
\* the first or as the second half of the next packet.
LEMMA ByteInPlace ==
  ASSUME TypeInv, IInv, InOrder, Orderly, InPlace, HandleByte, intact'
  PROVE  InPlace'
<1>1. /\ pc = "store" /\ pc' = "check" /\ sent' = sent /\ taken' = taken
      /\ arrived \in Nat /\ arrived <= 2 * Len(sent) /\ Len(sent) \in Nat
      /\ taken \in Nat /\ sent \in Seq(Packets)
  BY DEF HandleByte, StoreCount, TypeInv, TypeOK, Length
<1>2. byte = taken /\ taken > 0 /\ byte <= arrived
  BY <1>1 DEF InOrder, TypeInv, Bytes
<1>3. PICK k \in 0 .. Len(sent) : InPlaceAt(k)
  BY DEF InPlace
<1>4. k \in Nat /\ Handled = byte - 1 /\ Handled' = byte
  BY <1>1, <1>2 DEF Handled
<1>5. CASE Handled = 2 * k /\ rx = <<>>
  <2>1. byte = 2 * k + 1 /\ Place(byte) = 1 /\ Len(rx) = 0
    BY <1>1, <1>2, <1>4, <1>5 DEF Place, Length
  <2>2. rx' = <<byte>> /\ UNCHANGED <<open, delivered>>
    BY <2>1 DEF HandleByte, FindSof, EndPacket, RunOn, Stuck, Length
  <2>3. Assembled(k)'
    BY <1>1, <1>3, <2>2 DEF InPlaceAt, Assembled, First
  <2>4. InPlaceAt(k)'
    BY <1>1, <1>3, <1>4, <2>1, <2>2, <2>3 DEF InPlaceAt
  <2> QED
    BY <1>1, <2>4 DEF InPlace
<1>6. CASE Handled = 2 * k + 1 /\ rx = <<2 * k + 1>>
  <2> DEFINE p == sent[k + 1]  bytes == Append(rx, byte)
  <2>1. byte = 2 * k + 2 /\ k + 1 \in 1 .. Len(sent) /\ k < Len(sent)
    BY <1>1, <1>2, <1>4, <1>6
  <2>2. rx # <<>> /\ Len(rx) = 1 /\ bytes[1] = 2 * k + 1 /\ bytes[2] = 2 * k + 2
    BY <1>4, <1>6, <2>1
  <2> HIDE DEF bytes
  <2>3. Place(bytes[1]) = 1 /\ Place(bytes[2]) = 2
    BY <1>4, <2>2 DEF Place, Length
  <2>4. PacketOf(bytes[1]) = p /\ PacketOf(bytes[2]) = p
    <3>1. ((bytes[1] - 1) \div 2) = k /\ ((bytes[2] - 1) \div 2) = k
      BY <1>4, <2>2
    <3> QED
      BY <3>1 DEF PacketOf, Length
  <2>5. Fits(bytes)
    <3>1. SameCrc(p)
      BY <2>1 DEF Orderly
    <3> QED
      BY <2>3, <2>4, <3>1 DEF Fits
  <2>6. HandlePacket(p, p)
    <3>1. EndPacket
      <4>1. ~FindSof
        BY <2>2 DEF FindSof
      <4>2. ~RunOn
        BY <2>2 DEF RunOn, Stuck, Length
      <4> QED
        BY <4>1, <4>2 DEF HandleByte
    <3> QED
      BY <2>4, <2>5, <3>1 DEF EndPacket, bytes
  <2>7. rx' = <<>> /\ delivered' = Ended(sent)[k + 1] /\ Assembled(k + 1)'
    BY <1>1, <1>3, <2>1, <2>6, HandleNext DEF InPlaceAt
  <2>8. k + 1 \in 0 .. Len(sent') /\ Handled' = 2 * (k + 1)
    BY <1>1, <1>4, <2>1
  <2>9. InPlaceAt(k + 1)'
    BY <1>1, <2>7, <2>8 DEF InPlaceAt
  <2> QED
    BY <2>8, <2>9 DEF InPlace
<1> QED
  BY <1>3, <1>5, <1>6 DEF InPlaceAt

LEMMA NextInPlace ==
  ASSUME TypeInv, IInv, intact => InOrder, intact /\ Orderly => InPlace, Next,
         intact', Orderly'
  PROVE  InPlace'
<1>1. CASE \E p \in Packets : Send(p)
  BY <1>1, SendInPlace
<1>2. CASE Receive \/ ReadByte \/ LoadCount
  <2>1. UNCHANGED <<sent, rx, open, delivered>>
    BY <1>2 DEF Receive, ReadByte, LoadCount, packetVars
  <2>2. intact
    BY <1>2 DEF Receive, ReadByte, LoadCount, historyVars, TypeInv, TypeOK
  <2>3. Handled' = Handled
    <3>1. \/ UNCHANGED <<pc, taken>>
          \/ pc = "check" /\ pc' = "load" /\ taken' = taken + 1
          \/ pc = "load" /\ pc' = "store" /\ taken' = taken
      BY <1>2 DEF Receive, ReadByte, LoadCount, historyVars
    <3>2. taken \in Nat
      BY DEF TypeInv, TypeOK
    <3> QED
      BY <3>1, <3>2 DEF Handled
  <2>4. InPlace
    BY <2>1, <2>2 DEF Orderly
  <2>5. PICK k \in 0 .. Len(sent) : InPlaceAt(k)
    BY <2>4 DEF InPlace
  <2>6. InPlaceAt(k)'
    BY <2>1, <2>3, <2>5 DEF InPlaceAt, Assembled, First
  <2> QED
    BY <2>1, <2>6 DEF InPlace
<1>3. CASE HandleByte
  <2>1. intact /\ sent' = sent
    BY <1>3 DEF HandleByte, StoreCount, FindSof, EndPacket, RunOn
  <2>2. Orderly
    BY <2>1 DEF Orderly
  <2> QED
    BY <1>3, <2>1, <2>2, ByteInPlace
<1> QED
  BY <1>1, <1>2, <1>3 DEF Next, MainLoop
-----------------------------------------------------------------------------
LEMMA NextIInv == IInv /\ [Next]_vars => IInv'
<1>1. ASSUME IInv, Next PROVE IInv'
  <2>1. Counters' /\ CountIsBehind'
    BY <1>1, SendCounts, ReceiveCounts, ReadCounts, LoadCounts, StoreCounts
    DEF IInv, Next, MainLoop, HandleByte
  <2>2. CompleteIsFreed'
    BY <1>1, ByteFrees, OthersFree DEF IInv
  <2> QED
    BY <2>1, <2>2 DEF IInv
<1>2. ASSUME IInv, UNCHANGED vars PROVE IInv'
  BY <1>2 DEF IInv, Counters, CountIsBehind, CompleteIsFreed, Complete, Unread, vars,
              bufferVars, packetVars, historyVars
<1> QED
  BY <1>1, <1>2

\* The ring's count, and the slots, with what they rest on.
THEOREM LinkInvariant == Spec => []IInv
BY InitIInv, NextIInv, PTL DEF Spec, Safety

\* The main loop never takes a byte that has not been received, and what its
\* count lacks is what it has overwritten.
THEOREM LinkCount == Spec => []CountIsBehind
<1>1. IInv => CountIsBehind
  BY DEF IInv
<1> QED
  BY LinkInvariant, <1>1, PTL

\* A datagram that has all its packets leaves its slot.
THEOREM LinkSlots == Spec => []CompleteIsFreed
<1>1. IInv => CompleteIsFreed
  BY DEF IInv
<1> QED
  BY LinkInvariant, <1>1, PTL

LEMMA NextTypes == TypeInv /\ IInv /\ IInv' /\ [Next]_vars => TypeInv'
<1> SUFFICES ASSUME TypeInv, Counters', [Next]_vars PROVE TypeInv'
  BY DEF IInv
<1>1. CASE Next
  BY <1>1, SendTypes, ReceiveTypes, ReadTypes, LoadTypes, ByteTypes DEF Next, MainLoop
<1>2. CASE UNCHANGED vars
  BY <1>2 DEF TypeInv, TypeOK, Bytes, vars, bufferVars, packetVars, historyVars
<1> QED
  BY <1>1, <1>2

LEMMA LinkTypeInv == Spec => []TypeInv
BY InitTypes, LinkInvariant, NextTypes, PTL DEF Spec, Safety

\* Every variable keeps its type: ring, packet and slots stay within their bounds.
THEOREM LinkTypes == Spec => []TypeOK
<1>1. TypeInv => TypeOK
  BY DEF TypeInv
<1> QED
  BY LinkTypeInv, <1>1, PTL

\* What the stream, the ring and the packet machine have of an undamaged line.
StreamInv ==
  /\ intact => InOrder
  /\ intact /\ Orderly => InPlace

LEMMA InitStream == Init => StreamInv
<1> SUFFICES ASSUME Init PROVE StreamInv
  OBVIOUS
<1>1. Unread = 0 /\ sent = <<>> /\ Len(sent) = 0
  BY DEF Init, Unread
<1>2. InOrder
  BY <1>1, LinkAssumption DEF Init, InOrder, Wrap
<1>3. InPlaceAt(0)
  <2>1. sent \in Seq(Packets)
    BY <1>1
  <2>2. delivered = Ended(sent)[0]
    BY <2>1, EndedRecursion DEF Init
  <2>3. Assembled(0)
    BY DEF Init, Assembled
  <2> QED
    BY <2>2, <2>3 DEF Init, InPlaceAt, Handled
<1> QED
  BY <1>1, <1>2, <1>3 DEF StreamInv, InPlace

LEMMA NextStream == TypeInv /\ IInv /\ StreamInv /\ [Next]_vars => StreamInv'
<1> SUFFICES ASSUME TypeInv, IInv, StreamInv, [Next]_vars PROVE StreamInv'
  OBVIOUS
<1>1. CASE Next
  BY <1>1, NextInOrder, NextInPlace DEF StreamInv
<1>2. CASE UNCHANGED vars
  <2>1. UNCHANGED <<sent, arrived, ring, write_index, read_index, pc, byte, rx, open,
                    delivered, accepted, taken, intact>>
    BY <1>2 DEF vars, bufferVars, packetVars, historyVars
  <2>2. InOrder => InOrder'
    BY <2>1 DEF InOrder, Unread, Wrap
  <2>3. Orderly' => Orderly
    BY <2>1 DEF Orderly
  <2>4. InPlace => InPlace'
    <3>1. \A k \in 0 .. Len(sent) : InPlaceAt(k) => InPlaceAt(k)'
      BY <2>1 DEF InPlaceAt, Assembled, Handled, First
    <3> QED
      BY <2>1, <3>1 DEF InPlace
  <2> QED
    BY <2>1, <2>2, <2>3, <2>4 DEF StreamInv
<1> QED
  BY <1>1, <1>2

LEMMA LinkStream == Spec => []StreamInv
BY InitTypes, InitStream, LinkInvariant, LinkTypeInv, NextStream, PTL DEF Spec, Safety

\* While no byte is lost, the ring hands out the bytes in the order of arrival,
\* whatever increments of the count are overwritten: every byte the main loop
\* holds is the one behind the last it has taken.
BytesInOrder == intact /\ pc # "check" => byte = taken

THEOREM LinkBytes == Spec => []BytesInOrder
<1>1. StreamInv => BytesInOrder
  BY DEF StreamInv, InOrder, BytesInOrder
<1> QED
  BY LinkStream, <1>1, PTL

\* From an orderly sender, over a line that loses nothing, the datagrams are
\* delivered in the order sent, each once, and the packet machine never gets stuck.
THEOREM LinkInOrder == Spec => []InOrderDelivery
<1>1. TypeInv /\ StreamInv => InOrderDelivery
  <2> SUFFICES ASSUME TypeInv, StreamInv, intact, Orderly
               PROVE  /\ ~Stuck
                      /\ Len(delivered) <= Len(Whole)
                      /\ \A i \in 1 .. Len(delivered) : delivered[i] = Whole[i]
    BY DEF InOrderDelivery
  <2>1. PICK k \in 0 .. Len(sent) : InPlaceAt(k)
    BY DEF StreamInv, InPlace
  <2>2. Len(rx) # 2
    <3>1. rx = <<>> \/ rx = <<2 * k + 1>>
      BY <2>1 DEF InPlaceAt
    <3> QED
      BY <3>1
  <2>3. delivered = Ended(sent)[k] /\ sent \in Seq(Packets)
    BY <2>1 DEF InPlaceAt, TypeInv, TypeOK
  <2> QED
    BY <2>2, <2>3, EndedGrows DEF Stuck, Length, Whole
<1> QED
  BY LinkTypeInv, LinkStream, <1>1, PTL
=============================================================================
