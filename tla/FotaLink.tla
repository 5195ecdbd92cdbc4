------------------------------ MODULE FotaLink ------------------------------
(***************************************************************************)
(* The receiving side of the firmware update link: the UART interrupt fills *)
(* a ring buffer, the main loop empties it, puts packets together and       *)
(* packets into datagrams (fota/src/network_buffer.c, packet_manager.c,     *)
(* fota_datagram.c, arm/network.c).                                         *)
(*                                                                         *)
(* The interrupt runs between any two instructions of the main loop; both   *)
(* change num_items, the interrupt in one piece, the main loop with a load  *)
(* and a store.  The sender may leave out, repeat and reorder packets.      *)
(*                                                                         *)
(* A packet is two bytes: SOF with the fields that no checksum covers (type, *)
(* datagram, sequence number), and the payload with its CRC and EOF.  Byte  *)
(* n of the stream is byte (n - 1) % 2 + 1 of packet (n - 1) \div 2 + 1.    *)
(***************************************************************************)
EXTENDS Naturals, Sequences, FiniteSets

CONSTANTS
  Size,         \* NETWORK_BUFFER_SIZE
  Slots,        \* FOTA_MAX_ACTIVE_DATAGRAMS
  Datagrams,    \* ids the sender uses
  Parts,        \* data packets of each datagram (all of them have some data)
  LastBytes,    \* bytes of data in the last one (the others are full)
  MaxPackets    \* bound: packets sent

ASSUME LinkAssumption ==
  /\ Size \in Nat \ {0}
  /\ Slots \in Nat \ {0}
  /\ Parts \in [Datagrams -> Nat \ {0}]
  /\ LastBytes \in [Datagrams -> Nat \ {0}]
  /\ MaxPackets \in Nat

VARIABLES
  sent,          \* packets sent so far
  arrived,       \* bytes the interrupt has been called for
  ring,          \* NetworkBuffer: data, and where it is written and read
  write_index,
  read_index,
  num_items,
  pc,            \* main loop: "check", or in the middle of num_items--
  loaded,        \* ... the value it has loaded
  byte,          \* the byte read
  rx,            \* rx_packet_buffer, as far as it is filled
  open,          \* the active datagrams, by id
  delivered,     \* datagrams given to the callback
  accepted,      \* bytes written to the ring (history)
  taken,         \* bytes read from it (history)
  lost,          \* increments of num_items overwritten by the store (history)
  intact         \* no byte dropped, overwritten or damaged so far (history)

bufferVars  == <<ring, write_index, read_index, num_items>>
packetVars  == <<rx, open, delivered>>
historyVars == <<accepted, taken, lost, intact>>

vars == <<sent, arrived, bufferVars, pc, loaded, byte, packetVars, historyVars>>

Length == 2    \* FOTA_PACKET_SERIALIZED_SIZE

Data(d)   == {[datagram |-> d, seq |-> s] : s \in 0 .. Parts[d] - 1}
Header(d) == [datagram |-> d, seq |-> Parts[d]]
IsHeader(p) == p = Header(p.datagram)
IsLast(p)   == p.seq = Parts[p.datagram] - 1
Packets == UNION {Data(d) \union {Header(d)} : d \in Datagrams}

\* Which packet byte n belongs to, and its place there.
PacketOf(n) == sent[((n - 1) \div Length) + 1]
Place(n)    == ((n - 1) % Length) + 1

Unread == accepted - taken

Init ==
  /\ sent = <<>> /\ arrived = 0
  /\ ring = [i \in 0 .. Size - 1 |-> 0]
  /\ write_index = 0 /\ read_index = 0 /\ num_items = 0
  /\ pc = "check" /\ loaded = 0 /\ byte = 0
  /\ rx = <<>> /\ open = <<>> /\ delivered = <<>>
  /\ accepted = 0 /\ taken = 0 /\ lost = 0 /\ intact = TRUE
-----------------------------------------------------------------------------
(* The sender, and the receive interrupt. *)

Send(p) ==
  /\ Len(sent) < MaxPackets
  /\ arrived = Length * Len(sent)
  /\ sent' = Append(sent, p)
  /\ UNCHANGED <<arrived, bufferVars, pc, loaded, byte, packetVars, historyVars>>

\* Mutant: the check for a full buffer is missing.
Receive_Unchecked ==
  /\ arrived < Length * Len(sent)
  /\ arrived' = arrived + 1
  /\ ring' = [ring EXCEPT ![write_index] = arrived + 1]
  /\ write_index' = (write_index + 1) % Size
  /\ num_items' = num_items + 1
  /\ accepted' = accepted + 1
  /\ intact' = (intact /\ Unread < Size)
  /\ UNCHANGED <<sent, read_index, pc, loaded, byte, packetVars, taken, lost>>

\* A byte that finds the buffer full, by its count, is dropped.
Receive ==
  /\ arrived < Length * Len(sent)
  /\ arrived' = arrived + 1
  /\ IF num_items = Size
     THEN intact' = FALSE /\ UNCHANGED <<ring, write_index, num_items, accepted>>
     ELSE /\ ring' = [ring EXCEPT ![write_index] = arrived + 1]
          /\ write_index' = (write_index + 1) % Size
          /\ num_items' = num_items + 1
          /\ accepted' = accepted + 1
          /\ intact' = (intact /\ Unread < Size)
  /\ UNCHANGED <<sent, read_index, pc, loaded, byte, packetVars, taken, lost>>
-----------------------------------------------------------------------------
(* The main loop takes a byte. *)

\* Mutant: the last byte is left for the next call.
ReadByte_LeavesOne ==
  /\ pc = "check"
  /\ num_items > 1
  /\ byte' = ring[read_index]
  /\ read_index' = (read_index + 1) % Size
  /\ taken' = taken + 1
  /\ pc' = "load"
  /\ UNCHANGED <<sent, arrived, ring, write_index, num_items, loaded, packetVars,
                 accepted, lost, intact>>

ReadByte ==
  /\ pc = "check"
  /\ num_items > 0
  /\ byte' = ring[read_index]
  /\ read_index' = (read_index + 1) % Size
  /\ taken' = taken + 1
  /\ pc' = "load"
  /\ UNCHANGED <<sent, arrived, ring, write_index, num_items, loaded, packetVars,
                 accepted, lost, intact>>

LoadCount ==
  /\ pc = "load"
  /\ loaded' = num_items
  /\ pc' = "store"
  /\ UNCHANGED <<sent, arrived, bufferVars, byte, packetVars, historyVars>>

\* Mutant: the count is kept.
StoreCount_Kept ==
  /\ pc = "store"
  /\ num_items' = loaded
  /\ lost' = lost + (num_items - loaded)
  /\ pc' = "check" /\ loaded' = 0 /\ byte' = 0
  /\ UNCHANGED <<sent, arrived, ring, write_index, read_index, accepted, taken>>

\* What the interrupt has added since the load is overwritten.
StoreCount ==
  /\ pc = "store"
  /\ num_items' = loaded - 1
  /\ lost' = lost + (num_items - loaded)
  /\ pc' = "check" /\ loaded' = 0 /\ byte' = 0
  /\ UNCHANGED <<sent, arrived, ring, write_index, read_index, accepted, taken>>
-----------------------------------------------------------------------------
(* The packet state machine. *)

\* The machine is past the end of a packet it has refused: it compares the
\* number of bytes for equality, and does not look for SOF again.  Where it puts
\* the bytes that follow is left out.
Stuck == Len(rx) = Length

\* Over how many words of n bytes the sender and the receiver take the CRC: one
\* word less in the sender if a single byte is left over.
WordsSent(n)    == (n + (n % 4)) \div 4
WordsChecked(n) == (n + ((4 - (n % 4)) % 4)) \div 4
SameCrc(p)      == IsLast(p) => WordsSent(LastBytes[p.datagram]) = WordsChecked(LastBytes[p.datagram])

\* SOF and EOF are in their places, the payload has its CRC; the fields in front
\* may be of another packet.
Fits(bytes) ==
  Place(bytes[1]) = 1 /\ Place(bytes[2]) = 2 /\ SameCrc(PacketOf(bytes[2]))

\* What a header's payload says; one that is no header's says nothing that
\* packets to come could match.
Announced(payload) == IF IsHeader(payload) THEN {payload.datagram} ELSE {}

WithHeader(d, payload) ==
  [e \in DOMAIN open \union {d} |->
     IF e = d THEN [of |-> Announced(payload), got |-> {}] ELSE open[e]]

WithData(d, s, payload) ==
  [open EXCEPT ![d].got = @ \union {<<s, payload>>}]

Without(o, d) == [e \in DOMAIN o \ {d} |-> o[e]]

Complete(entry) == \E d \in entry.of : Cardinality(entry.got) = Parts[d]

\* The CRC of the datagram's data is the one announced.
Verified(entry) ==
  \E d \in entry.of : entry.got = {<<p.seq, p>> : p \in Data(d)}

\* Mutant: a datagram counts as complete with its header.
Settle_Header(o, d) ==
  IF o[d].of # {}
  THEN /\ open' = Without(o, d)
       /\ delivered' = IF Verified(o[d]) THEN Append(delivered, d) ELSE delivered
  ELSE open' = o /\ UNCHANGED delivered

\* A complete datagram leaves its slot, and is delivered if its CRC agrees.
Settle(o, d) ==
  IF Complete(o[d])
  THEN /\ open' = Without(o, d)
       /\ delivered' = IF Verified(o[d]) THEN Append(delivered, d) ELSE delivered
  ELSE open' = o /\ UNCHANGED delivered

\* What the bytes of a refused packet were does not matter any more.
Refuse == rx' = <<0, 0>> /\ UNCHANGED <<open, delivered>>

\* Mutant: the state machine is not reset after a header.
HandlePacket_HeaderKeepsState(head, payload) ==
  LET d == head.datagram
  IN  CASE IsHeader(head) /\ (d \in DOMAIN open \/ Cardinality(DOMAIN open) < Slots) ->
             rx' = <<0, 0>> /\ Settle(WithHeader(d, payload), d)
        [] ~IsHeader(head) /\ d \in DOMAIN open ->
             /\ rx' = <<>>
             /\ IF \E q \in Packets : <<head.seq, q>> \in open[d].got
                THEN UNCHANGED <<open, delivered>>
                ELSE Settle(WithData(d, head.seq, payload), d)
        [] OTHER -> Refuse

\* A header opens its datagram, again if it is open already; data goes to an
\* open datagram, once.  A header without a free slot and data without a header
\* leave the machine where it is.
HandlePacket(head, payload) ==
  LET d == head.datagram
  IN  CASE IsHeader(head) /\ (d \in DOMAIN open \/ Cardinality(DOMAIN open) < Slots) ->
             rx' = <<>> /\ Settle(WithHeader(d, payload), d)
        [] ~IsHeader(head) /\ d \in DOMAIN open ->
             /\ rx' = <<>>
             /\ IF \E q \in Packets : <<head.seq, q>> \in open[d].got
                THEN UNCHANGED <<open, delivered>>
                ELSE Settle(WithData(d, head.seq, payload), d)
        [] OTHER -> Refuse

\* Bytes before SOF are skipped; one that is not SOF may have its value.
FindSof ==
  /\ rx = <<>>
  /\ \/ rx' = <<byte>>
     \/ Place(byte) # 1 /\ UNCHANGED rx
  /\ UNCHANGED <<open, delivered, intact>>

EndPacket ==
  /\ Len(rx) = Length - 1
  /\ LET bytes   == Append(rx, byte)
         payload == PacketOf(bytes[2])
     IN  \/ /\ Fits(bytes)
            /\ HandlePacket(PacketOf(bytes[1]), payload)
            /\ UNCHANGED intact
         \/ ~Fits(bytes) /\ Refuse /\ UNCHANGED intact
         \/ Refuse /\ intact' = FALSE    \* damaged on the way

RunOn == Stuck /\ UNCHANGED <<rx, open, delivered, intact>>

\* The byte is handled with the store: nothing of this is the interrupt's.
HandleByte == StoreCount /\ (FindSof \/ EndPacket \/ RunOn)

MainLoop == ReadByte \/ LoadCount \/ HandleByte
-----------------------------------------------------------------------------
Next ==
  \/ \E p \in Packets : Send(p)
  \/ Receive
  \/ MainLoop

Safety == Init /\ [][Next]_vars

\* The bytes on the line arrive and the main loop runs; nobody has to send.
Spec == Safety /\ WF_vars(Receive) /\ WF_vars(MainLoop)
-----------------------------------------------------------------------------
\* Type invariant.
TypeOK ==
  /\ sent \in Seq(Packets) /\ Len(sent) <= MaxPackets
  /\ arrived \in Nat
  /\ ring \in [0 .. Size - 1 -> Nat]
  /\ write_index \in 0 .. Size - 1 /\ read_index \in 0 .. Size - 1
  /\ num_items \in 0 .. Size
  /\ pc \in {"check", "load", "store"}
  /\ loaded \in 0 .. Size /\ byte \in Nat
  /\ rx \in Seq(Nat) /\ Len(rx) <= Length
  /\ DOMAIN open \subseteq Datagrams /\ Cardinality(DOMAIN open) <= Slots
  /\ delivered \in Seq(Datagrams)
  /\ accepted \in Nat /\ taken \in Nat /\ lost \in Nat
  /\ intact \in BOOLEAN

\* The count of the ring and the bytes in it differ by exactly the interrupts
\* that hit the main loop's decrement, and the count is the smaller one: the
\* main loop never takes a slot that was not written.
CountIsBehind ==
  LET taking == IF pc = "check" THEN 0 ELSE 1
  IN  num_items + lost = Unread + taking

\* A sender that sends whole datagrams, one after the other, with packets whose
\* CRC the receiver takes.
Orderly ==
  \A k \in 1 .. Len(sent) :
    LET p == sent[k]
    IN  /\ SameCrc(p)
        /\ IF IsHeader(p)
           THEN k = 1 \/ IsLast(sent[k - 1])
           ELSE /\ k > 1 /\ sent[k - 1].datagram = p.datagram
                /\ IF p.seq = 0 THEN IsHeader(sent[k - 1]) ELSE sent[k - 1].seq = p.seq - 1

\* The datagrams that the first n packets of s complete, for each n.
Ended(s) ==
  LET upTo[n \in 0 .. Len(s)] ==
        IF n = 0 THEN <<>>
        ELSE IF IsLast(s[n]) THEN Append(upTo[n - 1], s[n].datagram)
        ELSE upTo[n - 1]
  IN  upTo

Whole == Ended(sent)[Len(sent)]

\* From such a sender, over a line that loses nothing, datagrams are delivered
\* in the order sent, each as often as sent, and reception never gets stuck.
InOrderDelivery ==
  intact /\ Orderly =>
    /\ ~Stuck
    /\ Len(delivered) <= Len(Whole)
    /\ \A i \in 1 .. Len(delivered) : delivered[i] = Whole[i]

\* Whatever the line does, a datagram that has all its packets does not stay in
\* a slot, verified or not.
CompleteIsFreed == \A d \in DOMAIN open : ~Complete(open[d])

\* The main loop catches up with the interrupt, to within the increments lost:
\* that many bytes wait until others follow them.
ReaderCatchesUp == []<>(Unread <= lost)

\* From an orderly sender, over a line that loses nothing and with no increment
\* lost, every datagram arrives.
EverythingArrives ==
  <>[](intact /\ Orderly /\ lost = 0) => <>[](Len(delivered) = Len(Whole))
=============================================================================
