---------------------------- MODULE BitmapProofs ----------------------------
(***************************************************************************)
(* Proofs about the bitmap server, for any number of clients, inodes and    *)
(* zones, on devices whose maps are small (SmallMaps): MapsMatchUse and the *)
(* properties that rest on it, and that the server implements the Allocator *)
(* its interface promises.  MCBitmapLarge shows that SmallMaps cannot be    *)
(* dropped.                                                                 *)
(***************************************************************************)
EXTENDS Bitmap, TLAPS

Maps == {IMAP, ZMAP}

\* The sizes that occur in the scan are natural numbers, and a block has room
\* for twice the bits that bitchunks_per_block says.
LEMMA Geometry ==
  /\ bitchunks_per_block \in Nat \ {0}
  /\ FS_BITCHUNK_BITS \in Nat \ {0}
  /\ BlockBits = 2 * bitchunks_per_block
  /\ \A which \in Maps :
       /\ map_bits(which) \in Nat /\ map_bits(which) > 1
       /\ bit_blocks(which) \in Nat \ {0}
       /\ start_block(which) \in Nat
  /\ start_block(IMAP) # start_block(ZMAP)
<1>1. bitchunks_per_block \in Nat \ {0}
  BY GeometryAssumption DEF bitchunks_per_block
<1>2. FS_BITCHUNK_BITS \in Nat \ {0}
  BY GeometryAssumption DEF FS_BITCHUNK_BITS
<1>3. BlockBits = 2 * bitchunks_per_block
  BY GeometryAssumption DEF BlockBits, bitchunks_per_block, FS_BITCHUNK_BITS
<1>4. ASSUME NEW which \in Maps
      PROVE  /\ map_bits(which) \in Nat /\ map_bits(which) > 1
             /\ bit_blocks(which) \in Nat \ {0}
             /\ start_block(which) \in Nat
  BY GeometryAssumption DEF Maps, map_bits, bit_blocks, start_block
<1>5. start_block(IMAP) # start_block(ZMAP)
  BY GeometryAssumption DEF start_block, IMAP, ZMAP
<1> QED BY <1>1, <1>2, <1>3, <1>4, <1>5

LEMMA DivMod == \A n, c \in Nat : c > 0 => n = ((n \div c) * c) + (n % c)
  OBVIOUS

LEMMA SmallDiv == \A n, c \in Nat : n < c => n \div c = 0 /\ n % c = n
  OBVIOUS

LEMMA TimesAtLeast == \A m, c \in Nat : m > 0 => m * c >= c
  OBVIOUS

\* On a small map the code looks for bit b at position b of the first block.
LEMMA PlaceOfBit ==
  ASSUME SmallMaps, NEW which \in Maps, NEW b \in 0 .. map_bits(which) - 1
  PROVE  BitPlace(which, b) = <<start_block(which), b>>
<1>1. b \in Nat /\ b < bitchunks_per_block
  BY Geometry DEF SmallMaps, Maps
<1>2. b \div bitchunks_per_block = 0 /\ b % bitchunks_per_block = b
  BY <1>1, SmallDiv, Geometry
<1>3. ((b \div FS_BITCHUNK_BITS) * FS_BITCHUNK_BITS) + (b % FS_BITCHUNK_BITS) = b
  BY <1>1, DivMod, Geometry
<1>4. start_block(which) + 0 = start_block(which)
  BY Geometry
<1> QED BY <1>2, <1>3, <1>4 DEF BitPlace

\* Likewise the on-disk format.
LEMMA HomeOfBit ==
  ASSUME SmallMaps, NEW which \in Maps, NEW b \in 0 .. map_bits(which) - 1
  PROVE  HomeOf(which, b) = <<start_block(which), b>>
<1>1. b \in Nat /\ b < BlockBits /\ BlockBits \in Nat
  BY Geometry DEF SmallMaps, Maps
<1>2. b \div BlockBits = 0 /\ b % BlockBits = b
  BY <1>1, SmallDiv
<1> QED BY <1>2, Geometry DEF HomeOf

\* The scan visits blocks of the map, and starts at the first of them.
LEMMA Visits ==
  ASSUME SmallMaps, NEW which \in Maps, NEW o \in Nat
  PROVE  /\ Origin(which, o) \in 0 .. map_bits(which) - 1
         /\ Origin(which, o) \div bitchunks_per_block = 0
         /\ Origin(which, o) % bitchunks_per_block = Origin(which, o)
         /\ \A k \in 0 .. bcount(which) - 1 : VisitedBlock(which, o, k) \in Nat
         /\ VisitedBlock(which, o, 0) = 0
         /\ VisitedBlock(which, o, bit_blocks(which)) = 0
<1>1. Origin(which, o) \in 0 .. map_bits(which) - 1
  BY Geometry DEF Origin
<1>2. Origin(which, o) \in Nat /\ Origin(which, o) < bitchunks_per_block
  BY <1>1, Geometry DEF SmallMaps, Maps
<1>3. /\ Origin(which, o) \div bitchunks_per_block = 0
      /\ Origin(which, o) % bitchunks_per_block = Origin(which, o)
  BY <1>2, SmallDiv, Geometry
<1>4. \A k : VisitedBlock(which, o, k) =
        IF k = 0 THEN 0
        ELSE ((IF 1 >= bit_blocks(which) THEN 0 ELSE 1) + (k - 1)) % bit_blocks(which)
  BY <1>3 DEF VisitedBlock
<1>5. \A k \in 0 .. bcount(which) - 1 : VisitedBlock(which, o, k) \in Nat
  BY <1>4, Geometry DEF bcount
<1>6. VisitedBlock(which, o, bit_blocks(which)) = 0
  <2> DEFINE nb == bit_blocks(which)
  <2>1. nb \in Nat /\ nb > 0
    BY Geometry
  <2>2. CASE nb = 1
    BY <1>4, <2>2
  <2>3. CASE nb > 1
    <3>1. VisitedBlock(which, o, nb) = nb % nb
      BY <1>4, <2>3, <2>1
    <3>2. nb % nb = 0
      BY <2>1
    <3> QED BY <3>1, <3>2
  <2> QED BY <2>1, <2>2, <2>3
<1> QED BY <1>1, <1>3, <1>4, <1>5, <1>6
-----------------------------------------------------------------------------
\* Where the scan stops, it has found an unmarked bit of the map, in its place.
LEMMA ScanStops ==
  ASSUME SmallMaps, NEW which \in Maps, NEW o \in Nat,
         NEW k \in 0 .. bcount(which) - 1, NEW p \in 0 .. BlockBits - 1,
         ScanStopsAt(which, o, k, p)
  PROVE  /\ VisitedBlock(which, o, k) = 0
         /\ BitNumber(which, o, k, p) = p
         /\ p \in 0 .. map_bits(which) - 1
         /\ <<start_block(which), p>> \notin disk
<1> DEFINE v == VisitedBlock(which, o, k)
<1>1. v \in Nat
  BY Visits
<1>2. p \in Nat /\ p >= 0
  BY Geometry
<1>3. (v * bitchunks_per_block) + p < map_bits(which)
  BY DEF ScanStopsAt, BitNumber
<1>4. map_bits(which) <= bitchunks_per_block
  BY DEF SmallMaps, Maps
<1>5. v = 0
  <2>1. SUFFICES ASSUME v > 0 PROVE FALSE
    BY <1>1
  <2>2. v * bitchunks_per_block >= bitchunks_per_block
    BY <1>1, <2>1, TimesAtLeast, Geometry
  <2>3. v * bitchunks_per_block \in Nat
    BY <1>1, Geometry
  <2> QED BY <2>2, <2>3, <1>2, <1>3, <1>4, Geometry
<1>6. BitNumber(which, o, k, p) = p
  BY <1>5, <1>2, Geometry DEF BitNumber
<1>7. p \in 0 .. map_bits(which) - 1
  BY <1>6, <1>2, Geometry DEF ScanStopsAt
<1>8. <<start_block(which), p>> \notin disk
  BY <1>5, Geometry DEF ScanStopsAt, FreeIn
<1> QED BY <1>5, <1>6, <1>7, <1>8

\* A scan that fails has seen every bit of the map marked.
LEMMA ScanFailsOnFullMap ==
  ASSUME SmallMaps, NEW which \in Maps, NEW o \in Nat, ScanFails(which, o),
         NEW b \in 0 .. map_bits(which) - 1
  PROVE  checkBit(which, b)
<1> DEFINE nb == bit_blocks(which)
<1>1. nb \in 0 .. bcount(which) - 1 /\ nb # 0
  BY Geometry DEF bcount
<1>2. VisitedBlock(which, o, nb) = 0 /\ FirstWord(which, o, nb) = 0
  BY <1>1, Visits DEF FirstWord
<1>3. b \in 0 .. BlockBits - 1 /\ b \in Nat
  BY Geometry DEF SmallMaps, Maps
<1>4. BitNumber(which, o, nb, b) = b
  BY <1>2, <1>3, Geometry DEF BitNumber
<1>5. b \notin FreeIn(which, o, nb)
  BY <1>1, <1>4, <1>3, Geometry DEF ScanFails
<1>6. <<start_block(which), b>> \in disk
  BY <1>5, <1>2, <1>3, Geometry DEF FreeIn
<1> QED BY <1>6, PlaceOfBit DEF checkBit

\* What alloc_bit returns: a bit that was unmarked, with its place to mark, or
\* NO_BIT on a full map.
LEMMA AllocBit ==
  ASSUME SmallMaps, NEW which \in Maps, NEW o \in Nat, checkBit(which, 0),
         NEW r \in alloc_bit(which, o)
  PROVE  \/ /\ r.bit \in 1 .. map_bits(which) - 1
            /\ r.marks = {<<start_block(which), r.bit>>}
            /\ ~checkBit(which, r.bit)
         \/ /\ r.bit = NO_BIT
            /\ r.marks = {}
            /\ \A b \in 0 .. map_bits(which) - 1 : checkBit(which, b)
<1>1. CASE r = [bit |-> NO_BIT, marks |-> {}] /\ ScanFails(which, o)
  BY <1>1, ScanFailsOnFullMap
<1>2. CASE \E k \in 0 .. bcount(which) - 1, p \in 0 .. BlockBits - 1 :
             /\ ScanStopsAt(which, o, k, p)
             /\ r = [bit |-> BitNumber(which, o, k, p),
                     marks |-> {<<start_block(which) + VisitedBlock(which, o, k), p>>}]
  <2>1. PICK k \in 0 .. bcount(which) - 1, p \in 0 .. BlockBits - 1 :
             /\ ScanStopsAt(which, o, k, p)
             /\ r = [bit |-> BitNumber(which, o, k, p),
                     marks |-> {<<start_block(which) + VisitedBlock(which, o, k), p>>}]
    BY <1>2
  <2>2. /\ VisitedBlock(which, o, k) = 0
        /\ BitNumber(which, o, k, p) = p
        /\ p \in 0 .. map_bits(which) - 1
        /\ <<start_block(which), p>> \notin disk
    BY <2>1, ScanStops
  <2>3. r.bit = p /\ r.marks = {<<start_block(which), p>>}
    BY <2>1, <2>2, Geometry
  <2>4. ~checkBit(which, p)
    BY <2>2, PlaceOfBit DEF checkBit
  <2>5. p # 0
    BY <2>4
  <2> QED BY <2>2, <2>3, <2>4, <2>5, Geometry
<1> QED BY <1>1, <1>2 DEF alloc_bit, Scanned

\* Started at a bit below which all are marked, it returns the lowest free bit.
LEMMA AllocLowestBit ==
  ASSUME SmallMaps, NEW which \in Maps, NEW o \in Nat, o < map_bits(which),
         \A b \in 0 .. o - 1 : checkBit(which, b),
         NEW r \in alloc_bit(which, o), r.bit # NO_BIT,
         NEW b \in 0 .. r.bit - 1
  PROVE  checkBit(which, b)
<1>1. Origin(which, o) = o
  BY Geometry DEF Origin
<1>2. PICK k \in 0 .. bcount(which) - 1, p \in 0 .. BlockBits - 1 :
           /\ ScanStopsAt(which, o, k, p)
           /\ r = [bit |-> BitNumber(which, o, k, p),
                   marks |-> {<<start_block(which) + VisitedBlock(which, o, k), p>>}]
  BY DEF alloc_bit, Scanned
<1>3. /\ VisitedBlock(which, o, k) = 0
      /\ BitNumber(which, o, k, p) = p
      /\ p \in 0 .. map_bits(which) - 1
      /\ <<start_block(which), p>> \notin disk
  BY <1>2, ScanStops
<1>4. b \in Nat /\ b < p /\ b \in 0 .. map_bits(which) - 1 /\ b \in 0 .. BlockBits - 1
  BY <1>2, <1>3, Geometry
<1>5. SUFFICES ASSUME ~checkBit(which, b) PROVE FALSE
  OBVIOUS
<1>6. <<start_block(which), b>> \notin disk
  BY <1>4, <1>5, PlaceOfBit DEF checkBit
<1>7. ~(b < o)
  BY <1>4, <1>5
<1>8. FirstWord(which, o, k) * FS_BITCHUNK_BITS <= b
  <2>1. CASE k = 0
    <3>1. FirstWord(which, o, k) = o \div FS_BITCHUNK_BITS
      BY <2>1, <1>1, Visits DEF FirstWord
    <3>2. /\ o = ((o \div FS_BITCHUNK_BITS) * FS_BITCHUNK_BITS) + (o % FS_BITCHUNK_BITS)
          /\ o % FS_BITCHUNK_BITS \in Nat
          /\ o \div FS_BITCHUNK_BITS \in Nat
      BY <1>1, DivMod, Geometry
    <3>3. (o \div FS_BITCHUNK_BITS) * FS_BITCHUNK_BITS \in Nat
      BY <3>2, Geometry
    <3> QED BY <3>1, <3>2, <3>3, <1>1, <1>4, <1>7
  <2>2. CASE k # 0
    <3>1. FirstWord(which, o, k) = 0
      BY <2>2 DEF FirstWord
    <3> QED BY <3>1, <1>4, Geometry
  <2> QED BY <2>1, <2>2
<1>9. b \in FreeIn(which, o, k)
  <2>1. start_block(which) + 0 = start_block(which)
    BY Geometry
  <2>2. b \in FirstWord(which, o, k) * FS_BITCHUNK_BITS .. BlockBits - 1
    <3>1. FirstWord(which, o, k) \in Nat
      <4>1. CASE k = 0
        <5>1. FirstWord(which, o, k) = o \div FS_BITCHUNK_BITS
          BY <4>1, <1>1, Visits DEF FirstWord
        <5> QED BY <5>1, <1>1, Geometry
      <4>2. CASE k # 0
        BY <4>2 DEF FirstWord
      <4> QED BY <4>1, <4>2
    <3> QED BY <3>1, <1>8, <1>4, Geometry
  <2> QED BY <2>1, <2>2, <1>3, <1>6 DEF FreeIn
<1>10. p <= b
  BY <1>2, <1>9 DEF ScanStopsAt
<1> QED BY <1>10, <1>4, <1>3, Geometry
-----------------------------------------------------------------------------
(***************************************************************************)
(* The inductive invariant.  MapsMatchUse alone is not inductive: a bit may *)
(* be freed twice unless the pending frees are of distinct numbers that no  *)
(* owner holds, and an allocation may be lost unless one reply at a time is *)
(* on its way to the client that asked.                                     *)
(***************************************************************************)
FreeOp(which) == IF which = IMAP THEN "FreeInode" ELSE "FreeZone"
AllocOp(which) == IF which = IMAP THEN "AllocInode" ELSE "AllocZone"

Freeing(c, which, n) ==
  pc[c] = "sending" /\ req[c].op = FreeOp(which) /\ req[c].num = n
Allocating(which, n) ==
  server = "reply" /\ res.ok /\ res.op = AllocOp(which) /\ res.num = n

Accounted(which, n) ==
  \/ <<which, n>> \in inuse
  \/ \E c \in Clients : Freeing(c, which, n)
  \/ Allocating(which, n)

\* Every usable bit is marked iff its number is accounted for, once.
Accounts ==
  \A which \in Maps : \A b \in 1 .. map_bits(which) - 1 :
    LET n == NumberOf(which, b) IN
    /\ <<start_block(which), b>> \in disk <=> Accounted(which, n)
    /\ \A c \in Clients : Freeing(c, which, n) =>
         /\ <<which, n>> \notin inuse
         /\ \A d \in Clients : Freeing(d, which, n) => d = c
    /\ Allocating(which, n) =>
         /\ <<which, n>> \notin inuse
         /\ \A c \in Clients : ~Freeing(c, which, n)

Reserved == \A which \in Maps : <<start_block(which), 0>> \in disk

Hint == \A b \in 0 .. i_search - 1 : <<start_block(IMAP), b>> \in disk

\* What an owner holds, or is given, is a number of the device.
Holdings ==
  /\ inuse \subseteq UNION {{<<which, n>> : n \in Usable(which)} : which \in Maps}
  /\ \A which \in Maps : Allocating(which, res.num) => res.num \in Usable(which)

IdleHasNoRequest == \A c \in Clients : pc[c] = "idle" <=> req[c] = NoRequest

IInv ==
  /\ TypeOK /\ Accounts /\ Reserved /\ Hint /\ Holdings /\ IdleHasNoRequest
  /\ RepliesReachCaller /\ NeverPanics
-----------------------------------------------------------------------------
LEMMA NumberOfBit ==
  ASSUME NEW which \in Maps, NEW b \in 1 .. map_bits(which) - 1
  PROVE  /\ NumberOf(which, b) \in Nat
         /\ NumberOf(which, b) \in Usable(which)
         /\ NumberOf(which, b) <= Inodes + Zones
         /\ \A e \in 1 .. map_bits(which) - 1 :
              NumberOf(which, e) = NumberOf(which, b) => e = b
  BY GeometryAssumption DEF NumberOf, Usable, map_bits, Maps

\* The initial image satisfies the invariant.
LEMMA InitIInv == ASSUME SmallMaps, Init PROVE IInv
<1>1. PICK used \in SUBSET (UsablePlaces(IMAP) \cup UsablePlaces(ZMAP)),
           pad \in {{}, PadPlaces} : disk = used \cup pad \cup ReservedPlaces
  BY DEF Init
<1>2. \A which \in Maps : \A b : b \in 0 .. map_bits(which) - 1 =>
         HomeOf(which, b) = <<start_block(which), b>>
  BY HomeOfBit
<1>3. \A which \in Maps : \A b \in 0 .. map_bits(which) - 1 :
         <<start_block(which), b>> \in Positions
  <2> SUFFICES ASSUME NEW which \in Maps, NEW b \in 0 .. map_bits(which) - 1
               PROVE  <<start_block(which), b>> \in Positions
    OBVIOUS
  <2>1. b \in 0 .. BlockBits - 1
    BY Geometry DEF SmallMaps, Maps
  <2>2. start_block(which) \in 0 .. ImapBlocks + ZmapBlocks - 1
    BY GeometryAssumption DEF start_block
  <2> QED BY <2>1, <2>2 DEF Positions
<1>4. /\ UsablePlaces(IMAP) \subseteq Positions /\ UsablePlaces(ZMAP) \subseteq Positions
      /\ ReservedPlaces \subseteq Positions
  <2>1. \A which \in Maps : UsablePlaces(which) \subseteq Positions
    BY <1>2, <1>3, Geometry DEF UsablePlaces
  <2>2. ReservedPlaces \subseteq Positions
    BY <1>2, <1>3, Geometry DEF ReservedPlaces, Maps
  <2> QED BY <2>1, <2>2 DEF Maps
<1>5. disk \subseteq Positions
  BY <1>1, <1>4 DEF PadPlaces
<1>6. inuse = {<<IMAP, NumberOf(IMAP, b)>> :
                 b \in {b \in 1 .. map_bits(IMAP) - 1 : HomeOf(IMAP, b) \in disk}}
        \cup {<<ZMAP, NumberOf(ZMAP, b)>> :
                 b \in {b \in 1 .. map_bits(ZMAP) - 1 : HomeOf(ZMAP, b) \in disk}}
  BY DEF Init
<1>7. IMAP # ZMAP
  BY DEF IMAP, ZMAP
<1>8. \A x \in inuse : \E which \in Maps : \E b \in 1 .. map_bits(which) - 1 :
         x = <<which, NumberOf(which, b)>>
  BY <1>6 DEF Maps
<1>9. inuse \subseteq {IMAP, ZMAP} \X (0 .. Inodes + Zones)
  BY <1>8, NumberOfBit, GeometryAssumption DEF Maps
<1>10. TypeOK
  BY <1>5, <1>9, GeometryAssumption, Geometry DEF Init, TypeOK, NoResponse, Responses, Maps
<1>11. Holdings
  BY <1>8, NumberOfBit DEF Holdings, Allocating, Init
<1>12. Reserved
  BY <1>1, <1>2, Geometry DEF Reserved, ReservedPlaces, Maps
<1>13. \A which \in Maps : \A b \in 1 .. map_bits(which) - 1 :
         <<which, NumberOf(which, b)>> \in inuse <=> HomeOf(which, b) \in disk
  <2>1. \A b \in 1 .. map_bits(IMAP) - 1 :
          <<IMAP, NumberOf(IMAP, b)>> \in inuse <=> HomeOf(IMAP, b) \in disk
    BY <1>6, <1>7, NumberOfBit DEF Maps
  <2>2. \A b \in 1 .. map_bits(ZMAP) - 1 :
          <<ZMAP, NumberOf(ZMAP, b)>> \in inuse <=> HomeOf(ZMAP, b) \in disk
    BY <1>6, <1>7, NumberOfBit DEF Maps
  <2> QED BY <2>1, <2>2 DEF Maps
<1>14. Accounts
  <2>1. \A which \in Maps : \A b \in 1 .. map_bits(which) - 1 :
          b \in 0 .. map_bits(which) - 1
    BY Geometry
  <2>2. /\ \A c \in Clients : \A which, n : ~Freeing(c, which, n)
        /\ \A which, n : ~Allocating(which, n)
    BY DEF Init, Freeing, Allocating
  <2> QED BY <1>2, <1>13, <2>1, <2>2 DEF Accounts, Accounted
<1>15. Hint
  BY DEF Hint, Init
<1>16. IdleHasNoRequest /\ RepliesReachCaller /\ NeverPanics
  BY DEF IdleHasNoRequest, RepliesReachCaller, NeverPanics, Init
<1> QED BY <1>10, <1>11, <1>12, <1>14, <1>15, <1>16 DEF IInv
-----------------------------------------------------------------------------
(* The effect of a step on Accounts, in the three shapes it has. *)

LEMMA OpsDiffer ==
  /\ \A which \in Maps, other \in Maps : AllocOp(which) # FreeOp(other)
  /\ \A which \in Maps, other \in Maps : AllocOp(which) = AllocOp(other) => which = other
  /\ \A which \in Maps, other \in Maps : FreeOp(which) = FreeOp(other) => which = other
  BY DEF Maps, AllocOp, FreeOp, IMAP, ZMAP

\* An unmarked bit is marked, and its number is the reply.
LEMMA AllocAccounts ==
  ASSUME IInv, NEW c \in Clients, NEW which \in Maps,
         NEW b \in 1 .. map_bits(which) - 1,
         <<start_block(which), b>> \notin disk,
         Receive(c, AllocOp(which)),
         disk' = disk \cup {<<start_block(which), b>>},
         Respond(AllocOp(which), TRUE, NumberOf(which, b))
  PROVE  Accounts' /\ Reserved' /\ Holdings'
<1>1. \A d \in Clients : \A w \in Maps : \A n : Freeing(d, w, n)' <=> Freeing(d, w, n)
  BY OpsDiffer DEF Freeing, Receive, IInv, TypeOK
<1>2. \A w, n : ~Allocating(w, n)
  BY DEF Allocating, Receive
<1>3. \A w \in Maps : \A n : Allocating(w, n)' <=> w = which /\ n = NumberOf(which, b)
  BY OpsDiffer DEF Allocating, Respond
<1>4. inuse' = inuse
  BY DEF Receive
<1>5. \A w \in Maps : \A e \in 1 .. map_bits(w) - 1 :
        <<start_block(w), e>> \in disk' <=>
          \/ <<start_block(w), e>> \in disk
          \/ w = which /\ NumberOf(w, e) = NumberOf(which, b)
  <2> SUFFICES ASSUME NEW w \in Maps, NEW e \in 1 .. map_bits(w) - 1
               PROVE  <<start_block(w), e>> = <<start_block(which), b>> <=>
                        w = which /\ NumberOf(w, e) = NumberOf(which, b)
    OBVIOUS
  <2>1. start_block(w) = start_block(which) <=> w = which
    BY Geometry DEF Maps
  <2> QED BY <2>1, NumberOfBit
<1>6. Accounts'
  <2> SUFFICES ASSUME NEW w \in Maps, NEW e \in 1 .. map_bits(w) - 1
               PROVE  LET n == NumberOf(w, e) IN
                      /\ <<start_block(w), e>> \in disk' <=> Accounted(w, n)'
                      /\ \A d \in Clients : Freeing(d, w, n)' =>
                           /\ <<w, n>> \notin inuse'
                           /\ \A f \in Clients : Freeing(f, w, n)' => f = d
                      /\ Allocating(w, n)' =>
                           /\ <<w, n>> \notin inuse'
                           /\ \A d \in Clients : ~Freeing(d, w, n)'
    BY DEF Accounts
  <2> DEFINE n == NumberOf(w, e)
  <2>1. /\ <<start_block(w), e>> \in disk <=> Accounted(w, n)
        /\ \A d \in Clients : Freeing(d, w, n) =>
             /\ <<w, n>> \notin inuse
             /\ \A f \in Clients : Freeing(f, w, n) => f = d
    BY DEF IInv, Accounts
  <2>2. Accounted(w, n)' <=> Accounted(w, n) \/ (w = which /\ n = NumberOf(which, b))
    BY <1>1, <1>2, <1>3, <1>4 DEF Accounted
  <2>3. w = which /\ n = NumberOf(which, b) => ~Accounted(w, n)
    BY <2>1, NumberOfBit
  <2>4. Allocating(w, n)' => ~Accounted(w, n)
    BY <2>3, <1>3
  <2> QED BY <1>1, <1>4, <1>5, <2>1, <2>2, <2>4 DEF Accounted
<1>7. Reserved'
  BY DEF Reserved, IInv
<1>8. Holdings'
  BY <1>3, <1>4, NumberOfBit DEF Holdings, IInv
<1> QED BY <1>6, <1>7, <1>8

\* A marked bit is cleared, and its number is no longer being freed.
LEMMA FreeAccounts ==
  ASSUME IInv, NEW c \in Clients, NEW which \in Maps,
         NEW b \in 1 .. map_bits(which) - 1,
         Receive(c, FreeOp(which)), req[c].num = NumberOf(which, b),
         disk' = disk \ {<<start_block(which), b>>},
         Respond(FreeOp(which), TRUE, 0)
  PROVE  Accounts' /\ Reserved' /\ Holdings'
<1>1. \A d \in Clients : \A w \in Maps : \A n :
        Freeing(d, w, n)' <=> d # c /\ Freeing(d, w, n)
  BY DEF Freeing, Receive, IInv, TypeOK
<1>2. \A w, n : ~Allocating(w, n)
  BY DEF Allocating, Receive
<1>3. \A w \in Maps : \A n : ~Allocating(w, n)'
  BY OpsDiffer DEF Allocating, Respond
<1>4. inuse' = inuse
  BY DEF Receive
<1>5. \A w \in Maps : \A n : Freeing(c, w, n) <=> w = which /\ n = NumberOf(which, b)
  BY OpsDiffer DEF Freeing, Receive
<1>6. \A w \in Maps : \A e \in 1 .. map_bits(w) - 1 :
        <<start_block(w), e>> \in disk' <=>
          /\ <<start_block(w), e>> \in disk
          /\ ~(w = which /\ NumberOf(w, e) = NumberOf(which, b))
  <2> SUFFICES ASSUME NEW w \in Maps, NEW e \in 1 .. map_bits(w) - 1
               PROVE  <<start_block(w), e>> = <<start_block(which), b>> <=>
                        w = which /\ NumberOf(w, e) = NumberOf(which, b)
    OBVIOUS
  <2>1. start_block(w) = start_block(which) <=> w = which
    BY Geometry DEF Maps
  <2> QED BY <2>1, NumberOfBit
<1>7. Accounts'
  <2> SUFFICES ASSUME NEW w \in Maps, NEW e \in 1 .. map_bits(w) - 1
               PROVE  LET n == NumberOf(w, e) IN
                      /\ <<start_block(w), e>> \in disk' <=> Accounted(w, n)'
                      /\ \A d \in Clients : Freeing(d, w, n)' =>
                           /\ <<w, n>> \notin inuse'
                           /\ \A f \in Clients : Freeing(f, w, n)' => f = d
                      /\ Allocating(w, n)' =>
                           /\ <<w, n>> \notin inuse'
                           /\ \A d \in Clients : ~Freeing(d, w, n)'
    BY DEF Accounts
  <2> DEFINE n == NumberOf(w, e)
  <2>1. /\ <<start_block(w), e>> \in disk <=> Accounted(w, n)
        /\ \A d \in Clients : Freeing(d, w, n) =>
             /\ <<w, n>> \notin inuse
             /\ \A f \in Clients : Freeing(f, w, n) => f = d
    BY DEF IInv, Accounts
  <2>2. Accounted(w, n)' <=> Accounted(w, n) /\ ~(w = which /\ n = NumberOf(which, b))
    BY <1>1, <1>2, <1>3, <1>4, <1>5, <2>1 DEF Accounted
  <2> QED BY <1>1, <1>3, <1>4, <1>6, <2>1, <2>2
<1>8. Reserved'
  BY Geometry DEF Reserved, IInv
<1>9. Holdings'
  BY <1>3, <1>4 DEF Holdings, IInv
<1> QED BY <1>7, <1>8, <1>9

\* Nothing is marked or cleared: a refused allocation, an ignored free, Close.
LEMMA QuietAccounts ==
  ASSUME IInv, NEW c \in Clients, NEW op, NEW ok \in BOOLEAN, NEW num,
         Receive(c, op), UNCHANGED disk, Respond(op, ok, num),
         \A which \in Maps : op = AllocOp(which) => ~ok,
         \A which \in Maps : op = FreeOp(which) => req[c].num \notin Usable(which)
  PROVE  Accounts' /\ Reserved' /\ Holdings'
<1>1. \A d \in Clients : \A w \in Maps : \A n \in Usable(w) :
        Freeing(d, w, n)' <=> Freeing(d, w, n)
  BY DEF Freeing, Receive, IInv, TypeOK
<1>2. \A w, n : ~Allocating(w, n)
  BY DEF Allocating, Receive
<1>3. \A w \in Maps : \A n : ~Allocating(w, n)'
  BY DEF Allocating, Respond
<1>4. inuse' = inuse
  BY DEF Receive
<1>5. \A w \in Maps : \A e \in 1 .. map_bits(w) - 1 :
        Accounted(w, NumberOf(w, e))' <=> Accounted(w, NumberOf(w, e))
  BY <1>1, <1>2, <1>3, <1>4, NumberOfBit DEF Accounted
<1>6. Accounts'
  BY <1>1, <1>3, <1>4, <1>5, NumberOfBit DEF Accounts, IInv
<1>7. Reserved' /\ Holdings'
  BY <1>3, <1>4 DEF Reserved, Holdings, IInv
<1> QED BY <1>6, <1>7
-----------------------------------------------------------------------------
(* One lemma per action. *)

LEMMA RequestShape ==
  ASSUME NEW r \in Requests
  PROVE  /\ r # NoRequest
         /\ r.op \in {"AllocInode", "AllocZone", "FreeInode", "FreeZone", "Close"}
         /\ r.op = "AllocZone" => r.num \in {0} \cup Usable(ZMAP)
         /\ r.op = "FreeInode" => r.num \in Usable(IMAP) \cup {0, Inodes + 1}
         /\ r.op = "FreeZone" => r.num \in Usable(ZMAP) \cup {0, Zones}
  BY DEF Requests, NoRequest

LEMMA UsableNumbers ==
  /\ \A n \in Usable(IMAP) : n \in Nat /\ n > 0 /\ n <= Inodes
  /\ \A z \in Usable(ZMAP) :
       /\ z \in Nat /\ z >= Firstdatazone /\ z < Zones
       /\ z - (Firstdatazone - 1) \in 1 .. map_bits(ZMAP) - 1
       /\ z = NumberOf(ZMAP, z - (Firstdatazone - 1))
  BY GeometryAssumption DEF Usable, NumberOf, map_bits, IMAP, ZMAP

\* Taking a request and answering it keeps the rendezvous in order.
LEMMA ServeControl ==
  ASSUME IInv, NEW c \in Clients, NEW ok \in BOOLEAN, NEW num \in Nat,
         NEW op \in {"AllocInode", "AllocZone", "FreeInode", "FreeZone", "Close"},
         Receive(c, op), Respond(op, ok, num)
  PROVE  /\ IdleHasNoRequest' /\ RepliesReachCaller' /\ NeverPanics'
         /\ pc' \in [Clients -> {"idle", "sending", "receiving"}]
         /\ req' \in [Clients -> Requests \cup {NoRequest}]
         /\ inuse' \subseteq {IMAP, ZMAP} \X (0 .. Inodes + Zones)
         /\ server' \in {"loop", "reply", "closed", "panicked"}
         /\ res' \in Responses
<1>1. /\ pc \in [Clients -> {"idle", "sending", "receiving"}]
      /\ pc' = [pc EXCEPT ![c] = "receiving"] /\ pc[c] = "sending"
      /\ req' = req /\ inuse' = inuse /\ req[c].op = op
      /\ server = "loop" /\ server' = "reply"
      /\ res' = [op |-> op, ok |-> ok, num |-> num]
  BY DEF IInv, TypeOK, Receive, Respond
<1>2. pc' \in [Clients -> {"idle", "sending", "receiving"}]
  BY <1>1
<1>3. IdleHasNoRequest'
  BY <1>1 DEF IInv, IdleHasNoRequest
<1>4. \A d \in Clients : pc[d] # "receiving"
  BY <1>1 DEF IInv, RepliesReachCaller
<1>5. RepliesReachCaller'
  BY <1>1, <1>4 DEF RepliesReachCaller
<1>6. res' \in Responses
  BY <1>1 DEF Responses
<1> QED BY <1>1, <1>2, <1>3, <1>5, <1>6 DEF NeverPanics, IInv, TypeOK

LEMMA AllocInodeStep ==
  ASSUME SmallMaps, IInv, NEW c \in Clients, alloc_inode(c)
  PROVE  IInv'
<1>1. PICK r \in alloc_bit(IMAP, i_search) :
           /\ disk' = disk \cup r.marks
           /\ StartHere(r.bit)
           /\ Respond("AllocInode", r.bit # NO_BIT, r.bit)
  BY DEF alloc_inode
<1>2. Receive(c, "AllocInode") /\ z_search' = z_search
  BY DEF alloc_inode
<1>3. IMAP \in Maps /\ AllocOp(IMAP) = "AllocInode" /\ \A w \in Maps : FreeOp(w) # "AllocInode"
  BY DEF Maps, AllocOp, FreeOp, IMAP, ZMAP
<1>4. /\ map_bits(IMAP) = Inodes + 1 /\ map_bits(IMAP) \in Nat
      /\ i_search \in Nat /\ i_search < map_bits(IMAP)
  BY GeometryAssumption DEF IInv, TypeOK, map_bits, IMAP
<1>5. \A b \in 0 .. map_bits(IMAP) - 1 :
        checkBit(IMAP, b) <=> <<start_block(IMAP), b>> \in disk
  BY <1>3, PlaceOfBit DEF checkBit
<1>6. checkBit(IMAP, 0)
  <2>1. 0 \in 0 .. map_bits(IMAP) - 1
    BY <1>4
  <2>2. <<start_block(IMAP), 0>> \in disk
    BY <1>3 DEF IInv, Reserved
  <2> QED BY <2>1, <2>2, <1>5
<1>7. \A b \in 0 .. i_search - 1 : checkBit(IMAP, b)
  <2>1. \A b \in 0 .. i_search - 1 : b \in 0 .. map_bits(IMAP) - 1
    BY <1>4
  <2>2. \A b \in 0 .. i_search - 1 : <<start_block(IMAP), b>> \in disk
    BY DEF IInv, Hint
  <2> QED BY <2>1, <2>2, <1>5
<1>8. disk \subseteq Positions
  BY DEF IInv, TypeOK
<1>9. CASE r.bit = NO_BIT
  <2>1. r.marks = {}
    BY <1>9, <1>3, <1>4, <1>6, AllocBit DEF NO_BIT
  <2>2. disk' = disk /\ i_search' = i_search
    BY <2>1, <1>1, <1>9 DEF StartHere
  <2>3. Respond("AllocInode", FALSE, 0)
    BY <1>1, <1>9 DEF NO_BIT
  <2>4. Accounts' /\ Reserved' /\ Holdings'
    BY <2>2, <2>3, <1>2, <1>3, QuietAccounts
  <2>5. /\ IdleHasNoRequest' /\ RepliesReachCaller' /\ NeverPanics'
        /\ pc' \in [Clients -> {"idle", "sending", "receiving"}]
        /\ req' \in [Clients -> Requests \cup {NoRequest}]
        /\ inuse' \subseteq {IMAP, ZMAP} \X (0 .. Inodes + Zones)
        /\ server' \in {"loop", "reply", "closed", "panicked"}
        /\ res' \in Responses
    BY <2>3, <1>2, ServeControl
  <2>6. TypeOK'
    BY <2>2, <2>5, <1>2 DEF IInv, TypeOK
  <2>7. Hint'
    BY <2>2 DEF IInv, Hint
  <2> QED BY <2>4, <2>5, <2>6, <2>7 DEF IInv
<1>10. CASE r.bit # NO_BIT
  <2> DEFINE b == r.bit
  <2>1. /\ b \in 1 .. map_bits(IMAP) - 1
        /\ r.marks = {<<start_block(IMAP), b>>}
        /\ ~checkBit(IMAP, b)
    BY <1>10, <1>3, <1>4, <1>6, AllocBit
  <2>2. b \in Nat /\ NumberOf(IMAP, b) = b
    BY <2>1 DEF NumberOf
  <2>3. /\ disk' = disk \cup {<<start_block(IMAP), b>>} /\ i_search' = b
        /\ Respond("AllocInode", TRUE, b)
    BY <2>1, <1>1, <1>10 DEF StartHere
  <2>4. <<start_block(IMAP), b>> \notin disk
    BY <2>1, <1>5
  <2>5. Accounts' /\ Reserved' /\ Holdings'
    BY <2>1, <2>2, <2>3, <2>4, <1>2, <1>3, AllocAccounts
  <2>6. /\ IdleHasNoRequest' /\ RepliesReachCaller' /\ NeverPanics'
        /\ pc' \in [Clients -> {"idle", "sending", "receiving"}]
        /\ req' \in [Clients -> Requests \cup {NoRequest}]
        /\ inuse' \subseteq {IMAP, ZMAP} \X (0 .. Inodes + Zones)
        /\ server' \in {"loop", "reply", "closed", "panicked"}
        /\ res' \in Responses
    BY <2>2, <2>3, <1>2, ServeControl
  <2>7. <<start_block(IMAP), b>> \in Positions
    BY <2>1, <1>3, Geometry, GeometryAssumption DEF Positions, start_block, SmallMaps, Maps
  <2>8. TypeOK'
    BY <2>1, <2>3, <2>6, <2>7, <1>2, <1>4, <1>8, GeometryAssumption DEF IInv, TypeOK
  <2>9. \A e \in 0 .. b - 1 : checkBit(IMAP, e)
    BY <1>3, <1>4, <1>7, <1>10, AllocLowestBit
  <2>10. \A e \in 0 .. b - 1 : <<start_block(IMAP), e>> \in disk
    <3>1. \A e \in 0 .. b - 1 : e \in 0 .. map_bits(IMAP) - 1
      BY <2>1, <1>4
    <3> QED BY <3>1, <2>9, <1>5
  <2>11. Hint'
    BY <2>3, <2>10 DEF Hint
  <2> QED BY <2>5, <2>6, <2>8, <2>11 DEF IInv
<1> QED BY <1>9, <1>10

LEMMA AllocZoneStep ==
  ASSUME SmallMaps, IInv, NEW c \in Clients, alloc_zone(c)
  PROVE  IInv'
<1> DEFINE zstart == req[c].num
           o == IF zstart <= Firstdatazone
                THEN z_search ELSE zstart - (Firstdatazone - 1)
<1>1. PICK r \in alloc_bit(ZMAP, o) :
           /\ disk' = disk \cup r.marks
           /\ IF r.bit = NO_BIT
              THEN UNCHANGED z_search /\ Respond("AllocZone", FALSE, 0)
              ELSE LowerZSearch(r.bit) /\ Respond("AllocZone", TRUE, NumberOf(ZMAP, r.bit))
  BY DEF alloc_zone
<1>2. Receive(c, "AllocZone") /\ i_search' = i_search
  BY DEF alloc_zone
<1>3. /\ IMAP \in Maps /\ ZMAP \in Maps /\ AllocOp(ZMAP) = "AllocZone"
      /\ \A w \in Maps : FreeOp(w) # "AllocZone"
  BY DEF Maps, AllocOp, FreeOp, IMAP, ZMAP
<1>4. map_bits(ZMAP) \in Nat /\ z_search \in 0 .. map_bits(ZMAP) - 1
  BY <1>3, Geometry DEF IInv, TypeOK
<1>5. o \in Nat
  <2>1. zstart \in {0} \cup Usable(ZMAP)
    <3>1. req[c] \in Requests
      BY <1>2 DEF IInv, TypeOK, Receive, NoRequest
    <3> QED BY <3>1, <1>2, RequestShape DEF Receive
  <2>2. zstart \in Nat
    BY <2>1, UsableNumbers
  <2> QED BY <2>2, <1>4, GeometryAssumption
<1> HIDE DEF o
<1>6. \A b \in 0 .. map_bits(ZMAP) - 1 :
        checkBit(ZMAP, b) <=> <<start_block(ZMAP), b>> \in disk
  BY <1>3, PlaceOfBit DEF checkBit
<1>7. checkBit(ZMAP, 0)
  <2>1. 0 \in 0 .. map_bits(ZMAP) - 1
    BY <1>3, Geometry
  <2>2. <<start_block(ZMAP), 0>> \in disk
    BY <1>3 DEF IInv, Reserved
  <2> QED BY <2>1, <2>2, <1>6
<1>8. disk \subseteq Positions
  BY DEF IInv, TypeOK
<1>9. CASE r.bit = NO_BIT
  <2>1. r.marks = {}
    BY <1>9, <1>3, <1>5, <1>7, AllocBit DEF NO_BIT
  <2>2. disk' = disk /\ z_search' = z_search /\ Respond("AllocZone", FALSE, 0)
    BY <2>1, <1>1, <1>9
  <2>3. Accounts' /\ Reserved' /\ Holdings'
    BY <2>2, <1>2, <1>3, QuietAccounts
  <2>4. /\ IdleHasNoRequest' /\ RepliesReachCaller' /\ NeverPanics'
        /\ pc' \in [Clients -> {"idle", "sending", "receiving"}]
        /\ req' \in [Clients -> Requests \cup {NoRequest}]
        /\ inuse' \subseteq {IMAP, ZMAP} \X (0 .. Inodes + Zones)
        /\ server' \in {"loop", "reply", "closed", "panicked"}
        /\ res' \in Responses
    BY <2>2, <1>2, ServeControl
  <2>5. TypeOK' /\ Hint'
    BY <2>2, <2>4, <1>2 DEF IInv, TypeOK, Hint
  <2> QED BY <2>3, <2>4, <2>5 DEF IInv
<1>10. CASE r.bit # NO_BIT
  <2> DEFINE b == r.bit
  <2>1. /\ b \in 1 .. map_bits(ZMAP) - 1
        /\ r.marks = {<<start_block(ZMAP), b>>}
        /\ ~checkBit(ZMAP, b)
    BY <1>10, <1>3, <1>5, <1>7, AllocBit
  <2>2. /\ disk' = disk \cup {<<start_block(ZMAP), b>>} /\ LowerZSearch(b)
        /\ Respond("AllocZone", TRUE, NumberOf(ZMAP, b))
    BY <2>1, <1>1, <1>10
  <2>3. <<start_block(ZMAP), b>> \notin disk
    BY <2>1, <1>4, <1>6
  <2>4. Accounts' /\ Reserved' /\ Holdings'
    BY <2>1, <2>2, <2>3, <1>2, <1>3, AllocAccounts
  <2>5. NumberOf(ZMAP, b) \in Nat
    BY <2>1, <1>3, NumberOfBit
  <2>6. /\ IdleHasNoRequest' /\ RepliesReachCaller' /\ NeverPanics'
        /\ pc' \in [Clients -> {"idle", "sending", "receiving"}]
        /\ req' \in [Clients -> Requests \cup {NoRequest}]
        /\ inuse' \subseteq {IMAP, ZMAP} \X (0 .. Inodes + Zones)
        /\ server' \in {"loop", "reply", "closed", "panicked"}
        /\ res' \in Responses
    BY <2>2, <2>5, <1>2, ServeControl
  <2>7. <<start_block(ZMAP), b>> \in Positions
    BY <2>1, <1>3, Geometry, GeometryAssumption DEF Positions, start_block, SmallMaps, Maps
  <2>8. z_search' \in 0 .. map_bits(ZMAP) - 1
    BY <2>1, <2>2, <1>4 DEF LowerZSearch
  <2>9. TypeOK'
    BY <2>2, <2>6, <2>7, <2>8, <1>2, <1>8 DEF IInv, TypeOK
  <2>10. Hint'
    BY <2>2, <1>2 DEF IInv, Hint
  <2> QED BY <2>4, <2>6, <2>9, <2>10 DEF IInv
<1> QED BY <1>9, <1>10

\* A free of bit b by its holder finds the bit marked, and clears it.
LEMMA FreeBit ==
  ASSUME SmallMaps, IInv, NEW c \in Clients, NEW which \in Maps,
         NEW b \in 1 .. map_bits(which) - 1,
         Receive(c, FreeOp(which)), req[c].num = NumberOf(which, b)
  PROVE  /\ BitPlace(which, b) = <<start_block(which), b>>
         /\ checkBit(which, b)
<1>1. b \in 0 .. map_bits(which) - 1
  BY Geometry
<1>2. BitPlace(which, b) = <<start_block(which), b>>
  BY <1>1, PlaceOfBit
<1>3. Freeing(c, which, NumberOf(which, b))
  BY DEF Freeing, Receive
<1>4. Accounted(which, NumberOf(which, b))
  BY <1>3 DEF Accounted
<1> QED BY <1>2, <1>4 DEF IInv, Accounts, checkBit

\* A free that is ignored, or Close, changes nothing but the rendezvous.
LEMMA IgnoreStep ==
  ASSUME IInv, NEW c \in Clients, NEW op \in {"FreeInode", "FreeZone", "Close"},
         Receive(c, op), Ignore(op),
         op = "FreeInode" => req[c].num \notin Usable(IMAP),
         op = "FreeZone" => req[c].num \notin Usable(ZMAP)
  PROVE  IInv'
<1>1. /\ \A w \in Maps : AllocOp(w) # op
      /\ \A w \in Maps : op = FreeOp(w) => req[c].num \notin Usable(w)
  BY DEF Maps, AllocOp, FreeOp, IMAP, ZMAP
<1>2. Respond(op, TRUE, 0) /\ UNCHANGED <<disk, i_search, z_search>>
  BY DEF Ignore
<1>3. Accounts' /\ Reserved' /\ Holdings'
  BY <1>1, <1>2, QuietAccounts
<1>4. /\ IdleHasNoRequest' /\ RepliesReachCaller' /\ NeverPanics'
      /\ pc' \in [Clients -> {"idle", "sending", "receiving"}]
      /\ req' \in [Clients -> Requests \cup {NoRequest}]
      /\ inuse' \subseteq {IMAP, ZMAP} \X (0 .. Inodes + Zones)
      /\ server' \in {"loop", "reply", "closed", "panicked"}
      /\ res' \in Responses
  BY <1>2, ServeControl
<1>5. TypeOK' /\ Hint'
  BY <1>2, <1>4 DEF IInv, TypeOK, Hint
<1> QED BY <1>3, <1>4, <1>5 DEF IInv

LEMMA FreeInodeStep ==
  ASSUME SmallMaps, IInv, NEW c \in Clients, free_inode(c)
  PROVE  IInv'
<1> DEFINE inum == req[c].num
<1>1. Receive(c, "FreeInode")
  BY DEF free_inode
<1>2. inum \in Usable(IMAP) \cup {0, Inodes + 1}
  <2>1. req[c] \in Requests
    BY <1>1 DEF IInv, TypeOK, Receive, NoRequest
  <2> QED BY <2>1, <1>1, RequestShape DEF Receive
<1>3. inum \in Nat
  BY <1>2, UsableNumbers, GeometryAssumption
<1>4. CASE (inum <= 0 \/ inum > Inodes) /\ Ignore("FreeInode")
  <2>1. inum \notin Usable(IMAP)
    BY <1>4, UsableNumbers, GeometryAssumption
  <2> QED BY <2>1, <1>1, <1>4, IgnoreStep
<1>5. CASE inum > 0 /\ inum <= Inodes
  <2>1. /\ IMAP \in Maps /\ FreeOp(IMAP) = "FreeInode"
        /\ inum \in 1 .. map_bits(IMAP) - 1 /\ inum = NumberOf(IMAP, inum)
    BY <1>3, <1>5, GeometryAssumption DEF Maps, FreeOp, map_bits, NumberOf, IMAP
  <2>2. BitPlace(IMAP, inum) = <<start_block(IMAP), inum>> /\ checkBit(IMAP, inum)
    BY <2>1, <1>1, FreeBit
  <2>3. /\ free_bit(IMAP, inum) /\ LowerISearch(inum)
        /\ Respond("FreeInode", TRUE, 0) /\ z_search' = z_search
    <3>1. ~(inum <= 0 \/ inum > Inodes)
      BY <1>3, <1>5, GeometryAssumption
    <3> HIDE DEF inum
    <3> QED BY <3>1, <2>2, Zenon DEF free_inode, PanicIfClear, inum
  <2>4. disk' = disk \ {<<start_block(IMAP), inum>>}
    BY <2>2, <2>3 DEF free_bit
  <2>5. Accounts' /\ Reserved' /\ Holdings'
    BY <2>1, <2>3, <2>4, <1>1, FreeAccounts
  <2>6. /\ IdleHasNoRequest' /\ RepliesReachCaller' /\ NeverPanics'
        /\ pc' \in [Clients -> {"idle", "sending", "receiving"}]
        /\ req' \in [Clients -> Requests \cup {NoRequest}]
        /\ inuse' \subseteq {IMAP, ZMAP} \X (0 .. Inodes + Zones)
        /\ server' \in {"loop", "reply", "closed", "panicked"}
        /\ res' \in Responses
    BY <2>3, <1>1, ServeControl
  <2>7. i_search \in 0 .. Inodes
    BY DEF IInv, TypeOK
  <2>8. i_search' \in 0 .. Inodes /\ i_search' <= i_search /\ i_search' <= inum
    BY <2>3, <2>7, <1>3, <1>5, GeometryAssumption DEF LowerISearch
  <2>9. TypeOK'
    BY <2>3, <2>4, <2>6, <2>8 DEF IInv, TypeOK
  <2>10. \A b \in 0 .. i_search' - 1 : b \in 0 .. i_search - 1 /\ b # inum
    <3>1. i_search \in Int /\ i_search' \in Int /\ inum \in Int
      BY <2>7, <2>8, <1>3
    <3>2. i_search' <= i_search /\ i_search' <= inum
      BY <2>8
    <3>3. \A i, j, n \in Int : j <= i /\ j <= n =>
            \A x \in 0 .. j - 1 : x \in 0 .. i - 1 /\ x # n
      OBVIOUS
    <3> HIDE DEF inum
    <3> QED BY <3>1, <3>2, <3>3
  <2>11. Hint'
    BY <2>4, <2>10 DEF IInv, Hint
  <2> QED BY <2>5, <2>6, <2>9, <2>11 DEF IInv
<1> QED BY <1>3, <1>4, <1>5, GeometryAssumption DEF free_inode

LEMMA FreeZoneStep ==
  ASSUME SmallMaps, IInv, NEW c \in Clients, free_zone(c)
  PROVE  IInv'
<1> DEFINE znum == req[c].num
           b == znum - (Firstdatazone - 1)
<1>1. Receive(c, "FreeZone")
  BY DEF free_zone
<1>2. znum \in Usable(ZMAP) \cup {0, Zones}
  <2>1. req[c] \in Requests
    BY <1>1 DEF IInv, TypeOK, Receive, NoRequest
  <2> QED BY <2>1, <1>1, RequestShape DEF Receive
<1>3. znum \in Nat
  BY <1>2, UsableNumbers, GeometryAssumption
<1>4. CASE (znum < Firstdatazone \/ znum >= Zones) /\ Ignore("FreeZone")
  <2>1. znum \notin Usable(ZMAP)
    BY <1>4, UsableNumbers, GeometryAssumption
  <2> QED BY <2>1, <1>1, <1>4, IgnoreStep
<1>5. CASE znum >= Firstdatazone /\ znum < Zones
  <2>1. /\ ZMAP \in Maps /\ IMAP \in Maps /\ FreeOp(ZMAP) = "FreeZone"
        /\ b \in 1 .. map_bits(ZMAP) - 1 /\ znum = NumberOf(ZMAP, b)
    BY <1>3, <1>5, GeometryAssumption DEF Maps, FreeOp, map_bits, NumberOf, IMAP, ZMAP
  <2>2. BitPlace(ZMAP, b) = <<start_block(ZMAP), b>> /\ checkBit(ZMAP, b)
    BY <2>1, <1>1, FreeBit
  <2>3. /\ free_bit(ZMAP, b) /\ LowerZSearch(b)
        /\ Respond("FreeZone", TRUE, 0) /\ i_search' = i_search
    <3>1. ~(znum < Firstdatazone \/ znum >= Zones)
      BY <1>3, <1>5, GeometryAssumption
    <3> HIDE DEF znum, b
    <3> QED BY <3>1, <2>2, Zenon DEF free_zone, PanicIfClear, znum, b
  <2>4. disk' = disk \ {<<start_block(ZMAP), b>>}
    BY <2>2, <2>3 DEF free_bit
  <2> HIDE DEF b
  <2>5. Accounts' /\ Reserved' /\ Holdings'
    BY <2>1, <2>3, <2>4, <1>1, FreeAccounts
  <2>6. /\ IdleHasNoRequest' /\ RepliesReachCaller' /\ NeverPanics'
        /\ pc' \in [Clients -> {"idle", "sending", "receiving"}]
        /\ req' \in [Clients -> Requests \cup {NoRequest}]
        /\ inuse' \subseteq {IMAP, ZMAP} \X (0 .. Inodes + Zones)
        /\ server' \in {"loop", "reply", "closed", "panicked"}
        /\ res' \in Responses
    BY <2>3, <1>1, ServeControl
  <2>7. z_search' \in 0 .. map_bits(ZMAP) - 1
    BY <2>1, <2>3, Geometry DEF LowerZSearch, IInv, TypeOK
  <2>8. TypeOK'
    BY <2>3, <2>4, <2>6, <2>7 DEF IInv, TypeOK
  <2>9. start_block(IMAP) # start_block(ZMAP)
    BY Geometry
  <2>10. Hint'
    BY <2>3, <2>4, <2>9 DEF IInv, Hint
  <2> QED BY <2>5, <2>6, <2>8, <2>10 DEF IInv
<1> QED BY <1>3, <1>4, <1>5, GeometryAssumption DEF free_zone

LEMMA CloseStep ==
  ASSUME IInv, NEW c \in Clients, CloseRequest(c)
  PROVE  IInv'
<1>1. Receive(c, "Close") /\ Ignore("Close")
  BY DEF CloseRequest, Ignore
<1> QED BY <1>1, IgnoreStep

\* The reply is delivered: an allocated number is now held by the caller.
LEMMA ReplyStep ==
  ASSUME IInv, NEW c \in Clients, Reply(c)
  PROVE  IInv'
<1>1. /\ server = "reply" /\ pc[c] = "receiving"
      /\ pc' = [pc EXCEPT ![c] = "idle"]
      /\ req' = [req EXCEPT ![c] = NoRequest]
      /\ server' = IF res.op = "Close" THEN "closed" ELSE "loop"
      /\ inuse' = IF res.op \in {"AllocInode", "AllocZone"} /\ res.ok
                  THEN inuse \cup {<<MapOf(res.op), res.num>>} ELSE inuse
      /\ res' = NoResponse
      /\ UNCHANGED <<disk, i_search, z_search>>
  BY DEF Reply
<1>2. /\ pc \in [Clients -> {"idle", "sending", "receiving"}]
      /\ req \in [Clients -> Requests \cup {NoRequest}]
  BY DEF IInv, TypeOK
<1>3. \A d \in Clients : \A w \in Maps : \A n : Freeing(d, w, n)' <=> Freeing(d, w, n)
  <2>1. NoRequest.op = "none" /\ \A w \in Maps : FreeOp(w) # "none"
    BY DEF NoRequest, FreeOp
  <2> QED BY <1>1, <1>2, <2>1 DEF Freeing
<1>4. \A w \in Maps : \A n : ~Allocating(w, n)'
  BY <1>1 DEF Allocating
<1>5. \A w \in Maps : \A n :
        <<w, n>> \in inuse' <=> <<w, n>> \in inuse \/ Allocating(w, n)
  BY <1>1 DEF Allocating, MapOf, AllocOp, Maps, IMAP, ZMAP
<1>6. \A w \in Maps : \A n : Accounted(w, n)' <=> Accounted(w, n)
  BY <1>3, <1>4, <1>5 DEF Accounted
<1>7. Accounts'
  <2> SUFFICES ASSUME NEW w \in Maps, NEW e \in 1 .. map_bits(w) - 1
               PROVE  LET n == NumberOf(w, e) IN
                      /\ <<start_block(w), e>> \in disk' <=> Accounted(w, n)'
                      /\ \A d \in Clients : Freeing(d, w, n)' =>
                           /\ <<w, n>> \notin inuse'
                           /\ \A f \in Clients : Freeing(f, w, n)' => f = d
                      /\ Allocating(w, n)' =>
                           /\ <<w, n>> \notin inuse'
                           /\ \A d \in Clients : ~Freeing(d, w, n)'
    BY DEF Accounts
  <2> DEFINE n == NumberOf(w, e)
  <2>1. /\ <<start_block(w), e>> \in disk <=> Accounted(w, n)
        /\ \A d \in Clients : Freeing(d, w, n) =>
             /\ <<w, n>> \notin inuse
             /\ \A f \in Clients : Freeing(f, w, n) => f = d
        /\ Allocating(w, n) => \A d \in Clients : ~Freeing(d, w, n)
    BY DEF IInv, Accounts
  <2> QED BY <1>1, <1>3, <1>4, <1>5, <1>6, <2>1
<1>8. Reserved' /\ Hint'
  BY <1>1 DEF IInv, Reserved, Hint
<1>9. \A w \in Maps : Allocating(w, res.num) =>
        res.num \in Usable(w) /\ res.num \in 0 .. Inodes + Zones
  <2>1. \A w \in Maps : Allocating(w, res.num) => res.num \in Usable(w)
    BY DEF IInv, Holdings
  <2>2. \A w \in Maps : \A n \in Usable(w) : n \in 0 .. Inodes + Zones
    BY NumberOfBit, GeometryAssumption DEF Usable
  <2> QED BY <2>1, <2>2
<1>10. \/ inuse' = inuse
       \/ \E w \in Maps : Allocating(w, res.num) /\ inuse' = inuse \cup {<<w, res.num>>}
  BY <1>1 DEF Allocating, MapOf, AllocOp, Maps, IMAP, ZMAP
<1>11. Holdings'
  BY <1>4, <1>9, <1>10 DEF IInv, Holdings
<1>12. inuse' \subseteq {IMAP, ZMAP} \X (0 .. Inodes + Zones)
  BY <1>9, <1>10 DEF IInv, TypeOK, Maps
<1>13. TypeOK'
  BY <1>1, <1>2, <1>12 DEF IInv, TypeOK, NoResponse, Responses
<1>14. IdleHasNoRequest'
  BY <1>1, <1>2 DEF IInv, IdleHasNoRequest
<1>15. \A d \in Clients : pc'[d] # "receiving"
  BY <1>1, <1>2 DEF IInv, RepliesReachCaller
<1>16. RepliesReachCaller' /\ NeverPanics'
  BY <1>1, <1>15 DEF RepliesReachCaller, NeverPanics
<1> QED BY <1>7, <1>8, <1>11, <1>13, <1>14, <1>16 DEF IInv

\* A call starts: a number to free is given up by its holder.
LEMMA CallStep ==
  ASSUME IInv, NEW c \in Clients, NEW r \in Requests, Call(c, r)
  PROVE  IInv'
<1>1. /\ pc[c] = "idle" /\ server # "panicked"
      /\ r.op \in {"FreeInode", "FreeZone"} =>
           \/ <<MapOf(r.op), r.num>> \in inuse
           \/ r.num \notin Usable(MapOf(r.op))
      /\ pc' = [pc EXCEPT ![c] = "sending"]
      /\ req' = [req EXCEPT ![c] = r]
      /\ inuse' = IF r.op \in {"FreeInode", "FreeZone"}
                  THEN inuse \ {<<MapOf(r.op), r.num>>} ELSE inuse
      /\ UNCHANGED <<disk, i_search, z_search, server, res>>
  BY DEF Call, Closing
<1>2. /\ pc \in [Clients -> {"idle", "sending", "receiving"}]
      /\ req \in [Clients -> Requests \cup {NoRequest}]
  BY DEF IInv, TypeOK
<1> DEFINE Gives(w, n) == r.op = FreeOp(w) /\ n = r.num
<1>3. \A d \in Clients : \A w, n :
        Freeing(d, w, n)' <=> Freeing(d, w, n) \/ (d = c /\ Gives(w, n))
  BY <1>1, <1>2 DEF Freeing
<1>4. \A w, n : Allocating(w, n)' <=> Allocating(w, n)
  BY <1>1 DEF Allocating
<1>5. \A w \in Maps : \A n : <<w, n>> \in inuse' <=> <<w, n>> \in inuse /\ ~Gives(w, n)
  BY <1>1 DEF MapOf, FreeOp, Maps, IMAP, ZMAP
<1>6. \A w \in Maps : \A n \in Usable(w) : Gives(w, n) => <<w, n>> \in inuse
  BY <1>1 DEF MapOf, FreeOp, Maps, IMAP, ZMAP
<1>7. Accounts'
  <2> SUFFICES ASSUME NEW w \in Maps, NEW e \in 1 .. map_bits(w) - 1
               PROVE  LET n == NumberOf(w, e) IN
                      /\ <<start_block(w), e>> \in disk' <=> Accounted(w, n)'
                      /\ \A d \in Clients : Freeing(d, w, n)' =>
                           /\ <<w, n>> \notin inuse'
                           /\ \A f \in Clients : Freeing(f, w, n)' => f = d
                      /\ Allocating(w, n)' =>
                           /\ <<w, n>> \notin inuse'
                           /\ \A d \in Clients : ~Freeing(d, w, n)'
    BY DEF Accounts
  <2> DEFINE n == NumberOf(w, e)
  <2>1. n \in Usable(w)
    BY NumberOfBit
  <2>2. /\ <<start_block(w), e>> \in disk <=> Accounted(w, n)
        /\ \A d \in Clients : Freeing(d, w, n) =>
             /\ <<w, n>> \notin inuse
             /\ \A f \in Clients : Freeing(f, w, n) => f = d
        /\ Allocating(w, n) =>
             /\ <<w, n>> \notin inuse
             /\ \A d \in Clients : ~Freeing(d, w, n)
    BY DEF IInv, Accounts
  <2> HIDE DEF n, Gives
  <2>3. /\ <<w, n>> \in inuse' <=> <<w, n>> \in inuse /\ ~Gives(w, n)
        /\ Gives(w, n) => <<w, n>> \in inuse
        /\ Allocating(w, n)' <=> Allocating(w, n)
        /\ \A d \in Clients :
             Freeing(d, w, n)' <=> Freeing(d, w, n) \/ (d = c /\ Gives(w, n))
    BY <1>3, <1>4, <1>5, <1>6, <2>1
  <2>4. Accounted(w, n)' <=> Accounted(w, n)
    BY <2>3 DEF Accounted
  <2>5. disk' = disk
    BY <1>1
  <2> QED BY <2>2, <2>3, <2>4, <2>5 DEF n
<1>8. Reserved' /\ Hint'
  BY <1>1 DEF IInv, Reserved, Hint
<1>9. Holdings'
  BY <1>1, <1>4 DEF IInv, Holdings
<1>10. TypeOK'
  BY <1>1, <1>2 DEF IInv, TypeOK
<1>11. r # NoRequest
  BY RequestShape
<1>12. IdleHasNoRequest'
  BY <1>1, <1>2, <1>11 DEF IInv, IdleHasNoRequest
<1>13. RepliesReachCaller' /\ NeverPanics'
  BY <1>1, <1>2 DEF IInv, RepliesReachCaller, NeverPanics
<1> QED BY <1>7, <1>8, <1>9, <1>10, <1>12, <1>13 DEF IInv

LEMMA StutterStep == ASSUME IInv, UNCHANGED vars PROVE IInv'
<1>1. \A d \in Clients : \A w, n : Freeing(d, w, n)' <=> Freeing(d, w, n)
  BY DEF vars, Freeing
<1>2. \A w, n : Allocating(w, n)' <=> Allocating(w, n)
  BY DEF vars, Allocating
<1>3. \A w, n : Accounted(w, n)' <=> Accounted(w, n)
  BY <1>1, <1>2 DEF vars, Accounted
<1>4. Accounts'
  BY <1>1, <1>2, <1>3 DEF vars, IInv, Accounts
<1>5. Holdings'
  BY <1>2 DEF vars, IInv, Holdings
<1>6. TypeOK' /\ Reserved' /\ Hint' /\ IdleHasNoRequest' /\ NeverPanics'
  BY DEF vars, IInv, TypeOK, Reserved, Hint, IdleHasNoRequest, NeverPanics
<1>7. RepliesReachCaller'
  BY DEF vars, IInv, RepliesReachCaller
<1> QED BY <1>4, <1>5, <1>6, <1>7 DEF IInv

LEMMA NextIInv == ASSUME SmallMaps, IInv, [Next]_vars PROVE IInv'
<1>1. CASE UNCHANGED vars
  BY <1>1, StutterStep
<1>2. CASE Next
  <2>1. PICK c \in Clients :
          (\E r \in Requests : Call(c, r)) \/ Serve(c) \/ Reply(c)
    BY <1>2 DEF Next
  <2>2. CASE \E r \in Requests : Call(c, r)
    BY <2>2, CallStep
  <2>3. CASE Reply(c)
    BY <2>3, ReplyStep
  <2>4. CASE alloc_inode(c)
    BY <2>4, AllocInodeStep
  <2>5. CASE alloc_zone(c)
    BY <2>5, AllocZoneStep
  <2>6. CASE free_inode(c)
    BY <2>6, FreeInodeStep
  <2>7. CASE free_zone(c)
    BY <2>7, FreeZoneStep
  <2>8. CASE CloseRequest(c)
    BY <2>8, CloseStep
  <2> QED BY <2>1, <2>2, <2>3, <2>4, <2>5, <2>6, <2>7, <2>8 DEF Serve
<1> QED BY <1>1, <1>2
-----------------------------------------------------------------------------
(* What follows from the invariant. *)

LEMMA PlacesMarked ==
  ASSUME SmallMaps, NEW which \in Maps, NEW b \in 1 .. map_bits(which) - 1
  PROVE  checkBit(which, b) <=> <<start_block(which), b>> \in disk
<1>1. b \in 0 .. map_bits(which) - 1
  BY Geometry
<1> QED BY <1>1, PlaceOfBit DEF checkBit

LEMMA IInvMapsMatchUse == ASSUME SmallMaps, IInv PROVE MapsMatchUse
<1> SUFFICES ASSUME NEW w \in Maps, NEW b \in 1 .. map_bits(w) - 1
             PROVE  checkBit(w, b) <=>
                      \/ <<w, NumberOf(w, b)>> \in inuse
                      \/ NumberOf(w, b) \in BeingFreed(w) \cup BeingAllocated(w)
  BY DEF MapsMatchUse, Maps
<1> DEFINE n == NumberOf(w, b)
<1>1. n \in Usable(w)
  BY NumberOfBit
<1> HIDE DEF n
<1>2. n \in BeingFreed(w) <=> \E c \in Clients : Freeing(c, w, n)
  BY <1>1 DEF BeingFreed, Freeing, FreeOp
<1>3. n \in BeingAllocated(w) <=> Allocating(w, n)
  BY DEF BeingAllocated, Allocating, AllocOp
<1>4. checkBit(w, b) <=> Accounted(w, n)
  BY PlacesMarked DEF IInv, Accounts, n
<1> QED BY <1>2, <1>3, <1>4 DEF Accounted, n

LEMMA IInvAllocatedIsFresh == ASSUME SmallMaps, IInv PROVE AllocatedIsFresh
<1> SUFFICES ASSUME NEW w \in Maps, NEW n \in BeingAllocated(w)
             PROVE  <<w, n>> \notin inuse /\ n \notin BeingFreed(w)
  BY DEF AllocatedIsFresh, Maps
<1>1. n = res.num /\ Allocating(w, n)
  BY DEF BeingAllocated, Allocating, AllocOp
<1>2. n \in Usable(w)
  BY <1>1 DEF IInv, Holdings
<1>3. PICK b \in 1 .. map_bits(w) - 1 : n = NumberOf(w, b)
  BY <1>2 DEF Usable
<1>4. <<w, n>> \notin inuse /\ \A c \in Clients : ~Freeing(c, w, n)
  <2>1. Allocating(w, NumberOf(w, b)) =>
          /\ <<w, NumberOf(w, b)>> \notin inuse
          /\ \A c \in Clients : ~Freeing(c, w, NumberOf(w, b))
    BY DEF IInv, Accounts
  <2> QED BY <2>1, <1>1, <1>3
<1> QED BY <1>4 DEF BeingFreed, Freeing, FreeOp

LEMMA IInvSearchHintSound == ASSUME SmallMaps, IInv PROVE SearchHintSound
<1> SUFFICES ASSUME NEW b \in 0 .. i_search - 1 PROVE checkBit(IMAP, b)
  BY DEF SearchHintSound
<1>1. IMAP \in Maps /\ b \in 0 .. map_bits(IMAP) - 1
  BY GeometryAssumption DEF Maps, IInv, TypeOK, map_bits
<1>2. <<start_block(IMAP), b>> \in disk
  BY DEF IInv, Hint
<1> QED BY <1>1, <1>2, PlaceOfBit DEF checkBit
-----------------------------------------------------------------------------
\* On a device with small maps, in every state of every behaviour of the server
\* and its callers, the variables have their types: in particular the search
\* hints stay inside the maps.
THEOREM TypeCorrectness == ASSUME SmallMaps PROVE Spec => []TypeOK
<1>1. Init => IInv
  BY InitIInv
<1>2. IInv /\ [Next]_vars => IInv'
  BY NextIInv
<1>3. IInv => TypeOK
  BY DEF IInv
<1> QED BY <1>1, <1>2, <1>3, PTL DEF Spec

\* The bit maps record exactly the numbers that are held, being freed or being
\* allocated (MapsMatchUse), and no allocation hands out a number that is in
\* use (AllocatedIsFresh).
THEOREM MapsExact == ASSUME SmallMaps PROVE Spec => [](MapsMatchUse /\ AllocatedIsFresh)
<1>1. Init => IInv
  BY InitIInv
<1>2. IInv /\ [Next]_vars => IInv'
  BY NextIInv
<1>3. IInv => MapsMatchUse /\ AllocatedIsFresh
  BY IInvMapsMatchUse, IInvAllocatedIsFresh
<1> QED BY <1>1, <1>2, <1>3, PTL DEF Spec

\* The server never panics on callers that free what they hold (NeverPanics),
\* every reply reaches the client that asked (RepliesReachCaller), and i_search
\* is below every free inode (SearchHintSound).
THEOREM ServerSound ==
  ASSUME SmallMaps PROVE Spec => [](NeverPanics /\ RepliesReachCaller /\ SearchHintSound)
<1>1. Init => IInv
  BY InitIInv
<1>2. IInv /\ [Next]_vars => IInv'
  BY NextIInv
<1>3. IInv => NeverPanics /\ RepliesReachCaller /\ SearchHintSound
  BY IInvSearchHintSound DEF IInv
<1> QED BY <1>1, <1>2, <1>3, PTL DEF Spec
-----------------------------------------------------------------------------
(* Allocation fails on a full map only. *)

\* The step that answers "full" has just scanned the whole map.
LEMMA AllocFailure ==
  ASSUME SmallMaps, IInv, NEW c \in Clients, NEW w \in Maps, NEW o \in Nat,
         NEW r \in alloc_bit(w, o), r.bit = NO_BIT, NEW b \in 1 .. map_bits(w) - 1
  PROVE  checkBit(w, b) /\ r.marks = {}
<1>1. 0 \in 0 .. map_bits(w) - 1 /\ b \in 0 .. map_bits(w) - 1
  BY Geometry
<1>2. checkBit(w, 0)
  <2>1. <<start_block(w), 0>> \in disk
    BY DEF IInv, Reserved
  <2> QED BY <2>1, <1>1, PlaceOfBit DEF checkBit
<1> QED BY <1>1, <1>2, AllocBit DEF NO_BIT

LEMMA FailsStep ==
  ASSUME SmallMaps, IInv, FailsOnlyWhenFull, [Next]_vars
  PROVE  FailsOnlyWhenFull'
<1> DEFINE Full(w) == \A b \in 1 .. map_bits(w) - 1 : checkBit(w, b)
           Fails(w) == server = "reply" /\ ~res.ok /\ res.op = AllocOp(w)
<1>1. FailsOnlyWhenFull <=> \A w \in Maps : Fails(w) => Full(w)
  BY DEF FailsOnlyWhenFull, Maps, AllocOp
<1>2. FailsOnlyWhenFull' <=> \A w \in Maps : Fails(w)' => Full(w)'
  BY DEF FailsOnlyWhenFull, Maps, AllocOp
<1>3. disk' = disk => \A w : Full(w)' <=> Full(w)
  BY DEF checkBit, BitPlace
<1>4. ASSUME UNCHANGED <<disk, server, res>> PROVE FailsOnlyWhenFull'
  <2>1. \A w : Fails(w)' <=> Fails(w)
    BY <1>4
  <2> HIDE DEF Fails, Full
  <2> QED BY <1>4, <2>1, <1>1, <1>2, <1>3
<1>5. ASSUME server' # "reply" \/ res'.ok \/ res'.op \notin {"AllocInode", "AllocZone"}
      PROVE FailsOnlyWhenFull'
  BY <1>2, <1>5 DEF AllocOp
<1>6. ASSUME NEW w \in Maps, NEW o \in Nat, NEW r \in alloc_bit(w, o),
             NEW c \in Clients,
             r.bit = NO_BIT, disk' = disk \cup r.marks, res'.op = AllocOp(w)
      PROVE  FailsOnlyWhenFull'
  <2>1. \E b : b \in 1 .. map_bits(w) - 1
    <3>1. 1 \in 1 .. map_bits(w) - 1
      BY Geometry
    <3> QED BY <3>1
  <2>2. Full(w) /\ r.marks = {}
    BY <2>1, <1>6, AllocFailure
  <2>3. Full(w)'
    BY <2>2, <1>3, <1>6
  <2>4. \A x \in Maps : Fails(x)' => x = w
    BY <1>6, OpsDiffer
  <2> HIDE DEF Fails, Full
  <2> QED BY <2>3, <2>4, <1>2
<1>7. CASE UNCHANGED vars
  BY <1>7, <1>4 DEF vars
<1>8. ASSUME NEW c \in Clients, NEW r \in Requests, Call(c, r) PROVE FailsOnlyWhenFull'
  BY <1>8, <1>4 DEF Call
<1>9. ASSUME NEW c \in Clients, Reply(c) PROVE FailsOnlyWhenFull'
  BY <1>9, <1>5 DEF Reply
<1>10. ASSUME NEW c \in Clients, alloc_inode(c) PROVE FailsOnlyWhenFull'
  <2>1. PICK r \in alloc_bit(IMAP, i_search) :
             /\ disk' = disk \cup r.marks
             /\ Respond("AllocInode", r.bit # NO_BIT, r.bit)
    BY <1>10 DEF alloc_inode
  <2>2. i_search \in Nat /\ IMAP \in Maps /\ res'.op = AllocOp(IMAP)
    BY <2>1, GeometryAssumption DEF IInv, TypeOK, Maps, Respond, AllocOp
  <2>3. CASE r.bit = NO_BIT
    BY <2>1, <2>2, <2>3, <1>6
  <2>4. CASE r.bit # NO_BIT
    BY <2>1, <2>4, <1>5 DEF Respond
  <2> QED BY <2>3, <2>4
<1>11. ASSUME NEW c \in Clients, alloc_zone(c) PROVE FailsOnlyWhenFull'
  <2> DEFINE zstart == req[c].num
             o == IF zstart <= Firstdatazone
                  THEN z_search ELSE zstart - (Firstdatazone - 1)
  <2>1. PICK r \in alloc_bit(ZMAP, o) :
             /\ disk' = disk \cup r.marks
             /\ IF r.bit = NO_BIT
                THEN UNCHANGED z_search /\ Respond("AllocZone", FALSE, 0)
                ELSE LowerZSearch(r.bit) /\ Respond("AllocZone", TRUE, NumberOf(ZMAP, r.bit))
    BY <1>11 DEF alloc_zone
  <2>2. o \in Nat
    <3>1. Receive(c, "AllocZone")
      BY <1>11 DEF alloc_zone
    <3>2. req[c] \in Requests
      BY <3>1 DEF IInv, TypeOK, Receive, NoRequest
    <3>3. zstart \in {0} \cup Usable(ZMAP)
      BY <3>1, <3>2, RequestShape DEF Receive
    <3>4. zstart \in Nat
      BY <3>3, UsableNumbers
    <3> QED BY <3>4, Geometry, GeometryAssumption DEF IInv, TypeOK, Maps
  <2> HIDE DEF o
  <2>3. ZMAP \in Maps /\ AllocOp(ZMAP) = "AllocZone"
    BY DEF Maps, AllocOp, IMAP, ZMAP
  <2>4. CASE r.bit = NO_BIT
    BY <2>1, <2>2, <2>3, <2>4, <1>6 DEF Respond
  <2>5. CASE r.bit # NO_BIT
    BY <2>1, <2>5, <1>5 DEF Respond
  <2> QED BY <2>4, <2>5
<1>12. ASSUME NEW c \in Clients, free_inode(c) PROVE FailsOnlyWhenFull'
  BY <1>12, <1>5 DEF free_inode, Ignore, Respond, PanicIfClear
<1>13. ASSUME NEW c \in Clients, free_zone(c) PROVE FailsOnlyWhenFull'
  BY <1>13, <1>5 DEF free_zone, Ignore, Respond, PanicIfClear
<1>14. ASSUME NEW c \in Clients, CloseRequest(c) PROVE FailsOnlyWhenFull'
  BY <1>14, <1>5 DEF CloseRequest, Respond
<1> HIDE DEF Full, Fails
<1> QED BY <1>7, <1>8, <1>9, <1>10, <1>11, <1>12, <1>13, <1>14 DEF Next, Serve

\* AllocInode and AllocZone answer "full" (ENFILE, ENOSPC) only when every
\* usable bit of the map is marked, wherever the scan started.
THEOREM NoSpuriousFull == ASSUME SmallMaps PROVE Spec => []FailsOnlyWhenFull
<1>1. Init => IInv /\ FailsOnlyWhenFull
  BY InitIInv DEF Init, FailsOnlyWhenFull
<1>2. IInv /\ FailsOnlyWhenFull /\ [Next]_vars => IInv' /\ FailsOnlyWhenFull'
  BY NextIInv, FailsStep
<1> QED BY <1>1, <1>2, PTL DEF Spec
-----------------------------------------------------------------------------
(* The refinement. *)

\* The call and the answer that client c's state stands for.
AnswerOf(c) == IF pc[c] = "receiving" THEN [ok |-> res.ok, num |-> res.num]
               ELSE [ok |-> FALSE, num |-> 0]

\* The allocator's numbers are those whose bits are marked.
LEMMA TakenIs ==
  ASSUME SmallMaps, NEW w \in Maps, NEW n
  PROVE  /\ <<w, n>> \in Taken <=>
              \E b \in 1 .. map_bits(w) - 1 :
                 n = NumberOf(w, b) /\ <<start_block(w), b>> \in disk
         /\ <<w, n>> \in Taken' <=>
              \E b \in 1 .. map_bits(w) - 1 :
                 n = NumberOf(w, b) /\ <<start_block(w), b>> \in disk'
<1>1. \A b \in 1 .. map_bits(w) - 1 : BitPlace(w, b) = <<start_block(w), b>>
  <2>1. \A b \in 1 .. map_bits(w) - 1 : b \in 0 .. map_bits(w) - 1
    BY Geometry
  <2> QED BY <2>1, PlaceOfBit
<1>2. IMAP # ZMAP
  BY DEF IMAP, ZMAP
<1> QED BY <1>1, <1>2 DEF Taken, Marked, checkBit, Maps

LEMMA TakenPairs ==
  /\ \A x \in Taken : \E w \in Maps : \E n : x = <<w, n>>
  /\ \A x \in Taken' : \E w \in Maps : \E n : x = <<w, n>>
  BY DEF Taken, Marked, Maps

LEMMA TakenSame == ASSUME disk' = disk PROVE Taken' = Taken
  BY DEF Taken, Marked, checkBit

LEMMA TakenGrows ==
  ASSUME SmallMaps, NEW w \in Maps, NEW b \in 1 .. map_bits(w) - 1,
         disk' = disk \cup {<<start_block(w), b>>}
  PROVE  Taken' = Taken \cup {<<w, NumberOf(w, b)>>}
<1>1. \A v \in Maps : \A e : <<start_block(v), e>> \in disk' <=>
         <<start_block(v), e>> \in disk \/ (v = w /\ e = b)
  BY Geometry DEF Maps
<1>2. \A v \in Maps : \A n : <<v, n>> \in Taken' <=>
         <<v, n>> \in Taken \/ (v = w /\ n = NumberOf(w, b))
  BY <1>1, TakenIs
<1> QED BY <1>2, TakenPairs

LEMMA TakenShrinks ==
  ASSUME SmallMaps, NEW w \in Maps, NEW b \in 1 .. map_bits(w) - 1,
         disk' = disk \ {<<start_block(w), b>>}
  PROVE  Taken' = Taken \ {<<w, NumberOf(w, b)>>}
<1>1. \A v \in Maps : \A e : <<start_block(v), e>> \in disk' <=>
         <<start_block(v), e>> \in disk /\ ~(v = w /\ e = b)
  BY Geometry DEF Maps
<1>2. \A v \in Maps : \A n : <<v, n>> \in Taken' <=>
         <<v, n>> \in Taken /\ ~(v = w /\ n = NumberOf(w, b))
  <2> SUFFICES ASSUME NEW v \in Maps, NEW n
               PROVE  <<v, n>> \in Taken' <=>
                        <<v, n>> \in Taken /\ ~(v = w /\ n = NumberOf(w, b))
    OBVIOUS
  <2>1. \A e \in 1 .. map_bits(v) - 1 : n = NumberOf(v, e) =>
          (v = w /\ e = b <=> v = w /\ n = NumberOf(w, b))
    BY NumberOfBit
  <2> QED BY <1>1, <2>1, TakenIs
<1> QED BY <1>2, TakenPairs
-----------------------------------------------------------------------------
\* Taking a request and answering it is one step of the allocator's client.
LEMMA ServeMaps ==
  ASSUME IInv, NEW c \in Clients, NEW op, NEW ok, NEW num,
         Receive(c, op), Respond(op, ok, num)
  PROVE  /\ Stages[c] = "asked" /\ Stages' = [Stages EXCEPT ![c] = "answered"]
         /\ Asks[c] = AbstractCall(req[c]) /\ Asks' = Asks
         /\ Answers' = [Answers EXCEPT ![c] = [ok |-> ok, num |-> num]]
         /\ inuse' = inuse
<1>1. /\ pc \in [Clients -> {"idle", "sending", "receiving"}]
      /\ pc' = [pc EXCEPT ![c] = "receiving"] /\ pc[c] = "sending"
      /\ req' = req /\ inuse' = inuse
      /\ server = "loop"
      /\ res' = [op |-> op, ok |-> ok, num |-> num]
  BY DEF IInv, TypeOK, Receive, Respond
<1>2. \A d \in Clients : pc[d] # "receiving"
  BY <1>1 DEF IInv, RepliesReachCaller
<1>3. Stages[c] = "asked" /\ Stages' = [Stages EXCEPT ![c] = "answered"]
  BY <1>1 DEF Stages, StageOf
<1>4. Asks[c] = AbstractCall(req[c]) /\ Asks' = Asks
  BY <1>1 DEF Asks, AbstractCall
<1>5. Answers' = [Answers EXCEPT ![c] = [ok |-> ok, num |-> num]]
  BY <1>1, <1>2 DEF Answers
<1> QED BY <1>1, <1>3, <1>4, <1>5

LEMMA NumbersOf ==
  ASSUME NEW w \in Maps
  PROVE  UsableNumbersOf[w] = Usable(w)
  BY DEF UsableNumbersOf, Maps

\* An allocation that succeeds, and one that does not.
LEMMA AllocMaps ==
  ASSUME SmallMaps, IInv, NEW c \in Clients, NEW w \in Maps, NEW o \in Nat,
         Receive(c, AllocOp(w)), NEW r \in alloc_bit(w, o), disk' = disk \cup r.marks,
         Respond(AllocOp(w), r.bit # NO_BIT, IF r.bit = NO_BIT THEN 0 ELSE NumberOf(w, r.bit))
  PROVE  A!Next
<1>1. /\ Stages[c] = "asked" /\ Stages' = [Stages EXCEPT ![c] = "answered"]
      /\ Asks[c] = AbstractCall(req[c]) /\ Asks' = Asks
      /\ Answers' = [Answers EXCEPT ![c] =
           [ok |-> r.bit # NO_BIT, num |-> IF r.bit = NO_BIT THEN 0 ELSE NumberOf(w, r.bit)]]
      /\ inuse' = inuse
  BY ServeMaps
<1>2. Asks[c] = [op |-> "Alloc", kind |-> w, num |-> 0]
  BY <1>1 DEF AbstractCall, Receive, AllocOp, MapOf, Maps
<1>3. A!Pairs(w) = {<<w, n>> : n \in Usable(w)}
  BY NumbersOf DEF A!Pairs
<1>4. checkBit(w, 0)
  <2>1. 0 \in 0 .. map_bits(w) - 1 /\ <<start_block(w), 0>> \in disk
    BY Geometry DEF IInv, Reserved
  <2> QED BY <2>1, PlaceOfBit DEF checkBit
<1>5. CASE r.bit = NO_BIT
  <2>1. r.marks = {} /\ \A b \in 1 .. map_bits(w) - 1 : checkBit(w, b)
    <3>1. \A b \in 1 .. map_bits(w) - 1 : b \in 0 .. map_bits(w) - 1
      BY Geometry
    <3> QED BY <1>4, <1>5, <3>1, AllocBit DEF NO_BIT
  <2>2. Taken' = Taken
    BY <2>1, TakenSame
  <2>3. A!Pairs(w) \subseteq Taken
    BY <1>3, <2>1, PlacesMarked, TakenIs DEF Usable
  <2>4. Answers' = [Answers EXCEPT ![c] = A!NoAnswer]
    <3>1. [ok |-> r.bit # NO_BIT, num |-> IF r.bit = NO_BIT THEN 0 ELSE NumberOf(w, r.bit)]
            = A!NoAnswer
      BY <1>5 DEF A!NoAnswer
    <3> QED BY <3>1, <1>1
  <2>5. Asks[c].op = "Alloc" /\ Asks[c].kind = w
    BY <1>2
  <2>6. A!Answer(c, "Alloc", A!NoAnswer)
    BY <1>1, <2>4, <2>5 DEF A!Answer
  <2>7. A!Refuse(c)
    BY <2>2, <2>3, <2>5, <2>6 DEF A!Refuse
  <2> QED BY <2>7 DEF A!Next, A!Effect
<1>6. CASE r.bit # NO_BIT
  <2> DEFINE n == NumberOf(w, r.bit)
  <2>1. /\ r.bit \in 1 .. map_bits(w) - 1
        /\ r.marks = {<<start_block(w), r.bit>>}
        /\ ~checkBit(w, r.bit)
    BY <1>4, <1>6, AllocBit
  <2>2. Taken' = Taken \cup {<<w, n>>}
    BY <2>1, TakenGrows
  <2>3. n \in Usable(w) /\ <<w, n>> \notin Taken
    <3>1. <<start_block(w), r.bit>> \notin disk
      BY <2>1, PlacesMarked
    <3>2. \A e \in 1 .. map_bits(w) - 1 : n = NumberOf(w, e) => e = r.bit
      BY <2>1, NumberOfBit
    <3>3. n \in Usable(w)
      BY <2>1, NumberOfBit
    <3> HIDE DEF n
    <3>4. <<w, n>> \in Taken <=>
            \E e \in 1 .. map_bits(w) - 1 :
               n = NumberOf(w, e) /\ <<start_block(w), e>> \in disk
      BY TakenIs
    <3> QED BY <3>1, <3>2, <3>3, <3>4
  <2> HIDE DEF n
  <2>4. <<w, n>> \in A!Pairs(w) \ Taken
    BY <1>3, <2>3
  <2>5. Answers' = [Answers EXCEPT ![c] = [ok |-> TRUE, num |-> n]]
    BY <1>1, <1>6 DEF n
  <2>6. A!Allocate(c, n)
    <3>1. Asks[c].op = "Alloc" /\ Asks[c].kind = w
      BY <1>2
    <3>2. A!Answer(c, "Alloc", [ok |-> TRUE, num |-> n])
      BY <1>1, <2>5, <3>1 DEF A!Answer
    <3> QED BY <2>2, <2>4, <3>1, <3>2 DEF A!Allocate
  <2>7. n \in UsableNumbersOf[Asks[c].kind]
    BY <1>2, <2>3, NumbersOf
  <2> QED BY <2>6, <2>7 DEF A!Next, A!Effect
<1> QED BY <1>5, <1>6

\* A free of a number that is in range.
LEMMA FreeMaps ==
  ASSUME SmallMaps, IInv, NEW c \in Clients, NEW w \in Maps,
         NEW b \in 1 .. map_bits(w) - 1,
         Receive(c, FreeOp(w)), req[c].num = NumberOf(w, b),
         free_bit(w, b), Respond(FreeOp(w), TRUE, 0)
  PROVE  A!Next
<1>1. /\ Stages[c] = "asked" /\ Stages' = [Stages EXCEPT ![c] = "answered"]
      /\ Asks[c] = AbstractCall(req[c]) /\ Asks' = Asks
      /\ Answers' = [Answers EXCEPT ![c] = [ok |-> TRUE, num |-> 0]]
      /\ inuse' = inuse
  BY ServeMaps
<1>2. NumberOf(w, b) \in Usable(w)
  BY NumberOfBit
<1>3. Asks[c] = [op |-> "Free", kind |-> w, num |-> NumberOf(w, b)]
  BY <1>1, <1>2 DEF AbstractCall, Receive, FreeOp, MapOf, Maps
<1>4. disk' = disk \ {<<start_block(w), b>>}
  BY FreeBit DEF free_bit
<1>5. Taken' = Taken \ {<<w, NumberOf(w, b)>>}
  BY <1>4, TakenShrinks
<1>6. A!Release(c)
  BY <1>1, <1>3, <1>5 DEF A!Release, A!Answer
<1> QED BY <1>6 DEF A!Next, A!Effect

\* A free that is ignored, and Close.
LEMMA IgnoreMaps ==
  ASSUME IInv, NEW c \in Clients, NEW op \in {"FreeInode", "FreeZone", "Close"},
         Receive(c, op), Ignore(op),
         op = "FreeInode" => req[c].num \notin Usable(IMAP),
         op = "FreeZone" => req[c].num \notin Usable(ZMAP)
  PROVE  A!Next
<1>1. Respond(op, TRUE, 0) /\ disk' = disk
  BY DEF Ignore
<1>2. /\ Stages[c] = "asked" /\ Stages' = [Stages EXCEPT ![c] = "answered"]
      /\ Asks[c] = AbstractCall(req[c]) /\ Asks' = Asks
      /\ Answers' = [Answers EXCEPT ![c] = [ok |-> TRUE, num |-> 0]]
      /\ inuse' = inuse
  BY <1>1, ServeMaps
<1>3. req[c] # NoRequest
  BY DEF Receive, NoRequest
<1>4. Asks[c] = [op |-> "Pass", kind |-> 0, num |-> 0]
  BY <1>2, <1>3 DEF AbstractCall, Receive, MapOf
<1>5. A!Pass(c)
  BY <1>1, <1>2, <1>4, TakenSame DEF A!Pass, A!Answer
<1> QED BY <1>5 DEF A!Next, A!Effect
-----------------------------------------------------------------------------
(* One lemma per action. *)

LEMMA CallMaps ==
  ASSUME IInv, NEW c \in Clients, NEW r \in Requests, Call(c, r)
  PROVE  A!Next
<1> DEFINE a == AbstractCall(r)
<1>1. /\ pc[c] = "idle"
      /\ r.op \in {"FreeInode", "FreeZone"} =>
           \/ <<MapOf(r.op), r.num>> \in inuse
           \/ r.num \notin Usable(MapOf(r.op))
      /\ pc' = [pc EXCEPT ![c] = "sending"]
      /\ req' = [req EXCEPT ![c] = r]
      /\ inuse' = IF r.op \in {"FreeInode", "FreeZone"}
                  THEN inuse \ {<<MapOf(r.op), r.num>>} ELSE inuse
      /\ UNCHANGED <<disk, server, res>>
      /\ pc \in [Clients -> {"idle", "sending", "receiving"}]
      /\ req \in [Clients -> Requests \cup {NoRequest}]
  BY DEF Call, IInv, TypeOK
<1>2. /\ Stages[c] = "idle" /\ Stages' = [Stages EXCEPT ![c] = "asked"]
      /\ Answers' = Answers
  BY <1>1 DEF Stages, StageOf, Answers
<1>3. Asks' = [Asks EXCEPT ![c] = a]
  <2>1. \A d \in Clients : req'[d] = IF d = c THEN r ELSE req[d]
    BY <1>1
  <2>2. Asks' = [d \in Clients |-> AbstractCall(req'[d])]
    BY DEF Asks, AbstractCall
  <2>3. Asks = [d \in Clients |-> AbstractCall(req[d])]
    BY DEF Asks
  <2> HIDE DEF a
  <2> QED BY <2>1, <2>2, <2>3 DEF a
<1>4. Taken' = Taken
  BY <1>1, TakenSame
<1>5. MapOf(r.op) \in Maps
  BY DEF MapOf, Maps
<1>6. r # NoRequest /\ r.op \in {"AllocInode", "AllocZone", "FreeInode", "FreeZone", "Close"}
  BY RequestShape
<1>7. CASE r.op \in {"FreeInode", "FreeZone"} /\ r.num \in Usable(MapOf(r.op))
  <2>1. a = [op |-> "Free", kind |-> MapOf(r.op), num |-> r.num]
    BY <1>7 DEF AbstractCall
  <2>2. a \in A!Calls
    BY <1>5, <1>7, <2>1, NumbersOf DEF A!Calls, Maps
  <2>3. <<a.kind, a.num>> \in inuse /\ inuse' = inuse \ {<<a.kind, a.num>>} /\ a.op = "Free"
    BY <1>1, <1>7, <2>1
  <2> HIDE DEF a
  <2>4. A!Ask(c, a)
    BY <1>2, <1>3, <1>4, <2>3 DEF A!Ask
  <2> QED BY <2>2, <2>4 DEF A!Next
<1>8. CASE ~(r.op \in {"FreeInode", "FreeZone"} /\ r.num \in Usable(MapOf(r.op)))
  <2>1. \/ a = [op |-> "Alloc", kind |-> MapOf(r.op), num |-> 0]
        \/ a = [op |-> "Pass", kind |-> 0, num |-> 0]
    BY <1>6, <1>8 DEF AbstractCall
  <2>2. a \in A!Calls /\ a.op # "Free"
    BY <1>5, <2>1 DEF A!Calls, Maps
  <2>3. inuse' = inuse
    <3>1. CASE r.op \in {"FreeInode", "FreeZone"}
      <4>1. <<MapOf(r.op), r.num>> \notin inuse
        BY <1>8, <3>1 DEF IInv, Holdings
      <4> QED BY <1>1, <3>1, <4>1
    <3>2. CASE r.op \notin {"FreeInode", "FreeZone"}
      BY <1>1, <3>2
    <3> QED BY <3>1, <3>2
  <2> HIDE DEF a
  <2>4. A!Ask(c, a)
    BY <1>2, <1>3, <1>4, <2>2, <2>3 DEF A!Ask
  <2> QED BY <2>2, <2>4 DEF A!Next
<1> QED BY <1>7, <1>8

LEMMA ReplyMaps == ASSUME IInv, NEW c \in Clients, Reply(c) PROVE A!Next
<1>1. /\ server = "reply" /\ pc[c] = "receiving"
      /\ pc' = [pc EXCEPT ![c] = "idle"]
      /\ req' = [req EXCEPT ![c] = NoRequest]
      /\ inuse' = IF res.op \in {"AllocInode", "AllocZone"} /\ res.ok
                  THEN inuse \cup {<<MapOf(res.op), res.num>>} ELSE inuse
      /\ disk' = disk
      /\ pc \in [Clients -> {"idle", "sending", "receiving"}]
      /\ req \in [Clients -> Requests \cup {NoRequest}]
  BY DEF Reply, IInv, TypeOK
<1>2. res.op = req[c].op /\ \A d \in Clients : pc[d] = "receiving" => d = c
  BY <1>1 DEF IInv, RepliesReachCaller
<1>3. Stages[c] = "answered" /\ Stages' = [Stages EXCEPT ![c] = "idle"]
  BY <1>1 DEF Stages, StageOf
<1>4. Asks' = [Asks EXCEPT ![c] = A!NoCall]
  <2>1. AbstractCall(NoRequest) = A!NoCall
    BY DEF AbstractCall, NoRequest, A!NoCall
  <2>2. \A d \in Clients : req'[d] = IF d = c THEN NoRequest ELSE req[d]
    BY <1>1
  <2>3. Asks' = [d \in Clients |-> AbstractCall(req'[d])]
    BY DEF Asks, AbstractCall
  <2>4. Asks = [d \in Clients |-> AbstractCall(req[d])]
    BY DEF Asks
  <2> QED BY <2>1, <2>2, <2>3, <2>4
<1>5. Answers[c] = [ok |-> res.ok, num |-> res.num]
  BY <1>1 DEF Answers
<1>6. Answers' = [Answers EXCEPT ![c] = A!NoAnswer]
  <2>1. \A d \in Clients : pc'[d] # "receiving"
    BY <1>1, <1>2
  <2>2. \A d \in Clients : d # c => pc[d] # "receiving"
    BY <1>2
  <2> QED BY <2>1, <2>2 DEF Answers, A!NoAnswer
<1>7. Taken' = Taken
  BY <1>1, TakenSame
<1>8. inuse' = IF Asks[c].op = "Alloc" /\ Answers[c].ok
               THEN inuse \cup {<<Asks[c].kind, Answers[c].num>>} ELSE inuse
  <2>1. Asks[c] = AbstractCall(req[c])
    BY DEF Asks
  <2>2. CASE res.op \in {"AllocInode", "AllocZone"}
    <3>1. Asks[c] = [op |-> "Alloc", kind |-> MapOf(res.op), num |-> 0]
      BY <1>2, <2>1, <2>2 DEF AbstractCall
    <3> QED BY <3>1, <2>2, <1>1, <1>5
  <2>3. CASE res.op \notin {"AllocInode", "AllocZone"}
    <3>1. Asks[c].op # "Alloc"
      BY <1>2, <2>1, <2>3 DEF AbstractCall
    <3> QED BY <3>1, <2>3, <1>1
  <2> QED BY <2>2, <2>3
<1>9. A!Return(c)
  BY <1>3, <1>4, <1>6, <1>7, <1>8 DEF A!Return
<1> QED BY <1>9 DEF A!Next

LEMMA AllocInodeMaps ==
  ASSUME SmallMaps, IInv, NEW c \in Clients, alloc_inode(c) PROVE A!Next
<1>1. PICK r \in alloc_bit(IMAP, i_search) :
           disk' = disk \cup r.marks /\ Respond("AllocInode", r.bit # NO_BIT, r.bit)
  BY DEF alloc_inode
<1>2. Receive(c, "AllocInode")
  BY DEF alloc_inode
<1>3. IMAP \in Maps /\ AllocOp(IMAP) = "AllocInode" /\ i_search \in Nat
  BY GeometryAssumption DEF Maps, AllocOp, IInv, TypeOK
<1>4. r.bit = IF r.bit = NO_BIT THEN 0 ELSE NumberOf(IMAP, r.bit)
  BY DEF NO_BIT, NumberOf
<1>5. Respond("AllocInode", r.bit # NO_BIT, IF r.bit = NO_BIT THEN 0 ELSE NumberOf(IMAP, r.bit))
  BY <1>1, <1>4
<1> QED BY <1>1, <1>2, <1>3, <1>5, AllocMaps

LEMMA AllocZoneMaps ==
  ASSUME SmallMaps, IInv, NEW c \in Clients, alloc_zone(c) PROVE A!Next
<1> DEFINE zstart == req[c].num
           o == IF zstart <= Firstdatazone
                THEN z_search ELSE zstart - (Firstdatazone - 1)
<1>1. PICK r \in alloc_bit(ZMAP, o) :
           /\ disk' = disk \cup r.marks
           /\ IF r.bit = NO_BIT
              THEN UNCHANGED z_search /\ Respond("AllocZone", FALSE, 0)
              ELSE LowerZSearch(r.bit) /\ Respond("AllocZone", TRUE, NumberOf(ZMAP, r.bit))
  BY DEF alloc_zone
<1>2. Receive(c, "AllocZone")
  BY DEF alloc_zone
<1>3. ZMAP \in Maps /\ AllocOp(ZMAP) = "AllocZone"
  BY DEF Maps, AllocOp, IMAP, ZMAP
<1>4. o \in Nat
  <2>1. req[c] \in Requests
    BY <1>2 DEF IInv, TypeOK, Receive, NoRequest
  <2>2. zstart \in {0} \cup Usable(ZMAP)
    BY <2>1, <1>2, RequestShape DEF Receive
  <2>3. zstart \in Nat
    BY <2>2, UsableNumbers
  <2> QED BY <2>3, <1>3, Geometry, GeometryAssumption DEF IInv, TypeOK
<1> HIDE DEF o
<1>5. Respond("AllocZone", r.bit # NO_BIT, IF r.bit = NO_BIT THEN 0 ELSE NumberOf(ZMAP, r.bit))
  BY <1>1 DEF Respond
<1> QED BY <1>1, <1>2, <1>3, <1>4, <1>5, AllocMaps

LEMMA FreeInodeMaps ==
  ASSUME SmallMaps, IInv, NEW c \in Clients, free_inode(c) PROVE A!Next
<1> DEFINE inum == req[c].num
<1>1. Receive(c, "FreeInode")
  BY DEF free_inode
<1>2. inum \in Usable(IMAP) \cup {0, Inodes + 1}
  <2>1. req[c] \in Requests
    BY <1>1 DEF IInv, TypeOK, Receive, NoRequest
  <2> QED BY <2>1, <1>1, RequestShape DEF Receive
<1>3. inum \in Nat
  BY <1>2, UsableNumbers, GeometryAssumption
<1>4. CASE (inum <= 0 \/ inum > Inodes) /\ Ignore("FreeInode")
  <2>1. inum \notin Usable(IMAP)
    BY <1>4, UsableNumbers, GeometryAssumption
  <2> QED BY <2>1, <1>1, <1>4, IgnoreMaps
<1>5. CASE inum > 0 /\ inum <= Inodes
  <2>1. /\ IMAP \in Maps /\ FreeOp(IMAP) = "FreeInode"
        /\ inum \in 1 .. map_bits(IMAP) - 1 /\ inum = NumberOf(IMAP, inum)
    BY <1>3, <1>5, GeometryAssumption DEF Maps, FreeOp, map_bits, NumberOf, IMAP
  <2>2. checkBit(IMAP, inum)
    BY <2>1, <1>1, FreeBit
  <2>3. free_bit(IMAP, inum) /\ Respond("FreeInode", TRUE, 0)
    <3>1. ~(inum <= 0 \/ inum > Inodes)
      BY <1>3, <1>5, GeometryAssumption
    <3> HIDE DEF inum
    <3> QED BY <3>1, <2>2, Zenon DEF free_inode, PanicIfClear, inum
  <2> QED BY <2>1, <2>3, <1>1, FreeMaps
<1> QED BY <1>3, <1>4, <1>5, GeometryAssumption DEF free_inode

LEMMA FreeZoneMaps ==
  ASSUME SmallMaps, IInv, NEW c \in Clients, free_zone(c) PROVE A!Next
<1> DEFINE znum == req[c].num
           b == znum - (Firstdatazone - 1)
<1>1. Receive(c, "FreeZone")
  BY DEF free_zone
<1>2. znum \in Usable(ZMAP) \cup {0, Zones}
  <2>1. req[c] \in Requests
    BY <1>1 DEF IInv, TypeOK, Receive, NoRequest
  <2> QED BY <2>1, <1>1, RequestShape DEF Receive
<1>3. znum \in Nat
  BY <1>2, UsableNumbers, GeometryAssumption
<1>4. CASE (znum < Firstdatazone \/ znum >= Zones) /\ Ignore("FreeZone")
  <2>1. znum \notin Usable(ZMAP)
    BY <1>4, UsableNumbers, GeometryAssumption
  <2> QED BY <2>1, <1>1, <1>4, IgnoreMaps
<1>5. CASE znum >= Firstdatazone /\ znum < Zones
  <2>1. /\ ZMAP \in Maps /\ FreeOp(ZMAP) = "FreeZone"
        /\ b \in 1 .. map_bits(ZMAP) - 1 /\ znum = NumberOf(ZMAP, b)
    BY <1>3, <1>5, GeometryAssumption DEF Maps, FreeOp, map_bits, NumberOf, IMAP, ZMAP
  <2>2. checkBit(ZMAP, b)
    BY <2>1, <1>1, FreeBit
  <2>3. free_bit(ZMAP, b) /\ Respond("FreeZone", TRUE, 0)
    <3>1. ~(znum < Firstdatazone \/ znum >= Zones)
      BY <1>3, <1>5, GeometryAssumption
    <3> HIDE DEF znum, b
    <3> QED BY <3>1, <2>2, Zenon DEF free_zone, PanicIfClear, znum, b
  <2> HIDE DEF b
  <2> QED BY <2>1, <2>3, <1>1, FreeMaps
<1> QED BY <1>3, <1>4, <1>5, GeometryAssumption DEF free_zone

LEMMA CloseMaps == ASSUME IInv, NEW c \in Clients, CloseRequest(c) PROVE A!Next
<1>1. Receive(c, "Close") /\ Ignore("Close")
  BY DEF CloseRequest, Ignore
<1> QED BY <1>1, IgnoreMaps

LEMMA InitMaps == ASSUME SmallMaps, Init PROVE A!Init
<1>1. IInv
  BY InitIInv
<1>2. /\ pc = [c \in Clients |-> "idle"] /\ req = [c \in Clients |-> NoRequest]
      /\ server = "loop"
  BY DEF Init
<1>3. Stages = [c \in Clients |-> "idle"]
  BY <1>2 DEF Stages, StageOf
<1>4. Asks = [c \in Clients |-> A!NoCall]
  <2>1. AbstractCall(NoRequest) = A!NoCall
    BY DEF AbstractCall, NoRequest, A!NoCall
  <2> QED BY <2>1, <1>2 DEF Asks
<1>5. Answers = [c \in Clients |-> A!NoAnswer]
  BY <1>2 DEF Answers, A!NoAnswer
<1>6. \A w \in Maps : A!Pairs(w) = {<<w, n>> : n \in Usable(w)}
  BY NumbersOf DEF A!Pairs
<1>7. inuse \subseteq UNION {A!Pairs(w) : w \in {IMAP, ZMAP}}
  BY <1>1, <1>6 DEF IInv, Holdings, Maps
<1>8. \A w \in Maps : \A n : <<w, n>> \in Taken <=> <<w, n>> \in inuse
  <2> SUFFICES ASSUME NEW w \in Maps, NEW n
               PROVE  <<w, n>> \in Taken <=> <<w, n>> \in inuse
    OBVIOUS
  <2>1. \A b \in 1 .. map_bits(w) - 1 :
          <<start_block(w), b>> \in disk <=> <<w, NumberOf(w, b)>> \in inuse
    BY <1>1, <1>2 DEF IInv, Accounts, Accounted, Freeing, Allocating
  <2>2. <<w, n>> \in inuse => \E b \in 1 .. map_bits(w) - 1 : n = NumberOf(w, b)
    BY <1>1 DEF IInv, Holdings, Usable
  <2>3. <<w, n>> \in Taken <=>
          \E b \in 1 .. map_bits(w) - 1 : n = NumberOf(w, b) /\ <<start_block(w), b>> \in disk
    BY TakenIs
  <2> QED BY <2>1, <2>2, <2>3
<1>9. Taken = inuse
  <2>1. \A x \in inuse : \E w \in Maps : \E n : x = <<w, n>>
    BY <1>1 DEF IInv, Holdings
  <2> QED BY <1>8, <2>1, TakenPairs
<1> QED BY <1>3, <1>4, <1>5, <1>7, <1>9 DEF A!Init

LEMMA NextMaps == ASSUME SmallMaps, IInv, [Next]_vars PROVE [A!Next]_A!vars
<1>1. CASE UNCHANGED vars
  <2>1. /\ inuse' = inuse /\ Taken' = Taken /\ Stages' = Stages /\ Asks' = Asks
        /\ Answers' = Answers
    BY <1>1, TakenSame DEF vars, Stages, StageOf, Asks, AbstractCall, Answers
  <2> QED BY <2>1 DEF A!vars
<1>2. CASE Next
  <2>1. PICK c \in Clients :
          (\E r \in Requests : Call(c, r)) \/ Serve(c) \/ Reply(c)
    BY <1>2 DEF Next
  <2>2. A!Next
    BY <2>1, CallMaps, ReplyMaps, AllocInodeMaps, AllocZoneMaps, FreeInodeMaps,
       FreeZoneMaps, CloseMaps DEF Serve
  <2> QED BY <2>2
<1> QED BY <1>1, <1>2

\* Every behaviour of the bitmap server is a behaviour of the allocator: calls
\* take effect at one point, hand out free numbers, and fail on a full map only.
THEOREM Implementation == ASSUME SmallMaps PROVE Spec => ImplementsAllocator
<1>1. Init => IInv /\ A!Init
  BY InitIInv, InitMaps
<1>2. IInv /\ [Next]_vars => IInv' /\ [A!Next]_A!vars
  BY NextIInv, NextMaps
<1> QED BY <1>1, <1>2, PTL DEF Spec, ImplementsAllocator, A!Spec
=============================================================================
