------------------------------- MODULE Bitmap -------------------------------
(***************************************************************************)
(* The bitmap server of one device (minixfs/bitmap/bitmap.go): a goroutine  *)
(* that hands out inode and zone numbers from the two on-disk bit maps, and *)
(* the goroutines that call it through its unbuffered channels in and out.  *)
(*                                                                         *)
(* A map block is a set of marked bit positions.  The word-by-word scan of  *)
(* alloc_bit is modelled by the position it ends at.  CharBit is 8 in the   *)
(* build and Words is Blocksize / 2; the model scales both down.            *)
(***************************************************************************)
EXTENDS Integers, FiniteSets

CONSTANTS Clients,         \* goroutines that call the server
          CharBit,         \* bits in a byte
          Words,           \* 16-bit words (bit chunks) in a map block
          Inodes,          \* inodes of the device
          Zones,           \* zones of the device, boot block to last zone
          Firstdatazone,   \* first zone that is not file system metadata
          ImapBlocks, ZmapBlocks

IMAP == 0
ZMAP == 1
NO_BIT == 0

FS_BITCHUNK_BITS == 2 * CharBit
bitchunks_per_block == Words * CharBit

\* Bits that a map block really has room for.
BlockBits == Words * FS_BITCHUNK_BITS

start_block(which) == IF which = IMAP THEN 0 ELSE ImapBlocks
map_bits(which) == IF which = IMAP THEN Inodes + 1 ELSE Zones - (Firstdatazone - 1)
bit_blocks(which) == IF which = IMAP THEN ImapBlocks ELSE ZmapBlocks

ASSUME GeometryAssumption ==
  /\ CharBit \in Nat \ {0} /\ Words \in Nat \ {0}
  /\ Inodes \in Nat \ {0} /\ ImapBlocks \in Nat \ {0} /\ ZmapBlocks \in Nat \ {0}
  /\ Firstdatazone \in Nat \ {0} /\ Zones \in Nat /\ Zones > Firstdatazone

\* The maps fit in the blocks the superblock gives them.
ASSUME MapsFitAssumption ==
  \A which \in {IMAP, ZMAP} : map_bits(which) <= bit_blocks(which) * BlockBits

\* Both maps are small enough for bitchunks_per_block, which is half of
\* BlockBits, to number their bits without a clash.
SmallMaps == \A which \in {IMAP, ZMAP} : map_bits(which) <= bitchunks_per_block

VARIABLES disk,      \* the marked bits of the map blocks, as <<block, position>>
          i_search, z_search,
          pc,        \* pc[c]: "idle", "sending" on in, "receiving" on out
          req,       \* req[c]: the request c is sending or waiting on
          server,    \* "loop", "reply", "closed" or "panicked"
          res,       \* the response the server is sending
          inuse      \* <<which, number>> pairs the file system's owners hold

vars == <<disk, i_search, z_search, pc, req, server, res, inuse>>
-----------------------------------------------------------------------------
Positions == (0 .. ImapBlocks + ZmapBlocks - 1) \X (0 .. BlockBits - 1)

\* The numbers handed to callers: inode numbers are bit numbers, zone numbers
\* are absolute.
NumberOf(which, b) == IF which = IMAP THEN b ELSE (Firstdatazone - 1) + b
Usable(which) == {NumberOf(which, b) : b \in 1 .. map_bits(which) - 1}

\* Where the on-disk format keeps bit b.
HomeOf(which, b) == <<start_block(which) + (b \div BlockBits), b % BlockBits>>

\* Where the code looks for bit b: checkBit, and the test of free_bit.
\* (BitPlaceOneMap: as if the zone map started where the inode map does.)
BitPlaceOneMap(which, b) ==
  <<b \div bitchunks_per_block, b % bitchunks_per_block>>
BitPlace(which, b) ==
  <<start_block(which) + (b \div bitchunks_per_block),
    (((b % bitchunks_per_block) \div FS_BITCHUNK_BITS) * FS_BITCHUNK_BITS)
      + (b % FS_BITCHUNK_BITS)>>
checkBit(which, b) == BitPlace(which, b) \in disk

Requests ==
       {[op |-> "AllocInode"], [op |-> "Close"]}
  \cup {[op |-> "AllocZone", num |-> z] : z \in {0} \cup Usable(ZMAP)}
  \cup {[op |-> "FreeInode", num |-> n] : n \in Usable(IMAP) \cup {0, Inodes + 1}}
  \cup {[op |-> "FreeZone", num |-> z] : z \in Usable(ZMAP) \cup {0, Zones}}
NoRequest == [op |-> "none"]

MapOf(op) == IF op \in {"AllocInode", "FreeInode"} THEN IMAP ELSE ZMAP
Responses == [op : {"none", "AllocInode", "AllocZone", "FreeInode", "FreeZone", "Close"},
              ok : BOOLEAN, num : Nat]
NoResponse == [op |-> "none", ok |-> FALSE, num |-> 0]
-----------------------------------------------------------------------------
(***************************************************************************)
(* alloc_bit visits bit_blocks + 1 blocks, from the one origin lies in, and *)
(* takes the lowest free position of the first block whose lowest free      *)
(* position has a number inside the map.  In the first block the scan       *)
(* starts at the word of origin.                                            *)
(*                                                                         *)
(* A definition introduced in parentheses is a faulty variant of the one    *)
(* that follows it: putting it in that one's place breaks a property.       *)
(***************************************************************************)
Origin(which, o) == IF o >= map_bits(which) THEN 0 ELSE o

VisitedBlock(which, o, k) ==
  LET first == Origin(which, o) \div bitchunks_per_block
      next == IF first + 1 >= bit_blocks(which) THEN 0 ELSE first + 1
  IN  IF k = 0 THEN first ELSE (next + (k - 1)) % bit_blocks(which)

FirstWord(which, o, k) ==
  IF k = 0 THEN (Origin(which, o) % bitchunks_per_block) \div FS_BITCHUNK_BITS ELSE 0

FreeIn(which, o, k) ==
  {p \in FirstWord(which, o, k) * FS_BITCHUNK_BITS .. BlockBits - 1 :
     <<start_block(which) + VisitedBlock(which, o, k), p>> \notin disk}

\* "Iterate over all blocks plus one, because we start in the middle".
bcountShort(which) == bit_blocks(which)
bcount(which) == bit_blocks(which) + 1

BitNumber(which, o, k, p) == (VisitedBlock(which, o, k) * bitchunks_per_block) + p

\* The scan stops at position p of its k-th block.
\* (ScanStopsAnywhere: without the test for the end of the map.)
ScanStopsAnywhere(which, o, k, p) ==
  /\ k = 0
  /\ p \in FreeIn(which, o, k)
  /\ \A q \in FreeIn(which, o, k) : p <= q
ScanStopsAt(which, o, k, p) ==
  /\ p \in FreeIn(which, o, k)
  /\ \A q \in FreeIn(which, o, k) : p <= q
  /\ BitNumber(which, o, k, p) < map_bits(which)
  /\ \A j \in 0 .. k - 1 : \A q \in FreeIn(which, o, j) :
       BitNumber(which, o, j, q) >= map_bits(which)

\* The scan ends without a bit inside the map.
ScanFails(which, o) ==
  \A j \in 0 .. bcount(which) - 1 : \A q \in FreeIn(which, o, j) :
     BitNumber(which, o, j, q) >= map_bits(which)

Scanned(which) == (0 .. bcount(which) - 1) \X (0 .. BlockBits - 1)

\* alloc_bit: the bit number it returns and the places it marks, or NO_BIT.
\* (alloc_bitUnmarked: without the store to bitmaps[i].)
alloc_bitUnmarked(which, o) ==
  {[bit |-> BitNumber(which, o, x[1], x[2]), marks |-> {}] :
     x \in {y \in Scanned(which) : ScanStopsAt(which, o, y[1], y[2])}}
alloc_bit(which, o) ==
       {[bit |-> BitNumber(which, o, x[1], x[2]),
         marks |-> {<<start_block(which) + VisitedBlock(which, o, x[1]), x[2]>>}] :
          x \in {y \in Scanned(which) : ScanStopsAt(which, o, y[1], y[2])}}
  \cup {r \in {[bit |-> NO_BIT, marks |-> {}]} : ScanFails(which, o)}

\* free_bit, for a bit that is marked.
\* (free_bitWholeWord: k = k & mask for k = k & ^mask.)
free_bitWholeWord(which, b) ==
  disk' = {x \in disk :
             \/ x[1] # BitPlace(which, b)[1]
             \/ x[2] \div FS_BITCHUNK_BITS # BitPlace(which, b)[2] \div FS_BITCHUNK_BITS
             \/ x = BitPlace(which, b)}
free_bit(which, b) == disk' = disk \ {BitPlace(which, b)}
-----------------------------------------------------------------------------
(***************************************************************************)
(* A request is received and handled in one step: the server goroutine      *)
(* touches the maps alone, and blocks on out until its reply is taken.      *)
(***************************************************************************)
\* (ReceiveWhileReplying: the loop takes a request before its reply is taken.)
ReceiveWhileReplying(c, op) ==
  /\ server \in {"loop", "reply"}
  /\ pc[c] = "sending" /\ req[c].op = op
  /\ pc' = [pc EXCEPT ![c] = "receiving"]
  /\ UNCHANGED <<req, inuse>>
Receive(c, op) ==
  /\ server = "loop"
  /\ pc[c] = "sending" /\ req[c].op = op
  /\ pc' = [pc EXCEPT ![c] = "receiving"]
  /\ UNCHANGED <<req, inuse>>

Respond(op, ok, num) ==
  /\ server' = "reply"
  /\ res' = [op |-> op, ok |-> ok, num |-> num]

\* "next time start here".  (StartAfter: next time start after it.)
StartAfter(b) == i_search' = IF b = NO_BIT THEN i_search ELSE b + 1
StartHere(b) == i_search' = IF b = NO_BIT THEN i_search ELSE b

alloc_inode(c) ==
  /\ Receive(c, "AllocInode")
  /\ \E r \in alloc_bit(IMAP, i_search) :
       /\ disk' = disk \cup r.marks
       /\ StartHere(r.bit)
       /\ Respond("AllocInode", r.bit # NO_BIT, r.bit)
  /\ UNCHANGED z_search

\* z_search is moved down to the bit, or set when it was never set.
LowerZSearch(b) ==
  z_search' = IF b < z_search \/ z_search = NO_BIT THEN b ELSE z_search

alloc_zone(c) ==
  /\ Receive(c, "AllocZone")
  /\ LET zstart == req[c].num
         bstart == IF zstart <= Firstdatazone
                   THEN z_search ELSE zstart - (Firstdatazone - 1)
     IN  \E r \in alloc_bit(ZMAP, bstart) :
           /\ disk' = disk \cup r.marks
           /\ IF r.bit = NO_BIT
              THEN UNCHANGED z_search /\ Respond("AllocZone", FALSE, 0)
              ELSE LowerZSearch(r.bit) /\ Respond("AllocZone", TRUE, NumberOf(ZMAP, r.bit))
  /\ UNCHANGED i_search

\* Releasing a bit that is not marked panics, and takes the program down.
PanicIfClear(which, b) ==
  /\ ~checkBit(which, b)
  /\ server' = "panicked"
  /\ UNCHANGED <<disk, i_search, z_search, res>>

\* A number that is out of range is ignored.  (IgnoreSilently: without a reply.)
IgnoreSilently(op) == UNCHANGED <<disk, i_search, z_search, server, res>>
Ignore(op) ==
  /\ Respond(op, TRUE, 0)
  /\ UNCHANGED <<disk, i_search, z_search>>

LowerISearch(inum) == i_search' = IF inum < i_search THEN inum ELSE i_search

free_inode(c) ==
  /\ Receive(c, "FreeInode")
  /\ LET inum == req[c].num IN
     \/ (inum <= 0 \/ inum > Inodes) /\ Ignore("FreeInode")
     \/ /\ inum > 0 /\ inum <= Inodes
        /\ checkBit(IMAP, inum)
        /\ free_bit(IMAP, inum)
        /\ LowerISearch(inum)
        /\ Respond("FreeInode", TRUE, 0)
        /\ UNCHANGED z_search
     \/ inum > 0 /\ inum <= Inodes /\ PanicIfClear(IMAP, inum)

free_zone(c) ==
  /\ Receive(c, "FreeZone")
  /\ LET znum == req[c].num
         bit == znum - (Firstdatazone - 1)
     IN
     \/ (znum < Firstdatazone \/ znum >= Zones) /\ Ignore("FreeZone")
     \/ /\ znum >= Firstdatazone /\ znum < Zones
        /\ checkBit(ZMAP, bit)
        /\ free_bit(ZMAP, bit)
        /\ LowerZSearch(bit)
        /\ Respond("FreeZone", TRUE, 0)
        /\ UNCHANGED i_search
     \/ znum >= Firstdatazone /\ znum < Zones /\ PanicIfClear(ZMAP, bit)

CloseRequest(c) ==
  /\ Receive(c, "Close")
  /\ Respond("Close", TRUE, 0)
  /\ UNCHANGED <<disk, i_search, z_search>>

\* The reply goes to any goroutine that is receiving on out.  After the reply
\* to Close the server closes both channels and its loop ends.  From here on
\* an allocated number is held by its caller.
Reply(c) ==
  /\ server = "reply"
  /\ pc[c] = "receiving"
  /\ pc' = [pc EXCEPT ![c] = "idle"]
  /\ req' = [req EXCEPT ![c] = NoRequest]
  /\ server' = IF res.op = "Close" THEN "closed" ELSE "loop"
  /\ inuse' = IF res.op \in {"AllocInode", "AllocZone"} /\ res.ok
              THEN inuse \cup {<<MapOf(res.op), res.num>>} ELSE inuse
  /\ res' = NoResponse
  /\ UNCHANGED <<disk, i_search, z_search>>

\* The callers' discipline: a number in range is freed by its holder, who gives
\* it up with the call; Close is called last, when no other call is going on.
Closing == server \in {"closed", "panicked"} \/ \E c \in Clients : req[c].op = "Close"

Call(c, r) ==
  /\ pc[c] = "idle" /\ ~Closing
  /\ r.op \in {"FreeInode", "FreeZone"} =>
       \/ <<MapOf(r.op), r.num>> \in inuse
       \/ r.num \notin Usable(MapOf(r.op))
  /\ r.op = "Close" => \A d \in Clients : pc[d] = "idle"
  /\ pc' = [pc EXCEPT ![c] = "sending"]
  /\ req' = [req EXCEPT ![c] = r]
  /\ inuse' = IF r.op \in {"FreeInode", "FreeZone"}
              THEN inuse \ {<<MapOf(r.op), r.num>>} ELSE inuse
  /\ UNCHANGED <<disk, i_search, z_search, server, res>>
-----------------------------------------------------------------------------
\* A device image: bit 0 of each map is marked, any of the usable bits are, and
\* the bits past the end of the maps are all marked or all clear.
ReservedPlaces == {HomeOf(which, 0) : which \in {IMAP, ZMAP}}
UsablePlaces(which) == {HomeOf(which, b) : b \in 1 .. map_bits(which) - 1}
PadPlaces == Positions \ (ReservedPlaces \cup UsablePlaces(IMAP) \cup UsablePlaces(ZMAP))

Init ==
  /\ \E used \in SUBSET (UsablePlaces(IMAP) \cup UsablePlaces(ZMAP)), pad \in {{}, PadPlaces} :
       disk = used \cup pad \cup ReservedPlaces
  /\ inuse = {<<IMAP, NumberOf(IMAP, b)>> :
                b \in {b \in 1 .. map_bits(IMAP) - 1 : HomeOf(IMAP, b) \in disk}}
        \cup {<<ZMAP, NumberOf(ZMAP, b)>> :
                b \in {b \in 1 .. map_bits(ZMAP) - 1 : HomeOf(ZMAP, b) \in disk}}
  /\ i_search = 0 /\ z_search = 0
  /\ pc = [c \in Clients |-> "idle"]
  /\ req = [c \in Clients |-> NoRequest]
  /\ server = "loop"
  /\ res = NoResponse

Serve(c) == \/ alloc_inode(c) \/ alloc_zone(c) \/ free_inode(c) \/ free_zone(c)
            \/ CloseRequest(c)

Next == \E c \in Clients :
          \/ \E r \in Requests : Call(c, r)
          \/ Serve(c)
          \/ Reply(c)

\* The runtime wakes the senders blocked on a channel in FIFO order, so a
\* sender is served if the server comes back to its loop again and again.
Fairness == \A c \in Clients : SF_vars(Serve(c)) /\ WF_vars(Reply(c))

Spec == Init /\ [][Next]_vars /\ Fairness
-----------------------------------------------------------------------------
(* Properties *)

\* Numbers on their way: a free not yet handled, an allocation not yet taken.
BeingFreed(which) ==
  {req[c].num : c \in {d \in Clients :
     /\ pc[d] = "sending"
     /\ req[d].op = IF which = IMAP THEN "FreeInode" ELSE "FreeZone"}}
  \cap Usable(which)
BeingAllocated(which) ==
  IF /\ server = "reply" /\ res.ok
     /\ res.op = IF which = IMAP THEN "AllocInode" ELSE "AllocZone"
  THEN {res.num} ELSE {}

\* Every variable keeps its shape.
TypeOK ==
  /\ disk \subseteq Positions
  /\ i_search \in 0 .. Inodes
  /\ z_search \in 0 .. map_bits(ZMAP) - 1
  /\ pc \in [Clients -> {"idle", "sending", "receiving"}]
  /\ req \in [Clients -> Requests \cup {NoRequest}]
  /\ server \in {"loop", "reply", "closed", "panicked"}
  /\ res \in Responses
  /\ inuse \subseteq {IMAP, ZMAP} \X (0 .. Inodes + Zones)

\* alloc_bit never hands out a number that is in use: whenever the server
\* answers an allocation, no owner holds that number and nobody is freeing it.
AllocatedIsFresh ==
  \A which \in {IMAP, ZMAP} : \A n \in BeingAllocated(which) :
    <<which, n>> \notin inuse /\ n \notin BeingFreed(which)

\* The bit maps record exactly the numbers in use: a usable bit is marked iff
\* its number is held, being freed or being allocated (no leak, no early free).
MapsMatchUse ==
  \A which \in {IMAP, ZMAP} : \A b \in 1 .. map_bits(which) - 1 :
    checkBit(which, b) <=>
      \/ <<which, NumberOf(which, b)>> \in inuse
      \/ NumberOf(which, b) \in BeingFreed(which) \cup BeingAllocated(which)

\* free_bit's "tried to free unused inode/block" never fires for callers that
\* free what they hold, whatever the interleaving of their calls.
NeverPanics == server # "panicked"

\* i_search is a lower bound of the free inodes, so that alloc_inode, which
\* starts there, finds a free inode wherever it is.
SearchHintSound == \A b \in 0 .. i_search - 1 : checkBit(IMAP, b)

\* AllocInode and AllocZone fail (ENFILE, ENOSPC) only on a full map: starting
\* the scan in the middle and leaving a block at the end of the map skip no bit.
FailsOnlyWhenFull ==
  \A which \in {IMAP, ZMAP} :
    (server = "reply" /\ ~res.ok
       /\ res.op = IF which = IMAP THEN "AllocInode" ELSE "AllocZone")
    => \A b \in 1 .. map_bits(which) - 1 : checkBit(which, b)

\* Clients share one out channel and assert the type of what they receive: the
\* only client receiving is the one whose request is being answered.
RepliesReachCaller ==
  \A c \in Clients : pc[c] = "receiving" =>
    /\ server \in {"reply", "panicked"}
    /\ server = "reply" => res.op = req[c].op
    /\ \A d \in Clients : pc[d] = "receiving" => d = c

\* Every call of the server returns.
EveryCallReturns == \A c \in Clients : pc[c] # "idle" ~> pc[c] = "idle"
-----------------------------------------------------------------------------
(* The server implements the allocator its interface promises. *)

AbstractCall(r) ==
  IF r.op \in {"AllocInode", "AllocZone"}
  THEN [op |-> "Alloc", kind |-> MapOf(r.op), num |-> 0]
  ELSE IF r.op \in {"FreeInode", "FreeZone"} /\ r.num \in Usable(MapOf(r.op))
  THEN [op |-> "Free", kind |-> MapOf(r.op), num |-> r.num]
  ELSE [op |-> IF r = NoRequest THEN "none" ELSE "Pass", kind |-> 0, num |-> 0]

StageOf(c) == IF pc[c] = "idle" THEN "idle"
              ELSE IF pc[c] = "sending" THEN "asked" ELSE "answered"

Marked(which) ==
  {<<which, NumberOf(which, b)>> :
     b \in {b \in 1 .. map_bits(which) - 1 : checkBit(which, b)}}

UsableNumbersOf == [which \in {IMAP, ZMAP} |-> Usable(which)]
Taken == Marked(IMAP) \cup Marked(ZMAP)
Stages == [c \in Clients |-> StageOf(c)]
Asks == [c \in Clients |-> AbstractCall(req[c])]
Answers == [c \in Clients |-> IF pc[c] = "receiving"
                              THEN [ok |-> res.ok, num |-> res.num]
                              ELSE [ok |-> FALSE, num |-> 0]]

A == INSTANCE Allocator WITH
       Kinds <- {IMAP, ZMAP}, Numbers <- UsableNumbersOf,
       held <- inuse, taken <- Taken, stage <- Stages, ask <- Asks, answer <- Answers

\* Every behaviour of the server is one of the allocator.
ImplementsAllocator == A!Spec
=============================================================================
