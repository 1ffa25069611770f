------------------------------ MODULE ZoneMap ------------------------------
(***************************************************************************)
(* How files are laid out in zones (minixfs/common/read.go and              *)
(* minixfs/utils/write.go): the zone numbers in the inode, the single and   *)
(* double indirect blocks, the zones that a write allocates and Truncate    *)
(* frees.  Every file has a server of its own that works on it alone, and   *)
(* all of them share the zone bitmap: a step lasts from one call of the     *)
(* bitmap to the next.  The bitmap itself is that of module Allocator.      *)
(*                                                                         *)
(* The block of a zone is the zone (scale is 0, or ClearZone panics).  A    *)
(* write is one chunk of module Finode, which does not span blocks.         *)
(* Blocksize, dzones (V2_NR_DZONES) and nr_indirects are scaled down.       *)
(*                                                                         *)
(* A definition introduced in parentheses is a faulty variant of the one    *)
(* that follows it: putting it in that one's place breaks a property.       *)
(***************************************************************************)
EXTENDS Integers

CONSTANTS Files,
          Zones, NO_ZONE,
          Illegal,       \* what RdIndir refuses in an indirect block
          Blocksize, dzones, nr_indirects,
          Chunks,        \* the chunks that are written: position and length
          Values,
          BootByte,      \* the bytes of block 0
          OldByte,       \* the bytes of zones that have never been used
          Ops            \* beside writes: "remove" a file, "truncate" it (open
                         \* with O_TRUNC, between two writes), "reuse" the
                         \* inode of a removed one

Blocks == dzones + nr_indirects + (nr_indirects * nr_indirects)
MaxSize == Blocks * Blocksize

ASSUME ZonesAssumption == NO_ZONE \notin Zones /\ Illegal \notin Zones \cup {NO_ZONE}
ASSUME GeometryAssumption ==
  Blocksize \in Nat \ {0} /\ dzones \in Nat \ {0} /\ nr_indirects \in Nat \ {0}
ASSUME ChunksAssumption ==
  \A c \in Chunks :
    /\ c.pos \in 0 .. MaxSize - 1 /\ c.len \in 1 .. Blocksize
    /\ (c.pos % Blocksize) + c.len <= Blocksize

VARIABLES Zone,    \* Zone[f]: the zone numbers in the inode, direct ones first
          Size,
          table,   \* table[z]: zone z read as an indirect block
          data,    \* data[z]: zone z read as a data block
          free,    \* the zones whose bits are clear in the bitmap
          pc,      \* pc[f]: "unused", "idle", "alloc", "map", "undo", "store",
                   \* "truncate", "gone" or "panicked"
          req,     \* req[f]: the chunk being written, or the truncation
          z,       \* z[f]: the zone the chunk goes to
          k        \* k[f]: where Truncate is in its calls of FreeZone

inode == <<Zone, Size>>
blocks == <<table, data>>
vars == <<inode, blocks, free, pc, req, z, k>>
-----------------------------------------------------------------------------
single == dzones
double == dzones + 1
Numbers == Zones \cup {NO_ZONE, Illegal}
NoZones == [i \in 0 .. nr_indirects - 1 |-> NO_ZONE]
NoTable == [i \in 0 .. nr_indirects - 1 |-> Illegal]
Zeroes == [i \in 0 .. Blocksize - 1 |-> 0]

\* RdIndir: entry i of indirect block n, if there is one.
RdIndir(n, i) == IF n \in Zones THEN table[n][i] ELSE n

\* Where block b beyond the direct ones is entered.
\* (ind_ex_rem: not by the quotient but by the remainder, as Index.)
Excess(b) == b - dzones
InSingle(b) == Excess(b) < nr_indirects
Excess2(b) == Excess(b) - nr_indirects
ind_ex_rem(b) == Excess2(b) % nr_indirects
ind_ex(b) == Excess2(b) \div nr_indirects
Index(b) == IF InSingle(b) THEN Excess(b) ELSE Excess2(b) % nr_indirects
Indirect(f, b) ==
  IF InSingle(b) THEN Zone[f][single] ELSE RdIndir(Zone[f][double], ind_ex(b))

ReadMap(f, b) == IF b < dzones THEN Zone[f][b] ELSE RdIndir(Indirect(f, b), Index(b))

NoRequest == [op |-> "none", pos |-> 0, len |-> 1, val |-> 0]
BlockOf(f) == req[f].pos \div Blocksize

To(f, stage) == pc' = [pc EXCEPT ![f] = stage]
-----------------------------------------------------------------------------
(* Writing a chunk *)

WriteChunk(f, c, v) ==
  /\ pc[f] = "idle"
  /\ LET b == ReadMap(f, c.pos \div Blocksize) IN
     /\ To(f, IF b = NO_ZONE THEN "alloc" ELSE IF b = Illegal THEN "panicked" ELSE "store")
     /\ z' = [z EXCEPT ![f] = b]
  /\ req' = [req EXCEPT ![f] = [op |-> "write", pos |-> c.pos, len |-> c.len, val |-> v]]
  /\ UNCHANGED <<inode, blocks, free, k>>

\* The size is brought up to date whether or not the chunk has been written.
\* (GrowAlways: it grows even if the chunk is inside the file.)
GrowAlways(f, n) == Size' = [Size EXCEPT ![f] = @ + req[f].len]
Grow(f, n) == Size' = [Size EXCEPT ![f] = IF n > @ THEN n ELSE @]

End(f) ==
  /\ To(f, "idle")
  /\ req' = [req EXCEPT ![f] = NoRequest]
  /\ z' = [z EXCEPT ![f] = NO_ZONE]
  /\ k' = [k EXCEPT ![f] = 0]

NewBlock(f) ==
  /\ pc[f] = "alloc"
  /\ \E n \in free :
       /\ z' = [z EXCEPT ![f] = n]
       /\ free' = free \ {n}
  /\ To(f, "map")
  /\ UNCHANGED <<inode, blocks, req, k>>

NoSpace(f) ==
  /\ pc[f] = "alloc" /\ free = {}
  /\ Grow(f, req[f].pos)
  /\ End(f)
  /\ UNCHANGED <<Zone, blocks, free>>

NeedsDouble(f) ==
  BlockOf(f) >= dzones /\ ~InSingle(BlockOf(f)) /\ Zone[f][double] = NO_ZONE
NeedsIndirect(f) ==
  BlockOf(f) >= dzones /\ ~NeedsDouble(f) /\ Indirect(f, BlockOf(f)) = NO_ZONE

\* A new indirect block is cleared.  (NotCleared: it is not.)
NotCleared(n) == table
Cleared(n) == [table EXCEPT ![n] = NoZones]

NewDouble(f) ==
  /\ pc[f] = "map" /\ NeedsDouble(f)
  /\ \E n \in free :
       /\ free' = free \ {n}
       /\ Zone' = [Zone EXCEPT ![f][double] = n]
       /\ table' = Cleared(n)
  /\ UNCHANGED <<Size, data, pc, req, z, k>>

NewIndirect(f) ==
  /\ pc[f] = "map" /\ NeedsIndirect(f)
  /\ \E n \in free :
       /\ free' = free \ {n}
       /\ IF InSingle(BlockOf(f))
          THEN Zone' = [Zone EXCEPT ![f][single] = n] /\ table' = Cleared(n)
          ELSE /\ table' = [Cleared(n) EXCEPT ![Zone[f][double]][ind_ex(BlockOf(f))] = n]
               /\ UNCHANGED Zone
  /\ UNCHANGED <<Size, data, pc, req, z, k>>

\* WriteMap fails, and NewBlock frees the zone.  (KeptZone: it does not.)
NoIndirect(f) ==
  /\ pc[f] = "map" /\ (NeedsDouble(f) \/ NeedsIndirect(f)) /\ free = {}
  /\ To(f, "undo")
  /\ UNCHANGED <<inode, blocks, free, req, z, k>>

KeptZone(f) == UNCHANGED free
FreedZone(f) == free' = free \cup {z[f]}
Undo(f) ==
  /\ pc[f] = "undo"
  /\ FreedZone(f)
  /\ Grow(f, req[f].pos)
  /\ End(f)
  /\ UNCHANGED <<Zone, blocks>>

\* The zone is entered in the map, and its block is cleared.
\* (Uncleared: the block is left as it was.)
Uncleared(n) == data
ClearBlock(n) == [data EXCEPT ![n] = Zeroes]
WriteMap(f) ==
  /\ pc[f] = "map" /\ ~NeedsDouble(f) /\ ~NeedsIndirect(f)
  /\ LET b == BlockOf(f) IN
     IF b < dzones THEN Zone' = [Zone EXCEPT ![f][b] = z[f]] /\ UNCHANGED table
     ELSE table' = [table EXCEPT ![Indirect(f, b)][Index(b)] = z[f]] /\ UNCHANGED Zone
  /\ data' = ClearBlock(z[f])
  /\ To(f, "store")
  /\ UNCHANGED <<Size, free, req, z, k>>

\* A block that starts at or after the end of the file is cleared first.
StartsBlock(f) ==
  req[f].len # Blocksize /\ req[f].pos >= Size[f] /\ req[f].pos % Blocksize = 0
Store(f) ==
  /\ pc[f] = "store"
  /\ LET off == req[f].pos % Blocksize
         old == IF StartsBlock(f) THEN Zeroes ELSE data[z[f]]
     IN  data' = [data EXCEPT ![z[f]] =
                    [i \in 0 .. Blocksize - 1 |->
                       IF i \in off .. (off + req[f].len) - 1 THEN req[f].val ELSE old[i]]]
  /\ table' = [table EXCEPT ![z[f]] = NoTable]
  /\ Grow(f, req[f].pos + req[f].len)
  /\ End(f)
  /\ UNCHANGED <<Zone, free>>
-----------------------------------------------------------------------------
(* Truncate *)

Truncate(f, op) ==
  /\ pc[f] = "idle" /\ op \in Ops
  /\ To(f, "truncate")
  /\ req' = [req EXCEPT ![f] = [NoRequest EXCEPT !.op = op]]
  /\ UNCHANGED <<inode, blocks, free, z, k>>

\* The argument of call number n of FreeZone: the zones of the file, the single
\* indirect one, those of the double indirect block, and that one itself.
\* (KeptSingles: without those of the double indirect block.
\* ToFreeEarly: the double indirect block goes first.)
KeptSingles(f, i) == NO_ZONE
SingleOf(f, i) == RdIndir(Zone[f][double], i)
ToFreeEarly(f, n) ==
  IF n < Blocks THEN IF n * Blocksize < Size[f] THEN ReadMap(f, n) ELSE NO_ZONE
  ELSE IF n = Blocks THEN Zone[f][double]
  ELSE IF n <= Blocks + nr_indirects THEN SingleOf(f, (n - Blocks) - 1)
  ELSE Zone[f][single]
ToFree(f, n) ==
  IF n < Blocks THEN IF n * Blocksize < Size[f] THEN ReadMap(f, n) ELSE NO_ZONE
  ELSE IF n = Blocks THEN Zone[f][single]
  ELSE IF n <= Blocks + nr_indirects THEN SingleOf(f, (n - Blocks) - 1)
  ELSE Zone[f][double]
LastCall == Blocks + nr_indirects + 1

\* The next call that frees something: NO_ZONE is ignored.
NextCalls(f) == {n \in k[f] .. LastCall : ToFree(f, n) # NO_ZONE}

\* FreeZone panics if the zone is free.
FreeZone(f) ==
  /\ pc[f] = "truncate"
  /\ \E m \in NextCalls(f) :
       /\ \A n \in NextCalls(f) : m <= n
       /\ LET n == ToFree(f, m) IN
          IF n = Illegal \/ n \in free
          THEN To(f, "panicked") /\ UNCHANGED <<free, k>>
          ELSE /\ free' = free \cup {n}
               /\ k' = [k EXCEPT ![f] = m + 1]
               /\ UNCHANGED pc
  /\ UNCHANGED <<inode, blocks, req, z>>

\* The zone numbers stay in the inode, and so does the size.
EndTruncate(f) ==
  /\ pc[f] = "truncate" /\ NextCalls(f) = {}
  /\ IF req[f].op = "remove" THEN To(f, "gone") ELSE To(f, "idle")
  /\ req' = [req EXCEPT ![f] = NoRequest]
  /\ k' = [k EXCEPT ![f] = 0]
  /\ UNCHANGED <<inode, blocks, free, z>>

\* NewInode sets one zone number of the inode that it finds.
NewInode(f) ==
  /\ pc[f] = "unused" \/ (pc[f] = "gone" /\ "reuse" \in Ops)
  /\ Zone' = [Zone EXCEPT ![f][0] = NO_ZONE]
  /\ To(f, "idle")
  /\ UNCHANGED <<Size, blocks, free, req, z, k>>
-----------------------------------------------------------------------------
Init ==
  /\ Zone = [f \in Files |-> [i \in 0 .. double |-> NO_ZONE]]
  /\ Size = [f \in Files |-> 0]
  /\ table = [n \in Zones |-> NoTable]
  /\ data = [n \in Zones |-> [i \in 0 .. Blocksize - 1 |-> OldByte]]
  /\ free = Zones
  /\ pc = [f \in Files |-> "unused"]
  /\ req = [f \in Files |-> NoRequest]
  /\ z = [f \in Files |-> NO_ZONE]
  /\ k = [f \in Files |-> 0]

Write(f) == \/ \E c \in Chunks, v \in Values : WriteChunk(f, c, v)
            \/ NewBlock(f) \/ NoSpace(f)
            \/ NewDouble(f) \/ NewIndirect(f) \/ NoIndirect(f) \/ Undo(f)
            \/ WriteMap(f) \/ Store(f)
Next == \E f \in Files :
          \/ Write(f)
          \/ \E op \in {"remove", "truncate"} : Truncate(f, op)
          \/ FreeZone(f) \/ EndTruncate(f) \/ NewInode(f)

Spec == Init /\ [][Next]_vars
-----------------------------------------------------------------------------
(* Properties *)

Stages == {"unused", "idle", "alloc", "map", "undo", "store", "truncate", "gone", "panicked"}

\* Every variable keeps its shape.
TypeOK ==
  /\ Zone \in [Files -> [0 .. double -> Zones \cup {NO_ZONE}]]
  /\ Size \in [Files -> 0 .. MaxSize]
  /\ table \in [Zones -> [0 .. nr_indirects - 1 -> Numbers]]
  /\ data \in [Zones -> [0 .. Blocksize - 1 -> Values \cup {0, OldByte}]]
  /\ free \subseteq Zones
  /\ pc \in [Files -> Stages]
  /\ req \in [Files -> [op : {"none", "write", "remove", "truncate"},
                       pos : 0 .. MaxSize, len : 1 .. Blocksize, val : Values \cup {0}]]
  /\ z \in [Files -> Zones \cup {NO_ZONE}]
  /\ k \in [Files -> 0 .. LastCall + 1]

\* The references to zones: the entries of inodes and of indirect blocks that
\* are in use, and the zone that a write has allocated.
References ==
       [kind : {"inode"}, file : Files, at : 0 .. double]
  \cup [kind : {"single", "middle"}, file : Files, at : 0 .. nr_indirects - 1]
  \cup [kind : {"double"}, file : Files, at : 0 .. (nr_indirects * nr_indirects) - 1]
  \cup [kind : {"new"}, file : Files, at : {0}]
Live(f) == pc[f] \notin {"truncate", "gone"}
Target(r) ==
  IF ~Live(r.file) THEN NO_ZONE
  ELSE CASE r.kind = "inode" -> Zone[r.file][r.at]
         [] r.kind = "single" -> RdIndir(Zone[r.file][single], r.at)
         [] r.kind = "middle" -> RdIndir(Zone[r.file][double], r.at)
         [] r.kind = "double" -> RdIndir(RdIndir(Zone[r.file][double], r.at \div nr_indirects),
                                         r.at % nr_indirects)
         [] OTHER -> IF pc[r.file] \in {"map", "undo"} THEN z[r.file] ELSE NO_ZONE

\* No zone is used twice, by one file or by two, and none that is used is free.
NoZoneShared ==
  \A r \in References : Target(r) # NO_ZONE =>
    /\ Target(r) \notin free
    /\ \A s \in References : Target(s) = Target(r) => s = r

\* What a file that is being removed has still to free.
Remaining(f) == {ToFree(f, n) : n \in NextCalls(f)}

\* No zone is lost: it is free, or used, or about to be freed.
NoZoneLost ==
  \A n \in Zones :
    \/ n \in free
    \/ \E r \in References : Target(r) = n
    \/ \E f \in Files : pc[f] = "truncate" /\ n \in Remaining(f)

\* RdIndir finds no illegal zone number, FreeZone no zone that is free.
NeverPanics == \A f \in Files : pc[f] # "panicked"

\* "all unwritten blocks prior to the EOF must read as zeros".
ByteAt(f, p) ==
  LET n == ReadMap(f, p \div Blocksize)
  IN  IF n = NO_ZONE THEN BootByte ELSE data[n][p % Blocksize]
HolesReadAsZeroes ==
  \A f \in Files : Live(f) =>
    \A p \in 0 .. Size[f] - 1 : ReadMap(f, p \div Blocksize) = NO_ZONE => ByteAt(f, p) = 0
-----------------------------------------------------------------------------
(* The zones implement the files. *)

Contents(f) ==
  IF Live(f) THEN [p \in 0 .. Size[f] - 1 |-> ByteAt(f, p)] ELSE [i \in 0 .. -1 |-> 0]
ContentsOfFiles == [f \in Files |-> Contents(f)]

A == INSTANCE SparseFiles WITH bytes <- ContentsOfFiles

\* Every behaviour of the zone maps is one of the files, if block 0 is all zeroes.
ImplementsSparseFiles == A!Spec
=============================================================================
