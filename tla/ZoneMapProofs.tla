--------------------------- MODULE ZoneMapProofs ---------------------------
(***************************************************************************)
(* Zones are neither shared nor lost, for any number of files and zones and *)
(* any size of blocks, inodes and indirect blocks, if files are written and *)
(* removed only (MCZoneMapTruncate and MCZoneMapReuse show what happens if  *)
(* they are truncated or their inodes are used again).  The proof counts    *)
(* claims: what each place for a zone number holds, until it is freed.      *)
(*                                                                         *)
(* If holes read as zeroes too (MCZoneMapHoles), the zones implement the    *)
(* files of SparseFiles.                                                    *)
(***************************************************************************)
EXTENDS ZoneMap, TLAPS

OnlyRemoved == Ops \subseteq {"remove"}

USE ZonesAssumption, GeometryAssumption DEF ZonesAssumption, GeometryAssumption
-----------------------------------------------------------------------------
(* The zones that files lay claim to. *)

SingleRef(f) == [kind |-> "inode", file |-> f, at |-> single]
DoubleRef(f) == [kind |-> "inode", file |-> f, at |-> double]
MiddleRef(f, i) == [kind |-> "middle", file |-> f, at |-> i]
NewRef(f) == [kind |-> "new", file |-> f, at |-> 0]

\* Where block b of a file is entered.
DataRef(f, b) ==
  IF b < dzones THEN [kind |-> "inode", file |-> f, at |-> b]
  ELSE IF InSingle(b) THEN [kind |-> "single", file |-> f, at |-> Excess(b)]
  ELSE [kind |-> "double", file |-> f, at |-> Excess2(b)]

\* The zone that a reference holds, whatever becomes of its file.
Holds(r) ==
  CASE r.kind = "inode" -> Zone[r.file][r.at]
    [] r.kind = "single" -> RdIndir(Zone[r.file][single], r.at)
    [] r.kind = "middle" -> RdIndir(Zone[r.file][double], r.at)
    [] r.kind = "double" -> RdIndir(RdIndir(Zone[r.file][double], r.at \div nr_indirects),
                                    r.at % nr_indirects)
    [] OTHER -> IF pc[r.file] \in {"map", "undo"} THEN z[r.file] ELSE NO_ZONE

\* The call of FreeZone in which Truncate frees it.
CallOf(r) ==
  CASE r.kind = "inode" -> IF r.at < dzones THEN r.at
                           ELSE IF r.at = single THEN Blocks ELSE LastCall
    [] r.kind = "single" -> dzones + r.at
    [] r.kind = "double" -> dzones + nr_indirects + r.at
    [] r.kind = "middle" -> Blocks + 1 + r.at
    [] OTHER -> 0

\* A reference counts until that call.
Open(r) == Live(r.file) \/ (pc[r.file] = "truncate" /\ k[r.file] <= CallOf(r))
Claim(r) == IF Open(r) THEN Holds(r) ELSE NO_ZONE

Distinct ==
  \A r \in References : Claim(r) # NO_ZONE =>
    /\ Claim(r) \in Zones /\ Claim(r) \notin free
    /\ \A s \in References : Claim(s) = Claim(r) => s = r

AllClaimed == \A n \in Zones : n \in free \/ \E r \in References : Claim(r) = n

\* Blocks have zones inside the file, save for the one that is being written.
IsData(r) == r.kind \in {"single", "double"} \/ (r.kind = "inode" /\ r.at < dzones)
Inside(f) ==
  \A r \in References : r.file = f /\ IsData(r) /\ Claim(r) # NO_ZONE =>
    CallOf(r) * Blocksize < Size[f] \/ (pc[f] = "store" /\ CallOf(r) = BlockOf(f))

Writing == {"alloc", "map", "undo", "store"}
WritesBlock(f) ==
  pc[f] \in Writing =>
    /\ req[f].pos < MaxSize /\ (req[f].pos % Blocksize) + req[f].len <= Blocksize
    /\ \A r \in References : r.file = f /\ IsData(r) /\ CallOf(r) = BlockOf(f) =>
         Claim(r) = IF pc[f] = "store" THEN z[f] ELSE NO_ZONE
    /\ pc[f] # "alloc" => z[f] \in Zones

Removal(f) ==
  /\ pc[f] = "truncate" => req[f].op = "remove"
  /\ pc[f] # "truncate" => k[f] = 0
  /\ pc[f] = "unused" => Zone[f][0] = NO_ZONE

FileInv(f) == Inside(f) /\ WritesBlock(f) /\ Removal(f) /\ pc[f] # "panicked"

IInv == TypeOK /\ Distinct /\ AllClaimed /\ \A f \in Files : FileInv(f)
-----------------------------------------------------------------------------
(* Arithmetic of positions *)

LEMMA Division ==
  ASSUME NEW n \in Nat \ {0}, NEW j \in Nat
  PROVE  j % n \in 0 .. n - 1 /\ j \div n \in Nat /\ j = n * (j \div n) + (j % n)
OBVIOUS

LEMMA Quotient ==
  ASSUME NEW n \in Nat \ {0}, NEW m \in Nat, NEW p \in 0 .. (m * n) - 1
  PROVE  p \div n \in 0 .. m - 1
OBVIOUS

LEMMA EndOfChunk ==
  ASSUME NEW n \in Nat \ {0}, NEW m \in Nat, NEW p \in 0 .. (m * n) - 1, NEW len \in 1 .. n,
         (p % n) + len <= n
  PROVE  p + len \in 0 .. m * n /\ (p \div n) * n < p + len
<1> DEFINE q == p \div n
<1>1. q \in 0 .. m - 1 /\ p = n * q + (p % n) /\ p % n \in 0 .. n - 1
  <2>1. p \in Nat
    OBVIOUS
  <2>2. p % n \in 0 .. n - 1 /\ p = n * (p \div n) + (p % n)
    BY <2>1, Division
  <2>3. p \div n \in 0 .. m - 1
    BY Quotient
  <2> QED
    BY <2>2, <2>3
<1>2. n * (q + 1) <= m * n
  <2> HIDE DEF q
  <2>1. q + 1 <= m /\ q + 1 \in Nat
    BY <1>1
  <2> QED
    BY <2>1
<1>3. n * (q + 1) = n * q + n /\ q * n = n * q
  <2> HIDE DEF q
  <2> QED
    BY <1>1
<1> HIDE DEF q
<1> QED
  <2>1. n * q \in Int /\ m * n \in Int /\ p % n \in Int
    BY <1>1
  <2>2. p + len <= m * n
    BY <1>1, <1>2, <1>3, <2>1
  <2>3. q * n < p + len
    BY <1>1, <1>3, <2>1
  <2> QED
    BY <2>1, <2>2, <2>3 DEF q

LEMMA Geometry ==
  /\ Blocks \in Nat \ {0} /\ MaxSize \in Nat /\ LastCall \in Nat
  /\ nr_indirects * nr_indirects \in Nat
  /\ Blocks = dzones + nr_indirects + (nr_indirects * nr_indirects)
  /\ LastCall = Blocks + nr_indirects + 1 /\ MaxSize = Blocks * Blocksize
BY DEF Blocks, MaxSize, LastCall
-----------------------------------------------------------------------------
(* References *)

LEMMA ReferenceType ==
  ASSUME NEW r \in References
  PROVE  /\ r.file \in Files
         /\ \/ r.kind = "inode" /\ r.at \in 0 .. double
            \/ r.kind = "single" /\ r.at \in 0 .. nr_indirects - 1
            \/ r.kind = "middle" /\ r.at \in 0 .. nr_indirects - 1
            \/ r.kind = "double" /\ r.at \in 0 .. (nr_indirects * nr_indirects) - 1
            \/ r.kind = "new" /\ r.at = 0
BY DEF References

LEMMA SameReference ==
  ASSUME NEW r \in References, NEW s \in References,
         r.kind = s.kind, r.file = s.file, r.at = s.at
  PROVE  r = s
BY DEF References

LEMMA SomeReferences ==
  ASSUME NEW f \in Files
  PROVE  /\ SingleRef(f) \in References /\ DoubleRef(f) \in References
         /\ NewRef(f) \in References
         /\ \A i \in 0 .. nr_indirects - 1 : MiddleRef(f, i) \in References
BY DEF References, SingleRef, DoubleRef, NewRef, MiddleRef, single, double

LEMMA BlockKinds ==
  ASSUME NEW b \in 0 .. Blocks - 1
  PROVE  \/ b < dzones
         \/ ~(b < dzones) /\ InSingle(b) /\ Excess(b) \in 0 .. nr_indirects - 1
         \/ /\ ~(b < dzones) /\ ~InSingle(b) /\ Excess2(b) \in 0 .. (nr_indirects * nr_indirects) - 1
            /\ ind_ex(b) \in 0 .. nr_indirects - 1 /\ ind_ex_rem(b) \in 0 .. nr_indirects - 1
<1> DEFINE nn == nr_indirects * nr_indirects
<1>1. nn \in Nat /\ Blocks = dzones + nr_indirects + nn
  BY Geometry
<1>2. CASE ~(b < dzones) /\ ~InSingle(b)
  <2>1. Excess2(b) \in 0 .. nn - 1
    <3> HIDE DEF nn
    <3> QED
      BY <1>1, <1>2 DEF InSingle, Excess, Excess2
  <2>2. Excess2(b) \div nr_indirects \in 0 .. nr_indirects - 1
    BY <2>1, Quotient
  <2>3. Excess2(b) % nr_indirects \in 0 .. nr_indirects - 1
    <3>1. Excess2(b) \in Nat
      BY <2>1
    <3> QED
      BY <3>1, Division
  <2> QED
    BY <1>2, <2>1, <2>2, <2>3 DEF ind_ex, ind_ex_rem
<1>3. CASE ~(b < dzones) /\ InSingle(b)
  BY <1>3 DEF InSingle, Excess
<1> QED
  BY <1>2, <1>3

LEMMA DataRefType ==
  ASSUME NEW f \in Files, NEW b \in 0 .. Blocks - 1
  PROVE  /\ DataRef(f, b) \in References /\ DataRef(f, b).file = f
         /\ CallOf(DataRef(f, b)) = b
         /\ Holds(DataRef(f, b)) = ReadMap(f, b)
         /\ \A g \in Files : DataRef(f, b) \notin {SingleRef(g), DoubleRef(g), NewRef(g)}
         /\ \A g \in Files, i \in 0 .. nr_indirects - 1 : DataRef(f, b) # MiddleRef(g, i)
<1>1. CASE b < dzones
  BY <1>1 DEF DataRef, References, CallOf, Holds, ReadMap, SingleRef, DoubleRef, NewRef, MiddleRef, single, double
<1>2. CASE ~(b < dzones) /\ InSingle(b) /\ Excess(b) \in 0 .. nr_indirects - 1
  <2>1. DataRef(f, b) = [kind |-> "single", file |-> f, at |-> Excess(b)]
    BY <1>2 DEF DataRef
  <2>2. dzones + Excess(b) = b
    BY DEF Excess, Blocks
  <2>3. ReadMap(f, b) = RdIndir(Zone[f][single], Excess(b))
    BY <1>2 DEF ReadMap, Indirect, Index
  <2> QED
    BY <1>2, <2>1, <2>2, <2>3 DEF References, CallOf, Holds, SingleRef, DoubleRef, NewRef, MiddleRef
<1>3. CASE /\ ~(b < dzones) /\ ~InSingle(b) /\ Excess2(b) \in 0 .. (nr_indirects * nr_indirects) - 1
  <2>1. DataRef(f, b) = [kind |-> "double", file |-> f, at |-> Excess2(b)]
    BY <1>3 DEF DataRef
  <2>2. dzones + nr_indirects + Excess2(b) = b
    BY DEF Excess, Excess2, Blocks
  <2>3. ReadMap(f, b) = RdIndir(RdIndir(Zone[f][double], Excess2(b) \div nr_indirects),
                                Excess2(b) % nr_indirects)
    BY <1>3 DEF ReadMap, Indirect, Index, ind_ex
  <2> QED
    BY <1>3, <2>1, <2>2, <2>3 DEF References, CallOf, Holds, SingleRef, DoubleRef, NewRef, MiddleRef
<1> QED
  BY <1>1, <1>2, <1>3, BlockKinds
-----------------------------------------------------------------------------
(* What steps do to claims *)

LEMMA NothingClaimed ==
  ASSUME Distinct, AllClaimed, free' = free, \A r \in References : Claim(r)' = Claim(r)
  PROVE  Distinct' /\ AllClaimed'
BY DEF Distinct, AllClaimed

LEMMA ZoneClaimed ==
  ASSUME Distinct, AllClaimed, free \subseteq Zones, NEW q \in References, NEW n \in free,
         free' = free \ {n}, Claim(q) = NO_ZONE, Claim(q)' = n,
         \A r \in References \ {q} : Claim(r)' = Claim(r)
  PROVE  Distinct' /\ AllClaimed'
<1>1. n \in Zones /\ n # NO_ZONE /\ \A r \in References : Claim(r) # n
  BY DEF Distinct
<1>2. Distinct'
  BY <1>1 DEF Distinct
<1>3. AllClaimed'
  BY <1>1 DEF AllClaimed
<1> QED
  BY <1>2, <1>3

LEMMA ZoneReleased ==
  ASSUME Distinct, AllClaimed, NEW q \in References, NEW n \in Zones,
         free' = free \cup {n}, Claim(q) = n, Claim(q)' = NO_ZONE,
         \A r \in References \ {q} : Claim(r)' = Claim(r)
  PROVE  Distinct' /\ AllClaimed'
<1>1. n # NO_ZONE /\ \A r \in References : Claim(r) = n => r = q
  BY DEF Distinct
<1>2. Distinct'
  BY <1>1 DEF Distinct
<1>3. AllClaimed'
  BY <1>1 DEF AllClaimed
<1> QED
  BY <1>2, <1>3

LEMMA ZoneMoved ==
  ASSUME Distinct, AllClaimed, NEW p \in References, NEW q \in References, NEW n \in Zones,
         p # q, free' = free, Claim(p) = n, Claim(p)' = NO_ZONE, Claim(q) = NO_ZONE, Claim(q)' = n,
         \A r \in References \ {p, q} : Claim(r)' = Claim(r)
  PROVE  Distinct' /\ AllClaimed'
<1>1. n # NO_ZONE /\ n \notin free /\ \A r \in References : Claim(r) = n => r = p
  BY DEF Distinct
<1>2. Distinct'
  BY <1>1 DEF Distinct
<1>3. AllClaimed'
  BY <1>1 DEF AllClaimed
<1> QED
  BY <1>2, <1>3
-----------------------------------------------------------------------------
(* References that a step leaves alone *)

IsTable(r) == r.kind = "middle" \/ (r.kind = "inode" /\ r.at \in {single, double})
TablesKept(f) ==
  \A r \in References :
    r.file = f /\ IsTable(r) /\ Claim(r) \in Zones => table'[Claim(r)] = table[Claim(r)]

\* The reference through which another one is read.
Parent(r) ==
  CASE r.kind = "single" -> SingleRef(r.file)
    [] r.kind = "middle" -> DoubleRef(r.file)
    [] OTHER -> MiddleRef(r.file, r.at \div nr_indirects)
Entry(r) == IF r.kind = "double" THEN r.at % nr_indirects ELSE r.at

\* An entry of an indirect block is one reference.
LEMMA EntryIsOne ==
  ASSUME NEW r \in References, NEW s \in References,
         r.kind \in {"single", "middle", "double"}, s.kind \in {"single", "middle", "double"},
         Parent(r) = Parent(s), Entry(r) = Entry(s)
  PROVE  r = s
<1>1. r.kind = s.kind /\ r.file = s.file
  BY DEF Parent, SingleRef, DoubleRef, MiddleRef, single, double
<1>2. CASE r.kind # "double"
  BY <1>1, <1>2, SameReference DEF Entry
<1>3. CASE r.kind = "double"
  <2>1. r.at \div nr_indirects = s.at \div nr_indirects /\ r.at % nr_indirects = s.at % nr_indirects
    BY <1>1, <1>3 DEF Parent, MiddleRef, Entry
  <2>2. r.at \in Nat /\ s.at \in Nat
    BY <1>1, <1>3, ReferenceType, Geometry
  <2>3. /\ r.at = nr_indirects * (r.at \div nr_indirects) + (r.at % nr_indirects)
        /\ s.at = nr_indirects * (s.at \div nr_indirects) + (s.at % nr_indirects)
    BY <2>2, Division
  <2>4. r.at = s.at
    BY <2>1, <2>3
  <2> QED
    BY <1>1, <2>4, SameReference
<1> QED
  BY <1>2, <1>3

LEMMA EntryType ==
  ASSUME NEW r \in References, r.kind \in {"single", "middle", "double"}
  PROVE  Entry(r) \in 0 .. nr_indirects - 1
<1>1. CASE r.kind = "double"
  <2>1. r.at \in Nat
    BY <1>1, ReferenceType, Geometry
  <2> QED
    BY <1>1, <2>1, Division DEF Entry
<1> QED
  BY <1>1, ReferenceType DEF Entry

LEMMA ParentType ==
  ASSUME NEW r \in References, r.kind \in {"single", "middle", "double"}
  PROVE  /\ Parent(r) \in References /\ Parent(r).file = r.file /\ IsTable(Parent(r))
         /\ CallOf(r) \in Nat /\ CallOf(Parent(r)) \in Nat /\ CallOf(r) <= CallOf(Parent(r))
<1> DEFINE nn == nr_indirects * nr_indirects
<1>1. r.file \in Files /\ nn \in Nat /\ Blocks = dzones + nr_indirects + nn /\ Blocks \in Nat
      /\ LastCall = Blocks + nr_indirects + 1
  BY ReferenceType, Geometry
<1>2. CASE r.kind = "single"
  <2>1. Parent(r) = SingleRef(r.file) /\ r.at \in 0 .. nr_indirects - 1
    BY <1>2, ReferenceType DEF Parent
  <2>2. CallOf(r) = dzones + r.at /\ CallOf(Parent(r)) = Blocks
    BY <1>2, <2>1 DEF CallOf, SingleRef, single
  <2>3. CallOf(r) \in Nat /\ CallOf(r) <= Blocks
    <3> HIDE DEF nn
    <3> QED
      BY <1>1, <2>1, <2>2
  <2> QED
    BY <1>1, <2>1, <2>2, <2>3, SomeReferences DEF IsTable, SingleRef
<1>3. CASE r.kind = "middle"
  <2>1. Parent(r) = DoubleRef(r.file) /\ r.at \in 0 .. nr_indirects - 1
    BY <1>3, ReferenceType DEF Parent
  <2>2. CallOf(r) = Blocks + 1 + r.at /\ CallOf(Parent(r)) = LastCall
    BY <1>3, <2>1 DEF CallOf, DoubleRef, single, double
  <2>3. CallOf(r) \in Nat /\ CallOf(r) <= LastCall /\ LastCall \in Nat
    <3> HIDE DEF nn
    <3> QED
      BY <1>1, <2>1, <2>2
  <2> QED
    BY <1>1, <2>1, <2>2, <2>3, SomeReferences DEF IsTable, DoubleRef
<1>4. CASE r.kind = "double"
  <2> DEFINE i == r.at \div nr_indirects
  <2>1. Parent(r) = MiddleRef(r.file, i) /\ r.at \in 0 .. nn - 1
    BY <1>4, ReferenceType DEF Parent
  <2>2. i \in 0 .. nr_indirects - 1
    BY <2>1, Quotient
  <2>3. CallOf(r) = dzones + nr_indirects + r.at /\ CallOf(Parent(r)) = Blocks + 1 + i
    BY <1>4, <2>1 DEF CallOf, MiddleRef
  <2>4. CallOf(r) \in Nat /\ CallOf(Parent(r)) \in Nat /\ CallOf(r) <= CallOf(Parent(r))
    <3> HIDE DEF nn, i
    <3> QED
      BY <1>1, <2>1, <2>2, <2>3
  <2> HIDE DEF i
  <2> QED
    BY <1>1, <2>1, <2>2, <2>4, SomeReferences DEF IsTable, MiddleRef
<1> QED
  BY <1>2, <1>3, <1>4

\* Truncate frees an indirect block after what is entered in it.
LEMMA ParentOpen ==
  ASSUME TypeOK, NEW r \in References, r.kind \in {"single", "middle", "double"}, Open(r)
  PROVE  Open(Parent(r)) /\ Claim(Parent(r)) = Holds(Parent(r))
<1>1. r.file \in Files /\ k[r.file] \in Nat
  BY ReferenceType, Geometry DEF TypeOK
<1>2. Open(Parent(r))
  BY <1>1, ParentType DEF Open
<1> QED
  BY <1>2 DEF Claim

LEMMA HoldsThroughParent ==
  ASSUME NEW r \in References, r.kind \in {"single", "middle", "double"}
  PROVE  /\ Holds(r) = RdIndir(Holds(Parent(r)), Entry(r))
         /\ Holds(r)' = IF Holds(Parent(r))' \in Zones THEN table'[Holds(Parent(r))'][Entry(r)]
                        ELSE Holds(Parent(r))'
<1>1. CASE r.kind = "single"
  BY <1>1 DEF Holds, Parent, SingleRef, RdIndir, Entry
<1>2. CASE r.kind = "middle"
  BY <1>2 DEF Holds, Parent, DoubleRef, RdIndir, Entry
<1>3. CASE r.kind = "double"
  BY <1>3 DEF Holds, Parent, MiddleRef, RdIndir, Entry
<1> QED
  BY <1>1, <1>2, <1>3

LEMMA HoldsKept ==
  ASSUME TypeOK, NEW r \in References, r.kind # "new", Open(r),
         Zone'[r.file] = Zone[r.file], TablesKept(r.file)
  PROVE  Holds(r)' = Holds(r)
<1>1. ASSUME NEW s \in References, s.kind \in {"single", "middle", "double"}, s.file = r.file, Open(s),
             Holds(Parent(s))' = Holds(Parent(s))
      PROVE  Holds(s)' = Holds(s)
  <2>1. Holds(Parent(s)) \in Zones => table'[Holds(Parent(s))] = table[Holds(Parent(s))]
    BY <1>1, ParentType, ParentOpen DEF TablesKept
  <2> QED
    BY <1>1, <2>1, HoldsThroughParent DEF RdIndir
<1>2. ASSUME NEW s \in References, s.kind = "inode", s.file = r.file PROVE Holds(s)' = Holds(s)
  BY <1>2 DEF Holds
<1>3. ASSUME NEW s \in References, s.kind \in {"single", "middle"}, s.file = r.file, Open(s)
      PROVE  Holds(s)' = Holds(s)
  <2>1. Parent(s).kind = "inode"
    BY <1>3 DEF Parent, SingleRef, DoubleRef
  <2> QED
    BY <1>1, <1>2, <1>3, <2>1, ParentType
<1>4. CASE r.kind = "double"
  <2>1. Parent(r).kind = "middle" /\ Parent(r) \in References /\ Parent(r).file = r.file /\ Open(Parent(r))
    BY <1>4, ParentType, ParentOpen DEF Parent, MiddleRef
  <2> QED
    BY <1>1, <1>3, <1>4, <2>1
<1> QED
  BY <1>2, <1>3, <1>4, ReferenceType

LEMMA ClaimKept ==
  ASSUME TypeOK, NEW r \in References, Zone'[r.file] = Zone[r.file], TablesKept(r.file),
         pc'[r.file] = pc[r.file], z'[r.file] = z[r.file], k'[r.file] = k[r.file]
  PROVE  Claim(r)' = Claim(r)
<1>1. Open(r)' <=> Open(r)
  BY DEF Open, Live
<1>2. r.kind = "new" => Holds(r)' = Holds(r)
  BY DEF Holds
<1> QED
  BY <1>1, <1>2, HoldsKept DEF Claim

\* Where a step of a file changes tables.
OwnTables(f) ==
  \A n \in Zones : table'[n] # table[n] =>
    n \in free \/ \E r \in References : r.file = f /\ Claim(r) = n

LEMMA OtherFiles ==
  ASSUME TypeOK, Distinct, NEW f \in Files, OwnTables(f),
         \A g \in Files \ {f} : /\ Zone'[g] = Zone[g] /\ pc'[g] = pc[g]
                               /\ z'[g] = z[g] /\ k'[g] = k[g]
  PROVE  \A r \in References : r.file # f => Claim(r)' = Claim(r)
<1> SUFFICES ASSUME NEW r \in References, r.file # f PROVE Claim(r)' = Claim(r)
  OBVIOUS
<1>1. r.file \in Files
  BY ReferenceType
<1>2. TablesKept(r.file)
  BY DEF TablesKept, OwnTables, Distinct
<1> QED
  BY <1>1, <1>2, ClaimKept
-----------------------------------------------------------------------------
(* Calls of FreeZone and the references that they free *)

LEMMA CallOfData ==
  ASSUME NEW r \in References, IsData(r)
  PROVE  CallOf(r) \in 0 .. Blocks - 1 /\ r = DataRef(r.file, CallOf(r))
<1> DEFINE nn == nr_indirects * nr_indirects
<1>1. nn \in Nat /\ Blocks = dzones + nr_indirects + nn
  BY Geometry
<1>2. CASE r.kind = "inode"
  <2>1. r.at \in 0 .. dzones - 1 /\ CallOf(r) = r.at
    BY <1>2, ReferenceType DEF IsData, CallOf
  <2>2. r.at \in 0 .. Blocks - 1
    <3> HIDE DEF nn
    <3> QED
      BY <1>1, <2>1
  <2>3. r = [kind |-> "inode", file |-> r.file, at |-> r.at]
    BY <1>2, <2>1, SameReference, ReferenceType DEF References
  <2> QED
    BY <2>1, <2>2, <2>3 DEF DataRef
<1>3. CASE r.kind = "single"
  <2>1. r.at \in 0 .. nr_indirects - 1 /\ CallOf(r) = dzones + r.at
    BY <1>3, ReferenceType DEF CallOf
  <2>2. /\ CallOf(r) \in 0 .. Blocks - 1 /\ ~(CallOf(r) < dzones)
        /\ CallOf(r) - dzones = r.at /\ CallOf(r) - dzones < nr_indirects
    <3> HIDE DEF nn
    <3> QED
      BY <1>1, <2>1
  <2>3. r = [kind |-> "single", file |-> r.file, at |-> r.at]
    BY <1>3, <2>1, SameReference, ReferenceType DEF References
  <2> QED
    BY <2>2, <2>3 DEF DataRef, InSingle, Excess
<1>4. CASE r.kind = "double"
  <2>1. r.at \in 0 .. nn - 1 /\ CallOf(r) = dzones + nr_indirects + r.at
    BY <1>4, ReferenceType DEF CallOf
  <2>2. /\ CallOf(r) \in 0 .. Blocks - 1 /\ ~(CallOf(r) < dzones)
        /\ ~(CallOf(r) - dzones < nr_indirects) /\ (CallOf(r) - dzones) - nr_indirects = r.at
    <3> HIDE DEF nn
    <3> QED
      BY <1>1, <2>1
  <2>3. r = [kind |-> "double", file |-> r.file, at |-> r.at]
    BY <1>4, <2>1, SameReference, ReferenceType DEF References
  <2> QED
    BY <2>2, <2>3 DEF DataRef, InSingle, Excess, Excess2
<1> QED
  BY <1>2, <1>3, <1>4 DEF IsData

LEMMA DataRefIsData ==
  ASSUME NEW f \in Files, NEW b \in 0 .. Blocks - 1
  PROVE  IsData(DataRef(f, b))
BY DEF IsData, DataRef

RefOfCall(f, n) ==
  IF n < Blocks THEN DataRef(f, n)
  ELSE IF n = Blocks THEN SingleRef(f)
  ELSE IF n <= Blocks + nr_indirects THEN MiddleRef(f, (n - Blocks) - 1)
  ELSE DoubleRef(f)

LEMMA RefOfCallType ==
  ASSUME NEW f \in Files, NEW n \in 0 .. LastCall
  PROVE  /\ RefOfCall(f, n) \in References /\ RefOfCall(f, n).file = f
         /\ RefOfCall(f, n).kind # "new" /\ CallOf(RefOfCall(f, n)) = n
         /\ ToFree(f, n) = IF n < Blocks /\ ~(n * Blocksize < Size[f]) THEN NO_ZONE
                           ELSE Holds(RefOfCall(f, n))
<1>1. Blocks \in Nat /\ LastCall = Blocks + nr_indirects + 1
  BY Geometry
<1>2. CASE n < Blocks
  <2>1. n \in 0 .. Blocks - 1 /\ RefOfCall(f, n) = DataRef(f, n)
    BY <1>1, <1>2 DEF RefOfCall
  <2>2. DataRef(f, n).kind # "new"
    BY DEF DataRef
  <2> QED
    BY <1>2, <2>1, <2>2, DataRefType DEF ToFree
<1>3. CASE n = Blocks
  <2>1. RefOfCall(f, n) = SingleRef(f) /\ ~(n < Blocks)
    BY <1>1, <1>3 DEF RefOfCall
  <2> QED
    BY <1>3, <2>1, SomeReferences DEF ToFree, SingleRef, CallOf, Holds, single
<1>4. CASE n > Blocks /\ n <= Blocks + nr_indirects
  <2>1. /\ RefOfCall(f, n) = MiddleRef(f, (n - Blocks) - 1) /\ ~(n < Blocks) /\ n # Blocks
        /\ (n - Blocks) - 1 \in 0 .. nr_indirects - 1 /\ Blocks + 1 + ((n - Blocks) - 1) = n
    BY <1>1, <1>4 DEF RefOfCall
  <2> QED
    BY <1>4, <2>1, SomeReferences DEF ToFree, SingleOf, MiddleRef, CallOf, Holds
<1>5. CASE n = LastCall
  <2>1. RefOfCall(f, n) = DoubleRef(f) /\ ~(n < Blocks) /\ n # Blocks /\ ~(n <= Blocks + nr_indirects)
    BY <1>1, <1>5 DEF RefOfCall
  <2> QED
    BY <1>5, <2>1, SomeReferences DEF ToFree, DoubleRef, CallOf, Holds, single, double
<1> QED
  BY <1>1, <1>2, <1>3, <1>4, <1>5

LEMMA CallOfRef ==
  ASSUME NEW r \in References, r.kind # "new"
  PROVE  CallOf(r) \in 0 .. LastCall /\ r = RefOfCall(r.file, CallOf(r))
<1>1. Blocks \in Nat /\ LastCall = Blocks + nr_indirects + 1 /\ r.file \in Files
  BY Geometry, ReferenceType
<1>2. CASE IsData(r)
  BY <1>1, <1>2, CallOfData DEF RefOfCall
<1>3. CASE r.kind = "middle"
  <2>1. r.at \in 0 .. nr_indirects - 1 /\ CallOf(r) = Blocks + 1 + r.at
    BY <1>3, ReferenceType DEF CallOf
  <2>2. /\ CallOf(r) \in 0 .. LastCall /\ ~(CallOf(r) < Blocks) /\ CallOf(r) # Blocks
        /\ CallOf(r) <= Blocks + nr_indirects /\ (CallOf(r) - Blocks) - 1 = r.at
    BY <1>1, <2>1
  <2>3. r = MiddleRef(r.file, r.at)
    BY <1>1, <1>3, <2>1, SameReference, SomeReferences DEF MiddleRef
  <2> QED
    BY <2>2, <2>3 DEF RefOfCall
<1>4. CASE r.kind = "inode" /\ ~(r.at < dzones)
  <2>1. r.at \in {single, double}
    BY <1>4, ReferenceType DEF single, double
  <2>2. CASE r.at = single
    <3>1. CallOf(r) = Blocks /\ r = SingleRef(r.file)
      BY <1>1, <1>4, <2>2, SameReference, SomeReferences DEF SingleRef, CallOf
    <3> QED
      BY <1>1, <3>1 DEF RefOfCall
  <2>3. CASE r.at = double
    <3>1. r = DoubleRef(r.file)
      BY <1>1, <1>4, <2>3, SameReference, SomeReferences DEF DoubleRef
    <3>2. double # single
      BY DEF single, double
    <3>3. CallOf(r) = LastCall
      BY <1>4, <2>3, <3>2 DEF CallOf
    <3> QED
      BY <1>1, <3>1, <3>3 DEF RefOfCall
  <2> QED
    BY <2>1, <2>2, <2>3
<1> QED
  BY <1>2, <1>3, <1>4, ReferenceType DEF IsData
-----------------------------------------------------------------------------
(* Entering a zone in the map of a file *)

\* Zone n is entered at q.  An indirect block is new, and it is cleared.
Entered(q, n) ==
  /\ Holds(q)' = n
  /\ IsTable(q) => Holds(q) = NO_ZONE /\ n \in Zones /\ table'[n] = NoZones

LEMMA Descendants ==
  ASSUME NEW q \in References, NEW n, Entered(q, n), NEW r \in References,
         r.kind \in {"single", "middle", "double"}, IsTable(q), Parent(r) = q
  PROVE  Holds(r) = NO_ZONE /\ Holds(r)' = NO_ZONE
<1>1. Entry(r) \in 0 .. nr_indirects - 1
  BY EntryType
<1> QED
  BY <1>1, HoldsThroughParent DEF Entered, NoZones, RdIndir

LEMMA NumberEntered ==
  ASSUME TypeOK, Distinct, NEW q \in References, q.kind = "inode", Live(q.file), NEW n, Entered(q, n),
         Zone'[q.file] = [Zone[q.file] EXCEPT ![q.at] = n],
         \A m \in Zones \ free : table'[m] = table[m]
  PROVE  \A r \in References : r.file = q.file /\ r.kind # "new" /\ r # q => Holds(r)' = Holds(r)
<1>1. q.at \in 0 .. double /\ q.file \in Files
  BY ReferenceType
<1>2. \A r \in References : r.file = q.file => Claim(r) = Holds(r)
  BY DEF Claim, Open
<1>3. ASSUME NEW r \in References, r.file = q.file, r.kind = "inode", r # q PROVE Holds(r)' = Holds(r)
  <2>1. r.at \in 0 .. double /\ r.at # q.at
    BY <1>3, ReferenceType, SameReference
  <2>2. Zone[q.file] \in [0 .. double -> Zones \cup {NO_ZONE}]
    BY <1>1 DEF TypeOK
  <2>3. [Zone[q.file] EXCEPT ![q.at] = n][r.at] = Zone[q.file][r.at]
    BY <2>1, <2>2
  <2> QED
    BY <1>3, <2>3 DEF Holds
<1>4. ASSUME NEW r \in References, r.file = q.file, r.kind \in {"single", "middle", "double"},
             Holds(Parent(r))' = Holds(Parent(r))
      PROVE  Holds(r)' = Holds(r)
  <2>1. Holds(Parent(r)) \in Zones => Holds(Parent(r)) \notin free
    BY <1>2, <1>4, ParentType DEF Distinct
  <2> QED
    BY <1>4, <2>1, HoldsThroughParent DEF RdIndir
<1>5. ASSUME NEW r \in References, r.file = q.file, r.kind \in {"single", "middle"}
      PROVE  Holds(r)' = Holds(r)
  <2>1. Parent(r).kind = "inode" /\ Parent(r) \in References /\ Parent(r).file = q.file
        /\ IsTable(Parent(r))
    BY <1>5, ParentType DEF Parent, SingleRef, DoubleRef
  <2>2. CASE Parent(r) = q
    BY <1>5, <2>1, <2>2, Descendants
  <2>3. CASE Parent(r) # q
    BY <1>3, <1>4, <1>5, <2>1, <2>3
  <2> QED
    BY <2>2, <2>3
<1>6. ASSUME NEW r \in References, r.file = q.file, r.kind = "double"
      PROVE  Holds(r)' = Holds(r)
  <2>1. Parent(r).kind = "middle" /\ Parent(r) \in References /\ Parent(r).file = q.file
    BY <1>6, ParentType DEF Parent, MiddleRef
  <2> QED
    BY <1>4, <1>5, <1>6, <2>1
<1> QED
  BY <1>3, <1>5, <1>6, ReferenceType

LEMMA EntryEntered ==
  ASSUME TypeOK, Distinct, NEW q \in References, q.kind \in {"single", "middle", "double"}, Live(q.file),
         NEW n, Entered(q, n), Zone'[q.file] = Zone[q.file],
         Holds(Parent(q)) \in Zones,
         table'[Holds(Parent(q))] = [table[Holds(Parent(q))] EXCEPT ![Entry(q)] = n],
         \A m \in Zones \ free : m # Holds(Parent(q)) => table'[m] = table[m]
  PROVE  \A r \in References : r.file = q.file /\ r.kind # "new" /\ r # q => Holds(r)' = Holds(r)
<1>1. q.file \in Files /\ Entry(q) \in 0 .. nr_indirects - 1
  BY ReferenceType, EntryType
<1>2. \A r \in References : r.file = q.file => Claim(r) = Holds(r)
  BY DEF Claim, Open
<1>3. ASSUME NEW r \in References, r.file = q.file, r.kind = "inode" PROVE Holds(r)' = Holds(r)
  BY <1>3 DEF Holds
<1>4. ASSUME NEW r \in References, r.file = q.file, r.kind \in {"single", "middle", "double"}, r # q,
             Holds(Parent(r))' = Holds(Parent(r))
      PROVE  Holds(r)' = Holds(r)
  <2> DEFINE h == Holds(Parent(r))
  <2>1. Parent(r) \in References /\ Parent(r).file = q.file /\ Parent(q) \in References
        /\ Parent(q).file = q.file
    BY <1>4, ParentType
  <2>2. h \in Zones => h \notin free
    BY <1>2, <2>1 DEF Distinct
  <2>3. CASE h \in Zones /\ h = Holds(Parent(q))
    <3>1. Parent(r) = Parent(q)
      BY <1>2, <2>1, <2>3 DEF Distinct
    <3>2. Entry(r) # Entry(q) /\ Entry(r) \in 0 .. nr_indirects - 1
      BY <1>4, <3>1, EntryIsOne, EntryType
    <3>3. table'[h][Entry(r)] = table[h][Entry(r)]
      BY <2>3, <3>2 DEF TypeOK
    <3> QED
      BY <1>4, <2>3, <3>3, HoldsThroughParent DEF RdIndir
  <2>4. CASE h \in Zones /\ h # Holds(Parent(q))
    BY <1>4, <2>2, <2>4, HoldsThroughParent DEF RdIndir
  <2>5. CASE h \notin Zones
    BY <1>4, <2>5, HoldsThroughParent DEF RdIndir
  <2> QED
    BY <2>3, <2>4, <2>5
<1>5. ASSUME NEW r \in References, r.file = q.file, r.kind \in {"single", "middle"}, r # q
      PROVE  Holds(r)' = Holds(r)
  <2>1. Parent(r).kind = "inode" /\ Parent(r) \in References /\ Parent(r).file = q.file
    BY <1>5, ParentType DEF Parent, SingleRef, DoubleRef
  <2> QED
    BY <1>3, <1>4, <1>5, <2>1
<1>6. ASSUME NEW r \in References, r.file = q.file, r.kind = "double", r # q
      PROVE  Holds(r)' = Holds(r)
  <2>1. Parent(r).kind = "middle" /\ Parent(r) \in References /\ Parent(r).file = q.file
        /\ IsTable(Parent(r))
    BY <1>6, ParentType DEF Parent, MiddleRef
  <2>2. CASE Parent(r) = q
    BY <1>6, <2>1, <2>2, Descendants
  <2>3. CASE Parent(r) # q
    BY <1>4, <1>5, <1>6, <2>1, <2>3
  <2> QED
    BY <2>2, <2>3
<1> QED
  BY <1>3, <1>5, <1>6, ReferenceType
-----------------------------------------------------------------------------
(* What the invariant says of a file that is written *)

LEMMA LiveClaims ==
  ASSUME NEW f \in Files
  PROVE  /\ Live(f) => \A r \in References : r.file = f => Claim(r) = Holds(r)
         /\ Live(f)' => \A r \in References : r.file = f => Claim(r)' = Holds(r)'
BY DEF Claim, Open

LEMMA MapKept ==
  ASSUME UNCHANGED <<Zone, table>>, NEW r \in References, r.kind # "new"
  PROVE  Holds(r)' = Holds(r)
BY ReferenceType DEF Holds, RdIndir

LEMMA NewHolds ==
  ASSUME NEW r \in References, r.kind = "new"
  PROVE  /\ r = NewRef(r.file)
         /\ Holds(r) = IF pc[r.file] \in {"map", "undo"} THEN z[r.file] ELSE NO_ZONE
         /\ Holds(r)' = IF pc'[r.file] \in {"map", "undo"} THEN z'[r.file] ELSE NO_ZONE
<1>1. r.at = 0 /\ r.file \in Files
  BY ReferenceType
<1> QED
  BY <1>1, SameReference, SomeReferences DEF NewRef, Holds

LEMMA ClaimType ==
  ASSUME Distinct, NEW r \in References
  PROVE  Claim(r) \in Zones \cup {NO_ZONE} /\ Claim(r) # Illegal
BY DEF Distinct

LEMMA PositionType ==
  ASSUME NEW p \in 0 .. MaxSize - 1
  PROVE  p \div Blocksize \in 0 .. Blocks - 1
BY Quotient, Geometry

LEMMA WriteFacts ==
  ASSUME IInv, NEW f \in Files, pc[f] \in Writing
  PROVE  /\ Live(f)
         /\ req[f].pos \in 0 .. MaxSize - 1 /\ req[f].len \in 1 .. Blocksize
         /\ BlockOf(f) \in 0 .. Blocks - 1
         /\ req[f].pos + req[f].len \in 0 .. MaxSize
         /\ BlockOf(f) * Blocksize < req[f].pos + req[f].len
         /\ ReadMap(f, BlockOf(f)) = IF pc[f] = "store" THEN z[f] ELSE NO_ZONE
<1>1. Live(f)
  BY DEF Live, Writing
<1>2. req[f].pos \in 0 .. MaxSize /\ req[f].len \in 1 .. Blocksize
  BY DEF IInv, TypeOK
<1>3. WritesBlock(f)
  BY DEF IInv, FileInv
<1>4. req[f].pos \in 0 .. MaxSize - 1
  BY <1>2, <1>3, Geometry DEF WritesBlock
<1>5. BlockOf(f) \in 0 .. Blocks - 1
  BY <1>4, PositionType DEF BlockOf
<1>6. req[f].pos + req[f].len \in 0 .. MaxSize /\ BlockOf(f) * Blocksize < req[f].pos + req[f].len
  BY <1>2, <1>3, <1>4, EndOfChunk, Geometry DEF WritesBlock, BlockOf
<1>7. ReadMap(f, BlockOf(f)) = IF pc[f] = "store" THEN z[f] ELSE NO_ZONE
  <2>1. PICK r \in References : r = DataRef(f, BlockOf(f))
    BY <1>5, DataRefType
  <2>2. r.file = f /\ IsData(r) /\ CallOf(r) = BlockOf(f) /\ Holds(r) = ReadMap(f, BlockOf(f))
    BY <1>5, <2>1, DataRefType, DataRefIsData
  <2>3. Claim(r) = Holds(r)
    BY <1>1, <2>2, LiveClaims
  <2> QED
    BY <1>3, <2>2, <2>3 DEF WritesBlock
<1> QED
  BY <1>1, <1>2, <1>4, <1>5, <1>6, <1>7

\* A chunk goes to a zone or to none.
LEMMA BlockRead ==
  ASSUME IInv, NEW f \in Files, Live(f), NEW b \in 0 .. Blocks - 1
  PROVE  ReadMap(f, b) \in Zones \cup {NO_ZONE} /\ ReadMap(f, b) # Illegal
<1>1. PICK r \in References : r = DataRef(f, b)
  BY DataRefType
<1>2. r.file = f /\ Holds(r) = ReadMap(f, b)
  BY <1>1, DataRefType
<1>3. Claim(r) = ReadMap(f, b)
  BY <1>2, LiveClaims
<1> QED
  BY <1>3, ClaimType DEF IInv
-----------------------------------------------------------------------------
(* Steps keep the types *)

Request == [op : {"none", "write", "remove", "truncate"}, pos : 0 .. MaxSize,
            len : 1 .. Blocksize, val : Values \cup {0}]

LEMMA ChunkType ==
  ASSUME NEW c \in Chunks
  PROVE  /\ c.pos \in 0 .. MaxSize - 1 /\ c.pos \in 0 .. MaxSize /\ c.len \in 1 .. Blocksize
         /\ (c.pos % Blocksize) + c.len <= Blocksize
BY ChunksAssumption, Geometry DEF ChunksAssumption

LEMMA TypeUnderWriteChunk ==
  ASSUME IInv, NEW f \in Files, NEW c \in Chunks, NEW v \in Values, WriteChunk(f, c, v)
  PROVE  TypeOK'
<1> DEFINE b == ReadMap(f, c.pos \div Blocksize)
<1>1. c.pos \in 0 .. MaxSize /\ c.len \in 1 .. Blocksize /\ c.pos \div Blocksize \in 0 .. Blocks - 1
  BY ChunkType, PositionType
<1>2. b \in Zones \cup {NO_ZONE}
  BY <1>1, BlockRead DEF WriteChunk, Live
<1>3. UNCHANGED <<inode, blocks, free, k>> /\ z' = [z EXCEPT ![f] = b]
      /\ pc' = [pc EXCEPT ![f] = IF b = NO_ZONE THEN "alloc" ELSE IF b = Illegal THEN "panicked" ELSE "store"]
  BY DEF WriteChunk, To
<1>4. [op |-> "write", pos |-> c.pos, len |-> c.len, val |-> v] \in Request
  BY <1>1 DEF Request
<1>5. req' = [req EXCEPT ![f] = [op |-> "write", pos |-> c.pos, len |-> c.len, val |-> v]]
  BY DEF WriteChunk
<1>6. req' \in [Files -> Request]
  BY <1>4, <1>5 DEF IInv, TypeOK, Request
<1>7. pc' \in [Files -> Stages] /\ z' \in [Files -> Zones \cup {NO_ZONE}]
  <2> HIDE DEF b
  <2> QED
    BY <1>2, <1>3 DEF IInv, TypeOK, Stages
<1> QED
  BY <1>3, <1>6, <1>7 DEF IInv, TypeOK, inode, blocks, Request

LEMMA NoRequestType ==
  /\ NoRequest \in Request
  /\ \A op \in {"remove", "truncate"} : [NoRequest EXCEPT !.op = op] \in Request
                                       /\ [NoRequest EXCEPT !.op = op].op = op
<1>1. 0 \in 0 .. MaxSize /\ 1 \in 1 .. Blocksize
  BY Geometry
<1> QED
  BY <1>1 DEF NoRequest, Request

LEMMA TypeUnderEnd ==
  ASSUME TypeOK, NEW f \in Files, End(f)
  PROVE  /\ pc' \in [Files -> Stages] /\ req' \in [Files -> Request]
         /\ z' \in [Files -> Zones \cup {NO_ZONE}] /\ k' \in [Files -> 0 .. LastCall + 1]
<1>1. 0 \in 0 .. LastCall + 1
  BY Geometry
<1>2. req \in [Files -> Request]
  BY DEF TypeOK, Request
<1> QED
  BY <1>1, <1>2, NoRequestType DEF TypeOK, End, To, Stages

LEMMA TypeUnderGrow ==
  ASSUME TypeOK, NEW f \in Files, NEW n \in 0 .. MaxSize, Grow(f, n)
  PROVE  /\ Size' \in [Files -> 0 .. MaxSize]
         /\ Size'[f] >= n /\ Size'[f] >= Size[f] /\ Size'[f] \in Nat /\ Size[f] \in Nat
BY Geometry DEF TypeOK, Grow
-----------------------------------------------------------------------------
(* Steps of one file *)

Alone(f) ==
  \A g \in Files \ {f} :
    /\ Zone'[g] = Zone[g] /\ Size'[g] = Size[g] /\ pc'[g] = pc[g]
    /\ req'[g] = req[g] /\ z'[g] = z[g] /\ k'[g] = k[g]

\* The blocks of files keep their zones, but for the one that q is the entry of.
BlocksKept == \A r \in References : IsData(r) => Claim(r)' = Claim(r)
BlocksKeptBut(q) == \A r \in References \ {q} : IsData(r) => Claim(r)' = Claim(r)

\* It is enough to look at the file of a step and at the claims.
LEMMA StepDone ==
  ASSUME IInv, NEW f \in Files, Alone(f), TypeOK', Distinct', AllClaimed', FileInv(f)',
         \A r \in References : r.file # f => Claim(r)' = Claim(r)
  PROVE  IInv'
<1>1. ASSUME NEW g \in Files, g # f PROVE FileInv(g)'
  <2>1. FileInv(g)
    BY DEF IInv
  <2>2. Zone'[g] = Zone[g] /\ Size'[g] = Size[g] /\ pc'[g] = pc[g] /\ req'[g] = req[g] /\ z'[g] = z[g]
        /\ k'[g] = k[g]
    BY <1>1 DEF Alone
  <2>3. BlockOf(g)' = BlockOf(g)
    BY <2>2 DEF BlockOf
  <2>4. \A r \in References : r.file = g => Claim(r)' = Claim(r)
    BY <1>1
  <2>5. Inside(g)'
    BY <2>1, <2>2, <2>3, <2>4 DEF FileInv, Inside
  <2>6. WritesBlock(g)'
    BY <2>1, <2>2, <2>3, <2>4 DEF FileInv, WritesBlock
  <2> QED
    BY <2>1, <2>2, <2>5, <2>6 DEF FileInv, Removal
<1> QED
  BY <1>1 DEF IInv

\* A step of a file that does not change maps leaves the others as they were.
LEMMA MapsKept ==
  ASSUME IInv, NEW f \in Files, UNCHANGED <<Zone, table>>, Alone(f)
  PROVE  /\ \A r \in References : r.file # f => Claim(r)' = Claim(r)
         /\ \A r \in References : r.kind # "new" => Holds(r)' = Holds(r)
<1>1. OwnTables(f)
  BY DEF OwnTables
<1>2. \A r \in References : r.file # f => Claim(r)' = Claim(r)
  BY <1>1, OtherFiles DEF Alone, IInv
<1> QED
  BY <1>2, MapKept

LEMMA WriteChunkKeeps ==
  ASSUME IInv, NEW f \in Files, NEW c \in Chunks, NEW v \in Values, WriteChunk(f, c, v)
  PROVE  IInv'
<1> DEFINE b == ReadMap(f, c.pos \div Blocksize)
<1>1. TypeOK'
  BY TypeUnderWriteChunk
<1>2. c.pos \in 0 .. MaxSize - 1 /\ (c.pos % Blocksize) + c.len <= Blocksize
      /\ c.pos \div Blocksize \in 0 .. Blocks - 1
  BY ChunkType, PositionType
<1>3. b \in Zones \cup {NO_ZONE} /\ b # Illegal /\ Live(f)
  BY <1>2, BlockRead DEF WriteChunk, Live
<1>4. /\ pc' = [pc EXCEPT ![f] = IF b = NO_ZONE THEN "alloc" ELSE IF b = Illegal THEN "panicked" ELSE "store"]
      /\ z' = [z EXCEPT ![f] = b] /\ pc[f] = "idle"
      /\ req' = [req EXCEPT ![f] = [op |-> "write", pos |-> c.pos, len |-> c.len, val |-> v]]
      /\ Zone' = Zone /\ Size' = Size /\ table' = table /\ free' = free /\ k' = k
  BY DEF WriteChunk, To, inode, blocks
<1> HIDE DEF b
<1>5. /\ pc'[f] = IF b = NO_ZONE THEN "alloc" ELSE "store"
      /\ z'[f] = b /\ req'[f].pos = c.pos /\ req'[f].len = c.len
  BY <1>3, <1>4 DEF IInv, TypeOK
<1>6. Alone(f)
  BY <1>4 DEF Alone, IInv, TypeOK
<1>7. \A r \in References : r.file # f => Claim(r)' = Claim(r)
  BY <1>4, <1>6, MapsKept
<1>8. Live(f) /\ Live(f)'
  BY <1>4, <1>5 DEF Live
<1>9. \A r \in References : r.file = f => Claim(r)' = Claim(r) /\ Claim(r) = Holds(r)
  <2>1. ASSUME NEW r \in References, r.file = f PROVE Holds(r)' = Holds(r)
    <3>1. CASE r.kind = "new"
      BY <1>4, <1>5, <2>1, <3>1, NewHolds
    <3>2. CASE r.kind # "new"
      BY <1>4, <1>6, <3>2, MapsKept
    <3> QED
      BY <3>1, <3>2
  <2> QED
    BY <1>8, <2>1, LiveClaims
<1>10. Distinct' /\ AllClaimed'
  BY <1>4, <1>7, <1>9, NothingClaimed DEF IInv
<1>11. Inside(f)'
  <2>1. Inside(f)
    BY DEF IInv, FileInv
  <2> QED
    BY <1>4, <1>9, <2>1 DEF Inside
<1>12. BlockOf(f)' = c.pos \div Blocksize
  BY <1>5 DEF BlockOf
<1>13. WritesBlock(f)'
  <2>1. ASSUME NEW r \in References, r.file = f, IsData(r), CallOf(r) = BlockOf(f)'
        PROVE  Claim(r)' = b
    <3>1. r = DataRef(f, c.pos \div Blocksize)
      BY <1>12, <2>1, CallOfData
    <3>2. Holds(r) = b
      BY <1>2, <3>1, DataRefType DEF b
    <3> QED
      BY <1>9, <2>1, <3>2
  <2>2. req'[f].pos < MaxSize
    BY <1>2, <1>5, Geometry
  <2> QED
    BY <1>2, <1>3, <1>5, <2>1, <2>2 DEF WritesBlock
<1>14. Removal(f)' /\ pc'[f] # "panicked"
  BY <1>4, <1>5 DEF Removal, IInv, FileInv
<1> QED
  BY <1>1, <1>6, <1>7, <1>10, <1>11, <1>13, <1>14, StepDone DEF FileInv

\* The end of a write that has changed no map and freed at most its own zone.
LEMMA EndKeeps ==
  ASSUME IInv, NEW f \in Files, pc[f] \in {"alloc", "undo"}, End(f), Grow(f, req[f].pos),
         UNCHANGED <<Zone, blocks>>, IF pc[f] = "undo" THEN free' = free \cup {z[f]} ELSE free' = free
  PROVE  IInv'
<1>1. pc[f] \in Writing /\ Live(f) /\ req[f].pos \in 0 .. MaxSize
  BY WriteFacts, Geometry DEF Writing
<1>2. pc'[f] = "idle" /\ z'[f] = NO_ZONE /\ k'[f] = 0 /\ Zone' = Zone /\ table' = table /\ data' = data
  BY DEF End, To, IInv, TypeOK, blocks
<1>3. z[f] \in Zones \/ pc[f] = "alloc"
  BY <1>1 DEF IInv, FileInv, WritesBlock
<1>4. TypeOK'
  <2>1. free' \subseteq Zones
    BY <1>3 DEF IInv, TypeOK
  <2> QED
    BY <1>1, <1>2, <2>1, TypeUnderEnd, TypeUnderGrow DEF IInv, TypeOK, Request
<1>5. Alone(f)
  BY <1>2 DEF Alone, End, To, Grow, IInv, TypeOK
<1>6. \A r \in References : r.file # f => Claim(r)' = Claim(r)
  BY <1>2, <1>5, MapsKept
<1>7. Live(f)'
  BY <1>2 DEF Live
<1>8. \A r \in References : r.file = f /\ r.kind # "new" => Claim(r)' = Claim(r)
  BY <1>1, <1>2, <1>5, <1>7, LiveClaims, MapsKept
<1>9. PICK q \in References : q = NewRef(f)
  BY SomeReferences
<1>10. /\ q.kind = "new" /\ q.file = f /\ Claim(q)' = NO_ZONE
       /\ Claim(q) = IF pc[f] = "undo" THEN z[f] ELSE NO_ZONE
  <2>1. q.kind = "new" /\ q.file = f
    BY <1>9 DEF NewRef
  <2> QED
    BY <1>1, <1>2, <1>7, <2>1, LiveClaims, NewHolds
<1>11. \A r \in References \ {q} : Claim(r)' = Claim(r)
  BY <1>6, <1>8, <1>9, NewHolds
<1>12. Distinct' /\ AllClaimed'
  <2>1. CASE pc[f] = "undo"
    BY <1>3, <1>10, <1>11, <2>1, ZoneReleased DEF IInv
  <2>2. CASE pc[f] = "alloc"
    BY <1>10, <1>11, <2>2, NothingClaimed DEF IInv
  <2> QED
    BY <2>1, <2>2
<1>13. Inside(f)'
  <2>1. Inside(f) /\ pc[f] # "store"
    BY DEF IInv, FileInv
  <2>2. Size'[f] >= Size[f] /\ Size'[f] \in Nat /\ Size[f] \in Nat
    BY <1>1, TypeUnderGrow DEF IInv
  <2>3. ASSUME NEW r \in References, r.file = f, IsData(r), Claim(r)' # NO_ZONE
        PROVE  CallOf(r) * Blocksize < Size'[f]
    <3>1. Claim(r)' = Claim(r)
      BY <1>8, <2>3 DEF IsData
    <3>2. CallOf(r) * Blocksize < Size[f] /\ CallOf(r) * Blocksize \in Int
      BY <2>1, <2>3, <3>1, CallOfData DEF Inside
    <3> QED
      BY <2>2, <3>2
  <2> QED
    BY <2>3 DEF Inside
<1>14. FileInv(f)'
  BY <1>2, <1>13 DEF FileInv, WritesBlock, Writing, Removal
<1> QED
  BY <1>4, <1>5, <1>6, <1>12, <1>14, StepDone

LEMMA NoSpaceKeeps == ASSUME IInv, NEW f \in Files, NoSpace(f) PROVE IInv'
BY EndKeeps DEF NoSpace

LEMMA UndoKeeps == ASSUME IInv, NEW f \in Files, Undo(f) PROVE IInv'
BY EndKeeps DEF Undo, FreedZone

LEMMA NewBlockKeeps ==
  ASSUME IInv, NEW f \in Files, NewBlock(f)
  PROVE  IInv'
<1>1. PICK n \in free : z' = [z EXCEPT ![f] = n] /\ free' = free \ {n}
  BY DEF NewBlock
<1>2. /\ pc[f] = "alloc" /\ pc' = [pc EXCEPT ![f] = "map"]
      /\ UNCHANGED <<Zone, Size, table, data, req, k>>
  BY DEF NewBlock, To, inode, blocks
<1>3. n \in Zones /\ pc'[f] = "map" /\ z'[f] = n
  BY <1>1, <1>2 DEF IInv, TypeOK
<1>4. TypeOK'
  BY <1>1, <1>2, <1>3 DEF IInv, TypeOK, Stages
<1>5. Alone(f) /\ Live(f) /\ Live(f)'
  BY <1>1, <1>2, <1>3 DEF Alone, Live, IInv, TypeOK
<1>6. \A r \in References : r.file # f => Claim(r)' = Claim(r)
  BY <1>2, <1>5, MapsKept
<1>7. \A r \in References : r.file = f /\ r.kind # "new" => Claim(r)' = Claim(r)
  BY <1>2, <1>5, LiveClaims, MapsKept
<1>8. PICK q \in References : q = NewRef(f)
  BY SomeReferences
<1>9. q.kind = "new" /\ q.file = f
  BY <1>8 DEF NewRef
<1>10. Claim(q) = NO_ZONE /\ Claim(q)' = n
  BY <1>2, <1>3, <1>5, <1>9, LiveClaims, NewHolds
<1>11. \A r \in References \ {q} : Claim(r)' = Claim(r)
  BY <1>6, <1>7, <1>8, NewHolds
<1>12. Distinct' /\ AllClaimed'
  BY <1>1, <1>10, <1>11, ZoneClaimed DEF IInv, TypeOK
<1>13. BlockOf(f)' = BlockOf(f) /\ \A r \in References : r.file = f /\ IsData(r) => Claim(r)' = Claim(r)
  BY <1>2, <1>7 DEF BlockOf, IsData
<1>14. FileInv(f)'
  BY <1>2, <1>3, <1>13 DEF IInv, FileInv, Inside, WritesBlock, Writing, Removal
<1> QED
  BY <1>4, <1>5, <1>6, <1>12, <1>14, StepDone

LEMMA NoIndirectKeeps ==
  ASSUME IInv, NEW f \in Files, NoIndirect(f)
  PROVE  IInv'
<1>1. /\ pc[f] = "map" /\ pc' = [pc EXCEPT ![f] = "undo"]
      /\ UNCHANGED <<Zone, Size, table, data, free, req, z, k>>
  BY DEF NoIndirect, To, inode, blocks
<1>2. pc'[f] = "undo"
  BY <1>1 DEF IInv, TypeOK
<1>3. TypeOK'
  BY <1>1, <1>2 DEF IInv, TypeOK, Stages
<1>4. Alone(f) /\ Live(f) /\ Live(f)'
  BY <1>1, <1>2 DEF Alone, Live, IInv, TypeOK
<1>5. \A r \in References : r.file # f => Claim(r)' = Claim(r)
  BY <1>1, <1>4, MapsKept
<1>6. \A r \in References : r.file = f => Claim(r)' = Claim(r)
  <2>1. ASSUME NEW r \in References, r.file = f PROVE Holds(r)' = Holds(r)
    <3>1. CASE r.kind = "new"
      BY <1>1, <1>2, <2>1, <3>1, NewHolds
    <3>2. CASE r.kind # "new"
      BY <1>1, <1>4, <3>2, MapsKept
    <3> QED
      BY <3>1, <3>2
  <2> QED
    BY <1>4, <2>1, LiveClaims
<1>7. Distinct' /\ AllClaimed'
  BY <1>1, <1>5, <1>6, NothingClaimed DEF IInv
<1>8. BlockOf(f)' = BlockOf(f)
  BY <1>1 DEF BlockOf
<1>9. FileInv(f)'
  BY <1>1, <1>2, <1>6, <1>8 DEF IInv, FileInv, Inside, WritesBlock, Writing, Removal
<1> QED
  BY <1>3, <1>4, <1>5, <1>7, <1>9, StepDone

\* Data is stored in a zone that no file reads as an indirect block.
LEMMA StoreKeeps ==
  ASSUME IInv, NEW f \in Files, Store(f)
  PROVE  IInv' /\ BlocksKept
<1>1. /\ pc[f] = "store" /\ table' = [table EXCEPT ![z[f]] = NoTable]
      /\ Grow(f, req[f].pos + req[f].len) /\ End(f) /\ UNCHANGED <<Zone, free>>
  BY DEF Store
<1>2. /\ Live(f) /\ BlockOf(f) \in 0 .. Blocks - 1 /\ ReadMap(f, BlockOf(f)) = z[f]
      /\ req[f].pos + req[f].len \in 0 .. MaxSize /\ req[f].val \in Values \cup {0}
      /\ BlockOf(f) * Blocksize < req[f].pos + req[f].len /\ z[f] \in Zones
  <2>1. pc[f] \in Writing /\ WritesBlock(f)
    BY <1>1 DEF Writing, IInv, FileInv
  <2> QED
    BY <1>1, <2>1, WriteFacts DEF WritesBlock, IInv, TypeOK
<1>3. pc'[f] = "idle" /\ z'[f] = NO_ZONE /\ k'[f] = 0
  BY <1>1 DEF End, To, IInv, TypeOK
<1>4. TypeOK'
  <2>1. table' \in [Zones -> [0 .. nr_indirects - 1 -> Numbers]]
    BY <1>1 DEF IInv, TypeOK, NoTable, Numbers
  <2>2. data' \in [Zones -> [0 .. Blocksize - 1 -> Values \cup {0, OldByte}]]
    <3> DEFINE old == IF StartsBlock(f) THEN Zeroes ELSE data[z[f]]
               off == req[f].pos % Blocksize
               new == [i \in 0 .. Blocksize - 1 |->
                        IF i \in off .. (off + req[f].len) - 1 THEN req[f].val ELSE old[i]]
    <3>1. data' = [data EXCEPT ![z[f]] = new]
      BY DEF Store
    <3>2. old \in [0 .. Blocksize - 1 -> Values \cup {0, OldByte}]
      BY <1>2 DEF IInv, TypeOK, Zeroes
    <3>3. new \in [0 .. Blocksize - 1 -> Values \cup {0, OldByte}]
      <4> HIDE DEF old, off
      <4> QED
        BY <1>2, <3>2
    <3> HIDE DEF new
    <3> QED
      BY <3>1, <3>3 DEF IInv, TypeOK
  <2> QED
    BY <1>1, <1>2, <2>1, <2>2, TypeUnderEnd, TypeUnderGrow DEF IInv, TypeOK, Request
<1>5. Alone(f) /\ Live(f)'
  BY <1>1, <1>3 DEF Alone, Live, End, To, Grow, IInv, TypeOK
<1>6. PICK q \in References : q = DataRef(f, BlockOf(f))
  BY <1>2, DataRefType
<1>7. q.file = f /\ Claim(q) = z[f] /\ ~IsTable(q) /\ IsData(q) /\ CallOf(q) = BlockOf(f)
  <2>1. q.file = f /\ Holds(q) = z[f] /\ IsData(q) /\ CallOf(q) = BlockOf(f)
    BY <1>2, <1>6, DataRefType, DataRefIsData
  <2>2. ~IsTable(q)
    <3>1. ~(single < dzones) /\ ~(double < dzones)
      BY DEF single, double
    <3> QED
      BY <2>1, <3>1 DEF IsTable, IsData
  <2> QED
    BY <1>2, <2>1, <2>2, LiveClaims
<1>8. \A g \in Files : TablesKept(g)
  BY <1>1, <1>7 DEF TablesKept, IInv, Distinct, TypeOK
<1>9. \A r \in References : r.file # f => Claim(r)' = Claim(r)
  BY <1>1, <1>5, <1>8, ClaimKept, ReferenceType DEF Alone, IInv
<1>10. \A r \in References : r.file = f => Claim(r)' = Claim(r)
  <2>1. ASSUME NEW r \in References, r.file = f PROVE Holds(r)' = Holds(r)
    <3>1. CASE r.kind = "new"
      BY <1>1, <1>3, <2>1, <3>1, NewHolds
    <3>2. CASE r.kind # "new"
      BY <1>1, <1>2, <1>8, <2>1, <3>2, HoldsKept DEF Open, IInv
    <3> QED
      BY <3>1, <3>2
  <2> QED
    BY <1>2, <1>5, <2>1, LiveClaims
<1>11. Distinct' /\ AllClaimed'
  BY <1>1, <1>9, <1>10, NothingClaimed DEF IInv
<1>12. Inside(f)'
  <2>1. Inside(f)
    BY DEF IInv, FileInv
  <2>2. /\ Size'[f] >= req[f].pos + req[f].len /\ Size'[f] >= Size[f]
        /\ Size'[f] \in Nat /\ Size[f] \in Nat
    BY <1>1, <1>2, TypeUnderGrow DEF IInv
  <2>3. ASSUME NEW r \in References, r.file = f, IsData(r), Claim(r)' # NO_ZONE
        PROVE  CallOf(r) * Blocksize < Size'[f]
    <3>1. Claim(r) # NO_ZONE /\ CallOf(r) * Blocksize \in Int
      BY <1>10, <2>3, CallOfData
    <3>2. CASE CallOf(r) = BlockOf(f)
      <4>1. BlockOf(f) * Blocksize < Size'[f]
        <5> DEFINE m == req[f].pos + req[f].len
        <5>1. m \in Int /\ BlockOf(f) * Blocksize \in Int /\ BlockOf(f) * Blocksize < m /\ Size'[f] >= m
          BY <1>2, <2>2
        <5> HIDE DEF m
        <5> QED
          BY <2>2, <5>1
      <4> QED
        BY <3>2, <4>1
    <3>3. CASE CallOf(r) # BlockOf(f)
      <4>1. CallOf(r) * Blocksize < Size[f]
        BY <2>1, <2>3, <3>1, <3>3 DEF Inside
      <4> QED
        BY <2>2, <3>1, <4>1
    <3> QED
      BY <3>2, <3>3
  <2> QED
    BY <2>3 DEF Inside
<1>13. FileInv(f)'
  BY <1>3, <1>12 DEF FileInv, WritesBlock, Writing, Removal
<1>14. BlocksKept
  BY <1>9, <1>10 DEF BlocksKept
<1> QED
  BY <1>4, <1>5, <1>9, <1>11, <1>13, <1>14, StepDone
-----------------------------------------------------------------------------
(* Removal *)

LEMMA CallType ==
  ASSUME NEW r \in References
  PROVE  CallOf(r) \in 0 .. LastCall
<1>1. CASE r.kind = "new"
  BY <1>1, Geometry DEF CallOf
<1> QED
  BY <1>1, CallOfRef

LEMMA TruncateKeeps ==
  ASSUME IInv, OnlyRemoved, NEW f \in Files, NEW op \in {"remove", "truncate"}, Truncate(f, op)
  PROVE  IInv'
<1>1. /\ pc[f] = "idle" /\ pc' = [pc EXCEPT ![f] = "truncate"]
      /\ Zone' = Zone /\ Size' = Size /\ table' = table /\ data' = data
      /\ free' = free /\ z' = z /\ k' = k
  BY DEF Truncate, To, inode, blocks
<1>2. /\ req' \in [Files -> Request] /\ req'[f].op = "remove"
      /\ \A g \in Files \ {f} : req'[g] = req[g]
  <2>1. op = "remove" /\ req' = [req EXCEPT ![f] = [NoRequest EXCEPT !.op = op]]
    BY DEF Truncate, OnlyRemoved
  <2>2. req \in [Files -> Request]
    BY DEF IInv, TypeOK, Request
  <2> DEFINE new == [NoRequest EXCEPT !.op = op]
  <2>3. new \in Request /\ new.op = op
    BY NoRequestType
  <2> HIDE DEF new
  <2>4. req' = [req EXCEPT ![f] = new]
    BY <2>1 DEF new
  <2> QED
    BY <2>1, <2>2, <2>3, <2>4
<1>3. pc'[f] = "truncate" /\ k'[f] = 0
  BY <1>1 DEF IInv, TypeOK, FileInv, Removal
<1>4. TypeOK'
  BY <1>1, <1>2 DEF IInv, TypeOK, Stages, Request
<1>5. Alone(f) /\ Live(f)
  BY <1>1, <1>2 DEF Alone, Live, IInv, TypeOK
<1>6. \A r \in References : r.file # f => Claim(r)' = Claim(r)
  BY <1>1, <1>5, MapsKept
<1>7. \A r \in References : r.file = f => Claim(r)' = Claim(r)
  <2>1. ASSUME NEW r \in References, r.file = f PROVE Holds(r)' = Holds(r)
    <3>1. CASE r.kind = "new"
      BY <1>1, <1>3, <2>1, <3>1, NewHolds
    <3>2. CASE r.kind # "new"
      BY <1>1, <1>5, <3>2, MapsKept
    <3> QED
      BY <3>1, <3>2
  <2>2. ASSUME NEW r \in References, r.file = f PROVE Open(r) /\ Open(r)'
    <3>1. CallOf(r) >= 0
      BY CallType
    <3> QED
      BY <1>3, <1>5, <2>2, <3>1 DEF Open
  <2> QED
    BY <2>1, <2>2 DEF Claim
<1>8. Distinct' /\ AllClaimed'
  BY <1>1, <1>6, <1>7, NothingClaimed DEF IInv
<1>9. FileInv(f)'
  <2>1. Inside(f)'
    BY <1>1, <1>7 DEF IInv, FileInv, Inside
  <2> QED
    BY <1>2, <1>3, <2>1 DEF FileInv, WritesBlock, Writing, Removal
<1> QED
  BY <1>4, <1>5, <1>6, <1>8, <1>9, StepDone

\* Until call n, Truncate has nothing to free: nothing is claimed.
LEMMA NothingToFree ==
  ASSUME IInv, NEW f \in Files, pc[f] = "truncate", NEW n \in 0 .. LastCall + 1,
         \A i \in NextCalls(f) : n <= i
  PROVE  \A r \in References : r.file = f /\ CallOf(r) < n => Claim(r) = NO_ZONE
<1> SUFFICES ASSUME NEW r \in References, r.file = f, CallOf(r) < n, Claim(r) # NO_ZONE PROVE FALSE
  OBVIOUS
<1>1. Open(r) /\ ~Live(f) /\ Holds(r) # NO_ZONE
  BY DEF Claim, Live
<1>2. r.kind # "new"
  BY <1>1, NewHolds
<1>3. CallOf(r) \in k[f] .. LastCall
  <2>1. CallOf(r) \in 0 .. LastCall /\ k[f] <= CallOf(r) /\ k[f] \in 0 .. LastCall + 1
    BY <1>1, CallType DEF Open, IInv, TypeOK
  <2> QED
    BY <2>1, Geometry
<1>4. CallOf(r) \notin NextCalls(f)
  BY <1>3, Geometry
<1>5. ToFree(f, CallOf(r)) = NO_ZONE
  BY <1>3, <1>4 DEF NextCalls
<1>6. CallOf(r) \in 0 .. LastCall /\ r = RefOfCall(f, CallOf(r))
  BY <1>2, CallOfRef
<1>7. CallOf(r) < Blocks /\ ~(CallOf(r) * Blocksize < Size[f])
  BY <1>1, <1>5, <1>6, RefOfCallType
<1>8. IsData(r)
  <2>1. CallOf(r) \in 0 .. Blocks - 1
    BY <1>6, <1>7, Geometry
  <2> QED
    BY <1>6, <1>7, <2>1, DataRefIsData DEF RefOfCall
<1> QED
  BY <1>7, <1>8 DEF IInv, FileInv, Inside

LEMMA FreeZoneKeeps ==
  ASSUME IInv, NEW f \in Files, FreeZone(f)
  PROVE  IInv'
<1>1. PICK m \in NextCalls(f) :
        /\ \A n \in NextCalls(f) : m <= n
        /\ LET n == ToFree(f, m) IN
           IF n = Illegal \/ n \in free
           THEN To(f, "panicked") /\ UNCHANGED <<free, k>>
           ELSE /\ free' = free \cup {n}
                /\ k' = [k EXCEPT ![f] = m + 1]
                /\ UNCHANGED pc
  BY DEF FreeZone
<1>2. pc[f] = "truncate" /\ UNCHANGED <<Zone, Size, table, data, req, z>>
  BY DEF FreeZone, inode, blocks
<1>3. m \in 0 .. LastCall /\ k[f] <= m /\ ToFree(f, m) # NO_ZONE /\ m + 1 \in 0 .. LastCall + 1
      /\ k[f] \in 0 .. LastCall + 1
  <2>1. k[f] \in 0 .. LastCall + 1 /\ m \in k[f] .. LastCall /\ ToFree(f, m) # NO_ZONE
    BY DEF NextCalls, IInv, TypeOK
  <2> QED
    BY <2>1, Geometry
<1>4. PICK q \in References : q = RefOfCall(f, m)
  BY <1>3, RefOfCallType
<1>5. q.file = f /\ q.kind # "new" /\ CallOf(q) = m /\ Holds(q) = ToFree(f, m)
  BY <1>3, <1>4, RefOfCallType
<1>6. Claim(q) = ToFree(f, m)
  BY <1>2, <1>3, <1>5 DEF Claim, Open
<1>7. ToFree(f, m) \in Zones \ free
  BY <1>3, <1>6 DEF IInv, Distinct
<1>8. free' = free \cup {ToFree(f, m)} /\ k' = [k EXCEPT ![f] = m + 1] /\ pc' = pc
  BY <1>1, <1>7
<1>9. k'[f] = m + 1
  BY <1>8 DEF IInv, TypeOK
<1>10. TypeOK'
  BY <1>2, <1>3, <1>7, <1>8 DEF IInv, TypeOK
<1>11. Alone(f)
  BY <1>2, <1>8 DEF Alone, IInv, TypeOK
<1>12. \A r \in References : r.file # f => Claim(r)' = Claim(r)
  BY <1>2, <1>11, MapsKept
<1>13. ~Live(f) /\ ~Live(f)'
  BY <1>2, <1>8 DEF Live
<1>14. ASSUME NEW r \in References, r.file = f, r # q PROVE Claim(r)' = Claim(r)
  <2>1. Holds(r)' = Holds(r)
    <3>1. CASE r.kind = "new"
      BY <1>2, <1>8, <1>14, <3>1, NewHolds
    <3>2. CASE r.kind # "new"
      BY <1>2, <1>11, <3>2, MapsKept
    <3> QED
      BY <3>1, <3>2
  <2>2. CASE CallOf(r) < m
    <3>1. Claim(r) = NO_ZONE
      BY <1>1, <1>2, <1>3, <1>14, <2>2, NothingToFree, Geometry
    <3>2. ~Open(r)'
      <4>1. ~(m + 1 <= CallOf(r))
        BY <1>3, <2>2, CallType
      <4> QED
        BY <1>9, <1>13, <1>14, <4>1 DEF Open
    <3> QED
      BY <3>1, <3>2 DEF Claim
  <2>3. CASE CallOf(r) > m
    <3>1. Open(r) /\ Open(r)'
      <4>1. k[f] <= CallOf(r) /\ m + 1 <= CallOf(r)
        BY <1>3, <2>3, CallType
      <4> QED
        BY <1>2, <1>8, <1>9, <1>14, <4>1 DEF Open
    <3> QED
      BY <2>1, <3>1 DEF Claim
  <2>4. CASE CallOf(r) = m
    <3>1. r.kind = "new"
      BY <1>4, <1>14, <2>4, CallOfRef
    <3>2. Holds(r) = NO_ZONE
      BY <1>2, <1>14, <3>1, NewHolds
    <3> QED
      BY <2>1, <3>2 DEF Claim
  <2> QED
    BY <1>3, <2>2, <2>3, <2>4, CallType
<1>15. Claim(q)' = NO_ZONE
  <2>1. ~(m + 1 <= CallOf(q))
    BY <1>3, <1>5
  <2> QED
    BY <1>5, <1>9, <1>13, <2>1 DEF Claim, Open
<1>16. Distinct' /\ AllClaimed'
  <2>1. \A r \in References \ {q} : Claim(r)' = Claim(r)
    BY <1>12, <1>14
  <2> QED
    BY <1>6, <1>7, <1>8, <1>15, <2>1, ZoneReleased DEF IInv
<1>17. Inside(f)'
  BY <1>2, <1>8, <1>14, <1>15 DEF IInv, FileInv, Inside
<1>18. FileInv(f)'
  BY <1>2, <1>8, <1>17 DEF IInv, FileInv, WritesBlock, Writing, Removal
<1> QED
  BY <1>10, <1>11, <1>12, <1>16, <1>18, StepDone

LEMMA EndTruncateKeeps ==
  ASSUME IInv, NEW f \in Files, EndTruncate(f)
  PROVE  IInv'
<1>1. /\ pc[f] = "truncate" /\ NextCalls(f) = {} /\ pc' = [pc EXCEPT ![f] = "gone"]
      /\ req' = [req EXCEPT ![f] = NoRequest] /\ k' = [k EXCEPT ![f] = 0]
      /\ UNCHANGED <<Zone, Size, table, data, free, z>>
  BY DEF EndTruncate, To, inode, blocks, IInv, FileInv, Removal
<1>2. pc'[f] = "gone" /\ k'[f] = 0
  BY <1>1 DEF IInv, TypeOK
<1>3. TypeOK'
  <2>1. req \in [Files -> Request]
    BY DEF IInv, TypeOK, Request
  <2>2. req' \in [Files -> Request]
    BY <1>1, <2>1, NoRequestType
  <2>3. 0 \in 0 .. LastCall + 1
    BY Geometry
  <2> QED
    BY <1>1, <2>2, <2>3 DEF IInv, TypeOK, Stages, Request
<1>4. Alone(f)
  BY <1>1 DEF Alone, IInv, TypeOK
<1>5. \A r \in References : r.file # f => Claim(r)' = Claim(r)
  BY <1>1, <1>4, MapsKept
<1>6. \A r \in References : r.file = f => Claim(r)' = NO_ZONE
  BY <1>2 DEF Claim, Open, Live
<1>7. \A r \in References : r.file = f => Claim(r) = NO_ZONE
  <2>1. LastCall + 1 \in 0 .. LastCall + 1 /\ \A r \in References : CallOf(r) < LastCall + 1
    BY CallType, Geometry
  <2> QED
    BY <1>1, <2>1, NothingToFree
<1>8. Distinct' /\ AllClaimed'
  BY <1>1, <1>5, <1>6, <1>7, NothingClaimed DEF IInv
<1>9. FileInv(f)'
  BY <1>2, <1>6 DEF FileInv, Inside, WritesBlock, Writing, Removal
<1> QED
  BY <1>3, <1>4, <1>5, <1>8, <1>9, StepDone

LEMMA NewInodeKeeps ==
  ASSUME IInv, OnlyRemoved, NEW f \in Files, NewInode(f)
  PROVE  IInv'
<1>1. /\ pc[f] = "unused" /\ Zone' = [Zone EXCEPT ![f][0] = NO_ZONE] /\ pc' = [pc EXCEPT ![f] = "idle"]
      /\ UNCHANGED <<Size, table, data, free, req, z, k>>
  BY DEF NewInode, To, blocks, OnlyRemoved
<1>2. Zone[f][0] = NO_ZONE /\ k[f] = 0
  BY <1>1 DEF IInv, FileInv, Removal
<1>3. Zone' = Zone
  <2>1. 0 \in 0 .. double
    BY DEF double
  <2>2. Zone[f] \in [0 .. double -> Zones \cup {NO_ZONE}]
    BY DEF IInv, TypeOK
  <2>3. [Zone[f] EXCEPT ![0] = NO_ZONE] = Zone[f]
    BY <1>2, <2>1, <2>2
  <2> QED
    BY <1>1, <2>3 DEF IInv, TypeOK
<1>4. pc'[f] = "idle"
  BY <1>1 DEF IInv, TypeOK
<1>5. TypeOK'
  BY <1>1, <1>3 DEF IInv, TypeOK, Stages
<1>6. Alone(f) /\ Live(f) /\ Live(f)'
  BY <1>1, <1>3, <1>4 DEF Alone, Live, IInv, TypeOK
<1>7. \A r \in References : r.file # f => Claim(r)' = Claim(r)
  BY <1>1, <1>3, <1>6, MapsKept
<1>8. \A r \in References : r.file = f => Claim(r)' = Claim(r)
  <2>1. ASSUME NEW r \in References, r.file = f PROVE Holds(r)' = Holds(r)
    <3>1. CASE r.kind = "new"
      BY <1>1, <1>4, <2>1, <3>1, NewHolds
    <3>2. CASE r.kind # "new"
      BY <1>1, <1>3, <1>6, <3>2, MapsKept
    <3> QED
      BY <3>1, <3>2
  <2> QED
    BY <1>6, <2>1, LiveClaims
<1>9. Distinct' /\ AllClaimed'
  BY <1>1, <1>7, <1>8, NothingClaimed DEF IInv
<1>10. FileInv(f)'
  <2>1. Inside(f)'
    BY <1>1, <1>8 DEF IInv, FileInv, Inside
  <2> QED
    BY <1>1, <1>2, <1>4, <2>1 DEF FileInv, WritesBlock, Writing, Removal
<1> QED
  BY <1>5, <1>6, <1>7, <1>9, <1>10, StepDone
-----------------------------------------------------------------------------
(* The zones of a write *)

\* A step of WriteMap that only enters a zone.
LEMMA TableClaimed ==
  ASSUME IInv, NEW f \in Files, pc[f] = "map", UNCHANGED <<Size, data, pc, req, z, k>>,
         NEW n \in free, free' = free \ {n}, TypeOK', Alone(f), OwnTables(f),
         NEW q \in References, q.file = f, IsTable(q), Holds(q) = NO_ZONE, Holds(q)' = n,
         \A r \in References : r.file = f /\ r.kind # "new" /\ r # q => Holds(r)' = Holds(r)
  PROVE  IInv' /\ BlocksKept
<1>1. Live(f) /\ Live(f)'
  BY DEF Live
<1>2. \A r \in References : r.file # f => Claim(r)' = Claim(r)
  BY OtherFiles DEF Alone, IInv
<1>3. \A r \in References : r.file = f /\ r # q => Claim(r)' = Claim(r)
  <2>1. ASSUME NEW r \in References, r.file = f, r.kind = "new" PROVE Holds(r)' = Holds(r)
    BY <2>1, NewHolds
  <2> QED
    BY <1>1, <2>1, LiveClaims
<1>4. Claim(q) = NO_ZONE /\ Claim(q)' = n
  BY <1>1, LiveClaims
<1>5. Distinct' /\ AllClaimed'
  <2>1. \A r \in References \ {q} : Claim(r)' = Claim(r)
    BY <1>2, <1>3
  <2> QED
    BY <1>4, <2>1, ZoneClaimed DEF IInv, TypeOK
<1>6. ~IsData(q)
  <2>1. ~(single < dzones) /\ ~(double < dzones)
    BY DEF single, double
  <2> QED
    BY <2>1 DEF IsTable, IsData
<1>7. BlockOf(f)' = BlockOf(f) /\ \A r \in References : r.file = f /\ IsData(r) => Claim(r)' = Claim(r)
  BY <1>3, <1>6 DEF BlockOf
<1>8. Removal(f)'
  BY DEF IInv, FileInv, Removal
<1>9. FileInv(f)'
  BY <1>7, <1>8 DEF IInv, FileInv, Inside, WritesBlock
<1>10. BlocksKept
  BY <1>2, <1>7 DEF BlocksKept
<1> QED
  BY <1>2, <1>5, <1>9, <1>10, StepDone

\* A new zone number in the inode: the single or the double indirect block.
LEMMA NumberClaimed ==
  ASSUME IInv, NEW f \in Files, pc[f] = "map", UNCHANGED <<Size, data, pc, req, z, k>>,
         NEW n \in free, free' = free \ {n}, NEW i \in {single, double}, Zone[f][i] = NO_ZONE,
         Zone' = [Zone EXCEPT ![f][i] = n], table' = Cleared(n)
  PROVE  IInv' /\ BlocksKept
<1>1. i \in 0 .. double /\ n \in Zones
  BY DEF single, double, IInv, TypeOK
<1>2. PICK q \in References : q = [kind |-> "inode", file |-> f, at |-> i]
  BY SomeReferences DEF SingleRef, DoubleRef
<1>3. q.kind = "inode" /\ q.file = f /\ q.at = i /\ IsTable(q)
  BY <1>2 DEF IsTable
<1>4. Zone[f] \in [0 .. double -> Zones \cup {NO_ZONE}] /\ table \in [Zones -> [0 .. nr_indirects - 1 -> Numbers]]
  BY DEF IInv, TypeOK
<1>5. Zone'[f] = [Zone[f] EXCEPT ![i] = n]
  BY DEF IInv, TypeOK
<1>6. Holds(q) = NO_ZONE /\ Holds(q)' = n
  BY <1>1, <1>3, <1>4, <1>5 DEF Holds
<1>7. table'[n] = NoZones /\ \A m \in Zones \ {n} : table'[m] = table[m]
  BY <1>1, <1>4 DEF Cleared
<1>8. TypeOK'
  <2>1. Zone' \in [Files -> [0 .. double -> Zones \cup {NO_ZONE}]]
    BY <1>1, <1>4 DEF IInv, TypeOK
  <2>2. table' \in [Zones -> [0 .. nr_indirects - 1 -> Numbers]]
    BY <1>1, <1>4 DEF Cleared, NoZones, Numbers
  <2> QED
    BY <2>1, <2>2 DEF IInv, TypeOK
<1>9. Alone(f) /\ OwnTables(f)
  BY <1>7 DEF Alone, OwnTables, IInv, TypeOK
<1>10. \A r \in References : r.file = f /\ r.kind # "new" /\ r # q => Holds(r)' = Holds(r)
  <2>1. Live(f)
    BY DEF Live
  <2>2. Entered(q, n)
    BY <1>1, <1>6, <1>7 DEF Entered
  <2> QED
    BY <1>3, <1>5, <1>7, <2>1, <2>2, NumberEntered DEF IInv
<1> QED
  BY <1>3, <1>6, <1>8, <1>9, <1>10, TableClaimed

LEMMA NewDoubleKeeps == ASSUME IInv, NEW f \in Files, NewDouble(f) PROVE IInv' /\ BlocksKept
<1>1. PICK n \in free : free' = free \ {n} /\ Zone' = [Zone EXCEPT ![f][double] = n] /\ table' = Cleared(n)
  BY DEF NewDouble
<1>2. pc[f] = "map" /\ UNCHANGED <<Size, data, pc, req, z, k>> /\ Zone[f][double] = NO_ZONE
  BY DEF NewDouble, NeedsDouble
<1> QED
  BY <1>1, <1>2, NumberClaimed

LEMMA NewIndirectKeeps == ASSUME IInv, NEW f \in Files, NewIndirect(f) PROVE IInv' /\ BlocksKept
<1> DEFINE b == BlockOf(f)
           D == Zone[f][double]
<1>1. PICK n \in free :
        /\ free' = free \ {n}
        /\ IF InSingle(b) THEN Zone' = [Zone EXCEPT ![f][single] = n] /\ table' = Cleared(n)
           ELSE table' = [Cleared(n) EXCEPT ![D][ind_ex(b)] = n] /\ Zone' = Zone
  BY DEF NewIndirect
<1>2. /\ pc[f] = "map" /\ UNCHANGED <<Size, data, pc, req, z, k>> /\ ~(b < dzones)
      /\ ~NeedsDouble(f) /\ Indirect(f, b) = NO_ZONE /\ b \in 0 .. Blocks - 1
  <2>1. pc[f] = "map" /\ pc[f] \in Writing
    BY DEF NewIndirect, Writing
  <2>2. b \in 0 .. Blocks - 1
    BY <2>1, WriteFacts
  <2> QED
    BY <2>1, <2>2 DEF NewIndirect, NeedsIndirect
<1>3. CASE InSingle(b)
  <2>1. Zone[f][single] = NO_ZONE
    BY <1>2, <1>3 DEF Indirect
  <2> QED
    BY <1>1, <1>2, <1>3, <2>1, NumberClaimed
<1>4. CASE ~InSingle(b)
  <2> DEFINE i == ind_ex(b)
  <2>1. i \in 0 .. nr_indirects - 1 /\ D # NO_ZONE /\ RdIndir(D, i) = NO_ZONE
    BY <1>2, <1>4, BlockKinds DEF NeedsDouble, Indirect
  <2>2. PICK p \in References : p = DoubleRef(f)
    BY SomeReferences
  <2>3. PICK q \in References : q = MiddleRef(f, i)
    BY <2>1, SomeReferences
  <2> HIDE DEF b, i
  <2>4. p.file = f /\ Holds(p) = D /\ Live(f) /\ Claim(p) = D
    <3>1. p.file = f /\ Holds(p) = D /\ Live(f)
      BY <1>2, <2>2 DEF DoubleRef, Holds, Live
    <3> QED
      BY <3>1, LiveClaims
  <2>5. D \in Zones /\ D \notin free /\ n \in Zones /\ D # n
    BY <2>1, <2>4 DEF IInv, Distinct, TypeOK
  <2>6. q.file = f /\ q.kind = "middle" /\ q.at = i /\ IsTable(q) /\ Parent(q) = p /\ Entry(q) = i
    BY <2>2, <2>3 DEF MiddleRef, IsTable, Parent, Entry
  <2>7. table \in [Zones -> [0 .. nr_indirects - 1 -> Numbers]]
    BY DEF IInv, TypeOK
  <2>8. table' = [Cleared(n) EXCEPT ![D][i] = n] /\ Zone' = Zone
    BY <1>1, <1>4 DEF i
  <2>9. /\ table'[D] = [table[D] EXCEPT ![i] = n] /\ table'[n] = NoZones
        /\ \A m \in Zones \ {D, n} : table'[m] = table[m]
    BY <2>5, <2>7, <2>8 DEF Cleared
  <2>10. Holds(q) = NO_ZONE /\ Holds(q)' = n
    <3>1. Holds(q) = RdIndir(D, i)
      BY <2>4, <2>6, HoldsThroughParent
    <3>2. Holds(p)' = D
      BY <2>2, <2>8 DEF Holds, DoubleRef
    <3>3. Holds(q)' = table'[D][i]
      BY <2>5, <2>6, <3>2, HoldsThroughParent
    <3> QED
      BY <2>1, <2>5, <2>7, <2>9, <3>1, <3>3
  <2>11. TypeOK'
    <3>1. table' \in [Zones -> [0 .. nr_indirects - 1 -> Numbers]]
      BY <2>1, <2>5, <2>7, <2>8 DEF Cleared, NoZones, Numbers
    <3> QED
      BY <1>1, <1>2, <2>8, <3>1 DEF IInv, TypeOK
  <2>12. Alone(f)
    BY <1>2, <2>8 DEF Alone
  <2>13. OwnTables(f)
    BY <2>4, <2>9 DEF OwnTables
  <2>14. Entered(q, n)
    BY <2>5, <2>9, <2>10 DEF Entered
  <2>15. \A r \in References : r.file = f /\ r.kind # "new" /\ r # q => Holds(r)' = Holds(r)
    BY <2>4, <2>5, <2>6, <2>8, <2>9, <2>14, EntryEntered DEF IInv
  <2> QED
    BY <1>1, <1>2, <2>6, <2>10, <2>11, <2>12, <2>13, <2>15, TableClaimed
<1> QED
  BY <1>3, <1>4

\* The zone of the data takes its place in the map.
LEMMA DataEntered ==
  ASSUME IInv, NEW f \in Files, pc[f] = "map", pc' = [pc EXCEPT ![f] = "store"],
         UNCHANGED <<Size, free, req, z, k>>, TypeOK', Alone(f), OwnTables(f),
         NEW q \in References, q = DataRef(f, BlockOf(f)), Holds(q)' = z[f],
         \A r \in References : r.file = f /\ r.kind # "new" /\ r # q => Holds(r)' = Holds(r)
  PROVE  IInv' /\ BlocksKeptBut(q)
<1>1. pc[f] \in Writing /\ pc'[f] = "store" /\ z'[f] = z[f]
  BY DEF Writing, IInv, TypeOK
<1>2. Live(f) /\ Live(f)'
  BY <1>1 DEF Live
<1>3. BlockOf(f) \in 0 .. Blocks - 1 /\ ReadMap(f, BlockOf(f)) = NO_ZONE /\ z[f] \in Zones
  <2>1. WritesBlock(f)
    BY DEF IInv, FileInv
  <2> QED
    BY <1>1, <2>1, WriteFacts DEF WritesBlock
<1>4. q.file = f /\ IsData(q) /\ CallOf(q) = BlockOf(f) /\ q.kind # "new" /\ Holds(q) = NO_ZONE
  BY <1>3, DataRefType, DataRefIsData DEF IsData
<1>5. \A r \in References : r.file # f => Claim(r)' = Claim(r)
  BY OtherFiles DEF Alone, IInv
<1>6. \A r \in References : r.file = f /\ r.kind # "new" /\ r # q => Claim(r)' = Claim(r)
  BY <1>2, LiveClaims
<1>7. Claim(q) = NO_ZONE /\ Claim(q)' = z[f]
  BY <1>2, <1>4, LiveClaims
<1>8. PICK p \in References : p = NewRef(f)
  BY SomeReferences
<1>9. p.kind = "new" /\ p.file = f /\ p # q
  BY <1>4, <1>8 DEF NewRef
<1>10. Claim(p) = z[f] /\ Claim(p)' = NO_ZONE
  BY <1>1, <1>2, <1>9, LiveClaims, NewHolds
<1>11. \A r \in References \ {p, q} : Claim(r)' = Claim(r)
  BY <1>5, <1>6, <1>8, NewHolds
<1>12. Distinct' /\ AllClaimed'
  BY <1>3, <1>7, <1>9, <1>10, <1>11, ZoneMoved DEF IInv
<1>13. BlockOf(f)' = BlockOf(f) /\ \A r \in References : r.file = f /\ IsData(r) /\ r # q => Claim(r)' = Claim(r)
  BY <1>6 DEF BlockOf, IsData
<1>14. \A r \in References : r.file = f /\ IsData(r) /\ CallOf(r) = BlockOf(f) => r = q
  BY CallOfData
<1>15. Inside(f)'
  BY <1>1, <1>4, <1>13, <1>14 DEF IInv, FileInv, Inside
<1>16. WritesBlock(f)'
  BY <1>1, <1>3, <1>7, <1>13, <1>14 DEF IInv, FileInv, WritesBlock
<1>17. Removal(f)' /\ pc'[f] # "panicked"
  BY <1>1 DEF IInv, FileInv, Removal
<1>18. BlocksKeptBut(q)
  BY <1>5, <1>13 DEF BlocksKeptBut
<1> QED
  BY <1>5, <1>12, <1>15, <1>16, <1>17, <1>18, StepDone DEF FileInv

LEMMA WriteMapKeeps == ASSUME IInv, NEW f \in Files, WriteMap(f) PROVE IInv' /\ BlocksKeptBut(DataRef(f, BlockOf(f)))
<1> DEFINE b == BlockOf(f)
<1>1. /\ pc[f] = "map" /\ pc' = [pc EXCEPT ![f] = "store"] /\ ~NeedsDouble(f) /\ ~NeedsIndirect(f)
      /\ UNCHANGED <<Size, free, req, z, k>> /\ data' = ClearBlock(z[f])
      /\ IF b < dzones THEN Zone' = [Zone EXCEPT ![f][b] = z[f]] /\ table' = table
         ELSE table' = [table EXCEPT ![Indirect(f, b)][Index(b)] = z[f]] /\ Zone' = Zone
  BY DEF WriteMap, To
<1>2. b \in 0 .. Blocks - 1 /\ z[f] \in Zones /\ Live(f)
  <2>1. WritesBlock(f) /\ pc[f] \in Writing
    BY <1>1 DEF IInv, FileInv, Writing
  <2> QED
    BY <1>1, <2>1, WriteFacts DEF WritesBlock
<1>3. PICK q \in References : q = DataRef(f, b)
  BY <1>2, DataRefType
<1>4. q.file = f
  BY <1>2, <1>3, DataRefType
<1>5. pc' \in [Files -> Stages] /\ data' \in [Zones -> [0 .. Blocksize - 1 -> Values \cup {0, OldByte}]]
  BY <1>1, <1>2 DEF IInv, TypeOK, Stages, ClearBlock, Zeroes
<1>6. /\ Zone \in [Files -> [0 .. double -> Zones \cup {NO_ZONE}]]
      /\ table \in [Zones -> [0 .. nr_indirects - 1 -> Numbers]]
  BY DEF IInv, TypeOK
<1>7. CASE b < dzones
  <2>1. q = [kind |-> "inode", file |-> f, at |-> b] /\ b \in 0 .. double
    BY <1>2, <1>3, <1>7 DEF DataRef, double
  <2>2. Zone' = [Zone EXCEPT ![f][b] = z[f]] /\ table' = table
    BY <1>1, <1>7
  <2> HIDE DEF b
  <2>3. Zone'[f] = [Zone[f] EXCEPT ![b] = z[f]] /\ Zone' \in [Files -> [0 .. double -> Zones \cup {NO_ZONE}]]
    BY <1>2, <1>6, <2>1, <2>2
  <2>4. TypeOK'
    BY <1>1, <1>5, <2>2, <2>3 DEF IInv, TypeOK
  <2>5. Alone(f) /\ OwnTables(f)
    BY <1>1, <2>2 DEF Alone, OwnTables, IInv, TypeOK
  <2>6. q.kind = "inode" /\ q.at = b /\ ~IsTable(q)
    <3>1. b # single /\ b # double
      BY <1>2, <1>7 DEF single, double
    <3> QED
      BY <2>1, <3>1 DEF IsTable
  <2>7. Holds(q)' = z[f]
    BY <1>6, <2>1, <2>3, <2>6, <1>4 DEF Holds
  <2>8. \A r \in References : r.file = f /\ r.kind # "new" /\ r # q => Holds(r)' = Holds(r)
    <3>1. Entered(q, z[f])
      BY <2>6, <2>7 DEF Entered
    <3> QED
      BY <1>2, <1>4, <2>2, <2>3, <2>6, <3>1, NumberEntered DEF IInv
  <2> QED
    BY <1>1, <1>3, <2>4, <2>5, <2>7, <2>8, DataEntered DEF b
<1>8. CASE ~(b < dzones)
  <2> DEFINE T == Indirect(f, b)
             i == Index(b)
  <2>1. /\ q.kind \in {"single", "double"} /\ Entry(q) = i /\ i \in 0 .. nr_indirects - 1
        /\ Parent(q) \in References /\ Parent(q).file = f /\ Holds(Parent(q)) = T
    <3>1. CASE InSingle(b)
      <4>1. q = [kind |-> "single", file |-> f, at |-> Excess(b)] /\ Excess(b) \in 0 .. nr_indirects - 1
        BY <1>2, <1>3, <1>8, <3>1, BlockKinds DEF DataRef
      <4>2. Parent(q) = SingleRef(f) /\ Entry(q) = Excess(b)
        BY <4>1 DEF Parent, Entry
      <4> QED
        BY <3>1, <4>1, <4>2, SomeReferences DEF Index, Indirect, SingleRef, Holds
    <3>2. CASE ~InSingle(b)
      <4>1. /\ q = [kind |-> "double", file |-> f, at |-> Excess2(b)]
            /\ ind_ex(b) \in 0 .. nr_indirects - 1 /\ ind_ex_rem(b) \in 0 .. nr_indirects - 1
        BY <1>2, <1>3, <1>8, <3>2, BlockKinds DEF DataRef
      <4>2. Parent(q) = MiddleRef(f, ind_ex(b)) /\ Entry(q) = ind_ex_rem(b)
        BY <4>1 DEF Parent, Entry, ind_ex, ind_ex_rem
      <4>3. Index(b) = ind_ex_rem(b) /\ Indirect(f, b) = RdIndir(Zone[f][double], ind_ex(b))
        BY <3>2 DEF Index, Indirect, ind_ex_rem
      <4>4. Holds(MiddleRef(f, ind_ex(b))) = RdIndir(Zone[f][double], ind_ex(b))
        BY DEF Holds, MiddleRef
      <4> QED
        BY <4>1, <4>2, <4>3, <4>4, SomeReferences DEF MiddleRef
    <3> QED
      BY <3>1, <3>2
  <2>2. T # NO_ZONE
    <3>1. b >= dzones
      <4> HIDE DEF b
      <4> QED
        BY <1>2, <1>8
    <3> QED
      BY <1>1, <3>1 DEF NeedsIndirect
  <2>3. table' = [table EXCEPT ![T][i] = z[f]] /\ Zone' = Zone
    BY <1>1, <1>8
  <2> HIDE DEF b, T, i
  <2>4. Claim(Parent(q)) = T
    BY <1>2, <2>1, LiveClaims
  <2>5. T \in Zones
    BY <2>1, <2>2, <2>4, ClaimType DEF IInv
  <2>6. table'[T] = [table[T] EXCEPT ![i] = z[f]] /\ \A m \in Zones \ {T} : table'[m] = table[m]
    BY <1>6, <2>3, <2>5
  <2>7. TypeOK'
    <3>1. table' \in [Zones -> [0 .. nr_indirects - 1 -> Numbers]]
      BY <1>2, <1>6, <2>1, <2>3, <2>5 DEF Numbers
    <3> QED
      BY <1>1, <1>5, <2>3, <3>1 DEF IInv, TypeOK
  <2>8. Alone(f)
    BY <1>1, <2>3 DEF Alone, IInv, TypeOK
  <2>9. OwnTables(f)
    BY <2>1, <2>4, <2>6 DEF OwnTables
  <2>10. Holds(Parent(q))' = T
    <3>1. CASE q.kind = "single"
      BY <2>1, <2>3, <3>1 DEF Parent, Holds, SingleRef
    <3>2. CASE q.kind = "double"
      <4>1. PICK d \in References : d = DoubleRef(f)
        BY SomeReferences
      <4>2. Parent(q).kind = "middle" /\ Parent(Parent(q)) = d /\ d # Parent(q)
        BY <1>4, <2>1, <3>2, <4>1 DEF Parent, MiddleRef, DoubleRef
      <4>3. d.file = f /\ Holds(d)' = Holds(d) /\ Claim(d) = Holds(d)
        <5>1. d.file = f /\ Holds(d)' = Holds(d)
          BY <2>3, <4>1 DEF DoubleRef, Holds
        <5> QED
          BY <1>2, <5>1, LiveClaims
      <4>4. Holds(d) # T
        BY <2>1, <2>4, <2>5, <4>2, <4>3 DEF IInv, Distinct
      <4> QED
        BY <2>1, <2>6, <4>2, <4>3, <4>4, HoldsThroughParent DEF RdIndir
    <3> QED
      BY <2>1, <3>1, <3>2
  <2>11. Holds(q)' = z[f]
    BY <1>6, <2>1, <2>5, <2>6, <2>10, HoldsThroughParent
  <2>12. \A r \in References : r.file = f /\ r.kind # "new" /\ r # q => Holds(r)' = Holds(r)
    <3>1. Entered(q, z[f])
      BY <2>1, <2>11 DEF Entered, IsTable
    <3> QED
      BY <1>2, <1>4, <2>1, <2>3, <2>5, <2>6, <3>1, EntryEntered DEF IInv
  <2> QED
    BY <1>1, <1>3, <2>7, <2>8, <2>9, <2>11, <2>12, DataEntered DEF b
<1> QED
  BY <1>7, <1>8
-----------------------------------------------------------------------------
(* Theorems *)

LEMMA Initially == Init => IInv
<1> SUFFICES ASSUME Init PROVE IInv
  OBVIOUS
<1>1. 0 \in 0 .. MaxSize /\ 0 \in 0 .. LastCall + 1
  BY Geometry
<1>2. TypeOK
  <2>1. req \in [Files -> Request]
    BY NoRequestType DEF Init
  <2> QED
    BY <1>1, <2>1 DEF Init, TypeOK, Request, Stages, NoTable, Numbers
<1>3. \A r \in References : Holds(r) = NO_ZONE
  <2>1. ASSUME NEW r \in References, r.kind = "inode" PROVE Holds(r) = NO_ZONE
    BY <2>1, ReferenceType DEF Init, Holds
  <2>2. ASSUME NEW r \in References, r.kind \in {"single", "middle", "double"}, Holds(Parent(r)) = NO_ZONE
        PROVE  Holds(r) = NO_ZONE
    BY <2>2, HoldsThroughParent DEF RdIndir
  <2>3. ASSUME NEW r \in References, r.kind \in {"single", "middle"} PROVE Holds(r) = NO_ZONE
    <3>1. Parent(r).kind = "inode"
      BY <2>3 DEF Parent, SingleRef, DoubleRef
    <3> QED
      BY <2>1, <2>2, <2>3, <3>1, ParentType
  <2>4. ASSUME NEW r \in References, r.kind = "double" PROVE Holds(r) = NO_ZONE
    <3>1. Parent(r).kind = "middle"
      BY <2>4 DEF Parent, MiddleRef
    <3> QED
      BY <2>2, <2>3, <2>4, <3>1, ParentType
  <2>5. ASSUME NEW r \in References, r.kind = "new" PROVE Holds(r) = NO_ZONE
    BY <2>5, ReferenceType DEF Init, Holds
  <2> QED
    BY <2>1, <2>3, <2>4, <2>5, ReferenceType
<1>4. Distinct /\ AllClaimed
  BY <1>3 DEF Init, Distinct, AllClaimed, Claim
<1>5. ASSUME NEW f \in Files PROVE FileInv(f)
  <2>1. Zone[f][0] = NO_ZONE
    BY DEF Init, double
  <2>2. pc[f] = "unused" /\ k[f] = 0
    BY DEF Init
  <2> QED
    BY <1>3, <2>1, <2>2 DEF FileInv, Inside, Claim, WritesBlock, Writing, Removal
<1> QED
  BY <1>2, <1>4, <1>5 DEF IInv

LEMMA StepKeeps == ASSUME IInv, OnlyRemoved, [Next]_vars PROVE IInv'
<1>1. ASSUME NEW f \in Files, Write(f) PROVE IInv'
  BY <1>1, WriteChunkKeeps, NewBlockKeeps, NoSpaceKeeps, NewDoubleKeeps, NewIndirectKeeps, NoIndirectKeeps,
     UndoKeeps, WriteMapKeeps, StoreKeeps DEF Write
<1>2. ASSUME UNCHANGED vars PROVE IInv'
  <2>1. /\ Zone' = Zone /\ Size' = Size /\ table' = table /\ data' = data /\ free' = free
        /\ pc' = pc /\ req' = req /\ z' = z /\ k' = k
    BY <1>2 DEF vars, inode, blocks
  <2>2. TypeOK'
    BY <2>1 DEF IInv, TypeOK
  <2>3. \A r \in References : Claim(r)' = Claim(r)
    BY <2>1, ClaimKept DEF TablesKept, IInv
  <2>4. Distinct' /\ AllClaimed'
    BY <2>1, <2>3, NothingClaimed DEF IInv
  <2>5. ASSUME NEW f \in Files PROVE FileInv(f)'
    <3>1. FileInv(f) /\ BlockOf(f)' = BlockOf(f)
      BY <2>1 DEF IInv, BlockOf
    <3>2. Inside(f)'
      BY <2>1, <2>3, <3>1 DEF FileInv, Inside
    <3>3. WritesBlock(f)'
      BY <2>1, <2>3, <3>1 DEF FileInv, WritesBlock
    <3> QED
      BY <2>1, <3>1, <3>2, <3>3 DEF FileInv, Removal
  <2> QED
    BY <2>2, <2>4, <2>5 DEF IInv
<1>3. ASSUME NEW f \in Files, \/ \E op \in {"remove", "truncate"} : Truncate(f, op)
                             \/ FreeZone(f) \/ EndTruncate(f) \/ NewInode(f)
      PROVE  IInv'
  BY <1>3, TruncateKeeps, FreeZoneKeeps, EndTruncateKeeps, NewInodeKeeps
<1> QED
  BY <1>1, <1>2, <1>3 DEF Next

LEMMA Invariance == ASSUME OnlyRemoved PROVE Spec => []IInv
<1>1. IInv /\ [Next]_vars => IInv'
  BY StepKeeps
<1> QED
  BY Initially, <1>1, PTL DEF Spec

\* The type invariant: positions and zone numbers keep their bounds.
THEOREM TypeCorrectness == ASSUME OnlyRemoved PROVE Spec => []TypeOK
<1>1. IInv => TypeOK
  BY DEF IInv
<1> QED
  BY <1>1, Invariance, PTL

LEMMA TargetIsClaim ==
  ASSUME NEW r \in References
  PROVE  Target(r) = IF Live(r.file) THEN Claim(r) ELSE NO_ZONE
BY DEF Target, Claim, Open, Holds

\* No zone is used twice, by one file or by two, and none that is used is free,
\* whatever steps of other files come between those of a write or a removal.
THEOREM ZonesNotShared == ASSUME OnlyRemoved PROVE Spec => []NoZoneShared
<1>1. IInv => NoZoneShared
  <2>1. SUFFICES ASSUME IInv, NEW r \in References, Target(r) # NO_ZONE
                 PROVE  Target(r) \notin free /\ \A s \in References : Target(s) = Target(r) => s = r
    BY DEF NoZoneShared
  <2>2. Target(r) = Claim(r)
    BY <2>1, TargetIsClaim
  <2>3. \A s \in References : Target(s) = Target(r) => Claim(s) = Claim(r)
    BY <2>1, <2>2, TargetIsClaim
  <2> QED
    BY <2>1, <2>2, <2>3 DEF IInv, Distinct
<1> QED
  BY <1>1, Invariance, PTL

\* No zone is lost, by a write that fails half way or by a removal: what no file
\* uses is free, or Truncate will free it.
THEOREM ZonesNotLost == ASSUME OnlyRemoved PROVE Spec => []NoZoneLost
<1>1. IInv => NoZoneLost
  <2>1. SUFFICES ASSUME IInv, NEW n \in Zones, n \notin free
                 PROVE  \/ \E r \in References : Target(r) = n
                        \/ \E f \in Files : pc[f] = "truncate" /\ n \in Remaining(f)
    BY DEF NoZoneLost
  <2>2. PICK r \in References : Claim(r) = n
    BY <2>1 DEF IInv, AllClaimed
  <2>3. CASE Live(r.file)
    BY <2>2, <2>3, TargetIsClaim
  <2>4. CASE ~Live(r.file)
    <3> DEFINE f == r.file
    <3>1. f \in Files /\ pc[f] = "truncate" /\ k[f] <= CallOf(r) /\ Holds(r) = n /\ n # NO_ZONE
      BY <2>1, <2>2, <2>4, ReferenceType DEF Claim, Open
    <3>2. r.kind # "new"
      BY <3>1, NewHolds
    <3>3. CallOf(r) \in 0 .. LastCall /\ r = RefOfCall(f, CallOf(r))
      BY <3>2, CallOfRef
    <3>4. ToFree(f, CallOf(r)) = n
      <4>1. CASE CallOf(r) < Blocks
        <5>1. IsData(r)
          BY <3>1, <3>3, <4>1, DataRefIsData, Geometry DEF RefOfCall
        <5>2. CallOf(r) * Blocksize < Size[f]
          BY <2>1, <2>2, <3>1, <5>1 DEF IInv, FileInv, Inside
        <5> QED
          BY <3>1, <3>3, <5>2, RefOfCallType
      <4>2. CASE ~(CallOf(r) < Blocks)
        BY <3>1, <3>3, <4>2, RefOfCallType
      <4> QED
        BY <4>1, <4>2
    <3>5. CallOf(r) \in k[f] .. LastCall
      <4>1. k[f] \in 0 .. LastCall + 1
        BY <2>1, <3>1 DEF IInv, TypeOK
      <4> QED
        BY <3>1, <3>3, <4>1, Geometry
    <3>6. n \in Remaining(f)
      BY <3>1, <3>4, <3>5 DEF Remaining, NextCalls
    <3> QED
      BY <3>1, <3>6
  <2> QED
    BY <2>3, <2>4
<1> QED
  BY <1>1, Invariance, PTL

\* RdIndir finds no illegal zone number and FreeZone no zone that is free.
THEOREM Safe == ASSUME OnlyRemoved PROVE Spec => []NeverPanics
<1>1. IInv => NeverPanics
  BY DEF IInv, FileInv, NeverPanics
<1> QED
  BY <1>1, Invariance, PTL
-----------------------------------------------------------------------------
(* What the files read as *)

\* Block 0, which holes are read from, is all zeroes.
EmptyBoot == BootByte = 0

\* The bytes of a file that has zones, or none, for them, though they are beyond its end.
ZeroesBeyond(f) == Live(f) => \A p \in 0 .. MaxSize - 1 : p >= Size[f] => ByteAt(f, p) = 0
Requested(f) == pc[f] \in Writing => req[f].val \in Values
RInv == IInv /\ \A f \in Files : ZeroesBeyond(f) /\ Requested(f)

\* A step makes f reach up to n at least and puts v at the positions in S; any other byte
\* of any file, written or not, remains.
Puts(f, n, S, v) ==
  \A g \in Files :
    /\ Live(g)' <=> Live(g)
    /\ Size'[g] = IF g = f /\ n > Size[g] THEN n ELSE Size[g]
    /\ Live(g) => \A p \in 0 .. MaxSize - 1 : ByteAt(g, p)' = IF g = f /\ p \in S THEN v ELSE ByteAt(g, p)
PutsNothing(f) == Puts(f, 0, {}, 0)

\* The zones that are read are those that are claimed.
ClaimsRead == \A f \in Files, b \in 0 .. Blocks - 1 : Live(f) => ReadMap(f, b) = Claim(DataRef(f, b))

LEMMA ClaimsAreRead == ClaimsRead /\ ClaimsRead'
<1>1. ClaimsRead
  BY DataRefType, LiveClaims DEF ClaimsRead
<1> QED
  BY <1>1, PTL

LEMMA Position ==
  ASSUME NEW p \in 0 .. MaxSize - 1
  PROVE  /\ p \div Blocksize \in 0 .. Blocks - 1 /\ p % Blocksize \in 0 .. Blocksize - 1
         /\ p = Blocksize * (p \div Blocksize) + (p % Blocksize)
<1>1. p \in Nat
  BY Geometry
<1> QED
  BY <1>1, PositionType, Division

\* A step that leaves the zones alone leaves the bytes alone.
LEMMA BytesStay ==
  ASSUME UNCHANGED <<Zone, table, data>>, NEW f, NEW p
  PROVE  ByteAt(f, p)' = ByteAt(f, p)
<1> DEFINE b == p \div Blocksize
<1>1. Indirect(f, b)' = Indirect(f, b)
  BY DEF Indirect, RdIndir
<1>2. ReadMap(f, b)' = ReadMap(f, b)
  BY <1>1 DEF ReadMap, RdIndir
<1> HIDE DEF b
<1> QED
  BY <1>2 DEF ByteAt, b

\* So does one that keeps the zone of the block and what is in it.
LEMMA BlockStays ==
  ASSUME NEW g \in Files, Live(g), Live(g)', NEW p \in 0 .. MaxSize - 1,
         NEW s \in References, s = DataRef(g, p \div Blocksize),
         Claim(s)' = Claim(s), Claim(s) # NO_ZONE => data'[Claim(s)] = data[Claim(s)]
  PROVE  ByteAt(g, p)' = ByteAt(g, p)
<1> DEFINE b == p \div Blocksize
<1>1. b \in 0 .. Blocks - 1
  BY Position
<1>2. ReadMap(g, b) = Claim(s) /\ ReadMap(g, b)' = Claim(s)
  BY <1>1, ClaimsAreRead DEF ClaimsRead
<1> HIDE DEF b
<1> QED
  BY <1>2 DEF ByteAt, b

\* One that changes the zone of q only, or the zone of r, is seen in the block of q only.
LEMMA OtherBytesStay ==
  ASSUME Distinct, NEW q \in References, BlocksKeptBut(q), NEW r \in References, IsData(r) => r = q,
         \A n \in Zones \ {Claim(r)} : data'[n] = data[n],
         NEW g \in Files, Live(g), Live(g)', NEW p \in 0 .. MaxSize - 1, DataRef(g, p \div Blocksize) # q
  PROVE  ByteAt(g, p)' = ByteAt(g, p)
<1>1. PICK s \in References : s = DataRef(g, p \div Blocksize) /\ IsData(s)
  BY Position, DataRefType, DataRefIsData
<1>2. s # q /\ s # r
  BY <1>1
<1>3. Claim(s)' = Claim(s)
  BY <1>1, <1>2 DEF BlocksKeptBut
<1>4. Claim(s) # NO_ZONE => data'[Claim(s)] = data[Claim(s)]
  BY <1>2 DEF Distinct
<1> QED
  BY <1>1, <1>3, <1>4, BlockStays

LEMMA ZeroesStay ==
  ASSUME RInv, NEW f \in Files, NEW n \in 0 .. MaxSize, NEW S, NEW v, Puts(f, n, S, v), S \subseteq 0 .. n - 1,
         NEW g \in Files
  PROVE  ZeroesBeyond(g)'
<1> SUFFICES ASSUME Live(g)', NEW p \in 0 .. MaxSize - 1, p >= Size'[g] PROVE ByteAt(g, p)' = 0
  BY DEF ZeroesBeyond
<1>1. Size[g] \in Nat /\ p \in Nat /\ n \in Nat
  BY Geometry DEF RInv, IInv, TypeOK
<1>2. Live(g) /\ p >= Size[g] /\ ~(g = f /\ p \in S)
  BY <1>1 DEF Puts
<1> QED
  BY <1>2 DEF Puts, RInv, ZeroesBeyond

LEMMA NothingPut ==
  ASSUME IInv, NEW f \in Files, \A g \in Files : Live(g)' <=> Live(g), Size' = Size,
         \A g \in Files, p \in 0 .. MaxSize - 1 : Live(g) => ByteAt(g, p)' = ByteAt(g, p)
  PROVE  PutsNothing(f)
<1>1. \A g \in Files : ~(0 > Size[g])
  BY Geometry DEF IInv, TypeOK
<1> QED
  BY <1>1 DEF PutsNothing, Puts

\* The stages in which a file is as it was.
LEMMA SameLives ==
  ASSUME TypeOK, NEW f \in Files, NEW s, pc' = [pc EXCEPT ![f] = s],
         s \in {"truncate", "gone"} <=> pc[f] \in {"truncate", "gone"}
  PROVE  \A g \in Files : Live(g)' <=> Live(g)
BY DEF TypeOK, Live

LEMMA QuietSteps ==
  ASSUME IInv, IInv', OnlyRemoved, NEW f \in Files,
         \/ \E c \in Chunks, v \in Values : WriteChunk(f, c, v)
         \/ NewBlock(f) \/ NoIndirect(f) \/ FreeZone(f) \/ EndTruncate(f) \/ NewInode(f)
  PROVE  PutsNothing(f)
<1>0. TypeOK /\ pc' \in [Files -> Stages]
  BY DEF IInv, TypeOK
<1>1. /\ Zone' = Zone /\ Size' = Size /\ table' = table /\ data' = data
  <2>1. CASE NewInode(f)
    <3>1. pc[f] = "unused" /\ Zone' = [Zone EXCEPT ![f][0] = NO_ZONE] /\ UNCHANGED <<Size, table, data>>
      BY <2>1 DEF NewInode, blocks, OnlyRemoved
    <3>2. Zone[f][0] = NO_ZONE /\ 0 \in 0 .. double
      BY <3>1 DEF IInv, FileInv, Removal, double
    <3>3. Zone[f] \in [0 .. double -> Zones \cup {NO_ZONE}]
      BY <1>0 DEF TypeOK
    <3>4. [Zone[f] EXCEPT ![0] = NO_ZONE] = Zone[f]
      BY <3>2, <3>3
    <3> QED
      BY <1>0, <3>1, <3>4 DEF TypeOK
  <2>2. CASE ~NewInode(f)
    BY <2>2 DEF WriteChunk, NewBlock, NoIndirect, FreeZone, EndTruncate, inode, blocks
  <2> QED
    BY <2>1, <2>2
<1>2. \A g \in Files : Live(g)' <=> Live(g)
  <2>1. CASE \E c \in Chunks, v \in Values : WriteChunk(f, c, v)
    <3>1. pc[f] = "idle" /\ \E s \in {"alloc", "panicked", "store"} : pc' = [pc EXCEPT ![f] = s]
      BY <2>1 DEF WriteChunk, To
    <3> QED
      BY <1>0, <3>1, SameLives
  <2>2. CASE NewBlock(f)
    BY <1>0, <2>2, SameLives DEF NewBlock, To
  <2>3. CASE NoIndirect(f)
    BY <1>0, <2>3, SameLives DEF NoIndirect, To
  <2>4. CASE FreeZone(f)
    <3>1. pc' = [pc EXCEPT ![f] = "panicked"] \/ pc' = pc
      BY <2>4 DEF FreeZone, To
    <3>2. pc'[f] # "panicked"
      BY DEF IInv, FileInv
    <3> QED
      BY <1>0, <3>1, <3>2 DEF TypeOK, Live
  <2>5. CASE EndTruncate(f)
    <3>1. pc[f] = "truncate" /\ pc' = [pc EXCEPT ![f] = "gone"]
      BY <2>5 DEF EndTruncate, To, IInv, FileInv, Removal
    <3> QED
      BY <1>0, <3>1, SameLives
  <2>6. CASE NewInode(f)
    BY <1>0, <2>6, SameLives DEF NewInode, To, OnlyRemoved
  <2> QED
    BY <2>1, <2>2, <2>3, <2>4, <2>5, <2>6
<1> QED
  BY <1>1, <1>2, BytesStay, NothingPut

\* A write that finds no zone for its block, or none for an indirect one.
LEMMA FailedSteps ==
  ASSUME IInv, NEW f \in Files, NoSpace(f) \/ Undo(f)
  PROVE  Puts(f, req[f].pos, {}, 0) /\ req[f].pos \in 0 .. MaxSize /\ Live(f)
<1>1. /\ Zone' = Zone /\ table' = table /\ data' = data /\ Grow(f, req[f].pos)
      /\ pc' = [pc EXCEPT ![f] = "idle"] /\ pc[f] \in {"alloc", "undo"}
  BY DEF NoSpace, Undo, End, To, blocks
<1>2. TypeOK /\ req[f].pos \in 0 .. MaxSize /\ Live(f)
  BY <1>1 DEF IInv, TypeOK, Live
<1>3. \A g \in Files : Live(g)' <=> Live(g)
  BY <1>1, <1>2, SameLives
<1>4. \A g \in Files : Size'[g] = IF g = f /\ req[f].pos > Size[g] THEN req[f].pos ELSE Size[g]
  BY <1>1, <1>2 DEF Grow, TypeOK
<1> QED
  BY <1>1, <1>2, <1>3, <1>4, BytesStay DEF Puts

LEMMA TableSteps ==
  ASSUME IInv, NEW f \in Files, NewDouble(f) \/ NewIndirect(f)
  PROVE  PutsNothing(f)
<1>1. pc' = pc /\ Size' = Size /\ data' = data
  BY DEF NewDouble, NewIndirect
<1>2. BlocksKept
  BY NewDoubleKeeps, NewIndirectKeeps
<1>3. \A g \in Files : Live(g)' <=> Live(g)
  BY <1>1 DEF Live
<1>4. ASSUME NEW g \in Files, NEW p \in 0 .. MaxSize - 1, Live(g) PROVE ByteAt(g, p)' = ByteAt(g, p)
  <2>1. PICK s \in References : s = DataRef(g, p \div Blocksize) /\ IsData(s)
    BY Position, DataRefType, DataRefIsData
  <2> QED
    BY <1>1, <1>2, <1>3, <1>4, <2>1, BlockStays DEF BlocksKept
<1> QED
  BY <1>1, <1>3, <1>4, NothingPut

\* A zone that a block gets reads as the hole that was there.
LEMMA WriteMapStep ==
  ASSUME IInv, IInv', EmptyBoot, NEW f \in Files, WriteMap(f)
  PROVE  PutsNothing(f)
<1>1. /\ pc[f] = "map" /\ pc' = [pc EXCEPT ![f] = "store"] /\ Size' = Size /\ req' = req /\ z' = z
      /\ data' = [data EXCEPT ![z[f]] = Zeroes]
  BY DEF WriteMap, To, ClearBlock
<1>2. TypeOK /\ Distinct /\ WritesBlock(f) /\ WritesBlock(f)' /\ pc[f] \in Writing /\ pc'[f] = "store"
  BY <1>1 DEF IInv, FileInv, Writing, TypeOK
<1>3. /\ Live(f) /\ BlockOf(f) \in 0 .. Blocks - 1 /\ ReadMap(f, BlockOf(f)) = NO_ZONE
      /\ z[f] \in Zones /\ BlockOf(f)' = BlockOf(f)
  BY <1>1, <1>2, WriteFacts DEF WritesBlock, BlockOf
<1>4. \A g \in Files : Live(g)' <=> Live(g)
  BY <1>1, <1>2, SameLives
<1>5. PICK q \in References : q = DataRef(f, BlockOf(f)) /\ IsData(q) /\ q.file = f /\ CallOf(q) = BlockOf(f)
  BY <1>3, DataRefType, DataRefIsData
<1>6. BlocksKeptBut(q)
  BY <1>5, WriteMapKeeps
<1>7. PICK r \in References : r = NewRef(f)
  BY SomeReferences
<1>8. Claim(r) = z[f] /\ ~IsData(r)
  <2>1. r.kind = "new" /\ r.file = f
    BY <1>7 DEF NewRef
  <2>2. Holds(r) = z[f]
    BY <1>1, <2>1, NewHolds
  <2> QED
    BY <1>3, <2>1, <2>2, LiveClaims DEF IsData
<1>9. /\ data'[z[f]] = Zeroes /\ \A n \in Zones \ {Claim(r)} : data'[n] = data[n]
  BY <1>1, <1>2, <1>3, <1>8 DEF TypeOK
<1>10. ASSUME NEW g \in Files, NEW p \in 0 .. MaxSize - 1, Live(g) PROVE ByteAt(g, p)' = ByteAt(g, p)
  <2> DEFINE b == p \div Blocksize
             i == p % Blocksize
  <2>1. b \in 0 .. Blocks - 1 /\ i \in 0 .. Blocksize - 1
    BY Position
  <2>2. CASE DataRef(g, b) # q
    BY <1>2, <1>4, <1>6, <1>8, <1>9, <1>10, <2>2, OtherBytesStay
  <2>3. CASE DataRef(g, b) = q
    <3>1. g = f /\ b = BlockOf(f)
      BY <1>5, <2>1, <2>3, DataRefType
    <3>2. ReadMap(f, b) = NO_ZONE
      BY <1>3, <3>1
    <3>3. ReadMap(f, b)' = z[f]
      <4>1. Claim(q)' = z[f]
        BY <1>1, <1>2, <1>3, <1>5 DEF WritesBlock, Writing
      <4>2. ReadMap(g, b)' = Claim(q)'
        BY <1>4, <1>10, <2>1, <2>3, ClaimsAreRead DEF ClaimsRead
      <4> QED
        BY <3>1, <4>1, <4>2
    <3>4. z[f] # NO_ZONE /\ data'[z[f]][i] = 0
      BY <1>3, <1>9, <2>1 DEF Zeroes
    <3> HIDE DEF b, i
    <3>5. ByteAt(f, p) = 0 /\ ByteAt(f, p)' = 0
      BY <3>2, <3>3, <3>4 DEF ByteAt, EmptyBoot, b, i
    <3> QED
      BY <3>1, <3>5
  <2> QED
    BY <2>2, <2>3
<1> QED
  BY <1>1, <1>4, <1>10, NothingPut

\* In a block, the positions of a chunk are those from its offset on.
LEMMA InChunk ==
  ASSUME NEW n \in Nat \ {0}, NEW pos \in Nat, NEW len \in 1 .. n, (pos % n) + len <= n, NEW p \in Nat
  PROVE  /\ p \in pos .. (pos + len) - 1 <=>
              p \div n = pos \div n /\ p % n \in (pos % n) .. ((pos % n) + len) - 1
         /\ p \div n = pos \div n => (p >= pos <=> p % n >= pos % n)
<1> DEFINE a == pos \div n
           b == p \div n
<1>1. /\ a \in Nat /\ pos % n \in 0 .. n - 1 /\ pos = n * a + (pos % n)
      /\ b \in Nat /\ p % n \in 0 .. n - 1 /\ p = n * b + (p % n)
  BY Division
<1>2. b = a \/ n * b + n <= n * a \/ n * a + n <= n * b
  <2> HIDE DEF a, b
  <2>1. a < b => n * (a + 1) <= n * b
    <3>1. \A x, y \in Nat : x <= y => n * x <= n * y
      OBVIOUS
    <3> QED
      BY <1>1, <3>1
  <2>2. b < a => n * (b + 1) <= n * a
    <3>1. \A x, y \in Nat : x <= y => n * x <= n * y
      OBVIOUS
    <3> QED
      BY <1>1, <3>1
  <2>3. n * (a + 1) = n * a + n /\ n * (b + 1) = n * b + n
    BY <1>1
  <2>4. n * a \in Int /\ n * b \in Int
    BY <1>1
  <2> QED
    BY <1>1, <2>1, <2>2, <2>3, <2>4
<1>3. n * a \in Int /\ n * b \in Int
  BY <1>1
<1> DEFINE na == n * a
           nb == n * b
           i == pos % n
           j == p % n
<1>4. /\ na \in Int /\ nb \in Int /\ i \in 0 .. n - 1 /\ j \in 0 .. n - 1 /\ pos = na + i /\ p = nb + j
      /\ b = a \/ nb + n <= na \/ na + n <= nb
      /\ b = a => nb = na
  BY <1>1, <1>2, <1>3
<1> HIDE DEF na, nb, a, b, i, j
<1>5. /\ p \in pos .. (pos + len) - 1 <=> b = a /\ j \in i .. (i + len) - 1
      /\ b = a => (p >= pos <=> j >= i)
  <2>1. i + len <= n
    BY DEF i
  <2>2. b # a => ~(p \in pos .. (pos + len) - 1)
    BY <1>4, <2>1
  <2>3. b = a => (p \in pos .. (pos + len) - 1 <=> j \in i .. (i + len) - 1)
    BY <1>4, <2>1
  <2>4. b = a => (p >= pos <=> j >= i)
    BY <1>4
  <2> QED
    BY <2>2, <2>3, <2>4
<1> QED
  BY <1>5 DEF a, b, i, j

LEMMA StoreStep ==
  ASSUME RInv, NEW f \in Files, Store(f)
  PROVE  /\ Puts(f, req[f].pos + req[f].len, req[f].pos .. (req[f].pos + req[f].len) - 1, req[f].val)
         /\ Live(f)
<1> DEFINE pos == req[f].pos
           len == req[f].len
           chunk == pos .. (pos + len) - 1
           old == IF StartsBlock(f) THEN Zeroes ELSE data[z[f]]
           new == [i \in 0 .. Blocksize - 1 |->
                     IF i \in (pos % Blocksize) .. ((pos % Blocksize) + len) - 1 THEN req[f].val ELSE old[i]]
<1>1. /\ pc[f] = "store" /\ pc' = [pc EXCEPT ![f] = "idle"] /\ Zone' = Zone
      /\ Grow(f, pos + len) /\ data' = [data EXCEPT ![z[f]] = new]
  BY DEF Store, End, To
<1>2. IInv /\ TypeOK /\ Distinct /\ WritesBlock(f) /\ pc[f] \in Writing
  BY <1>1 DEF RInv, IInv, FileInv, Writing
<1>3. /\ Live(f) /\ BlockOf(f) \in 0 .. Blocks - 1 /\ ReadMap(f, BlockOf(f)) = z[f] /\ z[f] \in Zones
      /\ pos \in 0 .. MaxSize - 1 /\ len \in 1 .. Blocksize /\ (pos % Blocksize) + len <= Blocksize
      /\ pos + len \in 0 .. MaxSize
  BY <1>1, <1>2, WriteFacts DEF WritesBlock
<1>4. \A g \in Files : Live(g)' <=> Live(g)
  BY <1>1, <1>2, SameLives
<1>5. \A g \in Files : Size'[g] = IF g = f /\ pos + len > Size[g] THEN pos + len ELSE Size[g]
  BY <1>1, <1>2 DEF Grow, TypeOK
<1>6. PICK q \in References : q = DataRef(f, BlockOf(f)) /\ IsData(q) /\ q.file = f /\ CallOf(q) = BlockOf(f)
  BY <1>3, DataRefType, DataRefIsData
<1>7. Claim(q) = z[f] /\ Claim(q)' = z[f] /\ BlocksKeptBut(q)
  <2>1. Claim(q) = z[f]
    BY <1>3, <1>6, ClaimsAreRead DEF ClaimsRead
  <2>2. BlocksKept
    BY <1>2, StoreKeeps
  <2> QED
    BY <1>6, <2>1, <2>2 DEF BlocksKept, BlocksKeptBut
<1>8. data'[z[f]] = new /\ \A n \in Zones \ {Claim(q)} : data'[n] = data[n]
  <2> HIDE DEF new
  <2> QED
    BY <1>1, <1>2, <1>3, <1>7 DEF TypeOK
<1>9. ASSUME NEW g \in Files, NEW p \in 0 .. MaxSize - 1, Live(g)
      PROVE  ByteAt(g, p)' = IF g = f /\ p \in chunk THEN req[f].val ELSE ByteAt(g, p)
  <2> DEFINE b == p \div Blocksize
             j == p % Blocksize
             i == pos % Blocksize
  <2>1. b \in 0 .. Blocks - 1 /\ j \in 0 .. Blocksize - 1 /\ p \in Nat /\ pos \in Nat /\ i \in 0 .. Blocksize - 1
    <3>1. b \in 0 .. Blocks - 1 /\ j \in 0 .. Blocksize - 1
      BY Position
    <3>2. p \in Nat /\ pos \in Nat
      BY <1>3, Geometry
    <3> HIDE DEF pos
    <3>3. i \in 0 .. Blocksize - 1
      BY <3>2, Division
    <3> QED
      BY <3>1, <3>2, <3>3
  <2>2. /\ p \in chunk <=> b = BlockOf(f) /\ j \in i .. (i + len) - 1
        /\ b = BlockOf(f) => (p >= pos <=> j >= i)
    BY <1>3, <2>1, InChunk DEF BlockOf
  <2> HIDE DEF chunk, new, b, j, i
  <2>3. CASE DataRef(g, b) # q
    <3>1. ~(g = f /\ b = BlockOf(f))
      BY <1>6, <2>3
    <3>2. ByteAt(g, p)' = ByteAt(g, p)
      BY <1>2, <1>4, <1>7, <1>8, <1>9, <2>3, OtherBytesStay DEF b
    <3> QED
      BY <2>2, <3>1, <3>2
  <2>4. CASE DataRef(g, b) = q
    <3>1. g = f /\ b = BlockOf(f)
      BY <1>6, <2>1, <2>4, DataRefType
    <3>2. ReadMap(g, b) = z[f] /\ ReadMap(g, b)' = z[f]
      BY <1>4, <1>7, <1>9, <2>1, <2>4, ClaimsAreRead DEF ClaimsRead
    <3>3. ByteAt(g, p) = data[z[f]][j] /\ ByteAt(g, p)' = new[j]
      <4>1. z[f] # NO_ZONE
        BY <1>3
      <4> QED
        BY <1>8, <3>2, <4>1 DEF ByteAt, b, j
    <3>4. new[j] = IF j \in i .. (i + len) - 1 THEN req[f].val ELSE old[j]
      BY <2>1 DEF new, i
    <3>5. old[j] = data[z[f]][j]
      <4>1. CASE StartsBlock(f)
        <5>1. pos >= Size[f] /\ i = 0 /\ Size[f] \in Nat
          BY <1>2, <4>1, Geometry DEF StartsBlock, i, TypeOK
        <5>2. p >= Size[f]
          BY <2>1, <2>2, <3>1, <5>1
        <5>3. ByteAt(g, p) = 0
          BY <1>9, <3>1, <5>2 DEF RInv, ZeroesBeyond
        <5> QED
          BY <2>1, <3>3, <4>1, <5>3 DEF Zeroes
      <4> QED
        BY <4>1
    <3> QED
      BY <2>2, <3>1, <3>3, <3>4, <3>5
  <2> QED
    BY <2>3, <2>4
<1> QED
  BY <1>3, <1>4, <1>5, <1>9 DEF Puts

\* Each request is one with a value that is written.
LEMMA RequestsStay ==
  ASSUME RInv, NEW f \in Files,
         \/ Write(f) \/ \E op \in {"remove", "truncate"} : Truncate(f, op)
         \/ FreeZone(f) \/ EndTruncate(f) \/ NewInode(f)
  PROVE  \A g \in Files : Requested(g)'
<1> SUFFICES ASSUME NEW g \in Files, pc'[g] \in Writing PROVE req'[g].val \in Values
  BY DEF Requested
<1>1. pc \in [Files -> Stages] /\ (pc[g] \in Writing => req[g].val \in Values)
      /\ DOMAIN req = Files
  BY DEF RInv, IInv, TypeOK, Requested
<1>2. CASE \E c \in Chunks, v \in Values : WriteChunk(f, c, v)
  <2>1. PICK c \in Chunks, v \in Values : WriteChunk(f, c, v)
    BY <1>2
  <2>2. /\ \E s \in {"alloc", "panicked", "store"} : pc' = [pc EXCEPT ![f] = s]
        /\ req' = [req EXCEPT ![f] = [op |-> "write", pos |-> c.pos, len |-> c.len, val |-> v]]
    BY <2>1 DEF WriteChunk, To
  <2>3. g = f => req'[g].val = v
    BY <1>1, <2>2
  <2>4. g # f => req'[g] = req[g] /\ pc'[g] = pc[g]
    BY <1>1, <2>2
  <2> QED
    BY <1>1, <2>3, <2>4
<1>3. CASE NewBlock(f) \/ NewDouble(f) \/ NewIndirect(f) \/ NoIndirect(f) \/ WriteMap(f)
  <2>1. pc[f] \in Writing /\ req' = req /\ \E s \in Stages : pc' = [pc EXCEPT ![f] = s]
    <3>1. CASE NewDouble(f) \/ NewIndirect(f)
      <4>1. pc' = [pc EXCEPT ![f] = pc[f]] /\ pc[f] \in Stages
        BY <1>1, <3>1 DEF NewDouble, NewIndirect
      <4> QED
        BY <3>1, <4>1 DEF NewDouble, NewIndirect, Writing
    <3>2. CASE NewBlock(f) \/ NoIndirect(f) \/ WriteMap(f)
      BY <3>2 DEF NewBlock, NoIndirect, WriteMap, To, Writing, Stages
    <3> QED
      BY <1>3, <3>1, <3>2
  <2> QED
    BY <1>1, <2>1
<1>4. CASE NoSpace(f) \/ Undo(f) \/ Store(f)
  <2>1. pc' = [pc EXCEPT ![f] = "idle"] /\ req' = [req EXCEPT ![f] = NoRequest]
    BY <1>4 DEF NoSpace, Undo, Store, End, To
  <2> QED
    BY <1>1, <2>1 DEF Writing
<1>5. CASE \E op \in {"remove", "truncate"} : Truncate(f, op)
  <2>1. pc' = [pc EXCEPT ![f] = "truncate"] /\ \A h \in Files \ {f} : req'[h] = req[h]
    BY <1>1, <1>5 DEF Truncate, To
  <2> QED
    BY <1>1, <2>1 DEF Writing
<1>6. CASE FreeZone(f) \/ EndTruncate(f) \/ NewInode(f)
  <2>1. /\ \A h \in Files \ {f} : req'[h] = req[h] /\ pc'[h] = pc[h]
        /\ pc'[f] \notin Writing
    BY <1>1, <1>6 DEF FreeZone, EndTruncate, NewInode, To, Writing
  <2> QED
    BY <1>1, <2>1
<1> QED
  BY <1>2, <1>3, <1>4, <1>5, <1>6 DEF Write
-----------------------------------------------------------------------------
(* The steps of the abstract files *)

LEMMA SizeOf ==
  ASSUME NEW b, NEW n \in 0 .. MaxSize, DOMAIN b = 0 .. n - 1
  PROVE  A!Size(b) = n
<1>1. ASSUME NEW m \in 0 .. MaxSize, DOMAIN b = 0 .. m - 1 PROVE m = n
  <2>1. m \in Nat /\ n \in Nat
    BY Geometry
  <2>2. m < n => m \in 0 .. n - 1 /\ m \notin 0 .. m - 1
    BY <2>1
  <2>3. n < m => n \in 0 .. m - 1 /\ n \notin 0 .. n - 1
    BY <2>1
  <2> QED
    BY <1>1, <2>1, <2>2, <2>3
<1> QED
  BY <1>1 DEF A!Size

LEMMA ContentsAre ==
  ASSUME NEW g \in Files
  PROVE  /\ ContentsOfFiles[g] = IF Live(g) THEN [p \in 0 .. Size[g] - 1 |-> ByteAt(g, p)] ELSE A!Empty
         /\ ContentsOfFiles'[g] = IF Live(g)' THEN [p \in 0 .. Size'[g] - 1 |-> ByteAt(g, p)'] ELSE A!Empty
BY DEF ContentsOfFiles, Contents, A!Empty

\* What a file is after a step that puts something into it.
LEMMA PutsBytes ==
  ASSUME RInv, NEW f \in Files, NEW n \in 0 .. MaxSize, NEW S, NEW v, Puts(f, n, S, v), Live(f), NEW b,
         b = ContentsOfFiles[f]
  PROVE  ContentsOfFiles'[f] = [i \in DOMAIN A!Extended(b, n) |-> IF i \in S THEN v ELSE A!Extended(b, n)[i]]
<1>1. /\ Size[f] \in 0 .. MaxSize /\ MaxSize \in Nat /\ Live(f)'
      /\ Size'[f] = IF n > Size[f] THEN n ELSE Size[f]
      /\ \A p \in 0 .. MaxSize - 1 : ByteAt(f, p)' = IF p \in S THEN v ELSE ByteAt(f, p)
  BY Geometry DEF RInv, IInv, TypeOK, Puts
<1>2. b = [p \in 0 .. Size[f] - 1 |-> ByteAt(f, p)]
  BY ContentsAre
<1>3. DOMAIN b = 0 .. Size[f] - 1 /\ \A p \in 0 .. Size[f] - 1 : b[p] = ByteAt(f, p)
  BY <1>2
<1>4. A!Size(b) = Size[f]
  BY <1>1, <1>3, SizeOf
<1>5. A!Larger(A!Size(b), n) = Size'[f]
  BY <1>1, <1>4 DEF A!Larger
<1>6. A!Extended(b, n) = [i \in 0 .. Size'[f] - 1 |-> IF i \in DOMAIN b THEN b[i] ELSE 0]
  BY <1>5 DEF A!Extended
<1>7. ContentsOfFiles'[f] = [p \in 0 .. Size'[f] - 1 |-> ByteAt(f, p)']
  BY <1>1, ContentsAre
<1>8. ASSUME NEW p \in 0 .. Size'[f] - 1
      PROVE  ByteAt(f, p)' = IF p \in S THEN v ELSE A!Extended(b, n)[p]
  <2>1. p \in 0 .. MaxSize - 1 /\ p \in Nat
    BY <1>1
  <2>2. A!Extended(b, n)[p] = IF p \in 0 .. Size[f] - 1 THEN ByteAt(f, p) ELSE 0
    BY <1>3, <1>6
  <2>3. p \notin 0 .. Size[f] - 1 => ByteAt(f, p) = 0
    BY <1>1, <2>1 DEF RInv, ZeroesBeyond
  <2> QED
    BY <1>1, <2>1, <2>2, <2>3
<1>9. DOMAIN A!Extended(b, n) = 0 .. Size'[f] - 1
  BY <1>6
<1> QED
  BY <1>7, <1>8, <1>9

LEMMA OthersKeepBytes ==
  ASSUME NEW f \in Files, NEW n, NEW S, NEW v, Puts(f, n, S, v), RInv,
         NEW g \in Files, g # f \/ ~Live(g)
  PROVE  ContentsOfFiles'[g] = ContentsOfFiles[g]
<1>1. CASE Live(g)
  <2>1. /\ Live(g)' /\ Size'[g] = Size[g] /\ g # f /\ Size[g] \in 0 .. MaxSize /\ MaxSize \in Nat
    BY <1>1, Geometry DEF Puts, RInv, IInv, TypeOK
  <2>2. \A p \in 0 .. MaxSize - 1 : ByteAt(g, p)' = ByteAt(g, p)
    BY <1>1, <2>1 DEF Puts
  <2>3. \A p \in 0 .. Size[g] - 1 : ByteAt(g, p)' = ByteAt(g, p)
    BY <2>1, <2>2
  <2> QED
    BY <1>1, <2>1, <2>3, ContentsAre
<1>2. CASE ~Live(g)
  BY <1>2, ContentsAre DEF Puts
<1> QED
  BY <1>1, <1>2

\* A step that puts nothing anywhere is one of no file.
LEMMA QuietMaps ==
  ASSUME RInv, NEW f \in Files, PutsNothing(f)
  PROVE  ContentsOfFiles' = ContentsOfFiles
<1>1. ASSUME NEW g \in Files PROVE ContentsOfFiles'[g] = ContentsOfFiles[g]
  <2>1. CASE Live(g)
    <3>1. /\ Live(g)' /\ Size'[g] = Size[g] /\ Size[g] \in 0 .. MaxSize /\ MaxSize \in Nat
      BY <2>1, Geometry DEF PutsNothing, Puts, RInv, IInv, TypeOK
    <3>2. \A p \in 0 .. MaxSize - 1 : ByteAt(g, p)' = ByteAt(g, p)
      BY <2>1 DEF PutsNothing, Puts
    <3>3. \A p \in 0 .. Size[g] - 1 : ByteAt(g, p)' = ByteAt(g, p)
      BY <3>1, <3>2
    <3> QED
      BY <2>1, <3>1, <3>3, ContentsAre
  <2>2. CASE ~Live(g)
    BY <2>2, OthersKeepBytes DEF PutsNothing
  <2> QED
    BY <2>1, <2>2
<1> QED
  BY <1>1 DEF ContentsOfFiles

LEMMA WriteStep ==
  ASSUME RInv, NEW f \in Files, Store(f) \/ NoSpace(f) \/ Undo(f)
  PROVE  /\ \A g \in Files : ZeroesBeyond(g)'
         /\ \/ \E pos \in 0 .. MaxSize, len \in 1 .. Blocksize, v \in Values :
                 pos + len <= MaxSize /\ A!Write(f, pos, len, v)
            \/ \E pos \in 0 .. MaxSize : A!FailedWrite(f, pos)
<1> DEFINE b == ContentsOfFiles[f]
<1>1. IInv /\ ContentsOfFiles = [g \in Files |-> ContentsOfFiles[g]]
      /\ ContentsOfFiles' = [g \in Files |-> ContentsOfFiles'[g]]
  BY DEF RInv, ContentsOfFiles
<1>2. CASE Store(f)
  <2>1. PICK pos \in 0 .. MaxSize - 1, len \in 1 .. Blocksize, v \in Values :
          pos = req[f].pos /\ len = req[f].len /\ v = req[f].val /\ pos + len \in 0 .. MaxSize
    <3>1. pc[f] = "store" /\ pc[f] \in Writing
      BY <1>2 DEF Store, Writing
    <3> QED
      BY <1>1, <3>1, WriteFacts DEF RInv, Requested
  <2>2. Puts(f, pos + len, pos .. (pos + len) - 1, v) /\ Live(f)
    BY <1>2, <2>1, StoreStep
  <2>3. pos .. (pos + len) - 1 \subseteq 0 .. (pos + len) - 1 /\ pos \in 0 .. MaxSize /\ pos + len <= MaxSize
    BY <2>1, Geometry
  <2>4. \A g \in Files : ZeroesBeyond(g)'
    BY <2>1, <2>2, <2>3, ZeroesStay
  <2>5. ContentsOfFiles'[f] = [i \in DOMAIN A!Extended(b, pos + len) |->
                                 IF i \in pos .. (pos + len) - 1 THEN v ELSE A!Extended(b, pos + len)[i]]
    BY <2>1, <2>2, PutsBytes
  <2>6. \A g \in Files \ {f} : ContentsOfFiles'[g] = ContentsOfFiles[g]
    BY <2>2, OthersKeepBytes
  <2> HIDE DEF b
  <2>7. ContentsOfFiles' = [ContentsOfFiles EXCEPT ![f] =
                              [i \in DOMAIN A!Extended(b, pos + len) |->
                                 IF i \in pos .. (pos + len) - 1 THEN v ELSE A!Extended(b, pos + len)[i]]]
    BY <1>1, <2>5, <2>6
  <2>8. A!Write(f, pos, len, v)
    BY <2>7 DEF A!Write, b
  <2> QED
    BY <2>3, <2>4, <2>8
<1>3. CASE NoSpace(f) \/ Undo(f)
  <2>1. PICK pos \in 0 .. MaxSize : pos = req[f].pos /\ Puts(f, pos, {}, 0) /\ Live(f)
    BY <1>1, <1>3, FailedSteps
  <2>2. \A g \in Files : ZeroesBeyond(g)'
    BY <2>1, ZeroesStay
  <2>3. ContentsOfFiles'[f] = A!Extended(b, pos)
    <3>1. ContentsOfFiles'[f] = [i \in DOMAIN A!Extended(b, pos) |-> IF i \in {} THEN 0 ELSE A!Extended(b, pos)[i]]
      BY <2>1, PutsBytes
    <3>2. ContentsOfFiles'[f] = [i \in DOMAIN A!Extended(b, pos) |-> A!Extended(b, pos)[i]]
      BY <3>1
    <3> QED
      BY <3>2 DEF A!Extended
  <2>4. \A g \in Files \ {f} : ContentsOfFiles'[g] = ContentsOfFiles[g]
    BY <2>1, OthersKeepBytes
  <2> HIDE DEF b
  <2>5. ContentsOfFiles' = [ContentsOfFiles EXCEPT ![f] = A!Extended(b, pos)]
    BY <1>1, <2>3, <2>4
  <2>6. A!FailedWrite(f, pos)
    BY <2>5 DEF A!FailedWrite, b
  <2> QED
    BY <2>2, <2>6
<1> QED
  BY <1>2, <1>3

\* A file is gone as soon as its removal begins.
LEMMA RemoveStep ==
  ASSUME RInv, OnlyRemoved, NEW f \in Files, NEW op \in {"remove", "truncate"}, Truncate(f, op)
  PROVE  (\A g \in Files : ZeroesBeyond(g)') /\ A!Remove(f)
<1>1. pc[f] = "idle" /\ pc' = [pc EXCEPT ![f] = "truncate"] /\ UNCHANGED <<Zone, Size, table, data>>
  BY DEF Truncate, To, inode, blocks
<1>2. ~Live(f)' /\ \A g \in Files \ {f} : Live(g)' <=> Live(g)
  BY <1>1 DEF Live, RInv, IInv, TypeOK
<1>3. \A g \in Files, p \in 0 .. MaxSize - 1 : ByteAt(g, p)' = ByteAt(g, p)
  BY <1>1, BytesStay
<1>4. \A g \in Files : ZeroesBeyond(g)'
  BY <1>1, <1>2, <1>3 DEF RInv, ZeroesBeyond
<1>5. ASSUME NEW g \in Files, g # f PROVE ContentsOfFiles'[g] = ContentsOfFiles[g]
  <2>1. Size[g] \in 0 .. MaxSize /\ MaxSize \in Nat
    BY Geometry DEF RInv, IInv, TypeOK
  <2>2. \A p \in 0 .. Size[g] - 1 : ByteAt(g, p)' = ByteAt(g, p)
    BY <1>3, <2>1
  <2>3. (Live(g)' <=> Live(g)) /\ Size'[g] = Size[g]
    BY <1>1, <1>2, <1>5
  <2>4. CASE Live(g)
    BY <2>2, <2>3, <2>4, ContentsAre
  <2>5. CASE ~Live(g)
    BY <2>3, <2>5, ContentsAre
  <2> QED
    BY <2>4, <2>5
<1>6. ContentsOfFiles'[f] = A!Empty
  BY <1>2, ContentsAre
<1>7. ContentsOfFiles' = [ContentsOfFiles EXCEPT ![f] = A!Empty]
  BY <1>5, <1>6 DEF ContentsOfFiles
<1> QED
  BY <1>4, <1>7 DEF A!Remove

LEMMA FilesInitially == ASSUME EmptyBoot, Init PROVE RInv /\ A!Init
<1>1. IInv
  BY Initially
<1>2. ASSUME NEW f \in Files, NEW p \in 0 .. MaxSize - 1 PROVE ByteAt(f, p) = 0
  <2> DEFINE b == p \div Blocksize
  <2>1. b \in 0 .. Blocks - 1
    BY Position
  <2>2. \A r \in References : Claim(r) = NO_ZONE
    BY <1>1 DEF IInv, Distinct, Init
  <2>3. Live(f)
    BY DEF Init, Live
  <2>4. ReadMap(f, b) = NO_ZONE
    BY <2>1, <2>2, <2>3, ClaimsAreRead, DataRefType DEF ClaimsRead
  <2> HIDE DEF b
  <2> QED
    BY <2>4 DEF ByteAt, EmptyBoot, b
<1>3. \A f \in Files : ZeroesBeyond(f) /\ Requested(f)
  BY <1>2 DEF ZeroesBeyond, Requested, Init, Writing
<1>4. ASSUME NEW f \in Files PROVE ContentsOfFiles[f] = A!Empty
  <2>1. Live(f) /\ Size[f] = 0
    BY DEF Init, Live
  <2>2. 0 .. 0 - 1 = 0 .. -1 /\ 0 .. -1 = {}
    OBVIOUS
  <2> QED
    BY <2>1, <2>2, ContentsAre DEF A!Empty
<1>5. A!Init
  BY <1>4 DEF A!Init, ContentsOfFiles
<1> QED
  BY <1>1, <1>3, <1>5 DEF RInv

LEMMA FileSteps ==
  ASSUME OnlyRemoved, EmptyBoot, RInv, [Next]_vars
  PROVE  RInv' /\ [A!Next]_ContentsOfFiles
<1>1. IInv'
  BY StepKeeps DEF RInv
<1>2. CASE UNCHANGED vars
  <2>1. Zone' = Zone /\ Size' = Size /\ table' = table /\ data' = data /\ pc' = pc /\ req' = req
    BY <1>2 DEF vars, inode, blocks
  <2>2. \A g \in Files : (Live(g)' <=> Live(g)) /\ \A p \in 0 .. MaxSize - 1 : ByteAt(g, p)' = ByteAt(g, p)
    BY <2>1, BytesStay DEF Live
  <2>3. \A g \in Files : ZeroesBeyond(g)' /\ Requested(g)'
    BY <2>1, <2>2 DEF RInv, ZeroesBeyond, Requested
  <2>4. \A f \in Files : PutsNothing(f)
    BY <2>1, <2>2, NothingPut DEF RInv
  <2>5. ContentsOfFiles' = ContentsOfFiles
    BY <2>4, QuietMaps DEF ContentsOfFiles
  <2> QED
    BY <1>1, <2>3, <2>5 DEF RInv
<1>3. ASSUME NEW f \in Files,
             \/ Write(f) \/ \E op \in {"remove", "truncate"} : Truncate(f, op)
             \/ FreeZone(f) \/ EndTruncate(f) \/ NewInode(f)
      PROVE  RInv' /\ [A!Next]_ContentsOfFiles
  <2>1. \A g \in Files : Requested(g)'
    BY <1>3, RequestsStay
  <2>2. CASE Store(f) \/ NoSpace(f) \/ Undo(f)
    <3>1. \A g \in Files : ZeroesBeyond(g)'
      BY <2>2, WriteStep
    <3>2. [A!Next]_ContentsOfFiles
      BY <2>2, WriteStep DEF A!Next
    <3> QED
      BY <1>1, <2>1, <3>1, <3>2 DEF RInv
  <2>3. CASE \E op \in {"remove", "truncate"} : Truncate(f, op)
    <3>1. (\A g \in Files : ZeroesBeyond(g)') /\ A!Remove(f)
      BY <2>3, RemoveStep
    <3> QED
      BY <1>1, <2>1, <3>1 DEF RInv, A!Next
  <2>4. CASE PutsNothing(f)
    <3>1. \A g \in Files : ZeroesBeyond(g)'
      <4>1. 0 \in 0 .. MaxSize /\ {} \subseteq 0 .. 0 - 1
        BY Geometry
      <4> QED
        BY <2>4, <4>1, ZeroesStay DEF PutsNothing
    <3> QED
      BY <1>1, <2>1, <2>4, <3>1, QuietMaps DEF RInv
  <2>5. \/ Store(f) \/ NoSpace(f) \/ Undo(f)
        \/ \E op \in {"remove", "truncate"} : Truncate(f, op)
        \/ PutsNothing(f)
    BY <1>1, <1>3, QuietSteps, TableSteps, WriteMapStep DEF Write, RInv
  <2> QED
    BY <2>2, <2>3, <2>4, <2>5
<1> QED
  BY <1>2, <1>3 DEF Next

\* The zones implement the files: a write changes the bytes of its chunk and no others, of
\* no other file, a failed one none, and what was never written reads as zeroes, whatever
\* the zones were before and whatever steps of other files come between.
THEOREM Implementation == ASSUME OnlyRemoved, EmptyBoot PROVE Spec => ImplementsSparseFiles
<1>1. Init => RInv /\ A!Init
  BY FilesInitially
<1>2. RInv /\ [Next]_vars => RInv' /\ [A!Next]_ContentsOfFiles
  BY FileSteps
<1> QED
  BY <1>1, <1>2, PTL DEF Spec, ImplementsSparseFiles, A!Spec
=============================================================================
