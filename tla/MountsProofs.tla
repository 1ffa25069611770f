----------------------------- MODULE MountsProofs -----------------------------
(***************************************************************************)
(* Mount, Unmount and Shutdown keep every reference, a mounted device is    *)
(* the one that is read, mount points lead to their devices and devices in  *)
(* use stay mounted: for any number of clients, slots, devices and names,   *)
(* if no path is followed while a device is unmounted and no slot is used   *)
(* for another device (MCMountsRace and MCMountsReuse show why).            *)
(***************************************************************************)
EXTENDS Mounts, FiniteSetTheorems, WellFoundedInduction, TLAPS

Tame == Wild = {}
-----------------------------------------------------------------------------
(* The inductive invariant. *)

Stages == {"idle", "lookup", "cross", "found", "hung", "rooted", "flagged",
           "next", "unmount", "release", "close"}
Calls == [pc : Stages, req : Requests \cup {NoRequest}, rest : Seq(Names \cup {Up}),
          dirp : Inodes, rip : Inodes, slot : Slots]
Types ==
  /\ devices \in [Slots -> Devs \cup {nil}] /\ devs \in [Slots -> Devs \cup {nil}]
  /\ mountinfo \in [Slots -> [imount : Inodes \cup {nil}, isup : Inodes \cup {nil}]]
  /\ open \subseteq Devs
  /\ count \in [Inodes -> Int]
  /\ mount \subseteq Inodes
  /\ rootproc \in BOOLEAN
  /\ workdir \in [Clients -> Inodes \cup {nil}]
  /\ lock \subseteq Clients
  /\ call \in [Clients -> Calls]
  /\ status \in {"up", "closed", "down"}

\* Which step of which call client c can be at.
Calling(c) ==
  /\ Idle(c) <=> call[c].req.op \notin {"chdir", "mount", "unmount", "shutdown"}
  /\ call[c].pc \in {"lookup", "cross"} => call[c].req.op \in {"chdir", "mount"} /\ call[c].rest # <<>>
  /\ call[c].pc = "found" => call[c].req.op \in {"chdir", "mount"}
  /\ call[c].pc \in {"hung", "rooted", "flagged"} => call[c].req.op = "mount"
  /\ call[c].pc = "next" => call[c].req.op = "shutdown"
  /\ call[c].pc \in {"unmount", "release", "close"} => call[c].req.op \in {"unmount", "shutdown"}
  /\ Is(c, "chdir") => workdir[c] # nil

\* Who mounts or unmounts has the lock, and who unmounts is alone.
Locking ==
  /\ \A c \in Clients : c \in lock <=> Is(c, "mount") \/ Unmounting(c)
  /\ \A c, d \in lock : c = d
  /\ \A c, d \in Clients : Unmounting(c) /\ ~Idle(d) => c = d

\* The tables agree.  Slots are filled from the last one on, but for the first.
Filled(s) ==
  /\ devs[s] = nil => mountinfo[s] = NoMount
  /\ devs[s] # nil /\ s # ROOT_DEVICE => \A u \in Slots : s < u => devs[u] # nil
  /\ mountinfo[s] # NoMount =>
       /\ s # ROOT_DEVICE /\ mountinfo[s].isup = <<s, ROOT_INODE>>
       /\ mountinfo[s].imount \in Inodes /\ mountinfo[s].imount[1] # s
       /\ \A u \in Slots : mountinfo[u].imount = mountinfo[s].imount => u = s
  /\ s \in Mounted /\ mountinfo[s] = NoMount => \E c \in Clients : Is(c, "mount") /\ call[c].slot = s

\* The slot that a mount or an unmount works on.
Mounting(c) ==
  Is(c, "mount") =>
    /\ call[c].slot # ROOT_DEVICE /\ mountinfo[call[c].slot] = NoMount
    /\ devices[call[c].slot] = call[c].req.dev
    /\ \A u \in Slots : ROOT_DEVICE < u /\ u < call[c].slot => devs[u] = nil
    /\ \A u \in Slots : devices[u] = nil => devs[u] = nil
    /\ call[c].pc \in {"rooted", "flagged"} => \A u \in Slots : mountinfo[u].imount # call[c].rip
Undoing(c) ==
  call[c].pc \in {"unmount", "release", "close"} =>
    /\ call[c].slot \in Mounted /\ mountinfo[call[c].slot] # NoMount
    /\ call[c].pc = "release" => ~Busy(call[c].slot)

\* A device in its place is one whose inodes can be used: that of the root, and
\* those that are mounted and not being given up.
InPlace(s) == s \in Mounted /\ mountinfo[s] # NoMount /\ ~IsGiven(s)
OnDevice(i) == i[1] = ROOT_DEVICE \/ InPlace(i[1])
Placed ==
  /\ \A c \in Clients :
       /\ workdir[c] # nil => OnDevice(workdir[c])
       /\ call[c].pc \in {"lookup", "cross"} => OnDevice(call[c].dirp)
       /\ call[c].pc \in {"cross", "found", "rooted", "flagged"} => OnDevice(call[c].rip)
  /\ \A s \in Slots : InPlace(s) => OnDevice(mountinfo[s].imount)

\* An inode has the flag if a device in its place covers it, or will.
Flags ==
  mount = {mountinfo[s].imount : s \in {s \in Slots : InPlace(s)}}
          \cup {call[c].rip : c \in {c \in Clients : call[c].pc = "flagged"}}

Closed ==
  IF status = "closed" THEN \A i \in Inodes : count[i] = 0
  ELSE devices[ROOT_DEVICE] # nil /\ rootproc

IInv ==
  /\ Types /\ CountIsReferences /\ MountedIsRead /\ Locking /\ Placed /\ Flags /\ Closed
  /\ \A c \in Clients : Calling(c) /\ Mounting(c) /\ Undoing(c)
  /\ \A s \in Slots : Filled(s)
-----------------------------------------------------------------------------
(* Counting references. *)

\* The k-th reference of a call and of a mount.
CallRef(c, k, i) ==
  IF k = 1 THEN \/ call[c].pc \in {"lookup", "cross"} /\ call[c].dirp = i
                \/ call[c].pc \in {"found", "rooted", "flagged"} /\ call[c].rip = i
  ELSE \/ call[c].pc = "cross" /\ call[c].rip = i
       \/ call[c].pc \in {"rooted", "flagged"} /\ <<call[c].slot, ROOT_INODE>> = i
MountRef(s, k, i) ==
  InPlace(s) /\ (IF k = 1 THEN mountinfo[s].imount ELSE mountinfo[s].isup) = i

Dirs(i) == {c \in Clients : workdir[c] = i}
CallRefs(i) == {u \in Clients \X {1, 2} : CallRef(u[1], u[2], i)}
MountRefs(i) == {u \in Slots \X {1, 2} : MountRef(u[1], u[2], i)}
RootRef(i) == IF i = Root /\ rootproc THEN 1 ELSE 0

\* What client c and slot s have of the references to an inode.
Part(c, s, i) ==
  (IF workdir[c] = i THEN 1 ELSE 0) + RootRef(i)
  + (IF CallRef(c, 1, i) THEN 1 ELSE 0) + (IF CallRef(c, 2, i) THEN 1 ELSE 0)
  + (IF MountRef(s, 1, i) THEN 1 ELSE 0) + (IF MountRef(s, 2, i) THEN 1 ELSE 0)

LEMMA SlotsFinite ==
  /\ IsFiniteSet(Slots) /\ IsFiniteSet(Inodes)
  /\ IsFiniteSet(Clients \X {1, 2}) /\ IsFiniteSet(Slots \X {1, 2})
<1>1. IsFiniteSet(Slots)
  <2>1. NR_DEVICES - 1 \in Int /\ 0 \in Int
    BY SlotsAssumption DEF SlotsAssumption
  <2> QED BY <2>1, FS_Interval DEF Slots
<1>2. IsFiniteSet({1, 2}) /\ IsFiniteSet({ROOT_INODE} \cup Names)
  <2>1. IsFiniteSet({1}) /\ IsFiniteSet({ROOT_INODE})
    BY FS_Singleton
  <2>2. IsFiniteSet({1} \cup {2})
    BY <2>1, FS_AddElement
  <2>3. {1, 2} = {1} \cup {2}
    OBVIOUS
  <2>4. IsFiniteSet({ROOT_INODE} \cup Names)
    BY <2>1, FS_Union, NamesAssumption DEF NamesAssumption
  <2> QED BY <2>2, <2>3, <2>4
<1> QED BY <1>1, <1>2, FS_Product, ClientsAssumption DEF Inodes, ClientsAssumption

LEMMA CallHasIs ==
  ASSUME NEW c \in Clients, NEW k \in {1, 2}, NEW i
  PROVE  Refers(CallHas(c), k, i) <=> CallRef(c, k, i)
<1>1. CASE call[c].pc = "lookup"
  BY <1>1 DEF CallHas, CallRef, Refers
<1>2. CASE call[c].pc = "cross"
  BY <1>2 DEF CallHas, CallRef, Refers
<1>3. CASE call[c].pc = "found"
  BY <1>3 DEF CallHas, CallRef, Refers
<1>4. CASE call[c].pc \in {"rooted", "flagged"}
  BY <1>4 DEF CallHas, CallRef, Refers
<1>5. CASE call[c].pc \notin {"lookup", "cross", "found", "rooted", "flagged"}
  <2>1. CallHas(c) = <<>>
    BY <1>5 DEF CallHas
  <2> QED BY <1>5, <2>1 DEF CallRef, Refers
<1> QED BY <1>1, <1>2, <1>3, <1>4, <1>5

LEMMA MountHasIs ==
  ASSUME NEW s \in Slots, NEW k \in {1, 2}, NEW i
  PROVE  Refers(MountHas(s), k, i) <=> MountRef(s, k, i)
<1>1. CASE InPlace(s)
  <2>1. MountHas(s) = <<mountinfo[s].imount, mountinfo[s].isup>>
    BY <1>1 DEF MountHas, InPlace, Mounted
  <2> QED BY <1>1, <2>1 DEF MountRef, Refers
<1>2. CASE ~InPlace(s)
  <2>1. MountHas(s) = <<>>
    BY <1>2 DEF MountHas, InPlace, Mounted
  <2> QED BY <1>2, <2>1 DEF MountRef, Refers
<1> QED BY <1>1, <1>2

Counted ==
  \A i \in Inodes : count[i] = Cardinality(Dirs(i)) + RootRef(i)
                               + Cardinality(CallRefs(i)) + Cardinality(MountRefs(i))

LEMMA CountIs == CountIsReferences <=> Counted
<1>1. ASSUME NEW i \in Inodes
      PROVE  CallRefs(i) = {u \in Clients \X {1, 2} : Refers(CallHas(u[1]), u[2], i)}
  BY CallHasIs DEF CallRefs
<1>2. ASSUME NEW i \in Inodes
      PROVE  MountRefs(i) = {u \in Slots \X {1, 2} : Refers(MountHas(u[1]), u[2], i)}
  BY MountHasIs DEF MountRefs
<1> QED BY <1>1, <1>2 DEF CountIsReferences, Counted, Dirs, RootRef

LEMMA CountIsNext == CountIsReferences' <=> Counted'
BY CountIs, PTL

\* Taking two elements in or out of a finite set.
SameBut(S, T, x) == S \ {x} = T \ {x}
LEMMA OneElement ==
  ASSUME NEW S, IsFiniteSet(S), NEW T, NEW x, SameBut(S, T, x)
  PROVE  /\ IsFiniteSet(T) /\ Cardinality(S) \in Nat /\ Cardinality(T) \in Nat
         /\ Cardinality(T) = Cardinality(S) - (IF x \in S THEN 1 ELSE 0) + (IF x \in T THEN 1 ELSE 0)
<1>1. CASE x \in S /\ x \notin T
  <2>1. T = S \ {x}
    BY <1>1 DEF SameBut
  <2> QED BY <1>1, <2>1, FS_RemoveElement, FS_CardinalityType
<1>2. CASE x \notin S /\ x \in T
  <2>1. T = S \cup {x}
    BY <1>2 DEF SameBut
  <2> QED BY <1>2, <2>1, FS_AddElement, FS_CardinalityType
<1>3. CASE x \in S <=> x \in T
  <2>1. \A z : z \in T <=> z \in S
    BY <1>3 DEF SameBut
  <2>2. T = S
    BY <2>1
  <2> QED BY <1>3, <2>2, FS_CardinalityType
<1> QED BY <1>1, <1>2, <1>3

SameButTwo(S, T, x, y) == S \ {x, y} = T \ {x, y}
LEMMA TwoElements ==
  ASSUME NEW S, IsFiniteSet(S), NEW T, NEW x, NEW y, x # y, SameButTwo(S, T, x, y)
  PROVE  /\ IsFiniteSet(T) /\ Cardinality(S) \in Nat /\ Cardinality(T) \in Nat
         /\ Cardinality(T) = Cardinality(S) - (IF x \in S THEN 1 ELSE 0) - (IF y \in S THEN 1 ELSE 0)
                             + (IF x \in T THEN 1 ELSE 0) + (IF y \in T THEN 1 ELSE 0)
<1> DEFINE U == (S \ {x}) \cup (T \cap {x})
<1>1. SameBut(S, U, x) /\ SameBut(U, T, y)
  BY DEF SameBut, SameButTwo
<1>2. (x \in U <=> x \in T) /\ (y \in U <=> y \in S)
  OBVIOUS
<1> HIDE DEF U
<1>3. /\ IsFiniteSet(U) /\ Cardinality(S) \in Nat /\ Cardinality(U) \in Nat
      /\ Cardinality(U) = Cardinality(S) - (IF x \in S THEN 1 ELSE 0) + (IF x \in U THEN 1 ELSE 0)
  BY <1>1, OneElement
<1>4. /\ IsFiniteSet(T) /\ Cardinality(T) \in Nat
      /\ Cardinality(T) = Cardinality(U) - (IF y \in U THEN 1 ELSE 0) + (IF y \in T THEN 1 ELSE 0)
  BY <1>1, <1>3, OneElement
<1> QED BY <1>2, <1>3, <1>4

LEMMA RefsFinite ==
  ASSUME NEW i
  PROVE  /\ IsFiniteSet(Dirs(i)) /\ IsFiniteSet(CallRefs(i)) /\ IsFiniteSet(MountRefs(i))
         /\ Cardinality(Dirs(i)) \in Nat /\ Cardinality(CallRefs(i)) \in Nat
         /\ Cardinality(MountRefs(i)) \in Nat
<1>1. Dirs(i) \subseteq Clients /\ CallRefs(i) \subseteq Clients \X {1, 2}
      /\ MountRefs(i) \subseteq Slots \X {1, 2}
  BY DEF Dirs, CallRefs, MountRefs
<1>2. IsFiniteSet(Dirs(i)) /\ IsFiniteSet(CallRefs(i)) /\ IsFiniteSet(MountRefs(i))
  BY <1>1, SlotsFinite, FS_Subset, ClientsAssumption DEF ClientsAssumption
<1> QED BY <1>2, FS_CardinalityType

\* A step that moves the references of one client and of one slot only keeps the
\* counts right if it counts those.
LEMMA PartMoved ==
  ASSUME CountIsReferences, NEW c \in Clients, NEW s \in Slots,
         \A d \in Clients \ {c} : workdir'[d] = workdir[d],
         \A d \in Clients \ {c}, k \in {1, 2}, i \in Inodes : CallRef(d, k, i)' <=> CallRef(d, k, i),
         \A t \in Slots \ {s}, k \in {1, 2}, i \in Inodes : MountRef(t, k, i)' <=> MountRef(t, k, i),
         \A i \in Inodes : count'[i] = count[i] - Part(c, s, i) + Part(c, s, i)'
  PROVE  CountIsReferences'
<1> SUFFICES ASSUME NEW i \in Inodes
             PROVE  count'[i] = Cardinality(Dirs(i)') + RootRef(i)'
                                + Cardinality(CallRefs(i)') + Cardinality(MountRefs(i)')
  BY CountIsNext DEF Counted
<1>1. count[i] = Cardinality(Dirs(i)) + RootRef(i) + Cardinality(CallRefs(i)) + Cardinality(MountRefs(i))
  BY CountIs DEF Counted
<1>2. /\ IsFiniteSet(Dirs(i)) /\ IsFiniteSet(CallRefs(i)) /\ IsFiniteSet(MountRefs(i))
      /\ Cardinality(Dirs(i)) \in Nat /\ Cardinality(CallRefs(i)) \in Nat
      /\ Cardinality(MountRefs(i)) \in Nat
  BY RefsFinite
<1>3. /\ Cardinality(Dirs(i)') \in Nat
      /\ Cardinality(Dirs(i)') = Cardinality(Dirs(i)) - (IF workdir[c] = i THEN 1 ELSE 0)
                                 + (IF workdir'[c] = i THEN 1 ELSE 0)
  <2>1. SameBut(Dirs(i), Dirs(i)', c)
    BY DEF Dirs, SameBut
  <2>2. (c \in Dirs(i) <=> workdir[c] = i) /\ (c \in Dirs(i)' <=> workdir'[c] = i)
    BY DEF Dirs
  <2> QED BY <1>2, <2>1, <2>2, OneElement
<1>4. /\ Cardinality(CallRefs(i)') \in Nat
      /\ Cardinality(CallRefs(i)') =
           Cardinality(CallRefs(i)) - (IF CallRef(c, 1, i) THEN 1 ELSE 0) - (IF CallRef(c, 2, i) THEN 1 ELSE 0)
           + (IF CallRef(c, 1, i)' THEN 1 ELSE 0) + (IF CallRef(c, 2, i)' THEN 1 ELSE 0)
  <2>1. SameButTwo(CallRefs(i), CallRefs(i)', <<c, 1>>, <<c, 2>>)
    BY DEF CallRefs, SameButTwo
  <2>2. /\ \A k \in {1, 2} : <<c, k>> \in CallRefs(i) <=> CallRef(c, k, i)
        /\ \A k \in {1, 2} : <<c, k>> \in CallRefs(i)' <=> CallRef(c, k, i)'
    BY DEF CallRefs
  <2>3. <<c, 1>> # <<c, 2>>
    OBVIOUS
  <2> QED BY <1>2, <2>1, <2>2, <2>3, TwoElements
<1>5. /\ Cardinality(MountRefs(i)') \in Nat
      /\ Cardinality(MountRefs(i)') =
           Cardinality(MountRefs(i)) - (IF MountRef(s, 1, i) THEN 1 ELSE 0) - (IF MountRef(s, 2, i) THEN 1 ELSE 0)
           + (IF MountRef(s, 1, i)' THEN 1 ELSE 0) + (IF MountRef(s, 2, i)' THEN 1 ELSE 0)
  <2>1. SameButTwo(MountRefs(i), MountRefs(i)', <<s, 1>>, <<s, 2>>)
    BY DEF MountRefs, SameButTwo
  <2>2. /\ \A k \in {1, 2} : <<s, k>> \in MountRefs(i) <=> MountRef(s, k, i)
        /\ \A k \in {1, 2} : <<s, k>> \in MountRefs(i)' <=> MountRef(s, k, i)'
    BY DEF MountRefs
  <2>3. <<s, 1>> # <<s, 2>>
    OBVIOUS
  <2> QED BY <1>2, <2>1, <2>2, <2>3, TwoElements
<1>6. RootRef(i) \in Nat /\ RootRef(i)' \in Nat
  BY DEF RootRef
<1>7. count'[i] = count[i] - Part(c, s, i) + Part(c, s, i)'
  OBVIOUS
<1> DEFINE w == IF workdir[c] = i THEN 1 ELSE 0
           c1 == IF CallRef(c, 1, i) THEN 1 ELSE 0
           c2 == IF CallRef(c, 2, i) THEN 1 ELSE 0
           m1 == IF MountRef(s, 1, i) THEN 1 ELSE 0
           m2 == IF MountRef(s, 2, i) THEN 1 ELSE 0
<1>8. /\ Part(c, s, i) = w + RootRef(i) + c1 + c2 + m1 + m2
      /\ Part(c, s, i)' = w' + RootRef(i)' + c1' + c2' + m1' + m2'
  BY DEF Part
<1>9. /\ w \in Nat /\ c1 \in Nat /\ c2 \in Nat /\ m1 \in Nat /\ m2 \in Nat
      /\ w' \in Nat /\ c1' \in Nat /\ c2' \in Nat /\ m1' \in Nat /\ m2' \in Nat
  OBVIOUS
<1>10. /\ Cardinality(Dirs(i)') = Cardinality(Dirs(i)) - w + w'
       /\ Cardinality(CallRefs(i)') = Cardinality(CallRefs(i)) - c1 - c2 + c1' + c2'
       /\ Cardinality(MountRefs(i)') = Cardinality(MountRefs(i)) - m1 - m2 + m1' + m2'
  BY <1>3, <1>4, <1>5
<1> HIDE DEF w, c1, c2, m1, m2
<1> QED BY <1>1, <1>2, <1>6, <1>7, <1>8, <1>9, <1>10

\* Who refers to an inode, and that two references count twice.
LEMMA Referred ==
  ASSUME CountIsReferences, NEW i \in Inodes
  PROVE  /\ count[i] \in Nat
         /\ count[i] > 0 => \/ \E c \in Clients : workdir[c] = i
                            \/ i = Root /\ rootproc
                            \/ \E c \in Clients, k \in {1, 2} : CallRef(c, k, i)
                            \/ \E s \in Slots, k \in {1, 2} : MountRef(s, k, i)
         /\ \A c \in Clients : workdir[c] = i => count[i] > 0
         /\ i = Root /\ rootproc => count[i] > 0
         /\ \A c \in Clients, k \in {1, 2} : CallRef(c, k, i) => count[i] > 0
         /\ \A s \in Slots, k \in {1, 2} : MountRef(s, k, i) => count[i] > 0
<1>1. count[i] = Cardinality(Dirs(i)) + RootRef(i) + Cardinality(CallRefs(i)) + Cardinality(MountRefs(i))
  BY CountIs DEF Counted
<1>2. /\ IsFiniteSet(Dirs(i)) /\ IsFiniteSet(CallRefs(i)) /\ IsFiniteSet(MountRefs(i))
      /\ Cardinality(Dirs(i)) \in Nat /\ Cardinality(CallRefs(i)) \in Nat
      /\ Cardinality(MountRefs(i)) \in Nat
  BY RefsFinite
<1>3. /\ Cardinality(Dirs(i)) = 0 <=> Dirs(i) = {}
      /\ Cardinality(CallRefs(i)) = 0 <=> CallRefs(i) = {}
      /\ Cardinality(MountRefs(i)) = 0 <=> MountRefs(i) = {}
  BY <1>2, FS_EmptySet
<1>4. RootRef(i) \in Nat /\ (RootRef(i) > 0 <=> i = Root /\ rootproc)
  BY DEF RootRef
<1>5. (\E c \in Clients : workdir[c] = i) <=> Dirs(i) # {}
  BY DEF Dirs
<1>6. (\E c \in Clients, k \in {1, 2} : CallRef(c, k, i)) <=> CallRefs(i) # {}
  <2>1. \A c \in Clients, k \in {1, 2} : CallRef(c, k, i) <=> <<c, k>> \in CallRefs(i)
    BY DEF CallRefs
  <2>2. \A u \in CallRefs(i) : u[1] \in Clients /\ u[2] \in {1, 2} /\ CallRef(u[1], u[2], i)
    BY DEF CallRefs
  <2> QED BY <2>1, <2>2
<1>7. (\E s \in Slots, k \in {1, 2} : MountRef(s, k, i)) <=> MountRefs(i) # {}
  <2>1. \A s \in Slots, k \in {1, 2} : MountRef(s, k, i) <=> <<s, k>> \in MountRefs(i)
    BY DEF MountRefs
  <2>2. \A u \in MountRefs(i) : u[1] \in Slots /\ u[2] \in {1, 2} /\ MountRef(u[1], u[2], i)
    BY DEF MountRefs
  <2> QED BY <2>1, <2>2
<1>8. count[i] \in Nat /\ (count[i] > 0 <=> Dirs(i) # {} \/ RootRef(i) > 0 \/ CallRefs(i) # {} \/ MountRefs(i) # {})
  <2>1. PICK a \in Nat, b \in Nat, d \in Nat, e \in Nat :
          /\ a = Cardinality(Dirs(i)) /\ b = RootRef(i)
          /\ d = Cardinality(CallRefs(i)) /\ e = Cardinality(MountRefs(i))
    BY <1>2, <1>4
  <2>2. count[i] \in Nat /\ (count[i] > 0 <=> a # 0 \/ b > 0 \/ d # 0 \/ e # 0)
    BY <1>1, <2>1
  <2> QED BY <1>3, <2>1, <2>2
<1> QED BY <1>4, <1>5, <1>6, <1>7, <1>8
-----------------------------------------------------------------------------
(* What the invariant says of a state. *)

LEMMA Known ==
  ASSUME IInv
  PROVE  /\ Types /\ CountIsReferences /\ MountedIsRead /\ Locking /\ Placed /\ Flags /\ Closed
         /\ \A c \in Clients : Calling(c) /\ Mounting(c) /\ Undoing(c) /\ call[c] \in Calls
         /\ \A s \in Slots : Filled(s)
BY DEF IInv, Types

LEMMA Places == ROOT_DEVICE \in Slots /\ Root \in Inodes
                /\ \A s \in Slots : <<s, ROOT_INODE>> \in Inodes
                /\ \A i \in Inodes : i[1] \in Slots /\ i = <<i[1], i[2]>> /\ i # nil
BY SlotsAssumption, DevsAssumption
   DEF SlotsAssumption, DevsAssumption, Slots, Inodes, Root, ROOT_DEVICE, ROOT_INODE

\* Nobody gives a device up unless somebody unmounts.
LEMMA Given1 ==
  ASSUME IInv, \A c \in Clients : ~Unmounting(c)
  PROVE  /\ \A s \in Slots : ~IsGiven(s)
         /\ \A c \in Clients : call[c].pc \notin {"next", "unmount", "release", "close"}
<1>1. ASSUME NEW c \in Clients
      PROVE  call[c].pc \notin {"next", "unmount", "release", "close"}
  <2>1. Calling(c) /\ ~Unmounting(c)
    BY Known
  <2> QED BY <2>1 DEF Calling, Unmounting, Is, Idle
<1> QED BY <1>1 DEF IsGiven

\* While somebody walks or mounts, or the lock is free, nobody unmounts.
LEMMA Settling ==
  ASSUME IInv, \/ lock = {}
               \/ \E c \in Clients : ~Idle(c) /\ ~Unmounting(c)
  PROVE  \A d \in Clients : ~Unmounting(d)
BY Known DEF Locking

LEMMA LockFree ==
  ASSUME IInv, lock = {}
  PROVE  \A d \in Clients : /\ ~Is(d, "mount") /\ ~Unmounting(d)
                            /\ call[d].pc \in {"idle", "lookup", "cross", "found"}
<1> SUFFICES ASSUME NEW d \in Clients
             PROVE  /\ ~Is(d, "mount") /\ ~Unmounting(d)
                    /\ call[d].pc \in {"idle", "lookup", "cross", "found"}
  OBVIOUS
<1>1. ~Is(d, "mount") /\ ~Unmounting(d)
  BY Known DEF Locking
<1>2. Calling(d) /\ call[d].pc \in Stages
  BY Known DEF Calls
<1> QED BY <1>1, <1>2 DEF Calling, Unmounting, Is, Idle, Stages

\* A device whose inodes can be used is open, and it is the one that is read.
LEMMA OnDeviceReads ==
  ASSUME IInv, status # "closed", NEW i \in Inodes, OnDevice(i)
  PROVE  devices[i[1]] # nil /\ Reads(i[1]) /\ Loads(i)
<1>1. i[1] \in Slots
  BY Places
<1>2. devices[i[1]] # nil
  BY Known DEF OnDevice, InPlace, Mounted, Closed
<1> QED BY <1>1, <1>2, Known DEF MountedIsRead, Reads, Loads
-----------------------------------------------------------------------------
(* Steps that leave the mounts alone. *)

Own(c, i) == (IF workdir[c] = i THEN 1 ELSE 0)
             + (IF CallRef(c, 1, i) THEN 1 ELSE 0) + (IF CallRef(c, 2, i) THEN 1 ELSE 0)

LEMMA OwnMoved ==
  ASSUME CountIsReferences, NEW c \in Clients, count \in [Inodes -> Int],
         \A d \in Clients \ {c} : workdir'[d] = workdir[d] /\ call'[d] = call[d],
         \A t \in Slots : InPlace(t)' <=> InPlace(t),
         UNCHANGED <<mountinfo, rootproc>>,
         \A i \in Inodes : count'[i] = count[i] - Own(c, i) + Own(c, i)'
  PROVE  CountIsReferences'
<1>1. \A d \in Clients \ {c}, k \in {1, 2}, i \in Inodes : CallRef(d, k, i)' <=> CallRef(d, k, i)
  BY DEF CallRef
<1>2. \A t \in Slots, k \in {1, 2}, i \in Inodes : MountRef(t, k, i)' <=> MountRef(t, k, i)
  BY DEF MountRef
<1>3. ASSUME NEW i \in Inodes
      PROVE  count'[i] = count[i] - Part(c, ROOT_DEVICE, i) + Part(c, ROOT_DEVICE, i)'
  <2> DEFINE m1 == IF MountRef(ROOT_DEVICE, 1, i) THEN 1 ELSE 0
             m2 == IF MountRef(ROOT_DEVICE, 2, i) THEN 1 ELSE 0
             r == RootRef(i)
  <2>1. m1' = m1 /\ m2' = m2 /\ r' = r
    BY <1>2, Places DEF RootRef
  <2>2. m1 \in Nat /\ m2 \in Nat /\ r \in Nat
    BY DEF RootRef
  <2>3. Own(c, i) \in Nat /\ Own(c, i)' \in Nat
    BY DEF Own
  <2>4. Part(c, ROOT_DEVICE, i) = Own(c, i) + r + m1 + m2
        /\ Part(c, ROOT_DEVICE, i)' = Own(c, i)' + r' + m1' + m2'
    BY DEF Own, Part, RootRef
  <2> HIDE DEF m1, m2, r
  <2>5. count[i] \in Int
    OBVIOUS
  <2>6. count'[i] = count[i] - Own(c, i) + Own(c, i)'
    OBVIOUS
  <2> QED BY <2>1, <2>2, <2>3, <2>4, <2>5, <2>6
<1>4. \A t \in Slots \ {ROOT_DEVICE}, k \in {1, 2}, i \in Inodes : MountRef(t, k, i)' <=> MountRef(t, k, i)
  BY <1>2
<1>5. \A d \in Clients \ {c} : workdir'[d] = workdir[d]
  OBVIOUS
<1> QED BY <1>1, <1>3, <1>4, <1>5, PartMoved, Places

\* The inodes that are used can be used afterwards if the mounts stay in place.
LEMMA PlacedIf ==
  ASSUME Placed, \A s : InPlace(s)' <=> InPlace(s), UNCHANGED mountinfo,
         \A d \in Clients :
           /\ workdir'[d] # nil => OnDevice(workdir'[d])
           /\ call'[d].pc \in {"lookup", "cross"} => OnDevice(call'[d].dirp)
           /\ call'[d].pc \in {"cross", "found", "rooted", "flagged"} => OnDevice(call'[d].rip)
  PROVE  Placed'
<1>1. \A i : OnDevice(i)' <=> OnDevice(i)
  BY DEF OnDevice
<1>2. \A s \in Slots : InPlace(s)' => OnDevice(mountinfo'[s].imount)
  BY DEF Placed
<1> QED BY <1>1, <1>2 DEF Placed, OnDevice

\* What a client may do that walks or moves: before and after it neither holds
\* a device that it mounts in nor unmounts one.
Walks == {"idle", "lookup", "cross", "found"}
Walked(c) ==
  /\ call[c].pc \in Walks /\ ~Unmounting(c) /\ Calling(c)
  /\ workdir[c] # nil => OnDevice(workdir[c])
  /\ call[c].pc \in {"lookup", "cross"} => OnDevice(call[c].dirp)
  /\ call[c].pc \in {"cross", "found"} => OnDevice(call[c].rip)

Still == UNCHANGED <<tables, mount, rootproc, lock, status>>

LEMMA WalkFrame ==
  ASSUME IInv, NEW c \in Clients, status = "up", Still,
         \A d \in Clients : ~Unmounting(d),
         call[c].pc \in Walks,
         \A d \in Clients \ {c} : workdir'[d] = workdir[d] /\ call'[d] = call[d],
         call' \in [Clients -> Calls], workdir' \in [Clients -> Inodes \cup {nil}],
         count' \in [Inodes -> Int],
         \A i \in Inodes : count'[i] = count[i] - Own(c, i) + Own(c, i)',
         Is(c, "mount")' <=> Is(c, "mount"),
         Is(c, "mount") => call'[c].slot = call[c].slot /\ call'[c].req = call[c].req,
         call'[c].pc \in Walks, ~Unmounting(c)', Calling(c)',
         workdir'[c] # nil => OnDevice(workdir'[c]),
         call'[c].pc \in {"lookup", "cross"} => OnDevice(call'[c].dirp),
         call'[c].pc \in {"cross", "found"} => OnDevice(call'[c].rip)
  PROVE  IInv'
<1>1. /\ Types /\ CountIsReferences /\ MountedIsRead /\ Locking /\ Placed /\ Flags /\ Closed
      /\ \A d \in Clients : Calling(d) /\ Mounting(d) /\ Undoing(d)
      /\ \A s \in Slots : Filled(s)
  BY Known
<1>2. \A s \in Slots : ~IsGiven(s) /\ ~IsGiven(s)'
  <2>1. \A d \in Clients : call[d].pc # "close" /\ call'[d].pc # "close"
    BY Given1 DEF Walks
  <2> QED BY <2>1 DEF IsGiven
<1>3. UNCHANGED <<devices, mountinfo, devs, open, mount, rootproc, lock, status>>
  BY DEF Still, tables
<1>4. \A s : InPlace(s)' <=> InPlace(s)
  BY <1>2, <1>3 DEF InPlace, Mounted
<1>5. \A i : OnDevice(i)' <=> OnDevice(i)
  BY <1>4 DEF OnDevice
<1>6. Types'
  BY <1>1, <1>3 DEF Types
<1>7. CountIsReferences'
  <2>1. count \in [Inodes -> Int]
    BY <1>1 DEF Types
  <2> QED BY <1>1, <1>3, <1>4, <2>1, OwnMoved
<1>8. MountedIsRead'
  BY <1>1, <1>3 DEF MountedIsRead
<1>9. \A d \in Clients : (Is(d, "mount")' <=> Is(d, "mount")) /\ ~Unmounting(d)'
  BY DEF Is, Idle, Unmounting
<1>10. Locking'
  <2>1. \A d \in Clients : d \in lock <=> Is(d, "mount")
    BY <1>1 DEF Locking
  <2>2. \A d, e \in lock : d = e
    BY <1>1 DEF Locking
  <2> QED BY <1>3, <1>9, <2>1, <2>2 DEF Locking
<1>11. Placed'
  <2>1. ASSUME NEW d \in Clients
        PROVE  /\ workdir'[d] # nil => OnDevice(workdir'[d])
               /\ call'[d].pc \in {"lookup", "cross"} => OnDevice(call'[d].dirp)
               /\ call'[d].pc \in {"cross", "found", "rooted", "flagged"} => OnDevice(call'[d].rip)
    <3>1. CASE d = c
      BY <3>1 DEF Walks
    <3>2. CASE d # c
      BY <3>2, <1>1 DEF Placed
    <3> QED BY <3>1, <3>2
  <2> QED BY <1>1, <1>3, <1>4, <2>1, PlacedIf
<1>12. Flags'
  <2>1. \A d \in Clients : (call'[d].pc = "flagged" <=> call[d].pc = "flagged")
                           /\ (call[d].pc = "flagged" => call'[d].rip = call[d].rip)
    BY DEF Walks
  <2>2. {call'[d].rip : d \in {d \in Clients : call'[d].pc = "flagged"}}
        = {call[d].rip : d \in {d \in Clients : call[d].pc = "flagged"}}
    BY <2>1
  <2>3. {mountinfo'[s].imount : s \in {s \in Slots : InPlace(s)'}}
        = {mountinfo[s].imount : s \in {s \in Slots : InPlace(s)}}
    BY <1>3, <1>4
  <2> QED BY <1>1, <1>3, <2>2, <2>3 DEF Flags
<1>13. Closed'
  BY <1>1, <1>3 DEF Closed
<1>14. ASSUME NEW d \in Clients
       PROVE  Calling(d)' /\ Mounting(d)' /\ Undoing(d)'
  <2>1. CASE d = c
    <3>1. Undoing(c)'
      BY DEF Undoing, Walks
    <3>2. Mounting(c)'
      BY <1>1, <1>3 DEF Mounting, Walks
    <3> QED BY <2>1, <3>1, <3>2
  <2>2. CASE d # c
    <3>1. Calling(d)'
      BY <1>1, <2>2 DEF Calling, Is, Idle
    <3>2. Mounting(d)'
      BY <1>1, <1>3, <2>2 DEF Mounting, Is, Idle
    <3>3. Undoing(d)'
      BY <2>2, Given1 DEF Undoing
    <3> QED BY <3>1, <3>2, <3>3
  <2> QED BY <2>1, <2>2
<1>15. ASSUME NEW s \in Slots
       PROVE  Filled(s)'
  <2>1. ASSUME s \in Mounted, mountinfo[s] = NoMount
        PROVE  \E d \in Clients : Is(d, "mount")' /\ call'[d].slot = s
    <3>1. PICK d \in Clients : Is(d, "mount") /\ call[d].slot = s
      BY <1>1, <2>1 DEF Filled
    <3> QED BY <1>9, <3>1
  <2> QED BY <1>1, <1>3, <2>1 DEF Filled, Mounted
<1> QED BY <1>6, <1>7, <1>8, <1>10, <1>11, <1>12, <1>13, <1>14, <1>15 DEF IInv

\* What a name leads to can be used.
LEMMA NamedIs ==
  ASSUME IInv, status = "up", NEW i \in Inodes, OnDevice(i), NEW name \in Names \cup {Up},
         NEW j \in Named(i, name)
  PROVE  j \in Inodes /\ OnDevice(j)
<1>0. i = <<i[1], i[2]>> /\ i[1] \in Slots
  BY Places
<1>1. CASE name # Up
  <2>1. j = <<i[1], name>> /\ name \in Names
    BY <1>1 DEF Named
  <2> QED BY <1>0, <2>1 DEF Inodes, OnDevice
<1>2. CASE name = Up /\ ~Leaves(i, name)
  <2>1. j = <<i[1], ROOT_INODE>>
    BY <1>2 DEF Named
  <2> QED BY <1>0, <2>1, Places DEF OnDevice
<1>3. CASE name = Up /\ Leaves(i, name)
  <2>1. i[1] # ROOT_DEVICE
    BY <1>0, <1>3 DEF Leaves, Root
  <2>2. InPlace(i[1])
    BY <2>1 DEF OnDevice
  <2>3. OnDevice(mountinfo[i[1]].imount) /\ mountinfo[i[1]].imount \in Inodes
    BY <1>0, <2>2, Known DEF Placed, InPlace, Filled
  <2>4. j = <<mountinfo[i[1]].imount[1], ROOT_INODE>>
    BY <1>3 DEF Named, Above
  <2> QED BY <2>3, <2>4, Places DEF OnDevice
<1> QED BY <1>1, <1>2, <1>3

\* An inode that is flagged and that some slot covers is covered by one only, and
\* that one is in its place.
LEMMA CrossingIs ==
  ASSUME IInv, NEW i \in mount, Crossings(i) # {}
  PROVE  \E t \in Slots : InPlace(t) /\ Crossings(i) = {t}
<1>1. \A c \in Clients : call[c].pc = "flagged" => call[c].rip # i
  <2> SUFFICES ASSUME NEW c \in Clients, call[c].pc = "flagged", call[c].rip = i
               PROVE  FALSE
    OBVIOUS
  <2>1. Calling(c) /\ Mounting(c)
    BY Known
  <2>2. Is(c, "mount")
    BY <2>1 DEF Calling, Is, Idle
  <2>3. \A u \in Slots : mountinfo[u].imount # i
    BY <2>1, <2>2 DEF Mounting
  <2> QED BY <2>3 DEF Crossings
<1>2. PICK t \in Slots : InPlace(t) /\ mountinfo[t].imount = i
  BY <1>1, Known DEF Flags
<1>3. Filled(t) /\ mountinfo[t] # NoMount
  BY <1>2, Known DEF InPlace
<1>4. Crossings(i) = {t}
  BY <1>2, <1>3 DEF Filled, Crossings
<1> QED BY <1>2, <1>4

LEMMA SpawnStep ==
  ASSUME IInv, NEW c \in Clients, NEW r \in Requests, Spawn(c, r)
  PROVE  IInv'
<1>1. \A d \in Clients : ~Unmounting(d)
  BY Settling DEF Spawn
<1>2. /\ status = "up" /\ Still /\ Idle(c) /\ workdir[c] = nil /\ call' = call
      /\ workdir' = [workdir EXCEPT ![c] = Root]
      /\ count' = [i \in Inodes |-> count[i] + One(i, {Root}) - One(i, {})]
  BY DEF Spawn, MayCall, Moved, Dup, Still, tables
<1>3. Types /\ Calling(c) /\ call[c].pc = "idle"
  BY <1>2, Known DEF Idle
<1>4. workdir' \in [Clients -> Inodes \cup {nil}] /\ call' \in [Clients -> Calls] /\ workdir'[c] = Root
  BY <1>2, <1>3, Places DEF Types
<1>5. ASSUME NEW i \in Inodes
      PROVE  count'[i] \in Int /\ count'[i] = count[i] - Own(c, i) + Own(c, i)'
  <2>1. count[i] \in Int /\ i # nil
    BY <1>3, Places DEF Types
  <2>2. count'[i] = IF i = Root THEN count[i] + 1 ELSE count[i]
    BY <1>2, <2>1 DEF One
  <2>3. Own(c, i) = 0 /\ Own(c, i)' = IF i = Root THEN 1 ELSE 0
    BY <1>2, <1>3, <1>4, <2>1 DEF Own, CallRef
  <2> QED BY <2>1, <2>2, <2>3
<1>6. count' \in [Inodes -> Int]
  BY <1>2, <1>5
<1>7. OnDevice(workdir'[c])
  BY <1>4 DEF OnDevice, Root
<1>8. Calling(c)' /\ ~Unmounting(c)' /\ (Is(c, "mount")' <=> Is(c, "mount"))
      /\ (Is(c, "mount") => call'[c].slot = call[c].slot /\ call'[c].req = call[c].req)
  BY <1>2, <1>3 DEF Calling, Unmounting, Is, Idle
<1>9. \A d \in Clients \ {c} : workdir'[d] = workdir[d] /\ call'[d] = call[d]
  BY <1>2, <1>3 DEF Types
<1> HIDE DEF IInv
<1> QED BY <1>1, <1>2, <1>3, <1>4, <1>5, <1>6, <1>7, <1>8, <1>9, WalkFrame DEF Walks

LEMMA ExitStep ==
  ASSUME IInv, NEW c \in Clients, NEW r \in Requests, Exit(c, r)
  PROVE  IInv'
<1>1. \A d \in Clients : ~Unmounting(d)
  BY Settling DEF Exit
<1>2. /\ status = "up" /\ Still /\ Idle(c) /\ workdir[c] = Root /\ call' = call
      /\ workdir' = [workdir EXCEPT ![c] = nil]
      /\ count' = [i \in Inodes |-> count[i] + One(i, {}) - One(i, {Root})]
  BY DEF Exit, MayCall, Moved, Still, tables
<1>3. Types /\ Calling(c) /\ call[c].pc = "idle"
  BY <1>2, Known DEF Idle
<1>4. workdir' \in [Clients -> Inodes \cup {nil}] /\ call' \in [Clients -> Calls] /\ workdir'[c] = nil
  BY <1>2, <1>3 DEF Types
<1>5. ASSUME NEW i \in Inodes
      PROVE  count'[i] \in Int /\ count'[i] = count[i] - Own(c, i) + Own(c, i)'
  <2>1. count[i] \in Int /\ i # nil
    BY <1>3, Places DEF Types
  <2>2. count'[i] = IF i = Root THEN count[i] - 1 ELSE count[i]
    BY <1>2, <2>1 DEF One
  <2>3. Own(c, i)' = 0 /\ Own(c, i) = IF i = Root THEN 1 ELSE 0
    BY <1>2, <1>3, <1>4, <2>1 DEF Own, CallRef
  <2> QED BY <2>1, <2>2, <2>3
<1>6. count' \in [Inodes -> Int]
  BY <1>2, <1>5
<1>8. Calling(c)' /\ ~Unmounting(c)' /\ (Is(c, "mount")' <=> Is(c, "mount"))
      /\ (Is(c, "mount") => call'[c].slot = call[c].slot /\ call'[c].req = call[c].req)
  BY <1>2, <1>3 DEF Calling, Unmounting, Is, Idle
<1>9. \A d \in Clients \ {c} : workdir'[d] = workdir[d] /\ call'[d] = call[d]
  BY <1>2, <1>3 DEF Types
<1> QED BY <1>1, <1>2, <1>3, <1>4, <1>5, <1>6, <1>8, <1>9, WalkFrame DEF Walks

LEMMA ChdirStep ==
  ASSUME Tame, IInv, NEW c \in Clients, NEW r \in Requests, Chdir(c, r)
  PROVE  IInv'
<1> DEFINE from == IF Head(r.path) = Up THEN workdir[c] ELSE Root
           called == [pc |-> "lookup", req |-> r, rest |-> r.path, dirp |-> from, rip |-> Root,
                      slot |-> ROOT_DEVICE]
<1>1. \A d \in Clients : ~Unmounting(d)
  BY DEF Chdir, Settled, Tame
<1>2. /\ status = "up" /\ Still /\ Idle(c) /\ workdir[c] # nil /\ workdir' = workdir
      /\ r.op = "chdir"
      /\ call' = [call EXCEPT ![c] = called]
      /\ count' = [i \in Inodes |-> count[i] + One(i, {from}) - One(i, {})]
  BY DEF Chdir, MayCall, Follow, Moved, Dup, Still, tables
<1>3. Types /\ Calling(c) /\ call[c].pc = "idle" /\ Placed
  BY <1>2, Known DEF Idle
<1>4. r.path \in Seq(Names \cup {Up}) /\ r.path # <<>>
  BY <1>2, RequestsAssumption DEF RequestsAssumption
<1>5. workdir[c] \in Inodes /\ OnDevice(workdir[c])
  BY <1>2, <1>3 DEF Types, Placed
<1>6. from \in Inodes /\ OnDevice(from)
  BY <1>5, Places DEF OnDevice, Root
<1> HIDE DEF from
<1>7. called \in Calls
  BY <1>4, <1>6, Places DEF Calls, Stages
<1>8. /\ workdir' \in [Clients -> Inodes \cup {nil}] /\ call' \in [Clients -> Calls]
      /\ call'[c] = called
      /\ \A d \in Clients \ {c} : workdir'[d] = workdir[d] /\ call'[d] = call[d]
  BY <1>2, <1>3, <1>7 DEF Types
<1>9. /\ call'[c].pc = "lookup" /\ call'[c].req = r /\ call'[c].rest = r.path
      /\ call'[c].dirp = from
  BY <1>8
<1>10. ASSUME NEW i \in Inodes
      PROVE  count'[i] \in Int /\ count'[i] = count[i] - Own(c, i) + Own(c, i)'
  <2>1. count[i] \in Int
    BY <1>3 DEF Types
  <2>2. count'[i] = IF i = from THEN count[i] + 1 ELSE count[i]
    BY <1>2, <2>1 DEF One
  <2> DEFINE w == IF workdir[c] = i THEN 1 ELSE 0
  <2>3. Own(c, i) = w /\ Own(c, i)' = w + (IF i = from THEN 1 ELSE 0)
    BY <1>2, <1>3, <1>9 DEF Own, CallRef
  <2> QED BY <2>1, <2>2, <2>3
<1>11. count' \in [Inodes -> Int]
  BY <1>2, <1>10
<1>12. Calling(c)' /\ ~Unmounting(c)' /\ ~Is(c, "mount")' /\ ~Is(c, "mount")
  BY <1>2, <1>3, <1>4, <1>9 DEF Calling, Unmounting, Is, Idle
<1>13. OnDevice(call'[c].dirp) /\ OnDevice(workdir'[c])
  BY <1>2, <1>5, <1>6, <1>9
<1> HIDE DEF called
<1> QED BY <1>1, <1>2, <1>3, <1>8, <1>9, <1>10, <1>11, <1>12, <1>13, WalkFrame DEF Walks

LEMMA Walker ==
  ASSUME IInv, NEW c \in Clients, status = "up", call[c].pc \in {"lookup", "cross", "found"}
  PROVE  /\ Types /\ Calling(c) /\ ~Idle(c) /\ (Is(c, "mount") <=> ~Is(c, "chdir"))
         /\ call[c].req.op \in {"chdir", "mount"} /\ call[c].req \in Requests
         /\ (Is(c, "mount") <=> call[c].req.op = "mount")
         /\ call[c] \in Calls /\ call[c].dirp \in Inodes /\ call[c].rip \in Inodes
         /\ call[c].rest \in Seq(Names \cup {Up})
         /\ call[c].pc # "found" => call[c].rest # <<>> /\ OnDevice(call[c].dirp)
         /\ call[c].pc # "lookup" => OnDevice(call[c].rip)
         /\ workdir[c] # nil => OnDevice(workdir[c])
         /\ \A d \in Clients : ~Unmounting(d)
<1>1. /\ Types /\ Calling(c) /\ call[c] \in Calls /\ Placed
      /\ call[c].req \in Requests \cup {NoRequest}
      /\ call[c].dirp \in Inodes /\ call[c].rip \in Inodes /\ call[c].rest \in Seq(Names \cup {Up})
  BY Known DEF Calls
<1>2. ~Idle(c) /\ call[c].req.op \in {"chdir", "mount"}
  BY <1>1 DEF Idle, Calling
<1>3. call[c].req # NoRequest
  BY <1>2 DEF NoRequest
<1>4. ~Unmounting(c) /\ (Is(c, "mount") <=> call[c].req.op = "mount") /\ (Is(c, "mount") <=> ~Is(c, "chdir"))
  BY <1>2 DEF Unmounting, Is
<1>5. \A d \in Clients : ~Unmounting(d)
  BY <1>2, <1>4, Settling
<1>6. /\ call[c].pc # "found" => call[c].rest # <<>> /\ OnDevice(call[c].dirp)
      /\ call[c].pc # "lookup" => OnDevice(call[c].rip)
      /\ workdir[c] # nil => OnDevice(workdir[c])
  BY <1>1 DEF Calling, Placed
<1> QED BY <1>1, <1>2, <1>3, <1>4, <1>5, <1>6

\* A walk that goes on: the client goes from one step of it to another, with the
\* same request and slot.
LEMMA WalkOn ==
  ASSUME IInv, NEW c \in Clients, status = "up", Still, UNCHANGED workdir,
         call[c].pc \in {"lookup", "cross", "found"},
         NEW k \in Calls, call' = [call EXCEPT ![c] = k],
         k.req = call[c].req, k.slot = call[c].slot,
         k.pc \in {"lookup", "cross", "found"}, k.pc # "found" => k.rest # <<>>,
         k.pc \in {"lookup", "cross"} => OnDevice(k.dirp),
         k.pc \in {"cross", "found"} => OnDevice(k.rip),
         count' \in [Inodes -> Int],
         \A i \in Inodes : count'[i] = count[i] - Own(c, i) + Own(c, i)'
  PROVE  IInv'
<1>1. /\ Types /\ Calling(c) /\ ~Idle(c) /\ call[c].req.op \in {"chdir", "mount"}
      /\ (workdir[c] # nil => OnDevice(workdir[c]))
      /\ \A d \in Clients : ~Unmounting(d)
  BY Walker
<1>2. call \in [Clients -> Calls] /\ workdir \in [Clients -> Inodes \cup {nil}]
  BY <1>1 DEF Types
<1>3. call' \in [Clients -> Calls] /\ call'[c] = k /\ \A d \in Clients \ {c} : call'[d] = call[d]
  BY <1>2
<1>4. Is(c, "chdir")' => Is(c, "chdir")
  BY <1>1, <1>3 DEF Is
<1>5. Calling(c)' /\ ~Unmounting(c)' /\ (Is(c, "mount")' <=> Is(c, "mount"))
  BY <1>1, <1>3, <1>4 DEF Calling, Unmounting, Is, Idle
<1> QED BY <1>1, <1>2, <1>3, <1>5, WalkFrame DEF Walks

LEMMA LookupStep ==
  ASSUME IInv, NEW c \in Clients, At(c, "lookup"),
         NEW i \in Named(call[c].dirp, Head(call[c].rest)),
         Moved({i}, {}), call' = [call EXCEPT ![c].pc = "cross", ![c].rip = i],
         UNCHANGED <<tables, lock, mount, rootproc, workdir, status>>
  PROVE  IInv'
<1> DEFINE k == [call[c] EXCEPT !.pc = "cross", !.rip = i]
<1>1. status = "up" /\ call[c].pc = "lookup" /\ Still /\ UNCHANGED workdir
  BY DEF At, Still
<1>2. /\ Types /\ call[c] \in Calls /\ call[c].dirp \in Inodes /\ call[c].rest \in Seq(Names \cup {Up})
      /\ call[c].rest # <<>> /\ OnDevice(call[c].dirp)
  BY <1>1, Walker
<1>3. Head(call[c].rest) \in Names \cup {Up}
  BY <1>2
<1>4. i \in Inodes /\ OnDevice(i)
  BY <1>1, <1>2, <1>3, NamedIs
<1>5. k \in Calls /\ call' = [call EXCEPT ![c] = k]
  BY <1>2, <1>4 DEF Calls, Stages, Types
<1>6. /\ k.req = call[c].req /\ k.slot = call[c].slot /\ k.pc = "cross" /\ k.rest = call[c].rest
      /\ k.dirp = call[c].dirp /\ k.rip = i
  BY <1>2 DEF Calls
<1>7. call'[c] = k
  BY <1>2, <1>5 DEF Types
<1> HIDE DEF k
<1>8. ASSUME NEW j \in Inodes
      PROVE  count'[j] \in Int /\ count'[j] = count[j] - Own(c, j) + Own(c, j)'
  <2>1. count[j] \in Int
    BY <1>2 DEF Types
  <2>2. count'[j] = IF j = i THEN count[j] + 1 ELSE count[j]
    BY <2>1 DEF One, Moved
  <2> DEFINE w == IF workdir[c] = j THEN 1 ELSE 0
             d == IF call[c].dirp = j THEN 1 ELSE 0
  <2>3. Own(c, j) = w + d /\ Own(c, j)' = w + d + (IF i = j THEN 1 ELSE 0)
    BY <1>1, <1>6, <1>7 DEF Own, CallRef
  <2> QED BY <2>1, <2>2, <2>3
<1>9. count' \in [Inodes -> Int]
  BY <1>8 DEF Moved
<1> QED BY <1>1, <1>2, <1>4, <1>5, <1>6, <1>8, <1>9, WalkOn

LEMMA CrossStep ==
  ASSUME IInv, NEW c \in Clients, At(c, "cross"), call[c].rip \in mount, NEW s \in Slots,
         InPlace(s), Moved({<<s, ROOT_INODE>>}, {call[c].rip}),
         call' = [call EXCEPT ![c].rip = <<s, ROOT_INODE>>],
         UNCHANGED <<tables, mount, rootproc, workdir, lock, status>>
  PROVE  IInv'
<1> DEFINE i == <<s, ROOT_INODE>>
           k == [call[c] EXCEPT !.rip = i]
<1>1. status = "up" /\ call[c].pc = "cross" /\ Still /\ UNCHANGED workdir
  BY DEF At, Still
<1>2. /\ Types /\ call[c] \in Calls /\ call[c].dirp \in Inodes /\ call[c].rest \in Seq(Names \cup {Up})
      /\ call[c].rest # <<>> /\ OnDevice(call[c].dirp) /\ call[c].rip \in Inodes
  BY <1>1, Walker
<1>3. i \in Inodes /\ OnDevice(i)
  BY Places DEF OnDevice
<1>4. Moved({i}, {call[c].rip})
  OBVIOUS
<1> HIDE DEF i
<1>5. k \in Calls /\ call' = [call EXCEPT ![c] = k]
  BY <1>2, <1>3 DEF Calls, Types, i
<1>6. /\ k.req = call[c].req /\ k.slot = call[c].slot /\ k.pc = "cross" /\ k.rest = call[c].rest
      /\ k.dirp = call[c].dirp /\ k.rip = i
  BY <1>1, <1>2 DEF Calls
<1>7. call'[c] = k
  BY <1>2, <1>5 DEF Types
<1> HIDE DEF k
<1>8. ASSUME NEW j \in Inodes
      PROVE  count'[j] \in Int /\ count'[j] = count[j] - Own(c, j) + Own(c, j)'
  <2> DEFINE w == IF workdir[c] = j THEN 1 ELSE 0
             d == IF call[c].dirp = j THEN 1 ELSE 0
             n == IF i = j THEN 1 ELSE 0
             o == IF call[c].rip = j THEN 1 ELSE 0
  <2>1. count[j] \in Int
    BY <1>2 DEF Types
  <2>2. count'[j] = count[j] + n - o
    BY <1>4, <2>1 DEF One, Moved
  <2>3. Own(c, j) = w + d + o /\ Own(c, j)' = w + d + n
    <3>1. Own(c, j) = w + d + o
      BY <1>1 DEF Own, CallRef
    <3>2. workdir'[c] = workdir[c] /\ call'[c].pc = "cross" /\ call'[c].dirp = call[c].dirp /\ call'[c].rip = i
      BY <1>1, <1>6, <1>7
    <3>3. Own(c, j)' = w + d + n
      BY <3>2 DEF Own, CallRef
    <3> QED BY <3>1, <3>3
  <2>4. w \in Nat /\ d \in Nat /\ n \in Nat /\ o \in Nat
    OBVIOUS
  <2> HIDE DEF w, d, n, o
  <2> QED BY <2>1, <2>2, <2>3, <2>4
<1>9. count' \in [Inodes -> Int]
  BY <1>4, <1>8 DEF Moved
<1> QED BY <1>1, <1>2, <1>3, <1>5, <1>6, <1>8, <1>9, WalkOn

LEMMA ArriveStep ==
  ASSUME IInv, NEW c \in Clients, Arrive(c)
  PROVE  IInv'
<1> DEFINE rest == Tail(call[c].rest)
           k == [call[c] EXCEPT !.pc = IF rest = <<>> THEN "found" ELSE "lookup",
                                !.rest = rest, !.dirp = call[c].rip]
<1>1. status = "up" /\ call[c].pc = "cross" /\ Still /\ UNCHANGED workdir
  BY DEF Arrive, At, Still
<1>2. /\ Types /\ call[c] \in Calls /\ call[c].dirp \in Inodes /\ call[c].rest \in Seq(Names \cup {Up})
      /\ call[c].rest # <<>> /\ OnDevice(call[c].rip) /\ call[c].rip \in Inodes
  BY <1>1, Walker
<1>3. rest \in Seq(Names \cup {Up})
  BY <1>2
<1>4. Moved({}, {call[c].dirp}) /\ call' = [call EXCEPT ![c] = k]
  BY <1>2 DEF Arrive, Types
<1> HIDE DEF rest
<1>5. k \in Calls
  BY <1>2, <1>3 DEF Calls, Stages
<1>6. /\ k.req = call[c].req /\ k.slot = call[c].slot /\ k.pc = (IF rest = <<>> THEN "found" ELSE "lookup")
      /\ k.rest = rest /\ k.dirp = call[c].rip /\ k.rip = call[c].rip
  BY <1>1, <1>2 DEF Calls
<1>7. call'[c] = k
  BY <1>2, <1>4 DEF Types
<1> HIDE DEF k
<1>8. ASSUME NEW j \in Inodes
      PROVE  count'[j] \in Int /\ count'[j] = count[j] - Own(c, j) + Own(c, j)'
  <2> DEFINE w == IF workdir[c] = j THEN 1 ELSE 0
             d == IF call[c].dirp = j THEN 1 ELSE 0
             o == IF call[c].rip = j THEN 1 ELSE 0
  <2>1. count[j] \in Int
    BY <1>2 DEF Types
  <2>2. count'[j] = count[j] - d
    BY <1>4, <2>1 DEF One, Moved
  <2>3. Own(c, j) = w + d + o /\ Own(c, j)' = w + o
    BY <1>1, <1>6, <1>7 DEF Own, CallRef
  <2>4. w \in Nat /\ d \in Nat /\ o \in Nat
    OBVIOUS
  <2> HIDE DEF w, d, o
  <2> QED BY <2>1, <2>2, <2>3, <2>4
<1>9. count' \in [Inodes -> Int]
  BY <1>4, <1>8 DEF Moved
<1>10. k.pc \in {"lookup", "found"} /\ (k.pc # "found" => k.rest # <<>>) /\ OnDevice(k.dirp) /\ OnDevice(k.rip)
  BY <1>2, <1>6
<1> QED BY <1>1, <1>4, <1>5, <1>6, <1>8, <1>9, <1>10, WalkOn

LEMMA NoCallIs == NoCall \in Calls /\ NoCall.pc = "idle" /\ NoCall.req.op = "none"
BY Places DEF NoCall, NoRequest, Calls, Stages

\* The end of a chdir.
LEMMA WalkEnds ==
  ASSUME IInv, NEW c \in Clients, status = "up", Still, Is(c, "chdir"),
         call[c].pc \in {"lookup", "cross", "found"},
         call' = [call EXCEPT ![c] = NoCall],
         NEW w \in Inodes \cup {nil}, w # nil => OnDevice(w), workdir' = [workdir EXCEPT ![c] = w],
         count' \in [Inodes -> Int],
         \A i \in Inodes : count'[i] = count[i] - Own(c, i) + Own(c, i)'
  PROVE  IInv'
<1>1. /\ Types /\ ~Is(c, "mount")
      /\ \A d \in Clients : ~Unmounting(d)
  BY Walker
<1>2. call \in [Clients -> Calls] /\ workdir \in [Clients -> Inodes \cup {nil}]
  BY <1>1 DEF Types
<1>3. /\ call' \in [Clients -> Calls] /\ workdir' \in [Clients -> Inodes \cup {nil}]
      /\ call'[c] = NoCall /\ workdir'[c] = w
      /\ \A d \in Clients \ {c} : workdir'[d] = workdir[d] /\ call'[d] = call[d]
  BY <1>2, NoCallIs
<1>4. call'[c].pc = "idle" /\ call'[c].req.op = "none"
  BY <1>3, NoCallIs
<1>5. Calling(c)' /\ ~Unmounting(c)' /\ ~Is(c, "mount")'
  BY <1>4 DEF Calling, Unmounting, Is, Idle
<1> QED BY <1>1, <1>3, <1>4, <1>5, WalkFrame DEF Walks

\* Only who mounts or unmounts holds the lock.
LEMMA NoLock ==
  ASSUME IInv, NEW c \in Clients, Is(c, "chdir")
  PROVE  lock \ {c} = lock
<1>1. c \notin lock
  BY Known DEF Locking, Unmounting, Is
<1> QED BY <1>1

LEMMA ChdirFails ==
  ASSUME IInv, NEW c \in Clients, At(c, "lookup"), Is(c, "chdir"), Moved({}, {call[c].dirp}),
         Return(c), UNCHANGED <<tables, mount, rootproc, workdir, status>>
  PROVE  IInv'
<1>1. status = "up" /\ call[c].pc = "lookup" /\ call' = [call EXCEPT ![c] = NoCall] /\ lock' = lock
  BY NoLock DEF At, Return
<1>2. Still /\ Types /\ call[c].dirp \in Inodes /\ (workdir[c] # nil => OnDevice(workdir[c]))
  BY <1>1, Walker DEF Still
<1>3. workdir[c] \in Inodes \cup {nil} /\ workdir' = [workdir EXCEPT ![c] = workdir[c]]
      /\ call'[c].pc = "idle" /\ call[c].pc = "lookup" /\ workdir'[c] = workdir[c]
  BY <1>1, <1>2, NoCallIs DEF Types
<1>8. ASSUME NEW j \in Inodes
      PROVE  count'[j] \in Int /\ count'[j] = count[j] - Own(c, j) + Own(c, j)'
  <2> DEFINE w == IF workdir[c] = j THEN 1 ELSE 0
             d == IF call[c].dirp = j THEN 1 ELSE 0
  <2>1. count[j] \in Int
    BY <1>2 DEF Types
  <2>2. count'[j] = count[j] - d
    BY <2>1 DEF One, Moved
  <2>3. Own(c, j) = w + d /\ Own(c, j)' = w
    BY <1>3 DEF Own, CallRef
  <2>4. w \in Nat /\ d \in Nat
    OBVIOUS
  <2> HIDE DEF w, d
  <2> QED BY <2>1, <2>2, <2>3, <2>4
<1>9. count' \in [Inodes -> Int]
  BY <1>8 DEF Moved
<1> QED BY <1>1, <1>2, <1>3, <1>8, <1>9, WalkEnds

LEMMA EndChdirStep ==
  ASSUME IInv, NEW c \in Clients, EndChdir(c)
  PROVE  IInv'
<1>1. /\ status = "up" /\ call[c].pc = "found" /\ call' = [call EXCEPT ![c] = NoCall] /\ lock' = lock
      /\ Is(c, "chdir") /\ Still
  BY NoLock DEF EndChdir, At, Return, Still
<1>2. /\ Types /\ call[c].rip \in Inodes /\ OnDevice(call[c].rip) /\ Calling(c)
      /\ OnDevice(workdir[c]) /\ workdir[c] # nil
  BY <1>1, Walker DEF Calling
<1>3. workdir[c] \in Inodes /\ call'[c].pc = "idle" /\ nil \notin Inodes
  BY <1>1, <1>2, NoCallIs, DevsAssumption DEF Types, DevsAssumption
<1>4. CASE IsDirectory(call[c].rip)
  <2>1. Moved({}, {workdir[c]}) /\ workdir' = [workdir EXCEPT ![c] = call[c].rip]
    BY <1>4 DEF EndChdir
  <2>2. workdir'[c] = call[c].rip
    BY <1>2, <2>1 DEF Types
  <2>3. ASSUME NEW j \in Inodes
        PROVE  count'[j] \in Int /\ count'[j] = count[j] - Own(c, j) + Own(c, j)'
    <3> DEFINE w == IF workdir[c] = j THEN 1 ELSE 0
               d == IF call[c].rip = j THEN 1 ELSE 0
    <3>1. count[j] \in Int
      BY <1>2 DEF Types
    <3>2. count'[j] = count[j] - w
      BY <2>1, <3>1 DEF One, Moved
    <3>3. Own(c, j) = w + d /\ Own(c, j)' = d
      BY <1>1, <1>3, <2>2 DEF Own, CallRef
    <3>4. w \in Nat /\ d \in Nat
      OBVIOUS
    <3> HIDE DEF w, d
    <3> QED BY <3>1, <3>2, <3>3, <3>4
  <2>4. count' \in [Inodes -> Int]
    BY <2>1, <2>3 DEF Moved
  <2> QED BY <1>1, <1>2, <2>1, <2>3, <2>4, WalkEnds
<1>5. CASE ~IsDirectory(call[c].rip)
  <2>1. Moved({}, {call[c].rip}) /\ workdir' = workdir
    BY <1>5 DEF EndChdir
  <2>2. workdir' = [workdir EXCEPT ![c] = workdir[c]]
    BY <1>2, <2>1 DEF Types
  <2>3. ASSUME NEW j \in Inodes
        PROVE  count'[j] \in Int /\ count'[j] = count[j] - Own(c, j) + Own(c, j)'
    <3> DEFINE w == IF workdir[c] = j THEN 1 ELSE 0
               d == IF call[c].rip = j THEN 1 ELSE 0
    <3>1. count[j] \in Int
      BY <1>2 DEF Types
    <3>2. count'[j] = count[j] - d
      BY <2>1, <3>1 DEF One, Moved
    <3>3. Own(c, j) = w + d /\ Own(c, j)' = w
      BY <1>1, <1>3, <2>1 DEF Own, CallRef
    <3>4. w \in Nat /\ d \in Nat
      OBVIOUS
    <3> HIDE DEF w, d
    <3> QED BY <3>1, <3>2, <3>3, <3>4
  <2>4. count' \in [Inodes -> Int]
    BY <2>1, <2>3 DEF Moved
  <2> QED BY <1>1, <1>2, <1>3, <2>2, <2>3, <2>4, WalkEnds
<1> QED BY <1>4, <1>5
-----------------------------------------------------------------------------
(* Mount. *)

LEMMA MaxExists ==
  ASSUME NEW S \in SUBSET Slots, S # {}
  PROVE  \E s \in S : \A r \in S : r <= s
<1> DEFINE R == OpToRel(<, Nat)
           T == {n \in Nat : \E s \in S : n = NR_DEVICES - s}
<1>0. NR_DEVICES \in Nat /\ \A s \in S : s \in Nat /\ s < NR_DEVICES /\ NR_DEVICES - s \in Nat
  BY SlotsAssumption DEF SlotsAssumption, Slots
<1>1. T \subseteq Nat /\ T # {}
  <2>1. PICK s \in S : TRUE
    OBVIOUS
  <2>2. NR_DEVICES - s \in T
    BY <1>0, <2>1
  <2> QED BY <2>2
<1>2. IsWellFoundedOn(R, Nat)
  BY NatLessThanWellFounded
<1>3. PICK x \in T : \A y \in T : ~ (<<y, x>> \in R)
  <2> HIDE DEF R, T
  <2> QED BY <1>1, <1>2, WFMin
<1>4. PICK s \in S : x = NR_DEVICES - s
  BY <1>3
<1>5. ASSUME NEW r \in S PROVE r <= s
  <2>1. NR_DEVICES - r \in T
    BY <1>0
  <2>2. ~(<<NR_DEVICES - r, x>> \in R)
    BY <1>3, <2>1
  <2>3. ~(NR_DEVICES - r < x)
    BY <2>1, <2>2, <1>3 DEF OpToRel
  <2> QED BY <1>0, <1>4, <2>3
<1> QED BY <1>5

LEMMA FreeIs ==
  ASSUME \E s \in Slots : devices[s] = nil
  PROVE  FreeIndex \in Slots /\ devices[FreeIndex] = nil
         /\ \A u \in Slots : devices[u] = nil => u <= FreeIndex
<1> DEFINE F == {s \in Slots : devices[s] = nil}
<1>1. F \in SUBSET Slots /\ F # {}
  OBVIOUS
<1>2. PICK s \in F : \A r \in F : r <= s
  BY <1>1, MaxExists
<1>3. \E v \in Slots : devices[v] = nil /\ \A u \in Slots : devices[u] = nil => u <= v
  BY <1>2
<1> QED BY <1>3 DEF FreeIndex

\* A device without a file system is closed again.
LEMMA MountRefused ==
  ASSUME IInv, NEW c \in Clients, NEW dev, \A s \in Slots : devices[s] # dev, open' = open \ {dev},
         UNCHANGED <<devices, devs, count, lock, call, mountinfo, mount, rootproc, workdir, status>>
  PROVE  IInv'
<1>1. /\ Types /\ CountIsReferences /\ MountedIsRead /\ Locking /\ Placed /\ Flags /\ Closed
      /\ \A d \in Clients : Calling(d) /\ Mounting(d) /\ Undoing(d)
      /\ \A s \in Slots : Filled(s)
  BY Known
<1>2. \A s : InPlace(s)' <=> InPlace(s)
  BY DEF InPlace, Mounted, IsGiven
<1>3. Types' /\ MountedIsRead' /\ Locking' /\ Closed'
  BY <1>1 DEF Types, MountedIsRead, Locking, Closed, Is, Idle, Unmounting
<1>4. Placed' /\ Flags'
  BY <1>1, <1>2 DEF Placed, Flags, OnDevice
<1>5. CountIsReferences'
  <2>1. /\ count \in [Inodes -> Int] /\ UNCHANGED <<mountinfo, rootproc>>
        /\ \A d \in Clients \ {c} : workdir'[d] = workdir[d] /\ call'[d] = call[d]
    BY <1>1 DEF Types
  <2>2. ASSUME NEW i \in Inodes
        PROVE  count'[i] = count[i] - Own(c, i) + Own(c, i)'
    <3>1. Own(c, i)' = Own(c, i) /\ Own(c, i) \in Nat /\ count[i] \in Int
      BY <2>1 DEF Own, CallRef
    <3> QED BY <3>1
  <2> QED BY <1>1, <1>2, <2>1, <2>2, OwnMoved
<1>6. \A d \in Clients : Calling(d)' /\ Mounting(d)' /\ Undoing(d)'
  BY <1>1 DEF Calling, Mounting, Undoing, Is, Idle, Mounted, Busy, Users
<1>7. \A s \in Slots : Filled(s)'
  BY <1>1 DEF Filled, Mounted, Is, Idle
<1> QED BY <1>3, <1>4, <1>5, <1>6, <1>7 DEF IInv

LEMMA MountStep ==
  ASSUME Tame, IInv, NEW c \in Clients, NEW r \in Requests, Mount(c, r)
  PROVE  IInv'
<1>1. CASE r.dev \in Strange
  <2>1. \A s \in Slots : devices[s] # r.dev
    BY DEF Mount
  <2>2. open' = open \ {r.dev}
        /\ UNCHANGED <<devices, devs, count, lock, call, mountinfo, mount, rootproc, workdir, status>>
    BY <1>1 DEF Mount
  <2> QED BY <2>1, <2>2, MountRefused
<1>2. CASE r.dev \notin Strange
  <2>1. PICK s \in Slots : s = FreeIndex /\ devices[s] = nil
                           /\ \A u \in Slots : devices[u] = nil => u <= s
    BY FreeIs DEF Mount
  <2> DEFINE called == [pc |-> "lookup", req |-> r, rest |-> r.path, dirp |-> Root, rip |-> Root, slot |-> s]
  <2>2. /\ r.op = "mount" /\ status = "up" /\ call[c].pc = "idle" /\ lock = {} /\ r.dev \in open
        /\ \A u \in Slots : devices[u] # r.dev
        /\ devs[s] = nil
        /\ devices' = [devices EXCEPT ![s] = r.dev]
        /\ devs' = [devs EXCEPT ![s] = IF @ = nil THEN r.dev ELSE @]
        /\ count' = [i \in Inodes |-> count[i] + One(i, {Root}) - One(i, {})]
        /\ call' = [call EXCEPT ![c] = called]
        /\ lock' = {c}
        /\ UNCHANGED <<open, mountinfo, mount, rootproc, workdir, status>>
    BY <1>2, <2>1 DEF Mount, MayCall, Idle, Follow, Moved, Dup, Tame
  <2>3. r.path \in Seq(Names \cup {Up}) /\ r.path # <<>> /\ r.dev \in Devs /\ r.dev # nil
    BY <2>2, RequestsAssumption, DevsAssumption DEF RequestsAssumption, DevsAssumption
  <2>4. /\ Types /\ CountIsReferences /\ MountedIsRead /\ Locking /\ Placed /\ Flags /\ Closed
        /\ \A d \in Clients : Calling(d) /\ Mounting(d) /\ Undoing(d)
        /\ \A t \in Slots : Filled(t)
    BY Known
  <2>5. \A d \in Clients : /\ ~Is(d, "mount") /\ ~Unmounting(d)
                           /\ call[d].pc \in {"idle", "lookup", "cross", "found"}
    BY <2>2, LockFree
  <2>6. called \in Calls
    BY <2>3, Places DEF Calls, Stages
  <2>7. /\ call' \in [Clients -> Calls] /\ call'[c] = called
        /\ \A d \in Clients \ {c} : call'[d] = call[d]
    BY <2>2, <2>4, <2>6 DEF Types
  <2>8. /\ call'[c].pc = "lookup" /\ call'[c].req = r /\ call'[c].rest = r.path
        /\ call'[c].dirp = Root /\ call'[c].slot = s
    BY <2>7
  <2> HIDE DEF called
  <2>9. /\ devices'[s] = r.dev /\ devs'[s] = r.dev
        /\ \A u \in Slots \ {s} : devices'[u] = devices[u] /\ devs'[u] = devs[u]
        /\ devices' \in [Slots -> Devs \cup {nil}] /\ devs' \in [Slots -> Devs \cup {nil}]
    BY <2>2, <2>3, <2>4 DEF Types
  <2>10. s # ROOT_DEVICE /\ s \in Nat /\ ROOT_DEVICE < s
    <3>1. s # ROOT_DEVICE
      BY <2>1, <2>2, <2>4 DEF Closed
    <3> QED BY <3>1, SlotsAssumption DEF Slots, ROOT_DEVICE, SlotsAssumption
  <2>11. mountinfo[s] = NoMount
    BY <2>2, <2>4 DEF Filled
  <2>12. \A t \in Slots : ~IsGiven(t) /\ ~IsGiven(t)'
    <3>1. \A d \in Clients : call[d].pc # "close" /\ call'[d].pc # "close"
      BY <2>5, <2>7, <2>8
    <3> QED BY <3>1 DEF IsGiven
  <2>13. \A t : InPlace(t)' <=> InPlace(t)
    <3>1. ~InPlace(s) /\ ~InPlace(s)'
      BY <2>1, <2>2, <2>11 DEF InPlace, Mounted
    <3>2. ASSUME NEW t \in Slots \ {s} PROVE InPlace(t)' <=> InPlace(t)
      BY <2>2, <2>9, <2>12 DEF InPlace, Mounted
    <3>3. \A t : t \notin Slots => ~InPlace(t) /\ ~InPlace(t)'
      BY DEF InPlace, Mounted
    <3> QED BY <3>1, <3>2, <3>3
  <2>14. \A t \in Slots : t \in Mounted' <=> t \in Mounted \/ t = s
    BY <2>3, <2>9, <2>10 DEF Mounted
  <2>20. ASSUME NEW i \in Inodes
        PROVE  count'[i] \in Int /\ count'[i] = count[i] - Own(c, i) + Own(c, i)'
    <3>1. count[i] \in Int
      BY <2>4 DEF Types
    <3>2. count'[i] = IF i = Root THEN count[i] + 1 ELSE count[i]
      BY <2>2, <3>1 DEF One
    <3> DEFINE w == IF workdir[c] = i THEN 1 ELSE 0
    <3>3. Own(c, i) = w /\ Own(c, i)' = w + (IF i = Root THEN 1 ELSE 0)
      BY <2>2, <2>8 DEF Own, CallRef
    <3> QED BY <3>1, <3>2, <3>3
  <2>21. Types'
    <3>1. count' \in [Inodes -> Int]
      BY <2>2, <2>20
    <3> QED BY <2>2, <2>4, <2>7, <2>9, <3>1 DEF Types
  <2>22. CountIsReferences'
    <3>1. count \in [Inodes -> Int]
      BY <2>4 DEF Types
    <3> QED BY <2>2, <2>4, <2>7, <2>13, <2>20, <3>1, OwnMoved
  <2>23. MountedIsRead'
    <3>1. ASSUME NEW t \in Slots, devices'[t] # nil
          PROVE  devices'[t] \in open' /\ devs'[t] = devices'[t]
                 /\ \A u \in Slots : devices'[u] = devices'[t] => u = t
      <4>1. CASE t = s
        BY <2>2, <2>9, <4>1
      <4>2. CASE t # s
        BY <2>2, <2>4, <2>9, <3>1, <4>2 DEF MountedIsRead
      <4> QED BY <4>1, <4>2
    <3> QED BY <3>1 DEF MountedIsRead
  <2>24. /\ \A d \in Clients : Is(d, "mount")' <=> d = c
         /\ \A d \in Clients : ~Unmounting(d)'
    BY <2>2, <2>5, <2>7, <2>8 DEF Is, Idle, Unmounting
  <2>25. Locking'
    BY <2>2, <2>24 DEF Locking
  <2>26. Placed'
    <3>1. ASSUME NEW d \in Clients
          PROVE  /\ workdir'[d] # nil => OnDevice(workdir'[d])
                 /\ call'[d].pc \in {"lookup", "cross"} => OnDevice(call'[d].dirp)
                 /\ call'[d].pc \in {"cross", "found", "rooted", "flagged"} => OnDevice(call'[d].rip)
      <4>1. workdir'[d] # nil => OnDevice(workdir'[d])
        BY <2>2, <2>4 DEF Placed
      <4>2. CASE d = c
        BY <2>8, <4>1, <4>2 DEF OnDevice, Root
      <4>3. CASE d # c
        BY <2>4, <2>7, <4>1, <4>3 DEF Placed
      <4> QED BY <4>2, <4>3
    <3>2. mountinfo' = mountinfo /\ \A t : InPlace(t)' <=> InPlace(t)
      BY <2>2, <2>13
    <3> QED BY <2>4, <3>1, <3>2, PlacedIf
  <2>27. Flags'
    <3>1. {mountinfo'[t].imount : t \in {t \in Slots : InPlace(t)'}}
          = {mountinfo[t].imount : t \in {t \in Slots : InPlace(t)}}
      BY <2>2, <2>13
    <3>2. {d \in Clients : call'[d].pc = "flagged"} = {} /\ {d \in Clients : call[d].pc = "flagged"} = {}
      BY <2>5, <2>7, <2>8
    <3> QED BY <2>2, <2>4, <3>1, <3>2 DEF Flags
  <2>28. Closed'
    BY <2>2, <2>4, <2>9, <2>10, Places DEF Closed
  <2>29. ASSUME NEW d \in Clients
         PROVE  Calling(d)' /\ Mounting(d)' /\ Undoing(d)'
    <3>1. CASE d = c
      <4>1. Calling(c)'
        BY <2>2, <2>3, <2>8 DEF Calling, Is, Idle
      <4>2. Undoing(c)'
        BY <2>8 DEF Undoing
      <4>3. \A u \in Slots : ROOT_DEVICE < u /\ u < s => devs'[u] = nil
        <5>1. ASSUME NEW u \in Slots, ROOT_DEVICE < u, u < s, devs[u] # nil
              PROVE  FALSE
          <6>1. u # ROOT_DEVICE /\ u < s
            BY <5>1 DEF Slots, ROOT_DEVICE
          <6> QED BY <2>2, <2>4, <5>1, <6>1 DEF Filled
        <5>2. \A u \in Slots : u < s => u # s
          BY DEF Slots
        <5> QED BY <2>9, <5>1, <5>2
      <4>4. \A u \in Slots : devices'[u] = nil => devs'[u] = nil
        <5>1. ASSUME NEW u \in Slots, devices'[u] = nil
              PROVE  devs'[u] = nil
          <6>1. u # s /\ devices[u] = nil
            BY <2>3, <2>9, <5>1
          <6>2. u # ROOT_DEVICE
            BY <2>2, <2>4, <6>1 DEF Closed
          <6>3. u <= s
            BY <2>1, <6>1
          <6>4. ROOT_DEVICE < u /\ u < s
            BY <6>1, <6>2, <6>3, SlotsAssumption DEF Slots, ROOT_DEVICE, SlotsAssumption
          <6> QED BY <4>3, <6>4
        <5> QED BY <5>1
      <4>5. Mounting(c)'
        BY <2>2, <2>8, <2>9, <2>10, <2>11, <4>3, <4>4 DEF Mounting
      <4> QED BY <3>1, <4>1, <4>2, <4>5
    <3>2. CASE d # c
      BY <2>2, <2>4, <2>5, <2>7, <2>24, <3>2 DEF Calling, Mounting, Undoing, Is, Idle
    <3> QED BY <3>1, <3>2
  <2>30. ASSUME NEW t \in Slots
         PROVE  Filled(t)'
    <3>1. devs'[t] = nil => devs[t] = nil
      BY <2>3, <2>9, <2>2
    <3>2. mountinfo' = mountinfo /\ Filled(t)
      BY <2>2, <2>4
    <3>3. devs'[t] # nil /\ t # ROOT_DEVICE => \A u \in Slots : t < u => devs'[u] # nil
      <4>1. CASE t = s
        <5>1. ASSUME NEW u \in Slots, s < u PROVE devs'[u] # nil
          <6>1. u # s /\ ~(u <= s)
            BY <5>1 DEF Slots
          <6>2. devices[u] # nil
            BY <2>1, <6>1
          <6> QED BY <2>4, <2>9, <6>1, <6>2 DEF MountedIsRead
        <5> QED BY <4>1, <5>1
      <4>2. CASE t # s
        BY <2>3, <2>9, <3>2, <4>2 DEF Filled
      <4> QED BY <4>1, <4>2
    <3>4. ASSUME t \in Mounted', mountinfo[t] = NoMount
          PROVE  \E d \in Clients : Is(d, "mount")' /\ call'[d].slot = t
      <4>1. CASE t = s
        BY <2>8, <2>24, <4>1
      <4>2. CASE t # s
        BY <2>5, <2>14, <3>2, <3>4, <4>2 DEF Filled
      <4> QED BY <4>1, <4>2
    <3> QED BY <3>1, <3>2, <3>3, <3>4 DEF Filled
  <2> QED BY <2>21, <2>22, <2>23, <2>25, <2>26, <2>27, <2>28, <2>29, <2>30 DEF IInv
<1> QED BY <1>1, <1>2

\* Who mounts is the only one to mount or unmount.
LEMMA Mounter ==
  ASSUME IInv, NEW c \in Clients, Is(c, "mount")
  PROVE  /\ lock = {c} /\ ~Unmounting(c) /\ call[c].req.op = "mount"
         /\ call[c].pc \in {"lookup", "cross", "found", "hung", "rooted", "flagged"}
         /\ call[c] \in Calls /\ call[c].rip \in Inodes /\ call[c].slot \in Slots
         /\ call[c].req.dev # nil
         /\ \A s : ~IsGiven(s)
         /\ \A d \in Clients : ~Unmounting(d) /\ (Is(d, "mount") <=> d = c)
         /\ \A d \in Clients \ {c} : call[d].pc \in Walks
<1>1. /\ Locking /\ Calling(c) /\ call[c] \in Calls
      /\ \A d \in Clients : call[d] \in Calls /\ Calling(d)
  BY Known
<1>2. ~Idle(c) /\ call[c].req.op = "mount" /\ ~Unmounting(c)
  BY DEF Is, Unmounting
<1>3. c \in lock /\ \A d \in lock : d = c
  BY <1>1 DEF Locking
<1>4. lock = {c}
  BY <1>3
<1>5. \A d \in Clients : ~Unmounting(d) /\ (Is(d, "mount") <=> d = c)
  <2>1. ASSUME NEW d \in Clients
        PROVE  d # c => ~Is(d, "mount") /\ ~Unmounting(d)
    BY <1>1, <1>4 DEF Locking
  <2> QED BY <1>2, <2>1
<1>6. \A d \in Clients : call[d].pc \notin {"next", "unmount", "release", "close"}
  BY <1>5, Given1
<1>7. \A s : ~IsGiven(s)
  BY <1>6 DEF IsGiven
<1>8. ASSUME NEW d \in Clients \ {c}
      PROVE  call[d].pc \in Walks
  <2>1. call[d].pc \in Stages /\ Calling(d) /\ ~Is(d, "mount")
    BY <1>1, <1>5 DEF Calls
  <2> QED BY <1>6, <2>1 DEF Calling, Is, Idle, Stages, Walks
<1>9. call[c].req \in Requests
  BY <1>1, <1>2 DEF Calls, NoRequest
<1>10. call[c].req.dev # nil
  BY <1>2, <1>9, RequestsAssumption, DevsAssumption DEF RequestsAssumption, DevsAssumption
<1>11. call[c].pc \in Stages /\ call[c].pc # "idle"
  BY <1>1, <1>2 DEF Calls, Idle
<1>12. call[c].pc \in {"lookup", "cross", "found", "hung", "rooted", "flagged"}
  BY <1>6, <1>11 DEF Stages
<1> QED BY <1>1, <1>2, <1>4, <1>5, <1>7, <1>8, <1>10, <1>12 DEF Calls

\* A step of a mount in which the tables stay as they are.
LEMMA MountGoes ==
  ASSUME IInv, NEW c \in Clients, Is(c, "mount"), call[c].pc \in {"found", "rooted"},
         UNCHANGED <<tables, rootproc, workdir, lock>>, status = "up", status' \in {"up", "down"},
         NEW p \in {"hung", "rooted", "flagged"}, Go(c, p),
         count' \in [Inodes -> Int],
         \A i \in Inodes : count'[i] = count[i] - Own(c, i) + Own(c, i)',
         p # "hung" => \A u \in Slots : mountinfo[u].imount # call[c].rip,
         mount' = mount \cup (IF p = "flagged" THEN {call[c].rip} ELSE {})
  PROVE  IInv'
<1>1. /\ Types /\ CountIsReferences /\ MountedIsRead /\ Locking /\ Placed /\ Flags /\ Closed
      /\ \A d \in Clients : Calling(d) /\ Mounting(d) /\ Undoing(d)
      /\ \A s \in Slots : Filled(s)
  BY Known
<1>2. /\ lock = {c} /\ ~Unmounting(c) /\ call[c].req.op = "mount" /\ call[c] \in Calls
      /\ call[c].rip \in Inodes
      /\ \A s : ~IsGiven(s)
      /\ \A d \in Clients : ~Unmounting(d) /\ (Is(d, "mount") <=> d = c)
      /\ \A d \in Clients \ {c} : call[d].pc \in Walks
  BY Mounter
<1>3. UNCHANGED <<devices, mountinfo, devs, open, rootproc, workdir, lock>>
  BY DEF tables
<1>4. [call[c] EXCEPT !.pc = p] \in Calls
  BY <1>2 DEF Calls, Stages
<1>5. call' = [call EXCEPT ![c] = [call[c] EXCEPT !.pc = p]]
  BY DEF Go
<1>6. /\ call' \in [Clients -> Calls]
      /\ call'[c] = [call[c] EXCEPT !.pc = p]
      /\ \A d \in Clients \ {c} : call'[d] = call[d]
  BY <1>1, <1>4, <1>5 DEF Types
<1>7. /\ call'[c].pc = p /\ call'[c].req = call[c].req /\ call'[c].rip = call[c].rip
      /\ call'[c].slot = call[c].slot
  BY <1>2, <1>6 DEF Calls
<1>8. \A s : ~IsGiven(s) /\ ~IsGiven(s)'
  <2>1. \A d \in Clients : call'[d].pc # "close"
    BY <1>2, <1>6, <1>7 DEF Walks
  <2> QED BY <1>2, <2>1 DEF IsGiven
<1>9. \A s : InPlace(s)' <=> InPlace(s)
  BY <1>3, <1>8 DEF InPlace, Mounted
<1>10. Types'
  <2>1. mount' \subseteq Inodes
    BY <1>1, <1>2 DEF Types
  <2>2. /\ devices \in [Slots -> Devs \cup {nil}] /\ devs \in [Slots -> Devs \cup {nil}]
        /\ mountinfo \in [Slots -> [imount : Inodes \cup {nil}, isup : Inodes \cup {nil}]]
        /\ open \subseteq Devs /\ rootproc \in BOOLEAN
        /\ workdir \in [Clients -> Inodes \cup {nil}] /\ lock \subseteq Clients
    BY <1>1 DEF Types
  <2> QED BY <1>3, <1>6, <2>1, <2>2 DEF Types
<1>11. CountIsReferences'
  <2>1. count \in [Inodes -> Int]
    BY <1>1 DEF Types
  <2> QED BY <1>1, <1>3, <1>6, <1>9, <2>1, OwnMoved
<1>12. MountedIsRead' /\ Closed'
  BY <1>1, <1>3 DEF MountedIsRead, Closed
<1>13. \A d \in Clients : (Is(d, "mount")' <=> d = c) /\ ~Unmounting(d)'
  <2>1. Is(c, "mount")' /\ ~Unmounting(c)'
    BY <1>2, <1>7 DEF Is, Idle, Unmounting
  <2>2. \A d \in Clients \ {c} : (Is(d, "mount")' <=> Is(d, "mount")) /\ (Unmounting(d)' <=> Unmounting(d))
    BY <1>6 DEF Is, Idle, Unmounting
  <2> QED BY <1>2, <2>1, <2>2
<1>14. Locking'
  BY <1>2, <1>3, <1>13 DEF Locking
<1>15. Placed'
  <2>1. ASSUME NEW d \in Clients
        PROVE  /\ workdir'[d] # nil => OnDevice(workdir'[d])
               /\ call'[d].pc \in {"lookup", "cross"} => OnDevice(call'[d].dirp)
               /\ call'[d].pc \in {"cross", "found", "rooted", "flagged"} => OnDevice(call'[d].rip)
    <3>1. CASE d = c
      BY <1>1, <1>3, <1>7, <3>1 DEF Placed
    <3>2. CASE d # c
      BY <1>1, <1>3, <1>6, <3>2 DEF Placed
    <3> QED BY <3>1, <3>2
  <2> QED BY <1>1, <1>3, <1>9, <2>1, PlacedIf
<1>16. Flags'
  <2>1. {mountinfo'[s].imount : s \in {s \in Slots : InPlace(s)'}}
        = {mountinfo[s].imount : s \in {s \in Slots : InPlace(s)}}
    BY <1>3, <1>9
  <2>2. {d \in Clients : call[d].pc = "flagged"} = {}
    BY <1>2 DEF Walks
  <2>3. CASE p = "flagged"
    <3>1. {d \in Clients : call'[d].pc = "flagged"} = {c}
      <4>1. \A d \in Clients : call'[d].pc = "flagged" <=> d = c
        BY <1>2, <1>6, <1>7, <2>3 DEF Walks
      <4> QED BY <4>1
    <3>2. {call'[d].rip : d \in {d \in Clients : call'[d].pc = "flagged"}} = {call[c].rip}
      BY <1>7, <3>1
    <3> QED BY <1>1, <2>1, <2>2, <2>3, <3>2 DEF Flags
  <2>4. CASE p # "flagged"
    <3>1. {d \in Clients : call'[d].pc = "flagged"} = {}
      BY <1>2, <1>6, <1>7, <2>4 DEF Walks
    <3> QED BY <1>1, <2>1, <2>2, <2>4, <3>1 DEF Flags
  <2> QED BY <2>3, <2>4
<1>17. ASSUME NEW d \in Clients
       PROVE  Calling(d)' /\ Mounting(d)' /\ Undoing(d)'
  <2>1. CASE d = c
    <3>1. Calling(c)' /\ Undoing(c)'
      BY <1>2, <1>3, <1>7 DEF Calling, Undoing, Is, Idle
    <3>2. Mounting(c)'
      BY <1>1, <1>3, <1>7 DEF Mounting
    <3> QED BY <2>1, <3>1, <3>2
  <2>2. CASE d # c
    BY <1>1, <1>2, <1>3, <1>6, <1>13, <2>2 DEF Calling, Mounting, Undoing, Is, Idle, Walks
  <2> QED BY <2>1, <2>2
<1>18. ASSUME NEW s \in Slots
       PROVE  Filled(s)'
  <2>1. ASSUME s \in Mounted, mountinfo[s] = NoMount
        PROVE  \E d \in Clients : Is(d, "mount")' /\ call'[d].slot = s
    <3>1. PICK d \in Clients : Is(d, "mount") /\ call[d].slot = s
      BY <1>1, <2>1 DEF Filled
    <3> QED BY <1>2, <1>7, <1>13, <3>1
  <2> QED BY <1>1, <1>3, <2>1 DEF Filled, Mounted
<1> QED BY <1>10, <1>11, <1>12, <1>14, <1>15, <1>16, <1>17, <1>18 DEF IInv

\* A mount that fails: its slot is free again, and the block cache may keep the
\* device or not.
LEMMA MountEnds ==
  ASSUME IInv, NEW c \in Clients, Is(c, "mount"), call[c].pc \in {"lookup", "found"},
         status = "up", Return(c),
         NEW s \in Slots, s = call[c].slot,
         devices' = [devices EXCEPT ![s] = nil],
         open' = open \ {call[c].req.dev},
         devs' = devs \/ devs' = [devs EXCEPT ![s] = nil],
         UNCHANGED <<mountinfo, mount, rootproc, workdir, status>>,
         count' \in [Inodes -> Int],
         \A i \in Inodes : count'[i] = count[i] - Own(c, i) + Own(c, i)'
  PROVE  IInv'
<1>1. /\ Types /\ CountIsReferences /\ MountedIsRead /\ Locking /\ Placed /\ Flags /\ Closed
      /\ \A d \in Clients : Calling(d) /\ Mounting(d) /\ Undoing(d)
      /\ \A t \in Slots : Filled(t)
  BY Known
<1>2. /\ lock = {c} /\ ~Unmounting(c)
      /\ \A t : ~IsGiven(t)
      /\ \A d \in Clients : ~Unmounting(d) /\ (Is(d, "mount") <=> d = c)
      /\ \A d \in Clients \ {c} : call[d].pc \in Walks
  BY Mounter
<1>3. /\ call' \in [Clients -> Calls] /\ call'[c] = NoCall
      /\ \A d \in Clients \ {c} : call'[d] = call[d]
  BY <1>1, NoCallIs DEF Types, Return
<1>4. call'[c].pc = "idle" /\ call'[c].req.op = "none" /\ lock' = {}
  BY <1>2, <1>3, NoCallIs DEF Return
<1>5. /\ s # ROOT_DEVICE /\ mountinfo[s] = NoMount /\ devices[s] = call[c].req.dev
      /\ \A u \in Slots : ROOT_DEVICE < u /\ u < s => devs[u] = nil
  BY <1>1 DEF Mounting
<1>6. /\ devices'[s] = nil
      /\ \A t \in Slots \ {s} : devices'[t] = devices[t] /\ devs'[t] = devs[t]
      /\ devices' \in [Slots -> Devs \cup {nil}] /\ devs' \in [Slots -> Devs \cup {nil}]
      /\ devs'[s] \in {devs[s], nil}
  BY <1>1 DEF Types
<1>7. \A t : ~IsGiven(t) /\ ~IsGiven(t)'
  <2>1. \A d \in Clients : call'[d].pc # "close"
    BY <1>2, <1>3, <1>4 DEF Walks
  <2> QED BY <1>2, <2>1 DEF IsGiven
<1>8. \A t : InPlace(t)' <=> InPlace(t)
  <2>1. ~InPlace(s) /\ ~InPlace(s)'
    BY <1>5 DEF InPlace
  <2>2. ASSUME NEW t \in Slots \ {s} PROVE InPlace(t)' <=> InPlace(t)
    BY <1>6, <1>7 DEF InPlace, Mounted
  <2>3. \A t : t \notin Slots => ~InPlace(t) /\ ~InPlace(t)'
    BY DEF InPlace, Mounted
  <2> QED BY <2>1, <2>2, <2>3
<1>9. Types'
  <2>1. open' \subseteq Devs /\ lock' \subseteq Clients
    BY <1>1, <1>4 DEF Types
  <2>2. /\ mountinfo \in [Slots -> [imount : Inodes \cup {nil}, isup : Inodes \cup {nil}]]
        /\ mount \subseteq Inodes /\ rootproc \in BOOLEAN
        /\ workdir \in [Clients -> Inodes \cup {nil}] /\ status \in {"up", "closed", "down"}
    BY <1>1 DEF Types
  <2> QED BY <1>3, <1>6, <2>1, <2>2 DEF Types
<1>10. CountIsReferences'
  <2>1. count \in [Inodes -> Int]
    BY <1>1 DEF Types
  <2> QED BY <1>1, <1>3, <1>8, <2>1, OwnMoved
<1>11. MountedIsRead'
  <2>1. ASSUME NEW t \in Slots, devices'[t] # nil
        PROVE  devices'[t] \in open' /\ devs'[t] = devices'[t]
               /\ \A u \in Slots : devices'[u] = devices'[t] => u = t
    <3>1. t # s /\ devices'[t] = devices[t] /\ devs'[t] = devs[t]
      BY <1>6, <2>1
    <3>2. /\ devices[t] \in open /\ devs[t] = devices[t]
          /\ \A u \in Slots : devices[u] = devices[t] => u = t
      BY <1>1, <2>1, <3>1 DEF MountedIsRead
    <3>3. devices[t] # call[c].req.dev
      BY <1>5, <3>1, <3>2
    <3>4. \A u \in Slots : devices'[u] = devices'[t] => u = t
      BY <1>6, <2>1, <3>1, <3>2
    <3> QED BY <3>1, <3>2, <3>3, <3>4
  <2> QED BY <2>1 DEF MountedIsRead
<1>12. Closed'
  BY <1>1, <1>5, <1>6, Places DEF Closed
<1>13. \A d \in Clients : ~Is(d, "mount")' /\ ~Unmounting(d)'
  BY <1>2, <1>3, <1>4 DEF Is, Idle, Unmounting
<1>14. Locking'
  BY <1>4, <1>13 DEF Locking
<1>15. Placed'
  <2>1. ASSUME NEW d \in Clients
        PROVE  /\ workdir'[d] # nil => OnDevice(workdir'[d])
               /\ call'[d].pc \in {"lookup", "cross"} => OnDevice(call'[d].dirp)
               /\ call'[d].pc \in {"cross", "found", "rooted", "flagged"} => OnDevice(call'[d].rip)
    <3>1. CASE d = c
      BY <1>1, <1>4, <3>1 DEF Placed
    <3>2. CASE d # c
      BY <1>1, <1>3, <3>2 DEF Placed
    <3> QED BY <3>1, <3>2
  <2> QED BY <1>1, <1>8, <2>1, PlacedIf
<1>16. Flags'
  <2>1. {mountinfo'[t].imount : t \in {t \in Slots : InPlace(t)'}}
        = {mountinfo[t].imount : t \in {t \in Slots : InPlace(t)}}
    BY <1>8
  <2>2. {d \in Clients : call[d].pc = "flagged"} = {} /\ {d \in Clients : call'[d].pc = "flagged"} = {}
    BY <1>2, <1>3, <1>4 DEF Walks
  <2> QED BY <1>1, <2>1, <2>2 DEF Flags
<1>17. ASSUME NEW d \in Clients
       PROVE  Calling(d)' /\ Mounting(d)' /\ Undoing(d)'
  <2>1. CASE d = c
    BY <1>4, <2>1 DEF Calling, Mounting, Undoing, Is, Idle
  <2>2. CASE d # c
    BY <1>1, <1>2, <1>3, <1>13, <2>2 DEF Calling, Mounting, Undoing, Is, Idle, Walks
  <2> QED BY <2>1, <2>2
<1>18. ASSUME NEW t \in Slots
       PROVE  Filled(t)'
  <2>1. Filled(t) /\ mountinfo' = mountinfo
    BY <1>1
  <2>2. devs'[t] = nil => mountinfo[t] = NoMount
    BY <1>5, <1>6, <2>1 DEF Filled
  <2>3. ASSUME devs'[t] # nil, t # ROOT_DEVICE, NEW u \in Slots, t < u
        PROVE  devs'[u] # nil
    <3>1. devs[t] # nil
      BY <1>6, <2>3
    <3>2. devs[u] # nil
      BY <2>1, <2>3, <3>1 DEF Filled
    <3>3. CASE u # s
      BY <1>6, <3>2, <3>3
    <3>4. CASE u = s
      <4>1. ROOT_DEVICE < t
        BY <2>3 DEF Slots, ROOT_DEVICE
      <4> QED BY <1>5, <2>3, <3>1, <3>4, <4>1
    <3> QED BY <3>3, <3>4
  <2>4. ~(t \in Mounted' /\ mountinfo[t] = NoMount)
    <3>1. ASSUME t \in Mounted', mountinfo[t] = NoMount
          PROVE  FALSE
      <4>1. t # s /\ t \in Mounted
        BY <1>6, <3>1 DEF Mounted
      <4>2. PICK d \in Clients : Is(d, "mount") /\ call[d].slot = t
        BY <2>1, <3>1, <4>1 DEF Filled
      <4> QED BY <1>2, <4>1, <4>2
    <3> QED BY <3>1
  <2> QED BY <2>1, <2>2, <2>3, <2>4 DEF Filled
<1> QED BY <1>9, <1>10, <1>11, <1>12, <1>14, <1>15, <1>16, <1>17, <1>18 DEF IInv

LEMMA MountFails ==
  ASSUME IInv, NEW c \in Clients, At(c, "lookup"), Is(c, "mount"), Moved({}, {call[c].dirp}),
         Fail(c), UNCHANGED <<mount, rootproc, workdir, status>>
  PROVE  IInv'
<1>1. status = "up" /\ call[c].pc = "lookup" /\ Return(c) /\ call' = [call EXCEPT ![c] = NoCall]
      /\ UNCHANGED <<mountinfo, mount, rootproc, workdir, status, devs>>
      /\ open' = open \ {call[c].req.dev} /\ devices' = [devices EXCEPT ![call[c].slot] = nil]
  BY DEF At, Fail, Return
<1>2. Types /\ call[c].slot \in Slots
  BY Known, Mounter
<1>3. call'[c].pc = "idle"
  BY <1>1, <1>2, NoCallIs DEF Types
<1>4. ASSUME NEW j \in Inodes
      PROVE  count'[j] \in Int /\ count'[j] = count[j] - Own(c, j) + Own(c, j)'
  <2> DEFINE w == IF workdir[c] = j THEN 1 ELSE 0
             d == IF call[c].dirp = j THEN 1 ELSE 0
  <2>1. count[j] \in Int
    BY <1>2 DEF Types
  <2>2. count'[j] = count[j] - d
    BY <2>1 DEF One, Moved
  <2>3. Own(c, j) = w + d /\ Own(c, j)' = w
    BY <1>1, <1>3 DEF Own, CallRef
  <2>4. w \in Nat /\ d \in Nat
    OBVIOUS
  <2> HIDE DEF w, d
  <2> QED BY <2>1, <2>2, <2>3, <2>4
<1>5. count' \in [Inodes -> Int]
  BY <1>4 DEF Moved
<1> QED BY <1>1, <1>2, <1>4, <1>5, MountEnds

\* What is referred to by a mount and by a call or a process, or by two mounts,
\* counts twice.
LEMMA TwoRefs ==
  ASSUME CountIsReferences, NEW i \in Inodes, NEW s \in Slots, NEW k \in {1, 2}, MountRef(s, k, i),
         \/ \E c \in Clients : workdir[c] = i
         \/ \E c \in Clients, l \in {1, 2} : CallRef(c, l, i)
         \/ \E t \in Slots, l \in {1, 2} : MountRef(t, l, i) /\ t # s
  PROVE  count[i] > 1
<1>1. PICK a \in Nat, b \in Nat, d \in Nat, e \in Nat :
        /\ a = Cardinality(Dirs(i)) /\ b = RootRef(i)
        /\ d = Cardinality(CallRefs(i)) /\ e = Cardinality(MountRefs(i))
  BY RefsFinite DEF RootRef
<1>2. count[i] = a + b + d + e
  BY <1>1, CountIs DEF Counted
<1>3. <<s, k>> \in MountRefs(i) /\ IsFiniteSet(MountRefs(i)) /\ IsFiniteSet(Dirs(i)) /\ IsFiniteSet(CallRefs(i))
  BY RefsFinite DEF MountRefs
<1>4. e > 0
  <2>1. MountRefs(i) # {}
    BY <1>3
  <2>2. e # 0
    BY <1>1, <1>3, <2>1, FS_EmptySet
  <2> QED BY <2>2
<1>5. CASE \E c \in Clients : workdir[c] = i
  <2>1. Dirs(i) # {}
    BY <1>5 DEF Dirs
  <2>2. a # 0
    BY <1>1, <1>3, <2>1, FS_EmptySet
  <2> QED BY <1>2, <1>4, <2>2
<1>6. CASE \E c \in Clients, l \in {1, 2} : CallRef(c, l, i)
  <2>1. PICK c \in Clients, l \in {1, 2} : CallRef(c, l, i)
    BY <1>6
  <2>2. <<c, l>> \in CallRefs(i)
    BY <2>1 DEF CallRefs
  <2>3. d # 0
    BY <1>1, <1>3, <2>2, FS_EmptySet
  <2> QED BY <1>2, <1>4, <2>3
<1>7. CASE \E t \in Slots, l \in {1, 2} : MountRef(t, l, i) /\ t # s
  <2>1. PICK t \in Slots, l \in {1, 2} : MountRef(t, l, i) /\ t # s
    BY <1>7
  <2>2. <<t, l>> \in MountRefs(i) /\ <<t, l>> # <<s, k>>
    BY <2>1 DEF MountRefs
  <2> DEFINE M == MountRefs(i)
             N == M \ {<<s, k>>}
  <2>3. IsFiniteSet(M) /\ <<s, k>> \in M /\ <<t, l>> \in N /\ e = Cardinality(M)
    BY <1>1, <1>3, <2>2
  <2> HIDE DEF M
  <2>4. IsFiniteSet(N) /\ Cardinality(N) = e - 1
    BY <2>3, FS_RemoveElement
  <2>5. e - 1 # 0
    BY <2>3, <2>4, FS_EmptySet
  <2> QED BY <1>2, <1>4, <2>5
<1> QED BY <1>5, <1>6, <1>7

\* An inode that only the call that mounts on it uses is not mounted on.
LEMMA Uncovered ==
  ASSUME IInv, NEW c \in Clients, Is(c, "mount"), call[c].pc = "found", count[call[c].rip] = 1
  PROVE  \A u \in Slots : mountinfo[u].imount # call[c].rip
<1> SUFFICES ASSUME NEW u \in Slots, mountinfo[u].imount = call[c].rip
             PROVE  FALSE
  OBVIOUS
<1>1. call[c].rip \in Inodes /\ call[c].rip # nil /\ ~IsGiven(u)
  BY Mounter, Places
<1>2. mountinfo[u] # NoMount
  BY <1>1 DEF NoMount
<1>3. devices[u] # nil /\ u # ROOT_DEVICE
  BY <1>2, Known DEF Filled, Mounting
<1>4. InPlace(u)
  BY <1>1, <1>2, <1>3 DEF InPlace, Mounted
<1>5. MountRef(u, 1, call[c].rip) /\ CallRef(c, 1, call[c].rip)
  BY <1>4 DEF MountRef, CallRef
<1>6. count[call[c].rip] > 1
  BY <1>1, <1>5, Known, TwoRefs
<1> QED BY <1>6

LEMMA MountRootStep ==
  ASSUME IInv, NEW c \in Clients, MountRoot(c), status' # "panicked"
  PROVE  IInv'
<1> DEFINE rip == call[c].rip
           s == call[c].slot
<1>1. status = "up" /\ call[c].pc = "found" /\ Is(c, "mount")
      /\ UNCHANGED <<mount, rootproc, workdir>>
  BY DEF MountRoot, At, Panic
<1>2. /\ \A d \in Clients : call[d] \in Calls
      /\ call[c].rip \in Inodes /\ call[c].slot \in Slots
      /\ call[c].pc \in {"found", "rooted"}
      /\ count \in [Inodes -> Int] /\ call \in [Clients -> Calls]
  BY <1>1, Known, Mounter DEF Types
<1>3. <<s, ROOT_INODE>> \in Inodes
  BY <1>2, Places
<1>4. CASE /\ count[rip] > 1
           /\ Moved({}, {rip}) /\ Go(c, "hung") /\ status' = "down"
           /\ UNCHANGED <<tables, lock>>
  <2>1. call'[c].pc = "hung"
    BY <1>2, <1>4 DEF Go
  <2>2. ASSUME NEW j \in Inodes
        PROVE  count'[j] \in Int /\ count'[j] = count[j] - Own(c, j) + Own(c, j)'
    <3> DEFINE w == IF workdir[c] = j THEN 1 ELSE 0
               d == IF rip = j THEN 1 ELSE 0
    <3>1. count[j] \in Int
      BY <1>2
    <3>2. count'[j] = count[j] - d
      BY <1>4, <3>1 DEF One, Moved
    <3>3. Own(c, j) = w + d /\ Own(c, j)' = w
      BY <1>1, <2>1 DEF Own, CallRef
    <3>4. w \in Nat /\ d \in Nat
      OBVIOUS
    <3> HIDE DEF w, d
    <3> QED BY <3>1, <3>2, <3>3, <3>4
  <2>3. count' \in [Inodes -> Int]
    BY <1>4, <2>2 DEF Moved
  <2>4. mount' = mount \cup (IF "hung" = "flagged" THEN {call[c].rip} ELSE {})
    BY <1>1
  <2> QED BY <1>1, <1>2, <1>4, <2>2, <2>3, <2>4, MountGoes
<1>5. CASE /\ count[rip] = 1 /\ IsDirectory(rip)
           /\ Moved({<<s, ROOT_INODE>>}, {}) /\ Go(c, "rooted")
           /\ UNCHANGED <<tables, lock, status>>
  <2>1. call'[c].pc = "rooted" /\ call'[c].rip = rip /\ call'[c].slot = s
    BY <1>2, <1>5 DEF Go, Calls
  <2>2. ASSUME NEW j \in Inodes
        PROVE  count'[j] \in Int /\ count'[j] = count[j] - Own(c, j) + Own(c, j)'
    <3> DEFINE w == IF workdir[c] = j THEN 1 ELSE 0
               d == IF rip = j THEN 1 ELSE 0
               o == IF <<s, ROOT_INODE>> = j THEN 1 ELSE 0
    <3>1. count[j] \in Int
      BY <1>2
    <3>2. count'[j] = count[j] + o
      BY <1>5, <3>1 DEF One, Moved
    <3>3. Own(c, j) = w + d
      BY <1>1 DEF Own, CallRef
    <3>4. Own(c, j)' = w + d + o
      BY <1>1, <2>1 DEF Own, CallRef
    <3>5. w \in Nat /\ d \in Nat /\ o \in Nat
      OBVIOUS
    <3> HIDE DEF w, d, o
    <3> QED BY <3>1, <3>2, <3>3, <3>4, <3>5
  <2>3. count' \in [Inodes -> Int]
    BY <1>5, <2>2 DEF Moved
  <2>4. mount' = mount \cup (IF "rooted" = "flagged" THEN {call[c].rip} ELSE {})
    BY <1>1
  <2>5. \A u \in Slots : mountinfo[u].imount # call[c].rip
    BY <1>1, <1>5, Uncovered
  <2> QED BY <1>1, <1>2, <1>5, <2>2, <2>3, <2>4, <2>5, MountGoes
<1>6. CASE /\ count[rip] = 1 /\ ~IsDirectory(rip)
           /\ Moved({}, {rip}) /\ Return(c)
           /\ devices' = [devices EXCEPT ![s] = nil]
           /\ devs' = [devs EXCEPT ![s] = nil]
           /\ open' = open \ {call[c].req.dev}
           /\ UNCHANGED <<mountinfo, status>>
  <2>1. call'[c].pc = "idle"
    BY <1>2, <1>6, NoCallIs DEF Return
  <2>2. ASSUME NEW j \in Inodes
        PROVE  count'[j] \in Int /\ count'[j] = count[j] - Own(c, j) + Own(c, j)'
    <3> DEFINE w == IF workdir[c] = j THEN 1 ELSE 0
               d == IF rip = j THEN 1 ELSE 0
    <3>1. count[j] \in Int
      BY <1>2
    <3>2. count'[j] = count[j] - d
      BY <1>6, <3>1 DEF One, Moved
    <3>3. Own(c, j) = w + d /\ Own(c, j)' = w
      BY <1>1, <2>1 DEF Own, CallRef
    <3>4. w \in Nat /\ d \in Nat
      OBVIOUS
    <3> HIDE DEF w, d
    <3> QED BY <3>1, <3>2, <3>3, <3>4
  <2>3. count' \in [Inodes -> Int]
    BY <1>6, <2>2 DEF Moved
  <2> QED BY <1>1, <1>2, <1>6, <2>2, <2>3, MountEnds
<1> QED BY <1>4, <1>5, <1>6 DEF MountRoot, Panic

LEMMA SetMountStep ==
  ASSUME IInv, NEW c \in Clients, SetMount(c)
  PROVE  IInv'
<1>1. status = "up" /\ call[c].pc = "rooted" /\ mount' = mount \cup {call[c].rip} /\ Go(c, "flagged")
      /\ UNCHANGED <<tables, count, rootproc, workdir, lock, status>>
  BY DEF SetMount, At
<1>2. /\ Calling(c) /\ Mounting(c) /\ call[c] \in Calls
      /\ count \in [Inodes -> Int] /\ call \in [Clients -> Calls]
  BY Known DEF Types
<1>3. Is(c, "mount")
  BY <1>1, <1>2 DEF Calling, Is, Idle
<1>4. \A u \in Slots : mountinfo[u].imount # call[c].rip
  BY <1>1, <1>2, <1>3 DEF Mounting
<1>5. call'[c].pc = "flagged" /\ call'[c].rip = call[c].rip /\ call'[c].slot = call[c].slot
  BY <1>1, <1>2 DEF Go, Calls
<1>6. ASSUME NEW j \in Inodes
      PROVE  count'[j] = count[j] - Own(c, j) + Own(c, j)'
  <2>1. Own(c, j)' = Own(c, j) /\ Own(c, j) \in Nat
    BY <1>1, <1>5 DEF Own, CallRef
  <2> QED BY <1>1, <1>2, <2>1
<1>7. mount' = mount \cup (IF "flagged" = "flagged" THEN {call[c].rip} ELSE {})
  BY <1>1
<1> QED BY <1>1, <1>2, <1>3, <1>4, <1>6, <1>7, MountGoes

LEMMA EndMountStep ==
  ASSUME IInv, NEW c \in Clients, EndMount(c)
  PROVE  IInv'
<1>0. /\ Types /\ CountIsReferences /\ MountedIsRead /\ Locking /\ Placed /\ Flags /\ Closed
      /\ \A d \in Clients : Calling(d) /\ Mounting(d) /\ Undoing(d) /\ call[d] \in Calls
      /\ \A t \in Slots : Filled(t)
  BY Known
<1>1. PICK s \in Slots : s = call[c].slot
  BY <1>0 DEF Calls
<1>2. PICK rip \in Inodes : rip = call[c].rip
  BY <1>0 DEF Calls
<1> DEFINE info == [imount |-> rip, isup |-> <<s, ROOT_INODE>>]
<1>3. /\ status = "up" /\ call[c].pc = "flagged" /\ Return(c) /\ call' = [call EXCEPT ![c] = NoCall]
      /\ mountinfo' = [mountinfo EXCEPT ![s] = info]
      /\ UNCHANGED <<devices, devs, open, count, mount, rootproc, workdir, status>>
  BY <1>1, <1>2 DEF EndMount, At, Info, Return
<1>4. Is(c, "mount")
  BY <1>0, <1>3 DEF Calling, Is, Idle
<1>5. /\ lock = {c} /\ ~Unmounting(c) /\ call[c].req.dev # nil
      /\ \A t : ~IsGiven(t)
      /\ \A d \in Clients : ~Unmounting(d) /\ (Is(d, "mount") <=> d = c)
      /\ \A d \in Clients \ {c} : call[d].pc \in Walks
  BY <1>4, Mounter
<1>6. /\ s # ROOT_DEVICE /\ mountinfo[s] = NoMount /\ devices[s] # nil
      /\ \A u \in Slots : mountinfo[u].imount # rip
  BY <1>0, <1>1, <1>2, <1>3, <1>4, <1>5 DEF Mounting
<1>7. rip # nil /\ <<s, ROOT_INODE>> \in Inodes /\ rip[1] \in Slots
  BY Places
<1>8. info \in [imount : Inodes \cup {nil}, isup : Inodes \cup {nil}]
      /\ info # NoMount /\ info.imount = rip /\ info.isup = <<s, ROOT_INODE>>
  <2>1. info.imount = rip /\ info.isup = <<s, ROOT_INODE>>
    OBVIOUS
  <2>2. info # NoMount
    BY <1>7, <2>1 DEF NoMount
  <2> QED BY <1>7, <2>1, <2>2
<1> HIDE DEF info
<1>9. /\ mountinfo' \in [Slots -> [imount : Inodes \cup {nil}, isup : Inodes \cup {nil}]]
      /\ mountinfo'[s] = info
      /\ \A t \in Slots \ {s} : mountinfo'[t] = mountinfo[t]
  BY <1>0, <1>3, <1>8 DEF Types
<1>10. /\ call' \in [Clients -> Calls] /\ call'[c] = NoCall
       /\ \A d \in Clients \ {c} : call'[d] = call[d]
  BY <1>0, <1>3, NoCallIs DEF Types
<1>11. call'[c].pc = "idle" /\ call'[c].req.op = "none" /\ lock' = {}
  BY <1>3, <1>5, <1>10, NoCallIs DEF Return
<1>12. \A t : ~IsGiven(t) /\ ~IsGiven(t)'
  <2>1. \A d \in Clients : call'[d].pc # "close"
    BY <1>5, <1>10, <1>11 DEF Walks
  <2> QED BY <1>5, <2>1 DEF IsGiven
<1>13. ~InPlace(s) /\ InPlace(s)'
  BY <1>3, <1>6, <1>8, <1>9, <1>12 DEF InPlace, Mounted
<1>14. \A t : t # s => (InPlace(t)' <=> InPlace(t))
  <2>1. ASSUME NEW t \in Slots \ {s} PROVE InPlace(t)' <=> InPlace(t)
    BY <1>3, <1>9, <1>12 DEF InPlace, Mounted
  <2>2. \A t : t \notin Slots => ~InPlace(t) /\ ~InPlace(t)'
    BY DEF InPlace, Mounted
  <2> QED BY <2>1, <2>2
<1>15. OnDevice(rip) /\ rip[1] # s
  <2>1. OnDevice(rip)
    BY <1>0, <1>2, <1>3 DEF Placed
  <2> QED BY <1>6, <1>13, <2>1 DEF OnDevice
<1>20. Types'
  <2>1. /\ devices \in [Slots -> Devs \cup {nil}] /\ devs \in [Slots -> Devs \cup {nil}]
        /\ open \subseteq Devs /\ count \in [Inodes -> Int]
        /\ mount \subseteq Inodes /\ rootproc \in BOOLEAN /\ lock' \subseteq Clients
        /\ workdir \in [Clients -> Inodes \cup {nil}] /\ status \in {"up", "closed", "down"}
    BY <1>0, <1>11 DEF Types
  <2> QED BY <1>3, <1>9, <1>10, <2>1 DEF Types
<1>21. CountIsReferences'
  <2>1. \A d \in Clients \ {c}, k \in {1, 2}, i \in Inodes : CallRef(d, k, i)' <=> CallRef(d, k, i)
    BY <1>10 DEF CallRef
  <2>2. \A t \in Slots \ {s}, k \in {1, 2}, i \in Inodes : MountRef(t, k, i)' <=> MountRef(t, k, i)
    BY <1>9, <1>14 DEF MountRef
  <2>3. \A d \in Clients \ {c} : workdir'[d] = workdir[d]
    BY <1>3
  <2>4. ASSUME NEW i \in Inodes
        PROVE  count'[i] = count[i] - Part(c, s, i) + Part(c, s, i)'
    <3> DEFINE w == IF workdir[c] = i THEN 1 ELSE 0
               d == IF rip = i THEN 1 ELSE 0
               o == IF <<s, ROOT_INODE>> = i THEN 1 ELSE 0
    <3>1. /\ CallRef(c, 1, i) <=> rip = i
          /\ CallRef(c, 2, i) <=> <<s, ROOT_INODE>> = i
          /\ ~MountRef(s, 1, i) /\ ~MountRef(s, 2, i)
      BY <1>1, <1>2, <1>3, <1>13 DEF CallRef, MountRef
    <3>2. /\ ~CallRef(c, 1, i)' /\ ~CallRef(c, 2, i)'
          /\ MountRef(s, 1, i)' <=> rip = i
          /\ MountRef(s, 2, i)' <=> <<s, ROOT_INODE>> = i
      <4>1. ~CallRef(c, 1, i)' /\ ~CallRef(c, 2, i)'
        BY <1>11 DEF CallRef
      <4>2. mountinfo'[s].imount = rip /\ mountinfo'[s].isup = <<s, ROOT_INODE>> /\ InPlace(s)'
        BY <1>8, <1>9, <1>13
      <4>3. MountRef(s, 1, i)' <=> rip = i
        BY <4>2 DEF MountRef
      <4>4. MountRef(s, 2, i)' <=> <<s, ROOT_INODE>> = i
        BY <4>2 DEF MountRef
      <4> QED BY <4>1, <4>3, <4>4
    <3>3. RootRef(i)' = RootRef(i) /\ RootRef(i) \in Nat /\ workdir' = workdir
      BY <1>3 DEF RootRef
    <3>4. Part(c, s, i) = w + RootRef(i) + d + o + 0 + 0
      BY <3>1 DEF Part
    <3>5. Part(c, s, i)' = w + RootRef(i) + 0 + 0 + d + o
      BY <3>2, <3>3 DEF Part
    <3>6. w \in Nat /\ d \in Nat /\ o \in Nat /\ count[i] \in Int /\ count' = count
      BY <1>0, <1>3 DEF Types
    <3> HIDE DEF w, d, o
    <3> QED BY <3>3, <3>4, <3>5, <3>6
  <2> QED BY <1>0, <2>1, <2>2, <2>3, <2>4, PartMoved
<1>22. MountedIsRead' /\ Closed'
  BY <1>0, <1>3 DEF MountedIsRead, Closed
<1>23. \A d \in Clients : ~Is(d, "mount")' /\ ~Unmounting(d)'
  BY <1>5, <1>10, <1>11 DEF Is, Idle, Unmounting
<1>24. Locking'
  BY <1>11, <1>23 DEF Locking
<1>25. Placed'
  <2>1. \A i : OnDevice(i) => OnDevice(i)'
    BY <1>13, <1>14 DEF OnDevice
  <2>2. ASSUME NEW d \in Clients
        PROVE  /\ workdir'[d] # nil => OnDevice(workdir'[d])
               /\ call'[d].pc \in {"lookup", "cross"} => OnDevice(call'[d].dirp)
               /\ call'[d].pc \in {"cross", "found", "rooted", "flagged"} => OnDevice(call'[d].rip)
    <3>1. CASE d = c
      BY <1>0, <1>3, <1>11, <3>1 DEF Placed
    <3>2. CASE d # c
      BY <1>0, <1>3, <1>10, <3>2 DEF Placed
    <3> QED BY <3>1, <3>2
  <2>3. ASSUME NEW t \in Slots, InPlace(t)'
        PROVE  OnDevice(mountinfo'[t].imount)
    BY <1>0, <1>8, <1>9, <1>14, <1>15, <2>3 DEF Placed
  <2> QED BY <2>1, <2>2, <2>3 DEF Placed, OnDevice
<1>26. Flags'
  <2>1. {d \in Clients : call[d].pc = "flagged"} = {c}
    <3>1. \A d \in Clients : call[d].pc = "flagged" <=> d = c
      BY <1>3, <1>5 DEF Walks
    <3> QED BY <3>1
  <2>2. {call[d].rip : d \in {d \in Clients : call[d].pc = "flagged"}} = {rip}
    BY <1>2, <2>1
  <2>3. {d \in Clients : call'[d].pc = "flagged"} = {}
    BY <1>5, <1>10, <1>11 DEF Walks
  <2>4. \A i : (\E t \in Slots : InPlace(t)' /\ i = mountinfo'[t].imount)
               <=> (\E t \in Slots : InPlace(t) /\ i = mountinfo[t].imount) \/ i = rip
    BY <1>8, <1>9, <1>13, <1>14
  <2>5. mount = {mountinfo[t].imount : t \in {t \in Slots : InPlace(t)}} \cup {rip}
    BY <1>0, <2>2 DEF Flags
  <2>6. mount = {mountinfo'[t].imount : t \in {t \in Slots : InPlace(t)'}}
    BY <2>4, <2>5
  <2> QED BY <1>3, <2>3, <2>6 DEF Flags
<1>27. ASSUME NEW d \in Clients
       PROVE  Calling(d)' /\ Mounting(d)' /\ Undoing(d)'
  <2>1. CASE d = c
    BY <1>11, <2>1 DEF Calling, Mounting, Undoing, Is, Idle
  <2>2. CASE d # c
    BY <1>0, <1>3, <1>5, <1>10, <1>23, <2>2 DEF Calling, Mounting, Undoing, Is, Idle, Walks
  <2> QED BY <2>1, <2>2
<1>28. ASSUME NEW t \in Slots
       PROVE  Filled(t)'
  <2>0. Filled(t) /\ devs' = devs /\ devices' = devices
    BY <1>0, <1>3
  <2>1. CASE t = s
    <3>1. devs[s] # nil
      BY <1>0, <1>6 DEF MountedIsRead
    <3>2. \A u \in Slots : mountinfo'[u].imount = rip => u = s
      BY <1>6, <1>9
    <3> QED BY <1>6, <1>8, <1>9, <1>15, <2>0, <2>1, <3>1, <3>2 DEF Filled
  <2>2. CASE t # s
    <3>1. mountinfo'[t] = mountinfo[t]
      BY <1>9, <2>2
    <3>2. ASSUME mountinfo[t] # NoMount, NEW u \in Slots, mountinfo'[u].imount = mountinfo[t].imount
          PROVE  u = t
      <4>1. u # s
        BY <1>6, <1>8, <1>9, <3>2
      <4>2. mountinfo'[u] = mountinfo[u]
        BY <1>9, <4>1
      <4> QED BY <2>0, <3>2, <4>2 DEF Filled
    <3>3. ~(t \in Mounted /\ mountinfo[t] = NoMount)
      <4>1. ASSUME t \in Mounted, mountinfo[t] = NoMount
            PROVE  FALSE
        <5>1. PICK d \in Clients : Is(d, "mount") /\ call[d].slot = t
          BY <2>0, <4>1 DEF Filled
        <5> QED BY <1>1, <1>5, <2>2, <5>1
      <4> QED BY <4>1
    <3> QED BY <2>0, <3>1, <3>2, <3>3 DEF Filled, Mounted
  <2> QED BY <2>1, <2>2
<1> QED BY <1>20, <1>21, <1>22, <1>24, <1>25, <1>26, <1>27, <1>28 DEF IInv
-----------------------------------------------------------------------------
(* Unmount and Shutdown. *)

LEMMA Unmounter ==
  ASSUME IInv, NEW c \in Clients, Unmounting(c)
  PROVE  /\ lock = {c} /\ ~Is(c, "mount")
         /\ call[c] \in Calls /\ call[c].slot \in Slots
         /\ \A d \in Clients \ {c} : Idle(d)
         /\ \A d \in Clients : ~Is(d, "mount")
<1>1. Locking /\ call[c] \in Calls
  BY Known
<1>2. c \in lock /\ \A d \in lock : d = c
  BY <1>1 DEF Locking
<1>3. \A d \in Clients \ {c} : Idle(d)
  BY <1>1 DEF Locking
<1>4. ~Is(c, "mount")
  BY DEF Unmounting, Is
<1> QED BY <1>1, <1>2, <1>3, <1>4 DEF Is, Calls

\* A step of an unmount that only looks.
LEMMA UnmountLooks ==
  ASSUME IInv, NEW c \in Clients, UNCHANGED <<tables, count, mount, rootproc, workdir, status>>,
         \A d \in Clients \ {c} : Idle(d),
         call[c].pc \in {"idle", "next", "unmount"},
         NEW k \in Calls, call' = [call EXCEPT ![c] = k],
         k.pc \in {"idle", "next", "unmount", "release"},
         lock' = (IF k.pc = "idle" THEN {} ELSE {c}),
         k.pc = "idle" => k.req.op = "none",
         k.pc = "next" => k.req.op = "shutdown",
         k.pc \in {"unmount", "release"} => /\ k.req.op \in {"unmount", "shutdown"}
                                            /\ k.slot \in Mounted /\ mountinfo[k.slot] # NoMount,
         k.pc = "release" => ~Busy(k.slot)
  PROVE  IInv'
<1>1. /\ Types /\ CountIsReferences /\ MountedIsRead /\ Locking /\ Placed /\ Flags /\ Closed
      /\ \A d \in Clients : Calling(d) /\ Mounting(d) /\ Undoing(d)
      /\ \A s \in Slots : Filled(s)
  BY Known
<1>2. UNCHANGED <<devices, mountinfo, devs, open>>
  BY DEF tables
<1>3. /\ call' \in [Clients -> Calls] /\ call'[c] = k
      /\ \A d \in Clients \ {c} : call'[d] = call[d]
  BY <1>1 DEF Types
<1>4. \A d \in Clients \ {c} : call[d].pc = "idle" /\ call'[d].pc = "idle"
  BY <1>3 DEF Idle
<1>5. \A s : ~IsGiven(s) /\ ~IsGiven(s)'
  <2>1. \A d \in Clients : call[d].pc # "close" /\ call'[d].pc # "close"
    BY <1>3, <1>4
  <2> QED BY <2>1 DEF IsGiven
<1>6. \A s : InPlace(s)' <=> InPlace(s)
  BY <1>2, <1>5 DEF InPlace, Mounted
<1>7. Types'
  BY <1>1, <1>2, <1>3 DEF Types
<1>8. CountIsReferences'
  <2>1. count \in [Inodes -> Int]
    BY <1>1 DEF Types
  <2>2. ASSUME NEW i \in Inodes
        PROVE  count'[i] = count[i] - Own(c, i) + Own(c, i)'
    <3>1. Own(c, i)' = Own(c, i) /\ Own(c, i) \in Nat /\ count[i] \in Int
      BY <1>3, <2>1 DEF Own, CallRef
    <3> QED BY <3>1
  <2> QED BY <1>1, <1>2, <1>3, <1>6, <2>1, <2>2, OwnMoved
<1>9. MountedIsRead' /\ Closed'
  BY <1>1, <1>2 DEF MountedIsRead, Closed
<1>10. /\ \A d \in Clients : ~Is(d, "mount")' /\ ~Is(d, "mount")
       /\ \A d \in Clients : Unmounting(d)' <=> d = c /\ k.pc # "idle"
  <2>1. \A d \in Clients \ {c} : ~Is(d, "mount")' /\ ~Is(d, "mount") /\ ~Unmounting(d)'
    BY <1>4 DEF Is, Idle, Unmounting
  <2>2. ~Is(c, "mount")' /\ (Unmounting(c)' <=> k.pc # "idle")
    BY <1>3 DEF Is, Idle, Unmounting
  <2>3. ~Is(c, "mount")
    BY <1>1 DEF Is, Idle, Calling
  <2> QED BY <2>1, <2>2, <2>3
<1>11. Locking'
  <2>1. \A d \in Clients : d \in lock' <=> Is(d, "mount")' \/ Unmounting(d)'
    BY <1>10
  <2>2. \A d, e \in lock' : d = e
    OBVIOUS
  <2>3. \A d, e \in Clients : Unmounting(d)' /\ call'[e].pc # "idle" => d = e
    BY <1>4, <1>10
  <2> QED BY <2>1, <2>2, <2>3 DEF Locking, Idle
<1>12. Placed'
  <2>1. ASSUME NEW d \in Clients
        PROVE  /\ workdir'[d] # nil => OnDevice(workdir'[d])
               /\ call'[d].pc \in {"lookup", "cross"} => OnDevice(call'[d].dirp)
               /\ call'[d].pc \in {"cross", "found", "rooted", "flagged"} => OnDevice(call'[d].rip)
    <3>1. call'[d].pc \notin {"lookup", "cross", "found", "rooted", "flagged"}
      BY <1>3, <1>4
    <3> QED BY <1>1, <3>1 DEF Placed
  <2> QED BY <1>1, <1>2, <1>6, <2>1, PlacedIf
<1>13. Flags'
  <2>1. {mountinfo'[t].imount : t \in {t \in Slots : InPlace(t)'}}
        = {mountinfo[t].imount : t \in {t \in Slots : InPlace(t)}}
    BY <1>2, <1>6
  <2>2. {d \in Clients : call[d].pc = "flagged"} = {} /\ {d \in Clients : call'[d].pc = "flagged"} = {}
    BY <1>3, <1>4
  <2> QED BY <1>1, <2>1, <2>2 DEF Flags
<1>14. ASSUME NEW d \in Clients
       PROVE  Calling(d)' /\ Mounting(d)' /\ Undoing(d)'
  <2>0. Mounting(d)'
    BY <1>10 DEF Mounting
  <2>1. CASE d = c
    <3>1. Busy(k.slot)' <=> Busy(k.slot)
      BY DEF Busy, Users
    <3>2. Undoing(c)'
      BY <1>2, <1>3, <3>1 DEF Undoing, Mounted, Busy, Users
    <3>3. Calling(c)'
      BY <1>3 DEF Calling, Is, Idle
    <3> QED BY <2>0, <2>1, <3>2, <3>3
  <2>2. CASE d # c
    BY <1>1, <1>3, <1>4, <2>0, <2>2 DEF Calling, Undoing, Is, Idle
  <2> QED BY <2>1, <2>2
<1>15. ASSUME NEW s \in Slots
       PROVE  Filled(s)'
  <2>1. ~(s \in Mounted /\ mountinfo[s] = NoMount)
    BY <1>1, <1>10 DEF Filled
  <2> QED BY <1>1, <1>2, <2>1 DEF Filled, Mounted
<1> QED BY <1>7, <1>8, <1>9, <1>11, <1>12, <1>13, <1>14, <1>15 DEF IInv

\* Nobody else does anything when the lock is free and no path is followed.
LEMMA Lonely ==
  ASSUME Tame, IInv, lock = {}, Quiet
  PROVE  \A d \in Clients : Idle(d) /\ call[d].pc = "idle"
<1> SUFFICES ASSUME NEW d \in Clients
             PROVE  call[d].pc = "idle"
  BY DEF Idle
<1>1. call[d].pc \in {"idle", "lookup", "cross", "found"}
  BY LockFree
<1>2. ~Walking(d)
  BY DEF Quiet, Tame
<1> QED BY <1>1, <1>2 DEF Walking

LEMMA UnmountStep ==
  ASSUME Tame, IInv, NEW c \in Clients, NEW r \in Requests, Unmount(c, r)
  PROVE  IInv'
<1>0. call[c] \in Calls /\ call \in [Clients -> Calls] /\ MountedIsRead
      /\ \A t \in Slots : Filled(t)
  BY Known DEF Types
<1>1. lock = {} /\ r.op = "unmount" /\ UNCHANGED <<tables, count, mount, rootproc, workdir, status>>
      /\ lock' = {c} /\ Quiet
  BY DEF Unmount
<1>2. \A d \in Clients : Idle(d) /\ call[d].pc = "idle"
  BY <1>1, Lonely
<1>3. r.dev # nil
  BY <1>1, RequestsAssumption, DevsAssumption DEF RequestsAssumption, DevsAssumption
<1>4. PICK s \in Slots : s = CHOOSE t \in Slots : devices[t] = r.dev
  BY DEF Unmount
<1>5. s # ROOT_DEVICE /\ devices[s] = r.dev
  <2>1. PICK t \in Slots \ {ROOT_DEVICE} : devices[t] = r.dev
    BY DEF Unmount
  <2>2. devices[s] = r.dev
    BY <1>4, <2>1
  <2> QED BY <1>0, <1>3, <2>1, <2>2 DEF MountedIsRead
<1>6. s \in Mounted /\ mountinfo[s] # NoMount
  <2>1. s \in Mounted
    BY <1>3, <1>5 DEF Mounted
  <2>2. \A d \in Clients : ~Is(d, "mount")
    BY <1>1, LockFree
  <2> QED BY <1>0, <2>1, <2>2 DEF Filled
<1> DEFINE k == [call[c] EXCEPT !.pc = "unmount", !.req = r, !.slot = s]
<1>7. k \in Calls /\ k.pc = "unmount" /\ k.req = r /\ k.slot = s
  BY <1>0 DEF Calls, Stages
<1>8. call' = [call EXCEPT ![c] = k]
  BY <1>0, <1>4 DEF Unmount
<1> HIDE DEF k
<1>9. lock' = IF k.pc = "idle" THEN {} ELSE {c}
  BY <1>1, <1>7
<1> QED BY <1>1, <1>2, <1>6, <1>7, <1>8, <1>9, UnmountLooks

LEMMA ShutdownStep ==
  ASSUME Tame, IInv, NEW c \in Clients, NEW r \in Requests, Shutdown(c, r)
  PROVE  IInv'
<1>0. call[c] \in Calls /\ call \in [Clients -> Calls]
  BY Known DEF Types
<1>1. lock = {} /\ r.op = "shutdown" /\ UNCHANGED <<tables, count, mount, rootproc, workdir, status>>
      /\ lock' = {c} /\ Quiet
  BY DEF Shutdown
<1>2. \A d \in Clients : Idle(d) /\ call[d].pc = "idle"
  BY <1>1, Lonely
<1> DEFINE k == [call[c] EXCEPT !.pc = "next", !.req = r]
<1>7. k \in Calls /\ k.pc = "next" /\ k.req = r
  BY <1>0 DEF Calls, Stages
<1>8. call' = [call EXCEPT ![c] = k]
  BY <1>0 DEF Shutdown
<1> HIDE DEF k
<1>9. lock' = IF k.pc = "idle" THEN {} ELSE {c}
  BY <1>1, <1>7
<1> QED BY <1>1, <1>2, <1>7, <1>8, <1>9, UnmountLooks

\* Who is at one of the steps of an unmount unmounts.
LEMMA AtUnmount ==
  ASSUME IInv, NEW c \in Clients, call[c].pc \in {"next", "unmount", "release", "close"}
  PROVE  Unmounting(c) /\ call[c].req.op \in {"unmount", "shutdown"}
         /\ (call[c].pc = "next" => call[c].req.op = "shutdown")
         /\ (Is(c, "shutdown") <=> call[c].req.op = "shutdown")
BY Known DEF Calling, Unmounting, Is, Idle

LEMMA MinExists ==
  ASSUME NEW S \in SUBSET Slots, S # {}
  PROVE  \E s \in S : \A r \in S : s <= r
<1> DEFINE R == OpToRel(<, Nat)
<1>1. S \subseteq Nat
  BY DEF Slots
<1>2. IsWellFoundedOn(R, Nat)
  BY NatLessThanWellFounded
<1>3. PICK x \in S : \A y \in S : ~ (<<y, x>> \in R)
  <2> HIDE DEF R
  <2> QED BY <1>1, <1>2, WFMin
<1>4. ASSUME NEW r \in S PROVE x <= r
  <2>1. ~(r < x)
    BY <1>1, <1>3 DEF OpToRel
  <2> QED BY <1>1, <2>1
<1> QED BY <1>4

LEMMA NextDeviceStep ==
  ASSUME IInv, NEW c \in Clients, NextDevice(c)
  PROVE  IInv'
<1>0. call[c] \in Calls /\ call \in [Clients -> Calls]
      /\ \A t \in Slots : Filled(t)
  BY Known DEF Types
<1>1. call[c].pc = "next" /\ Mounted # {}
      /\ UNCHANGED <<tables, count, mount, rootproc, workdir, lock, status>>
  BY DEF NextDevice, At
<1>2. Unmounting(c) /\ call[c].req.op = "shutdown"
  BY <1>1, AtUnmount
<1>3. lock = {c} /\ (\A d \in Clients \ {c} : Idle(d)) /\ \A d \in Clients : ~Is(d, "mount")
  BY <1>2, Unmounter
<1>4. Mounted \in SUBSET Slots
  BY DEF Mounted
<1>5. PICK s \in Mounted : s = CHOOSE t \in Mounted : \A u \in Mounted : t <= u
  BY <1>1, <1>4, MinExists
<1>6. s \in Slots /\ mountinfo[s] # NoMount
  BY <1>0, <1>3, <1>4, <1>5 DEF Filled
<1> DEFINE k == [call[c] EXCEPT !.pc = "unmount", !.slot = s]
<1>7. k \in Calls /\ k.pc = "unmount" /\ k.req = call[c].req /\ k.slot = s
  BY <1>0, <1>6 DEF Calls, Stages
<1>8. call' = [call EXCEPT ![c] = k]
  <2>1. call' = [call EXCEPT ![c].pc = "unmount",
                             ![c].slot = CHOOSE t \in Mounted : \A u \in Mounted : t <= u]
    BY DEF NextDevice
  <2>2. call' = [call EXCEPT ![c].pc = "unmount", ![c].slot = s]
    BY <1>5, <2>1, Zenon
  <2> QED BY <1>0, <2>2
<1> HIDE DEF k
<1>9. lock' = IF k.pc = "idle" THEN {} ELSE {c}
  BY <1>1, <1>3, <1>7
<1> QED BY <1>1, <1>2, <1>3, <1>5, <1>6, <1>7, <1>8, <1>9, UnmountLooks

LEMMA IsBusyStep ==
  ASSUME IInv, NEW c \in Clients, IsBusy(c)
  PROVE  IInv'
<1>0. call[c] \in Calls /\ call \in [Clients -> Calls] /\ Undoing(c)
  BY Known DEF Types
<1>1. call[c].pc = "unmount" /\ UNCHANGED <<tables, count, mount, rootproc, workdir, status>>
  BY DEF IsBusy, At
<1>2. Unmounting(c) /\ call[c].req.op \in {"unmount", "shutdown"}
  BY <1>1, AtUnmount
<1>3. lock = {c} /\ \A d \in Clients \ {c} : Idle(d)
  BY <1>2, Unmounter
<1>4. CASE Busy(call[c].slot) /\ Return(c)
  <2>1. call' = [call EXCEPT ![c] = NoCall] /\ lock' = {}
    BY <1>3, <1>4 DEF Return
  <2>2. lock' = IF NoCall.pc = "idle" THEN {} ELSE {c}
    BY <2>1, NoCallIs
  <2> QED BY <1>1, <1>3, <2>1, <2>2, NoCallIs, UnmountLooks
<1>5. CASE ~Busy(call[c].slot) /\ Go(c, "release") /\ UNCHANGED lock
  <2> DEFINE k == [call[c] EXCEPT !.pc = "release"]
  <2>1. k \in Calls /\ k.pc = "release" /\ k.req = call[c].req /\ k.slot = call[c].slot
    BY <1>0 DEF Calls, Stages
  <2>2. call' = [call EXCEPT ![c] = k]
    BY <1>0, <1>5 DEF Go
  <2> HIDE DEF k
  <2>3. lock' = IF k.pc = "idle" THEN {} ELSE {c}
    BY <1>3, <1>5, <2>1
  <2>4. k.slot \in Mounted /\ mountinfo[k.slot] # NoMount /\ ~Busy(k.slot)
    BY <1>0, <1>1, <1>5, <2>1 DEF Undoing
  <2> QED BY <1>1, <1>2, <1>3, <2>1, <2>2, <2>3, <2>4, UnmountLooks
<1> QED BY <1>4, <1>5 DEF IsBusy

\* On a device in its place that is not busy only its mount uses an inode.
LEMMA NotBusy ==
  ASSUME IInv, NEW s \in Slots, ~Busy(s), InPlace(s)
  PROVE  /\ \A d \in Clients : workdir[d] # nil => workdir[d][1] # s
         /\ \A t \in Slots : InPlace(t) => mountinfo[t].imount[1] # s
<1>0. /\ CountIsReferences /\ Filled(s) /\ mountinfo[s] # NoMount
      /\ \A d \in Clients : workdir[d] \in Inodes \cup {nil}
      /\ \A t \in Slots : Filled(t)
  BY Known DEF Types, InPlace
<1> DEFINE top == <<s, ROOT_INODE>>
<1>1. top \in Inodes /\ MountRef(s, 2, top)
  BY <1>0, Places DEF MountRef, Filled
<1> HIDE DEF top
<1>2. count[top] > 0 /\ top \in Users(s) /\ count[top] \in Nat
  <2>1. count[top] > 0 /\ count[top] \in Nat
    BY <1>0, <1>1, Referred
  <2> QED BY <1>1, <2>1 DEF Users, top
<1>3. ~(count[top] > 1)
  BY <1>2 DEF Busy
<1>4. ASSUME NEW i \in Inodes, i[1] = s, count[i] > 0
      PROVE  i = top
  <2> SUFFICES ASSUME i # top PROVE FALSE
    OBVIOUS
  <2> DEFINE U == Users(s)
             V == U \ {top}
  <2>1. IsFiniteSet(U) /\ i \in V /\ top \in U
    <3>1. U \subseteq Inodes
      BY DEF Users
    <3>2. i \in U
      BY <1>4 DEF Users
    <3> QED BY <1>2, <3>1, <3>2, SlotsFinite, FS_Subset
  <2>2. ~(Cardinality(U) > 1)
    BY DEF Busy
  <2> HIDE DEF U
  <2>3. IsFiniteSet(V) /\ Cardinality(V) = Cardinality(U) - 1
    BY <2>1, FS_RemoveElement
  <2>4. Cardinality(V) # 0 /\ Cardinality(V) \in Nat /\ Cardinality(U) \in Nat
    BY <2>1, <2>3, FS_EmptySet, FS_CardinalityType
  <2> QED BY <2>2, <2>3, <2>4
<1>5. ASSUME NEW d \in Clients, workdir[d] # nil, workdir[d][1] = s
      PROVE  FALSE
  <2>1. PICK i \in Inodes : i = workdir[d]
    BY <1>0, <1>5
  <2>2. count[i] > 0
    BY <1>0, <2>1, Referred
  <2>3. workdir[d] = top
    BY <1>4, <1>5, <2>1, <2>2
  <2>4. count[top] > 1
    BY <1>0, <1>1, <2>3, TwoRefs
  <2> QED BY <1>3, <2>4
<1>6. ASSUME NEW t \in Slots, InPlace(t), mountinfo[t].imount[1] = s
      PROVE  FALSE
  <2>1. PICK i \in Inodes : i = mountinfo[t].imount
    BY <1>0, <1>6 DEF InPlace, Filled
  <2>2. MountRef(t, 1, i) /\ t # s
    BY <1>0, <1>6, <2>1 DEF MountRef, Filled
  <2>3. count[i] > 0
    BY <1>0, <2>2, Referred
  <2>4. i = top
    BY <1>4, <1>6, <2>1, <2>3
  <2>5. count[top] > 1
    BY <1>0, <1>1, <2>2, <2>4, TwoRefs
  <2> QED BY <1>3, <2>5
<1> QED BY <1>5, <1>6

LEMMA ReleaseStep ==
  ASSUME IInv, NEW c \in Clients, Release(c)
  PROVE  IInv'
<1>0. /\ Types /\ CountIsReferences /\ MountedIsRead /\ Locking /\ Placed /\ Flags /\ Closed
      /\ \A d \in Clients : Calling(d) /\ Mounting(d) /\ Undoing(d) /\ call[d] \in Calls
      /\ \A t \in Slots : Filled(t)
  BY Known
<1>1. PICK s \in Slots : s = call[c].slot
  BY <1>0 DEF Calls
<1>2. call[c].pc = "release" /\ status = "up"
      /\ UNCHANGED <<devices, mountinfo, devs, open, rootproc, workdir, lock, status>>
      /\ mount' = mount \ {mountinfo[s].imount}
      /\ Moved({}, {mountinfo[s].imount, mountinfo[s].isup}) /\ Go(c, "close")
  BY <1>1 DEF Release, At, tables, Normal, Given
<1>3. Unmounting(c) /\ call[c].req.op \in {"unmount", "shutdown"}
  BY <1>2, AtUnmount
<1>4. lock = {c} /\ \A d \in Clients \ {c} : call[d].pc = "idle"
  BY <1>3, Unmounter DEF Idle
<1>5. s \in Mounted /\ mountinfo[s] # NoMount /\ ~Busy(s)
  BY <1>0, <1>1, <1>2 DEF Undoing
<1>6. \A t : ~IsGiven(t)
  BY <1>2, <1>4 DEF IsGiven
<1>7. InPlace(s)
  BY <1>5, <1>6 DEF InPlace
<1>8. PICK p \in Inodes : p = mountinfo[s].imount
  BY <1>0, <1>5 DEF Filled
<1>9. PICK q \in Inodes : q = <<s, ROOT_INODE>>
  BY Places
<1>10. mountinfo[s].isup = q /\ p[1] # s /\ p # q
       /\ \A u \in Slots : mountinfo[u].imount = p => u = s
  BY <1>0, <1>5, <1>8, <1>9 DEF Filled
<1>11. [call[c] EXCEPT !.pc = "close"] \in Calls
       /\ call' = [call EXCEPT ![c] = [call[c] EXCEPT !.pc = "close"]]
  BY <1>0, <1>2 DEF Calls, Stages, Go
<1>12. /\ call' \in [Clients -> Calls]
       /\ call'[c] = [call[c] EXCEPT !.pc = "close"]
       /\ \A d \in Clients \ {c} : call'[d] = call[d]
  BY <1>0, <1>11 DEF Types
<1>13. call'[c].pc = "close" /\ call'[c].req = call[c].req /\ call'[c].slot = s
  BY <1>0, <1>1, <1>12 DEF Calls
<1>14. \A t : IsGiven(t)' <=> t = s
  BY <1>4, <1>12, <1>13 DEF IsGiven
<1>15. \A t : InPlace(t)' <=> InPlace(t) /\ t # s
  BY <1>2, <1>6, <1>14 DEF InPlace, Mounted
<1>16. /\ \A d \in Clients : workdir[d] # nil => workdir[d][1] # s
       /\ \A t \in Slots : InPlace(t) => mountinfo[t].imount[1] # s
  BY <1>5, <1>7, NotBusy
<1>17. ASSUME NEW i \in Inodes
       PROVE  count'[i] = count[i] - (IF p = i THEN 1 ELSE 0) - (IF q = i THEN 1 ELSE 0)
  BY <1>0, <1>2, <1>8, <1>10, <1>17 DEF Types, Moved, One
<1>20. Types'
  <2>1. /\ devices \in [Slots -> Devs \cup {nil}] /\ devs \in [Slots -> Devs \cup {nil}]
        /\ mountinfo \in [Slots -> [imount : Inodes \cup {nil}, isup : Inodes \cup {nil}]]
        /\ open \subseteq Devs
        /\ mount' \subseteq Inodes /\ rootproc \in BOOLEAN /\ lock \subseteq Clients
        /\ workdir \in [Clients -> Inodes \cup {nil}] /\ status \in {"up", "closed", "down"}
    BY <1>0, <1>2 DEF Types
  <2>2. \A i \in Inodes : count[i] \in Int
    BY <1>0 DEF Types
  <2>3. \A i \in Inodes : count'[i] \in Int
    BY <1>17, <2>2
  <2>4. count' \in [Inodes -> Int]
    BY <1>2, <2>3 DEF Moved
  <2> QED BY <1>2, <1>12, <2>1, <2>4 DEF Types
<1>21. CountIsReferences'
  <2>1. \A d \in Clients \ {c}, k \in {1, 2}, i \in Inodes : CallRef(d, k, i)' <=> CallRef(d, k, i)
    BY <1>12 DEF CallRef
  <2>2. \A t \in Slots \ {s}, k \in {1, 2}, i \in Inodes : MountRef(t, k, i)' <=> MountRef(t, k, i)
    BY <1>2, <1>15 DEF MountRef
  <2>3. \A d \in Clients \ {c} : workdir'[d] = workdir[d]
    BY <1>2
  <2>4. ASSUME NEW i \in Inodes
        PROVE  count'[i] = count[i] - Part(c, s, i) + Part(c, s, i)'
    <3> DEFINE w == IF workdir[c] = i THEN 1 ELSE 0
               d == IF p = i THEN 1 ELSE 0
               o == IF q = i THEN 1 ELSE 0
    <3>1. ~CallRef(c, 1, i) /\ ~CallRef(c, 2, i) /\ ~CallRef(c, 1, i)' /\ ~CallRef(c, 2, i)'
      BY <1>2, <1>13 DEF CallRef
    <3>2. ~MountRef(s, 1, i)' /\ ~MountRef(s, 2, i)'
      BY <1>15 DEF MountRef
    <3>3. (MountRef(s, 1, i) <=> p = i) /\ (MountRef(s, 2, i) <=> q = i)
      BY <1>7, <1>8, <1>10 DEF MountRef
    <3>4. RootRef(i)' = RootRef(i) /\ RootRef(i) \in Nat /\ workdir' = workdir
      BY <1>2 DEF RootRef
    <3>5. Part(c, s, i) = w + RootRef(i) + 0 + 0 + d + o
      BY <3>1, <3>3 DEF Part
    <3>6. Part(c, s, i)' = w + RootRef(i) + 0 + 0 + 0 + 0
      BY <3>1, <3>2, <3>4 DEF Part
    <3>7. w \in Nat /\ d \in Nat /\ o \in Nat /\ count[i] \in Int
      BY <1>0 DEF Types
    <3>8. count'[i] = count[i] - d - o
      BY <1>17
    <3> HIDE DEF w, d, o
    <3> QED BY <3>4, <3>5, <3>6, <3>7, <3>8
  <2> QED BY <1>0, <2>1, <2>2, <2>3, <2>4, PartMoved
<1>22. MountedIsRead' /\ Closed'
  BY <1>0, <1>2 DEF MountedIsRead, Closed
<1>23. /\ \A d \in Clients : ~Is(d, "mount")' /\ ~Is(d, "mount")
       /\ \A d \in Clients : Unmounting(d)' <=> d = c
  <2>1. \A d \in Clients \ {c} : ~Is(d, "mount")' /\ ~Is(d, "mount") /\ ~Unmounting(d)'
    BY <1>4, <1>12 DEF Is, Idle, Unmounting
  <2>2. ~Is(c, "mount")' /\ Unmounting(c)' /\ ~Is(c, "mount")
    BY <1>3, <1>13 DEF Is, Idle, Unmounting
  <2> QED BY <2>1, <2>2
<1>24. Locking'
  <2>1. \A d, e \in Clients : Unmounting(d)' /\ call'[e].pc # "idle" => d = e
    BY <1>4, <1>12, <1>23
  <2> QED BY <1>2, <1>4, <1>23, <2>1 DEF Locking, Idle
<1>25. Placed'
  <2>1. ASSUME NEW d \in Clients
        PROVE  call'[d].pc \notin {"lookup", "cross", "found", "rooted", "flagged"}
    BY <1>4, <1>12, <1>13
  <2>2. ASSUME NEW i, OnDevice(i), i[1] # s
        PROVE  i[1] = ROOT_DEVICE \/ InPlace(i[1])'
    BY <1>15, <2>2 DEF OnDevice
  <2>3. ASSUME NEW d \in Clients, workdir'[d] # nil
        PROVE  workdir'[d][1] = ROOT_DEVICE \/ (InPlace(workdir[d][1]))'
    BY <1>0, <1>2, <1>15, <1>16, <2>3 DEF Placed, OnDevice
  <2>4. ASSUME NEW t \in Slots, InPlace(t)'
        PROVE  mountinfo'[t].imount[1] = ROOT_DEVICE \/ (InPlace(mountinfo[t].imount[1]))'
    BY <1>0, <1>2, <1>15, <1>16, <2>4 DEF Placed, OnDevice
  <2> QED BY <2>1, <2>3, <2>4 DEF Placed, OnDevice
<1>26. Flags'
  <2>1. {d \in Clients : call[d].pc = "flagged"} = {} /\ {d \in Clients : call'[d].pc = "flagged"} = {}
    BY <1>2, <1>4, <1>12, <1>13
  <2>2. mount = {mountinfo[t].imount : t \in {t \in Slots : InPlace(t)}}
    BY <1>0, <2>1 DEF Flags
  <2>3. \A i : (\E t \in Slots : InPlace(t)' /\ i = mountinfo'[t].imount)
               <=> (\E t \in Slots : InPlace(t) /\ i = mountinfo[t].imount) /\ i # p
    BY <1>2, <1>8, <1>10, <1>15
  <2>4. mount' = {mountinfo'[t].imount : t \in {t \in Slots : InPlace(t)'}}
    <3>1. \A i : i \in mount' <=> i \in mount /\ i # p
      BY <1>2, <1>8
    <3>2. \A i : i \in mount <=> \E t \in Slots : InPlace(t) /\ i = mountinfo[t].imount
      BY <2>2
    <3>3. \A i : i \in mount' <=> \E t \in Slots : InPlace(t)' /\ i = mountinfo'[t].imount
      BY <2>3, <3>1, <3>2
    <3>4. \A i : i \in {mountinfo'[t].imount : t \in {t \in Slots : InPlace(t)'}}
                 <=> \E t \in Slots : InPlace(t)' /\ i = mountinfo'[t].imount
      OBVIOUS
    <3> QED BY <3>3, <3>4
  <2> QED BY <2>1, <2>4 DEF Flags
<1>27. ASSUME NEW d \in Clients
       PROVE  Calling(d)' /\ Mounting(d)' /\ Undoing(d)'
  <2>0. Mounting(d)'
    BY <1>23 DEF Mounting
  <2>1. CASE d = c
    <3>1. Undoing(c)'
      BY <1>2, <1>5, <1>13 DEF Undoing, Mounted
    <3>2. Calling(c)'
      BY <1>3, <1>13 DEF Calling, Is, Idle
    <3> QED BY <2>0, <2>1, <3>1, <3>2
  <2>2. CASE d # c
    BY <1>0, <1>2, <1>4, <1>12, <2>0, <2>2 DEF Calling, Undoing, Is, Idle
  <2> QED BY <2>1, <2>2
<1>28. ASSUME NEW t \in Slots
       PROVE  Filled(t)'
  <2>1. ~(t \in Mounted /\ mountinfo[t] = NoMount)
    BY <1>0, <1>23 DEF Filled
  <2> QED BY <1>0, <1>2, <2>1 DEF Filled, Mounted
<1> QED BY <1>20, <1>21, <1>22, <1>24, <1>25, <1>26, <1>27, <1>28 DEF IInv

LEMMA CloseDeviceStep ==
  ASSUME IInv, NEW c \in Clients, CloseDevice(c)
  PROVE  IInv'
<1>0. /\ Types /\ CountIsReferences /\ MountedIsRead /\ Locking /\ Placed /\ Flags /\ Closed
      /\ \A d \in Clients : Calling(d) /\ Mounting(d) /\ Undoing(d) /\ call[d] \in Calls
      /\ \A t \in Slots : Filled(t)
  BY Known
<1>1. PICK s \in Slots : s = call[c].slot
  BY <1>0 DEF Calls
<1>2. call[c].pc = "close" /\ status = "up"
      /\ open' = open \ {devices[s]} /\ devices' = [devices EXCEPT ![s] = nil]
      /\ UNCHANGED <<mountinfo, devs, count, mount, rootproc, workdir, status>>
  BY <1>1 DEF CloseDevice, At
<1>3. Unmounting(c) /\ call[c].req.op \in {"unmount", "shutdown"}
      /\ (Is(c, "shutdown") <=> call[c].req.op = "shutdown")
  BY <1>2, AtUnmount
<1>4. lock = {c} /\ \A d \in Clients \ {c} : call[d].pc = "idle"
  BY <1>3, Unmounter DEF Idle
<1>5. s \in Mounted /\ mountinfo[s] # NoMount /\ s # ROOT_DEVICE
  BY <1>0, <1>1, <1>2 DEF Undoing, Mounted
<1>6. PICK k \in Calls :
        /\ call' = [call EXCEPT ![c] = k]
        /\ \/ k.pc = "next" /\ k.req.op = "shutdown" /\ lock' = {c}
           \/ k.pc = "idle" /\ k.req.op = "none" /\ lock' = {}
  <2>1. CASE Is(c, "shutdown")
    <3> DEFINE n == [call[c] EXCEPT !.pc = "next"]
    <3>1. n \in Calls /\ n.pc = "next" /\ n.req.op = "shutdown"
      BY <1>0, <1>3, <2>1 DEF Calls, Stages
    <3>2. call' = [call EXCEPT ![c] = n] /\ lock' = {c}
      BY <1>0, <1>4, <2>1 DEF CloseDevice, Go
    <3> QED BY <3>1, <3>2
  <2>2. CASE ~Is(c, "shutdown")
    <3>1. call' = [call EXCEPT ![c] = NoCall] /\ lock' = {}
      BY <1>4, <2>2 DEF CloseDevice, Return
    <3> QED BY <3>1, NoCallIs
  <2> QED BY <2>1, <2>2
<1>7. /\ call' \in [Clients -> Calls] /\ call'[c] = k
      /\ \A d \in Clients \ {c} : call'[d] = call[d]
  BY <1>0, <1>6 DEF Types
<1>8. \A t : (IsGiven(t) <=> t = s) /\ ~IsGiven(t)'
  BY <1>1, <1>2, <1>4, <1>6, <1>7 DEF IsGiven
<1>9. /\ devices'[s] = nil
      /\ \A t \in Slots \ {s} : devices'[t] = devices[t]
      /\ devices' \in [Slots -> Devs \cup {nil}]
  BY <1>0, <1>2 DEF Types
<1>10. \A t : InPlace(t)' <=> InPlace(t)
  <2>1. ~InPlace(s) /\ ~InPlace(s)'
    BY <1>8, <1>9 DEF InPlace, Mounted
  <2>2. ASSUME NEW t \in Slots \ {s} PROVE InPlace(t)' <=> InPlace(t)
    BY <1>2, <1>8, <1>9 DEF InPlace, Mounted
  <2>3. \A t : t \notin Slots => ~InPlace(t) /\ ~InPlace(t)'
    BY DEF InPlace, Mounted
  <2> QED BY <2>1, <2>2, <2>3
<1>20. Types'
  <2>1. /\ devs \in [Slots -> Devs \cup {nil}]
        /\ mountinfo \in [Slots -> [imount : Inodes \cup {nil}, isup : Inodes \cup {nil}]]
        /\ open' \subseteq Devs /\ count \in [Inodes -> Int]
        /\ mount \subseteq Inodes /\ rootproc \in BOOLEAN /\ lock' \subseteq Clients
        /\ workdir \in [Clients -> Inodes \cup {nil}] /\ status \in {"up", "closed", "down"}
    BY <1>0, <1>2, <1>6 DEF Types
  <2> QED BY <1>2, <1>7, <1>9, <2>1 DEF Types
<1>21. CountIsReferences'
  <2>1. count \in [Inodes -> Int]
    BY <1>0 DEF Types
  <2>2. ASSUME NEW i \in Inodes
        PROVE  count'[i] = count[i] - Own(c, i) + Own(c, i)'
    <3>1. Own(c, i)' = Own(c, i) /\ Own(c, i) \in Nat /\ count[i] \in Int
      BY <1>2, <1>6, <1>7, <2>1 DEF Own, CallRef
    <3> QED BY <1>2, <3>1
  <2> QED BY <1>0, <1>2, <1>7, <1>10, <2>1, <2>2, OwnMoved
<1>22. MountedIsRead'
  <2>1. ASSUME NEW t \in Slots, devices'[t] # nil
        PROVE  devices'[t] \in open' /\ devs'[t] = devices'[t]
               /\ \A u \in Slots : devices'[u] = devices'[t] => u = t
    <3>1. t # s /\ devices'[t] = devices[t]
      BY <1>9, <2>1
    <3>2. /\ devices[t] \in open /\ devs[t] = devices[t]
          /\ \A u \in Slots : devices[u] = devices[t] => u = t
      BY <1>0, <2>1, <3>1 DEF MountedIsRead
    <3>3. devices[t] # devices[s]
      BY <3>1, <3>2
    <3>4. \A u \in Slots : devices'[u] = devices'[t] => u = t
      BY <1>9, <2>1, <3>1, <3>2
    <3> QED BY <1>2, <3>1, <3>2, <3>3, <3>4
  <2> QED BY <2>1 DEF MountedIsRead
<1>23. Closed'
  BY <1>0, <1>2, <1>5, <1>9, Places DEF Closed
<1>24. /\ \A d \in Clients : ~Is(d, "mount")' /\ ~Is(d, "mount")
       /\ \A d \in Clients : Unmounting(d)' <=> d = c /\ k.pc # "idle"
  <2>1. \A d \in Clients \ {c} : ~Is(d, "mount")' /\ ~Is(d, "mount") /\ ~Unmounting(d)'
    BY <1>4, <1>7 DEF Is, Idle, Unmounting
  <2>2. ~Is(c, "mount")' /\ (Unmounting(c)' <=> k.pc # "idle") /\ ~Is(c, "mount")
    BY <1>3, <1>6, <1>7 DEF Is, Idle, Unmounting
  <2> QED BY <2>1, <2>2
<1>25. Locking'
  <2>1. \A d, e \in Clients : Unmounting(d)' /\ call'[e].pc # "idle" => d = e
    BY <1>4, <1>7, <1>24
  <2>2. \A d \in Clients : d \in lock' <=> Is(d, "mount")' \/ Unmounting(d)'
    BY <1>6, <1>24
  <2>3. \A d, e \in lock' : d = e
    BY <1>6
  <2> QED BY <2>1, <2>2, <2>3 DEF Locking, Idle
<1>26. Placed'
  <2>1. ASSUME NEW d \in Clients
        PROVE  /\ workdir'[d] # nil => OnDevice(workdir'[d])
               /\ call'[d].pc \in {"lookup", "cross"} => OnDevice(call'[d].dirp)
               /\ call'[d].pc \in {"cross", "found", "rooted", "flagged"} => OnDevice(call'[d].rip)
    <3>1. call'[d].pc \notin {"lookup", "cross", "found", "rooted", "flagged"}
      BY <1>4, <1>6, <1>7
    <3> QED BY <1>0, <1>2, <3>1 DEF Placed
  <2> QED BY <1>0, <1>2, <1>10, <2>1, PlacedIf
<1>27. Flags'
  <2>1. {mountinfo'[t].imount : t \in {t \in Slots : InPlace(t)'}}
        = {mountinfo[t].imount : t \in {t \in Slots : InPlace(t)}}
    BY <1>2, <1>10
  <2>2. {d \in Clients : call[d].pc = "flagged"} = {} /\ {d \in Clients : call'[d].pc = "flagged"} = {}
    BY <1>2, <1>4, <1>6, <1>7
  <2> QED BY <1>0, <1>2, <2>1, <2>2 DEF Flags
<1>28. ASSUME NEW d \in Clients
       PROVE  Calling(d)' /\ Mounting(d)' /\ Undoing(d)'
  <2>0. Mounting(d)'
    BY <1>24 DEF Mounting
  <2>1. call'[d].pc \in {"idle", "next"}
    BY <1>4, <1>6, <1>7
  <2>2. Undoing(d)'
    BY <2>1 DEF Undoing
  <2>3. Calling(d)'
    <3>1. CASE d = c
      BY <1>6, <1>7, <3>1 DEF Calling, Is, Idle
    <3>2. CASE d # c
      BY <1>0, <1>2, <1>4, <1>7, <3>2 DEF Calling, Is, Idle
    <3> QED BY <3>1, <3>2
  <2> QED BY <2>0, <2>2, <2>3
<1>29. ASSUME NEW t \in Slots
       PROVE  Filled(t)'
  <2>1. ~(t \in Mounted' /\ mountinfo[t] = NoMount)
    BY <1>0, <1>5, <1>9, <1>24 DEF Filled, Mounted
  <2> QED BY <1>0, <1>2, <2>1 DEF Filled, Mounted
<1> QED BY <1>20, <1>21, <1>22, <1>23, <1>25, <1>26, <1>27, <1>28, <1>29 DEF IInv

\* Once nothing is mounted and the root device is not busy, the root process has
\* the last reference to an inode.
LEMMA LastReference ==
  ASSUME IInv, status = "up", Mounted = {}, ~Busy(ROOT_DEVICE),
         \A d \in Clients : call[d].pc \in {"idle", "next"},
         NEW i \in Inodes
  PROVE  count[i] = IF i = Root THEN 1 ELSE 0
<1>0. /\ CountIsReferences /\ Closed /\ Placed
      /\ \A d \in Clients : workdir[d] \in Inodes \cup {nil} /\ i # nil
  BY Known, Places DEF Types
<1>1. \A t : ~InPlace(t)
  BY DEF InPlace
<1>2. rootproc /\ Root \in Inodes
  BY <1>0, Places DEF Closed
<1>3. \A t \in Slots, k \in {1, 2} : ~MountRef(t, k, i)
  BY <1>1 DEF MountRef
<1>4. \A d \in Clients, k \in {1, 2} : ~CallRef(d, k, i)
  BY DEF CallRef
<1>5. count[Root] > 0 /\ count[Root] \in Nat /\ count[i] \in Nat
  BY <1>0, <1>2, Referred
<1>6. ~(count[Root] > 1)
  <2>1. Root \in Users(ROOT_DEVICE)
    BY <1>2, <1>5 DEF Users, Root
  <2> QED BY <2>1 DEF Busy
<1>7. CASE i = Root
  BY <1>5, <1>6, <1>7
<1>8. CASE i # Root
  <2> SUFFICES ASSUME count[i] > 0 PROVE FALSE
    BY <1>5, <1>8
  <2>1. i[1] = ROOT_DEVICE
    <3>1. PICK d \in Clients : workdir[d] = i
      BY <1>0, <1>3, <1>4, <1>8, Referred
    <3>2. OnDevice(workdir[d])
      BY <1>0, <3>1 DEF Placed
    <3> QED BY <1>1, <3>1, <3>2 DEF OnDevice
  <2> DEFINE U == Users(ROOT_DEVICE)
             V == U \ {Root}
  <2>2. IsFiniteSet(U) /\ i \in V /\ Root \in U
    <3>1. U \subseteq Inodes
      BY DEF Users
    <3>2. i \in U /\ Root \in U
      BY <1>2, <1>5, <2>1 DEF Users, Root
    <3> QED BY <1>8, <3>1, <3>2, SlotsFinite, FS_Subset
  <2>3. ~(Cardinality(U) > 1)
    BY DEF Busy
  <2> HIDE DEF U
  <2>4. IsFiniteSet(V) /\ Cardinality(V) = Cardinality(U) - 1
    BY <2>2, FS_RemoveElement
  <2>5. Cardinality(V) # 0 /\ Cardinality(V) \in Nat /\ Cardinality(U) \in Nat
    BY <2>2, <2>4, FS_EmptySet, FS_CardinalityType
  <2> QED BY <2>3, <2>4, <2>5
<1> QED BY <1>7, <1>8

LEMMA ShutdownRootStep ==
  ASSUME IInv, NEW c \in Clients, ShutdownRoot(c)
  PROVE  IInv'
<1>0. /\ Types /\ CountIsReferences /\ MountedIsRead /\ Locking /\ Placed /\ Flags /\ Closed
      /\ \A d \in Clients : Calling(d) /\ Mounting(d) /\ Undoing(d) /\ call[d] \in Calls
      /\ \A t \in Slots : Filled(t)
  BY Known
<1>1. call[c].pc = "next" /\ status = "up" /\ Mounted = {} /\ UNCHANGED <<mount, workdir>>
  BY DEF ShutdownRoot, At
<1>2. Unmounting(c)
  BY <1>1, AtUnmount
<1>3. lock = {c} /\ (\A d \in Clients \ {c} : call[d].pc = "idle") /\ \A d \in Clients \ {c} : Idle(d)
  BY <1>2, Unmounter DEF Idle
<1>4. CASE Busy(ROOT_DEVICE) /\ Return(c) /\ UNCHANGED <<tables, count, rootproc, status>>
  <2>1. call' = [call EXCEPT ![c] = NoCall] /\ lock' = {}
    BY <1>3, <1>4 DEF Return
  <2>2. lock' = IF NoCall.pc = "idle" THEN {} ELSE {c}
    BY <2>1, NoCallIs
  <2> QED BY <1>1, <1>3, <1>4, <2>1, <2>2, NoCallIs, UnmountLooks
<1>5. CASE /\ ~Busy(ROOT_DEVICE)
           /\ rootproc' = FALSE /\ Moved({}, {Root})
           /\ devices' = [devices EXCEPT ![ROOT_DEVICE] = nil]
           /\ open' = open \ {devices[ROOT_DEVICE]}
           /\ status' = "closed" /\ Return(c)
           /\ UNCHANGED <<mountinfo, devs>>
  <2>1. call' = [call EXCEPT ![c] = NoCall] /\ lock' = {}
    BY <1>3, <1>5 DEF Return
  <2>2. /\ call' \in [Clients -> Calls] /\ call'[c] = NoCall
        /\ \A d \in Clients \ {c} : call'[d] = call[d]
    BY <1>0, <2>1, NoCallIs DEF Types
  <2>3. \A d \in Clients : call'[d].pc = "idle" /\ ~Is(d, "mount")' /\ ~Unmounting(d)'
    <3>1. \A d \in Clients : call'[d].pc = "idle"
      BY <1>3, <2>2, NoCallIs
    <3> QED BY <3>1 DEF Is, Idle, Unmounting
  <2>4. ROOT_DEVICE \in Slots /\ Root \in Inodes /\ \A i \in Inodes : i # nil
    BY Places
  <2>5. /\ \A t \in Slots : devices'[t] = nil
        /\ devices' \in [Slots -> Devs \cup {nil}]
    BY <1>0, <1>1, <1>5, <2>4 DEF Types, Mounted
  <2>6. \A t : ~InPlace(t) /\ ~InPlace(t)'
    BY <1>1, <2>5 DEF InPlace, Mounted
  <2>7. \A i \in Inodes : count[i] = IF i = Root THEN 1 ELSE 0
    BY <1>1, <1>3, <1>5, LastReference
  <2>8. \A i \in Inodes : count'[i] = 0
    BY <1>5, <2>7 DEF Moved, One
  <2>9. \A i \in Inodes : One(i, {Root}) = count[i]
    BY <2>7 DEF One
  <2>20. Types'
    <3>1. /\ devs \in [Slots -> Devs \cup {nil}]
          /\ mountinfo \in [Slots -> [imount : Inodes \cup {nil}, isup : Inodes \cup {nil}]]
          /\ open' \subseteq Devs
          /\ mount \subseteq Inodes /\ rootproc' \in BOOLEAN /\ lock' \subseteq Clients
          /\ workdir \in [Clients -> Inodes \cup {nil}] /\ status' \in {"up", "closed", "down"}
      BY <1>0, <1>5, <2>1 DEF Types
    <3>2. count' \in [Inodes -> Int]
      <4>1. \A i \in Inodes : count'[i] \in Int
        BY <2>8
      <4>2. Moved({}, {Root})
        BY <1>5
      <4> QED BY <4>1, <4>2 DEF Moved
    <3> QED BY <1>1, <1>5, <2>2, <2>5, <3>1, <3>2 DEF Types
  <2>21. CountIsReferences'
    <3>1. \A d \in Clients, k \in {1, 2}, i \in Inodes : ~CallRef(d, k, i) /\ ~CallRef(d, k, i)'
      BY <1>1, <1>3, <2>3 DEF CallRef
    <3>2. \A t \in Slots, k \in {1, 2}, i \in Inodes : ~MountRef(t, k, i) /\ ~MountRef(t, k, i)'
      BY <2>6 DEF MountRef
    <3>3. ASSUME NEW i \in Inodes
          PROVE  count'[i] = count[i] - Part(c, ROOT_DEVICE, i) + Part(c, ROOT_DEVICE, i)'
      <4> DEFINE w == IF workdir[c] = i THEN 1 ELSE 0
      <4>1. Part(c, ROOT_DEVICE, i) = w + RootRef(i) + 0 + 0 + 0 + 0
        BY <2>4, <3>1, <3>2 DEF Part
      <4>2. Part(c, ROOT_DEVICE, i)' = w + RootRef(i)' + 0 + 0 + 0 + 0
        BY <1>1, <2>4, <3>1, <3>2 DEF Part
      <4>3. RootRef(i) = count[i] /\ RootRef(i)' = 0
        BY <1>0, <1>1, <1>5, <2>7 DEF RootRef, Closed
      <4>4. w \in Nat /\ count[i] \in Nat /\ count'[i] = 0
        BY <2>7, <2>8
      <4> HIDE DEF w
      <4> QED BY <4>1, <4>2, <4>3, <4>4
    <3>4. \A d \in Clients \ {c}, k \in {1, 2}, i \in Inodes : CallRef(d, k, i)' <=> CallRef(d, k, i)
      BY <3>1
    <3>5. \A t \in Slots \ {ROOT_DEVICE}, k \in {1, 2}, i \in Inodes : MountRef(t, k, i)' <=> MountRef(t, k, i)
      BY <3>2
    <3>6. \A d \in Clients \ {c} : workdir'[d] = workdir[d]
      BY <1>1
    <3> QED BY <1>0, <2>4, <3>3, <3>4, <3>5, <3>6, PartMoved
  <2>22. MountedIsRead'
    BY <2>5 DEF MountedIsRead
  <2>23. Closed'
    BY <1>5, <2>8 DEF Closed
  <2>24. Locking'
    BY <2>1, <2>3 DEF Locking
  <2>25. Placed'
    <3>1. ASSUME NEW d \in Clients
          PROVE  /\ workdir'[d] # nil => OnDevice(workdir'[d])
                 /\ call'[d].pc \in {"lookup", "cross"} => OnDevice(call'[d].dirp)
                 /\ call'[d].pc \in {"cross", "found", "rooted", "flagged"} => OnDevice(call'[d].rip)
      BY <1>0, <1>1, <2>3 DEF Placed
    <3> QED BY <1>0, <1>5, <2>6, <3>1, PlacedIf
  <2>26. Flags'
    <3>1. mount = {}
      BY <1>0, <1>1, <1>3, <2>6 DEF Flags
    <3> QED BY <1>1, <2>3, <2>6, <3>1 DEF Flags
  <2>27. ASSUME NEW d \in Clients
         PROVE  Calling(d)' /\ Mounting(d)' /\ Undoing(d)'
    <3>1. Mounting(d)' /\ Undoing(d)'
      BY <2>3 DEF Mounting, Undoing
    <3>2. call'[d].req.op \notin {"chdir", "mount", "unmount", "shutdown"}
      <4>1. CASE d = c
        BY <2>2, <4>1, NoCallIs
      <4>2. CASE d # c
        BY <1>0, <1>3, <2>2, <4>2 DEF Calling, Idle
      <4> QED BY <4>1, <4>2
    <3>3. Calling(d)'
      BY <2>3, <3>2 DEF Calling, Is, Idle
    <3> QED BY <3>1, <3>3
  <2>28. ASSUME NEW t \in Slots
         PROVE  Filled(t)'
    BY <1>0, <1>5, <2>5 DEF Filled, Mounted
  <2> QED BY <2>20, <2>21, <2>22, <2>23, <2>24, <2>25, <2>26, <2>27, <2>28 DEF IInv
<1> QED BY <1>4, <1>5 DEF ShutdownRoot

\* While the program is up no step reads a device that is closed.
LEMMA NoPanic ==
  ASSUME IInv, status = "up", NEW c \in Clients
  PROVE  /\ At(c, "lookup") => /\ Reads(call[c].dirp[1])
                               /\ \A i \in Named(call[c].dirp, Head(call[c].rest)) : Loads(i)
         /\ At(c, "found") /\ Is(c, "mount") => Reads(call[c].slot)
<1>1. ASSUME At(c, "lookup")
      PROVE  /\ Reads(call[c].dirp[1])
             /\ \A i \in Named(call[c].dirp, Head(call[c].rest)) : Loads(i)
  <2>1. /\ call[c].pc = "lookup" /\ call[c].dirp \in Inodes /\ OnDevice(call[c].dirp)
        /\ call[c].rest \in Seq(Names \cup {Up}) /\ call[c].rest # <<>>
    BY <1>1, Walker DEF At
  <2>2. Head(call[c].rest) \in Names \cup {Up}
    BY <2>1
  <2>3. \A i \in Named(call[c].dirp, Head(call[c].rest)) : i \in Inodes /\ OnDevice(i)
    BY <2>1, <2>2, NamedIs
  <2> QED BY <2>1, <2>3, OnDeviceReads
<1>2. ASSUME At(c, "found"), Is(c, "mount")
      PROVE  Reads(call[c].slot)
  <2>1. call[c].slot \in Slots /\ call[c].req.dev # nil
    BY <1>2, Mounter
  <2>2. devices[call[c].slot] # nil
    BY <1>2, <2>1, Known DEF Mounting
  <2> QED BY <2>1, <2>2, Known DEF MountedIsRead, Reads
<1> QED BY <1>1, <1>2

LEMMA GoesStep ==
  ASSUME IInv, NEW c \in Clients, Goes(c)
  PROVE  IInv'
<1>1. CASE Lookup(c)
  <2>1. status = "up" /\ At(c, "lookup") /\ call[c].pc = "lookup"
    BY <1>1 DEF Lookup, At
  <2>2. ~(~Reads(call[c].dirp[1]) \/ \E i \in Named(call[c].dirp, Head(call[c].rest)) : ~Loads(i))
    BY <2>1, NoPanic
  <2>3. /\ \/ Moved({}, {call[c].dirp}) /\ Fail(c)
           \/ \E i \in Named(call[c].dirp, Head(call[c].rest)) :
                /\ Moved({i}, {})
                /\ call' = [call EXCEPT ![c].pc = "cross", ![c].rip = i]
                /\ UNCHANGED <<tables, lock>>
        /\ UNCHANGED <<mount, rootproc, workdir, status>>
    BY <1>1, <2>2 DEF Lookup
  <2>4. Is(c, "mount") <=> ~Is(c, "chdir")
    BY <2>1, Walker
  <2>5. CASE Moved({}, {call[c].dirp}) /\ Fail(c) /\ Is(c, "mount")
    BY <2>1, <2>3, <2>5, MountFails
  <2>6. CASE Moved({}, {call[c].dirp}) /\ Fail(c) /\ Is(c, "chdir")
    <3>1. Return(c) /\ UNCHANGED <<tables, mount, rootproc, workdir, status>>
      BY <2>3, <2>4, <2>6 DEF Fail, tables
    <3> QED BY <2>1, <2>6, <3>1, ChdirFails
  <2>7. CASE \E i \in Named(call[c].dirp, Head(call[c].rest)) :
               /\ Moved({i}, {})
               /\ call' = [call EXCEPT ![c].pc = "cross", ![c].rip = i]
               /\ UNCHANGED <<tables, lock>>
    BY <2>1, <2>3, <2>7, LookupStep
  <2> QED BY <2>3, <2>4, <2>5, <2>6, <2>7
<1>2. CASE Cross(c)
  <2>1. At(c, "cross") /\ call[c].rip \in mount /\ Crossings(call[c].rip) # {} /\ status = "up"
    BY <1>2 DEF Cross, At
  <2>2. PICK t \in Slots : InPlace(t) /\ Crossings(call[c].rip) = {t}
    BY <2>1, CrossingIs
  <2> DEFINE s == CHOOSE u \in Crossings(call[c].rip) : \A v \in Crossings(call[c].rip) : u <= v
  <2>3. s = t
    BY <2>2 DEF Slots
  <2>4. Loads(<<s, ROOT_INODE>>)
    <3>1. <<t, ROOT_INODE>> \in Inodes /\ <<t, ROOT_INODE>>[1] = t
      BY Places
    <3>2. OnDevice(<<t, ROOT_INODE>>)
      BY <2>2, <3>1 DEF OnDevice
    <3> QED BY <2>1, <2>3, <3>1, <3>2, OnDeviceReads
  <2>5. /\ Moved({<<s, ROOT_INODE>>}, {call[c].rip})
        /\ call' = [call EXCEPT ![c].rip = <<s, ROOT_INODE>>]
        /\ UNCHANGED <<tables, mount, rootproc, workdir, lock, status>>
    BY <1>2, <2>4 DEF Cross
  <2> HIDE DEF s
  <2> QED BY <2>1, <2>2, <2>3, <2>5, CrossStep
<1>3. CASE MountRoot(c)
  <2>1. status' # "panicked"
    <3>1. At(c, "found") /\ Is(c, "mount") /\ status = "up"
      BY <1>3 DEF MountRoot, At
    <3>2. Reads(call[c].slot)
      BY <3>1, NoPanic
    <3> QED BY <1>3, <3>1, <3>2 DEF MountRoot
  <2> QED BY <1>3, <2>1, MountRootStep
<1> QED BY <1>1, <1>2, <1>3, ArriveStep, EndChdirStep, SetMountStep, EndMountStep, NextDeviceStep,
           IsBusyStep, ReleaseStep, CloseDeviceStep, ShutdownRootStep DEF Goes

LEMMA NextStep ==
  ASSUME Tame, IInv, [Next]_vars
  PROVE  IInv'
<1>1. CASE Next
  <2>1. PICK c \in Clients : Goes(c) \/ \E r \in Requests : Begins(c, r)
    BY <1>1 DEF Next
  <2>2. CASE Goes(c)
    BY <2>2, GoesStep
  <2>3. CASE \E r \in Requests : Begins(c, r)
    <3>1. PICK r \in Requests : Begins(c, r)
      BY <2>3
    <3> QED BY <3>1, SpawnStep, ExitStep, ChdirStep, MountStep, UnmountStep, ShutdownStep DEF Begins
  <2> QED BY <2>1, <2>2, <2>3
<1>2. CASE UNCHANGED vars
  <2>1. UNCHANGED <<devices, mountinfo, devs, open, count, mount, rootproc, workdir, lock, call, status>>
    BY <1>2 DEF vars, tables
  <2>2. \A s : IsGiven(s)' <=> IsGiven(s)
    BY <2>1 DEF IsGiven
  <2>3. \A s : InPlace(s)' <=> InPlace(s)
    BY <2>1, <2>2 DEF InPlace, Mounted
  <2>4. /\ Types /\ CountIsReferences /\ MountedIsRead /\ Locking /\ Placed /\ Flags /\ Closed
        /\ \A d \in Clients : Calling(d) /\ Mounting(d) /\ Undoing(d)
        /\ \A s \in Slots : Filled(s)
    BY Known
  <2>5. Types' /\ MountedIsRead' /\ Closed'
    BY <2>1, <2>4 DEF Types, MountedIsRead, Closed
  <2>6. Locking'
    BY <2>1, <2>4 DEF Locking, Is, Idle, Unmounting
  <2>7. Placed' /\ Flags'
    BY <2>1, <2>3, <2>4 DEF Placed, OnDevice, Flags
  <2>8. CountIsReferences'
    <3>1. Counted
      BY <2>4, CountIs
    <3>2. \A i \in Inodes : Dirs(i)' = Dirs(i) /\ RootRef(i)' = RootRef(i)
      BY <2>1 DEF Dirs, RootRef
    <3>3. ASSUME NEW i \in Inodes PROVE CallRefs(i)' = CallRefs(i)
      <4>1. \A c, k : CallRef(c, k, i)' <=> CallRef(c, k, i)
        BY <2>1 DEF CallRef
      <4> QED BY <4>1 DEF CallRefs
    <3>4. ASSUME NEW i \in Inodes PROVE MountRefs(i)' = MountRefs(i)
      <4>1. \A s, k : MountRef(s, k, i)' <=> MountRef(s, k, i)
        BY <2>1, <2>3 DEF MountRef
      <4> QED BY <4>1 DEF MountRefs
    <3>5. Counted'
      BY <2>1, <3>1, <3>2, <3>3, <3>4 DEF Counted
    <3> QED BY <3>5, CountIsNext
  <2>9. \A d \in Clients : Calling(d)' /\ Mounting(d)' /\ Undoing(d)'
    BY <2>1, <2>4 DEF Calling, Mounting, Undoing, Is, Idle, Mounted, Busy, Users
  <2>10. \A s \in Slots : Filled(s)'
    BY <2>1, <2>4 DEF Filled, Mounted, Is, Idle
  <2> QED BY <2>5, <2>6, <2>7, <2>8, <2>9, <2>10 DEF IInv
<1> QED BY <1>1, <1>2
-----------------------------------------------------------------------------
LEMMA InitStep == Init => IInv
<1> SUFFICES ASSUME Init PROVE IInv
  OBVIOUS
<1>0. ROOT_DEVICE \in Slots /\ Root \in Inodes /\ (\A i \in Inodes : i # nil)
      /\ (\A i \in Inodes : i[1] \in Slots) /\ RootDev \in Devs /\ RootDev # nil
  BY Places, DevsAssumption DEF DevsAssumption
<1>1. /\ \A c \in Clients : call[c] = NoCall /\ workdir[c] = nil
      /\ \A s \in Slots : /\ devices[s] = IF s = ROOT_DEVICE THEN RootDev ELSE nil
                          /\ devs[s] = devices[s] /\ mountinfo[s] = NoMount
      /\ mount = {} /\ rootproc /\ lock = {} /\ status = "up" /\ open = Devs
  BY DEF Init
<1>2. \A c \in Clients : call[c].pc = "idle" /\ call[c].req.op = "none"
  BY <1>1, NoCallIs
<1>3. \A s : ~InPlace(s)
  BY <1>1 DEF InPlace, Mounted
<1>4. \A c \in Clients : ~Is(c, "mount") /\ ~Unmounting(c) /\ ~Is(c, "chdir")
  BY <1>2 DEF Is, Idle, Unmounting
<1>5. Types
  <2>1. devices \in [Slots -> Devs \cup {nil}] /\ devs \in [Slots -> Devs \cup {nil}]
    BY <1>0 DEF Init
  <2>2. mountinfo \in [Slots -> [imount : Inodes \cup {nil}, isup : Inodes \cup {nil}]]
    BY DEF Init, NoMount
  <2>3. count \in [Inodes -> Int]
    BY DEF Init, One
  <2>4. workdir \in [Clients -> Inodes \cup {nil}] /\ call \in [Clients -> Calls]
    BY NoCallIs DEF Init
  <2> QED BY <1>1, <2>1, <2>2, <2>3, <2>4 DEF Types
<1>6. CountIsReferences
  <2>1. ASSUME NEW i \in Inodes
        PROVE  Dirs(i) = {} /\ CallRefs(i) = {} /\ MountRefs(i) = {}
    <3>1. \A c \in Clients, k \in {1, 2} : ~CallRef(c, k, i)
      BY <1>2 DEF CallRef
    <3>2. \A s \in Slots, k \in {1, 2} : ~MountRef(s, k, i)
      BY <1>3 DEF MountRef
    <3>3. Dirs(i) = {}
      BY <1>0, <1>1 DEF Dirs
    <3> QED BY <3>1, <3>2, <3>3 DEF CallRefs, MountRefs
  <2>2. ASSUME NEW i \in Inodes
        PROVE  count[i] = RootRef(i) /\ RootRef(i) \in Nat
    BY <1>1 DEF Init, One, RootRef
  <2>3. Cardinality({}) = 0
    BY FS_EmptySet
  <2>4. Counted
    BY <2>1, <2>2, <2>3 DEF Counted
  <2> QED BY <2>4, CountIs
<1>7. MountedIsRead
  BY <1>0, <1>1 DEF MountedIsRead
<1>8. Locking
  BY <1>1, <1>4 DEF Locking
<1>9. Placed
  BY <1>1, <1>2, <1>3 DEF Placed
<1>10. Flags
  BY <1>1, <1>2, <1>3 DEF Flags
<1>11. Closed
  BY <1>0, <1>1 DEF Closed
<1>12. \A c \in Clients : Calling(c) /\ Mounting(c) /\ Undoing(c)
  BY <1>2, <1>4 DEF Calling, Mounting, Undoing, Idle
<1>13. ASSUME NEW s \in Slots PROVE Filled(s)
  BY <1>1 DEF Filled, Mounted
<1> QED BY <1>5, <1>6, <1>7, <1>8, <1>9, <1>10, <1>11, <1>12, <1>13 DEF IInv

\* The invariant holds in every state that Mount, Unmount and Shutdown lead to.
THEOREM Invariant == Tame => (Spec => []IInv)
<1> SUFFICES ASSUME Tame PROVE Spec => []IInv
  OBVIOUS
<1>1. Init => IInv
  BY InitStep
<1>2. IInv /\ [Next]_vars => IInv'
  BY NextStep
<1> QED BY <1>1, <1>2, PTL DEF Spec

\* The count of an inode is the number of those who use it, whatever mounts,
\* fails to mount and is unmounted.
THEOREM CountsReferences == Tame => (Spec => []CountIsReferences)
<1>1. IInv => CountIsReferences
  BY Known
<1> QED BY <1>1, Invariant, PTL

\* A device is mounted once and open, and the block cache reads it in its slot.
THEOREM MountsAreRead == Tame => (Spec => []MountedIsRead)
<1>1. IInv => MountedIsRead
  BY Known
<1> QED BY <1>1, Invariant, PTL

\* No path that is followed and no mount reads a device that has been closed.
THEOREM Panics == Tame => (Spec => []NeverPanics)
<1>1. IInv => NeverPanics
  BY Known DEF Types, NeverPanics
<1> QED BY <1>1, Invariant, PTL

LEMMA Leads == IInv => MountPointsLead
<1> SUFFICES ASSUME IInv, lock = {}
             PROVE  /\ mount = {mountinfo[s].imount : s \in Mounted}
                    /\ \A s \in Mounted : Crossings(mountinfo[s].imount) = {s}
  BY DEF MountPointsLead
<1>1. \A d \in Clients : ~Is(d, "mount") /\ call[d].pc \notin {"flagged", "close"}
  BY LockFree
<1>2. \A s \in Slots : Filled(s) /\ ~IsGiven(s)
  BY <1>1, Known DEF IsGiven
<1>3. \A s \in Mounted : s \in Slots /\ mountinfo[s] # NoMount
  BY <1>1, <1>2 DEF Filled, Mounted
<1>4. {s \in Slots : InPlace(s)} = Mounted
  BY <1>2, <1>3 DEF InPlace, Mounted
<1>5. {d \in Clients : call[d].pc = "flagged"} = {}
  BY <1>1
<1>6. mount = {mountinfo[s].imount : s \in Mounted}
  BY <1>4, <1>5, Known DEF Flags
<1>7. ASSUME NEW s \in Mounted
      PROVE  Crossings(mountinfo[s].imount) = {s}
  BY <1>2, <1>3 DEF Filled, Crossings
<1> QED BY <1>6, <1>7

\* When nobody mounts or unmounts, every mounted device covers an inode that leads
\* to it and to no other, and no other inode is a mount point.
THEOREM PointsLead == Tame => (Spec => []MountPointsLead)
BY Leads, Invariant, PTL

LEMMA Uses == IInv => UsedIsMounted
<1> SUFFICES ASSUME IInv PROVE UsedIsMounted
  OBVIOUS
<1>0. /\ Types /\ CountIsReferences /\ Placed /\ Closed
      /\ \A d \in Clients : Calling(d) /\ Mounting(d)
      /\ \A s \in Slots : Filled(s)
  BY Known
<1>1. ASSUME NEW s \in Slots, Users(s) # {}
      PROVE  devices[s] # nil
  <2>1. PICK i \in Inodes : i[1] = s /\ count[i] > 0
    BY <1>1 DEF Users
  <2>2. status # "closed"
    BY <1>0, <2>1 DEF Closed
  <2>3. ASSUME OnDevice(i) PROVE devices[s] # nil
    BY <2>1, <2>2, <2>3, OnDeviceReads
  <2>4. CASE \E c \in Clients : workdir[c] = i
    <3>1. OnDevice(i)
      BY <1>0, <2>4, Places DEF Placed
    <3> QED BY <2>3, <3>1
  <2>5. CASE i = Root /\ rootproc
    BY <2>3, <2>5 DEF OnDevice, Root
  <2>6. CASE \E c \in Clients, k \in {1, 2} : CallRef(c, k, i)
    <3>1. PICK c \in Clients, k \in {1, 2} : CallRef(c, k, i)
      BY <2>6
    <3>2. CASE k = 1 \/ call[c].pc = "cross"
      <4>1. OnDevice(i)
        BY <1>0, <3>1, <3>2 DEF CallRef, Placed
      <4> QED BY <2>3, <4>1
    <3>3. CASE k = 2 /\ call[c].pc # "cross"
      <4>1. call[c].pc \in {"rooted", "flagged"} /\ i = <<call[c].slot, ROOT_INODE>>
        BY <3>1, <3>3 DEF CallRef
      <4>2. Is(c, "mount")
        BY <1>0, <4>1 DEF Calling, Is, Idle
      <4>3. call[c].slot = s
        BY <2>1, <4>1
      <4>4. call[c].req.dev # nil /\ devices[s] = call[c].req.dev
        BY <1>0, <4>2, <4>3, Mounter DEF Mounting
      <4> QED BY <4>4
    <3> QED BY <3>2, <3>3
  <2>7. CASE \E t \in Slots, k \in {1, 2} : MountRef(t, k, i)
    <3>1. PICK t \in Slots, k \in {1, 2} : MountRef(t, k, i)
      BY <2>7
    <3>2. InPlace(t) /\ Filled(t) /\ mountinfo[t] # NoMount
      BY <1>0, <3>1 DEF MountRef, InPlace
    <3>3. OnDevice(i)
      <4>1. CASE k = 1
        BY <1>0, <3>1, <3>2, <4>1 DEF MountRef, Placed
      <4>2. CASE k = 2
        BY <3>1, <3>2, <4>2 DEF MountRef, Filled, OnDevice
      <4> QED BY <4>1, <4>2
    <3> QED BY <2>3, <3>3
  <2> QED BY <1>0, <2>1, <2>4, <2>5, <2>6, <2>7, Referred
<1> QED BY <1>0, <1>1 DEF UsedIsMounted, Closed

\* A device of which an inode is in use stays mounted, and when Shutdown has
\* ended no inode is in use.
THEOREM UsedStayMounted == Tame => (Spec => []UsedIsMounted)
BY Uses, Invariant, PTL
=============================================================================
