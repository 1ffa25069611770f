---------------------------- MODULE SyscallsProofs ----------------------------
(***************************************************************************)
(* Theorems about the system calls.                                        *)
(*                                                                         *)
(* CountIsReferences says what the count of an inode is.  Why every step   *)
(* keeps it has to do with the calls: a call has what its stage says (Fits),*)
(* a process that is spawned or exits is nobody else's meanwhile (Running, *)
(* Alone), and an open file has its descriptor marked as taken, so that Open*)
(* does not overwrite another one (Descriptors).                           *)
(*                                                                         *)
(* A step changes what its own thread has, or one process.  CallFrame and  *)
(* ProcessFrame say once what such a step must do to the counts; after them*)
(* there is one lemma for every action.                                    *)
(*                                                                         *)
(* UsedIsAllocated and TreeIsSound are about the tree.  It is one between  *)
(* the steps of a call too (TreeInv), but for what the call leaves undone: *)
(* an inode with its link and no entry yet (Linking), a directory with no  *)
(* . and .. yet (Making), one that has them and no entry any more (Leaving).*)
(* One call at a time changes it (OneChange), what has no links and no     *)
(* users is free (FreeIs), and the counts say what has users.  The call    *)
(* knows things of the tree (Knows) that no step of another thread changes.*)
(***************************************************************************)
EXTENDS Syscalls, FiniteSetTheorems, SequenceTheorems, WellFoundedInduction, TLAPS

-----------------------------------------------------------------------------
(* What is assumed of the programs. *)

\* No process exits with a working directory that is not its root directory, nor
\* leaves a root directory of its own.
StaysIn == "chdir" \notin Wild

-----------------------------------------------------------------------------
(* The inductive invariant: calls, processes and references. *)

Stages == {"idle", "walk", "got", "make", "exists", "link", "made", "prepared", "empty",
           "unused", "dots", "hung", "exit"}
\* (The provers do not know that the strings of the model are strings.)
Names == STRING \cup {".", "..", "d"}
Entries == [dir : Inodes, name : Names, inode : Inodes]
Links == 0 .. Uint16 - 1
Disks == [kind : [Inodes -> {"free", "file", "dir"}], nlinks : [Inodes -> Links],
          entries : SUBSET Entries]
Files == [filpidx : Filps, inode : Inodes]
Processes == [rootdir : Inodes, workdir : Inodes, filp : SUBSET Fds,
              files : [Fds -> {NoFile} \cup Files]]
Calls == [pc : Stages, req : Requests \cup {NoRequest}, rest : Seq(STRING),
          dirp : Inodes \cup {0}, rip : Inodes \cup {0}]
Mutexes == [Pids \cup {ProcTable} -> {{}} \cup {{t} : t \in Threads}]
FilpTables == [Filps -> {NoFilp} \cup [pid : Pids, fd : Fds]]
Shapes ==
  /\ disk \in Disks
  /\ count \in [Inodes -> Int] /\ lost \in [Inodes -> Nat]
  /\ procs \in [Pids -> {NoProcess} \cup Processes]
  /\ filps \in FilpTables
  /\ mutex \in Mutexes
  /\ call \in [Threads -> Calls]
  /\ status \in {"up", "down", "panicked"}

\* What a call has at its stage.
LastOf(r) == r.path[Len(r.path)]
InDirectory == {"walk", "make", "exists", "link", "made", "prepared", "empty", "unused", "dots"}
WithInode == {"got", "exists", "link", "made", "prepared", "empty", "unused", "dots"}
Creates(r) == r.op = "mkdir" \/ (r.op = "open" /\ "O_CREAT" \in r.flags)
Fits(c) ==
  /\ c.pc = "idle" <=> c.req = NoRequest
  /\ c.dirp # 0 <=> c.pc \in InDirectory
  /\ c.rip # 0 <=> c.pc \in WithInode
  /\ c.pc \in InDirectory =>
       /\ c.req.op \in PathCalls /\ c.rest # <<>>
       /\ c.rest[Len(c.rest)] = LastOf(c.req)
       /\ c.pc # "walk" => Len(c.rest) = 1
  /\ c.pc = "got" => c.req.op \in {"open", "chdir", "spawn"} /\ ~Creates(c.req)
  /\ c.pc \in {"make", "exists", "link", "made"} => Creates(c.req)
  /\ c.pc = "prepared" => c.req.op \in {"unlink", "rmdir"}
  /\ c.pc \in {"empty", "unused", "dots"} => c.req.op = "rmdir"
  /\ c.pc = "hung" => c.req.op = "mkdir"
  /\ c.pc = "exit" => c.req.op = "exit"

\* Who spawns has no process yet, and who exits has no more than one directory.
Running(t) ==
  LET r == call[t].req IN
  ~Idle(t) =>
    /\ r.op = "spawn" <=> ~Alive(r.pid)
    /\ r.op = "exit" => procs[r.pid].workdir = procs[r.pid].rootdir

\* Nothing else is done for a process that begins or ends.
Alone ==
  \A t, u \in Threads :
    ~Idle(t) /\ ~Idle(u) /\ call[t].req.pid = call[u].req.pid /\ call[t].req.op \in {"spawn", "exit"}
      => t = u

Descriptors == \A p \in Pids, fd \in Fds : IsOpen(p, fd) => fd \in procs[p].filp

CInv ==
  /\ Shapes /\ CountIsReferences
  /\ \A t \in Threads : Fits(call[t]) /\ Running(t)
  /\ Alone /\ Descriptors
-----------------------------------------------------------------------------
(* Counting references. *)

SameBut(S, T, x) == S \ {x} = T \ {x}
LEMMA OneElement ==
  ASSUME NEW S, IsFiniteSet(S), NEW T, NEW x, SameBut(S, T, x)
  PROVE  /\ IsFiniteSet(T) /\ Cardinality(S) \in Nat /\ Cardinality(T) \in Nat
         /\ Cardinality(T) = Cardinality(S) - (IF x \in S THEN 1 ELSE 0) + (IF x \in T THEN 1 ELSE 0)
<1>1. CASE x \in S /\ x \notin T
  <2>1. T = S \ {x}
    BY <1>1 DEF SameBut
  <2> QED BY <1>1, <2>1, FS_RemoveElement, FS_CardinalityType
<1>2. CASE x \notin S /\ x \in T
  <2>1. T = S \cup {x}
    BY <1>2 DEF SameBut
  <2> QED BY <1>2, <2>1, FS_AddElement, FS_CardinalityType
<1>3. CASE x \in S <=> x \in T
  <2>1. \A z : z \in T <=> z \in S
    BY <1>3 DEF SameBut
  <2>2. T = S
    BY <2>1
  <2> QED BY <1>3, <2>2, FS_CardinalityType
<1> QED BY <1>1, <1>2, <1>3

DirpAt(i) == {t \in Threads : call[t].dirp = i}
RipAt(i) == {t \in Threads : call[t].rip = i}
FileIs(p, fd, i) == IsOpen(p, fd) /\ procs[p].files[fd].inode = i

LEMMA FdsFinite == IsFiniteSet(Fds) /\ IsFiniteSet(Pids \X Fds)
<1>1. OPEN_MAX - 1 \in Int /\ 0 \in Int
  BY ProgramAssumption DEF ProgramAssumption
<1> QED BY <1>1, FS_Interval, FS_Product, ProgramAssumption DEF Fds, ProgramAssumption

LEMMA RefsFinite ==
  ASSUME NEW i
  PROVE  /\ IsFiniteSet(DirpAt(i)) /\ IsFiniteSet(RipAt(i))
         /\ IsFiniteSet(WorkdirsAt(i)) /\ IsFiniteSet(FilesOn(i))
         /\ Cardinality(DirpAt(i)) \in Nat /\ Cardinality(RipAt(i)) \in Nat
         /\ Cardinality(WorkdirsAt(i)) \in Nat /\ Cardinality(FilesOn(i)) \in Nat
<1>1. /\ DirpAt(i) \subseteq Threads /\ RipAt(i) \subseteq Threads
      /\ WorkdirsAt(i) \subseteq Pids /\ FilesOn(i) \subseteq Pids \X Fds
  BY DEF DirpAt, RipAt, WorkdirsAt, FilesOn
<1>2. /\ IsFiniteSet(DirpAt(i)) /\ IsFiniteSet(RipAt(i))
      /\ IsFiniteSet(WorkdirsAt(i)) /\ IsFiniteSet(FilesOn(i))
  BY <1>1, FdsFinite, FS_Subset, ProgramAssumption DEF ProgramAssumption
<1> QED BY <1>2, FS_CardinalityType

LEMMA CallsOnIs ==
  ASSUME NEW i PROVE CallsOn(i) = Cardinality(DirpAt(i)) + Cardinality(RipAt(i))
BY DEF CallsOn, DirpAt, RipAt

\* What a call has of the references to an inode.
CallHas(c, i) == (IF c.dirp = i THEN 1 ELSE 0) + (IF c.rip = i THEN 1 ELSE 0)

LEMMA CallsMoved ==
  ASSUME NEW t \in Threads, \A u \in Threads \ {t} : call'[u] = call[u], NEW i
  PROVE  CallsOn(i)' = CallsOn(i) - CallHas(call[t], i) + CallHas(call'[t], i)
<1>1. /\ IsFiniteSet(DirpAt(i)) /\ IsFiniteSet(RipAt(i))
      /\ Cardinality(DirpAt(i)) \in Nat /\ Cardinality(RipAt(i)) \in Nat
  BY RefsFinite
<1>2. /\ Cardinality(DirpAt(i)') \in Nat
      /\ Cardinality(DirpAt(i)') = Cardinality(DirpAt(i)) - (IF call[t].dirp = i THEN 1 ELSE 0)
                                   + (IF call'[t].dirp = i THEN 1 ELSE 0)
  <2>1. SameBut(DirpAt(i), DirpAt(i)', t)
    BY DEF DirpAt, SameBut
  <2>2. (t \in DirpAt(i) <=> call[t].dirp = i) /\ (t \in DirpAt(i)' <=> call'[t].dirp = i)
    BY DEF DirpAt
  <2> QED BY <1>1, <2>1, <2>2, OneElement
<1>3. /\ Cardinality(RipAt(i)') \in Nat
      /\ Cardinality(RipAt(i)') = Cardinality(RipAt(i)) - (IF call[t].rip = i THEN 1 ELSE 0)
                                  + (IF call'[t].rip = i THEN 1 ELSE 0)
  <2>1. SameBut(RipAt(i), RipAt(i)', t)
    BY DEF RipAt, SameBut
  <2>2. (t \in RipAt(i) <=> call[t].rip = i) /\ (t \in RipAt(i)' <=> call'[t].rip = i)
    BY DEF RipAt
  <2> QED BY <1>1, <2>1, <2>2, OneElement
<1>4. CallsOn(i)' = Cardinality(DirpAt(i)') + Cardinality(RipAt(i)')
  BY DEF CallsOn, DirpAt, RipAt
<1> QED BY <1>1, <1>2, <1>3, <1>4, CallsOnIs DEF CallHas

LEMMA WorkdirsMoved ==
  ASSUME NEW p \in Pids, \A q \in Pids \ {p} : procs'[q].workdir = procs[q].workdir, NEW i
  PROVE  Cardinality(WorkdirsAt(i)') = Cardinality(WorkdirsAt(i))
           - (IF procs[p].workdir = i THEN 1 ELSE 0) + (IF procs'[p].workdir = i THEN 1 ELSE 0)
<1>1. SameBut(WorkdirsAt(i), WorkdirsAt(i)', p)
  BY DEF WorkdirsAt, SameBut
<1>2. (p \in WorkdirsAt(i) <=> procs[p].workdir = i) /\ (p \in WorkdirsAt(i)' <=> procs'[p].workdir = i)
  BY DEF WorkdirsAt
<1> QED BY <1>1, <1>2, OneElement, RefsFinite

LEMMA FilesMoved ==
  ASSUME NEW p \in Pids, NEW fd \in Fds, NEW i,
         \A f \in Pids \X Fds : f # <<p, fd>> => (FileIs(f[1], f[2], i)' <=> FileIs(f[1], f[2], i))
  PROVE  Cardinality(FilesOn(i)') = Cardinality(FilesOn(i))
           - (IF FileIs(p, fd, i) THEN 1 ELSE 0) + (IF FileIs(p, fd, i)' THEN 1 ELSE 0)
<1>0. /\ FilesOn(i) = {f \in Pids \X Fds : FileIs(f[1], f[2], i)}
      /\ FilesOn(i)' = {f \in Pids \X Fds : FileIs(f[1], f[2], i)'}
  BY DEF FilesOn, FileIs
<1>1. SameBut(FilesOn(i), FilesOn(i)', <<p, fd>>)
  BY <1>0 DEF SameBut
<1>2. (<<p, fd>> \in FilesOn(i) <=> FileIs(p, fd, i)) /\ (<<p, fd>> \in FilesOn(i)' <=> FileIs(p, fd, i)')
  BY <1>0
<1> QED BY <1>1, <1>2, OneElement, RefsFinite

LEMMA FilesStay ==
  ASSUME NEW i, \A f \in Pids \X Fds : FileIs(f[1], f[2], i)' <=> FileIs(f[1], f[2], i)
  PROVE  FilesOn(i)' = FilesOn(i)
<1>0. /\ FilesOn(i) = {f \in Pids \X Fds : FileIs(f[1], f[2], i)}
      /\ FilesOn(i)' = {f \in Pids \X Fds : FileIs(f[1], f[2], i)'}
  BY DEF FilesOn, FileIs
<1> QED BY <1>0

LEMMA CountIs ==
  ASSUME NEW i \in Inodes, CountIsReferences, lost \in [Inodes -> Nat]
  PROVE  /\ count[i] = RootProcess(i) + Cardinality(WorkdirsAt(i)) + Cardinality(FilesOn(i)) + CallsOn(i) + lost[i]
         /\ RootProcess(i) \in Nat /\ Cardinality(WorkdirsAt(i)) \in Nat
         /\ Cardinality(FilesOn(i)) \in Nat /\ CallsOn(i) \in Nat /\ lost[i] \in Nat
BY RefsFinite, CallsOnIs DEF CountIsReferences, RootProcess

\* Whose references are counted.
LEMMA Referred ==
  ASSUME CountIsReferences, lost \in [Inodes -> Nat], NEW i \in Inodes
  PROVE  /\ count[i] \in Nat
         /\ i = Root => count[i] > 0
         /\ \A p \in Pids : procs[p].workdir = i => count[i] > 0
         /\ \A p \in Pids, fd \in Fds : FileIs(p, fd, i) => count[i] > 0
         /\ \A t \in Threads : call[t].dirp = i \/ call[t].rip = i => count[i] > 0
         /\ \A t \in Threads : call[t].dirp = i /\ call[t].rip = i => count[i] > 1
         /\ count[i] = 0 => FilesOn(i) = {} /\ CallsOn(i) = 0
<1>1. /\ count[i] = RootProcess(i) + Cardinality(WorkdirsAt(i)) + Cardinality(FilesOn(i))
                    + (Cardinality(DirpAt(i)) + Cardinality(RipAt(i))) + lost[i]
      /\ RootProcess(i) \in Nat /\ lost[i] \in Nat
  BY CountIs, CallsOnIs
<1>2. /\ IsFiniteSet(DirpAt(i)) /\ IsFiniteSet(RipAt(i))
      /\ IsFiniteSet(WorkdirsAt(i)) /\ IsFiniteSet(FilesOn(i))
      /\ Cardinality(DirpAt(i)) \in Nat /\ Cardinality(RipAt(i)) \in Nat
      /\ Cardinality(WorkdirsAt(i)) \in Nat /\ Cardinality(FilesOn(i)) \in Nat
  BY RefsFinite
<1>3. /\ Cardinality(DirpAt(i)) = 0 <=> DirpAt(i) = {}
      /\ Cardinality(RipAt(i)) = 0 <=> RipAt(i) = {}
      /\ Cardinality(WorkdirsAt(i)) = 0 <=> WorkdirsAt(i) = {}
      /\ Cardinality(FilesOn(i)) = 0 <=> FilesOn(i) = {}
  BY <1>2, FS_EmptySet
<1>4. /\ \A p \in Pids : procs[p].workdir = i => WorkdirsAt(i) # {}
      /\ \A p \in Pids, fd \in Fds : FileIs(p, fd, i) => FilesOn(i) # {}
      /\ \A t \in Threads : call[t].dirp = i => DirpAt(i) # {}
      /\ \A t \in Threads : call[t].rip = i => RipAt(i) # {}
  <2>1. ASSUME NEW p \in Pids, NEW fd \in Fds, FileIs(p, fd, i) PROVE FilesOn(i) # {}
    <3>1. <<p, fd>> \in FilesOn(i)
      BY <2>1 DEF FilesOn, FileIs
    <3> QED BY <3>1
  <2>2. \A p \in Pids : procs[p].workdir = i => WorkdirsAt(i) # {}
    BY DEF WorkdirsAt
  <2>3. (\A t \in Threads : call[t].dirp = i => DirpAt(i) # {}) /\ (\A t \in Threads : call[t].rip = i => RipAt(i) # {})
    BY DEF DirpAt, RipAt
  <2> QED BY <2>1, <2>2, <2>3
<1>5. i = Root => RootProcess(i) = 1
  BY DEF RootProcess
<1>6. PICK a \in Nat, b \in Nat, d \in Nat, e \in Nat :
        /\ a = Cardinality(WorkdirsAt(i)) /\ b = Cardinality(FilesOn(i))
        /\ d = Cardinality(DirpAt(i)) /\ e = Cardinality(RipAt(i))
  BY <1>2
<1>7. count[i] = RootProcess(i) + a + b + (d + e) + lost[i]
  BY <1>1, <1>6
<1>8. /\ WorkdirsAt(i) # {} => a > 0
      /\ FilesOn(i) # {} => b > 0
      /\ DirpAt(i) # {} => d > 0
      /\ RipAt(i) # {} => e > 0
  BY <1>3, <1>6
<1>9. count[i] \in Nat /\ (count[i] = 0 => RootProcess(i) = 0 /\ a = 0 /\ b = 0 /\ d = 0 /\ e = 0)
      /\ (d > 0 /\ e > 0 => count[i] > 1)
  <2>1. PICK r \in Nat, l \in Nat : r = RootProcess(i) /\ l = lost[i]
    BY <1>1
  <2>2. count[i] = r + a + b + (d + e) + l
    BY <1>7, <2>1
  <2>3. count[i] \in Nat
    BY <2>2
  <2>4. count[i] = 0 => r = 0 /\ a = 0 /\ b = 0 /\ d = 0 /\ e = 0
    BY <2>2
  <2>5. d > 0 /\ e > 0 => count[i] > 1
    BY <2>2
  <2> QED BY <2>1, <2>3, <2>4, <2>5
<1>10. CallsOn(i) = d + e
  BY <1>6, CallsOnIs
<1>11. (b = 0 => FilesOn(i) = {}) /\ (count[i] = 0 => CallsOn(i) = 0)
  BY <1>3, <1>6, <1>9, <1>10
<1> QED BY <1>4, <1>5, <1>6, <1>8, <1>9, <1>11
-----------------------------------------------------------------------------
(* Requests to the inode cache. *)

LEMMA TimesNone == ASSUME NEW i PROVE Times(i, <<>>) = 0
<1>1. {k \in DOMAIN <<>> : <<>>[k] = i} = {}
  OBVIOUS
<1> QED BY <1>1, FS_EmptySet DEF Times

LEMMA TimesOne == ASSUME NEW i, NEW a PROVE Times(i, <<a>>) = IF a = i THEN 1 ELSE 0
<1>1. {k \in DOMAIN <<a>> : <<a>>[k] = i} = IF a = i THEN {1} ELSE {}
  OBVIOUS
<1> QED BY <1>1, FS_EmptySet, FS_Singleton DEF Times

LEMMA TimesTwo ==
  ASSUME NEW i, NEW a, NEW b
  PROVE  Times(i, <<a, b>>) = (IF a = i THEN 1 ELSE 0) + (IF b = i THEN 1 ELSE 0)
<1> DEFINE S == {k \in DOMAIN <<a, b>> : <<a, b>>[k] = i}
<1>1. S = (IF a = i THEN {1} ELSE {}) \cup (IF b = i THEN {2} ELSE {})
  OBVIOUS
<1>2. IsFiniteSet({1}) /\ Cardinality({1}) = 1 /\ Cardinality({2}) = 1 /\ Cardinality({}) = 0
  BY FS_Singleton, FS_EmptySet
<1>3. Cardinality({1} \cup {2}) = 2
  BY <1>2, FS_AddElement
<1>4. /\ a = i /\ b = i => S = {1} \cup {2}
      /\ a = i /\ b # i => S = {1}
      /\ a # i /\ b = i => S = {2}
      /\ a # i /\ b # i => S = {}
  BY <1>1
<1>5. Times(i, <<a, b>>) = Cardinality(S)
  BY DEF Times
<1> HIDE DEF S
<1>6. CASE a = i
  BY <1>2, <1>3, <1>4, <1>5, <1>6
<1>7. CASE a # i
  BY <1>2, <1>3, <1>4, <1>5, <1>7
<1> QED BY <1>6, <1>7

\* The references that a step of a call takes and gives back.
Short(s) == \/ s = <<>>
            \/ \E a : s = <<a>>
            \/ \E a, b : s = <<a, b>>
LEMMA TimesNat == ASSUME NEW i, NEW s, Short(s) PROVE Times(i, s) \in Nat
<1>1. CASE s = <<>>
  BY <1>1, TimesNone
<1>2. ASSUME NEW a, s = <<a>> PROVE Times(i, s) \in Nat
  BY <1>2, TimesOne
<1>3. ASSUME NEW a, NEW b, s = <<a, b>> PROVE Times(i, s) \in Nat
  BY <1>3, TimesTwo
<1> QED BY <1>1, <1>2, <1>3 DEF Short

LEMMA Settled ==
  ASSUME NEW gets, NEW puts, NEW new \in Disks, Settle(gets, puts, new), Short(gets), Short(puts),
         count \in [Inodes -> Int]
  PROVE  /\ disk' \in Disks /\ count' \in [Inodes -> Int]
         /\ \A i \in Inodes : count'[i] = count[i] + Times(i, gets) - Times(i, puts)
         /\ disk'.nlinks = new.nlinks
         /\ \E gone \in SUBSET Inodes :
              /\ gone = {i \in Inodes : Times(i, puts) > 0 /\ count'[i] = 0 /\ new.nlinks[i] = 0}
              /\ disk'.kind = [i \in Inodes |-> IF i \in gone THEN "free" ELSE new.kind[i]]
              /\ disk'.entries = {e \in new.entries : e.dir \notin gone}
<1> DEFINE after == [i \in Inodes |-> count[i] + Times(i, gets) - Times(i, puts)]
           gone == Freed(puts, new.nlinks, after)
<1>1. /\ count' = after
      /\ disk' = [kind |-> [i \in Inodes |-> IF i \in gone THEN "free" ELSE new.kind[i]],
                  nlinks |-> new.nlinks,
                  entries |-> {e \in new.entries : e.dir \notin gone}]
  BY DEF Settle
<1>2. \A i : Times(i, gets) \in Nat /\ Times(i, puts) \in Nat
  BY TimesNat
<1>3. after \in [Inodes -> Int]
  BY <1>2
<1>4. /\ new.kind \in [Inodes -> {"free", "file", "dir"}] /\ new.nlinks \in [Inodes -> Links]
      /\ new.entries \subseteq Entries
  BY DEF Disks
<1>5. gone = {i \in Inodes : Times(i, puts) > 0 /\ count'[i] = 0 /\ new.nlinks[i] = 0}
  BY <1>1 DEF Freed
<1> HIDE DEF gone
<1>6. /\ [i \in Inodes |-> IF i \in gone THEN "free" ELSE new.kind[i]] \in [Inodes -> {"free", "file", "dir"}]
      /\ {e \in new.entries : e.dir \notin gone} \in SUBSET Entries
  BY <1>4
<1>7. disk' \in Disks
  BY <1>1, <1>4, <1>6 DEF Disks
<1>8. \A i \in Inodes : count'[i] = count[i] + Times(i, gets) - Times(i, puts)
  BY <1>1
<1>9. gone \in SUBSET Inodes
  BY <1>5
<1> QED BY <1>1, <1>3, <1>5, <1>7, <1>8, <1>9
-----------------------------------------------------------------------------
(* Steps of calls. *)

LEMMA Known ==
  ASSUME CInv
  PROVE  /\ Shapes /\ CountIsReferences /\ Alone /\ Descriptors
         /\ \A t \in Threads : Fits(call[t]) /\ Running(t) /\ call[t] \in Calls
         /\ disk \in Disks /\ count \in [Inodes -> Int] /\ lost \in [Inodes -> Nat]
BY DEF CInv, Shapes

LEMMA NamesOfInodes == Root \in Inodes /\ 0 \notin Inodes /\ 0 \notin Pids
BY InodesAssumption DEF InodesAssumption

LEMMA RequestsAre ==
  ASSUME NEW r \in Requests
  PROVE  /\ r.op \in PathCalls \cup {"close", "seek", "read", "write", "exit"} /\ r.pid \in Pids
         /\ r.op \in PathCalls => r.path \in Seq(STRING) /\ r.path # <<>> /\ IsClean(r.from, r.path)
         /\ r.op \in {"close", "seek", "read", "write"} => r.fd \in Fds
         /\ r # NoRequest
<1>1. /\ r.op \in PathCalls \cup {"close", "seek", "read", "write", "exit"} /\ r.pid \in Pids
      /\ r.op \in PathCalls => r.path \in Seq(STRING) \ {<<>>} /\ IsClean(r.from, r.path)
      /\ r.op \in {"close", "seek", "read", "write"} => r.fd \in Fds
  BY RequestsAssumption DEF RequestsAssumption
<1>2. r # NoRequest
  BY <1>1 DEF NoRequest, PathCalls
<1> QED BY <1>1, <1>2

LEMMA CallIs ==
  ASSUME CInv, NEW t \in Threads, ~Idle(t)
  PROVE  call[t].req \in Requests /\ call[t].req.pid \in Pids
<1>1. call[t] \in Calls /\ Fits(call[t])
  BY Known
<1>2. call[t].req \in Requests \cup {NoRequest} /\ call[t].req # NoRequest
  BY <1>1 DEF Calls, Fits, Idle
<1> QED BY <1>2, RequestsAre

\* Call c of thread t does not meddle with a process that begins or ends.
Joins(t, c) ==
  c.pc # "idle" =>
    /\ c.req.op = "spawn" <=> ~Alive(c.req.pid)
    /\ c.req.op = "exit" => procs[c.req.pid].workdir = procs[c.req.pid].rootdir
    /\ \A u \in Threads \ {t} : ~Idle(u) /\ call[u].req.pid = c.req.pid =>
         c.req.op \notin {"spawn", "exit"} /\ call[u].req.op \notin {"spawn", "exit"}

LEMMA SameRequest ==
  ASSUME CInv, NEW t \in Threads, ~Idle(t), NEW c, c.req = call[t].req
  PROVE  Joins(t, c)
<1>1. Running(t) /\ Alone
  BY Known
<1> QED BY <1>1 DEF Joins, Running, Alone

LEMMA EndsJoined ==
  ASSUME NEW t, NEW c, c.pc = "idle" PROVE Joins(t, c)
BY DEF Joins

\* A step of a call that leaves the processes as they are.
Accounted(t, c) ==
  \A i \in Inodes : count'[i] = count[i] - CallHas(call[t], i) + CallHas(c, i) + lost'[i] - lost[i]

LEMMA CallFrame ==
  ASSUME CInv, NEW t \in Threads, NEW c \in Calls, call' = [call EXCEPT ![t] = c], Fits(c), Joins(t, c),
         disk' \in Disks, count' \in [Inodes -> Int], lost' \in [Inodes -> Nat],
         procs' = procs, filps' \in FilpTables, mutex' \in Mutexes, status' \in {"up", "down", "panicked"},
         Accounted(t, c)
  PROVE  CInv'
<1>0. /\ Shapes /\ CountIsReferences /\ Alone /\ Descriptors
      /\ \A u \in Threads : Fits(call[u]) /\ Running(u) /\ call[u] \in Calls
      /\ count \in [Inodes -> Int] /\ lost \in [Inodes -> Nat] /\ call \in [Threads -> Calls]
  BY Known DEF Shapes
<1>1. call'[t] = c /\ \A u \in Threads \ {t} : call'[u] = call[u]
  BY <1>0
<1>2. Shapes'
  <2>1. call' \in [Threads -> Calls]
    BY <1>0
  <2> QED BY <1>0, <2>1 DEF Shapes
<1>3. CountIsReferences'
  <2> SUFFICES ASSUME NEW i \in Inodes
               PROVE  count'[i] = RootProcess(i) + Cardinality(WorkdirsAt(i)') + Cardinality(FilesOn(i)')
                                  + CallsOn(i)' + lost'[i]
    BY DEF CountIsReferences, RootProcess
  <2>1. /\ count[i] = RootProcess(i) + Cardinality(WorkdirsAt(i)) + Cardinality(FilesOn(i)) + CallsOn(i) + lost[i]
        /\ RootProcess(i) \in Nat /\ Cardinality(WorkdirsAt(i)) \in Nat
        /\ Cardinality(FilesOn(i)) \in Nat /\ CallsOn(i) \in Nat /\ lost[i] \in Nat
    BY <1>0, CountIs
  <2>2. CallsOn(i)' = CallsOn(i) - CallHas(call[t], i) + CallHas(c, i)
    BY <1>1, CallsMoved
  <2>3. WorkdirsAt(i)' = WorkdirsAt(i) /\ FilesOn(i)' = FilesOn(i)
    BY DEF WorkdirsAt, FilesOn, IsOpen, Alive
  <2>4. count'[i] = count[i] - CallHas(call[t], i) + CallHas(c, i) + lost'[i] - lost[i]
    BY DEF Accounted
  <2>5. CallHas(call[t], i) \in Nat /\ CallHas(c, i) \in Nat /\ lost'[i] \in Nat
    BY DEF CallHas
  <2> QED BY <2>1, <2>2, <2>3, <2>4, <2>5
<1>4. ASSUME NEW u \in Threads PROVE Fits(call'[u]) /\ Running(u)'
  <2>1. CASE u = t
    BY <1>1, <2>1 DEF Joins, Running, Idle, Alive
  <2>2. CASE u # t
    BY <1>0, <1>1, <2>2 DEF Running, Idle, Alive
  <2> QED BY <2>1, <2>2
<1>5. Alone'
  <2> SUFFICES ASSUME NEW u \in Threads, NEW v \in Threads, call'[u].pc # "idle", call'[v].pc # "idle",
                      call'[u].req.pid = call'[v].req.pid, call'[u].req.op \in {"spawn", "exit"}
               PROVE  u = v
    BY DEF Alone, Idle
  <2>1. CASE u = t /\ v # t
    BY <1>1, <2>1 DEF Joins, Idle
  <2>2. CASE u # t /\ v = t
    BY <1>1, <2>2 DEF Joins, Idle
  <2>3. CASE u # t /\ v # t
    BY <1>0, <1>1, <2>3 DEF Alone, Idle
  <2> QED BY <2>1, <2>2, <2>3
<1>6. Descriptors'
  BY <1>0 DEF Descriptors, IsOpen, Alive
<1> QED BY <1>2, <1>3, <1>4, <1>5, <1>6 DEF CInv
-----------------------------------------------------------------------------
(* How calls go on. *)

Statuses == {"up", "down", "panicked"}
Moves(t, c) ==
  /\ c \in Calls /\ Fits(c) /\ Joins(t, c) /\ Go(t, c)
  /\ mutex' \in Mutexes /\ status' \in Statuses

LEMMA NoCallIs ==
  ASSUME NEW t
  PROVE  NoCall \in Calls /\ Fits(NoCall) /\ Joins(t, NoCall) /\ \A i \in Inodes : CallHas(NoCall, i) = 0
<1>1. NoCall \in Calls
  BY DEF NoCall, Bare, Calls, Stages
<1>2. Fits(NoCall)
  BY DEF NoCall, Bare, Fits, InDirectory, WithInode
<1>3. Joins(t, NoCall)
  BY DEF NoCall, Bare, Joins
<1>4. \A i \in Inodes : CallHas(NoCall, i) = 0
  BY NamesOfInodes DEF NoCall, Bare, CallHas
<1> QED BY <1>1, <1>2, <1>3, <1>4

LEMMA GoMoves ==
  ASSUME CInv, NEW t \in Threads, ~Idle(t), NEW c \in Calls, Go(t, c), Fits(c), c.req = call[t].req,
         UNCHANGED <<mutex, status>>
  PROVE  Moves(t, c)
BY SameRequest DEF Moves, CInv, Shapes, Statuses

LEMMA Unlocks == ASSUME CInv, NEW t \in Threads, Unlock(t) PROVE mutex' \in Mutexes
<1>1. mutex \in Mutexes
  BY DEF CInv, Shapes
<1> QED BY <1>1 DEF Unlock, Mutexes

LEMMA ReturnMoves ==
  ASSUME CInv, NEW t \in Threads, Return(t), UNCHANGED status PROVE Moves(t, NoCall)
<1>1. status' \in Statuses /\ mutex' \in Mutexes
  BY Unlocks DEF CInv, Shapes, Statuses, Return
<1>2. Go(t, NoCall)
  BY DEF Return, Go
<1> QED BY <1>1, <1>2, NoCallIs DEF Moves

LEMMA FailMoves ==
  ASSUME CInv, NEW t \in Threads, ~Idle(t), Fail(t)
  PROVE  \E c : Moves(t, c) /\ c.dirp = 0 /\ c.rip = 0
<1>1. CASE Is(t, "mkdir")
  <2> DEFINE c == Bare("hung", call[t].req)
  <2>1. Go(t, c) /\ status' = "down" /\ UNCHANGED mutex
    BY <1>1 DEF Fail
  <2>2. call[t].req \in Requests /\ call[t].req.op = "mkdir" /\ call[t].req # NoRequest
    BY <1>1, CallIs, RequestsAre DEF Is
  <2>3. /\ c.pc = "hung" /\ c.req = call[t].req /\ c.dirp = 0 /\ c.rip = 0 /\ c.rest = <<>>
        /\ c \in Calls
    <3>1. c = [pc |-> "hung", req |-> call[t].req, rest |-> <<>>, dirp |-> 0, rip |-> 0]
      BY DEF Bare
    <3>2. <<>> \in Seq(STRING)
      OBVIOUS
    <3> HIDE DEF c
    <3> QED BY <2>2, <3>1, <3>2 DEF Calls, Stages
  <2> HIDE DEF c
  <2>4. Fits(c)
    BY <2>2, <2>3 DEF Fits, InDirectory, WithInode
  <2>5. Joins(t, c)
    BY <2>3, SameRequest
  <2>6. Moves(t, c)
    BY <2>1, <2>3, <2>4, <2>5 DEF Moves, CInv, Shapes, Statuses
  <2> QED BY <2>3, <2>6
<1>2. CASE ~Is(t, "mkdir")
  <2>1. Moves(t, NoCall)
    BY <1>2, ReturnMoves DEF Fail
  <2>2. NoCall.dirp = 0 /\ NoCall.rip = 0
    BY DEF NoCall, Bare
  <2> QED BY <2>1, <2>2
<1> QED BY <1>1, <1>2

LEMMA Stepped ==
  ASSUME CInv, NEW t \in Threads, NEW c, Moves(t, c), UNCHANGED <<lost, procs, filps>>,
         NEW gets, NEW puts, NEW new \in Disks, Settle(gets, puts, new), Short(gets), Short(puts),
         \A i \in Inodes : Times(i, gets) - Times(i, puts) = CallHas(c, i) - CallHas(call[t], i)
  PROVE  CInv'
<1>1. /\ count \in [Inodes -> Int] /\ lost \in [Inodes -> Nat] /\ filps \in FilpTables
  BY DEF CInv, Shapes
<1>2. /\ disk' \in Disks /\ count' \in [Inodes -> Int]
      /\ \A i \in Inodes : count'[i] = count[i] + Times(i, gets) - Times(i, puts)
  BY <1>1, Settled
<1>3. Accounted(t, c)
  <2> SUFFICES ASSUME NEW i \in Inodes
               PROVE  count'[i] = count[i] - CallHas(call[t], i) + CallHas(c, i) + lost'[i] - lost[i]
    BY DEF Accounted
  <2>1. Times(i, gets) \in Nat /\ Times(i, puts) \in Nat /\ count[i] \in Int /\ lost[i] \in Nat
    BY <1>1, TimesNat
  <2>2. CallHas(call[t], i) \in Nat /\ CallHas(c, i) \in Nat /\ lost'[i] = lost[i]
    BY DEF CallHas
  <2> QED BY <1>2, <2>1, <2>2
<1> QED BY <1>1, <1>2, <1>3, CallFrame DEF Moves, Go, Statuses

\* A step that only goes on, and one that drops what the call has.
LEMMA Went ==
  ASSUME CInv, NEW t \in Threads, NEW c, Moves(t, c), UNCHANGED <<disk, count, lost, procs, filps>>,
         \A i \in Inodes : CallHas(c, i) = CallHas(call[t], i)
  PROVE  CInv'
<1>1. /\ disk \in Disks /\ count \in [Inodes -> Int] /\ lost \in [Inodes -> Nat] /\ filps \in FilpTables
  BY DEF CInv, Shapes
<1>2. Accounted(t, c)
  <2> SUFFICES ASSUME NEW i \in Inodes
               PROVE  count'[i] = count[i] - CallHas(call[t], i) + CallHas(c, i) + lost'[i] - lost[i]
    BY DEF Accounted
  <2>1. count[i] \in Int /\ lost[i] \in Nat /\ CallHas(c, i) \in Nat
    BY <1>1 DEF CallHas
  <2> QED BY <2>1
<1> QED BY <1>1, <1>2, CallFrame DEF Moves, Go, Statuses

LEMMA Dropped ==
  ASSUME CInv, NEW t \in Threads, NEW c, Moves(t, c), UNCHANGED <<disk, count, procs, filps>>,
         NEW refs, Short(refs), Lose(refs),
         \A i \in Inodes : Times(i, refs) = CallHas(call[t], i) - CallHas(c, i)
  PROVE  CInv'
<1>1. /\ disk \in Disks /\ count \in [Inodes -> Int] /\ lost \in [Inodes -> Nat] /\ filps \in FilpTables
  BY DEF CInv, Shapes
<1>2. lost' \in [Inodes -> Nat] /\ \A i \in Inodes : lost'[i] = lost[i] + Times(i, refs)
  BY <1>1, TimesNat DEF Lose
<1>3. Accounted(t, c)
  <2> SUFFICES ASSUME NEW i \in Inodes
               PROVE  count'[i] = count[i] - CallHas(call[t], i) + CallHas(c, i) + lost'[i] - lost[i]
    BY DEF Accounted
  <2>1. count[i] \in Int /\ lost[i] \in Nat /\ Times(i, refs) \in Nat
    BY <1>1, TimesNat
  <2>2. CallHas(call[t], i) \in Nat /\ CallHas(c, i) \in Nat
    BY DEF CallHas
  <2> QED BY <1>2, <2>1, <2>2
<1> QED BY <1>1, <1>2, <1>3, CallFrame DEF Moves, Go, Statuses

LEMMA Panics == ASSUME CInv, Panic PROVE CInv'
<1>1. /\ UNCHANGED <<disk, count, lost, procs, filps, mutex, call>> /\ status' \in {"up", "down", "panicked"}
  BY DEF Panic
<1>2. Shapes'
  BY <1>1 DEF CInv, Shapes
<1>3. CountIsReferences'
  BY <1>1 DEF CInv, CountIsReferences, CallsOn, FilesOn, WorkdirsAt, IsOpen, Alive
<1>4. \A t \in Threads : Fits(call'[t]) /\ Running(t)'
  BY <1>1 DEF CInv, Running, Idle, Alive
<1>5. Alone' /\ Descriptors'
  BY <1>1 DEF CInv, Alone, Descriptors, Idle, IsOpen, Alive
<1> QED BY <1>2, <1>3, <1>4, <1>5 DEF CInv
-----------------------------------------------------------------------------
(* The steps that leave the processes alone. *)

LEMMA AtIs ==
  ASSUME CInv, NEW t \in Threads, call[t].pc # "idle"
  PROVE  /\ ~Idle(t) /\ call[t] \in Calls /\ Fits(call[t]) /\ disk \in Disks
         /\ call[t].req \in Requests /\ call[t].rest \in Seq(STRING)
         /\ call[t].pc \in InDirectory => call[t].dirp \in Inodes /\ call[t].rest # <<>>
         /\ call[t].pc \notin InDirectory => call[t].dirp = 0
         /\ call[t].pc \in WithInode => call[t].rip \in Inodes
         /\ call[t].pc \notin WithInode => call[t].rip = 0
<1>1. ~Idle(t) /\ call[t] \in Calls /\ Fits(call[t]) /\ disk \in Disks
  BY Known DEF Idle
<1>2. call[t].req \in Requests
  BY <1>1, CallIs
<1> QED BY <1>1, <1>2 DEF Calls, Fits

LEMMA FoundIs ==
  ASSUME disk \in Disks, NEW r, NEW d \in Inodes, NEW name, NEW i \in Found(r, d, name)
  PROVE  i \in Inodes
BY DEF Found, Named, Disks, Entries

LEMMA MayCallIs ==
  ASSUME CInv, StaysIn, NEW t \in Threads, NEW r \in Requests, MayCall(t, r)
  PROVE  /\ Idle(t) /\ call[t].dirp = 0 /\ call[t].rip = 0
         /\ \A i \in Inodes : CallHas(call[t], i) = 0
         /\ \A c : c.req = r => Joins(t, c)
         /\ r.op # "spawn" => procs[r.pid] \in Processes
<1>1. /\ Fits(call[t]) /\ Shapes /\ \A u \in Threads : Running(u)
      /\ Idle(t) /\ r.pid \in Pids
  BY Known, RequestsAre DEF MayCall
<1>2. call[t].dirp = 0 /\ call[t].rip = 0
  BY <1>1 DEF Fits, Idle, InDirectory, WithInode
<1>3. \A i \in Inodes : CallHas(call[t], i) = 0
  BY <1>2, NamesOfInodes DEF CallHas
<1>4. /\ r.op = "spawn" <=> ~Alive(r.pid)
      /\ r.op = "exit" => procs[r.pid].workdir = procs[r.pid].rootdir
  BY DEF MayCall, StaysIn
<1>5. ASSUME NEW u \in Threads, ~Idle(u), call[u].req.pid = r.pid
      PROVE  r.op \notin {"spawn", "exit"} /\ call[u].req.op \notin {"spawn", "exit"}
  <2>1. u \in CallsOf(r.pid)
    BY <1>5 DEF CallsOf
  <2>2. r.op \notin {"spawn", "exit"} /\ call[u].req.op # "exit"
    BY <2>1 DEF MayCall
  <2>3. call[u].req.op # "spawn"
    BY <1>1, <1>4, <1>5, <2>2 DEF Running
  <2> QED BY <2>2, <2>3
<1>6. \A c : c.req = r => Joins(t, c)
  BY <1>4, <1>5 DEF Joins
<1>7. r.op # "spawn" => procs[r.pid] \in Processes
  BY <1>1, <1>4 DEF Alive, Shapes
<1> QED BY <1>1, <1>2, <1>3, <1>6, <1>7

LEMMA Locks ==
  ASSUME CInv, NEW t \in Threads, NEW r, Locked(t, r) PROVE mutex' \in Mutexes
<1>1. mutex \in Mutexes
  BY DEF CInv, Shapes
<1>2. mutex' = [m \in DOMAIN mutex |-> IF m \in LocksOf(r) THEN {t} ELSE mutex[m]]
  BY DEF Locked
<1> QED BY <1>1, <1>2 DEF Mutexes

LEMMA StartOfIs ==
  ASSUME CInv, StaysIn, NEW t \in Threads, NEW r \in Requests, MayCall(t, r)
  PROVE  StartOf(r) \in Inodes
<1>1. r.op # "spawn" => procs[r.pid] \in Processes
  BY MayCallIs
<1> QED BY <1>1, NamesOfInodes DEF StartOf, RootOf, Processes

LEMMA StartKeeps ==
  ASSUME CInv, StaysIn, status = "up", NEW t \in Threads, NEW r \in Requests, Start(t, r) PROVE CInv'
<1>1. r.op \in PathCalls /\ MayCall(t, r) /\ Locked(t, r) /\ UNCHANGED <<lost, procs, filps>>
  BY DEF Start
<1>2. /\ StartOf(r) \in Inodes /\ StartOf(r) # 0 /\ mutex' \in Mutexes
      /\ r.path \in Seq(STRING) /\ r.path # <<>> /\ r # NoRequest
      /\ \A c : c.req = r => Joins(t, c)
      /\ \A i \in Inodes : CallHas(call[t], i) = 0
      /\ disk \in Disks
  BY <1>1, StartOfIs, NamesOfInodes, Locks, RequestsAre, MayCallIs, Known
<1>3. CASE /\ Settle(<<StartOf(r)>>, <<>>, disk)
           /\ Go(t, [pc |-> "walk", req |-> r, rest |-> r.path, dirp |-> StartOf(r), rip |-> 0])
           /\ UNCHANGED status
  <2> DEFINE c == [pc |-> "walk", req |-> r, rest |-> r.path, dirp |-> StartOf(r), rip |-> 0]
  <2>1. /\ c \in Calls /\ c.pc = "walk" /\ c.req = r /\ c.rest = r.path /\ c.dirp = StartOf(r) /\ c.rip = 0
    BY <1>2 DEF Calls, Stages
  <2>2. Go(t, c) /\ status' \in Statuses
    BY <1>3 DEF Statuses
  <2> HIDE DEF c
  <2>3. Fits(c)
    BY <1>1, <1>2, <2>1 DEF Fits, InDirectory, WithInode, LastOf
  <2>4. Moves(t, c)
    BY <1>2, <2>1, <2>2, <2>3 DEF Moves
  <2>5. \A i \in Inodes : Times(i, <<StartOf(r)>>) - Times(i, <<>>) = CallHas(c, i) - CallHas(call[t], i)
    BY <1>2, <2>1, TimesOne, TimesNone, NamesOfInodes DEF CallHas
  <2> QED BY <1>1, <1>2, <1>3, <2>4, <2>5, Stepped DEF Short
<1>4. CASE /\ r.op = "mkdir" /\ Go(t, Bare("hung", r)) /\ status' = "down" /\ UNCHANGED <<disk, count>>
  <2> DEFINE c == Bare("hung", r)
  <2>1. /\ c \in Calls /\ c.pc = "hung" /\ c.req = r /\ c.rest = <<>> /\ c.dirp = 0 /\ c.rip = 0
    BY <1>2 DEF Calls, Stages, Bare
  <2>2. Go(t, c) /\ status' \in Statuses
    BY <1>4 DEF Statuses
  <2> HIDE DEF c
  <2>3. Fits(c)
    BY <1>2, <1>4, <2>1 DEF Fits, InDirectory, WithInode
  <2>4. Moves(t, c)
    BY <1>2, <2>1, <2>2, <2>3 DEF Moves
  <2>5. \A i \in Inodes : CallHas(c, i) = CallHas(call[t], i)
    BY <1>2, <2>1, NamesOfInodes DEF CallHas
  <2> QED BY <1>1, <1>4, <2>4, <2>5, Went
<1> QED BY <1>3, <1>4 DEF Start

\* A call that ends gives back what it has.
LEMMA GivesBack ==
  ASSUME CInv, NEW t \in Threads, NEW c, Moves(t, c), c.dirp = 0, c.rip = 0, UNCHANGED <<lost, procs, filps>>,
         NEW puts, NEW new \in Disks, Settle(<<>>, puts, new), Short(puts),
         \A i \in Inodes : Times(i, puts) = CallHas(call[t], i)
  PROVE  CInv'
<1>1. \A i \in Inodes : CallHas(c, i) = 0
  BY NamesOfInodes DEF CallHas
<1>2. \A i \in Inodes : CallHas(call[t], i) \in Nat
  BY DEF CallHas
<1>3. \A i \in Inodes : Times(i, <<>>) - Times(i, puts) = CallHas(c, i) - CallHas(call[t], i)
  BY <1>1, <1>2, TimesNone
<1> QED BY <1>3, Stepped DEF Short

LEMMA TailIs ==
  ASSUME NEW S, NEW s \in Seq(S), Len(s) > 1
  PROVE  /\ Tail(s) \in Seq(S) /\ Tail(s) # <<>> /\ Len(Tail(s)) = Len(s) - 1
         /\ Tail(s)[Len(Tail(s))] = s[Len(s)]
<1>1. Tail(s) \in Seq(S) /\ Len(Tail(s)) = Len(s) - 1 /\ Len(s) \in Nat
  BY HeadTailProperties
<1>2. Len(s) - 1 \in 1 .. Len(Tail(s))
  BY <1>1
<1>3. Tail(s)[Len(s) - 1] = s[Len(s)]
  BY <1>1, <1>2, HeadTailProperties
<1>4. Tail(s) # <<>>
  <2>1. Len(<<>>) = 0
    BY EmptySeq
  <2>2. Len(Tail(s)) # 0
    BY <1>1
  <2> QED BY <2>1, <2>2
<1> QED BY <1>1, <1>3, <1>4

LEMMA WalkKeeps ==
  ASSUME CInv, NEW t \in Threads, Walk(t) PROVE CInv'
<1> DEFINE c == call[t]
           found == Found(c.req, c.dirp, Head(c.rest))
<1>1. c.pc = "walk" /\ Len(c.rest) > 1
  BY DEF Walk, At
<1>2. /\ ~Idle(t) /\ c \in Calls /\ Fits(c) /\ disk \in Disks
      /\ c.dirp \in Inodes /\ c.rip = 0 /\ c.rest \in Seq(STRING) /\ c.rest # <<>>
  BY <1>1, AtIs DEF InDirectory, WithInode
<1>3. CASE found = {} /\ Settle(<<>>, <<c.dirp>>, disk) /\ Fail(t) /\ UNCHANGED <<lost, procs, filps>>
  <2>1. PICK d : Moves(t, d) /\ d.dirp = 0 /\ d.rip = 0
    BY <1>2, <1>3, FailMoves
  <2>2. \A i \in Inodes : Times(i, <<c.dirp>>) = CallHas(c, i)
    BY <1>2, TimesOne, NamesOfInodes DEF CallHas
  <2> QED BY <1>2, <1>3, <2>1, <2>2, GivesBack DEF Short
<1>4. ASSUME NEW i \in found, Settle(<<i>>, <<c.dirp>>, disk),
             Go(t, [c EXCEPT !.dirp = i, !.rest = Tail(@)]), UNCHANGED <<mutex, status>>,
             UNCHANGED <<lost, procs, filps>>
      PROVE  CInv'
  <2> DEFINE d == [c EXCEPT !.dirp = i, !.rest = Tail(@)]
  <2>1. i \in Inodes /\ i # 0
    BY <1>2, FoundIs, NamesOfInodes
  <2>2. Tail(c.rest) \in Seq(STRING) /\ Tail(c.rest) # <<>> /\ Len(Tail(c.rest)) = Len(c.rest) - 1
        /\ Tail(c.rest)[Len(Tail(c.rest))] = c.rest[Len(c.rest)]
    BY <1>1, <1>2, TailIs
  <2>3. d \in Calls /\ d.pc = c.pc /\ d.req = c.req /\ d.dirp = i /\ d.rip = 0 /\ d.rest = Tail(c.rest)
    BY <1>2, <2>1, <2>2 DEF Calls
  <2> HIDE DEF d
  <2>4. Fits(d)
    BY <1>1, <1>2, <2>1, <2>2, <2>3 DEF Fits, InDirectory, WithInode
  <2>5. Moves(t, d)
    BY <1>2, <1>4, <2>3, <2>4, GoMoves DEF d
  <2>6. \A j \in Inodes : Times(j, <<i>>) - Times(j, <<c.dirp>>) = CallHas(d, j) - CallHas(c, j)
    BY <1>2, <2>3, TimesOne, NamesOfInodes DEF CallHas
  <2> QED BY <1>2, <1>4, <2>5, <2>6, Stepped DEF Short
<1> QED BY <1>3, <1>4, Panics DEF Walk

LEMMA NotADirectoryKeeps ==
  ASSUME CInv, NEW t \in Threads, NotADirectory(t) PROVE CInv'
<1>1. call[t].pc = "walk" /\ Settle(<<>>, <<call[t].dirp>>, disk) /\ Fail(t) /\ UNCHANGED <<lost, procs, filps>>
  BY DEF NotADirectory, At
<1>2. ~Idle(t) /\ disk \in Disks /\ call[t].dirp \in Inodes /\ call[t].rip = 0
  BY <1>1, AtIs DEF InDirectory, WithInode
<1>3. PICK d : Moves(t, d) /\ d.dirp = 0 /\ d.rip = 0
  BY <1>1, <1>2, FailMoves
<1>4. \A i \in Inodes : Times(i, <<call[t].dirp>>) = CallHas(call[t], i)
  BY <1>2, TimesOne, NamesOfInodes DEF CallHas
<1> QED BY <1>1, <1>2, <1>3, <1>4, GivesBack DEF Short

LEMMA AtLastIs ==
  ASSUME CInv, NEW t \in Threads, AtLast(t)
  PROVE  /\ call[t].pc = "walk" /\ ~Idle(t) /\ call[t] \in Calls /\ Fits(call[t]) /\ disk \in Disks
         /\ call[t].dirp \in Inodes /\ call[t].dirp # 0 /\ call[t].rip = 0
         /\ call[t].req.op \in PathCalls /\ Len(call[t].rest) = 1 /\ call[t].rest \in Seq(STRING)
         /\ call[t].rest # <<>>
         /\ IsCreat(t) <=> Creates(call[t].req)
         /\ \A i \in Inodes : Times(i, <<call[t].dirp>>) = CallHas(call[t], i)
<1>1. call[t].pc = "walk" /\ Len(call[t].rest) = 1
  BY DEF AtLast, At
<1>2. /\ ~Idle(t) /\ call[t] \in Calls /\ Fits(call[t]) /\ disk \in Disks
      /\ call[t].dirp \in Inodes /\ call[t].rip = 0 /\ call[t].rest \in Seq(STRING) /\ call[t].rest # <<>>
  BY <1>1, AtIs DEF InDirectory, WithInode
<1>3. call[t].req.op \in PathCalls
  BY <1>1, <1>2 DEF Fits, InDirectory
<1>4. IsCreat(t) <=> Creates(call[t].req)
  BY <1>2 DEF IsCreat, Is, Creates
<1>5. \A i \in Inodes : Times(i, <<call[t].dirp>>) = CallHas(call[t], i)
  BY <1>2, TimesOne, NamesOfInodes DEF CallHas
<1> QED BY <1>1, <1>2, <1>3, <1>4, <1>5, NamesOfInodes

LEMMA EatPathKeeps ==
  ASSUME CInv, NEW t \in Threads, EatPath(t), ~LastStumbles(t) PROVE CInv'
<1> DEFINE c == call[t]
<1>1. AtLast(t) /\ ~IsCreat(t) /\ ~Is(t, "unlink") /\ ~Is(t, "rmdir") /\ UNCHANGED <<lost, procs, filps, status>>
  BY DEF EatPath, Tables
<1>2. /\ c.pc = "walk" /\ ~Idle(t) /\ c \in Calls /\ Fits(c) /\ disk \in Disks
      /\ c.dirp \in Inodes /\ c.dirp # 0 /\ c.rip = 0 /\ c.req.op \in PathCalls
      /\ \A i \in Inodes : Times(i, <<c.dirp>>) = CallHas(c, i)
      /\ ~Creates(c.req)
  BY <1>1, AtLastIs
<1>3. c.req.op \in {"open", "chdir", "spawn"}
  BY <1>1, <1>2 DEF Is, PathCalls, Creates
<1>4. ASSUME NEW i \in Inodes
      PROVE  LET d == [c EXCEPT !.pc = "got", !.rip = i, !.dirp = 0] IN
             d \in Calls /\ Fits(d) /\ d.req = c.req /\ d.dirp = 0 /\ d.rip = i
  <2> DEFINE d == [c EXCEPT !.pc = "got", !.rip = i, !.dirp = 0]
  <2>1. d \in Calls /\ d.pc = "got" /\ d.req = c.req /\ d.dirp = 0 /\ d.rip = i /\ d.rest = c.rest
    BY <1>2 DEF Calls, Stages
  <2> HIDE DEF d
  <2>2. Fits(d)
    BY <1>2, <1>3, <1>4, <2>1, NamesOfInodes DEF Fits, InDirectory, WithInode
  <2> QED BY <2>1, <2>2 DEF d
<1>5. CASE /\ Go(t, [c EXCEPT !.pc = "got", !.rip = c.dirp, !.dirp = 0])
           /\ UNCHANGED <<disk, count, mutex>>
  <2> DEFINE d == [c EXCEPT !.pc = "got", !.rip = c.dirp, !.dirp = 0]
  <2>1. d \in Calls /\ Fits(d) /\ d.req = c.req /\ d.dirp = 0 /\ d.rip = c.dirp
    BY <1>2, <1>4
  <2> HIDE DEF d
  <2>2. Moves(t, d)
    BY <1>1, <1>2, <1>5, <2>1, GoMoves DEF d
  <2>3. \A i \in Inodes : CallHas(d, i) = CallHas(c, i)
    BY <1>2, <2>1, NamesOfInodes DEF CallHas
  <2> QED BY <1>1, <1>5, <2>2, <2>3, Went
<1>6. CASE Settle(<<>>, Parent(t), disk) /\ Return(t)
  <2>1. Moves(t, NoCall) /\ NoCall.dirp = 0 /\ NoCall.rip = 0
    BY <1>1, <1>6, ReturnMoves DEF NoCall, Bare
  <2> QED BY <1>1, <1>2, <1>6, <2>1, GivesBack DEF Parent, Short
<1>7. ASSUME NEW i \in LastFound(t), Settle(<<i>>, Parent(t), disk),
             Go(t, [c EXCEPT !.pc = "got", !.rip = i, !.dirp = 0]), UNCHANGED mutex
      PROVE  CInv'
  <2> DEFINE d == [c EXCEPT !.pc = "got", !.rip = i, !.dirp = 0]
  <2>0. i \in Inodes
    BY <1>2, FoundIs DEF LastFound
  <2>1. d \in Calls /\ Fits(d) /\ d.req = c.req /\ d.dirp = 0 /\ d.rip = i
    BY <1>4, <2>0
  <2> HIDE DEF d
  <2>2. Moves(t, d)
    BY <1>1, <1>2, <1>7, <2>1, GoMoves DEF d
  <2>3. \A j \in Inodes : Times(j, <<i>>) - Times(j, <<c.dirp>>) = CallHas(d, j) - CallHas(c, j)
    BY <1>2, <2>1, TimesOne, NamesOfInodes DEF CallHas
  <2> QED BY <1>1, <1>2, <1>7, <2>2, <2>3, Stepped DEF Short, Parent
<1> QED BY <1>5, <1>6, <1>7 DEF EatPath

LEMMA LookFirstKeeps ==
  ASSUME CInv, NEW t \in Threads, LookFirst(t), ~LastStumbles(t) PROVE CInv'
<1> DEFINE c == call[t]
<1>1. AtLast(t) /\ IsCreat(t) /\ UNCHANGED <<lost, mutex, procs, filps, status>>
  BY DEF LookFirst, Tables
<1>2. /\ c.pc = "walk" /\ ~Idle(t) /\ c \in Calls /\ Fits(c) /\ disk \in Disks
      /\ c.dirp \in Inodes /\ c.dirp # 0 /\ c.rip = 0 /\ Creates(c.req) /\ Len(c.rest) = 1
  BY <1>1, AtLastIs
<1>3. CASE Go(t, [c EXCEPT !.pc = "make"]) /\ UNCHANGED <<disk, count>>
  <2> DEFINE d == [c EXCEPT !.pc = "make"]
  <2>1. d \in Calls /\ d.pc = "make" /\ d.req = c.req /\ d.dirp = c.dirp /\ d.rip = c.rip /\ d.rest = c.rest
    BY <1>2 DEF Calls, Stages
  <2> HIDE DEF d
  <2>2. Fits(d)
    BY <1>2, <2>1 DEF Fits, InDirectory, WithInode
  <2>3. Moves(t, d)
    BY <1>1, <1>2, <1>3, <2>1, <2>2, GoMoves DEF d
  <2>4. \A i \in Inodes : CallHas(d, i) = CallHas(c, i)
    BY <2>1 DEF CallHas
  <2> QED BY <1>1, <1>3, <2>3, <2>4, Went
<1>4. ASSUME NEW i \in Existing(t), Settle(<<i>>, <<>>, disk), Go(t, [c EXCEPT !.pc = "exists", !.rip = i])
      PROVE  CInv'
  <2> DEFINE d == [c EXCEPT !.pc = "exists", !.rip = i]
  <2>0. i \in Inodes /\ i # 0
    BY <1>2, <1>4, FoundIs, NamesOfInodes DEF LastFound, Existing
  <2>1. d \in Calls /\ d.pc = "exists" /\ d.req = c.req /\ d.dirp = c.dirp /\ d.rip = i /\ d.rest = c.rest
    BY <1>2, <2>0 DEF Calls, Stages
  <2> HIDE DEF d
  <2>2. Fits(d)
    BY <1>2, <2>0, <2>1 DEF Fits, InDirectory, WithInode
  <2>3. Moves(t, d)
    BY <1>1, <1>2, <1>4, <2>1, <2>2, GoMoves DEF d
  <2>4. \A j \in Inodes : Times(j, <<i>>) - Times(j, <<>>) = CallHas(d, j) - CallHas(c, j)
    BY <1>2, <2>1, TimesOne, TimesNone, NamesOfInodes DEF CallHas
  <2> QED BY <1>1, <1>2, <1>4, <2>3, <2>4, Stepped DEF Short
<1> QED BY <1>3, <1>4 DEF LookFirst

\* What the changes of the tree do to the disk.
LEMMA DiskIs ==
  ASSUME disk \in Disks
  PROVE  /\ disk.kind \in [Inodes -> {"free", "file", "dir"}] /\ disk.nlinks \in [Inodes -> Links]
         /\ disk.entries \in SUBSET Entries
         /\ disk = [kind |-> disk.kind, nlinks |-> disk.nlinks, entries |-> disk.entries]
BY DEF Disks

LEMMA DisksAre ==
  ASSUME disk \in Disks
  PROVE  /\ \A K \in [Inodes -> {"free", "file", "dir"}], N \in [Inodes -> Links] :
              [disk EXCEPT !.kind = K, !.nlinks = N] \in Disks
         /\ \A E \in SUBSET Entries : [disk EXCEPT !.entries = E] \in Disks
         /\ \A N \in [Inodes -> Links] : [disk EXCEPT !.nlinks = N] \in Disks
         /\ \A E \in SUBSET Entries, N \in [Inodes -> Links] : [disk EXCEPT !.entries = E, !.nlinks = N] \in Disks
BY DEF Disks

LEMMA Uint16Is == Uint16 \in Nat /\ Uint16 > 3
BY DEF Uint16

LEMMA ModIs == ASSUME NEW n \in Int, NEW m \in Nat, m > 0 PROVE n % m \in 0 .. m - 1
OBVIOUS

LEMMA LessOneIs ==
  ASSUME NEW N \in [Inodes -> Links], NEW i \in Inodes
  PROVE  LessOne(N, i) \in [Inodes -> Links] /\ OneMore(N, i) \in [Inodes -> Links]
<1>1. N[i] - 1 \in Int /\ N[i] + 1 \in Int
  BY Uint16Is DEF Links
<1>2. (N[i] - 1) % Uint16 \in Links /\ (N[i] + 1) % Uint16 \in Links
  BY <1>1, Uint16Is, ModIs DEF Links
<1> QED BY <1>2 DEF LessOne, OneMore

LEMMA EntryIs ==
  ASSUME NEW d \in Inodes, NEW n \in Names, NEW i \in Inodes
  PROVE  [dir |-> d, name |-> n, inode |-> i] \in Entries
BY DEF Entries

LEMMA MakeInodeKeeps ==
  ASSUME CInv, NEW t \in Threads, NEW i \in Inodes, At(t, "make"),
         Settle(<<i>>, <<>>, [disk EXCEPT !.kind = [@ EXCEPT ![i] = KindOf(t)],
                                          !.nlinks = [@ EXCEPT ![i] = 1]]),
         Go(t, [call[t] EXCEPT !.pc = "link", !.rip = i]), UNCHANGED <<lost, mutex, procs, filps, status>>
  PROVE  CInv'
<1> DEFINE c == call[t]
           d == [c EXCEPT !.pc = "link", !.rip = i]
<1>2. /\ c.pc = "make" /\ ~Idle(t) /\ c \in Calls /\ Fits(c) /\ disk \in Disks
      /\ c.dirp \in Inodes /\ c.dirp # 0 /\ c.rip = 0
  BY AtIs, NamesOfInodes DEF At, InDirectory, WithInode
<1>3. d \in Calls /\ d.pc = "link" /\ d.req = c.req /\ d.dirp = c.dirp /\ d.rip = i /\ d.rest = c.rest
  BY <1>2 DEF Calls, Stages
<1> HIDE DEF d
<1>4. Fits(d)
  BY <1>2, <1>3, NamesOfInodes DEF Fits, InDirectory, WithInode
<1>5. Moves(t, d)
  BY <1>2, <1>3, <1>4, GoMoves DEF d
<1>6. \A j \in Inodes : Times(j, <<i>>) - Times(j, <<>>) = CallHas(d, j) - CallHas(c, j)
  BY <1>2, <1>3, TimesOne, TimesNone, NamesOfInodes DEF CallHas
<1>7. [disk EXCEPT !.kind = [@ EXCEPT ![i] = KindOf(t)], !.nlinks = [@ EXCEPT ![i] = 1]] \in Disks
  <2>1. /\ [disk.kind EXCEPT ![i] = KindOf(t)] \in [Inodes -> {"free", "file", "dir"}]
        /\ [disk.nlinks EXCEPT ![i] = 1] \in [Inodes -> Links]
    BY <1>2, DiskIs, Uint16Is DEF KindOf, Links
  <2> QED BY <1>2, <2>1, DisksAre
<1> QED BY <1>5, <1>6, <1>7, Stepped DEF Short

\* A call with both inodes.
LEMMA BothAre ==
  ASSUME CInv, NEW t \in Threads, call[t].pc \in InDirectory \cap WithInode
  PROVE  /\ ~Idle(t) /\ call[t] \in Calls /\ Fits(call[t]) /\ disk \in Disks
         /\ call[t].dirp \in Inodes /\ call[t].rip \in Inodes /\ LastName(t) \in Names
         /\ Len(call[t].rest) = 1
         /\ \A i \in Inodes : Times(i, <<call[t].dirp, call[t].rip>>) = CallHas(call[t], i)
         /\ \A i \in Inodes : Times(i, <<call[t].rip, call[t].dirp>>) = CallHas(call[t], i)
<1>1. call[t].pc # "idle" /\ call[t].pc # "walk"
  BY DEF InDirectory, WithInode
<1>2. /\ ~Idle(t) /\ call[t] \in Calls /\ Fits(call[t]) /\ disk \in Disks
      /\ call[t].dirp \in Inodes /\ call[t].rip \in Inodes /\ call[t].rest \in Seq(STRING)
  BY <1>1, AtIs
<1>3. Len(call[t].rest) = 1
  BY <1>1, <1>2 DEF Fits
<1>4. LastName(t) \in Names
  BY <1>2, <1>3, ElementOfSeq DEF LastName, Names
<1>5. \A i \in Inodes : Times(i, <<call[t].dirp, call[t].rip>>) = CallHas(call[t], i)
  BY TimesTwo DEF CallHas
<1>6. \A i \in Inodes : Times(i, <<call[t].rip, call[t].dirp>>) = CallHas(call[t], i)
  BY TimesTwo DEF CallHas
<1> QED BY <1>2, <1>3, <1>4, <1>5, <1>6

LEMMA LinkKeeps ==
  ASSUME CInv, NEW t \in Threads, Link(t) PROVE CInv'
<1> DEFINE c == call[t]
           entry == [dir |-> c.dirp, name |-> LastName(t), inode |-> c.rip]
<1>1. c.pc = "link" /\ UNCHANGED <<lost, procs, filps>>
  BY DEF Link, At
<1>2. /\ ~Idle(t) /\ c \in Calls /\ Fits(c) /\ disk \in Disks
      /\ c.dirp \in Inodes /\ c.rip \in Inodes /\ LastName(t) \in Names
      /\ \A i \in Inodes : Times(i, <<c.dirp, c.rip>>) = CallHas(c, i)
  BY <1>1, BothAre DEF InDirectory, WithInode
<1>3. CASE /\ Settle(<<>>, <<>>, [disk EXCEPT !.entries = @ \cup {entry}])
           /\ Go(t, [c EXCEPT !.pc = "made"]) /\ UNCHANGED <<mutex, status>>
  <2> DEFINE d == [c EXCEPT !.pc = "made"]
  <2>1. d \in Calls /\ d.pc = "made" /\ d.req = c.req /\ d.dirp = c.dirp /\ d.rip = c.rip /\ d.rest = c.rest
    BY <1>2 DEF Calls, Stages
  <2> HIDE DEF d
  <2>2. Fits(d)
    BY <1>1, <1>2, <2>1 DEF Fits, InDirectory, WithInode
  <2>3. Moves(t, d)
    BY <1>2, <1>3, <2>1, <2>2, GoMoves DEF d
  <2>4. \A i \in Inodes : CallHas(d, i) = CallHas(c, i) /\ CallHas(c, i) \in Nat
    BY <2>1 DEF CallHas
  <2>5. \A i \in Inodes : Times(i, <<>>) - Times(i, <<>>) = CallHas(d, i) - CallHas(c, i)
    BY <2>4, TimesNone
  <2>6. [disk EXCEPT !.entries = @ \cup {entry}] \in Disks
    <3>1. disk.entries \cup {entry} \in SUBSET Entries
      BY <1>2, EntryIs DEF Disks
    <3> QED BY <1>2, <3>1, DisksAre
  <2> QED BY <1>1, <1>3, <2>3, <2>5, <2>6, Stepped DEF Short
<1>4. CASE Settle(<<>>, <<c.dirp, c.rip>>, [disk EXCEPT !.nlinks = LessOne(@, c.rip)]) /\ Fail(t)
  <2>1. PICK d : Moves(t, d) /\ d.dirp = 0 /\ d.rip = 0
    BY <1>2, <1>4, FailMoves
  <2>2. [disk EXCEPT !.nlinks = LessOne(@, c.rip)] \in Disks
    <3>1. LessOne(disk.nlinks, c.rip) \in [Inodes -> Links]
      BY <1>2, DiskIs, LessOneIs
    <3> QED BY <1>2, <3>1, DisksAre
  <2> QED BY <1>1, <1>2, <1>4, <2>1, <2>2, GivesBack DEF Short
<1> QED BY <1>3, <1>4 DEF Link

LEMMA ReturnsBoth ==
  ASSUME CInv, NEW t \in Threads, call[t].pc \in InDirectory \cap WithInode,
         NEW new \in Disks, \/ Settle(<<>>, <<call[t].dirp, call[t].rip>>, new)
                            \/ Settle(<<>>, <<call[t].rip, call[t].dirp>>, new),
         Return(t), UNCHANGED <<lost, procs, filps, status>>
  PROVE  CInv'
<1>1. Moves(t, NoCall) /\ NoCall.dirp = 0 /\ NoCall.rip = 0
  BY ReturnMoves DEF NoCall, Bare
<1>2. /\ \A i \in Inodes : Times(i, <<call[t].dirp, call[t].rip>>) = CallHas(call[t], i)
      /\ \A i \in Inodes : Times(i, <<call[t].rip, call[t].dirp>>) = CallHas(call[t], i)
  BY BothAre
<1>3. Short(<<call[t].dirp, call[t].rip>>) /\ Short(<<call[t].rip, call[t].dirp>>)
  BY DEF Short
<1> QED BY <1>1, <1>2, <1>3, GivesBack

LEMMA MkdirExistsKeeps ==
  ASSUME CInv, NEW t \in Threads, MkdirExists(t) PROVE CInv'
<1>1. call[t].pc \in InDirectory \cap WithInode
  BY DEF MkdirExists, At, InDirectory, WithInode
<1>2. disk \in Disks
  BY Known
<1> QED BY <1>1, <1>2, ReturnsBoth DEF MkdirExists, Tables

LEMMA MkdirDotsKeeps ==
  ASSUME CInv, NEW t \in Threads, MkdirDots(t) PROVE CInv'
<1> DEFINE c == call[t]
           dot == [dir |-> c.rip, name |-> ".", inode |-> c.rip]
           dotdot == [dir |-> c.rip, name |-> "..", inode |-> c.dirp]
<1>1. c.pc \in InDirectory \cap WithInode /\ Return(t) /\ UNCHANGED <<lost, procs, filps, status>>
  BY DEF MkdirDots, At, InDirectory, WithInode, Tables
<1>2. disk \in Disks /\ c.dirp \in Inodes /\ c.rip \in Inodes
  BY <1>1, BothAre
<1>3. /\ dot \in Entries /\ dotdot \in Entries
      /\ disk.entries \subseteq Entries /\ disk.nlinks \in [Inodes -> Links]
  <2>1. "." \in Names /\ ".." \in Names
    BY DEF Names
  <2> QED BY <1>2, <2>1, EntryIs, DiskIs
<1>4. CASE Settle(<<>>, <<c.dirp, c.rip>>,
                  [disk EXCEPT !.entries = @ \cup {dot, dotdot},
                               !.nlinks = OneMore(OneMore(@, c.rip), c.dirp)])
  <2>1. disk.entries \cup {dot, dotdot} \in SUBSET Entries
    BY <1>3
  <2>2. OneMore(OneMore(disk.nlinks, c.rip), c.dirp) \in [Inodes -> Links]
    BY <1>2, <1>3, LessOneIs
  <2>3. [disk EXCEPT !.entries = @ \cup {dot, dotdot}, !.nlinks = OneMore(OneMore(@, c.rip), c.dirp)] \in Disks
    BY <1>2, <2>1, <2>2, DisksAre
  <2> QED BY <1>1, <1>4, <2>3, ReturnsBoth
<1>5. ASSUME NEW gone \in OneOf(Named(c.dirp, LastName(t))), NEW dots \in Left({dot}, {dotdot}),
             Settle(<<>>, <<c.dirp, c.rip>>,
                    [disk EXCEPT !.entries = (@ \ gone) \cup dots, !.nlinks = LessOne(@, c.rip)])
      PROVE  CInv'
  <2>1. dots \subseteq {dot, dotdot}
    BY <1>5 DEF Left
  <2>2. (disk.entries \ gone) \cup dots \in SUBSET Entries
    BY <1>3, <2>1
  <2>3. LessOne(disk.nlinks, c.rip) \in [Inodes -> Links]
    BY <1>2, <1>3, LessOneIs
  <2>4. [disk EXCEPT !.entries = (@ \ gone) \cup dots, !.nlinks = LessOne(@, c.rip)] \in Disks
    BY <1>2, <2>2, <2>3, DisksAre
  <2> QED BY <1>1, <1>5, <2>4, ReturnsBoth
<1> QED BY <1>4, <1>5 DEF MkdirDots

LEMMA UnlinkPrepKeeps ==
  ASSUME CInv, NEW t \in Threads, UnlinkPrep(t), ~LastStumbles(t) PROVE CInv'
<1> DEFINE c == call[t]
<1>1. AtLast(t) /\ (Is(t, "unlink") \/ Is(t, "rmdir")) /\ UNCHANGED <<procs, filps, status>>
  BY DEF UnlinkPrep, Tables
<1>2. /\ c.pc = "walk" /\ ~Idle(t) /\ c \in Calls /\ Fits(c) /\ disk \in Disks
      /\ c.dirp \in Inodes /\ c.dirp # 0 /\ c.rip = 0 /\ Len(c.rest) = 1
      /\ \A i \in Inodes : Times(i, <<c.dirp>>) = CallHas(c, i)
  BY <1>1, AtLastIs
<1>3. Return(t) => Moves(t, NoCall) /\ NoCall.dirp = 0 /\ NoCall.rip = 0
  BY <1>1, ReturnMoves DEF NoCall, Bare
<1>4. CASE Lose(<<c.dirp>>) /\ Return(t) /\ UNCHANGED <<disk, count>>
  <2>1. \A i \in Inodes : Times(i, <<c.dirp>>) = CallHas(c, i) - CallHas(NoCall, i)
    BY <1>2, TimesOne, NamesOfInodes DEF CallHas, NoCall, Bare
  <2> QED BY <1>1, <1>3, <1>4, <2>1, Dropped DEF Short
<1>5. CASE Settle(<<>>, <<c.dirp>>, disk) /\ Return(t) /\ UNCHANGED lost
  BY <1>1, <1>2, <1>3, <1>5, GivesBack DEF Short
<1>6. ASSUME NEW i \in LastFound(t), Settle(<<i>>, <<>>, disk), UNCHANGED <<mutex, lost>>,
             Go(t, [c EXCEPT !.pc = "prepared", !.rip = i])
      PROVE  CInv'
  <2> DEFINE d == [c EXCEPT !.pc = "prepared", !.rip = i]
  <2>0. i \in Inodes /\ i # 0
    BY <1>2, <1>6, FoundIs, NamesOfInodes DEF LastFound
  <2>1. d \in Calls /\ d.pc = "prepared" /\ d.req = c.req /\ d.dirp = c.dirp /\ d.rip = i /\ d.rest = c.rest
    BY <1>2, <2>0 DEF Calls, Stages
  <2> HIDE DEF d
  <2>2. Fits(d)
    BY <1>1, <1>2, <2>0, <2>1 DEF Fits, InDirectory, WithInode, Is
  <2>3. Moves(t, d)
    BY <1>1, <1>2, <1>6, <2>1, <2>2, GoMoves DEF d
  <2>4. \A j \in Inodes : Times(j, <<i>>) - Times(j, <<>>) = CallHas(d, j) - CallHas(c, j)
    BY <1>2, <2>1, TimesOne, TimesNone, NamesOfInodes DEF CallHas
  <2> QED BY <1>1, <1>2, <1>6, <2>3, <2>4, Stepped DEF Short
<1>7. CASE LastFound(t) = {} /\ Lose(<<c.dirp>>) /\ Return(t) /\ UNCHANGED <<disk, count>>
  BY <1>4, <1>7
<1>8. ASSUME NEW i \in LastFound(t),
             IF i = Root THEN Settle(<<>>, <<c.dirp>>, disk) /\ Return(t)
             ELSE /\ Settle(<<i>>, <<>>, disk)
                  /\ Go(t, [c EXCEPT !.pc = "prepared", !.rip = i])
                  /\ UNCHANGED mutex,
             UNCHANGED lost
      PROVE  CInv'
  BY <1>5, <1>6, <1>8
<1> QED BY <1>7, <1>8 DEF UnlinkPrep

LEMMA NamedIs ==
  ASSUME disk \in Disks, NEW d, NEW n, NEW e \in Named(d, n)
  PROVE  e \in Entries /\ e \in disk.entries /\ e.dir = d /\ e.name = n /\ e.inode \in Inodes
BY DEF Named, Disks, Entries

LEMMA UnlinkKeeps ==
  ASSUME CInv, NEW t \in Threads, Unlink(t) PROVE CInv'
<1>1. call[t].pc \in InDirectory \cap WithInode /\ Return(t) /\ UNCHANGED <<lost, procs, filps, status>>
  BY DEF Unlink, At, InDirectory, WithInode, Tables
<1>2. disk \in Disks /\ call[t].rip \in Inodes
  BY <1>1, BothAre
<1>3. ASSUME NEW e PROVE [disk EXCEPT !.entries = @ \ {e}, !.nlinks = LessOne(@, call[t].rip)] \in Disks
  <2>1. disk.entries \ {e} \in SUBSET Entries /\ LessOne(disk.nlinks, call[t].rip) \in [Inodes -> Links]
    BY <1>2, DiskIs, LessOneIs
  <2> QED BY <1>2, <2>1, DisksAre
<1> QED BY <1>1, <1>2, <1>3, ReturnsBoth DEF Unlink

LEMMA GiveUpKeeps ==
  ASSUME CInv, NEW t \in Threads, call[t].pc \in InDirectory \cap WithInode, GiveUp(t) PROVE CInv'
<1>1. Return(t) /\ UNCHANGED <<disk, count, procs, filps, status>> /\ Lose(<<call[t].rip, call[t].dirp>>)
  BY DEF GiveUp, Tables
<1>2. Moves(t, NoCall)
  BY <1>1, ReturnMoves
<1>3. \A i \in Inodes : Times(i, <<call[t].rip, call[t].dirp>>) = CallHas(call[t], i)
  BY BothAre
<1>6. \A i \in Inodes : CallHas(call[t], i) \in Nat
  BY DEF CallHas
<1>4. \A i \in Inodes : CallHas(NoCall, i) = 0
  BY NoCallIs
<1>5. \A i \in Inodes : Times(i, <<call[t].rip, call[t].dirp>>) = CallHas(call[t], i) - CallHas(NoCall, i)
  BY <1>3, <1>4, <1>6
<1> QED BY <1>1, <1>2, <1>5, Dropped DEF Short

\* Rmdir goes on.
LEMMA RmdirGoes ==
  ASSUME CInv, NEW t \in Threads, call[t].pc \in {"prepared", "empty", "unused"}, call[t].req.op = "rmdir",
         NEW pc \in {"empty", "unused", "dots"}, Go(t, [call[t] EXCEPT !.pc = pc]),
         UNCHANGED <<lost, mutex, procs, filps, status>>
  PROVE  /\ UNCHANGED <<disk, count>> => CInv'
         /\ \A new \in Disks : Settle(<<>>, <<>>, new) => CInv'
<1> DEFINE c == call[t]
           d == [c EXCEPT !.pc = pc]
<1>2. /\ ~Idle(t) /\ c \in Calls /\ Fits(c) /\ c.dirp \in Inodes /\ c.rip \in Inodes
  BY BothAre DEF InDirectory, WithInode
<1>3. d \in Calls /\ d.pc = pc /\ d.req = c.req /\ d.dirp = c.dirp /\ d.rip = c.rip /\ d.rest = c.rest
  BY <1>2 DEF Calls, Stages
<1> HIDE DEF d
<1>4. Fits(d)
  BY <1>2, <1>3 DEF Fits, InDirectory, WithInode
<1>5. Moves(t, d)
  BY <1>2, <1>3, <1>4, GoMoves DEF d
<1>6. \A i \in Inodes : CallHas(d, i) = CallHas(c, i) /\ CallHas(c, i) \in Nat
  BY <1>3 DEF CallHas
<1>7. \A i \in Inodes : Times(i, <<>>) - Times(i, <<>>) = CallHas(d, i) - CallHas(c, i)
  BY <1>6, TimesNone
<1> QED BY <1>5, <1>6, <1>7, Went, Stepped DEF Short

LEMMA RmdirKeeps ==
  ASSUME CInv, NEW t \in Threads, RmdirIsEmpty(t) \/ RmdirIsUsed(t) \/ RmdirEntry(t) \/ RmdirDots(t) PROVE CInv'
<1> DEFINE c == call[t]
<1>1. c.pc \in {"prepared", "empty", "unused", "dots"}
  BY DEF RmdirIsEmpty, RmdirIsUsed, RmdirEntry, RmdirDots, At
<1>2. /\ c.pc \in InDirectory \cap WithInode /\ Fits(c) /\ disk \in Disks
      /\ c.dirp \in Inodes /\ c.rip \in Inodes
  BY <1>1, BothAre DEF InDirectory, WithInode
<1>3. CASE RmdirIsEmpty(t)
  <2>1. c.pc = "prepared" /\ c.req.op = "rmdir"
    BY <1>3 DEF RmdirIsEmpty, At, Is
  <2>2. \/ Panic \/ GiveUp(t)
        \/ Go(t, [c EXCEPT !.pc = "empty"]) /\ UNCHANGED <<disk, count, lost, mutex, procs, filps, status>>
    BY <1>3 DEF RmdirIsEmpty, Tables
  <2> QED BY <1>2, <2>1, <2>2, Panics, GiveUpKeeps, RmdirGoes
<1>4. CASE RmdirIsUsed(t)
  <2>1. c.pc = "empty" /\ c.req.op = "rmdir"
    BY <1>2, <1>4 DEF RmdirIsUsed, At, Fits
  <2>2. \/ GiveUp(t)
        \/ Go(t, [c EXCEPT !.pc = "unused"]) /\ UNCHANGED <<disk, count, lost, mutex, procs, filps, status>>
    BY <1>4 DEF RmdirIsUsed, Tables
  <2> QED BY <1>2, <2>1, <2>2, GiveUpKeeps, RmdirGoes
<1>5. CASE RmdirEntry(t)
  <2>1. c.pc = "unused" /\ c.req.op = "rmdir"
    BY <1>2, <1>5 DEF RmdirEntry, At, Fits
  <2>2. ASSUME NEW e, Settle(<<>>, <<>>, [disk EXCEPT !.entries = @ \ {e}, !.nlinks = LessOne(@, c.rip)]),
               Go(t, [c EXCEPT !.pc = "dots"]), UNCHANGED <<lost, mutex, procs, filps, status>>
        PROVE  CInv'
    <3>1. disk.entries \ {e} \in SUBSET Entries /\ LessOne(disk.nlinks, c.rip) \in [Inodes -> Links]
      BY <1>2, DiskIs, LessOneIs
    <3>2. [disk EXCEPT !.entries = @ \ {e}, !.nlinks = LessOne(@, c.rip)] \in Disks
      BY <1>2, <3>1, DisksAre
    <3> QED BY <2>1, <2>2, <3>2, RmdirGoes
  <2> QED BY <1>2, <1>5, <2>2, GiveUpKeeps DEF RmdirEntry, Tables
<1>6. CASE RmdirDots(t)
  <2>1. ASSUME NEW e \in Named(c.rip, "."), NEW f \in Named(c.rip, ".."),
               Settle(<<>>, <<c.rip, c.dirp>>,
                      [disk EXCEPT !.entries = @ \ {e, f},
                                   !.nlinks = LessOne(LessOne(@, e.inode), f.inode)]),
               Return(t), UNCHANGED <<lost, procs, filps, status>>
        PROVE  CInv'
    <3>1. e.inode \in Inodes /\ f.inode \in Inodes
      BY <1>2, NamedIs
    <3>2. LessOne(LessOne(disk.nlinks, e.inode), f.inode) \in [Inodes -> Links]
      BY <1>2, <3>1, DiskIs, LessOneIs
    <3>3. disk.entries \ {e, f} \in SUBSET Entries
      BY <1>2, DiskIs
    <3>4. [disk EXCEPT !.entries = @ \ {e, f}, !.nlinks = LessOne(LessOne(@, e.inode), f.inode)] \in Disks
      BY <1>2, <3>2, <3>3, DisksAre
    <3> QED BY <1>2, <2>1, <3>4, ReturnsBoth
  <2> QED BY <1>2, <1>6, <2>1, GiveUpKeeps DEF RmdirDots, Tables
<1> QED BY <1>3, <1>4, <1>5, <1>6

LEMMA ExitKeeps ==
  ASSUME CInv, StaysIn, NEW t \in Threads, NEW r \in Requests, Exit(t, r) PROVE CInv'
<1> DEFINE c == Bare("exit", r)
<1>1. /\ r.op = "exit" /\ MayCall(t, r) /\ Locked(t, r) /\ Go(t, c)
      /\ UNCHANGED <<disk, count, lost, procs, filps, status>>
  BY DEF Exit, Tables
<1>2. /\ r # NoRequest /\ mutex' \in Mutexes /\ status' \in Statuses
      /\ \A d : d.req = r => Joins(t, d)
      /\ \A i \in Inodes : CallHas(call[t], i) = 0
  BY <1>1, Locks, RequestsAre, MayCallIs DEF CInv, Shapes, Statuses
<1>3. c \in Calls /\ c.pc = "exit" /\ c.req = r /\ c.rest = <<>> /\ c.dirp = 0 /\ c.rip = 0
  BY <1>2 DEF Calls, Stages, Bare
<1> HIDE DEF c
<1>4. Fits(c)
  BY <1>1, <1>2, <1>3 DEF Fits, InDirectory, WithInode
<1>5. Moves(t, c)
  BY <1>1, <1>2, <1>3, <1>4 DEF Moves
<1>6. \A i \in Inodes : CallHas(c, i) = CallHas(call[t], i)
  BY <1>2, <1>3, NamesOfInodes DEF CallHas
<1> QED BY <1>1, <1>5, <1>6, Went

LEMMA TransferKeeps ==
  ASSUME CInv, NEW t \in Threads, NEW r \in Requests, Transfer(t, r) PROVE CInv'
BY Panics DEF Transfer
-----------------------------------------------------------------------------
(* The steps that change a process. *)

Settles(t, c, i) ==
  count'[i] = count[i] - CallHas(call[t], i) + CallHas(c, i) + lost'[i] - lost[i]
                - Cardinality(WorkdirsAt(i)) + Cardinality(WorkdirsAt(i)')
                - Cardinality(FilesOn(i)) + Cardinality(FilesOn(i)')

LEMMA ProcessFrame ==
  ASSUME CInv, NEW t \in Threads, NEW c, c = NoCall \/ c = call[t], Go(t, c),
         NEW p \in Pids, NEW P \in {NoProcess} \cup Processes, procs' = [procs EXCEPT ![p] = P],
         disk' \in Disks, count' \in [Inodes -> Int], lost' \in [Inodes -> Nat],
         filps' \in FilpTables, mutex' \in Mutexes, status' \in {"up", "down", "panicked"},
         \A i \in Inodes : Settles(t, c, i),
         \A u \in Threads \ {t} : ~Idle(u) /\ call[u].req.pid = p =>
           P # NoProcess /\ call[u].req.op \notin {"spawn", "exit"},
         c.pc # "idle" => c.req.pid = p /\ c.req.op # "spawn" /\ P # NoProcess /\ P.workdir = P.rootdir,
         P # NoProcess => \A fd \in Fds : P.files[fd] # NoFile => fd \in P.filp
  PROVE  CInv'
<1>0. /\ Shapes /\ CountIsReferences /\ Alone /\ Descriptors
      /\ \A u \in Threads : Fits(call[u]) /\ Running(u) /\ call[u] \in Calls
      /\ count \in [Inodes -> Int] /\ lost \in [Inodes -> Nat] /\ call \in [Threads -> Calls]
      /\ procs \in [Pids -> {NoProcess} \cup Processes]
  BY Known DEF Shapes
<1>1. c \in Calls /\ Fits(c)
  BY <1>0, NoCallIs
<1>2. call'[t] = c /\ \A u \in Threads \ {t} : call'[u] = call[u]
  BY <1>0 DEF Go
<1>3. procs'[p] = P /\ \A q \in Pids \ {p} : procs'[q] = procs[q]
  BY <1>0
<1>4. Shapes'
  <2>1. call' \in [Threads -> Calls] /\ procs' \in [Pids -> {NoProcess} \cup Processes]
    BY <1>0, <1>1 DEF Go
  <2> QED BY <1>0, <2>1 DEF Shapes
<1>5. CountIsReferences'
  <2> SUFFICES ASSUME NEW i \in Inodes
               PROVE  count'[i] = RootProcess(i) + Cardinality(WorkdirsAt(i)') + Cardinality(FilesOn(i)')
                                  + CallsOn(i)' + lost'[i]
    BY DEF CountIsReferences, RootProcess
  <2>1. /\ count[i] = RootProcess(i) + Cardinality(WorkdirsAt(i)) + Cardinality(FilesOn(i)) + CallsOn(i) + lost[i]
        /\ RootProcess(i) \in Nat /\ Cardinality(WorkdirsAt(i)) \in Nat
        /\ Cardinality(FilesOn(i)) \in Nat /\ CallsOn(i) \in Nat /\ lost[i] \in Nat
    BY <1>0, CountIs
  <2>2. CallsOn(i)' = CallsOn(i) - CallHas(call[t], i) + CallHas(c, i)
    BY <1>2, CallsMoved
  <2>3. Cardinality(WorkdirsAt(i)') \in Nat /\ Cardinality(FilesOn(i)') \in Nat
    <3>1. WorkdirsAt(i)' \subseteq Pids /\ FilesOn(i)' \subseteq Pids \X Fds
      BY DEF WorkdirsAt, FilesOn
    <3> QED BY <3>1, FdsFinite, FS_Subset, FS_CardinalityType, ProgramAssumption DEF ProgramAssumption
  <2>4. Settles(t, c, i)
    OBVIOUS
  <2>5. CallHas(call[t], i) \in Nat /\ CallHas(c, i) \in Nat /\ lost'[i] \in Nat
    BY DEF CallHas
  <2> QED BY <2>1, <2>2, <2>3, <2>4, <2>5 DEF Settles
<1>6. ASSUME NEW u \in Threads PROVE Fits(call'[u]) /\ Running(u)'
  <2>1. CASE u = t
    BY <1>1, <1>2, <1>3, <2>1 DEF Running, Idle, Alive
  <2>2. CASE u # t
    <3>1. call'[u] = call[u] /\ Fits(call[u]) /\ Running(u)
      BY <1>0, <1>2, <2>2
    <3>2. CASE ~Idle(u) /\ call[u].req.pid = p
      BY <1>3, <2>2, <3>1, <3>2 DEF Running, Idle, Alive
    <3>3. CASE ~Idle(u) /\ call[u].req.pid # p
      <4>1. call[u].req.pid \in Pids
        BY <3>3, CallIs
      <4> QED BY <1>3, <3>1, <3>3, <4>1 DEF Running, Idle, Alive
    <3>4. CASE Idle(u)
      BY <3>1, <3>4 DEF Running, Idle
    <3> QED BY <3>2, <3>3, <3>4
  <2> QED BY <2>1, <2>2
<1>7. Alone'
  <2> SUFFICES ASSUME NEW u \in Threads, NEW v \in Threads, call'[u].pc # "idle", call'[v].pc # "idle",
                      call'[u].req.pid = call'[v].req.pid, call'[u].req.op \in {"spawn", "exit"}
               PROVE  u = v
    BY DEF Alone, Idle
  <2>1. \A w \in Threads : call'[w].pc # "idle" => call'[w] = call[w]
    BY <1>2 DEF NoCall, Bare
  <2> QED BY <1>0, <2>1 DEF Alone, Idle
<1>8. Descriptors'
  <2> SUFFICES ASSUME NEW q \in Pids, NEW fd \in Fds, procs'[q] # NoProcess, procs'[q].files[fd] # NoFile
               PROVE  fd \in procs'[q].filp
    BY DEF Descriptors, IsOpen, Alive
  <2>1. CASE q = p
    BY <1>3, <2>1
  <2>2. CASE q # p
    BY <1>0, <1>3, <2>2 DEF Descriptors, IsOpen, Alive
  <2> QED BY <2>1, <2>2
<1> QED BY <1>4, <1>5, <1>6, <1>7, <1>8 DEF CInv

\* One file of a process is opened or closed.
FileOf(P, fd, i) == P # NoProcess /\ P.files[fd] # NoFile /\ P.files[fd].inode = i
ChangesFile(p, P, fd) ==
  /\ procs \in [Pids -> {NoProcess} \cup Processes] /\ p \in Pids /\ P \in Processes
  /\ procs[p] \in Processes /\ procs' = [procs EXCEPT ![p] = P] /\ P.workdir = procs[p].workdir
  /\ fd \in Fds /\ \A g \in Fds : g # fd => P.files[g] = procs[p].files[g]
LEMMA OneFile ==
  ASSUME NEW p, NEW P, NEW fd, ChangesFile(p, P, fd), NEW i
  PROVE  /\ Cardinality(WorkdirsAt(i)') = Cardinality(WorkdirsAt(i))
         /\ Cardinality(FilesOn(i)') = Cardinality(FilesOn(i))
              - (IF FileOf(procs[p], fd, i) THEN 1 ELSE 0) + (IF FileOf(P, fd, i) THEN 1 ELSE 0)
<1>1. /\ procs'[p] = P /\ \A q \in Pids \ {p} : procs'[q] = procs[q]
      /\ p \in Pids /\ fd \in Fds /\ P \in Processes /\ procs[p] \in Processes
      /\ P.workdir = procs[p].workdir /\ \A g \in Fds : g # fd => P.files[g] = procs[p].files[g]
  BY DEF ChangesFile
<1>2. \A q \in Pids : procs'[q].workdir = procs[q].workdir
  BY <1>1
<1>3. WorkdirsAt(i)' = WorkdirsAt(i)
  BY <1>2 DEF WorkdirsAt
<1>4. \A f \in Pids \X Fds : f # <<p, fd>> => (FileIs(f[1], f[2], i)' <=> FileIs(f[1], f[2], i))
  <2> SUFFICES ASSUME NEW q \in Pids, NEW g \in Fds, q # p \/ g # fd
               PROVE  FileIs(q, g, i)' <=> FileIs(q, g, i)
    OBVIOUS
  <2>1. CASE q # p
    BY <1>1, <2>1 DEF FileIs, IsOpen, Alive
  <2>2. CASE q = p
    <3>1. P # NoProcess /\ procs[p] # NoProcess
      BY <1>1, NamesOfInodes DEF NoProcess, Processes
    <3> QED BY <1>1, <2>2, <3>1 DEF FileIs, IsOpen, Alive
  <2> QED BY <2>1, <2>2
<1>5. (FileIs(p, fd, i) <=> FileOf(procs[p], fd, i)) /\ (FileIs(p, fd, i)' <=> FileOf(P, fd, i))
  BY <1>1 DEF FileIs, FileOf, IsOpen, Alive
<1> QED BY <1>1, <1>3, <1>4, <1>5, FilesMoved

\* A process that is there, and what Exit, Spawn and Chdir do to it.
LEMMA ProcessIs ==
  ASSUME CInv, NEW p \in Pids, Alive(p)
  PROVE  /\ procs[p] \in Processes /\ procs \in [Pids -> {NoProcess} \cup Processes]
         /\ \A fd \in Fds : IsOpen(p, fd) =>
              /\ procs[p].files[fd] \in Files /\ procs[p].files[fd].inode \in Inodes
              /\ procs[p].files[fd].filpidx \in Filps /\ fd \in procs[p].filp
         /\ \A fd \in Fds : procs[p].files[fd] # NoFile => fd \in procs[p].filp
<1>1. procs \in [Pids -> {NoProcess} \cup Processes] /\ Descriptors
  BY DEF CInv, Shapes
<1>2. procs[p] \in Processes
  BY <1>1 DEF Alive
<1>3. \A fd \in Fds : procs[p].files[fd] # NoFile => fd \in procs[p].filp
  BY <1>1 DEF Descriptors, IsOpen
<1>4. \A fd \in Fds : IsOpen(p, fd) => procs[p].files[fd] \in Files
  BY <1>2 DEF IsOpen, Processes
<1> QED BY <1>1, <1>2, <1>3, <1>4 DEF IsOpen, Files

LEMMA CloseKeeps ==
  ASSUME CInv, StaysIn, NEW t \in Threads, NEW r \in Requests, Close(t, r) PROVE CInv'
<1> DEFINE p == r.pid
           i0 == procs[p].files[r.fd].inode
           P == [procs[p] EXCEPT !.files = [@ EXCEPT ![r.fd] = NoFile]]
<1>1. /\ r.op = "close" /\ MayCall(t, r) /\ IsOpen(p, r.fd)
      /\ Settle(<<>>, <<i0>>, disk)
      /\ procs' = [procs EXCEPT ![p].files[r.fd] = NoFile]
      /\ filps' = [filps EXCEPT ![SlotOf(p, r.fd)] = NoFilp]
      /\ UNCHANGED <<lost, mutex, call, status>>
  BY DEF Close
<1>2. p \in Pids /\ r.fd \in Fds /\ Alive(p)
  BY <1>1, RequestsAre DEF IsOpen
<1>3. /\ procs[p] \in Processes /\ procs \in [Pids -> {NoProcess} \cup Processes]
      /\ procs[p].files[r.fd] \in Files /\ i0 \in Inodes
      /\ \A fd \in Fds : procs[p].files[fd] # NoFile => fd \in procs[p].filp
  BY <1>1, <1>2, ProcessIs
<1>4. procs' = [procs EXCEPT ![p] = P]
  BY <1>1
<1>5. /\ P \in Processes /\ P.workdir = procs[p].workdir /\ P.filp = procs[p].filp
      /\ \A g \in Fds : g # r.fd => P.files[g] = procs[p].files[g]
      /\ P.files[r.fd] = NoFile
  BY <1>2, <1>3 DEF Processes
<1> HIDE DEF P
<1>6. P # NoProcess /\ procs[p] # NoProcess
  BY <1>3, <1>5 DEF NoProcess, Processes
<1>7. /\ Idle(t) /\ Go(t, call[t]) /\ Shapes
      /\ count \in [Inodes -> Int] /\ lost \in [Inodes -> Nat] /\ disk \in Disks
  BY <1>1, MayCallIs, Known DEF Go, Shapes
<1>8. /\ disk' \in Disks /\ count' \in [Inodes -> Int]
      /\ \A i \in Inodes : count'[i] = count[i] + Times(i, <<>>) - Times(i, <<i0>>)
  BY <1>1, <1>7, Settled DEF Short
<1>9. ASSUME NEW i \in Inodes PROVE Settles(t, call[t], i)
  <2>1. FileOf(procs[p], r.fd, i) <=> i0 = i
    BY <1>1, <1>6 DEF FileOf, IsOpen
  <2>2. ~FileOf(P, r.fd, i)
    BY <1>5 DEF FileOf
  <2>3. /\ Cardinality(WorkdirsAt(i)') = Cardinality(WorkdirsAt(i))
        /\ Cardinality(FilesOn(i)') = Cardinality(FilesOn(i)) - (IF i0 = i THEN 1 ELSE 0)
    <3>1. /\ Cardinality(WorkdirsAt(i)') = Cardinality(WorkdirsAt(i))
          /\ Cardinality(FilesOn(i)') = Cardinality(FilesOn(i))
               - (IF FileOf(procs[p], r.fd, i) THEN 1 ELSE 0) + (IF FileOf(P, r.fd, i) THEN 1 ELSE 0)
      <4>1. ChangesFile(p, P, r.fd)
        BY <1>2, <1>3, <1>4, <1>5 DEF ChangesFile
      <4> QED BY <4>1, OneFile, Zenon
    <3> QED BY <2>1, <2>2, <3>1, RefsFinite
  <2>4. count'[i] = count[i] - (IF i0 = i THEN 1 ELSE 0)
    BY <1>7, <1>8, TimesNone, TimesOne
  <2>5. /\ Cardinality(WorkdirsAt(i)) \in Nat /\ Cardinality(FilesOn(i)) \in Nat
        /\ count[i] \in Int /\ lost[i] \in Nat /\ lost'[i] = lost[i] /\ CallHas(call[t], i) \in Nat
    BY <1>1, <1>7, RefsFinite DEF CallHas
  <2> QED BY <2>3, <2>4, <2>5 DEF Settles
<1>10. \A u \in Threads \ {t} : ~Idle(u) /\ call[u].req.pid = p =>
         P # NoProcess /\ call[u].req.op \notin {"spawn", "exit"}
  <2> SUFFICES ASSUME NEW u \in Threads, ~Idle(u), call[u].req.pid = p
               PROVE  call[u].req.op \notin {"spawn", "exit"}
    BY <1>6
  <2>1. Running(u) /\ u \in CallsOf(p)
    BY Known DEF CallsOf
  <2> QED BY <1>1, <1>2, <2>1 DEF Running, MayCall
<1>11. filps' \in FilpTables
  BY <1>1, <1>7 DEF Shapes, FilpTables
<1> QED
  <2>1. call[t].pc = "idle"
    BY <1>7 DEF Idle
  <2>2. \A fd \in Fds : P.files[fd] # NoFile => fd \in P.filp
    BY <1>3, <1>5
  <2>3. mutex' \in Mutexes /\ status' \in {"up", "down", "panicked"} /\ lost' \in [Inodes -> Nat]
    BY <1>1, <1>7 DEF Shapes
  <2> QED BY <1>2, <1>4, <1>5, <1>7, <1>8, <1>9, <1>10, <1>11, <2>1, <2>2, <2>3, ProcessFrame

LEMMA LeastIs ==
  ASSUME NEW S \in SUBSET Nat, S # {}
  PROVE  Least(S) \in S
<1> DEFINE R == OpToRel(<, Nat)
<1>1. IsWellFoundedOn(R, Nat)
  BY NatLessThanWellFounded
<1> HIDE DEF R
<1>2. PICK x \in S : \A y \in S : ~(<<y, x>> \in R)
  BY <1>1, WFMin
<1>3. \A y \in S : x <= y
  <2> SUFFICES ASSUME NEW y \in S, y < x PROVE FALSE
    OBVIOUS
  <2>1. <<y, x>> \in R
    BY DEF R, OpToRel
  <2> QED BY <1>2, <2>1
<1> QED BY <1>3 DEF Least

LEMMA FdsAre == Fds \subseteq Nat /\ Filps \subseteq Nat
BY DEF Fds, Filps

\* The process that a call is for.
LEMMA CallsProcess ==
  ASSUME CInv, NEW t \in Threads, ~Idle(t)
  PROVE  /\ call[t].req.pid \in Pids
         /\ call[t].req.op # "spawn" <=> Alive(call[t].req.pid)
         /\ \A u \in Threads \ {t} : ~Idle(u) /\ call[u].req.pid = call[t].req.pid =>
              call[t].req.op \notin {"spawn", "exit"} /\ call[u].req.op \notin {"spawn", "exit"}
<1>1. Running(t) /\ Alone
  BY Known
<1>2. call[t].req.pid \in Pids
  BY CallIs
<1> QED BY <1>1, <1>2 DEF Running, Alone

LEMMA OpenKeeps ==
  ASSUME CInv, NEW t \in Threads, Open(t) PROVE CInv'
<1> DEFINE c == call[t]
           p == c.req.pid
           fd == Least(FreeFds(p))
           k == Least(FreeFilps)
           puts == IF c.dirp # 0 THEN <<c.dirp>> ELSE <<>>
           F == [filpidx |-> k, inode |-> c.rip]
           P == [procs[p] EXCEPT !.filp = procs[p].filp \cup {fd}, !.files = [procs[p].files EXCEPT ![fd] = F]]
<1>1. /\ c.pc \in {"got", "exists", "made"} /\ c.req.op = "open" /\ Settle(<<>>, puts, disk)
      /\ Return(t) /\ UNCHANGED status
  BY DEF Open, At, Is
<1>2. /\ ~Idle(t) /\ disk \in Disks /\ c.rip \in Inodes
      /\ p \in Pids /\ Alive(p)
  BY <1>1, AtIs, CallsProcess DEF WithInode
<1>3. /\ Shapes /\ count \in [Inodes -> Int] /\ lost \in [Inodes -> Nat]
      /\ procs[p] \in Processes /\ procs \in [Pids -> {NoProcess} \cup Processes]
      /\ \A g \in Fds : procs[p].files[g] # NoFile => g \in procs[p].filp
  BY <1>2, Known, ProcessIs
<1> HIDE DEF p
<1>4. Moves(t, NoCall) /\ \A i \in Inodes : CallHas(NoCall, i) = 0
  BY <1>1, ReturnMoves, NoCallIs
<1>5. Short(puts) /\ \A i \in Inodes : Times(i, puts) = IF c.dirp = i THEN 1 ELSE 0
  BY TimesNone, TimesOne, NamesOfInodes DEF Short
<1> HIDE DEF puts
<1>6. /\ disk' \in Disks /\ count' \in [Inodes -> Int]
      /\ \A i \in Inodes : count'[i] = count[i] + Times(i, <<>>) - Times(i, puts)
  BY <1>1, <1>2, <1>3, <1>5, Settled DEF Short
<1>7. \A i \in Inodes : count'[i] = count[i] - (IF c.dirp = i THEN 1 ELSE 0)
  BY <1>3, <1>5, <1>6, TimesNone
<1>8. CASE Lose(<<c.rip>>) /\ UNCHANGED <<procs, filps>>
  <2>1. lost' \in [Inodes -> Nat] /\ \A i \in Inodes : lost'[i] = lost[i] + (IF c.rip = i THEN 1 ELSE 0)
    BY <1>3, <1>8, TimesOne DEF Lose
  <2>2. Accounted(t, NoCall)
    <3> SUFFICES ASSUME NEW i \in Inodes
                 PROVE  count'[i] = count[i] - CallHas(c, i) + CallHas(NoCall, i) + lost'[i] - lost[i]
      BY DEF Accounted
    <3>1. count[i] \in Int /\ lost[i] \in Nat
      BY <1>3
    <3> QED BY <1>4, <1>7, <2>1, <3>1 DEF CallHas
  <2> QED BY <1>3, <1>4, <1>6, <1>8, <2>1, <2>2, CallFrame DEF Moves, Go, Shapes, Statuses
<1>9. CASE /\ FreeFds(p) # {} /\ FreeFilps # {}
           /\ procs' = [procs EXCEPT ![p].filp = @ \cup {fd}, ![p].files[fd] = F]
           /\ filps' = [filps EXCEPT ![k] = [pid |-> p, fd |-> fd]]
           /\ UNCHANGED lost
  <2>1. fd \in Fds /\ fd \notin procs[p].filp /\ k \in Filps
    <3>1. FreeFds(p) \in SUBSET Nat /\ FreeFilps \in SUBSET Nat
      BY FdsAre DEF FreeFds, FreeFilps
    <3>2. fd \in FreeFds(p) /\ k \in FreeFilps
      BY <1>9, <3>1, LeastIs
    <3> QED BY <3>2 DEF FreeFds, FreeFilps
  <2> HIDE DEF fd, k
  <2>2. procs[p].files[fd] = NoFile
    BY <1>3, <2>1
  <2>3. procs' = [procs EXCEPT ![p] = P]
    BY <1>2, <1>3, <1>9 DEF Processes
  <2>4. F \in Files /\ F.inode = c.rip /\ F # NoFile
    <3>1. F.inode = c.rip /\ NoFile.inode = 0 /\ c.rip # 0
      BY <1>2, NamesOfInodes DEF NoFile
    <3> QED BY <1>2, <2>1, <3>1 DEF Files
  <2> HIDE DEF F
  <2>5. /\ P \in Processes /\ P.workdir = procs[p].workdir /\ P.filp = procs[p].filp \cup {fd}
        /\ P.files = [procs[p].files EXCEPT ![fd] = F]
    BY <1>3, <2>1, <2>4 DEF Processes
  <2> HIDE DEF P
  <2>6. /\ P.files[fd] = F /\ \A g \in Fds : g # fd => P.files[g] = procs[p].files[g]
    BY <1>3, <2>1, <2>5 DEF Processes
  <2>7. P # NoProcess
    BY <2>5, NamesOfInodes DEF NoProcess, Processes
  <2>8. \A g \in Fds : P.files[g] # NoFile => g \in P.filp
    BY <1>3, <2>5, <2>6
  <2>9. ASSUME NEW i \in Inodes PROVE Settles(t, NoCall, i)
    <3>1. ~FileOf(procs[p], fd, i) /\ (FileOf(P, fd, i) <=> c.rip = i)
      BY <2>2, <2>4, <2>6, <2>7 DEF FileOf
    <3>2. /\ Cardinality(WorkdirsAt(i)') = Cardinality(WorkdirsAt(i))
          /\ Cardinality(FilesOn(i)') = Cardinality(FilesOn(i))
               - (IF FileOf(procs[p], fd, i) THEN 1 ELSE 0) + (IF FileOf(P, fd, i) THEN 1 ELSE 0)
      <4>1. ChangesFile(p, P, fd)
        BY <1>2, <1>3, <2>1, <2>3, <2>5, <2>6 DEF ChangesFile
      <4> QED BY <4>1, OneFile, Zenon
    <3>3. /\ Cardinality(WorkdirsAt(i)) \in Nat /\ Cardinality(FilesOn(i)) \in Nat
          /\ count[i] \in Int /\ lost[i] \in Nat /\ lost'[i] = lost[i]
      BY <1>3, <1>9, RefsFinite
    <3>4. Cardinality(FilesOn(i)') = Cardinality(FilesOn(i)) + (IF c.rip = i THEN 1 ELSE 0)
      BY <3>1, <3>2, <3>3
    <3>5. CallHas(c, i) = (IF c.dirp = i THEN 1 ELSE 0) + (IF c.rip = i THEN 1 ELSE 0)
      BY DEF CallHas
    <3> QED BY <1>4, <1>7, <3>2, <3>3, <3>4, <3>5 DEF Settles
  <2>10. filps' \in FilpTables
    <3>1. filps \in FilpTables
      BY <1>3 DEF Shapes
    <3>2. [pid |-> p, fd |-> fd] \in [pid : Pids, fd : Fds]
      BY <1>2, <2>1
    <3> QED BY <1>9, <2>1, <3>1, <3>2 DEF FilpTables
  <2>11. \A u \in Threads \ {t} : ~Idle(u) /\ call[u].req.pid = p =>
           P # NoProcess /\ call[u].req.op \notin {"spawn", "exit"}
    BY <1>2, <2>7, CallsProcess DEF p
  <2>12. /\ Go(t, NoCall) /\ mutex' \in Mutexes /\ status' \in {"up", "down", "panicked"}
         /\ lost' \in [Inodes -> Nat] /\ NoCall.pc = "idle"
    BY <1>3, <1>4, <1>9 DEF Moves, Statuses, NoCall, Bare
  <2>13. P \in {NoProcess} \cup Processes /\ p \in Pids
    BY <1>2, <2>5
  <2> QED BY <1>6, <2>3, <2>8, <2>9, <2>10, <2>11, <2>12, <2>13, ProcessFrame
<1> QED BY <1>8, <1>9 DEF Open, p

\* The files of the processes stay when the directories of one of them change.
KeepsFiles(p, P, i) ==
  /\ procs \in [Pids -> {NoProcess} \cup Processes] /\ p \in Pids
  /\ procs' = [procs EXCEPT ![p] = P]
  /\ \A fd \in Fds : FileOf(procs[p], fd, i) <=> FileOf(P, fd, i)
MovesWorkdir(p, P, i) ==
  /\ FilesOn(i)' = FilesOn(i)
  /\ Cardinality(WorkdirsAt(i)') = Cardinality(WorkdirsAt(i))
       - (IF procs[p].workdir = i THEN 1 ELSE 0) + (IF P.workdir = i THEN 1 ELSE 0)
LEMMA NoFileMoved ==
  ASSUME NEW p, NEW P, NEW i, KeepsFiles(p, P, i)
  PROVE  MovesWorkdir(p, P, i)
<1>1. /\ p \in Pids /\ procs'[p] = P /\ \A q \in Pids \ {p} : procs'[q] = procs[q]
      /\ \A fd \in Fds : FileOf(procs[p], fd, i) <=> FileOf(P, fd, i)
  BY DEF KeepsFiles
<1>2. \A f \in Pids \X Fds : FileIs(f[1], f[2], i)' <=> FileIs(f[1], f[2], i)
  <2> SUFFICES ASSUME NEW q \in Pids, NEW g \in Fds
               PROVE  FileIs(q, g, i)' <=> FileIs(q, g, i)
    OBVIOUS
  <2>1. CASE q # p
    BY <1>1, <2>1 DEF FileIs, IsOpen, Alive
  <2>2. CASE q = p
    BY <1>1, <2>2 DEF FileIs, FileOf, IsOpen, Alive
  <2> QED BY <2>1, <2>2
<1>3. FilesOn(i)' = FilesOn(i)
  BY <1>2, FilesStay
<1> QED BY <1>1, <1>3, WorkdirsMoved DEF MovesWorkdir

LEMMA ChdirKeeps ==
  ASSUME CInv, NEW t \in Threads, Chdir(t) PROVE CInv'
<1> DEFINE c == call[t]
           p == c.req.pid
           P == [procs[p] EXCEPT !.workdir = c.rip]
<1>1. /\ c.pc = "got" /\ c.req.op = "chdir" /\ Return(t) /\ UNCHANGED <<lost, filps, status>>
  BY DEF Chdir, At, Is
<1>2. /\ ~Idle(t) /\ disk \in Disks /\ c.rip \in Inodes /\ c.dirp = 0 /\ p \in Pids /\ Alive(p)
  BY <1>1, AtIs, CallsProcess DEF WithInode, InDirectory
<1>3. /\ Shapes /\ count \in [Inodes -> Int] /\ lost \in [Inodes -> Nat]
      /\ procs[p] \in Processes /\ procs \in [Pids -> {NoProcess} \cup Processes]
      /\ \A g \in Fds : procs[p].files[g] # NoFile => g \in procs[p].filp
  BY <1>2, Known, ProcessIs
<1>4. Moves(t, NoCall) /\ (\A i \in Inodes : CallHas(NoCall, i) = 0) /\ NoCall.dirp = 0 /\ NoCall.rip = 0
  BY <1>1, ReturnMoves, NoCallIs DEF NoCall, Bare
<1> HIDE DEF p
<1>5. CASE Settle(<<>>, <<c.rip>>, disk) /\ UNCHANGED procs
  <2>1. \A i \in Inodes : Times(i, <<c.rip>>) = CallHas(c, i)
    BY <1>2, TimesOne, NamesOfInodes DEF CallHas
  <2> QED BY <1>1, <1>2, <1>4, <1>5, <2>1, GivesBack DEF Short
<1>6. CASE Settle(<<>>, <<procs[p].workdir>>, disk) /\ procs' = [procs EXCEPT ![p].workdir = c.rip]
  <2>1. /\ disk' \in Disks /\ count' \in [Inodes -> Int]
        /\ \A i \in Inodes : count'[i] = count[i] + Times(i, <<>>) - Times(i, <<procs[p].workdir>>)
    BY <1>2, <1>3, <1>6, Settled DEF Short
  <2>2. procs' = [procs EXCEPT ![p] = P]
    BY <1>6
  <2>3. /\ P \in Processes /\ P.workdir = c.rip /\ P.filp = procs[p].filp /\ P.files = procs[p].files
    BY <1>2, <1>3 DEF Processes
  <2> HIDE DEF P
  <2>4. P # NoProcess /\ procs[p] # NoProcess
    BY <1>3, <2>3, NamesOfInodes DEF NoProcess, Processes
  <2>5. ASSUME NEW i \in Inodes PROVE Settles(t, NoCall, i)
    <3>1. \A fd \in Fds : FileOf(procs[p], fd, i) <=> FileOf(P, fd, i)
      BY <2>3, <2>4 DEF FileOf
    <3>2. /\ FilesOn(i)' = FilesOn(i)
          /\ Cardinality(WorkdirsAt(i)') = Cardinality(WorkdirsAt(i))
               - (IF procs[p].workdir = i THEN 1 ELSE 0) + (IF c.rip = i THEN 1 ELSE 0)
      <4>1. KeepsFiles(p, P, i)
        BY <1>2, <1>3, <2>2, <3>1 DEF KeepsFiles
      <4>2. MovesWorkdir(p, P, i)
        BY <4>1, NoFileMoved, Zenon
      <4> QED BY <2>3, <4>2 DEF MovesWorkdir
    <3>3. /\ Cardinality(WorkdirsAt(i)) \in Nat /\ Cardinality(FilesOn(i)) \in Nat
          /\ count[i] \in Int /\ lost[i] \in Nat /\ lost'[i] = lost[i]
      BY <1>1, <1>3, RefsFinite
    <3>4. count'[i] = count[i] - (IF procs[p].workdir = i THEN 1 ELSE 0)
      BY <2>1, <3>3, TimesNone, TimesOne
    <3>5. CallHas(c, i) = IF c.rip = i THEN 1 ELSE 0
      BY <1>2, NamesOfInodes DEF CallHas
    <3> QED BY <1>4, <3>2, <3>3, <3>4, <3>5 DEF Settles
  <2>6. \A g \in Fds : P.files[g] # NoFile => g \in P.filp
    BY <1>3, <2>3
  <2>7. \A u \in Threads \ {t} : ~Idle(u) /\ call[u].req.pid = p =>
          P # NoProcess /\ call[u].req.op \notin {"spawn", "exit"}
    BY <1>2, <2>4, CallsProcess DEF p
  <2>8. /\ Go(t, NoCall) /\ mutex' \in Mutexes /\ status' \in {"up", "down", "panicked"}
        /\ lost' \in [Inodes -> Nat] /\ NoCall.pc = "idle" /\ filps' \in FilpTables
    BY <1>1, <1>3, <1>4 DEF Moves, Statuses, NoCall, Bare, Shapes
  <2>9. P \in {NoProcess} \cup Processes /\ p \in Pids
    BY <1>2, <2>3
  <2> QED BY <2>1, <2>2, <2>5, <2>6, <2>7, <2>8, <2>9, ProcessFrame
<1> QED BY <1>5, <1>6 DEF Chdir, p

LEMMA SpawnKeeps ==
  ASSUME CInv, NEW t \in Threads, Spawn(t) PROVE CInv'
<1> DEFINE c == call[t]
           p == c.req.pid
           P == [rootdir |-> c.rip, workdir |-> c.rip, filp |-> {}, files |-> [fd \in Fds |-> NoFile]]
<1>1. /\ c.pc = "got" /\ c.req.op = "spawn" /\ Return(t) /\ UNCHANGED <<disk, count, lost, filps, status>>
      /\ procs' = [procs EXCEPT ![p] = P]
  BY DEF Spawn, At, Is
<1>2. /\ ~Idle(t) /\ c.rip \in Inodes /\ c.dirp = 0 /\ p \in Pids /\ ~Alive(p)
  BY <1>1, AtIs, CallsProcess DEF WithInode, InDirectory
<1>3. /\ Shapes /\ disk \in Disks /\ count \in [Inodes -> Int] /\ lost \in [Inodes -> Nat]
      /\ procs[p] = NoProcess /\ procs \in [Pids -> {NoProcess} \cup Processes]
  BY <1>2, Known DEF Shapes, Alive
<1>4. Moves(t, NoCall) /\ \A i \in Inodes : CallHas(NoCall, i) = 0
  BY <1>1, ReturnMoves, NoCallIs
<1>5. \A u \in Threads \ {t} : ~Idle(u) => call[u].req.pid # p
  BY <1>1, <1>2, CallsProcess
<1> HIDE DEF p
<1>6. P \in Processes /\ P.workdir = c.rip /\ \A fd \in Fds : P.files[fd] = NoFile
  BY <1>2 DEF Processes
<1> HIDE DEF P
<1>7. ASSUME NEW i \in Inodes PROVE Settles(t, NoCall, i)
  <2>1. \A fd \in Fds : FileOf(procs[p], fd, i) <=> FileOf(P, fd, i)
    BY <1>3, <1>6 DEF FileOf
  <2>2. procs[p].workdir # i
    BY <1>3, NamesOfInodes DEF NoProcess
  <2>3. /\ FilesOn(i)' = FilesOn(i)
        /\ Cardinality(WorkdirsAt(i)') = Cardinality(WorkdirsAt(i))
             - (IF procs[p].workdir = i THEN 1 ELSE 0) + (IF c.rip = i THEN 1 ELSE 0)
    <3>1. procs' = [procs EXCEPT ![p] = P] /\ P.workdir = c.rip
      BY <1>1, <1>6
    <3>2. KeepsFiles(p, P, i)
      BY <1>2, <1>3, <2>1, <3>1 DEF KeepsFiles
    <3>3. MovesWorkdir(p, P, i)
      BY <3>2, NoFileMoved, Zenon
    <3> QED BY <3>1, <3>3 DEF MovesWorkdir
  <2>4. /\ Cardinality(WorkdirsAt(i)) \in Nat /\ Cardinality(FilesOn(i)) \in Nat
        /\ count[i] \in Int /\ lost[i] \in Nat /\ lost'[i] = lost[i] /\ count'[i] = count[i]
    BY <1>1, <1>3, RefsFinite
  <2>5. CallHas(c, i) = IF c.rip = i THEN 1 ELSE 0
    BY <1>2, NamesOfInodes DEF CallHas
  <2> QED BY <1>4, <2>2, <2>3, <2>4, <2>5 DEF Settles
<1>8. /\ Go(t, NoCall) /\ mutex' \in Mutexes /\ status' \in {"up", "down", "panicked"}
      /\ lost' \in [Inodes -> Nat] /\ NoCall.pc = "idle" /\ filps' \in FilpTables
      /\ disk' \in Disks /\ count' \in [Inodes -> Int]
  BY <1>1, <1>3, <1>4 DEF Moves, Statuses, NoCall, Bare, Shapes
<1>9. P \in {NoProcess} \cup Processes /\ p \in Pids
  BY <1>2, <1>6
<1> QED BY <1>1, <1>5, <1>6, <1>7, <1>8, <1>9, ProcessFrame

LEMMA ExitIs ==
  ASSUME CInv, NEW t \in Threads, call[t].pc = "exit"
  PROVE  /\ ~Idle(t) /\ call[t].dirp = 0 /\ call[t].rip = 0 /\ call[t].req.op = "exit"
         /\ (\A i \in Inodes : CallHas(call[t], i) = 0)
         /\ call[t].req.pid \in Pids /\ Alive(call[t].req.pid)
         /\ procs[call[t].req.pid].workdir = procs[call[t].req.pid].rootdir
         /\ \A u \in Threads \ {t} : ~Idle(u) => call[u].req.pid # call[t].req.pid
<1>1. ~Idle(t) /\ call[t].dirp = 0 /\ call[t].rip = 0 /\ Fits(call[t])
  BY AtIs DEF InDirectory, WithInode
<1>2. call[t].req.op = "exit"
  BY <1>1 DEF Fits
<1>3. \A i \in Inodes : CallHas(call[t], i) = 0
  BY <1>1, NamesOfInodes DEF CallHas
<1>4. Running(t)
  BY Known
<1> QED BY <1>1, <1>2, <1>3, <1>4, CallsProcess DEF Running

LEMMA ExitClosesKeeps ==
  ASSUME CInv, NEW t \in Threads, ExitCloses(t) PROVE CInv'
<1> DEFINE c == call[t]
           p == c.req.pid
           fd == Least({d \in Fds : IsOpen(p, d)})
           i0 == procs[p].files[fd].inode
           P == [procs[p] EXCEPT !.files = [procs[p].files EXCEPT ![fd] = NoFile], !.filp = procs[p].filp \ {fd}]
<1>1. /\ c.pc = "exit" /\ (\E d \in Fds : IsOpen(p, d)) /\ Settle(<<>>, <<i0>>, disk)
      /\ procs' = [procs EXCEPT ![p].files[fd] = NoFile, ![p].filp = @ \ {fd}]
      /\ filps' = [filps EXCEPT ![fd] = NoFilp]
      /\ UNCHANGED <<lost, mutex, call, status>>
  BY DEF ExitCloses, At
<1>2. /\ c.req.op = "exit" /\ p \in Pids /\ Alive(p) /\ procs[p].workdir = procs[p].rootdir
      /\ (\A i \in Inodes : CallHas(c, i) = 0)
      /\ \A u \in Threads \ {t} : ~Idle(u) => call[u].req.pid # p
  BY <1>1, ExitIs
<1>3. /\ Shapes /\ disk \in Disks /\ count \in [Inodes -> Int] /\ lost \in [Inodes -> Nat]
  BY Known
<1> HIDE DEF p
<1>4. fd \in Fds /\ IsOpen(p, fd)
  <2>1. {d \in Fds : IsOpen(p, d)} \in SUBSET Nat /\ {d \in Fds : IsOpen(p, d)} # {}
    BY <1>1, FdsAre
  <2>2. fd \in {d \in Fds : IsOpen(p, d)}
    BY <2>1, LeastIs
  <2> QED BY <2>2
<1> HIDE DEF fd
<1>5. /\ procs[p] \in Processes /\ procs \in [Pids -> {NoProcess} \cup Processes]
      /\ i0 \in Inodes /\ \A g \in Fds : procs[p].files[g] # NoFile => g \in procs[p].filp
  BY <1>2, <1>4, ProcessIs
<1>6. procs' = [procs EXCEPT ![p] = P]
  BY <1>1, <1>2, <1>5 DEF Processes
<1>7. /\ P \in Processes /\ P.workdir = procs[p].workdir /\ P.rootdir = procs[p].rootdir
      /\ P.filp = procs[p].filp \ {fd} /\ P.files = [procs[p].files EXCEPT ![fd] = NoFile]
  BY <1>4, <1>5 DEF Processes
<1> HIDE DEF P
<1>8. P.files[fd] = NoFile /\ \A g \in Fds : g # fd => P.files[g] = procs[p].files[g]
  BY <1>4, <1>5, <1>7 DEF Processes
<1>9. P # NoProcess /\ procs[p] # NoProcess
  BY <1>5, <1>7, NamesOfInodes DEF NoProcess, Processes
<1>10. /\ disk' \in Disks /\ count' \in [Inodes -> Int]
       /\ \A i \in Inodes : count'[i] = count[i] + Times(i, <<>>) - Times(i, <<i0>>)
  BY <1>1, <1>3, Settled DEF Short
<1>11. ASSUME NEW i \in Inodes PROVE Settles(t, c, i)
  <2>1. (FileOf(procs[p], fd, i) <=> i0 = i) /\ ~FileOf(P, fd, i)
    BY <1>4, <1>8, <1>9 DEF FileOf, IsOpen
  <2>2. /\ Cardinality(WorkdirsAt(i)') = Cardinality(WorkdirsAt(i))
        /\ Cardinality(FilesOn(i)') = Cardinality(FilesOn(i))
             - (IF FileOf(procs[p], fd, i) THEN 1 ELSE 0) + (IF FileOf(P, fd, i) THEN 1 ELSE 0)
    <3>1. ChangesFile(p, P, fd)
      BY <1>2, <1>4, <1>5, <1>6, <1>7, <1>8 DEF ChangesFile
    <3> QED BY <3>1, OneFile, Zenon
  <2>3. /\ Cardinality(WorkdirsAt(i)) \in Nat /\ Cardinality(FilesOn(i)) \in Nat
        /\ count[i] \in Int /\ lost[i] \in Nat /\ lost'[i] = lost[i]
    BY <1>1, <1>3, RefsFinite
  <2>4. Cardinality(FilesOn(i)') = Cardinality(FilesOn(i)) - (IF i0 = i THEN 1 ELSE 0)
    BY <2>1, <2>2, <2>3
  <2>5. count'[i] = count[i] - (IF i0 = i THEN 1 ELSE 0)
    BY <1>10, <2>3, TimesNone, TimesOne
  <2> QED BY <1>2, <2>2, <2>3, <2>4, <2>5 DEF Settles
<1>12. filps' \in FilpTables
  <2>1. filps \in FilpTables
    BY <1>3 DEF Shapes
  <2> QED BY <1>1, <2>1 DEF FilpTables
<1>13. \A u \in Threads \ {t} : ~Idle(u) /\ call[u].req.pid = p =>
         P # NoProcess /\ call[u].req.op \notin {"spawn", "exit"}
  BY <1>2
<1>14. \A g \in Fds : P.files[g] # NoFile => g \in P.filp
  BY <1>5, <1>7, <1>8
<1>15. /\ Go(t, c) /\ mutex' \in Mutexes /\ status' \in {"up", "down", "panicked"} /\ lost' \in [Inodes -> Nat]
       /\ c.req.op # "spawn" /\ P.workdir = P.rootdir
  BY <1>1, <1>2, <1>3, <1>7 DEF Shapes, Go
<1>16. P \in {NoProcess} \cup Processes /\ p \in Pids /\ c.req.pid = p
  BY <1>2, <1>7 DEF p
<1>17. c.pc # "idle" => c.req.pid = p /\ c.req.op # "spawn" /\ P # NoProcess /\ P.workdir = P.rootdir
  BY <1>9, <1>15, <1>16
<1> HIDE DEF c
<1>18. c = NoCall \/ c = call[t]
  BY DEF c
<1>19. /\ disk' \in Disks /\ count' \in [Inodes -> Int] /\ lost' \in [Inodes -> Nat]
       /\ filps' \in FilpTables /\ mutex' \in Mutexes /\ status' \in {"up", "down", "panicked"}
       /\ Go(t, c) /\ p \in Pids /\ P \in {NoProcess} \cup Processes
  BY <1>10, <1>12, <1>15, <1>16
<1> QED BY <1>6, <1>11, <1>13, <1>14, <1>17, <1>18, <1>19, ProcessFrame

LEMMA ExitEndsKeeps ==
  ASSUME CInv, NEW t \in Threads, ExitEnds(t) PROVE CInv'
<1> DEFINE c == call[t]
           p == c.req.pid
           w == procs[p].workdir
<1>1. /\ c.pc = "exit" /\ (\A d \in Fds : ~IsOpen(p, d)) /\ Return(t)
      /\ procs' = [procs EXCEPT ![p] = NoProcess] /\ UNCHANGED <<lost, filps, status>>
  BY DEF ExitEnds, At
<1>2. /\ ~Idle(t) /\ p \in Pids /\ Alive(p) /\ w = procs[p].rootdir
      /\ (\A i \in Inodes : CallHas(c, i) = 0)
      /\ \A u \in Threads \ {t} : ~Idle(u) => call[u].req.pid # p
  BY <1>1, ExitIs
<1>3. /\ Shapes /\ disk \in Disks /\ count \in [Inodes -> Int] /\ lost \in [Inodes -> Nat]
      /\ procs \in [Pids -> {NoProcess} \cup Processes]
  BY Known DEF Shapes
<1>4. Settle(<<>>, <<w>>, disk)
  BY <1>2 DEF ExitEnds
<1>5. Moves(t, NoCall) /\ \A i \in Inodes : CallHas(NoCall, i) = 0
  BY <1>1, ReturnMoves, NoCallIs
<1> HIDE DEF p
<1>6. /\ disk' \in Disks /\ count' \in [Inodes -> Int]
      /\ \A i \in Inodes : count'[i] = count[i] + Times(i, <<>>) - Times(i, <<w>>)
  BY <1>3, <1>4, Settled DEF Short
<1>7. ASSUME NEW i \in Inodes PROVE Settles(t, NoCall, i)
  <2>1. \A fd \in Fds : FileOf(procs[p], fd, i) <=> FileOf(NoProcess, fd, i)
    BY <1>1 DEF FileOf, IsOpen, Alive
  <2>2. NoProcess.workdir # i
    BY NamesOfInodes DEF NoProcess
  <2>3. /\ FilesOn(i)' = FilesOn(i)
        /\ Cardinality(WorkdirsAt(i)') = Cardinality(WorkdirsAt(i))
             - (IF procs[p].workdir = i THEN 1 ELSE 0) + (IF NoProcess.workdir = i THEN 1 ELSE 0)
    <3>1. KeepsFiles(p, NoProcess, i)
      BY <1>1, <1>2, <1>3, <2>1 DEF KeepsFiles
    <3>2. MovesWorkdir(p, NoProcess, i)
      BY <3>1, NoFileMoved, Zenon
    <3> QED BY <3>2 DEF MovesWorkdir
  <2>4. /\ Cardinality(WorkdirsAt(i)) \in Nat /\ Cardinality(FilesOn(i)) \in Nat
        /\ count[i] \in Int /\ lost[i] \in Nat /\ lost'[i] = lost[i]
    BY <1>1, <1>3, RefsFinite
  <2>5. count'[i] = count[i] - (IF procs[p].workdir = i THEN 1 ELSE 0)
    BY <1>6, <2>4, TimesNone, TimesOne
  <2> QED BY <1>2, <1>5, <2>2, <2>3, <2>4, <2>5 DEF Settles
<1>8. /\ Go(t, NoCall) /\ mutex' \in Mutexes /\ status' \in {"up", "down", "panicked"}
      /\ lost' \in [Inodes -> Nat] /\ NoCall.pc = "idle" /\ filps' \in FilpTables
  BY <1>1, <1>3, <1>5 DEF Moves, Statuses, NoCall, Bare, Shapes
<1> QED BY <1>1, <1>2, <1>6, <1>7, <1>8, ProcessFrame
-----------------------------------------------------------------------------
(* The invariant holds at first, and every step keeps it. *)

LEMMA InitDisk == ASSUME Init PROVE disk \in Disks
<1> DEFINE d == CHOOSE i \in Inodes : i # Root
           kind == [i \in Inodes |-> IF i \in {Root, d} THEN "dir" ELSE "free"]
           nlinks == [i \in Inodes |-> IF i = Root THEN 3 ELSE IF i = d THEN 2 ELSE 0]
           entries == {Dir(Root), Dir(d), [dir |-> Root, name |-> "..", inode |-> Root],
                       [dir |-> Root, name |-> "d", inode |-> d],
                       [dir |-> d, name |-> "..", inode |-> Root]}
<1>1. disk = [kind |-> kind, nlinks |-> nlinks, entries |-> entries]
  BY DEF Init
<1>2. d \in Inodes /\ Root \in Inodes
  <2>1. \E i \in Inodes : i # Root
    BY InodesAssumption DEF InodesAssumption
  <2> QED BY <2>1, NamesOfInodes
<1> HIDE DEF d
<1>3. "." \in Names /\ ".." \in Names /\ "d" \in Names
  BY DEF Names
<1>4. entries \in SUBSET Entries
  BY <1>2, <1>3, EntryIs DEF Dir
<1>5. kind \in [Inodes -> {"free", "file", "dir"}] /\ nlinks \in [Inodes -> Links]
  BY Uint16Is DEF Links
<1> HIDE DEF kind, nlinks, entries
<1> QED BY <1>1, <1>4, <1>5 DEF Disks

LEMMA InitHolds == ASSUME Init PROVE CInv
<1>1. /\ disk \in Disks
      /\ count = [i \in Inodes |-> IF i = Root THEN 1 ELSE 0]
      /\ lost = [i \in Inodes |-> 0]
      /\ procs = [p \in Pids |-> NoProcess]
      /\ filps = [k \in Filps |-> NoFilp]
      /\ mutex = [m \in Pids \cup {ProcTable} |-> {}]
      /\ call = [t \in Threads |-> NoCall]
      /\ status = "up"
  BY InitDisk DEF Init
<1>2. Shapes
  <2>1. call \in [Threads -> Calls]
    BY <1>1, NoCallIs
  <2> QED BY <1>1, <2>1 DEF Shapes, FilpTables, Mutexes
<1>3. CountIsReferences
  <2> SUFFICES ASSUME NEW i \in Inodes
               PROVE  count[i] = RootProcess(i) + Cardinality(WorkdirsAt(i)) + Cardinality(FilesOn(i))
                                 + CallsOn(i) + lost[i]
    BY DEF CountIsReferences
  <2>1. WorkdirsAt(i) = {} /\ FilesOn(i) = {}
    BY <1>1, NamesOfInodes DEF WorkdirsAt, FilesOn, IsOpen, Alive, NoProcess
  <2>2. DirpAt(i) = {} /\ RipAt(i) = {}
    BY <1>1, NamesOfInodes DEF DirpAt, RipAt, NoCall, Bare
  <2>3. CallsOn(i) = 0 /\ Cardinality(WorkdirsAt(i)) = 0 /\ Cardinality(FilesOn(i)) = 0
    BY <2>1, <2>2, CallsOnIs, FS_EmptySet
  <2> QED BY <1>1, <2>3 DEF RootProcess
<1>4. \A t \in Threads : Fits(call[t]) /\ Running(t)
  BY <1>1, NoCallIs DEF Running, Idle, NoCall, Bare
<1>5. Alone /\ Descriptors
  BY <1>1 DEF Alone, Descriptors, Idle, NoCall, Bare, IsOpen, Alive
<1> QED BY <1>2, <1>3, <1>4, <1>5 DEF CInv

LEMMA GoesKeeps == ASSUME CInv, NEW t \in Threads, Goes(t) PROVE CInv'
<1>1. CASE Walk(t) \/ NotADirectory(t) \/ EatPath(t)
  <2>1. EatPath(t) /\ LastStumbles(t) => Panic
    BY DEF EatPath
  <2> QED BY <1>1, <2>1, WalkKeeps, NotADirectoryKeeps, EatPathKeeps, Panics
<1>2. CASE LookFirst(t) \/ Link(t) \/ MkdirExists(t) \/ MkdirDots(t)
  <2>1. LookFirst(t) /\ LastStumbles(t) => Panic
    BY DEF LookFirst
  <2> QED BY <1>2, <2>1, LookFirstKeeps, LinkKeeps, MkdirExistsKeeps, MkdirDotsKeeps, Panics
<1>3. CASE MakeInode(t)
  BY <1>3, MakeInodeKeeps, Panics DEF MakeInode, Tables
<1>4. CASE UnlinkPrep(t) \/ Unlink(t) \/ RmdirIsEmpty(t) \/ RmdirIsUsed(t) \/ RmdirEntry(t) \/ RmdirDots(t)
  <2>1. UnlinkPrep(t) /\ LastStumbles(t) => Panic
    BY DEF UnlinkPrep
  <2> QED BY <1>4, <2>1, UnlinkPrepKeeps, UnlinkKeeps, RmdirKeeps, Panics
<1>5. CASE Open(t) \/ Chdir(t) \/ Spawn(t) \/ ExitCloses(t) \/ ExitEnds(t)
  BY <1>5, OpenKeeps, ChdirKeeps, SpawnKeeps, ExitClosesKeeps, ExitEndsKeeps
<1> QED BY <1>1, <1>2, <1>3, <1>4, <1>5 DEF Goes

LEMMA NextKeeps == ASSUME StaysIn, CInv, [Next]_vars PROVE CInv'
<1>1. ASSUME NEW t \in Threads, NEW r \in Requests, Begins(t, r) PROVE CInv'
  BY <1>1, StartKeeps, CloseKeeps, TransferKeeps, ExitKeeps DEF Begins
<1>2. CASE UNCHANGED vars
  <2>1. UNCHANGED <<disk, count, lost, procs, filps, mutex, call, status>>
    BY <1>2 DEF vars
  <2>2. Shapes'
    BY <2>1 DEF CInv, Shapes
  <2>3. CountIsReferences'
    BY <2>1 DEF CInv, CountIsReferences, CallsOn, FilesOn, WorkdirsAt, IsOpen, Alive
  <2>4. \A t \in Threads : Fits(call'[t]) /\ Running(t)'
    BY <2>1 DEF CInv, Running, Idle, Alive
  <2>5. Alone' /\ Descriptors'
    BY <2>1 DEF CInv, Alone, Descriptors, Idle, IsOpen, Alive
  <2> QED BY <2>2, <2>3, <2>4, <2>5 DEF CInv
<1> QED BY <1>1, <1>2, GoesKeeps DEF Next

LEMMA Invariant == StaysIn => (Spec => []CInv)
<1> SUFFICES ASSUME StaysIn PROVE Spec => []CInv
  OBVIOUS
<1>1. CInv /\ [Next]_vars => CInv'
  BY NextKeeps
<1> QED BY <1>1, InitHolds, PTL DEF Spec
-----------------------------------------------------------------------------
(* The inductive invariant: the tree. *)

\* Programs that are well-behaved in every way, give files other names than directories,
\* and unlink files only.
UnlinksFiles ==
  \A r \in Requests : r.op = "unlink" =>
    /\ LastOf(r) \in Plain \ {"d"}
    /\ \A s \in Requests : s.op = "mkdir" => LastOf(s) # LastOf(r)
Orderly == Wild = {} /\ UnlinksFiles

\* What a call that changes the tree leaves undone between its steps: an inode that has
\* its link but no entry, a directory that has no . and .. yet, and one that still has
\* them but no entry.
Changing(c) == c.pc # "idle" /\ Changes(c.req)
Linking(c) == IF c.pc = "link" THEN {c.rip} ELSE {}
Making(c) == IF c.pc \in {"link", "made"} /\ c.req.op = "mkdir" THEN {c.rip} ELSE {}
Leaving(c) == IF c.pc = "dots" THEN {c.rip} ELSE {}

\* The kinds K, the links N and the entries E make a tree, but for the inodes in L, M
\* and U, of which just that is undone.
Counted(N, E, i) == {e \in E : e.inode = i /\ N[e.dir] > 0}
IsName(n) == n \notin {"", ".", ".."}
Listed(E, d, i) == \E e \in E : e.dir = d /\ e.inode = i /\ IsName(e.name)
Unlinkable(n) == \E r \in Requests : r.op = "unlink" /\ LastOf(r) = n

Allocated(K, E) == \A e \in E : K[e.dir] = "dir" /\ K[e.inode] # "free"
Unique(E) == \A e, f \in E : e.dir = f.dir /\ e.name = f.name => e = f
OneName(E) == \A e, f \in E : IsName(e.name) /\ IsName(f.name) /\ e.inode = f.inode => e = f
DotsLead(E) ==
  \A e \in E :
    /\ e.name # "" /\ (e.name = "." => e.inode = e.dir)
    /\ e.name = ".." => (e.dir = Root <=> e.inode = e.dir)
Linked(N, E, L) ==
  \A i \in Inodes : IF i \in L THEN N[i] = 1 /\ \A e \in E : e.inode # i
                    ELSE N[i] = Cardinality(Counted(N, E, i))
Husks(N, E) == \A e \in E : N[e.dir] = 0 => e.name = "."
Dotted(K, N, E, M) ==
  \A i \in Inodes :
    IF i \in M THEN \A e \in E : e.dir # i
    ELSE K[i] = "dir" /\ N[i] > 0 => \A n \in {".", ".."} : \E e \in E : e.dir = i /\ e.name = n
Reached(N, E, U) ==
  \A e \in E : e.name = ".." /\ N[e.dir] > 0 /\ e.dir # Root /\ e.dir \notin U => Listed(E, e.inode, e.dir)
FilesNamed(K, E) == \A e \in E : Unlinkable(e.name) => K[e.inode] = "file"

Tree(K, N, E, L, M, U) ==
  /\ Allocated(K, E) /\ Unique(E) /\ DotsLead(E) /\ OneName(E) /\ Linked(N, E, L) /\ Husks(N, E)
  /\ Dotted(K, N, E, M) /\ Reached(N, E, U) /\ FilesNamed(K, E)

\* What such a call knows of the tree.
Entered(E, c) == \E e \in E : e.dir = c.dirp /\ e.name = LastOf(c.req) /\ e.inode = c.rip
Empty(E, i) == \A e \in E : e.dir = i => ~IsName(e.name)
Knows(K, N, E, c) ==
  /\ c.pc \in InDirectory => N[c.dirp] > 0
  /\ c.pc \in InDirectory \ {"walk"} => K[c.dirp] = "dir"
  /\ c.pc \in {"make", "link"} =>
       IsName(LastOf(c.req)) /\ \A e \in E : e.dir = c.dirp => e.name # LastOf(c.req)
  /\ c.pc \in {"link", "made", "unused", "dots"} => c.rip # c.dirp
  /\ c.pc \in {"link", "made", "prepared", "empty", "unused", "dots"} => c.rip # Root
  /\ c.pc = "link" => K[c.rip] = IF c.req.op = "mkdir" THEN "dir" ELSE "file"
  /\ c.pc = "made" => Entered(E, c) /\ IsName(LastOf(c.req))
  /\ c.pc = "made" /\ c.req.op = "mkdir" => K[c.rip] = "dir" /\ N[c.rip] = 1
  /\ c.pc \in {"prepared", "empty", "unused"} =>
       Entered(E, c) \/ (c.rip = c.dirp /\ ~IsName(LastOf(c.req)))
  /\ c.pc \in {"empty", "unused", "dots"} => K[c.rip] = "dir" /\ Empty(E, c.rip)
  /\ c.pc = "dots" =>
       /\ N[c.rip] > 0 /\ \A e \in E : e.inode = c.rip => ~IsName(e.name)
       /\ \A e \in E : e.dir = c.rip /\ e.name = ".." => e.inode = c.dirp

\* The tree when the call c changes it; with NoCall, when none does.
TreeFor(K, N, E, c) == Tree(K, N, E, Linking(c), Making(c), Leaving(c)) /\ Knows(K, N, E, c)
Worker(c) == \/ c = NoCall /\ AtRest
             \/ \E t \in Threads : c = call[t] /\ Changing(c)
TreeInv == /\ IsFiniteSet(disk.entries)
           /\ \A c \in Calls : Worker(c) => TreeFor(disk.kind, disk.nlinks, disk.entries, c)

FreeIs == \A i \in Inodes : disk.kind[i] = "free" <=> disk.nlinks[i] = 0 /\ count[i] = 0

OneChange == \A t, u \in Threads : Changing(call[t]) /\ Changing(call[u]) => t = u

\* A process has references to both of its directories.
Roots ==
  /\ \A p \in Pids : Alive(p) => procs[p].rootdir \in {Root, procs[p].workdir}
  /\ \A t \in Threads : Is(t, "chdir") => procs[call[t].req.pid].rootdir = Root

IInv == CInv /\ TreeInv /\ FreeIs /\ OneChange /\ Roots
-----------------------------------------------------------------------------
(* Entries and links. *)

Shaped(K, N, E) ==
  /\ K \in [Inodes -> {"free", "file", "dir"}] /\ N \in [Inodes -> Links]
  /\ E \subseteq Entries /\ IsFiniteSet(E)

LEMMA ShapedIs ==
  ASSUME NEW K, NEW N, NEW E, Shaped(K, N, E)
  PROVE  /\ \A e \in E : e.dir \in Inodes /\ e.inode \in Inodes /\ e.name \in Names
         /\ \A i \in Inodes : N[i] \in Nat /\ N[i] < Uint16
         /\ \A i \in Inodes : K[i] \in {"free", "file", "dir"}
BY Uint16Is DEF Shaped, Entries, Links

LEMMA CountedIs ==
  ASSUME NEW N, NEW E, NEW i, IsFiniteSet(E)
  PROVE  /\ IsFiniteSet(Counted(N, E, i)) /\ Cardinality(Counted(N, E, i)) \in Nat
         /\ Cardinality(Counted(N, E, i)) = 0 <=> Counted(N, E, i) = {}
<1>1. Counted(N, E, i) \subseteq E
  BY DEF Counted
<1>2. IsFiniteSet(Counted(N, E, i))
  BY <1>1, FS_Subset
<1> QED BY <1>2, FS_CardinalityType, FS_EmptySet

\* An inode that a directory in the tree has an entry of has links.
LEMMA HasLinks ==
  ASSUME NEW K, NEW N, NEW E, Shaped(K, N, E), NEW L, Linked(N, E, L), NEW e \in E, N[e.dir] > 0
  PROVE  N[e.inode] > 0
<1>1. e.inode \in Inodes /\ N[e.inode] \in Nat /\ IsFiniteSet(E)
  BY ShapedIs DEF Shaped
<1>2. e \in Counted(N, E, e.inode)
  BY DEF Counted
<1>3. Cardinality(Counted(N, E, e.inode)) \in Nat /\ Cardinality(Counted(N, E, e.inode)) # 0
  BY <1>1, <1>2, CountedIs
<1> QED BY <1>1, <1>3 DEF Linked

\* An inode without links is entered in directories only that are themselves without.
LEMMA NoLinks ==
  ASSUME NEW K, NEW N, NEW E, Shaped(K, N, E), NEW L, Linked(N, E, L), Husks(N, E), DotsLead(E),
         NEW e \in E, N[e.inode] = 0
  PROVE  e.name = "." /\ e.dir = e.inode
<1>1. ~(N[e.dir] > 0) /\ N[e.dir] \in Nat
  BY HasLinks, ShapedIs
<1>2. e.name = "."
  BY <1>1 DEF Husks
<1> QED BY <1>2 DEF DotsLead

LEMMA CountedMore ==
  ASSUME NEW S, NEW T, NEW x, IsFiniteSet(S), T = S \cup {x}, x \notin S
  PROVE  Cardinality(S) \in Nat /\ Cardinality(T) = Cardinality(S) + 1
BY FS_AddElement, FS_CardinalityType

LEMMA CountedLess ==
  ASSUME NEW S, NEW T, NEW x, IsFiniteSet(S), T = S \ {x}, x \in S
  PROVE  Cardinality(S) \in Nat /\ Cardinality(S) > 0 /\ Cardinality(T) = Cardinality(S) - 1
<1>1. IsFiniteSet(T) /\ Cardinality(T) = Cardinality(S) - 1 /\ Cardinality(T) \in Nat /\ Cardinality(S) \in Nat
  BY FS_RemoveElement, FS_CardinalityType, FS_Subset
<1> QED BY <1>1

LEMMA OnlyOne ==
  ASSUME NEW S, NEW x \in S, IsFiniteSet(S), Cardinality(S) = 1
  PROVE  S = {x}
<1>1. IsFiniteSet(S \ {x}) /\ Cardinality(S \ {x}) = 0
  BY FS_RemoveElement, FS_Subset
<1>2. S \ {x} = {}
  BY <1>1, FS_EmptySet
<1> QED BY <1>2

\* Numbers of 16 bits.
LEMMA ModSame == ASSUME NEW n \in Nat, n < Uint16 PROVE n % Uint16 = n
BY DEF Uint16

LEMMA LessOneLinks ==
  ASSUME NEW N \in [Inodes -> Links], NEW i \in Inodes, N[i] > 0
  PROVE  /\ LessOne(N, i) \in [Inodes -> Links] /\ LessOne(N, i)[i] = N[i] - 1
         /\ \A j \in Inodes : j # i => LessOne(N, i)[j] = N[j]
<1>1. N[i] \in Nat /\ N[i] < Uint16 /\ Uint16 \in Nat
  BY Uint16Is DEF Links
<1>2. (N[i] - 1) % Uint16 = N[i] - 1 /\ N[i] - 1 \in Links
  BY <1>1, ModSame DEF Links
<1> QED BY <1>2 DEF LessOne

LEMMA OneMoreLinks ==
  ASSUME NEW N \in [Inodes -> Links], NEW i \in Inodes, N[i] + 1 < Uint16
  PROVE  /\ OneMore(N, i) \in [Inodes -> Links] /\ OneMore(N, i)[i] = N[i] + 1
         /\ \A j \in Inodes : j # i => OneMore(N, i)[j] = N[j]
<1>1. N[i] \in Nat /\ N[i] + 1 \in Nat /\ Uint16 \in Nat
  BY Uint16Is DEF Links
<1>2. (N[i] + 1) % Uint16 = N[i] + 1 /\ N[i] + 1 \in Links
  BY <1>1, ModSame DEF Links
<1> QED BY <1>2 DEF OneMore

-----------------------------------------------------------------------------
(* Inodes are freed. *)

LEMMA TreeFreed ==
  ASSUME NEW K, NEW N, NEW E, Shaped(K, N, E), NEW L, NEW M, NEW U, Tree(K, N, E, L, M, U),
         NEW gone \in SUBSET Inodes, \A i \in gone : N[i] = 0
  PROVE  LET K2 == [i \in Inodes |-> IF i \in gone THEN "free" ELSE K[i]]
             E2 == {e \in E : e.dir \notin gone}
         IN  Shaped(K2, N, E2) /\ Tree(K2, N, E2, L, M, U)
<1> DEFINE K2 == [i \in Inodes |-> IF i \in gone THEN "free" ELSE K[i]]
           E2 == {e \in E : e.dir \notin gone}
<1>1. /\ K2 \in [Inodes -> {"free", "file", "dir"}]
      /\ \A i \in Inodes : i \notin gone => K2[i] = K[i]
      /\ \A i \in Inodes : i \in gone => K2[i] = "free"
  BY DEF Shaped
<1>2. E2 \subseteq E /\ (\A e \in E : e \in E2 <=> e.dir \notin gone)
  OBVIOUS
<1> HIDE DEF K2, E2
<1>3. Shaped(K2, N, E2)
  BY <1>1, <1>2, FS_Subset DEF Shaped
<1>4. /\ Allocated(K, E) /\ Unique(E) /\ DotsLead(E) /\ OneName(E) /\ Linked(N, E, L) /\ Husks(N, E)
      /\ Dotted(K, N, E, M) /\ Reached(N, E, U) /\ FilesNamed(K, E)
  BY DEF Tree
<1>5. \A e \in E : e.dir \in Inodes /\ e.inode \in Inodes
  BY ShapedIs
<1>6. \A e \in E2 : e.inode \notin gone
  <2> SUFFICES ASSUME NEW e \in E2, e.inode \in gone PROVE FALSE
    OBVIOUS
  <2>1. e.dir = e.inode
    BY <1>2, <1>4, NoLinks
  <2> QED BY <1>2, <2>1
<1>7. Allocated(K2, E2)
  BY <1>1, <1>2, <1>4, <1>5, <1>6 DEF Allocated
<1>8. Unique(E2) /\ DotsLead(E2) /\ OneName(E2) /\ Husks(N, E2)
  BY <1>2, <1>4 DEF Unique, DotsLead, OneName, Husks
<1>9. Linked(N, E2, L)
  <2>1. ASSUME NEW i \in Inodes PROVE Counted(N, E2, i) = Counted(N, E, i)
    BY <1>2 DEF Counted
  <2> QED BY <1>2, <1>4, <2>1 DEF Linked
<1>10. Dotted(K2, N, E2, M)
  <2> SUFFICES ASSUME NEW i \in Inodes
               PROVE  IF i \in M THEN \A e \in E2 : e.dir # i
                      ELSE K2[i] = "dir" /\ N[i] > 0 =>
                             \A n \in {".", ".."} : \E e \in E2 : e.dir = i /\ e.name = n
    BY DEF Dotted
  <2>1. CASE i \in M
    BY <1>2, <1>4, <2>1 DEF Dotted
  <2>2. CASE i \notin M
    <3> SUFFICES ASSUME K2[i] = "dir", N[i] > 0, NEW n \in {".", ".."}
                 PROVE  \E e \in E2 : e.dir = i /\ e.name = n
      BY <2>2
    <3>1. i \notin gone /\ K[i] = "dir"
      BY <1>1
    <3>2. PICK e \in E : e.dir = i /\ e.name = n
      BY <1>4, <2>2, <3>1 DEF Dotted
    <3> QED BY <1>2, <3>1, <3>2
  <2> QED BY <2>1, <2>2
<1>11. Reached(N, E2, U)
  <2> SUFFICES ASSUME NEW e \in E2, e.name = "..", N[e.dir] > 0, e.dir # Root, e.dir \notin U
               PROVE  Listed(E2, e.inode, e.dir)
    BY DEF Reached
  <2>1. PICK f \in E : f.dir = e.inode /\ f.inode = e.dir /\ IsName(f.name)
    BY <1>2, <1>4 DEF Reached, Listed
  <2>2. f \in E2
    BY <1>2, <1>6, <2>1
  <2> QED BY <2>1, <2>2 DEF Listed
<1>12. FilesNamed(K2, E2)
  BY <1>1, <1>2, <1>4, <1>5, <1>6 DEF FilesNamed
<1> QED BY <1>3, <1>7, <1>8, <1>9, <1>10, <1>11, <1>12 DEF Tree, K2, E2

LEMMA KnowsFreed ==
  ASSUME NEW K, NEW N, NEW E, Shaped(K, N, E), NEW c, Knows(K, N, E, c),
         c.pc \in InDirectory => c.dirp \in Inodes, c.pc \in WithInode => c.rip \in Inodes,
         NEW gone \in SUBSET Inodes,
         c.pc \in InDirectory => c.dirp \notin gone, c.pc \in WithInode => c.rip \notin gone
  PROVE  Knows([i \in Inodes |-> IF i \in gone THEN "free" ELSE K[i]], N, {e \in E : e.dir \notin gone}, c)
<1> DEFINE K2 == [i \in Inodes |-> IF i \in gone THEN "free" ELSE K[i]]
           E2 == {e \in E : e.dir \notin gone}
<1>1. /\ c.pc \in InDirectory => K2[c.dirp] = K[c.dirp]
      /\ c.pc \in WithInode => K2[c.rip] = K[c.rip]
  OBVIOUS
<1>2. E2 \subseteq E /\ (\A e \in E : e \in E2 <=> e.dir \notin gone)
  OBVIOUS
<1> HIDE DEF K2, E2
<1>3. c.pc \in InDirectory /\ Entered(E, c) => Entered(E2, c)
  BY <1>2 DEF Entered
<1>4. Empty(E, c.rip) => Empty(E2, c.rip)
  BY <1>2 DEF Empty
<1>5. Knows(K2, N, E2, c)
  BY <1>1, <1>2, <1>3, <1>4 DEF Knows, InDirectory, WithInode
<1> QED BY <1>5 DEF K2, E2

-----------------------------------------------------------------------------
(* Inodes are made and entered. *)

\* Nobody knows of an inode that is free.
LEMMA NotEntered ==
  ASSUME NEW K, NEW N, NEW E, Shaped(K, N, E), Allocated(K, E), NEW i, K[i] # "dir"
  PROVE  (\A e \in E : e.dir # i) /\ (K[i] = "free" => \A e \in E : e.inode # i)
BY DEF Allocated

LEMMA TreeMakes ==
  ASSUME NEW K, NEW N, NEW E, Shaped(K, N, E), Tree(K, N, E, {}, {}, {}), NEW i \in Inodes,
         K[i] = "free", N[i] = 0, NEW k \in {"file", "dir"}, NEW M, M = IF k = "dir" THEN {i} ELSE {}
  PROVE  LET K2 == [K EXCEPT ![i] = k]
             N2 == [N EXCEPT ![i] = 1]
         IN  Shaped(K2, N2, E) /\ Tree(K2, N2, E, {i}, M, {})
<1> DEFINE K2 == [K EXCEPT ![i] = k]
           N2 == [N EXCEPT ![i] = 1]
<1>1. /\ K2 \in [Inodes -> {"free", "file", "dir"}] /\ K2[i] = k /\ \A j \in Inodes : j # i => K2[j] = K[j]
      /\ N2 \in [Inodes -> Links] /\ N2[i] = 1 /\ \A j \in Inodes : j # i => N2[j] = N[j]
  BY Uint16Is DEF Shaped, Links
<1> HIDE DEF K2, N2
<1>2. Shaped(K2, N2, E)
  BY <1>1 DEF Shaped
<1>3. /\ Allocated(K, E) /\ Unique(E) /\ DotsLead(E) /\ OneName(E) /\ Linked(N, E, {}) /\ Husks(N, E)
      /\ Dotted(K, N, E, {}) /\ Reached(N, E, {}) /\ FilesNamed(K, E)
  BY DEF Tree
<1>4. \A e \in E : e.dir # i /\ e.inode # i /\ e.dir \in Inodes /\ e.inode \in Inodes
  BY <1>3, NotEntered, ShapedIs
<1>5. Allocated(K2, E) /\ FilesNamed(K2, E)
  BY <1>1, <1>3, <1>4 DEF Allocated, FilesNamed
<1>6. Husks(N2, E) /\ Reached(N2, E, {})
  BY <1>1, <1>3, <1>4 DEF Husks, Reached
<1>7. Linked(N2, E, {i})
  <2>1. ASSUME NEW j \in Inodes, j # i PROVE N2[j] = Cardinality(Counted(N2, E, j))
    <3>1. Counted(N2, E, j) = Counted(N, E, j)
      BY <1>1, <1>4 DEF Counted
    <3> QED BY <1>1, <1>3, <2>1, <3>1 DEF Linked
  <2> QED BY <1>1, <1>4, <2>1 DEF Linked
<1>8. Dotted(K2, N2, E, M)
  <2> SUFFICES ASSUME NEW j \in Inodes
               PROVE  IF j \in M THEN \A e \in E : e.dir # j
                      ELSE K2[j] = "dir" /\ N2[j] > 0 =>
                             \A n \in {".", ".."} : \E e \in E : e.dir = j /\ e.name = n
    BY DEF Dotted
  <2>1. CASE j = i
    BY <1>1, <1>4, <2>1
  <2>2. CASE j # i
    BY <1>1, <1>3, <2>2 DEF Dotted
  <2> QED BY <2>1, <2>2
<1> QED BY <1>2, <1>3, <1>5, <1>6, <1>7, <1>8 DEF Tree, K2, N2

\* The entries of a directory that has no . and .. yet, and of a file.
LEMMA NoEntries ==
  ASSUME NEW K, NEW N, NEW E, Shaped(K, N, E), NEW i \in Inodes, NEW M, Allocated(K, E), Dotted(K, N, E, M),
         IF i \in M THEN K[i] = "dir" ELSE K[i] = "file"
  PROVE  \A e \in E : e.dir # i
BY DEF Allocated, Dotted

CanLink(K, N, E, i, M, d, n) ==
  /\ Shaped(K, N, E) /\ i \in Inodes /\ M \in {{}, {i}} /\ Tree(K, N, E, {i}, M, {})
  /\ IF i \in M THEN K[i] = "dir" ELSE K[i] = "file"
  /\ d \in Inodes /\ d # i /\ K[d] = "dir" /\ N[d] > 0
  /\ n \in Names /\ IsName(n) /\ (\A e \in E : e.dir = d => e.name # n)
  /\ Unlinkable(n) => K[i] = "file"
LEMMA TreeLinks ==
  ASSUME NEW K, NEW N, NEW E, NEW i, NEW M, NEW d, NEW n, CanLink(K, N, E, i, M, d, n),
         NEW E2, E2 = E \cup {[dir |-> d, name |-> n, inode |-> i]}
  PROVE  Shaped(K, N, E2) /\ Tree(K, N, E2, {}, M, {})
<1> SUFFICES ASSUME Shaped(K, N, E), i \in Inodes, M \in {{}, {i}}, Tree(K, N, E, {i}, M, {}),
                    IF i \in M THEN K[i] = "dir" ELSE K[i] = "file",
                    d \in Inodes, d # i, K[d] = "dir", N[d] > 0,
                    n \in Names, IsName(n), \A e \in E : e.dir = d => e.name # n,
                    Unlinkable(n) => K[i] = "file"
             PROVE  Shaped(K, N, E2) /\ Tree(K, N, E2, {}, M, {})
  BY DEF CanLink
<1> DEFINE x == [dir |-> d, name |-> n, inode |-> i]
<1>1. x \in Entries /\ x.dir = d /\ x.name = n /\ x.inode = i /\ E2 = E \cup {x}
  BY DEF Entries
<1>0. n # "." /\ n # ".." /\ n # ""
  BY DEF IsName
<1> HIDE DEF x
<1>2. Shaped(K, N, E2)
  BY <1>1, FS_AddElement DEF Shaped
<1>3. /\ Allocated(K, E) /\ Unique(E) /\ DotsLead(E) /\ OneName(E) /\ Linked(N, E, {i}) /\ Husks(N, E)
      /\ Dotted(K, N, E, M) /\ Reached(N, E, {}) /\ FilesNamed(K, E)
  BY DEF Tree
<1>4. /\ \A e \in E : e.dir # i /\ e.inode # i
      /\ N[i] = 1
  BY <1>3, NoEntries DEF Linked
<1>5. Allocated(K, E2) /\ FilesNamed(K, E2)
  BY <1>1, <1>3 DEF Allocated, FilesNamed
<1>6. Unique(E2)
  BY <1>1, <1>3 DEF Unique
<1>7. OneName(E2)
  BY <1>1, <1>3, <1>4 DEF OneName
<1>8. DotsLead(E2) /\ Husks(N, E2)
  <2>1. N[d] # 0
    OBVIOUS
  <2>2. DotsLead(E2)
    BY <1>0, <1>1, <1>3 DEF DotsLead
  <2>3. Husks(N, E2)
    BY <1>1, <1>3, <2>1 DEF Husks
  <2> QED BY <2>2, <2>3
<1>9. Reached(N, E2, {})
  BY <1>0, <1>1, <1>3 DEF Reached, Listed
<1>10. Linked(N, E2, {})
  <2>1. ASSUME NEW j \in Inodes, j # i PROVE N[j] = Cardinality(Counted(N, E2, j))
    <3>1. Counted(N, E2, j) = Counted(N, E, j)
      BY <1>1, <2>1 DEF Counted
    <3> QED BY <1>3, <2>1, <3>1 DEF Linked
  <2>2. N[i] = Cardinality(Counted(N, E2, i))
    <3>1. Counted(N, E2, i) = {x}
      BY <1>1, <1>4 DEF Counted
    <3> QED BY <1>4, <3>1, FS_Singleton
  <2> QED BY <2>1, <2>2 DEF Linked
<1>11. Dotted(K, N, E2, M)
  <2> SUFFICES ASSUME NEW j \in Inodes
               PROVE  IF j \in M THEN \A e \in E2 : e.dir # j
                      ELSE K[j] = "dir" /\ N[j] > 0 =>
                             \A m \in {".", ".."} : \E e \in E2 : e.dir = j /\ e.name = m
    BY DEF Dotted
  <2>1. CASE j \in M
    BY <1>1, <1>4, <2>1
  <2>2. CASE j \notin M
    BY <1>3, <2>2 DEF Dotted
  <2> QED BY <2>1, <2>2
<1> QED BY <1>2, <1>3, <1>5, <1>6, <1>7, <1>8, <1>9, <1>10, <1>11 DEF Tree

HasLinkOnly(K, N, E, i, M) ==
  /\ Shaped(K, N, E) /\ i \in Inodes /\ M \in {{}, {i}} /\ Tree(K, N, E, {i}, M, {})
  /\ IF i \in M THEN K[i] = "dir" ELSE K[i] = "file"
LEMMA TreeLinkFails ==
  ASSUME NEW K, NEW N, NEW E, NEW i, NEW M, HasLinkOnly(K, N, E, i, M), NEW N2, N2 = LessOne(N, i)
  PROVE  /\ Shaped(K, N2, E) /\ Tree(K, N2, E, {}, {}, {})
         /\ N2[i] = 0 /\ \A j \in Inodes : j # i => N2[j] = N[j]
<1> USE DEF HasLinkOnly
<1>3. /\ Allocated(K, E) /\ Unique(E) /\ DotsLead(E) /\ OneName(E) /\ Linked(N, E, {i}) /\ Husks(N, E)
      /\ Dotted(K, N, E, M) /\ Reached(N, E, {}) /\ FilesNamed(K, E)
  BY DEF Tree
<1>4. /\ \A e \in E : e.dir # i /\ e.inode # i /\ e.dir \in Inodes /\ e.inode \in Inodes
      /\ N[i] = 1
  BY <1>3, NoEntries, ShapedIs DEF Linked
<1>1. N2 \in [Inodes -> Links] /\ N2[i] = 0 /\ \A j \in Inodes : j # i => N2[j] = N[j]
  BY <1>4, LessOneLinks DEF Shaped
<1>2. Shaped(K, N2, E)
  BY <1>1 DEF Shaped
<1>5. Husks(N2, E) /\ Reached(N2, E, {})
  BY <1>1, <1>3, <1>4 DEF Husks, Reached
<1>6. Linked(N2, E, {})
  <2>1. ASSUME NEW j \in Inodes PROVE Counted(N2, E, j) = Counted(N, E, j)
    BY <1>1, <1>4 DEF Counted
  <2>2. Counted(N2, E, i) = {}
    BY <1>4 DEF Counted
  <2> QED BY <1>1, <1>3, <2>1, <2>2, FS_EmptySet DEF Linked
<1>7. Dotted(K, N2, E, {})
  <2> SUFFICES ASSUME NEW j \in Inodes, K[j] = "dir", N2[j] > 0
               PROVE  \A n \in {".", ".."} : \E e \in E : e.dir = j /\ e.name = n
    BY DEF Dotted
  <2>1. j # i /\ N[j] > 0
    BY <1>1
  <2> QED BY <1>3, <2>1 DEF Dotted
<1>8. Tree(K, N2, E, {}, {}, {})
  BY <1>3, <1>5, <1>6, <1>7 DEF Tree
<1> QED BY <1>1, <1>2, <1>8

-----------------------------------------------------------------------------
(* Directories get their . and .. . *)

\* An inode has one name, one . and at most one .. in each directory, and so has links
\* that 16 bits can count.
LEMMA LinksAreBounded ==
  ASSUME NEW E, E \subseteq Entries, IsFiniteSet(E), Unique(E), OneName(E), DotsLead(E), NEW S,
         NEW i, S \subseteq {e \in E : e.inode = i}
  PROVE  IsFiniteSet(S) /\ Cardinality(S) \in Nat /\ Cardinality(S) < Uint16
<1> DEFINE A == {e \in S : e.name = ".."}
           B == {e \in S : e.name = "."}
           C == {e \in S : IsName(e.name)}
<1>1. /\ S \subseteq E /\ A \subseteq E /\ B \subseteq E /\ C \subseteq E
      /\ \A e \in E : e.dir \in Inodes /\ e.name \in Names
  BY DEF Entries
<1>2. S = A \cup B \cup C
  <2>1. ASSUME NEW e \in S PROVE e \in A \/ e \in B \/ e \in C
    <3>1. e.name # ""
      BY <1>1 DEF DotsLead
    <3> QED BY <3>1 DEF IsName
  <2> QED BY <2>1
<1>3. /\ IsFiniteSet(S) /\ IsFiniteSet(A) /\ IsFiniteSet(B) /\ IsFiniteSet(C)
      /\ Cardinality(S) \in Nat /\ Cardinality(A) \in Nat /\ Cardinality(B) \in Nat /\ Cardinality(C) \in Nat
  BY <1>1, FS_Subset, FS_CardinalityType
<1>4. Cardinality(A) <= Cardinality(Inodes)
  <2> SUFFICES ASSUME Cardinality(Inodes) < Cardinality(A) PROVE FALSE
    BY <1>3, FS_CardinalityType, InodesAssumption DEF InodesAssumption
  <2> DEFINE f == [e \in A |-> e.dir]
  <2>1. f \in [A -> Inodes]
    BY <1>1
  <2>0. \A x \in A : f[x] = x.dir
    OBVIOUS
  <2> HIDE DEF f
  <2>2. PICK x \in A, y \in A : x # y /\ f[x] = f[y]
    BY <1>3, <2>1, FS_PigeonHole, InodesAssumption DEF InodesAssumption
  <2>3. x.dir = y.dir /\ x.name = y.name
    BY <2>0, <2>2
  <2> QED BY <1>1, <2>2, <2>3 DEF Unique
<1>5. Cardinality(B) <= 1
  <2>1. \A x, y \in B : x = y
    BY <1>1 DEF DotsLead, Unique
  <2>2. CASE B = {}
    BY <2>2, FS_EmptySet
  <2>3. CASE B # {}
    <3>1. PICK x : B = {x}
      BY <2>1, <2>3
    <3> QED BY <3>1, FS_Singleton
  <2> QED BY <2>2, <2>3
<1>6. Cardinality(C) <= 1
  <2>1. \A x, y \in C : x = y
    BY <1>1 DEF OneName
  <2>2. CASE C = {}
    BY <2>2, FS_EmptySet
  <2>3. CASE C # {}
    <3>1. PICK x : C = {x}
      BY <2>1, <2>3
    <3> QED BY <3>1, FS_Singleton
  <2> QED BY <2>2, <2>3
<1> HIDE DEF A, B, C
<1>7. /\ IsFiniteSet(A \cup B) /\ Cardinality(A \cup B) <= Cardinality(A) + Cardinality(B)
      /\ Cardinality(A \cup B) \in Nat
  <2>1. /\ IsFiniteSet(A \cup B)
        /\ Cardinality(A \cup B) = Cardinality(A) + Cardinality(B) - Cardinality(A \cap B)
    BY <1>3, FS_Union
  <2>2. Cardinality(A \cap B) \in Nat
    BY <1>3, FS_Subset, FS_CardinalityType
  <2> QED BY <1>3, <2>1, <2>2, FS_CardinalityType
<1>8. Cardinality(S) <= Cardinality(A \cup B) + Cardinality(C)
  <2>1. Cardinality(A \cup B \cup C) = Cardinality(A \cup B) + Cardinality(C) - Cardinality((A \cup B) \cap C)
    BY <1>3, <1>7, FS_Union
  <2>2. Cardinality((A \cup B) \cap C) \in Nat
    BY <1>7, FS_Subset, FS_CardinalityType
  <2> QED BY <1>2, <1>3, <1>7, <2>1, <2>2
<1>9. Cardinality(Inodes) \in Nat /\ Cardinality(Inodes) < Uint16 - 2
  BY FS_CardinalityType, InodesAssumption DEF InodesAssumption
<1> QED BY <1>3, <1>4, <1>5, <1>6, <1>7, <1>8, <1>9, Uint16Is

LEMMA UnlinkableIs ==
  ASSUME UnlinksFiles, NEW n, Unlinkable(n) PROVE IsName(n) /\ n # "d"
BY DEF UnlinksFiles, Unlinkable, IsName, Plain

LEMMA TreeDots ==
  ASSUME UnlinksFiles, NEW K, NEW N, NEW E, Shaped(K, N, E), NEW i \in Inodes, Tree(K, N, E, {}, {i}, {}),
         K[i] = "dir", N[i] > 0, i # Root, NEW d \in Inodes, d # i, K[d] = "dir", N[d] > 0, Listed(E, d, i)
  PROVE  LET E2 == E \cup {[dir |-> i, name |-> ".", inode |-> i], [dir |-> i, name |-> "..", inode |-> d]}
             N2 == OneMore(OneMore(N, i), d)
         IN  Shaped(K, N2, E2) /\ Tree(K, N2, E2, {}, {}, {}) /\ \A j \in Inodes : N2[j] = 0 <=> N[j] = 0
<1> DEFINE x == [dir |-> i, name |-> ".", inode |-> i]
           y == [dir |-> i, name |-> "..", inode |-> d]
           E2 == E \cup {x, y}
           N1 == OneMore(N, i)
           N2 == OneMore(N1, d)
<1>0. \A n : IsName(n) => n # "." /\ n # ".." /\ n # ""
  BY DEF IsName
<1>1. /\ x \in Entries /\ x.dir = i /\ x.name = "." /\ x.inode = i
      /\ y \in Entries /\ y.dir = i /\ y.name = ".." /\ y.inode = d /\ x # y
  BY DEF Entries, Names
<1> HIDE DEF x, y
<1>2. E2 \subseteq Entries /\ IsFiniteSet(E2)
  <2>1. E2 = (E \cup {x}) \cup {y}
    OBVIOUS
  <2> QED BY <1>1, <2>1, FS_AddElement DEF Shaped
<1>3. /\ Allocated(K, E) /\ Unique(E) /\ DotsLead(E) /\ OneName(E) /\ Linked(N, E, {}) /\ Husks(N, E)
      /\ Dotted(K, N, E, {i}) /\ Reached(N, E, {}) /\ FilesNamed(K, E)
  BY DEF Tree
<1>4. (\A e \in E : e.dir # i /\ e.dir \in Inodes /\ e.inode \in Inodes) /\ x \notin E /\ y \notin E
  BY <1>1, <1>3, ShapedIs DEF Dotted
<1>5. Unique(E2)
  BY <1>1, <1>3, <1>4 DEF Unique
<1>6. OneName(E2)
  BY <1>0, <1>1, <1>3 DEF OneName
<1>7. DotsLead(E2)
  BY <1>1, <1>3 DEF DotsLead
<1>8. \A j : IsFiniteSet(Counted(N, E, j)) /\ Cardinality(Counted(N, E, j)) \in Nat
  BY CountedIs DEF Shaped
<1>9. /\ Counted(N, E2, i) = Counted(N, E, i) \cup {x} /\ Counted(N, E2, d) = Counted(N, E, d) \cup {y}
      /\ \A j \in Inodes : j # i /\ j # d => Counted(N, E2, j) = Counted(N, E, j)
  BY <1>1 DEF Counted
<1>10. /\ Cardinality(Counted(N, E2, i)) = Cardinality(Counted(N, E, i)) + 1
       /\ Cardinality(Counted(N, E2, d)) = Cardinality(Counted(N, E, d)) + 1
  <2>1. x \notin Counted(N, E, i) /\ y \notin Counted(N, E, d)
    BY <1>4 DEF Counted
  <2> QED BY <1>8, <1>9, <2>1, CountedMore
<1>11. \A j : Cardinality(Counted(N, E2, j)) < Uint16
  <2>1. \A j : Counted(N, E2, j) \subseteq {e \in E2 : e.inode = j}
    BY DEF Counted
  <2> QED BY <1>2, <1>5, <1>6, <1>7, <2>1, LinksAreBounded
<1>12. N[i] = Cardinality(Counted(N, E, i)) /\ N[d] = Cardinality(Counted(N, E, d))
  BY <1>3 DEF Linked
<1>13. N[i] + 1 < Uint16 /\ N[d] + 1 < Uint16
  BY <1>10, <1>11, <1>12
<1>14. /\ N1 \in [Inodes -> Links] /\ N1[i] = N[i] + 1 /\ \A j \in Inodes : j # i => N1[j] = N[j]
  BY <1>13, OneMoreLinks DEF Shaped
<1> HIDE DEF N1
<1>15. /\ N2 \in [Inodes -> Links] /\ N2[i] = N[i] + 1 /\ N2[d] = N[d] + 1
       /\ \A j \in Inodes : j # i /\ j # d => N2[j] = N[j]
  BY <1>13, <1>14, OneMoreLinks
<1> HIDE DEF N2
<1>16. /\ \A j \in Inodes : N[j] \in Nat /\ N2[j] \in Nat
       /\ \A j \in Inodes : (N2[j] > 0 <=> N[j] > 0) /\ (N2[j] = 0 <=> N[j] = 0)
  <2>1. \A j \in Inodes : N[j] \in Nat /\ N2[j] \in Nat
    BY <1>15, Uint16Is DEF Shaped, Links
  <2> QED BY <1>15, <2>1
<1>17. Shaped(K, N2, E2)
  BY <1>2, <1>15 DEF Shaped
<1>18. Allocated(K, E2)
  BY <1>1, <1>3 DEF Allocated
<1>19. FilesNamed(K, E2)
  BY <1>0, <1>1, <1>3, UnlinkableIs DEF FilesNamed
<1>20. Husks(N2, E2)
  <2>1. N2[i] # 0
    BY <1>16
  <2> QED BY <1>1, <1>3, <1>4, <1>16, <2>1 DEF Husks
<1>21. Linked(N2, E2, {})
  <2>1. ASSUME NEW j \in Inodes PROVE Counted(N2, E2, j) = Counted(N, E2, j)
    <3>1. \A e \in E2 : e.dir \in Inodes
      BY <1>1, <1>4
    <3> QED BY <1>16, <3>1 DEF Counted
  <2> QED BY <1>3, <1>9, <1>10, <1>12, <1>15, <2>1 DEF Linked
<1>22. Dotted(K, N2, E2, {})
  <2> SUFFICES ASSUME NEW j \in Inodes, K[j] = "dir", N2[j] > 0, NEW n \in {".", ".."}
               PROVE  \E e \in E2 : e.dir = j /\ e.name = n
    BY DEF Dotted
  <2>1. CASE j = i
    BY <1>1, <2>1
  <2>2. CASE j # i
    BY <1>3, <1>16, <2>2 DEF Dotted
  <2> QED BY <2>1, <2>2
<1>23. Reached(N2, E2, {})
  <2>1. Listed(E2, d, i) /\ \A a, b : Listed(E, a, b) => Listed(E2, a, b)
    BY DEF Listed
  <2> QED BY <1>1, <1>3, <1>4, <1>16, <2>1 DEF Reached
<1> QED BY <1>5, <1>6, <1>7, <1>16, <1>17, <1>18, <1>19, <1>20, <1>21, <1>22, <1>23 DEF Tree, x, y, N1, N2

CanUndo(K, N, E, i, x, dots) ==
  /\ UnlinksFiles /\ Shaped(K, N, E) /\ i \in Inodes /\ Tree(K, N, E, {}, {i}, {})
  /\ K[i] = "dir" /\ N[i] = 1 /\ i # Root /\ x \in E /\ x.inode = i /\ IsName(x.name) /\ N[x.dir] > 0
  /\ dots \in {{}, {[dir |-> i, name |-> ".", inode |-> i]}}
LEMMA TreeDotsFail ==
  ASSUME NEW K, NEW N, NEW E, NEW i, NEW x, NEW dots, CanUndo(K, N, E, i, x, dots),
         NEW E2, E2 = (E \ {x}) \cup dots, NEW N2, N2 = LessOne(N, i)
  PROVE  /\ Shaped(K, N2, E2) /\ Tree(K, N2, E2, {}, {}, {})
         /\ N2[i] = 0 /\ \A j \in Inodes : j # i => N2[j] = N[j]
<1> USE DEF CanUndo
<1>0. \A n : IsName(n) => n # "." /\ n # ".." /\ n # ""
  BY DEF IsName
<1>1. \A e \in dots : e \in Entries /\ e.dir = i /\ e.name = "." /\ e.inode = i
  BY DEF Entries, Names
<1>2. E2 \subseteq Entries /\ IsFiniteSet(E2)
  <2>1. IsFiniteSet(dots)
    <3>1. CASE dots = {}
      BY <3>1, FS_EmptySet
    <3>2. CASE dots = {[dir |-> i, name |-> ".", inode |-> i]}
      BY <3>2, FS_Singleton
    <3> QED BY <3>1, <3>2
  <2>2. IsFiniteSet(E \ {x})
    BY FS_Subset DEF Shaped
  <2> QED BY <1>1, <2>1, <2>2, FS_Union DEF Shaped
<1>3. /\ Allocated(K, E) /\ Unique(E) /\ DotsLead(E) /\ OneName(E) /\ Linked(N, E, {}) /\ Husks(N, E)
      /\ Dotted(K, N, E, {i}) /\ Reached(N, E, {}) /\ FilesNamed(K, E)
  BY DEF Tree
<1>4. \A e \in E : e.dir # i /\ e.dir \in Inodes /\ e.inode \in Inodes
  BY <1>3, ShapedIs DEF Dotted
<1>5. /\ N2 \in [Inodes -> Links] /\ N2[i] = 0 /\ \A j \in Inodes : j # i => N2[j] = N[j]
  BY LessOneLinks DEF Shaped
<1>6. \A e \in E2 : (e \in E /\ e # x) \/ e \in dots
  OBVIOUS
<1>7. Shaped(K, N2, E2)
  BY <1>2, <1>5 DEF Shaped
<1>8. \A e, f \in dots : e = f
  OBVIOUS
<1>9. Unique(E2)
  BY <1>1, <1>3, <1>4, <1>6, <1>8 DEF Unique
<1>10. OneName(E2)
  BY <1>0, <1>1, <1>3, <1>6 DEF OneName
<1>11. DotsLead(E2)
  BY <1>1, <1>3, <1>6 DEF DotsLead
<1>12. Allocated(K, E2)
  BY <1>1, <1>3, <1>6 DEF Allocated
<1>13. FilesNamed(K, E2)
  BY <1>0, <1>1, <1>3, <1>6, UnlinkableIs DEF FilesNamed
<1>14. Husks(N2, E2)
  BY <1>1, <1>3, <1>4, <1>5, <1>6 DEF Husks
<1>15. Linked(N2, E2, {})
  <2>1. Counted(N, E, i) = {x}
    <3>1. Cardinality(Counted(N, E, i)) = 1
      BY <1>3 DEF Linked
    <3>2. x \in Counted(N, E, i)
      BY DEF Counted
    <3>3. IsFiniteSet(Counted(N, E, i))
      BY CountedIs DEF Shaped
    <3> QED BY <3>1, <3>2, <3>3, OnlyOne
  <2>2. Counted(N2, E2, i) = {}
    <3> SUFFICES ASSUME NEW e \in Counted(N2, E2, i) PROVE FALSE
      OBVIOUS
    <3>1. e \in E2 /\ e.inode = i /\ N2[e.dir] > 0
      BY DEF Counted
    <3>2. e \in E /\ e # x /\ e.dir # i
      BY <1>1, <1>4, <1>5, <1>6, <3>1
    <3>3. e \in Counted(N, E, i)
      BY <1>4, <1>5, <3>1, <3>2 DEF Counted
    <3> QED BY <2>1, <3>2, <3>3
  <2>3. ASSUME NEW j \in Inodes, j # i PROVE Counted(N2, E2, j) = Counted(N, E, j)
    <3>1. \A e \in E : e.inode = j => e # x /\ e \in E2 /\ N2[e.dir] = N[e.dir]
      BY <1>4, <1>5, <2>3
    <3>2. \A e \in E2 : e.inode = j => e \in E
      BY <1>1, <1>6, <2>3
    <3> QED BY <3>1, <3>2 DEF Counted
  <2> QED BY <1>3, <1>5, <2>2, <2>3, FS_EmptySet DEF Linked
<1>16. Dotted(K, N2, E2, {})
  <2> SUFFICES ASSUME NEW j \in Inodes, K[j] = "dir", N2[j] > 0, NEW n \in {".", ".."}
               PROVE  \E e \in E2 : e.dir = j /\ e.name = n
    BY DEF Dotted
  <2>1. j # i /\ N[j] > 0
    BY <1>5
  <2>2. PICK e \in E : e.dir = j /\ e.name = n
    BY <1>3, <2>1 DEF Dotted
  <2>3. e # x
    BY <1>0, <2>2
  <2> QED BY <2>2, <2>3
<1>17. Reached(N2, E2, {})
  <2> SUFFICES ASSUME NEW e \in E2, e.name = "..", N2[e.dir] > 0, e.dir # Root
               PROVE  Listed(E2, e.inode, e.dir)
    BY DEF Reached
  <2>1. e \in E /\ e.dir # i
    BY <1>1, <1>4, <1>6
  <2>2. N[e.dir] > 0
    BY <1>4, <1>5, <2>1
  <2>3. PICK f \in E : f.dir = e.inode /\ f.inode = e.dir /\ IsName(f.name)
    BY <1>3, <2>1, <2>2 DEF Reached, Listed
  <2>4. f # x
    BY <2>1, <2>3
  <2> QED BY <2>3, <2>4 DEF Listed
<1> QED BY <1>5, <1>7, <1>9, <1>10, <1>11, <1>12, <1>13, <1>14, <1>15, <1>16, <1>17 DEF Tree
-----------------------------------------------------------------------------
(* Entries are removed. *)

\* A name is taken from a file, or from a directory that is about to be left.
CanUnlink(K, N, E, x, U) ==
  /\ Shaped(K, N, E) /\ Tree(K, N, E, {}, {}, {}) /\ x \in E /\ IsName(x.name) /\ N[x.dir] > 0
  /\ IF K[x.inode] = "dir" THEN U = {x.inode} /\ N[x.inode] > 0 ELSE U = {}
LEMMA TreeUnlinks ==
  ASSUME NEW K, NEW N, NEW E, NEW x, NEW U, CanUnlink(K, N, E, x, U), NEW i, i = x.inode,
         NEW E2, E2 = E \ {x}, NEW N2, N2 = LessOne(N, i)
  PROVE  /\ Shaped(K, N2, E2) /\ Tree(K, N2, E2, {}, {}, U)
         /\ K[i] = "dir" => N2[i] > 0
         /\ \A j \in Inodes : j # i => N2[j] = N[j]
<1> USE DEF CanUnlink
<1>0. \A n : IsName(n) => n # "." /\ n # ".." /\ n # ""
  BY DEF IsName
<1>3. /\ Allocated(K, E) /\ Unique(E) /\ DotsLead(E) /\ OneName(E) /\ Linked(N, E, {}) /\ Husks(N, E)
      /\ Dotted(K, N, E, {}) /\ Reached(N, E, {}) /\ FilesNamed(K, E)
  BY DEF Tree
<1>4. (\A e \in E : e.dir \in Inodes /\ e.inode \in Inodes) /\ i \in Inodes
      /\ \A j \in Inodes : N[j] \in Nat
  BY ShapedIs
<1>5. N[i] > 0
  BY <1>3, HasLinks
<1>6. /\ N2 \in [Inodes -> Links] /\ N2[i] = N[i] - 1 /\ \A j \in Inodes : j # i => N2[j] = N[j]
  BY <1>4, <1>5, LessOneLinks DEF Shaped
<1>7. Shaped(K, N2, E2)
  BY <1>6, FS_Subset DEF Shaped
<1>8. Unique(E2) /\ OneName(E2) /\ DotsLead(E2) /\ Allocated(K, E2) /\ FilesNamed(K, E2)
  BY <1>3 DEF Unique, OneName, DotsLead, Allocated, FilesNamed
<1>9. K[i] = "dir" => N2[i] > 0
  <2> SUFFICES ASSUME K[i] = "dir" PROVE N[i] > 1
    BY <1>4, <1>6
  <2>1. PICK e \in E : e.dir = i /\ e.name = "."
    BY <1>3, <1>4, <1>5 DEF Dotted
  <2>2. e.inode = i /\ e # x
    BY <1>0, <1>3, <2>1 DEF DotsLead
  <2>3. e \in Counted(N, E, i) \ {x} /\ x \in Counted(N, E, i)
    BY <1>5, <2>1, <2>2 DEF Counted
  <2>4. IsFiniteSet(Counted(N, E, i)) /\ IsFiniteSet(Counted(N, E, i) \ {x})
    BY CountedIs, FS_Subset DEF Shaped
  <2>5. /\ Cardinality(Counted(N, E, i)) \in Nat
        /\ Cardinality(Counted(N, E, i) \ {x}) = Cardinality(Counted(N, E, i)) - 1
        /\ Cardinality(Counted(N, E, i) \ {x}) \in Nat /\ Cardinality(Counted(N, E, i) \ {x}) # 0
    BY <2>3, <2>4, CountedLess, FS_CardinalityType, FS_EmptySet
  <2>6. N[i] = Cardinality(Counted(N, E, i))
    BY <1>3, <1>4 DEF Linked
  <2> QED BY <2>5, <2>6
<1>10. \A e \in E : (N2[e.dir] > 0 <=> N[e.dir] > 0) /\ (N2[e.dir] = 0 <=> N[e.dir] = 0)
  <2> SUFFICES ASSUME NEW e \in E PROVE (N2[e.dir] > 0 <=> N[e.dir] > 0) /\ (N2[e.dir] = 0 <=> N[e.dir] = 0)
    OBVIOUS
  <2>1. CASE e.dir = i
    <3>1. K[i] = "dir"
      BY <1>3, <2>1 DEF Allocated
    <3>2. N2[i] > 0 /\ N[i] > 0 /\ N2[i] # 0 /\ N[i] # 0
      BY <1>5, <1>9, <3>1
    <3> QED BY <2>1, <3>2
  <2>2. CASE e.dir # i
    BY <1>4, <1>6, <2>2
  <2> QED BY <2>1, <2>2
<1>11. Husks(N2, E2)
  BY <1>3, <1>10 DEF Husks
<1>12. Linked(N2, E2, {})
  <2>1. ASSUME NEW j \in Inodes, j # i PROVE Counted(N2, E2, j) = Counted(N, E, j)
    BY <1>10, <2>1 DEF Counted
  <2>2. Counted(N2, E2, i) = Counted(N, E, i) \ {x} /\ x \in Counted(N, E, i)
    BY <1>10 DEF Counted
  <2>3. Cardinality(Counted(N2, E2, i)) = Cardinality(Counted(N, E, i)) - 1
    BY <2>2, CountedIs, CountedLess DEF Shaped
  <2> QED BY <1>3, <1>6, <2>1, <2>3 DEF Linked
<1>13. Dotted(K, N2, E2, {})
  <2> SUFFICES ASSUME NEW j \in Inodes, K[j] = "dir", N2[j] > 0, NEW n \in {".", ".."}
               PROVE  \E e \in E2 : e.dir = j /\ e.name = n
    BY DEF Dotted
  <2>1. N[j] > 0
    BY <1>5, <1>6
  <2>2. PICK e \in E : e.dir = j /\ e.name = n
    BY <1>3, <2>1 DEF Dotted
  <2>3. e # x
    BY <1>0, <2>2
  <2> QED BY <2>2, <2>3
<1>14. Reached(N2, E2, U)
  <2> SUFFICES ASSUME NEW e \in E2, e.name = "..", N2[e.dir] > 0, e.dir # Root, e.dir \notin U
               PROVE  Listed(E2, e.inode, e.dir)
    BY DEF Reached
  <2>1. PICK f \in E : f.dir = e.inode /\ f.inode = e.dir /\ IsName(f.name)
    BY <1>3, <1>10 DEF Reached, Listed
  <2>2. K[e.dir] = "dir"
    BY <1>3 DEF Allocated
  <2>3. f # x
    BY <2>1, <2>2
  <2> QED BY <2>1, <2>3 DEF Listed
<1> QED BY <1>6, <1>7, <1>8, <1>9, <1>11, <1>12, <1>13, <1>14 DEF Tree

\* A directory that is empty and has no name is left by its . and .. .
CanLeave(K, N, E, i, d, x, y) ==
  /\ Shaped(K, N, E) /\ i \in Inodes /\ Tree(K, N, E, {}, {}, {i})
  /\ N[i] > 0 /\ i # Root /\ Empty(E, i) /\ \A e \in E : e.inode = i => ~IsName(e.name)
  /\ d \in Inodes /\ d # i /\ K[d] = "dir" /\ N[d] > 0
  /\ x \in E /\ x.dir = i /\ x.name = "." /\ y \in E /\ y.dir = i /\ y.name = ".." /\ y.inode = d
LEMMA TreeLeaves ==
  ASSUME NEW K, NEW N, NEW E, NEW i, NEW d, NEW x, NEW y, CanLeave(K, N, E, i, d, x, y),
         NEW E2, E2 = E \ {x, y}, NEW N2, N2 = LessOne(LessOne(N, x.inode), y.inode)
  PROVE  /\ Shaped(K, N2, E2) /\ Tree(K, N2, E2, {}, {}, {})
         /\ N2[i] = 0 /\ \A j \in Inodes : j # i => (N2[j] = 0 <=> N[j] = 0)
<1> DEFINE N1 == LessOne(N, i)
<1> USE DEF CanLeave
<1>0. \A n : IsName(n) => n # "." /\ n # ".." /\ n # ""
  BY DEF IsName
<1>3. /\ Allocated(K, E) /\ Unique(E) /\ DotsLead(E) /\ OneName(E) /\ Linked(N, E, {}) /\ Husks(N, E)
      /\ Dotted(K, N, E, {}) /\ Reached(N, E, {i}) /\ FilesNamed(K, E)
  BY DEF Tree
<1>4. (\A e \in E : e.dir \in Inodes /\ e.inode \in Inodes) /\ \A j \in Inodes : N[j] \in Nat
  BY ShapedIs
<1>1. x.inode = i /\ x # y
  BY <1>3 DEF DotsLead
<1>2. \A e \in E : e.dir = i => e = x \/ e = y
  <2> SUFFICES ASSUME NEW e \in E, e.dir = i PROVE e = x \/ e = y
    OBVIOUS
  <2>1. ~IsName(e.name) /\ e.name # ""
    BY <1>3 DEF Empty, DotsLead
  <2>2. e.name = "." \/ e.name = ".."
    BY <2>1 DEF IsName
  <2> QED BY <1>3, <2>2 DEF Unique
<1>5. Counted(N, E, i) = {x}
  <2>1. x \in Counted(N, E, i)
    BY <1>1 DEF Counted
  <2>2. ASSUME NEW e \in Counted(N, E, i) PROVE e = x
    <3>1. e \in E /\ e.inode = i /\ N[e.dir] > 0 /\ ~IsName(e.name) /\ e.name # ""
      BY <1>3 DEF Counted, DotsLead
    <3>2. e.name = "." \/ e.name = ".."
      BY <3>1 DEF IsName
    <3>3. CASE e.name = "."
      BY <1>3, <3>1, <3>3 DEF DotsLead, Unique
    <3>4. CASE e.name = ".."
      <4>1. e.dir # Root /\ e.dir # i
        BY <1>3, <3>1, <3>4 DEF DotsLead
      <4>2. Listed(E, i, e.dir)
        BY <1>3, <3>1, <3>4, <4>1 DEF Reached
      <4> QED BY <4>2 DEF Listed, Empty
    <3> QED BY <3>2, <3>3, <3>4
  <2> QED BY <2>1, <2>2
<1>6. N[i] = 1
  BY <1>3, <1>5, FS_Singleton DEF Linked
<1>7. /\ N1 \in [Inodes -> Links] /\ N1[i] = 0 /\ \A j \in Inodes : j # i => N1[j] = N[j]
  BY <1>6, LessOneLinks DEF Shaped
<1>18. N2 = LessOne(N1, d)
  BY <1>1
<1> HIDE DEF N1
<1>8. /\ N2 \in [Inodes -> Links] /\ N2[i] = 0 /\ N2[d] = N[d] - 1
      /\ \A j \in Inodes : j # i /\ j # d => N2[j] = N[j]
  BY <1>7, <1>18, LessOneLinks
<1>9. N[d] > 1
  <2>1. PICK e \in E : e.dir = d /\ e.name = "."
    BY <1>3 DEF Dotted
  <2>2. e.inode = d /\ e # y
    BY <1>3, <2>1 DEF DotsLead
  <2>3. e \in Counted(N, E, d) \ {y} /\ y \in Counted(N, E, d)
    BY <2>1, <2>2 DEF Counted
  <2>4. IsFiniteSet(Counted(N, E, d)) /\ IsFiniteSet(Counted(N, E, d) \ {y})
    BY CountedIs, FS_Subset DEF Shaped
  <2>5. /\ Cardinality(Counted(N, E, d)) \in Nat
        /\ Cardinality(Counted(N, E, d) \ {y}) = Cardinality(Counted(N, E, d)) - 1
        /\ Cardinality(Counted(N, E, d) \ {y}) \in Nat /\ Cardinality(Counted(N, E, d) \ {y}) # 0
    BY <2>3, <2>4, CountedLess, FS_CardinalityType, FS_EmptySet
  <2>6. N[d] = Cardinality(Counted(N, E, d))
    BY <1>3 DEF Linked
  <2> QED BY <2>5, <2>6
<1>10. \A j \in Inodes : j # i => (N2[j] > 0 <=> N[j] > 0) /\ (N2[j] = 0 <=> N[j] = 0)
  <2>1. N[d] \in Nat
    BY <1>4
  <2>2. N2[d] > 0 /\ N2[d] # 0 /\ N[d] > 0 /\ N[d] # 0
    BY <1>8, <1>9, <2>1
  <2> QED BY <1>8, <2>2
<1>11. Shaped(K, N2, E2)
  BY <1>8, FS_Subset DEF Shaped
<1>12. Unique(E2) /\ OneName(E2) /\ DotsLead(E2) /\ Allocated(K, E2) /\ FilesNamed(K, E2)
  BY <1>3 DEF Unique, OneName, DotsLead, Allocated, FilesNamed
<1>13. \A e \in E2 : e \in E /\ e.dir # i
  BY <1>2
<1>14. Husks(N2, E2)
  BY <1>3, <1>4, <1>10, <1>13 DEF Husks
<1>15. Linked(N2, E2, {})
  <2>1. ASSUME NEW j \in Inodes PROVE Counted(N2, E2, j) = Counted(N, E, j) \ {x, y}
    <3>1. \A e \in E2 : N2[e.dir] > 0 <=> N[e.dir] > 0
      BY <1>4, <1>10, <1>13
    <3> QED BY <3>1 DEF Counted
  <2>2. Counted(N2, E2, i) = {}
    BY <1>5, <2>1
  <2>3. Counted(N2, E2, d) = Counted(N, E, d) \ {y} /\ y \in Counted(N, E, d)
    <3>1. x \notin Counted(N, E, d) /\ y \in Counted(N, E, d)
      BY <1>1 DEF Counted
    <3>2. d \in Inodes
      OBVIOUS
    <3>3. Counted(N2, E2, d) = Counted(N, E, d) \ {x, y}
      BY <2>1, <3>2
    <3> HIDE DEF CanLeave
    <3> QED BY <3>1, <3>3
  <2>4. Cardinality(Counted(N2, E2, d)) = Cardinality(Counted(N, E, d)) - 1
    BY <2>3, CountedIs, CountedLess DEF Shaped
  <2>5. ASSUME NEW j \in Inodes, j # i, j # d PROVE Counted(N2, E2, j) = Counted(N, E, j)
    <3>1. x \notin Counted(N, E, j) /\ y \notin Counted(N, E, j)
      BY <1>1, <2>5 DEF Counted
    <3>2. Counted(N2, E2, j) = Counted(N, E, j) \ {x, y}
      BY <2>1
    <3> HIDE DEF CanLeave
    <3> QED BY <3>1, <3>2
  <2>6. N2[d] = Cardinality(Counted(N2, E2, d))
    BY <1>3, <1>8, <2>4 DEF Linked
  <2>7. ASSUME NEW j \in Inodes, j # i, j # d PROVE N2[j] = Cardinality(Counted(N2, E2, j))
    BY <1>3, <1>8, <2>5, <2>7 DEF Linked
  <2> QED BY <1>8, <2>2, <2>6, <2>7, FS_EmptySet DEF Linked
<1>16. Dotted(K, N2, E2, {})
  <2> SUFFICES ASSUME NEW j \in Inodes, K[j] = "dir", N2[j] > 0, NEW n \in {".", ".."}
               PROVE  \E e \in E2 : e.dir = j /\ e.name = n
    BY DEF Dotted
  <2>1. j # i /\ N[j] > 0
    BY <1>8, <1>10
  <2>2. PICK e \in E : e.dir = j /\ e.name = n
    BY <1>3, <2>1 DEF Dotted
  <2> QED BY <2>1, <2>2
<1>17. Reached(N2, E2, {})
  <2> SUFFICES ASSUME NEW e \in E2, e.name = "..", N2[e.dir] > 0, e.dir # Root
               PROVE  Listed(E2, e.inode, e.dir)
    BY DEF Reached
  <2>1. e \in E /\ e.dir # i /\ N[e.dir] > 0
    BY <1>4, <1>10, <1>13
  <2>2. PICK f \in E : f.dir = e.inode /\ f.inode = e.dir /\ IsName(f.name)
    BY <1>3, <2>1 DEF Reached, Listed
  <2>3. f # x /\ f # y
    BY <1>0, <2>2
  <2> QED BY <2>2, <2>3 DEF Listed
<1> QED BY <1>8, <1>10, <1>11, <1>12, <1>14, <1>15, <1>16, <1>17 DEF Tree

-----------------------------------------------------------------------------
(* What a step must do to the tree. *)

TreeOn(D, c) == TreeFor(D.kind, D.nlinks, D.entries, c)
ShapedOn(D) == D \in Disks /\ IsFiniteSet(D.entries)

LEMMA ShapedOnIs == ASSUME NEW D, ShapedOn(D) PROVE Shaped(D.kind, D.nlinks, D.entries)
BY DEF ShapedOn, Disks, Shaped

\* The call that changes the tree knows it.
LEMMA WorkerKnows ==
  ASSUME IInv
  PROVE  /\ CInv /\ FreeIs /\ OneChange /\ Roots /\ disk \in Disks /\ ShapedOn(disk)
         /\ \A t \in Threads : Changing(call[t]) => TreeOn(disk, call[t])
         /\ AtRest => TreeOn(disk, NoCall)
<1>1. CInv /\ TreeInv /\ FreeIs /\ OneChange /\ Roots
  BY DEF IInv
<1>2. disk \in Disks /\ \A t \in Threads : call[t] \in Calls
  BY <1>1, Known
<1>3. NoCall \in Calls
  BY NoCallIs
<1>4. ShapedOn(disk)
  BY <1>1, <1>2 DEF ShapedOn, TreeInv
<1>5. \A t \in Threads : Changing(call[t]) => TreeOn(disk, call[t])
  BY <1>1, <1>2 DEF TreeInv, Worker, TreeOn
<1>6. AtRest => TreeOn(disk, NoCall)
  BY <1>1, <1>3 DEF TreeInv, Worker, TreeOn
<1> QED BY <1>1, <1>2, <1>4, <1>5, <1>6

LEMMA RestIs == AtRest <=> \A t \in Threads : ~Changing(call[t])
BY DEF AtRest, Changing, Idle

\* A step of thread t, to the call c, makes D of the disk.
Carries(t, c, D) ==
  /\ Changing(c) => (Changing(call[t]) \/ AtRest) /\ TreeOn(D, c)
  /\ ~Changing(c) /\ Changing(call[t]) => TreeOn(D, NoCall)
  /\ ~Changing(c) /\ ~Changing(call[t]) => D = disk

LEMMA Carried ==
  ASSUME IInv, NEW t \in Threads, NEW c \in Calls, Go(t, c), NEW D, Carries(t, c, D)
  PROVE  OneChange' /\ \A w \in Calls : Worker(w)' => TreeOn(D, w)
<1>1. call'[t] = c /\ \A u \in Threads : u # t => call'[u] = call[u]
  <2>1. call \in [Threads -> Calls]
    BY WorkerKnows DEF CInv, Shapes
  <2> QED BY <2>1 DEF Go
<1>2. ASSUME NEW u \in Threads, u # t, Changing(call[u]) PROVE ~Changing(c) /\ ~Changing(call[t])
  <2>1. ~Changing(call[t])
    BY <1>2, WorkerKnows DEF OneChange
  <2>2. ~AtRest
    BY <1>2, RestIs
  <2> QED BY <2>1, <2>2 DEF Carries
<1>3. OneChange'
  <2> SUFFICES ASSUME NEW u \in Threads, NEW v \in Threads, Changing(call'[u]), Changing(call'[v])
               PROVE  u = v
    BY DEF OneChange
  <2>1. CASE u # t /\ v # t
    BY <1>1, <2>1, WorkerKnows DEF OneChange
  <2>2. CASE u = t /\ v # t
    BY <1>1, <1>2, <2>2
  <2>3. CASE u # t /\ v = t
    BY <1>1, <1>2, <2>3
  <2> QED BY <2>1, <2>2, <2>3
<1>4. ASSUME NEW u \in Threads, Changing(call'[u]) PROVE TreeOn(D, call'[u])
  <2>1. CASE u = t
    BY <1>1, <1>4, <2>1 DEF Carries
  <2>2. CASE u # t
    <3>1. Changing(call[u]) /\ call'[u] = call[u]
      BY <1>1, <1>4, <2>2
    <3>2. D = disk
      BY <1>2, <2>2, <3>1 DEF Carries
    <3> QED BY <3>1, <3>2, WorkerKnows
  <2> QED BY <2>1, <2>2
<1>5. ASSUME AtRest' PROVE TreeOn(D, NoCall)
  <2>1. \A u \in Threads : ~Changing(call'[u])
    BY <1>5 DEF AtRest, Changing, Idle
  <2>2. ~Changing(c)
    BY <1>1, <2>1
  <2>3. CASE Changing(call[t])
    BY <2>2, <2>3 DEF Carries
  <2>4. CASE ~Changing(call[t])
    <3>1. \A u \in Threads : ~Changing(call[u])
      BY <1>1, <2>1, <2>4
    <3>2. D = disk /\ AtRest
      BY <2>2, <2>4, <3>1, RestIs DEF Carries
    <3> QED BY <3>2, WorkerKnows
  <2> QED BY <2>3, <2>4
<1>6. ASSUME NEW w \in Calls, Worker(w)' PROVE TreeOn(D, w)
  <2>1. (w = NoCall /\ AtRest') \/ \E u \in Threads : w = call'[u] /\ Changing(w)
    BY <1>6 DEF Worker
  <2> QED BY <1>4, <1>5, <2>1
<1> QED BY <1>3, <1>6

\* An inode is freed with its last reference, when it has no links.
Follows(gets, puts, D) ==
  \A i \in Inodes :
    /\ D.kind[i] = "free" => disk.kind[i] = "free" /\ D.nlinks[i] = 0 /\ Times(i, gets) = 0
    /\ D.kind[i] # "free" => disk.kind[i] # "free" \/ D.nlinks[i] > 0
    /\ D.nlinks[i] = 0 => disk.nlinks[i] = 0 \/ Times(i, puts) > 0

UsersCount ==
  \A i \in Inodes :
    /\ count[i] \in Nat
    /\ \A t \in Threads : call[t].dirp = i \/ call[t].rip = i => count[i] > 0
LEMMA UsersCounted == CInv => UsersCount
BY Known, Referred DEF UsersCount

\* The inodes of a call are those of its stage.
CallInodes ==
  \A t \in Threads :
    /\ call[t].pc \in InDirectory => call[t].dirp \in Inodes
    /\ call[t].pc \in WithInode => call[t].rip \in Inodes
LEMMA CallInodesAre == CInv => CallInodes
<1> SUFFICES ASSUME CInv, NEW t \in Threads
             PROVE  /\ call[t].pc \in InDirectory => call[t].dirp \in Inodes
                    /\ call[t].pc \in WithInode => call[t].rip \in Inodes
  BY DEF CallInodes
<1>1. CASE call[t].pc = "idle"
  BY <1>1 DEF InDirectory, WithInode
<1>2. CASE call[t].pc # "idle"
  BY <1>2, AtIs
<1> QED BY <1>1, <1>2

\* The inodes of gone, of which the call w has none, are freed.
Frees(K, N, E, gone, K2, E2) ==
  /\ gone \in SUBSET Inodes /\ \A i \in gone : N[i] = 0
  /\ K2 = [i \in Inodes |-> IF i \in gone THEN "free" ELSE K[i]]
  /\ E2 = {e \in E : e.dir \notin gone}
Spared(w, gone) ==
  /\ w.pc \in InDirectory => w.dirp \in Inodes /\ w.dirp \notin gone
  /\ w.pc \in WithInode => w.rip \in Inodes /\ w.rip \notin gone
LEMMA TreeForFreed ==
  ASSUME NEW K, NEW N, NEW E, Shaped(K, N, E), NEW w, TreeFor(K, N, E, w), NEW gone, Spared(w, gone),
         NEW K2, NEW E2, Frees(K, N, E, gone, K2, E2)
  PROVE  TreeFor(K2, N, E2, w)
<1>1. Tree(K, N, E, Linking(w), Making(w), Leaving(w)) /\ Knows(K, N, E, w)
  BY DEF TreeFor
<1>2. /\ gone \in SUBSET Inodes /\ \A i \in gone : N[i] = 0
      /\ K2 = [i \in Inodes |-> IF i \in gone THEN "free" ELSE K[i]]
      /\ E2 = {e \in E : e.dir \notin gone}
  BY DEF Frees
<1>3. Tree(K2, N, E2, Linking(w), Making(w), Leaving(w))
  BY <1>1, <1>2, TreeFreed
<1>4. Knows(K2, N, E2, w)
  BY <1>1, <1>2, KnowsFreed DEF Spared
<1> QED BY <1>3, <1>4 DEF TreeFor

LEMMA TreeStep ==
  ASSUME IInv, CInv', NEW t \in Threads, NEW c \in Calls, Go(t, c), NEW gets, NEW puts, NEW D, ShapedOn(D),
         Short(gets), Short(puts), Settle(gets, puts, D), Carries(t, c, D), Follows(gets, puts, D)
  PROVE  TreeInv' /\ FreeIs' /\ OneChange'
<1>1. /\ OneChange' /\ (\A w \in Calls : Worker(w)' => TreeOn(D, w))
      /\ FreeIs /\ CInv /\ count \in [Inodes -> Int] /\ UsersCount
      /\ D \in Disks /\ IsFiniteSet(D.entries) /\ Shaped(D.kind, D.nlinks, D.entries)
  BY Carried, WorkerKnows, Known, UsersCounted, ShapedOnIs DEF ShapedOn
<1>2. CInv' => UsersCount' /\ CallInodes'
  BY UsersCounted, CallInodesAre, PTL
<1>3. /\ \A i \in Inodes : count'[i] = count[i] + Times(i, gets) - Times(i, puts)
      /\ disk'.nlinks = D.nlinks
  BY <1>1, Settled
<1>4. PICK gone \in SUBSET Inodes :
        /\ gone = {i \in Inodes : Times(i, puts) > 0 /\ count'[i] = 0 /\ D.nlinks[i] = 0}
        /\ disk'.kind = [i \in Inodes |-> IF i \in gone THEN "free" ELSE D.kind[i]]
        /\ disk'.entries = {e \in D.entries : e.dir \notin gone}
  BY <1>1, Settled
<1>5. \A i \in gone : D.nlinks[i] = 0 /\ count'[i] = 0
  BY <1>4
<1>6. ASSUME NEW w \in Calls, Worker(w)'
      PROVE  TreeFor(disk'.kind, disk'.nlinks, disk'.entries, w)
  <2>1. TreeFor(D.kind, D.nlinks, D.entries, w)
    BY <1>1, <1>6 DEF TreeOn
  <2>2. w = NoCall \/ \E u \in Threads : w = call'[u]
    BY <1>6 DEF Worker
  <2>3. Spared(w, gone)
    <3>1. CASE w = NoCall
      BY <3>1 DEF Spared, NoCall, Bare, InDirectory, WithInode
    <3>2. ASSUME NEW u \in Threads, w = call'[u]
          PROVE  Spared(w, gone)
      <4>1. /\ w.pc \in InDirectory => w.dirp \in Inodes
            /\ w.pc \in WithInode => w.rip \in Inodes
        BY <1>2, <3>2 DEF CallInodes
      <4>2. \A i \in Inodes : w.dirp = i \/ w.rip = i => count'[i] > 0
        BY <1>2, <3>2 DEF UsersCount
      <4> QED BY <1>5, <4>1, <4>2 DEF Spared
    <3> QED BY <2>2, <3>1, <3>2
  <2> DEFINE K == D.kind
             N == D.nlinks
             E == D.entries
             K2 == disk'.kind
             E2 == disk'.entries
  <2>4. Shaped(K, N, E) /\ TreeFor(K, N, E, w)
    BY <1>1, <2>1
  <2>5. Frees(K, N, E, gone, K2, E2)
    BY <1>4, <1>5 DEF Frees
  <2>6. disk'.nlinks = N
    BY <1>3
  <2> HIDE DEF K, N, E, K2, E2
  <2>7. TreeFor(K2, N, E2, w)
    BY <2>3, <2>4, <2>5, TreeForFreed, Zenon
  <2> QED BY <2>6, <2>7 DEF K2, E2
<1>7. TreeInv'
  <2>1. disk'.entries \subseteq D.entries
    BY <1>4
  <2>2. IsFiniteSet(disk'.entries)
    BY <1>1, <2>1, FS_Subset
  <2> QED BY <1>6, <2>2 DEF TreeInv
<1>8. FreeIs'
  <2> SUFFICES ASSUME NEW i \in Inodes
               PROVE  disk'.kind[i] = "free" <=> disk'.nlinks[i] = 0 /\ count'[i] = 0
    BY DEF FreeIs
  <2>1. /\ count[i] \in Nat /\ count'[i] \in Nat
        /\ Times(i, gets) \in Nat /\ Times(i, puts) \in Nat
        /\ count'[i] = count[i] + Times(i, gets) - Times(i, puts)
    BY <1>1, <1>2, <1>3, TimesNat DEF UsersCount
  <2>2. /\ disk.kind[i] = "free" <=> disk.nlinks[i] = 0 /\ count[i] = 0
        /\ D.kind[i] = "free" => disk.kind[i] = "free" /\ D.nlinks[i] = 0 /\ Times(i, gets) = 0
        /\ D.kind[i] # "free" => disk.kind[i] # "free" \/ D.nlinks[i] > 0
        /\ D.nlinks[i] = 0 => disk.nlinks[i] = 0 \/ Times(i, puts) > 0
    BY <1>1 DEF FreeIs, Follows
  <2>3. disk'.kind[i] = IF i \in gone THEN "free" ELSE D.kind[i]
    BY <1>4
  <2>4. i \in gone <=> Times(i, puts) > 0 /\ count'[i] = 0 /\ D.nlinks[i] = 0
    BY <1>4
  <2>5. CASE i \in gone
    BY <1>3, <2>3, <2>4, <2>5
  <2>6. CASE i \notin gone /\ D.kind[i] = "free"
    <3>1. count[i] = 0 /\ Times(i, gets) = 0 /\ D.nlinks[i] = 0
      BY <2>2, <2>6
    <3>2. count'[i] = 0
      BY <2>1, <3>1
    <3> QED BY <1>3, <2>3, <2>6, <3>1, <3>2
  <2>7. CASE i \notin gone /\ D.kind[i] # "free"
    <3> SUFFICES ASSUME D.nlinks[i] = 0, count'[i] = 0 PROVE FALSE
      BY <1>3, <2>3, <2>7
    <3>1. disk.kind[i] # "free"
      BY <2>2, <2>7
    <3>2. CASE disk.nlinks[i] = 0
      <4>1. count[i] # 0
        BY <2>2, <3>1, <3>2
      <4>2. Times(i, puts) > 0
        BY <2>1, <4>1
      <4> QED BY <2>4, <2>7, <4>2
    <3>3. CASE Times(i, puts) > 0
      BY <2>4, <2>7, <3>3
    <3> QED BY <2>2, <3>2, <3>3
  <2> QED BY <2>5, <2>6, <2>7
<1> QED BY <1>1, <1>7, <1>8

-----------------------------------------------------------------------------
(* Steps that change nothing of the tree, but for inodes that are freed, and the    *)
(* ends of calls.                                                                   *)

LEMMA SettlesNothing == ASSUME CInv, UNCHANGED <<disk, count>> PROVE Settle(<<>>, <<>>, disk)
<1>1. disk \in Disks /\ count \in [Inodes -> Int]
  BY Known
<1>2. [i \in Inodes |-> count[i] + Times(i, <<>>) - Times(i, <<>>)] = count
  BY <1>1, TimesNone
<1>3. Freed(<<>>, disk.nlinks, count) = {}
  BY TimesNone DEF Freed
<1>4. /\ [i \in Inodes |-> IF i \in {} THEN "free" ELSE disk.kind[i]] = disk.kind
      /\ {e \in disk.entries : e.dir \notin {}} = disk.entries
  BY <1>1 DEF Disks
<1>5. disk = [kind |-> disk.kind, nlinks |-> disk.nlinks, entries |-> disk.entries]
  BY <1>1, DiskIs
<1> QED BY <1>2, <1>3, <1>4, <1>5 DEF Settle

LEMMA FollowsDisk ==
  ASSUME IInv, NEW gets, NEW puts, Short(gets), Short(puts),
         \A i \in Inodes : Times(i, gets) > 0 => disk.kind[i] # "free"
  PROVE  Follows(gets, puts, disk)
<1>1. FreeIs /\ disk \in Disks
  BY WorkerKnows
<1>2. \A i \in Inodes : Times(i, gets) \in Nat
  BY TimesNat
<1> QED BY <1>1, <1>2 DEF Follows, FreeIs

LEMMA TakesNothing == \A i \in Inodes : Times(i, <<>>) > 0 => disk.kind[i] # "free"
BY TimesNone

LEMMA TakesOne ==
  ASSUME NEW i \in Inodes, disk.kind[i] # "free"
  PROVE  \A j \in Inodes : Times(j, <<i>>) > 0 => disk.kind[j] # "free"
BY TimesOne

LEMMA RootsStay ==
  ASSUME CInv, Roots, NEW t \in Threads, NEW c, Go(t, c), UNCHANGED procs,
         c.pc # "idle" /\ c.req.op = "chdir" => procs[c.req.pid].rootdir = Root
  PROVE  Roots'
<1>1. call'[t] = c /\ \A u \in Threads : u # t => call'[u] = call[u]
  BY DEF CInv, Shapes, Go
<1>2. \A u \in Threads : call'[u].pc # "idle" /\ call'[u].req.op = "chdir" => procs'[call'[u].req.pid].rootdir = Root
  BY <1>1 DEF Roots, Is, Idle
<1> QED BY <1>2 DEF Roots, Is, Idle, Alive

Nothing(c) == Linking(c) = {} /\ Making(c) = {} /\ Leaving(c) = {}

LEMMA NothingLeft ==
  ASSUME NEW D, NEW c, Nothing(c)
  PROVE  /\ TreeOn(D, c) => Tree(D.kind, D.nlinks, D.entries, {}, {}, {})
         /\ Tree(D.kind, D.nlinks, D.entries, {}, {}, {}) /\ Knows(D.kind, D.nlinks, D.entries, c) => TreeOn(D, c)
BY DEF Nothing, TreeOn, TreeFor

LEMMA EndKnows ==
  ASSUME NEW c, c.pc \in {"idle", "hung", "got", "exit"}
  PROVE  Nothing(c) /\ \A K, N, E : Knows(K, N, E, c)
BY DEF Nothing, Linking, Making, Leaving, Knows, InDirectory

LEMMA NoCallEnds == NoCall.pc = "idle" /\ ~Changing(NoCall)
BY DEF NoCall, Bare, Changing

\* A call ends, or hangs.
LEMMA EndsAre ==
  ASSUME CInv, NEW t \in Threads, ~Idle(t), Return(t) \/ Fail(t)
  PROVE  \E c \in Calls : Go(t, c) /\ c.pc \in {"idle", "hung"} /\ (c.pc # "idle" => c.req = call[t].req)
<1>1. CASE Return(t)
  <2>1. Go(t, NoCall) /\ NoCall \in Calls /\ NoCall.pc = "idle"
    BY <1>1, NoCallIs, NoCallEnds DEF Return, Go
  <2> QED BY <2>1
<1>2. CASE ~Return(t)
  <2> DEFINE c == Bare("hung", call[t].req)
  <2>1. Go(t, c)
    BY <1>2 DEF Fail
  <2>2. call[t].req \in Requests
    BY CallIs
  <2>3. c.pc = "hung" /\ c.req = call[t].req /\ c \in Calls
    <3>1. c = [pc |-> "hung", req |-> call[t].req, rest |-> <<>>, dirp |-> 0, rip |-> 0]
      BY DEF Bare
    <3>2. <<>> \in Seq(STRING)
      OBVIOUS
    <3> HIDE DEF c
    <3> QED BY <2>2, <3>1, <3>2 DEF Calls, Stages
  <2> QED BY <2>1, <2>3
<1> QED BY <1>1, <1>2

LEMMA CallEnds ==
  ASSUME IInv, CInv', NEW t \in Threads, ~Idle(t), Return(t) \/ Fail(t), UNCHANGED procs,
         NEW puts, Short(puts), NEW D, ShapedOn(D), Settle(<<>>, puts, D), Follows(<<>>, puts, D),
         Changing(call[t]) => Tree(D.kind, D.nlinks, D.entries, {}, {}, {}), ~Changing(call[t]) => D = disk
  PROVE  IInv'
<1>1. CInv /\ Roots
  BY WorkerKnows
<1>2. PICK c \in Calls : Go(t, c) /\ c.pc \in {"idle", "hung"} /\ (c.pc # "idle" => c.req = call[t].req)
  BY <1>1, EndsAre
<1>3. Changing(c) => Changing(call[t])
  BY <1>2 DEF Changing, Idle
<1>4. Carries(t, c, D)
  <2>1. Changing(call[t]) => TreeOn(D, c) /\ TreeOn(D, NoCall)
    BY <1>2, EndKnows, NoCallEnds, NothingLeft
  <2> QED BY <1>3, <2>1 DEF Carries
<1>5. TreeInv' /\ FreeIs' /\ OneChange'
  BY <1>2, <1>4, TreeStep DEF Short
<1>6. c.pc # "idle" /\ c.req.op = "chdir" => procs[c.req.pid].rootdir = Root
  BY <1>1, <1>2 DEF Roots, Is
<1>7. Roots'
  BY <1>1, <1>2, <1>6, RootsStay
<1> QED BY <1>5, <1>7 DEF IInv

LEMMA QuietEnd ==
  ASSUME IInv, CInv', NEW t \in Threads, ~Idle(t), Return(t) \/ Fail(t), UNCHANGED procs,
         NEW puts, Short(puts), Settle(<<>>, puts, disk), Changing(call[t]) => Nothing(call[t])
  PROVE  IInv'
<1>1. ShapedOn(disk) /\ (Changing(call[t]) => TreeOn(disk, call[t]))
  BY WorkerKnows
<1>2. Changing(call[t]) => Tree(disk.kind, disk.nlinks, disk.entries, {}, {}, {})
  BY <1>1, NothingLeft
<1>3. Follows(<<>>, puts, disk)
  BY FollowsDisk, TakesNothing DEF Short
<1> QED BY <1>1, <1>2, <1>3, CallEnds

\* A call goes on.
KnowsOn(D, c) == Knows(D.kind, D.nlinks, D.entries, c)
LEMMA QuietStep ==
  ASSUME IInv, CInv', NEW t \in Threads, ~Idle(t), NEW c \in Calls, Go(t, c), c.req = call[t].req, UNCHANGED procs,
         NEW gets, NEW puts, Short(gets), Short(puts), Settle(gets, puts, disk),
         \A i \in Inodes : Times(i, gets) > 0 => disk.kind[i] # "free",
         Changing(call[t]) => Nothing(call[t]) /\ Nothing(c) /\ KnowsOn(disk, c)
  PROVE  IInv'
<1>1. ShapedOn(disk) /\ (Changing(call[t]) => TreeOn(disk, call[t])) /\ CInv /\ Roots
  BY WorkerKnows
<1>2. Changing(call[t]) => TreeOn(disk, c) /\ TreeOn(disk, NoCall)
  BY <1>1, NothingLeft, EndKnows, NoCallEnds DEF KnowsOn
<1>3. Changing(c) => Changing(call[t])
  BY DEF Changing, Idle
<1>4. Carries(t, c, disk)
  BY <1>2, <1>3 DEF Carries
<1>5. TreeInv' /\ FreeIs' /\ OneChange'
  BY <1>1, <1>4, FollowsDisk, TreeStep
<1>6. c.pc # "idle" /\ c.req.op = "chdir" => procs[c.req.pid].rootdir = Root
  BY <1>1 DEF Roots, Is
<1>7. Roots'
  BY <1>1, <1>6, RootsStay
<1> QED BY <1>5, <1>7 DEF IInv

\* A step that only gives inodes back.
LEMMA QuietProcess ==
  ASSUME IInv, CInv', NEW puts, Short(puts), NEW t \in Threads, UNCHANGED call, Settle(<<>>, puts, disk)
  PROVE  TreeInv' /\ FreeIs' /\ OneChange'
<1>1. ShapedOn(disk) /\ CInv /\ call[t] \in Calls /\ call \in [Threads -> Calls]
  BY WorkerKnows, Known DEF Shapes
<1>2. Go(t, call[t])
  BY <1>1 DEF Go
<1>3. Carries(t, call[t], disk)
  BY WorkerKnows DEF Carries
<1> QED BY <1>1, <1>2, <1>3, FollowsDisk, TakesNothing, TreeStep DEF Short

LEMMA TreePanics == ASSUME IInv, CInv', NEW t \in Threads, Panic PROVE IInv'
<1>1. CInv /\ Roots /\ Settle(<<>>, <<>>, disk) /\ UNCHANGED <<call, procs>>
  BY WorkerKnows, SettlesNothing DEF Panic
<1>2. TreeInv' /\ FreeIs' /\ OneChange'
  BY <1>1, QuietProcess DEF Short
<1>3. Roots'
  BY <1>1 DEF Roots, Is, Idle, Alive
<1> QED BY <1>2, <1>3 DEF IInv

-----------------------------------------------------------------------------
(* On the way to the last directory. *)

LEMMA TreeIs ==
  ASSUME IInv
  PROVE  \E L, M, U : Tree(disk.kind, disk.nlinks, disk.entries, L, M, U)
<1>1. CASE AtRest
  <2>1. TreeOn(disk, NoCall)
    BY <1>1, WorkerKnows
  <2> QED BY <2>1 DEF TreeOn, TreeFor
<1>2. CASE ~AtRest
  <2>1. PICK t \in Threads : Changing(call[t])
    BY <1>2, RestIs
  <2>2. TreeOn(disk, call[t])
    BY <2>1, WorkerKnows
  <2> QED BY <2>2 DEF TreeOn, TreeFor
<1> QED BY <1>1, <1>2

LEMMA HeldIsNotFree ==
  ASSUME IInv, NEW t \in Threads, NEW i \in Inodes, call[t].dirp = i \/ call[t].rip = i
  PROVE  disk.kind[i] # "free"
<1>1. count[i] > 0 /\ FreeIs /\ count[i] \in Nat
  BY WorkerKnows, UsersCounted DEF UsersCount
<1> QED BY <1>1 DEF FreeIs

LEMMA FoundIsNotFree ==
  ASSUME IInv, NEW t \in Threads, call[t].dirp \in Inodes, NEW r, NEW name, NEW i \in Found(r, call[t].dirp, name)
  PROVE  i \in Inodes /\ disk.kind[i] # "free"
<1>1. disk \in Disks
  BY WorkerKnows
<1>2. i \in Inodes
  BY <1>1, FoundIs
<1>3. CASE i = call[t].dirp
  BY <1>2, <1>3, HeldIsNotFree
<1>4. CASE i # call[t].dirp
  <2>1. PICK e \in disk.entries : e.inode = i
    BY <1>4 DEF Found, Named
  <2>2. Allocated(disk.kind, disk.entries)
    BY TreeIs DEF Tree
  <2> QED BY <1>2, <2>1, <2>2 DEF Allocated
<1> QED BY <1>3, <1>4

LEMMA StartKeepsTree ==
  ASSUME IInv, CInv', Orderly, status = "up", NEW t \in Threads, NEW r \in Requests, Start(t, r) PROVE IInv'
<1>1. r.op \in PathCalls /\ MayCall(t, r) /\ UNCHANGED <<lost, procs, filps>>
  BY DEF Start
<1>2. /\ CInv /\ Roots /\ FreeIs /\ ShapedOn(disk) /\ disk \in Disks /\ StaysIn
      /\ (AtRest => TreeOn(disk, NoCall))
  BY WorkerKnows DEF Orderly, StaysIn
<1>3. /\ StartOf(r) \in Inodes /\ r.path \in Seq(STRING) /\ r.path # <<>> /\ r # NoRequest /\ Idle(t)
  BY <1>1, <1>2, StartOfIs, RequestsAre, MayCallIs
<1>4. ~Changing(call[t]) /\ (Changes(r) => AtRest) /\ (r.op = "chdir" => procs[r.pid].rootdir = Root)
  BY <1>1, <1>3 DEF Changing, Idle, MayCall, Orderly
<1>5. ASSUME NEW c \in Calls, Go(t, c), c.req = r, Nothing(c), Changes(r) => KnowsOn(disk, c),
             NEW gets, Short(gets), Settle(gets, <<>>, disk), \A i \in Inodes : Times(i, gets) > 0 => disk.kind[i] # "free"
      PROVE  IInv'
  <2>1. Carries(t, c, disk)
    <3>1. Changing(c) => AtRest /\ TreeOn(disk, c)
      BY <1>2, <1>4, <1>5, NothingLeft, EndKnows, NoCallEnds DEF Changing, KnowsOn
    <3> QED BY <1>4, <3>1 DEF Carries
  <2>2. TreeInv' /\ FreeIs' /\ OneChange'
    BY <1>2, <1>5, <2>1, FollowsDisk, TreeStep DEF Short
  <2>3. Roots'
    BY <1>1, <1>2, <1>4, <1>5, RootsStay
  <2> QED BY <2>2, <2>3 DEF IInv
<1>6. CASE /\ disk.nlinks[StartOf(r)] > 0
           /\ Settle(<<StartOf(r)>>, <<>>, disk)
           /\ Go(t, [pc |-> "walk", req |-> r, rest |-> r.path, dirp |-> StartOf(r), rip |-> 0])
  <2> DEFINE c == [pc |-> "walk", req |-> r, rest |-> r.path, dirp |-> StartOf(r), rip |-> 0]
  <2>1. /\ c \in Calls /\ c.pc = "walk" /\ c.req = r /\ c.dirp = StartOf(r)
    BY <1>3 DEF Calls, Stages
  <2>2. Go(t, c)
    BY <1>6
  <2> HIDE DEF c
  <2>3. Nothing(c)
    BY <2>1 DEF Nothing, Linking, Making, Leaving
  <2>4. KnowsOn(disk, c)
    BY <1>6, <2>1 DEF KnowsOn, Knows, InDirectory
  <2>5. disk.kind[StartOf(r)] # "free"
    BY <1>2, <1>3, <1>6 DEF FreeIs
  <2>6. \A i \in Inodes : Times(i, <<StartOf(r)>>) > 0 => disk.kind[i] # "free"
    BY <1>3, <2>5, TakesOne
  <2> QED BY <1>5, <1>6, <2>1, <2>2, <2>3, <2>4, <2>6 DEF Short
<1>7. CASE Go(t, Bare("hung", r)) /\ UNCHANGED <<disk, count>>
  <2> DEFINE c == Bare("hung", r)
  <2>1. /\ c \in Calls /\ c.pc = "hung" /\ c.req = r
    BY <1>3 DEF Calls, Stages, Bare
  <2>2. Go(t, c)
    BY <1>7
  <2> HIDE DEF c
  <2>3. Nothing(c) /\ KnowsOn(disk, c)
    BY <2>1, EndKnows DEF KnowsOn
  <2> QED BY <1>2, <1>5, <1>7, <2>1, <2>2, <2>3, SettlesNothing, TakesNothing DEF Short
<1> QED BY <1>6, <1>7 DEF Start

\* What a call that changes the tree has at its last directory, or before.
LEMMA WalkingKnows ==
  ASSUME IInv, NEW t \in Threads, call[t].pc = "walk"
  PROVE  /\ ~Idle(t) /\ Nothing(call[t]) /\ call[t].dirp \in Inodes /\ call[t] \in Calls /\ Fits(call[t])
         /\ Changing(call[t]) =>
              /\ Tree(disk.kind, disk.nlinks, disk.entries, {}, {}, {})
              /\ disk.nlinks[call[t].dirp] > 0
<1>1. ~Idle(t) /\ call[t].dirp \in Inodes /\ call[t] \in Calls /\ Fits(call[t])
  BY WorkerKnows, AtIs DEF InDirectory
<1>2. Nothing(call[t])
  BY DEF Nothing, Linking, Making, Leaving
<1>3. Changing(call[t]) => TreeOn(disk, call[t])
  BY WorkerKnows
<1> QED BY <1>1, <1>2, <1>3, NothingLeft DEF TreeOn, TreeFor, Knows, InDirectory

LEMMA WalkKeepsTree ==
  ASSUME IInv, CInv', NEW t \in Threads, Walk(t) PROVE IInv'
<1> DEFINE c == call[t]
           found == Found(c.req, c.dirp, Head(c.rest))
<1>1. c.pc = "walk" /\ Len(c.rest) > 1
  BY DEF Walk, At
<1>2. /\ ~Idle(t) /\ Nothing(c) /\ c.dirp \in Inodes /\ c \in Calls
      /\ Changing(c) => /\ Tree(disk.kind, disk.nlinks, disk.entries, {}, {}, {})
                        /\ disk.nlinks[c.dirp] > 0
      /\ c.rest \in Seq(STRING)
  BY <1>1, WalkingKnows DEF Calls
<1>3. CASE Settle(<<>>, <<c.dirp>>, disk) /\ Fail(t) /\ UNCHANGED <<lost, procs, filps>>
  BY <1>2, <1>3, QuietEnd DEF Short
<1>4. ASSUME NEW i \in found, Settle(<<i>>, <<c.dirp>>, disk),
             Go(t, [c EXCEPT !.dirp = i, !.rest = Tail(@)]), UNCHANGED <<lost, procs, filps>>
      PROVE  IInv'
  <2> DEFINE d == [c EXCEPT !.dirp = i, !.rest = Tail(@)]
  <2>1. i \in Inodes /\ disk.kind[i] # "free"
    BY <1>2, FoundIsNotFree
  <2>2. Tail(c.rest) \in Seq(STRING)
    BY <1>1, <1>2, TailIs
  <2>3. d \in Calls /\ d.pc = "walk" /\ d.req = c.req /\ d.dirp = i
    BY <1>1, <1>2, <2>1, <2>2 DEF Calls
  <2>4. Go(t, d)
    BY <1>4
  <2> HIDE DEF d
  <2>5. Nothing(d)
    BY <2>3 DEF Nothing, Linking, Making, Leaving
  <2>6. Changing(c) => disk.nlinks[i] > 0
    <3> SUFFICES ASSUME Changing(c), i # c.dirp PROVE disk.nlinks[i] > 0
      BY <1>2
    <3>1. PICK e \in disk.entries : e.dir = c.dirp /\ e.inode = i
      BY DEF Found, Named
    <3>2. Shaped(disk.kind, disk.nlinks, disk.entries) /\ Linked(disk.nlinks, disk.entries, {})
      BY <1>2, WorkerKnows, ShapedOnIs DEF Tree
    <3> QED BY <1>2, <3>1, <3>2, HasLinks
  <2>7. Changing(c) => Nothing(c) /\ Nothing(d) /\ KnowsOn(disk, d)
    BY <1>2, <2>3, <2>5, <2>6 DEF KnowsOn, Knows, InDirectory
  <2>8. \A j \in Inodes : Times(j, <<i>>) > 0 => disk.kind[j] # "free"
    BY <2>1, TakesOne
  <2> QED BY <1>2, <1>4, <2>3, <2>4, <2>7, <2>8, QuietStep DEF Short
<1> QED BY <1>3, <1>4, TreePanics DEF Walk

LEMMA NotADirectoryKeepsTree ==
  ASSUME IInv, CInv', NEW t \in Threads, NotADirectory(t) PROVE IInv'
<1>1. /\ call[t].pc = "walk" /\ Settle(<<>>, <<call[t].dirp>>, disk) /\ Fail(t) /\ UNCHANGED procs
  BY DEF NotADirectory, At
<1> QED BY <1>1, WalkingKnows, QuietEnd DEF Short

LEMMA LastIs ==
  ASSUME IInv, NEW t \in Threads, AtLast(t)
  PROVE  /\ call[t].pc = "walk" /\ disk.kind[call[t].dirp] = "dir" /\ LastName(t) = LastOf(call[t].req)
         /\ Len(call[t].rest) = 1
<1>1. call[t].pc = "walk" /\ disk.kind[call[t].dirp] = "dir" /\ Len(call[t].rest) = 1
  BY DEF AtLast, At
<1>2. Fits(call[t])
  BY <1>1, WalkingKnows
<1> QED BY <1>1, <1>2 DEF Fits, InDirectory, LastName

LEMMA EatPathKeepsTree ==
  ASSUME IInv, CInv', NEW t \in Threads, EatPath(t) PROVE IInv'
<1> DEFINE c == call[t]
<1>1. AtLast(t) /\ ~IsCreat(t) /\ ~Is(t, "unlink") /\ ~Is(t, "rmdir")
  BY DEF EatPath
<1>2. c.pc = "walk" /\ ~Idle(t) /\ c.dirp \in Inodes /\ c \in Calls /\ CInv
  BY <1>1, LastIs, WalkingKnows, WorkerKnows
<1>3. ~Changing(c)
  BY <1>1, <1>2 DEF Changing, Changes, Updates, IsCreat, Is
<1>4. ASSUME NEW i \in Inodes
      PROVE  LET d == [c EXCEPT !.pc = "got", !.rip = i, !.dirp = 0] IN d \in Calls /\ d.req = c.req
  BY <1>2 DEF Calls, Stages
<1>5. ASSUME NEW i \in Inodes, Go(t, [c EXCEPT !.pc = "got", !.rip = i, !.dirp = 0]), UNCHANGED procs,
             NEW gets, NEW puts, Short(gets), Short(puts), Settle(gets, puts, disk),
             \A j \in Inodes : Times(j, gets) > 0 => disk.kind[j] # "free"
      PROVE  IInv'
  <2> DEFINE d == [c EXCEPT !.pc = "got", !.rip = i, !.dirp = 0]
  <2>1. d \in Calls /\ d.req = c.req
    BY <1>4
  <2>2. Go(t, d)
    BY <1>5
  <2> HIDE DEF d
  <2> QED BY <1>2, <1>3, <1>5, <2>1, <2>2, QuietStep
<1>6. CASE LastStumbles(t)
  BY <1>6, TreePanics DEF EatPath
<1>7. CASE ~LastStumbles(t)
  <2>1. UNCHANGED procs
    BY <1>7 DEF EatPath, Tables
  <2>2. CASE Go(t, [c EXCEPT !.pc = "got", !.rip = c.dirp, !.dirp = 0]) /\ UNCHANGED <<disk, count, mutex>>
    BY <1>2, <1>5, <2>1, <2>2, SettlesNothing, TakesNothing DEF Short
  <2>3. CASE Settle(<<>>, Parent(t), disk) /\ Return(t)
    BY <1>2, <1>3, <2>1, <2>3, QuietEnd DEF Short, Parent
  <2>4. ASSUME NEW i \in LastFound(t), Settle(<<i>>, Parent(t), disk),
               Go(t, [c EXCEPT !.pc = "got", !.rip = i, !.dirp = 0])
        PROVE  IInv'
    <3>1. i \in Inodes /\ disk.kind[i] # "free"
      BY <1>2, <2>4, FoundIsNotFree DEF LastFound
    <3>2. \A j \in Inodes : Times(j, <<i>>) > 0 => disk.kind[j] # "free"
      BY <3>1, TakesOne
    <3> QED BY <1>5, <2>1, <2>4, <3>1, <3>2 DEF Short, Parent
  <2> QED BY <1>7, <2>2, <2>3, <2>4 DEF EatPath
<1> QED BY <1>6, <1>7

-----------------------------------------------------------------------------
(* At the last directory. *)

LEMMA LookFirstKeepsTree ==
  ASSUME IInv, CInv', NEW t \in Threads, LookFirst(t) PROVE IInv'
<1> DEFINE c == call[t]
           K == disk.kind
           N == disk.nlinks
           E == disk.entries
           n == LastOf(c.req)
<1>1. AtLast(t) /\ IsCreat(t)
  BY DEF LookFirst
<1>2. /\ c.pc = "walk" /\ ~Idle(t) /\ Nothing(c) /\ c.dirp \in Inodes /\ c \in Calls /\ CInv
      /\ K[c.dirp] = "dir" /\ LastName(t) = n
      /\ Changing(c) => Tree(K, N, E, {}, {}, {}) /\ N[c.dirp] > 0
  BY <1>1, LastIs, WalkingKnows, WorkerKnows
<1>3. CASE LastStumbles(t)
  BY <1>3, TreePanics DEF LookFirst
<1>4. CASE Existing(t) = {} /\ Go(t, [c EXCEPT !.pc = "make"]) /\ UNCHANGED <<disk, count>> /\ UNCHANGED procs
  <2> DEFINE d == [c EXCEPT !.pc = "make"]
  <2>1. d \in Calls /\ d.pc = "make" /\ d.req = c.req /\ d.dirp = c.dirp
    BY <1>2 DEF Calls, Stages
  <2>2. Go(t, d)
    BY <1>4
  <2> HIDE DEF d
  <2>3. ~StaysAt(c.req, c.dirp, n) /\ \A e \in E : e.dir = c.dirp => e.name # n
    BY <1>2, <1>4 DEF Existing, LastFound, Found, Named
  <2>4. Changing(c) => IsName(n)
    <3> SUFFICES ASSUME Changing(c), n \in {".", ".."} PROVE FALSE
      BY <2>3 DEF IsName, StaysAt
    <3>1. Dotted(K, N, E, {})
      BY <1>2 DEF Tree
    <3>2. \E e \in E : e.dir = c.dirp /\ e.name = n
      BY <1>2, <3>1 DEF Dotted
    <3> QED BY <2>3, <3>2
  <2>5. Changing(c) => Nothing(d) /\ KnowsOn(disk, d)
    BY <1>2, <2>1, <2>3, <2>4 DEF Nothing, Linking, Making, Leaving, KnowsOn, Knows, InDirectory
  <2>6. Settle(<<>>, <<>>, disk)
    BY <1>2, <1>4, SettlesNothing
  <2> HIDE DEF c, K, N, E
  <2> QED BY <1>2, <1>4, <2>1, <2>2, <2>5, <2>6, TakesNothing, QuietStep DEF Short, c
<1>5. ASSUME NEW i \in Existing(t), Settle(<<i>>, <<>>, disk), Go(t, [c EXCEPT !.pc = "exists", !.rip = i]),
             UNCHANGED procs
      PROVE  IInv'
  <2> DEFINE d == [c EXCEPT !.pc = "exists", !.rip = i]
  <2>1. i \in Inodes /\ K[i] # "free"
    BY <1>2, <1>5, FoundIsNotFree DEF Existing, LastFound
  <2>2. d \in Calls /\ d.pc = "exists" /\ d.req = c.req /\ d.dirp = c.dirp
    BY <1>2, <2>1 DEF Calls, Stages
  <2>3. Go(t, d)
    BY <1>5
  <2> HIDE DEF d
  <2>4. Changing(c) => Nothing(d) /\ KnowsOn(disk, d)
    BY <1>2, <2>2 DEF Nothing, Linking, Making, Leaving, KnowsOn, Knows, InDirectory
  <2>5. \A j \in Inodes : Times(j, <<i>>) > 0 => disk.kind[j] # "free"
    BY <2>1, TakesOne
  <2> QED BY <1>2, <1>5, <2>2, <2>3, <2>4, <2>5, QuietStep DEF Short
<1> QED BY <1>3, <1>4, <1>5 DEF LookFirst, Tables

\* What a call with both inodes has.
LEMMA ChangerKnows ==
  ASSUME IInv, NEW t \in Threads, call[t].pc \in InDirectory \cap WithInode
  PROVE  /\ ~Idle(t) /\ call[t] \in Calls /\ Fits(call[t]) /\ call[t].req \in Requests
         /\ call[t].dirp \in Inodes /\ call[t].rip \in Inodes /\ LastName(t) = LastOf(call[t].req)
         /\ LastName(t) \in Names /\ CInv
         /\ disk.kind[call[t].dirp] # "free" /\ disk.kind[call[t].rip] # "free"
         /\ Changing(call[t]) =>
              /\ Tree(disk.kind, disk.nlinks, disk.entries, Linking(call[t]), Making(call[t]), Leaving(call[t]))
              /\ Knows(disk.kind, disk.nlinks, disk.entries, call[t])
              /\ disk.kind[call[t].dirp] = "dir" /\ disk.nlinks[call[t].dirp] > 0
         /\ Changing(call[t]) <=> Changes(call[t].req)
<1>1. CInv /\ (Changing(call[t]) => TreeOn(disk, call[t]))
  BY WorkerKnows
<1>2. /\ ~Idle(t) /\ call[t] \in Calls /\ Fits(call[t]) /\ call[t].dirp \in Inodes /\ call[t].rip \in Inodes
      /\ Len(call[t].rest) = 1 /\ LastName(t) \in Names
  BY <1>1, BothAre
<1>3. LastName(t) = LastOf(call[t].req)
  BY <1>2 DEF Fits, LastName, InDirectory
<1>4. disk.kind[call[t].dirp] # "free" /\ disk.kind[call[t].rip] # "free"
  BY <1>2, HeldIsNotFree
<1>5. Changing(call[t]) <=> Changes(call[t].req)
  BY <1>2 DEF Changing, Idle
<1>6. call[t].req \in Requests
  BY <1>1, <1>2, CallIs
<1>7. call[t].pc # "walk"
  BY DEF WithInode
<1>8. Knows(disk.kind, disk.nlinks, disk.entries, call[t]) =>
        disk.kind[call[t].dirp] = "dir" /\ disk.nlinks[call[t].dirp] > 0
  BY <1>7 DEF Knows
<1> QED BY <1>1, <1>2, <1>3, <1>4, <1>5, <1>6, <1>8 DEF TreeOn, TreeFor

LEMMA MkdirExistsKeepsTree ==
  ASSUME IInv, CInv', NEW t \in Threads, MkdirExists(t) PROVE IInv'
<1>1. /\ call[t].pc = "exists" /\ Settle(<<>>, <<call[t].rip, call[t].dirp>>, disk) /\ Return(t) /\ UNCHANGED procs
  BY DEF MkdirExists, At, Tables
<1>2. ~Idle(t) /\ Nothing(call[t])
  BY <1>1 DEF Idle, Nothing, Linking, Making, Leaving
<1> QED BY <1>1, <1>2, QuietEnd DEF Short

LEMMA UnlinkPrepKeepsTree ==
  ASSUME IInv, CInv', NEW t \in Threads, UnlinkPrep(t) PROVE IInv'
<1> DEFINE c == call[t]
           n == LastOf(c.req)
<1>1. AtLast(t) /\ (Is(t, "unlink") \/ Is(t, "rmdir"))
  BY DEF UnlinkPrep
<1>2. /\ c.pc = "walk" /\ ~Idle(t) /\ Nothing(c) /\ c.dirp \in Inodes /\ c \in Calls /\ CInv
      /\ disk.kind[c.dirp] = "dir" /\ LastName(t) = n
      /\ Changing(c) => disk.nlinks[c.dirp] > 0
  BY <1>1, LastIs, WalkingKnows, WorkerKnows
<1>3. CASE LastStumbles(t)
  BY <1>3, TreePanics DEF UnlinkPrep
<1>4. CASE Return(t) /\ UNCHANGED <<disk, count, procs>>
  <2>1. Settle(<<>>, <<>>, disk)
    BY <1>2, <1>4, SettlesNothing
  <2> QED BY <1>2, <1>4, <2>1, QuietEnd DEF Short
<1>5. CASE Settle(<<>>, <<c.dirp>>, disk) /\ Return(t) /\ UNCHANGED procs
  BY <1>2, <1>5, QuietEnd DEF Short
<1>6. ASSUME NEW i \in LastFound(t), i # Root, Settle(<<i>>, <<>>, disk),
             Go(t, [c EXCEPT !.pc = "prepared", !.rip = i]), UNCHANGED procs
      PROVE  IInv'
  <2> DEFINE d == [c EXCEPT !.pc = "prepared", !.rip = i]
  <2>1. i \in Inodes /\ disk.kind[i] # "free"
    BY <1>2, <1>6, FoundIsNotFree DEF LastFound
  <2>2. d \in Calls /\ d.pc = "prepared" /\ d.req = c.req /\ d.dirp = c.dirp /\ d.rip = i
    BY <1>2, <2>1 DEF Calls, Stages
  <2>3. Go(t, d)
    BY <1>6
  <2> HIDE DEF d
  <2>4. Entered(disk.entries, d) \/ (d.rip = d.dirp /\ ~IsName(n))
    <3>1. CASE StaysAt(c.req, c.dirp, n)
      BY <1>2, <1>6, <2>2, <3>1 DEF LastFound, Found, StaysAt, IsName
    <3>2. CASE ~StaysAt(c.req, c.dirp, n)
      <4>1. PICK e \in disk.entries : e.dir = c.dirp /\ e.name = n /\ e.inode = i
        BY <1>2, <1>6, <3>2 DEF LastFound, Found, Named
      <4> QED BY <2>2, <4>1 DEF Entered
    <3> QED BY <3>1, <3>2
  <2>5. Changing(c) => Nothing(d) /\ KnowsOn(disk, d)
    BY <1>2, <1>6, <2>2, <2>4 DEF Nothing, Linking, Making, Leaving, KnowsOn, Knows, InDirectory
  <2>6. \A j \in Inodes : Times(j, <<i>>) > 0 => disk.kind[j] # "free"
    BY <2>1, TakesOne
  <2> QED BY <1>2, <1>6, <2>2, <2>3, <2>5, <2>6, QuietStep DEF Short
<1>7. CASE ~LastStumbles(t) /\ \E i \in LastFound(t) :
             IF i = Root THEN Settle(<<>>, <<c.dirp>>, disk) /\ Return(t)
             ELSE Settle(<<i>>, <<>>, disk) /\ Go(t, [c EXCEPT !.pc = "prepared", !.rip = i])
  <2>1. UNCHANGED procs
    BY <1>7 DEF UnlinkPrep, Tables
  <2> QED BY <1>5, <1>6, <1>7, <2>1
<1> QED BY <1>3, <1>4, <1>7 DEF UnlinkPrep, Tables

LEMMA GiveUpKeepsTree ==
  ASSUME IInv, CInv', NEW t \in Threads, ~Idle(t), Nothing(call[t]), GiveUp(t) PROVE IInv'
<1>1. Return(t) /\ UNCHANGED <<disk, count, procs>> /\ CInv
  BY WorkerKnows DEF GiveUp, Tables
<1>2. Settle(<<>>, <<>>, disk)
  BY <1>1, SettlesNothing
<1> QED BY <1>1, <1>2, QuietEnd DEF Short

LEMMA RmdirChecksKeepTree ==
  ASSUME IInv, CInv', NEW t \in Threads, RmdirIsEmpty(t) \/ RmdirIsUsed(t) PROVE IInv'
<1> DEFINE c == call[t]
<1>1. c.pc \in {"prepared", "empty"}
  BY DEF RmdirIsEmpty, RmdirIsUsed, At
<1>2. c.pc \in InDirectory \cap WithInode /\ Nothing(c)
  BY <1>1 DEF InDirectory, WithInode, Nothing, Linking, Making, Leaving
<1>3. /\ ~Idle(t) /\ c \in Calls /\ c.dirp \in Inodes /\ c.rip \in Inodes /\ CInv
      /\ Changing(c) => KnowsOn(disk, c)
  BY <1>2, ChangerKnows DEF KnowsOn
<1>4. ASSUME NEW pc \in {"empty", "unused"}, Go(t, [c EXCEPT !.pc = pc]), UNCHANGED <<disk, count, procs>>,
             KnowsOn(disk, c) => KnowsOn(disk, [c EXCEPT !.pc = pc])
      PROVE  IInv'
  <2> DEFINE d == [c EXCEPT !.pc = pc]
  <2>1. d \in Calls /\ d.pc = pc /\ d.req = c.req
    BY <1>3 DEF Calls, Stages
  <2>2. Go(t, d) /\ (KnowsOn(disk, c) => KnowsOn(disk, d))
    BY <1>4
  <2> HIDE DEF d
  <2>3. Changing(c) => Nothing(c) /\ Nothing(d) /\ KnowsOn(disk, d)
    BY <1>2, <1>3, <2>1, <2>2 DEF Nothing, Linking, Making, Leaving
  <2>4. Settle(<<>>, <<>>, disk)
    BY <1>3, <1>4, SettlesNothing
  <2> QED BY <1>3, <1>4, <2>1, <2>2, <2>3, <2>4, TakesNothing, QuietStep DEF Short
<1>5. CASE RmdirIsEmpty(t)
  <2>1. CASE Panic \/ GiveUp(t)
    BY <1>2, <1>3, <2>1, TreePanics, GiveUpKeepsTree
  <2>2. CASE /\ disk.kind[c.rip] = "dir" /\ IsEmpty(c.rip)
             /\ Go(t, [c EXCEPT !.pc = "empty"]) /\ UNCHANGED <<disk, count, procs>>
    <3> DEFINE d == [c EXCEPT !.pc = "empty"]
    <3>1. d.pc = "empty" /\ d.req = c.req /\ d.dirp = c.dirp /\ d.rip = c.rip
      BY <1>3 DEF Calls
    <3> HIDE DEF d
    <3>2. Empty(disk.entries, c.rip)
      BY <2>2 DEF IsEmpty, Empty, IsName
    <3>3. c.pc = "prepared"
      BY <1>5 DEF RmdirIsEmpty, At
    <3>4. KnowsOn(disk, c) => KnowsOn(disk, d)
      BY <2>2, <3>1, <3>2, <3>3 DEF KnowsOn, Knows, InDirectory, Entered
    <3> QED BY <1>4, <2>2, <3>4 DEF d
  <2> QED BY <1>5, <2>1, <2>2 DEF RmdirIsEmpty, Tables
<1>6. CASE RmdirIsUsed(t)
  <2>1. CASE GiveUp(t)
    BY <1>2, <1>3, <2>1, GiveUpKeepsTree
  <2>2. CASE /\ ~(count[c.rip] > 1)
             /\ Go(t, [c EXCEPT !.pc = "unused"]) /\ UNCHANGED <<disk, count, procs>>
    <3> DEFINE d == [c EXCEPT !.pc = "unused"]
    <3>1. d.pc = "unused" /\ d.req = c.req /\ d.dirp = c.dirp /\ d.rip = c.rip
      BY <1>3 DEF Calls
    <3> HIDE DEF d
    <3>2. c.rip # c.dirp
      BY <1>3, <2>2, Known, Referred
    <3>3. c.pc = "empty"
      BY <1>6 DEF RmdirIsUsed, At
    <3>4. KnowsOn(disk, c) => KnowsOn(disk, d)
      BY <3>1, <3>2, <3>3 DEF KnowsOn, Knows, InDirectory, Entered
    <3> QED BY <1>4, <2>2, <3>4 DEF d
  <2> QED BY <1>6, <2>1, <2>2 DEF RmdirIsUsed, Tables
<1> QED BY <1>5, <1>6

-----------------------------------------------------------------------------
(* Steps that change the tree. *)

DiskOf(K, N, E) == [kind |-> K, nlinks |-> N, entries |-> E]

LEMMA RecordIs ==
  ASSUME NEW S, NEW T, NEW U, NEW X \in [kind : S, nlinks : T, entries : U]
  PROVE  X = [kind |-> X.kind, nlinks |-> X.nlinks, entries |-> X.entries]
OBVIOUS

LEMMA DiskOfOnly ==
  ASSUME NEW K, NEW N, NEW E, NEW X \in [kind : {K}, nlinks : {N}, entries : {E}]
  PROVE  X = DiskOf(K, N, E)
<1>1. X.kind = K /\ X.nlinks = N /\ X.entries = E
  OBVIOUS
<1>2. X = [kind |-> X.kind, nlinks |-> X.nlinks, entries |-> X.entries]
  BY RecordIs
<1> QED BY <1>1, <1>2 DEF DiskOf

LEMMA DisksWith ==
  ASSUME disk \in Disks
  PROVE  /\ \A K, N : [disk EXCEPT !.kind = K, !.nlinks = N] = DiskOf(K, N, disk.entries)
         /\ \A E : [disk EXCEPT !.entries = E] = DiskOf(disk.kind, disk.nlinks, E)
         /\ \A N : [disk EXCEPT !.nlinks = N] = DiskOf(disk.kind, N, disk.entries)
         /\ \A E, N : [disk EXCEPT !.entries = E, !.nlinks = N] = DiskOf(disk.kind, N, E)
<1> DEFINE K0 == disk.kind
           N0 == disk.nlinks
           E0 == disk.entries
<1>1. disk = [kind |-> K0, nlinks |-> N0, entries |-> E0]
  BY DiskIs
<1> HIDE DEF K0, N0, E0
<1>2. disk \in [kind : {K0}, nlinks : {N0}, entries : {E0}]
  BY <1>1
<1>3. ASSUME NEW K, NEW N PROVE [disk EXCEPT !.kind = K, !.nlinks = N] = DiskOf(K, N, E0)
  <2>1. [disk EXCEPT !.kind = K, !.nlinks = N] \in [kind : {K}, nlinks : {N}, entries : {E0}]
    BY <1>2
  <2> QED BY <2>1, DiskOfOnly
<1>4. \A E : [disk EXCEPT !.entries = E] = DiskOf(K0, N0, E)
  BY <1>1 DEF DiskOf
<1>5. \A N : [disk EXCEPT !.nlinks = N] = DiskOf(K0, N, E0)
  BY <1>1 DEF DiskOf
<1>6. ASSUME NEW E, NEW N PROVE [disk EXCEPT !.entries = E, !.nlinks = N] = DiskOf(K0, N, E)
  <2>1. [disk EXCEPT !.entries = E, !.nlinks = N] \in [kind : {K0}, nlinks : {N}, entries : {E}]
    BY <1>2
  <2> QED BY <2>1, DiskOfOnly
<1> QED BY <1>3, <1>4, <1>5, <1>6 DEF K0, N0, E0

LEMMA DiskOfIs ==
  ASSUME NEW K, NEW N, NEW E, Shaped(K, N, E)
  PROVE  /\ ShapedOn(DiskOf(K, N, E))
         /\ DiskOf(K, N, E).kind = K /\ DiskOf(K, N, E).nlinks = N /\ DiskOf(K, N, E).entries = E
BY DEF ShapedOn, DiskOf, Shaped, Disks

LEMMA ChangeGoes ==
  ASSUME IInv, CInv', NEW t \in Threads, Changing(call[t]), NEW c \in Calls, Go(t, c), c.req = call[t].req,
         UNCHANGED procs, NEW gets, Short(gets), NEW K, NEW N, NEW E, Shaped(K, N, E),
         Settle(gets, <<>>, DiskOf(K, N, E)), Follows(gets, <<>>, DiskOf(K, N, E)), TreeFor(K, N, E, c), c.pc # "idle"
  PROVE  IInv'
<1>1. CInv /\ Roots
  BY WorkerKnows
<1> DEFINE D == DiskOf(K, N, E)
<1>2. ShapedOn(D) /\ TreeOn(D, c)
  BY DiskOfIs DEF TreeOn
<1>3. Settle(gets, <<>>, D) /\ Follows(gets, <<>>, D)
  OBVIOUS
<1> HIDE DEF D
<1>4. Carries(t, c, D)
  BY <1>2 DEF Carries, Changing
<1>5. TreeInv' /\ FreeIs' /\ OneChange'
  BY <1>2, <1>3, <1>4, TreeStep DEF Short
<1>6. c.pc # "idle" /\ c.req.op = "chdir" => procs[c.req.pid].rootdir = Root
  BY <1>1 DEF Roots, Is, Changing, Idle
<1>7. Roots'
  BY <1>1, <1>6, RootsStay
<1> QED BY <1>5, <1>7 DEF IInv

LEMMA ChangeEnds ==
  ASSUME IInv, CInv', NEW t \in Threads, Changing(call[t]), Return(t) \/ Fail(t), UNCHANGED procs,
         NEW puts, Short(puts), NEW K, NEW N, NEW E, Shaped(K, N, E), Settle(<<>>, puts, DiskOf(K, N, E)),
         Follows(<<>>, puts, DiskOf(K, N, E)), Tree(K, N, E, {}, {}, {})
  PROVE  IInv'
<1> DEFINE D == DiskOf(K, N, E)
<1>1. ShapedOn(D) /\ Tree(D.kind, D.nlinks, D.entries, {}, {}, {})
  BY DiskOfIs
<1>2. Settle(<<>>, puts, D) /\ Follows(<<>>, puts, D)
  OBVIOUS
<1>3. ~Idle(t)
  BY DEF Changing, Idle
<1> HIDE DEF D
<1> QED BY <1>1, <1>2, <1>3, CallEnds

\* The kinds stay, and an inode whose last link is taken is given back.
LEMMA KindsStay ==
  ASSUME IInv, NEW N, NEW E, Shaped(disk.kind, N, E), NEW gets, NEW puts,
         \A i \in Inodes : disk.kind[i] = "free" => N[i] = 0 /\ Times(i, gets) = 0,
         \A i \in Inodes : N[i] = 0 => disk.nlinks[i] = 0 \/ Times(i, puts) > 0
  PROVE  Follows(gets, puts, DiskOf(disk.kind, N, E))
BY DiskOfIs DEF Follows

LEMMA FreeHasNoLinks ==
  ASSUME IInv, NEW i \in Inodes, disk.kind[i] = "free" PROVE disk.nlinks[i] = 0 /\ count[i] = 0
BY WorkerKnows DEF FreeIs

LEMMA MakeInodeKeepsTree ==
  ASSUME IInv, CInv', NEW t \in Threads, MakeInode(t) PROVE IInv'
<1> DEFINE c == call[t]
           K == disk.kind
           N == disk.nlinks
           E == disk.entries
<1>1. c.pc = "make"
  BY DEF MakeInode, At
<1>2. /\ ~Idle(t) /\ c \in Calls /\ Fits(c) /\ CInv /\ disk \in Disks /\ ShapedOn(disk) /\ Shaped(K, N, E)
      /\ c.dirp \in Inodes /\ c.req \in Requests
  BY <1>1, WorkerKnows, AtIs, ShapedOnIs DEF InDirectory
<1>3. Changing(c) /\ Nothing(c) /\ Creates(c.req) /\ (Is(t, "mkdir") <=> c.req.op = "mkdir")
  BY <1>1, <1>2 DEF Fits, Changing, Changes, Creates, Updates, Nothing, Linking, Making, Leaving, Is
<1>4. Tree(K, N, E, {}, {}, {}) /\ Knows(K, N, E, c)
  BY <1>3, WorkerKnows, NothingLeft DEF TreeOn, TreeFor
<1>5. ASSUME NEW i \in Inodes, K[i] = "free",
             Settle(<<i>>, <<>>, [disk EXCEPT !.kind = [@ EXCEPT ![i] = KindOf(t)],
                                              !.nlinks = [@ EXCEPT ![i] = 1]]),
             Go(t, [c EXCEPT !.pc = "link", !.rip = i]), UNCHANGED procs
      PROVE  IInv'
  <2> DEFINE d == [c EXCEPT !.pc = "link", !.rip = i]
             k == KindOf(t)
             M == IF k = "dir" THEN {i} ELSE {}
             K2 == [K EXCEPT ![i] = k]
             N2 == [N EXCEPT ![i] = 1]
  <2>1. d \in Calls /\ d.pc = "link" /\ d.req = c.req /\ d.dirp = c.dirp /\ d.rip = i
    BY <1>2 DEF Calls, Stages
  <2>2. Go(t, d)
    BY <1>5
  <2> HIDE DEF d
  <2>3. Settle(<<i>>, <<>>, DiskOf(K2, N2, E))
    BY <1>2, <1>5, DisksWith
  <2>4. k \in {"file", "dir"} /\ (k = IF c.req.op = "mkdir" THEN "dir" ELSE "file")
    BY <1>3 DEF KindOf
  <2>5. N[i] = 0 /\ count[i] = 0
    BY <1>5, FreeHasNoLinks
  <2> HIDE DEF k
  <2>6. Shaped(K2, N2, E) /\ Tree(K2, N2, E, {i}, M, {})
    BY <1>2, <1>4, <1>5, <2>4, <2>5, TreeMakes
  <2>7. /\ K2[i] = k /\ \A j \in Inodes : j # i => K2[j] = K[j]
        /\ N2[i] = 1 /\ \A j \in Inodes : j # i => N2[j] = N[j]
    BY <1>2 DEF Shaped
  <2>8. c.dirp # i /\ i # Root
    <3>1. K[c.dirp] # "free"
      BY <1>2, HeldIsNotFree
    <3>2. count[Root] > 0
      BY <1>2, Known, Referred, NamesOfInodes
    <3> QED BY <1>5, <2>5, <3>1, <3>2
  <2> HIDE DEF K2, N2, K, N, E
  <2>9. Linking(d) = {i} /\ Making(d) = M /\ Leaving(d) = {}
    BY <2>1, <2>4 DEF Linking, Making, Leaving
  <2>10. Knows(K2, N2, E, d)
    BY <1>1, <1>2, <1>4, <2>1, <2>4, <2>7, <2>8 DEF Knows, InDirectory
  <2>11. TreeFor(K2, N2, E, d)
    BY <2>6, <2>9, <2>10 DEF TreeFor
  <2>12. Follows(<<i>>, <<>>, DiskOf(K2, N2, E))
    <3>1. ASSUME NEW j \in Inodes
          PROVE  /\ K2[j] = "free" => disk.kind[j] = "free" /\ N2[j] = 0 /\ Times(j, <<i>>) = 0
                 /\ K2[j] # "free" => disk.kind[j] # "free" \/ N2[j] > 0
                 /\ N2[j] = 0 => disk.nlinks[j] = 0 \/ Times(j, <<>>) > 0
      <4>1. CASE j = i
        BY <2>4, <2>7, <4>1
      <4>2. CASE j # i
        BY <2>7, <4>2, FreeHasNoLinks, TimesOne DEF K, N
      <4> QED BY <4>1, <4>2
    <3>2. DiskOf(K2, N2, E).kind = K2 /\ DiskOf(K2, N2, E).nlinks = N2
      BY <2>6, DiskOfIs
    <3> QED BY <3>1, <3>2 DEF Follows
  <2>13. d.pc # "idle"
    BY <2>1
  <2> QED BY <1>3, <1>5, <2>1, <2>2, <2>3, <2>6, <2>11, <2>12, <2>13, ChangeGoes DEF Short
<1> QED BY <1>5, TreePanics DEF MakeInode, Tables

LEMMA LinkKeepsTree ==
  ASSUME IInv, CInv', Orderly, NEW t \in Threads, Link(t) PROVE IInv'
<1> DEFINE c == call[t]
           K == disk.kind
           N == disk.nlinks
           E == disk.entries
           i == c.rip
           n == LastOf(c.req)
           x == [dir |-> c.dirp, name |-> n, inode |-> i]
<1>1. c.pc = "link" /\ UNCHANGED procs
  BY DEF Link, At
<1>2. /\ ~Idle(t) /\ c \in Calls /\ Fits(c) /\ c.req \in Requests
      /\ c.dirp \in Inodes /\ i \in Inodes /\ LastName(t) = n /\ n \in Names
      /\ disk \in Disks /\ Shaped(K, N, E)
  BY <1>1, ChangerKnows, WorkerKnows, ShapedOnIs DEF InDirectory, WithInode
<1>3. Changing(c)
  BY <1>1, <1>2 DEF Fits, Changing, Changes, Creates, Updates
<1> DEFINE M == IF c.req.op = "mkdir" THEN {i} ELSE {}
<1>4. /\ Linking(c) = {i} /\ Making(c) = M /\ Leaving(c) = {}
  BY <1>1 DEF Linking, Making, Leaving
<1>5. Tree(K, N, E, {i}, M, {}) /\ Knows(K, N, E, c) /\ K[c.dirp] = "dir" /\ N[c.dirp] > 0
  BY <1>1, <1>3, <1>4, ChangerKnows DEF InDirectory, WithInode
<1>6. /\ IsName(n) /\ (\A e \in E : e.dir = c.dirp => e.name # n) /\ i # c.dirp /\ i # Root
      /\ K[i] = IF c.req.op = "mkdir" THEN "dir" ELSE "file"
  BY <1>1, <1>5 DEF Knows
<1>7. M \in {{}, {i}} /\ (IF i \in M THEN K[i] = "dir" ELSE K[i] = "file")
  BY <1>6
<1>8. Unlinkable(n) => K[i] = "file"
  <2> SUFFICES ASSUME c.req.op = "mkdir" PROVE ~Unlinkable(n)
    BY <1>6
  <2> QED BY <1>2 DEF Orderly, UnlinksFiles, Unlinkable
<1>9. CASE /\ Settle(<<>>, <<>>, [disk EXCEPT !.entries = @ \cup {x}])
           /\ Go(t, [c EXCEPT !.pc = "made"])
  <2> DEFINE d == [c EXCEPT !.pc = "made"]
             E2 == E \cup {x}
  <2>1. d \in Calls /\ d.pc = "made" /\ d.req = c.req /\ d.dirp = c.dirp /\ d.rip = i
    BY <1>2 DEF Calls, Stages
  <2>2. Go(t, d)
    BY <1>9
  <2> HIDE DEF d
  <2>3. Settle(<<>>, <<>>, DiskOf(K, N, E2))
    BY <1>2, <1>9, DisksWith
  <2> HIDE DEF M, K, N, E
  <2>4. Shaped(K, N, E2) /\ Tree(K, N, E2, {}, M, {})
    <3>1. /\ Shaped(K, N, E) /\ i \in Inodes /\ M \in {{}, {i}} /\ Tree(K, N, E, {i}, M, {})
          /\ IF i \in M THEN K[i] = "dir" ELSE K[i] = "file"
          /\ c.dirp \in Inodes /\ c.dirp # i /\ K[c.dirp] = "dir" /\ N[c.dirp] > 0
          /\ n \in Names /\ IsName(n) /\ (\A e \in E : e.dir = c.dirp => e.name # n)
          /\ Unlinkable(n) => K[i] = "file"
      BY <1>2, <1>5, <1>6, <1>7, <1>8
    <3>2. CanLink(K, N, E, i, M, c.dirp, n)
      BY <3>1 DEF CanLink
    <3>3. E2 = E \cup {[dir |-> c.dirp, name |-> n, inode |-> i]}
      OBVIOUS
    <3> HIDE DEF i, n, E2
    <3> QED BY <3>2, <3>3, TreeLinks
  <2>5. Linking(d) = {} /\ Making(d) = M /\ Leaving(d) = {}
    BY <2>1 DEF Linking, Making, Leaving, M
  <2>6. Entered(E2, d)
    <3>1. x \in E2 /\ x.dir = c.dirp /\ x.name = n /\ x.inode = i
      OBVIOUS
    <3> QED BY <2>1, <3>1 DEF Entered
  <2>7. N[i] = 1
    BY <1>2, <1>5 DEF Tree, Linked
  <2>8. Knows(K, N, E2, d)
    BY <1>5, <1>6, <2>1, <2>6, <2>7 DEF Knows, InDirectory
  <2>9. TreeFor(K, N, E2, d)
    BY <2>4, <2>5, <2>8 DEF TreeFor
  <2>10. Follows(<<>>, <<>>, DiskOf(K, N, E2))
    BY <2>4, KindsStay, FreeHasNoLinks, TimesNone DEF K, N
  <2>11. d.pc # "idle"
    BY <2>1
  <2> HIDE DEF E2
  <2> QED BY <1>1, <1>3, <2>1, <2>2, <2>3, <2>4, <2>9, <2>10, <2>11, ChangeGoes DEF Short
<1>10. CASE /\ Settle(<<>>, <<c.dirp, i>>, [disk EXCEPT !.nlinks = LessOne(@, i)])
            /\ Fail(t)
  <2> DEFINE N2 == LessOne(N, i)
             puts == <<c.dirp, i>>
  <2>1. Settle(<<>>, puts, DiskOf(K, N2, E)) /\ Fail(t)
    BY <1>2, <1>10, DisksWith
  <2>6. N2 = LessOne(N, i) /\ HasLinkOnly(K, N, E, i, M)
    BY <1>2, <1>5, <1>7 DEF HasLinkOnly
  <2> HIDE DEF M, K, N, E, N2, i
  <2>2. /\ Shaped(K, N2, E) /\ Tree(K, N2, E, {}, {}, {})
        /\ N2[i] = 0 /\ \A j \in Inodes : j # i => N2[j] = N[j]
    BY <2>6, TreeLinkFails
  <2>3. Times(i, puts) > 0
    BY TimesTwo
  <2>4. Follows(<<>>, puts, DiskOf(K, N2, E))
    <3>1. \A j \in Inodes : K[j] = "free" => N2[j] = 0 /\ Times(j, <<>>) = 0
      BY <1>2, <2>2, FreeHasNoLinks, TimesNone DEF K, N
    <3>2. \A j \in Inodes : N2[j] = 0 => N[j] = 0 \/ Times(j, puts) > 0
      BY <2>2, <2>3
    <3> HIDE DEF puts
    <3> QED BY <2>2, <3>1, <3>2, KindsStay DEF K, N
  <2>5. Short(puts)
    BY DEF Short
  <2> HIDE DEF puts
  <2> QED BY <1>1, <1>3, <2>1, <2>2, <2>4, <2>5, ChangeEnds
<1> QED BY <1>2, <1>9, <1>10 DEF Link

\* The inodes that a call gives back.
LEMMA BothGiven ==
  ASSUME NEW a, NEW b PROVE Short(<<a, b>>) /\ Times(a, <<a, b>>) > 0 /\ Times(b, <<a, b>>) > 0
BY TimesTwo DEF Short

\* A call takes links, but for those of the inodes it gives back none is the last.
LEMMA GivesLinks ==
  ASSUME IInv, NEW N, NEW E, Shaped(disk.kind, N, E), NEW puts,
         \A j \in Inodes : disk.kind[j] = "free" => (N[j] = 0 <=> disk.nlinks[j] = 0),
         \A j \in Inodes : N[j] = 0 => disk.nlinks[j] = 0 \/ Times(j, puts) > 0
  PROVE  Follows(<<>>, puts, DiskOf(disk.kind, N, E))
<1>1. \A j \in Inodes : disk.kind[j] = "free" => N[j] = 0 /\ Times(j, <<>>) = 0
  BY FreeHasNoLinks, TimesNone
<1> QED BY <1>1, KindsStay

LEMMA MkdirDotsKeepsTree ==
  ASSUME IInv, CInv', Orderly, NEW t \in Threads, MkdirDots(t) PROVE IInv'
<1> DEFINE c == call[t]
           K == disk.kind
           N == disk.nlinks
           E == disk.entries
           i == c.rip
           d == c.dirp
           n == LastOf(c.req)
           puts == <<d, i>>
           dot == [dir |-> i, name |-> ".", inode |-> i]
           dotdot == [dir |-> i, name |-> "..", inode |-> d]
<1>1. c.pc = "made" /\ c.req.op = "mkdir" /\ Return(t) /\ UNCHANGED procs
  BY DEF MkdirDots, At, Is, Tables
<1>2. /\ ~Idle(t) /\ d \in Inodes /\ i \in Inodes /\ LastName(t) = n /\ disk \in Disks /\ Shaped(K, N, E)
      /\ Changing(c)
  BY <1>1, ChangerKnows, WorkerKnows, ShapedOnIs DEF InDirectory, WithInode, Changes, Updates
<1>3. Linking(c) = {} /\ Making(c) = {i} /\ Leaving(c) = {}
  BY <1>1 DEF Linking, Making, Leaving
<1>4. Tree(K, N, E, {}, {i}, {}) /\ Knows(K, N, E, c) /\ K[d] = "dir" /\ N[d] > 0
  BY <1>1, <1>2, <1>3, ChangerKnows DEF InDirectory, WithInode
<1>5. Entered(E, c) /\ IsName(n) /\ K[i] = "dir" /\ N[i] = 1 /\ i # d /\ i # Root
  BY <1>1, <1>4 DEF Knows
<1>6. PICK x \in E : x.dir = d /\ x.name = n /\ x.inode = i
  BY <1>5 DEF Entered
<1>7. Short(puts) /\ Times(i, puts) > 0
  BY BothGiven
<1>8. UnlinksFiles
  BY DEF Orderly
<1>9. CASE Settle(<<>>, puts, [disk EXCEPT !.entries = @ \cup {dot, dotdot},
                                         !.nlinks = OneMore(OneMore(@, i), d)])
  <2> DEFINE E2 == E \cup {dot, dotdot}
             N2 == OneMore(OneMore(N, i), d)
  <2>1. Settle(<<>>, puts, DiskOf(K, N2, E2))
    BY <1>2, <1>9, DisksWith
  <2> HIDE DEF K, N, E, puts
  <2>2. Listed(E, d, i)
    BY <1>5, <1>6 DEF Listed
  <2>3. Shaped(K, N2, E2) /\ Tree(K, N2, E2, {}, {}, {}) /\ \A j \in Inodes : N2[j] = 0 <=> N[j] = 0
    <3>1. Shaped(K, N, E) /\ Tree(K, N, E, {}, {i}, {}) /\ K[i] = "dir" /\ N[i] > 0 /\ K[d] = "dir" /\ N[d] > 0
      BY <1>2, <1>4, <1>5
    <3> QED BY <1>2, <1>5, <1>8, <2>2, <3>1, TreeDots
  <2> HIDE DEF E2, N2
  <2>4. Follows(<<>>, puts, DiskOf(K, N2, E2))
    BY <2>3, GivesLinks DEF K, N
  <2> QED BY <1>1, <1>2, <1>7, <2>1, <2>3, <2>4, ChangeEnds
<1>10. ASSUME NEW gone \in OneOf(Named(d, n)), NEW dots \in Left({dot}, {dotdot}),
              Settle(<<>>, puts, [disk EXCEPT !.entries = (@ \ gone) \cup dots, !.nlinks = LessOne(@, i)])
       PROVE  IInv'
  <2>1. Named(d, n) = {x}
    <3>1. Unique(E)
      BY <1>4 DEF Tree
    <3> QED BY <1>6, <3>1 DEF Named, Unique
  <2>2. gone = {x}
    BY <1>10, <2>1 DEF OneOf
  <2>3. dots \in {{}, {dot}}
    BY <1>10 DEF Left, Orderly
  <2> DEFINE E2 == (E \ {x}) \cup dots
             N2 == LessOne(N, i)
  <2>4. Settle(<<>>, puts, DiskOf(K, N2, E2))
    BY <1>2, <1>10, <2>2, DisksWith
  <2> HIDE DEF K, N, E, puts
  <2>5. Shaped(K, N2, E2) /\ Tree(K, N2, E2, {}, {}, {}) /\ \A j \in Inodes : j # i => N2[j] = N[j]
    <3>1. CanUndo(K, N, E, i, x, dots)
      BY <1>2, <1>4, <1>5, <1>6, <1>8, <2>3 DEF CanUndo
    <3> HIDE DEF i
    <3> QED BY <3>1, TreeDotsFail
  <2> HIDE DEF E2, N2
  <2>6. Follows(<<>>, puts, DiskOf(K, N2, E2))
    <3>1. \A j \in Inodes : K[j] = "free" => (N2[j] = 0 <=> N[j] = 0)
      BY <1>5, <2>5
    <3>2. \A j \in Inodes : N2[j] = 0 => N[j] = 0 \/ Times(j, puts) > 0
      BY <1>7, <2>5
    <3> QED BY <2>5, <3>1, <3>2, GivesLinks DEF K, N
  <2> QED BY <1>1, <1>2, <1>7, <2>4, <2>5, <2>6, ChangeEnds
<1> QED BY <1>2, <1>9, <1>10 DEF MkdirDots

LEMMA UnlinkKeepsTree ==
  ASSUME IInv, CInv', Orderly, NEW t \in Threads, Unlink(t) PROVE IInv'
<1> DEFINE c == call[t]
           K == disk.kind
           N == disk.nlinks
           E == disk.entries
           i == c.rip
           d == c.dirp
           n == LastOf(c.req)
           puts == <<i, d>>
<1>1. c.pc = "prepared" /\ c.req.op = "unlink" /\ Return(t) /\ UNCHANGED procs
  BY DEF Unlink, At, Is, Tables
<1>2. /\ ~Idle(t) /\ d \in Inodes /\ i \in Inodes /\ LastName(t) = n /\ disk \in Disks /\ Shaped(K, N, E)
      /\ Changing(c) /\ c.req \in Requests
  BY <1>1, ChangerKnows, WorkerKnows, ShapedOnIs DEF InDirectory, WithInode, Changes, Updates
<1>3. Linking(c) = {} /\ Making(c) = {} /\ Leaving(c) = {}
  BY <1>1 DEF Linking, Making, Leaving
<1>4. Tree(K, N, E, {}, {}, {}) /\ Knows(K, N, E, c) /\ K[d] = "dir" /\ N[d] > 0
  BY <1>1, <1>2, <1>3, ChangerKnows DEF InDirectory, WithInode
<1>5. Short(puts) /\ Times(i, puts) > 0
  BY BothGiven
<1>6. CASE Settle(<<>>, puts, disk)
  BY <1>1, <1>2, <1>3, <1>5, <1>6, QuietEnd DEF Nothing
<1>7. ASSUME NEW x \in Named(d, n),
             Settle(<<>>, puts, [disk EXCEPT !.entries = @ \ {x}, !.nlinks = LessOne(@, i)])
      PROVE  IInv'
  <2>1. x \in E /\ x.dir = d /\ x.name = n
    BY <1>7 DEF Named
  <2>2. Unlinkable(n) /\ IsName(n)
    <3>1. Unlinkable(n)
      BY <1>1, <1>2 DEF Unlinkable
    <3> QED BY <3>1, UnlinkableIs DEF Orderly
  <2>3. x.inode = i
    <3>1. PICK y \in E : y.dir = d /\ y.name = n /\ y.inode = i
      BY <1>1, <1>4, <2>2 DEF Knows, Entered
    <3>2. Unique(E)
      BY <1>4 DEF Tree
    <3>3. x = y
      BY <2>1, <3>1, <3>2 DEF Unique
    <3> QED BY <3>1, <3>3
  <2>4. K[i] = "file"
    <3>1. FilesNamed(K, E)
      BY <1>4 DEF Tree
    <3> QED BY <2>1, <2>2, <2>3, <3>1 DEF FilesNamed
  <2> DEFINE E2 == E \ {x}
             N2 == LessOne(N, i)
  <2>5. Settle(<<>>, puts, DiskOf(K, N2, E2))
    BY <1>2, <1>7, DisksWith
  <2> HIDE DEF K, N, E, puts
  <2>6. Shaped(K, N2, E2) /\ Tree(K, N2, E2, {}, {}, {}) /\ \A j \in Inodes : j # i => N2[j] = N[j]
    <3>1. CanUnlink(K, N, E, x, {})
      BY <1>2, <1>4, <2>1, <2>2, <2>3, <2>4 DEF CanUnlink
    <3> HIDE DEF i
    <3> QED BY <2>3, <3>1, TreeUnlinks
  <2> HIDE DEF E2, N2
  <2>7. Follows(<<>>, puts, DiskOf(K, N2, E2))
    <3>1. \A j \in Inodes : K[j] = "free" => (N2[j] = 0 <=> N[j] = 0)
      BY <2>4, <2>6
    <3>2. \A j \in Inodes : N2[j] = 0 => N[j] = 0 \/ Times(j, puts) > 0
      BY <1>5, <2>6
    <3> QED BY <2>6, <3>1, <3>2, GivesLinks DEF K, N
  <2> QED BY <1>1, <1>2, <1>5, <2>5, <2>6, <2>7, ChangeEnds
<1> QED BY <1>2, <1>6, <1>7 DEF Unlink

LEMMA RmdirEntryKeepsTree ==
  ASSUME IInv, CInv', NEW t \in Threads, RmdirEntry(t) PROVE IInv'
<1> DEFINE c == call[t]
           K == disk.kind
           N == disk.nlinks
           E == disk.entries
           i == c.rip
           d == c.dirp
           n == LastOf(c.req)
<1>1. c.pc = "unused"
  BY DEF RmdirEntry, At
<1>2. /\ ~Idle(t) /\ c \in Calls /\ Fits(c) /\ d \in Inodes /\ i \in Inodes /\ LastName(t) = n
      /\ disk \in Disks /\ Shaped(K, N, E)
  BY <1>1, ChangerKnows, WorkerKnows, ShapedOnIs DEF InDirectory, WithInode
<1>3. Linking(c) = {} /\ Making(c) = {} /\ Leaving(c) = {} /\ Changing(c)
  BY <1>1, <1>2 DEF Linking, Making, Leaving, Fits, Changing, Changes, Updates
<1>4. Tree(K, N, E, {}, {}, {}) /\ Knows(K, N, E, c) /\ K[d] = "dir" /\ N[d] > 0
  BY <1>1, <1>3, ChangerKnows DEF InDirectory, WithInode
<1>5. Entered(E, c) /\ i # d /\ i # Root /\ K[i] = "dir" /\ Empty(E, i)
  BY <1>1, <1>4 DEF Knows
<1>6. CASE GiveUp(t)
  BY <1>2, <1>3, <1>6, GiveUpKeepsTree DEF Nothing
<1>7. ASSUME NEW x \in Named(d, n), UNCHANGED procs,
             Settle(<<>>, <<>>, [disk EXCEPT !.entries = @ \ {x}, !.nlinks = LessOne(@, i)]),
             Go(t, [c EXCEPT !.pc = "dots"])
      PROVE  IInv'
  <2>1. x \in E /\ x.dir = d /\ x.name = n
    BY <1>7 DEF Named
  <2>2. x.inode = i
    <3>1. PICK y \in E : y.dir = d /\ y.name = n /\ y.inode = i
      BY <1>5 DEF Entered
    <3>2. Unique(E)
      BY <1>4 DEF Tree
    <3>3. x = y
      BY <2>1, <3>1, <3>2 DEF Unique
    <3> QED BY <3>1, <3>3
  <2> DEFINE E2 == E \ {x}
             N2 == LessOne(N, i)
             b == [c EXCEPT !.pc = "dots"]
  <2>3. b \in Calls /\ b.pc = "dots" /\ b.req = c.req /\ b.dirp = d /\ b.rip = i
    BY <1>2 DEF Calls, Stages
  <2>4. Go(t, b) /\ Settle(<<>>, <<>>, DiskOf(K, N2, E2))
    BY <1>2, <1>7, DisksWith
  <2> HIDE DEF K, N, E, b
  <2>5. DotsLead(E) /\ Reached(N, E, {}) /\ OneName(E) /\ Linked(N, E, {})
    BY <1>4 DEF Tree
  <2>6. N[i] > 0
    BY <1>2, <1>4, <2>1, <2>2, <2>5, HasLinks
  <2>7. IsName(x.name)
    <3>1. x.name # "" /\ x.name # "."
      BY <1>5, <2>1, <2>2, <2>5 DEF DotsLead
    <3>2. ASSUME x.name = ".." PROVE FALSE
      <4>1. d # Root
        BY <1>5, <2>1, <2>2, <2>5, <3>2 DEF DotsLead
      <4>2. Listed(E, i, d)
        BY <1>4, <2>1, <2>2, <2>5, <3>2, <4>1 DEF Reached
      <4> QED BY <1>5, <4>2 DEF Listed, Empty
    <3> QED BY <3>1, <3>2 DEF IsName
  <2>8. /\ Shaped(K, N2, E2) /\ Tree(K, N2, E2, {}, {}, {i})
        /\ N2[i] > 0 /\ \A j \in Inodes : j # i => N2[j] = N[j]
    <3>1. CanUnlink(K, N, E, x, {i})
      BY <1>2, <1>4, <1>5, <2>1, <2>2, <2>6, <2>7 DEF CanUnlink
    <3> HIDE DEF i
    <3> QED BY <1>5, <2>2, <3>1, TreeUnlinks
  <2>9. Empty(E2, i) /\ \A f \in E2 : f.inode = i => ~IsName(f.name)
    BY <1>5, <2>1, <2>2, <2>5, <2>7 DEF Empty, OneName
  <2>10. \A f \in E2 : f.dir = i /\ f.name = ".." => f.inode = d
    <3> SUFFICES ASSUME NEW f \in E2, f.dir = i, f.name = ".." PROVE f.inode = d
      OBVIOUS
    <3>1. Listed(E, f.inode, i)
      BY <1>5, <2>5, <2>6 DEF Reached
    <3>2. PICK g \in E : g.dir = f.inode /\ g.inode = i /\ IsName(g.name)
      BY <3>1 DEF Listed
    <3>3. g = x
      BY <2>1, <2>2, <2>5, <2>7, <3>2 DEF OneName
    <3> QED BY <2>1, <3>2, <3>3
  <2> HIDE DEF E2, N2
  <2>11. N2[d] > 0
    BY <1>2, <1>4, <1>5, <2>8
  <2>12. Knows(K, N2, E2, b)
    BY <1>4, <1>5, <2>3, <2>8, <2>9, <2>10, <2>11 DEF Knows, InDirectory
  <2>13. TreeFor(K, N2, E2, b)
    <3>1. Linking(b) = {} /\ Making(b) = {} /\ Leaving(b) = {i}
      BY <2>3 DEF Linking, Making, Leaving
    <3> QED BY <2>8, <2>12, <3>1 DEF TreeFor
  <2>14. Follows(<<>>, <<>>, DiskOf(K, N2, E2))
    <3>1. \A j \in Inodes : K[j] = "free" => (N2[j] = 0 <=> N[j] = 0)
      BY <1>5, <2>8
    <3>2. \A j \in Inodes : N2[j] = 0 => N[j] = 0 \/ Times(j, <<>>) > 0
      BY <2>8
    <3> QED BY <2>8, <3>1, <3>2, GivesLinks DEF K, N
  <2>15. b.pc # "idle"
    BY <2>3
  <2> QED BY <1>3, <1>7, <2>3, <2>4, <2>8, <2>13, <2>14, <2>15, ChangeGoes DEF Short
<1> QED BY <1>2, <1>6, <1>7 DEF RmdirEntry, Tables

LEMMA RmdirDotsKeepsTree ==
  ASSUME IInv, CInv', NEW t \in Threads, RmdirDots(t) PROVE IInv'
<1> DEFINE c == call[t]
           K == disk.kind
           N == disk.nlinks
           E == disk.entries
           i == c.rip
           d == c.dirp
           puts == <<i, d>>
<1>1. c.pc = "dots"
  BY DEF RmdirDots, At
<1>2. /\ ~Idle(t) /\ Fits(c) /\ d \in Inodes /\ i \in Inodes /\ disk \in Disks /\ Shaped(K, N, E)
  BY <1>1, ChangerKnows, WorkerKnows, ShapedOnIs DEF InDirectory, WithInode
<1>3. Linking(c) = {} /\ Making(c) = {} /\ Leaving(c) = {i} /\ Changing(c)
  BY <1>1, <1>2 DEF Linking, Making, Leaving, Fits, Changing, Changes, Updates
<1>4. Tree(K, N, E, {}, {}, {i}) /\ Knows(K, N, E, c) /\ K[d] = "dir" /\ N[d] > 0
  BY <1>1, <1>3, ChangerKnows DEF InDirectory, WithInode
<1>5. /\ i # d /\ i # Root /\ K[i] = "dir" /\ Empty(E, i) /\ N[i] > 0
      /\ \A e \in E : e.inode = i => ~IsName(e.name)
      /\ \A e \in E : e.dir = i /\ e.name = ".." => e.inode = d
  BY <1>1, <1>4 DEF Knows
<1>6. Short(puts) /\ Times(i, puts) > 0
  BY BothGiven
<1>7. Named(i, ".") # {} /\ Named(i, "..") # {}
  <2>1. Dotted(K, N, E, {})
    BY <1>4 DEF Tree
  <2>2. \A n \in {".", ".."} : \E e \in E : e.dir = i /\ e.name = n
    BY <1>2, <1>5, <2>1 DEF Dotted
  <2> QED BY <2>2 DEF Named
<1>8. ASSUME NEW x \in Named(i, "."), NEW y \in Named(i, ".."), Return(t), UNCHANGED procs,
             Settle(<<>>, puts, [disk EXCEPT !.entries = @ \ {x, y},
                                             !.nlinks = LessOne(LessOne(@, x.inode), y.inode)])
      PROVE  IInv'
  <2>1. x \in E /\ x.dir = i /\ x.name = "." /\ y \in E /\ y.dir = i /\ y.name = ".." /\ y.inode = d
    BY <1>5, <1>8 DEF Named
  <2> DEFINE E2 == E \ {x, y}
             N2 == LessOne(LessOne(N, x.inode), y.inode)
  <2>2. Settle(<<>>, puts, DiskOf(K, N2, E2))
    BY <1>2, <1>8, DisksWith
  <2> HIDE DEF K, N, E, puts
  <2>3. /\ Shaped(K, N2, E2) /\ Tree(K, N2, E2, {}, {}, {})
        /\ \A j \in Inodes : j # i => (N2[j] = 0 <=> N[j] = 0)
    <3>1. CanLeave(K, N, E, i, d, x, y)
      BY <1>2, <1>4, <1>5, <2>1 DEF CanLeave
    <3> HIDE DEF i, d
    <3> QED BY <3>1, TreeLeaves
  <2> HIDE DEF E2, N2
  <2>4. Follows(<<>>, puts, DiskOf(K, N2, E2))
    <3>1. \A j \in Inodes : K[j] = "free" => (N2[j] = 0 <=> N[j] = 0)
      BY <1>5, <2>3
    <3>2. \A j \in Inodes : N2[j] = 0 => N[j] = 0 \/ Times(j, puts) > 0
      BY <1>6, <2>3
    <3> QED BY <2>3, <3>1, <3>2, GivesLinks DEF K, N
  <2> QED BY <1>3, <1>6, <1>8, <2>2, <2>3, <2>4, ChangeEnds
<1> QED BY <1>7, <1>8 DEF RmdirDots, Tables

-----------------------------------------------------------------------------
(* Steps that change a process. *)

\* Such a step gives an inode back, or ends a call that has left nothing undone.
LEMMA ProcessKeepsTree ==
  ASSUME IInv, CInv', NEW t \in Threads, NEW c, c = NoCall \/ c = call[t], Go(t, c),
         NEW puts, Short(puts), Settle(<<>>, puts, disk), Changing(call[t]) => Nothing(call[t])
  PROVE  TreeInv' /\ FreeIs' /\ OneChange'
<1>1. ShapedOn(disk) /\ CInv /\ (Changing(call[t]) => TreeOn(disk, call[t]))
  BY WorkerKnows
<1>2. c \in Calls
  BY <1>1, Known, NoCallIs
<1>3. Changing(call[t]) => TreeOn(disk, NoCall)
  BY <1>1, NothingLeft, EndKnows, NoCallEnds
<1>4. Carries(t, c, disk)
  BY <1>1, <1>3, NoCallEnds DEF Carries
<1> QED BY <1>1, <1>2, <1>4, FollowsDisk, TakesNothing, TreeStep DEF Short

LEMMA RootsProcess ==
  ASSUME CInv, Roots, NEW t \in Threads, NEW c, c = NoCall \/ c = call[t], Go(t, c),
         NEW p \in Pids, \A q \in Pids \ {p} : procs'[q] = procs[q],
         procs'[p] # NoProcess => procs'[p].rootdir \in {Root, procs'[p].workdir},
         \A u \in Threads : Is(u, "chdir") /\ call[u].req.pid = p => procs'[p].rootdir = Root
  PROVE  Roots'
<1>1. call'[t] = c /\ \A u \in Threads : u # t => call'[u] = call[u]
  BY DEF CInv, Shapes, Go
<1>2. \A u \in Threads : call'[u].pc # "idle" => call'[u] = call[u]
  BY <1>1, NoCallEnds
<1>3. ASSUME NEW u \in Threads, call'[u].pc # "idle", call'[u].req.op = "chdir"
      PROVE  procs'[call'[u].req.pid].rootdir = Root
  <2>1. call'[u] = call[u] /\ Is(u, "chdir") /\ ~Idle(u)
    BY <1>2, <1>3 DEF Is, Idle
  <2>2. call[u].req.pid \in Pids /\ procs[call[u].req.pid].rootdir = Root
    BY <2>1, CallIs DEF Roots
  <2> QED BY <2>1, <2>2
<1>4. ASSUME NEW q \in Pids, procs'[q] # NoProcess
      PROVE  procs'[q].rootdir \in {Root, procs'[q].workdir}
  <2>1. CASE q = p
    BY <1>4, <2>1
  <2>2. CASE q # p
    BY <1>4, <2>2 DEF Roots, Alive
  <2> QED BY <2>1, <2>2
<1> QED BY <1>3, <1>4 DEF Roots, Is, Idle, Alive

\* The directories of a process stay.
LEMMA RootsOfFiles ==
  ASSUME CInv, Roots, NEW t \in Threads, NEW c, c = NoCall \/ c = call[t], Go(t, c),
         NEW p \in Pids, Alive(p), NEW P, procs' = [procs EXCEPT ![p] = P],
         P.rootdir = procs[p].rootdir, P.workdir = procs[p].workdir
  PROVE  Roots'
<1>1. procs'[p] = P /\ \A q \in Pids \ {p} : procs'[q] = procs[q]
  BY DEF CInv, Shapes
<1>2. procs[p].rootdir \in {Root, procs[p].workdir}
  BY DEF Roots
<1>3. \A u \in Threads : Is(u, "chdir") /\ call[u].req.pid = p => procs[p].rootdir = Root
  BY DEF Roots
<1> QED BY <1>1, <1>2, <1>3, RootsProcess

LEMMA CloseKeepsTree ==
  ASSUME IInv, CInv', NEW t \in Threads, NEW r \in Requests, Close(t, r) PROVE IInv'
<1> DEFINE p == r.pid
           i0 == procs[p].files[r.fd].inode
           P == [procs[p] EXCEPT !.files = [@ EXCEPT ![r.fd] = NoFile]]
<1>1. /\ IsOpen(p, r.fd) /\ Settle(<<>>, <<i0>>, disk) /\ r.op = "close"
      /\ procs' = [procs EXCEPT ![p].files[r.fd] = NoFile] /\ UNCHANGED call
  BY DEF Close
<1>2. CInv /\ Roots /\ p \in Pids /\ Alive(p) /\ Go(t, call[t])
  BY <1>1, WorkerKnows, RequestsAre DEF IsOpen, Go, CInv, Shapes
<1>3. TreeInv' /\ FreeIs' /\ OneChange'
  BY <1>1, QuietProcess DEF Short
<1>4. procs' = [procs EXCEPT ![p] = P] /\ procs[p] \in Processes
  BY <1>1, <1>2, ProcessIs
<1>5. P.rootdir = procs[p].rootdir /\ P.workdir = procs[p].workdir
  BY <1>4 DEF Processes
<1> HIDE DEF P
<1>6. Roots'
  BY <1>2, <1>4, <1>5, RootsOfFiles
<1> QED BY <1>3, <1>6 DEF IInv

LEMMA OpenKeepsTree ==
  ASSUME IInv, CInv', NEW t \in Threads, Open(t) PROVE IInv'
<1> DEFINE c == call[t]
           p == c.req.pid
           fd == Least(FreeFds(p))
           k == Least(FreeFilps)
           puts == IF c.dirp # 0 THEN <<c.dirp>> ELSE <<>>
           F == [filpidx |-> k, inode |-> c.rip]
           P == [procs[p] EXCEPT !.filp = procs[p].filp \cup {fd}, !.files = [procs[p].files EXCEPT ![fd] = F]]
<1>1. /\ c.pc \in {"got", "exists", "made"} /\ c.req.op = "open" /\ Settle(<<>>, puts, disk)
      /\ Return(t)
      /\ \/ UNCHANGED procs
         \/ procs' = [procs EXCEPT ![p].filp = @ \cup {fd}, ![p].files[fd] = F]
  BY DEF Open, At, Is
<1>2. /\ ~Idle(t) /\ p \in Pids /\ Alive(p) /\ CInv /\ Roots
  BY <1>1, WorkerKnows, AtIs, CallsProcess
<1>3. Nothing(c) /\ Short(puts)
  BY <1>1 DEF Nothing, Linking, Making, Leaving, Short
<1>4. Go(t, NoCall) /\ procs[p] \in Processes
  BY <1>1, <1>2, ProcessIs DEF Return, Go
<1> HIDE DEF puts
<1>5. CASE UNCHANGED procs
  BY <1>1, <1>2, <1>3, <1>5, QuietEnd
<1>6. CASE procs' = [procs EXCEPT ![p].filp = @ \cup {fd}, ![p].files[fd] = F]
  <2>1. TreeInv' /\ FreeIs' /\ OneChange'
    BY <1>1, <1>3, <1>4, ProcessKeepsTree
  <2> HIDE DEF p, fd, k, F
  <2>2. procs' = [procs EXCEPT ![p] = P]
    BY <1>2, <1>4, <1>6 DEF Processes
  <2>3. P.rootdir = procs[p].rootdir /\ P.workdir = procs[p].workdir
    BY <1>4 DEF Processes
  <2> HIDE DEF P
  <2>4. Roots'
    BY <1>2, <1>4, <2>2, <2>3, RootsOfFiles
  <2> QED BY <2>1, <2>4 DEF IInv
<1> QED BY <1>1, <1>5, <1>6

LEMMA ExitClosesKeepsTree ==
  ASSUME IInv, CInv', NEW t \in Threads, ExitCloses(t) PROVE IInv'
<1> DEFINE p == call[t].req.pid
           fd == Least({d \in Fds : IsOpen(p, d)})
           i0 == procs[p].files[fd].inode
           P == [procs[p] EXCEPT !.files = [procs[p].files EXCEPT ![fd] = NoFile], !.filp = procs[p].filp \ {fd}]
<1>1. /\ call[t].pc = "exit" /\ Settle(<<>>, <<i0>>, disk) /\ UNCHANGED call
      /\ procs' = [procs EXCEPT ![p].files[fd] = NoFile, ![p].filp = @ \ {fd}]
  BY DEF ExitCloses, At
<1>2. CInv /\ Roots /\ p \in Pids /\ Alive(p) /\ Go(t, call[t])
  BY <1>1, WorkerKnows, ExitIs DEF Go, CInv, Shapes
<1>3. TreeInv' /\ FreeIs' /\ OneChange'
  BY <1>1, QuietProcess DEF Short
<1>4. procs[p] \in Processes
  BY <1>2, ProcessIs
<1> HIDE DEF p, fd
<1>5. procs' = [procs EXCEPT ![p] = P]
  BY <1>1, <1>2, <1>4 DEF Processes
<1>6. P.rootdir = procs[p].rootdir /\ P.workdir = procs[p].workdir
  BY <1>4 DEF Processes
<1> HIDE DEF P
<1>7. Roots'
  BY <1>2, <1>5, <1>6, RootsOfFiles
<1> QED BY <1>3, <1>7 DEF IInv

LEMMA ChdirKeepsTree ==
  ASSUME IInv, CInv', NEW t \in Threads, Chdir(t) PROVE IInv'
<1> DEFINE c == call[t]
           p == c.req.pid
           P == [procs[p] EXCEPT !.workdir = c.rip]
<1>1. c.pc = "got" /\ c.req.op = "chdir" /\ Return(t)
  BY DEF Chdir, At, Is
<1>2. /\ ~Idle(t) /\ p \in Pids /\ Alive(p) /\ CInv /\ Roots /\ Nothing(c)
  BY <1>1, WorkerKnows, AtIs, CallsProcess, EndKnows
<1>3. Go(t, NoCall) /\ procs[p] \in Processes /\ Is(t, "chdir")
  BY <1>1, <1>2, ProcessIs DEF Return, Go, Is
<1>4. procs[p].rootdir = Root
  BY <1>2, <1>3 DEF Roots
<1>5. CASE Settle(<<>>, <<c.rip>>, disk) /\ UNCHANGED procs
  BY <1>1, <1>2, <1>5, QuietEnd DEF Short
<1>6. CASE Settle(<<>>, <<procs[p].workdir>>, disk) /\ procs' = [procs EXCEPT ![p].workdir = c.rip]
  <2>1. TreeInv' /\ FreeIs' /\ OneChange'
    BY <1>1, <1>2, <1>3, <1>6, ProcessKeepsTree DEF Short
  <2> HIDE DEF p
  <2>2. procs' = [procs EXCEPT ![p] = P]
    BY <1>6
  <2>3. P.rootdir = Root
    BY <1>3, <1>4 DEF Processes
  <2> HIDE DEF P
  <2>4. procs'[p] = P /\ \A q \in Pids \ {p} : procs'[q] = procs[q]
    BY <1>2, <2>2 DEF CInv, Shapes
  <2>5. Roots'
    BY <1>2, <1>3, <2>3, <2>4, RootsProcess
  <2> QED BY <2>1, <2>5 DEF IInv
<1> QED BY <1>5, <1>6 DEF Chdir

LEMMA SpawnKeepsTree ==
  ASSUME IInv, CInv', NEW t \in Threads, Spawn(t) PROVE IInv'
<1> DEFINE c == call[t]
           p == c.req.pid
           P == [rootdir |-> c.rip, workdir |-> c.rip, filp |-> {}, files |-> [fd \in Fds |-> NoFile]]
<1>1. /\ c.pc = "got" /\ c.req.op = "spawn" /\ Return(t) /\ UNCHANGED <<disk, count>>
      /\ procs' = [procs EXCEPT ![p] = P]
  BY DEF Spawn, At, Is
<1>2. /\ ~Idle(t) /\ p \in Pids /\ CInv /\ Roots /\ Nothing(c)
      /\ \A u \in Threads \ {t} : ~Idle(u) => call[u].req.pid # p
  BY <1>1, WorkerKnows, AtIs, CallsProcess, EndKnows
<1>3. Go(t, NoCall) /\ Settle(<<>>, <<>>, disk)
  BY <1>1, <1>2, SettlesNothing DEF Return, Go
<1>4. TreeInv' /\ FreeIs' /\ OneChange'
  BY <1>1, <1>2, <1>3, ProcessKeepsTree DEF Short
<1>5. P.rootdir = P.workdir
  OBVIOUS
<1> HIDE DEF P
<1>6. procs'[p] = P /\ \A q \in Pids \ {p} : procs'[q] = procs[q]
  BY <1>1, <1>2 DEF CInv, Shapes
<1>7. \A u \in Threads : ~(Is(u, "chdir") /\ call[u].req.pid = p)
  BY <1>1, <1>2 DEF Is
<1>8. Roots'
  BY <1>2, <1>3, <1>5, <1>6, <1>7, RootsProcess
<1> QED BY <1>4, <1>8 DEF IInv

LEMMA ExitKeepsTree ==
  ASSUME IInv, CInv', StaysIn, NEW t \in Threads, NEW r \in Requests, Exit(t, r) PROVE IInv'
<1> DEFINE c == Bare("exit", r)
<1>1. r.op = "exit" /\ MayCall(t, r) /\ Go(t, c) /\ UNCHANGED <<disk, count, procs>>
  BY DEF Exit, Tables
<1>2. CInv /\ Roots /\ ShapedOn(disk) /\ Idle(t) /\ r # NoRequest
  BY <1>1, WorkerKnows, MayCallIs, RequestsAre
<1>3. c.pc = "exit" /\ c.req = r /\ c \in Calls
  BY DEF Calls, Stages, Bare
<1> HIDE DEF c
<1>4. ~Changing(c) /\ ~Changing(call[t])
  BY <1>1, <1>2, <1>3 DEF Changing, Changes, Updates, Idle
<1>5. Carries(t, c, disk)
  BY <1>4 DEF Carries
<1>6. Settle(<<>>, <<>>, disk) /\ Follows(<<>>, <<>>, disk)
  BY <1>1, <1>2, SettlesNothing, FollowsDisk, TakesNothing DEF Short
<1>7. TreeInv' /\ FreeIs' /\ OneChange'
  BY <1>1, <1>2, <1>3, <1>5, <1>6, TreeStep DEF Short
<1>8. c.req.op # "chdir"
  BY <1>1, <1>3
<1>9. Roots'
  BY <1>1, <1>2, <1>8, RootsStay
<1> QED BY <1>7, <1>9 DEF IInv

LEMMA ExitEndsKeepsTree ==
  ASSUME IInv, CInv', NEW t \in Threads, ExitEnds(t) PROVE IInv'
<1> DEFINE c == call[t]
           p == c.req.pid
           w == procs[p].workdir
<1>1. c.pc = "exit" /\ Return(t) /\ procs' = [procs EXCEPT ![p] = NoProcess]
  BY DEF ExitEnds, At
<1>2. /\ CInv /\ Roots /\ p \in Pids /\ w = procs[p].rootdir /\ c.req.op = "exit" /\ Nothing(c)
      /\ \A u \in Threads \ {t} : ~Idle(u) => call[u].req.pid # p
  BY <1>1, WorkerKnows, ExitIs, EndKnows
<1>3. Settle(<<>>, <<w>>, disk) /\ Go(t, NoCall)
  BY <1>1, <1>2 DEF ExitEnds, Return, Go
<1>4. TreeInv' /\ FreeIs' /\ OneChange'
  BY <1>2, <1>3, ProcessKeepsTree DEF Short
<1>5. procs'[p] = NoProcess /\ \A q \in Pids \ {p} : procs'[q] = procs[q]
  BY <1>1, <1>2 DEF CInv, Shapes
<1>6. \A u \in Threads : ~(Is(u, "chdir") /\ call[u].req.pid = p)
  BY <1>2 DEF Is
<1>7. Roots'
  BY <1>2, <1>3, <1>5, <1>6, RootsProcess
<1> QED BY <1>4, <1>7 DEF IInv

-----------------------------------------------------------------------------
(* The tree is one at first, and every step keeps it. *)

LEMMA TreeInitHolds == ASSUME Orderly, Init PROVE IInv
<1> DEFINE d == CHOOSE i \in Inodes : i # Root
           K == [i \in Inodes |-> IF i \in {Root, d} THEN "dir" ELSE "free"]
           N == [i \in Inodes |-> IF i = Root THEN 3 ELSE IF i = d THEN 2 ELSE 0]
           e1 == Dir(Root)
           e2 == Dir(d)
           e3 == [dir |-> Root, name |-> "..", inode |-> Root]
           e4 == [dir |-> Root, name |-> "d", inode |-> d]
           e5 == [dir |-> d, name |-> "..", inode |-> Root]
           E == {e1, e2, e3, e4, e5}
<1>1. /\ disk.kind = K /\ disk.nlinks = N /\ disk.entries = E
      /\ count = [i \in Inodes |-> IF i = Root THEN 1 ELSE 0]
      /\ procs = [p \in Pids |-> NoProcess] /\ call = [t \in Threads |-> NoCall]
  BY DEF Init
<1>2. d \in Inodes /\ d # Root /\ Root \in Inodes
  <2>1. \E i \in Inodes : i # Root
    BY InodesAssumption DEF InodesAssumption
  <2> QED BY <2>1, NamesOfInodes
<1> HIDE DEF d
<1>3. /\ e1.dir = Root /\ e1.name = "." /\ e1.inode = Root
      /\ e2.dir = d /\ e2.name = "." /\ e2.inode = d
      /\ e3.dir = Root /\ e3.name = ".." /\ e3.inode = Root
      /\ e4.dir = Root /\ e4.name = "d" /\ e4.inode = d
      /\ e5.dir = d /\ e5.name = ".." /\ e5.inode = Root
  BY DEF Dir
<1> HIDE DEF e1, e2, e3, e4, e5
<1>4. /\ N[Root] = 3 /\ N[d] = 2 /\ K[Root] = "dir" /\ K[d] = "dir"
      /\ \A i \in Inodes : i # Root /\ i # d => N[i] = 0 /\ K[i] = "free"
  BY <1>2
<1> HIDE DEF K, N
<1>5. IsFiniteSet(E) /\ Cardinality({e1, e3, e5}) = 3 /\ Cardinality({e2, e4}) = 2
  <2>1. e1 # e3 /\ e1 # e5 /\ e3 # e5 /\ e2 # e4
    BY <1>2, <1>3
  <2>2. IsFiniteSet({e1}) /\ Cardinality({e1}) = 1 /\ IsFiniteSet({e2}) /\ Cardinality({e2}) = 1
    BY FS_Singleton
  <2>3. IsFiniteSet({e1, e3}) /\ Cardinality({e1, e3}) = 2
    <3>1. {e1, e3} = {e1} \cup {e3} /\ e3 \notin {e1}
      BY <2>1
    <3> QED BY <2>2, <3>1, FS_AddElement
  <2>4. IsFiniteSet({e1, e3, e5}) /\ Cardinality({e1, e3, e5}) = 3
    <3>1. {e1, e3, e5} = {e1, e3} \cup {e5} /\ e5 \notin {e1, e3}
      BY <2>1
    <3> QED BY <2>3, <3>1, FS_AddElement
  <2>5. IsFiniteSet({e2, e4}) /\ Cardinality({e2, e4}) = 2
    <3>1. {e2, e4} = {e2} \cup {e4} /\ e4 \notin {e2}
      BY <2>1
    <3> QED BY <2>2, <3>1, FS_AddElement
  <2>6. E = {e1, e3, e5} \cup {e2, e4}
    OBVIOUS
  <2> QED BY <2>4, <2>5, <2>6, FS_Union
<1>6. Linked(N, E, {})
  <2> SUFFICES ASSUME NEW i \in Inodes PROVE N[i] = Cardinality(Counted(N, E, i))
    BY DEF Linked
  <2>1. \A e \in E : N[e.dir] > 0
    BY <1>3, <1>4
  <2>2. Counted(N, E, i) = {e \in E : e.inode = i}
    BY <2>1 DEF Counted
  <2>3. CASE i = Root
    <3>1. Counted(N, E, i) = {e1, e3, e5}
      BY <1>2, <1>3, <2>2, <2>3
    <3> QED BY <1>4, <1>5, <2>3, <3>1
  <2>4. CASE i = d
    <3>1. Counted(N, E, i) = {e2, e4}
      BY <1>2, <1>3, <2>2, <2>4
    <3> QED BY <1>4, <1>5, <2>4, <3>1
  <2>5. CASE i # Root /\ i # d
    <3>1. Counted(N, E, i) = {}
      BY <1>3, <2>2, <2>5
    <3> QED BY <1>4, <2>5, <3>1, FS_EmptySet
  <2> QED BY <2>3, <2>4, <2>5
<1>7. Unique(E) /\ Allocated(K, E)
  BY <1>2, <1>3, <1>4 DEF Unique, Allocated
<1>8. OneName(E) /\ DotsLead(E)
  BY <1>2, <1>3 DEF OneName, DotsLead, IsName
<1>9. Husks(N, E) /\ Dotted(K, N, E, {})
  BY <1>2, <1>3, <1>4 DEF Husks, Dotted
<1>10. Reached(N, E, {})
  BY <1>2, <1>3 DEF Reached, Listed, IsName
<1>11. FilesNamed(K, E)
  <2>1. \A e \in E : ~Unlinkable(e.name)
    BY <1>3, UnlinkableIs DEF IsName, Orderly
  <2> QED BY <2>1 DEF FilesNamed
<1>12. Tree(K, N, E, {}, {}, {})
  BY <1>6, <1>7, <1>8, <1>9, <1>10, <1>11 DEF Tree
<1>13. \A t \in Threads : call[t] = NoCall /\ ~Changing(call[t]) /\ Idle(t)
  BY <1>1, NoCallEnds DEF Idle
<1>14. TreeInv
  <2>1. TreeOn(disk, NoCall)
    <3>1. Nothing(NoCall) /\ Knows(K, N, E, NoCall)
      BY NoCallEnds, EndKnows
    <3>2. disk.kind = K /\ disk.nlinks = N /\ disk.entries = E
      BY <1>1
    <3> HIDE DEF E
    <3>3. TreeFor(K, N, E, NoCall)
      BY <1>12, <3>1 DEF TreeFor, Nothing
    <3> QED BY <3>2, <3>3 DEF TreeOn
  <2> QED BY <1>1, <1>5, <1>13, <2>1 DEF TreeInv, Worker, TreeOn
<1>15. FreeIs
  BY <1>1, <1>2, <1>4 DEF FreeIs
<1>16. OneChange /\ Roots
  BY <1>1, <1>13 DEF OneChange, Roots, Is, Alive
<1> QED BY <1>14, <1>15, <1>16, InitHolds DEF IInv

LEMMA GoesKeepsTree == ASSUME IInv, CInv', Orderly, NEW t \in Threads, Goes(t) PROVE IInv'
<1>1. CASE Walk(t) \/ NotADirectory(t) \/ EatPath(t)
  BY <1>1, WalkKeepsTree, NotADirectoryKeepsTree, EatPathKeepsTree
<1>2. CASE LookFirst(t) \/ MakeInode(t) \/ Link(t) \/ MkdirExists(t) \/ MkdirDots(t)
  BY <1>2, LookFirstKeepsTree, MakeInodeKeepsTree, LinkKeepsTree, MkdirExistsKeepsTree, MkdirDotsKeepsTree
<1>3. CASE UnlinkPrep(t) \/ Unlink(t)
  BY <1>3, UnlinkPrepKeepsTree, UnlinkKeepsTree
<1>4. CASE RmdirIsEmpty(t) \/ RmdirIsUsed(t) \/ RmdirEntry(t) \/ RmdirDots(t)
  BY <1>4, RmdirChecksKeepTree, RmdirEntryKeepsTree, RmdirDotsKeepsTree
<1>5. CASE Open(t) \/ Chdir(t) \/ Spawn(t) \/ ExitCloses(t) \/ ExitEnds(t)
  BY <1>5, OpenKeepsTree, ChdirKeepsTree, SpawnKeepsTree, ExitClosesKeepsTree, ExitEndsKeepsTree
<1> QED BY <1>1, <1>2, <1>3, <1>4, <1>5 DEF Goes

LEMMA TreeNextKeeps == ASSUME Orderly, IInv, [Next]_vars PROVE IInv'
<1>1. StaysIn
  BY DEF Orderly, StaysIn
<1>2. CInv'
  BY <1>1, WorkerKnows, NextKeeps
<1>3. ASSUME NEW t \in Threads, NEW r \in Requests, Begins(t, r) PROVE IInv'
  BY <1>1, <1>2, <1>3, StartKeepsTree, CloseKeepsTree, TreePanics, ExitKeepsTree DEF Begins, Transfer
<1>4. CASE UNCHANGED vars
  <2>1. UNCHANGED <<disk, count, procs, call>>
    BY <1>4 DEF vars
  <2>2. \A c : Worker(c)' <=> Worker(c)
    BY <2>1 DEF Worker, Changing, AtRest, Idle
  <2>3. TreeInv'
    BY <2>1, <2>2 DEF IInv, TreeInv
  <2>4. FreeIs' /\ OneChange' /\ Roots'
    BY <2>1 DEF IInv, FreeIs, OneChange, Roots, Is, Idle, Alive
  <2> QED BY <1>2, <2>3, <2>4 DEF IInv
<1> QED BY <1>2, <1>3, <1>4, GoesKeepsTree DEF Next

LEMMA TreeInvariant == Orderly => (Spec => []IInv)
<1> SUFFICES ASSUME Orderly PROVE Spec => []IInv
  OBVIOUS
<1>1. IInv /\ [Next]_vars => IInv'
  BY TreeNextKeeps
<1>2. Init => IInv
  BY TreeInitHolds
<1> QED BY <1>1, <1>2, PTL DEF Spec
-----------------------------------------------------------------------------
(* Theorems *)

\* Every variable keeps its shape: no call leaves fs.procs, fs.filps or a directory
\* with what is not an inode, a descriptor or a slot.
THEOREM TypesKept == StaysIn => (Spec => []TypeOK)
<1>1. CInv => TypeOK
  <2> SUFFICES ASSUME CInv PROVE TypeOK
    OBVIOUS
  <2>1. Shapes
    BY DEF CInv
  <2>2. /\ disk.kind \in [Inodes -> {"free", "file", "dir"}]
        /\ disk.nlinks \in [Inodes -> 0 .. Uint16 - 1]
        /\ \A e \in disk.entries : e.dir \in Inodes /\ e.inode \in Inodes
    BY <2>1 DEF Shapes, Disks, Entries, Links
  <2>3. \A p \in Pids : Alive(p) =>
          /\ procs[p].rootdir \in Inodes /\ procs[p].workdir \in Inodes /\ procs[p].filp \subseteq Fds
          /\ procs[p].files \in [Fds -> {NoFile} \cup [filpidx : Filps, inode : Inodes]]
    BY ProcessIs DEF Processes, Files
  <2> QED BY <2>1, <2>2, <2>3 DEF TypeOK, Shapes, FilpTables, Mutexes
<1> QED BY <1>1, Invariant, PTL

\* The references to an inode are those of open files, of calls under way, of working
\* directories and of the calls that have dropped one: whatever calls overlap, no call
\* gives back a reference that is not its own.
THEOREM CountsReferences == StaysIn => (Spec => []CountIsReferences)
<1>1. CInv => CountIsReferences
  BY DEF CInv
<1> QED BY <1>1, Invariant, PTL

\* What a process or a call uses is not freed under it, if processes neither leave their
\* root directory nor overlap changes of the tree, and unlink files only.
THEOREM UsedStaysAllocated == Orderly => (Spec => []UsedIsAllocated)
<1>1. IInv => UsedIsAllocated
  <2> SUFFICES ASSUME IInv, NEW i \in Inodes, disk.kind[i] = "free"
               PROVE  /\ FilesOn(i) = {} /\ CallsOn(i) = 0
                      /\ \A p \in Pids : Alive(p) => i \notin {procs[p].rootdir, procs[p].workdir}
    BY DEF UsedIsAllocated
  <2>1. count[i] = 0 /\ Roots /\ CountIsReferences /\ lost \in [Inodes -> Nat]
    BY FreeHasNoLinks, WorkerKnows, Known
  <2>2. i # Root /\ (\A p \in Pids : procs[p].workdir # i) /\ FilesOn(i) = {} /\ CallsOn(i) = 0
    BY <2>1, Referred
  <2> QED BY <2>1, <2>2 DEF Roots
<1> QED BY <1>1, TreeInvariant, PTL

\* A directory has one entry of a name; and when no call changes the tree an inode has as
\* many links as there are entries of it, and is free if it has neither links nor users.
THEOREM TreeStaysSound == Orderly => (Spec => []TreeIsSound)
<1>1. IInv => TreeIsSound
  <2> SUFFICES ASSUME IInv PROVE TreeIsSound
    OBVIOUS
  <2>1. \A e, f \in disk.entries : e.dir = f.dir /\ e.name = f.name => e = f
    BY TreeIs DEF Tree, Unique
  <2>2. ASSUME AtRest, NEW i \in Inodes
        PROVE  /\ disk.nlinks[i] = Cardinality({e \in disk.entries : e.inode = i /\ disk.nlinks[e.dir] > 0})
               /\ disk.kind[i] = "free" <=> disk.nlinks[i] = 0 /\ count[i] = 0
    <3>1. TreeOn(disk, NoCall) /\ FreeIs
      BY <2>2, WorkerKnows
    <3>2. Tree(disk.kind, disk.nlinks, disk.entries, {}, {}, {})
      BY <3>1, EndKnows, NoCallEnds, NothingLeft
    <3>3. disk.nlinks[i] = Cardinality(Counted(disk.nlinks, disk.entries, i))
      BY <3>2 DEF Tree, Linked
    <3> QED BY <3>1, <3>3 DEF Counted, FreeIs
  <2> QED BY <2>1, <2>2 DEF TreeIsSound
<1> QED BY <1>1, TreeInvariant, PTL
=============================================================================
