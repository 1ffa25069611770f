-------------------------------- MODULE Mounts --------------------------------
(***************************************************************************)
(* Mount, Unmount and Shutdown (minixfs/fs/syscalls.go, minixfs/fs/util.go) *)
(* and the paths that lead across mount points meanwhile: the tables of     *)
(* FileSystem, what the block cache knows of the devices, and the           *)
(* references to inodes that a mount holds.                                 *)
(*                                                                         *)
(* Clients are processes that are spawned in the root directory and change  *)
(* their working directory; any of them may also mount and unmount.  Paths  *)
(* are followed a request at a time, without the lock of the devices; Spawn *)
(* and Exit take it for reading, and are one step.  All devices have the    *)
(* same tree: Names in the root directory.  Bitmaps come and go with their  *)
(* devices, and are left out.                                               *)
(*                                                                         *)
(* A definition introduced in parentheses is a faulty variant of the one    *)
(* that follows it: putting it in that one's place breaks a property.       *)
(***************************************************************************)
EXTENDS Integers, Sequences, FiniteSets

CONSTANTS Clients, Devs,
          NR_DEVICES,     \* the number of slots of the tables
          RootDev,        \* the device that the file system is opened with
          Strange,        \* devices without a Minix file system
          Names,          \* entries of a root directory, which are their numbers
          Files,          \* those that are not directories
          Requests,
          nil,
          Wild            \* "race": paths are followed while devices are unmounted,
                          \* "reuse": slots that had another device are used again

ROOT_DEVICE == 0
ROOT_INODE == 1
Up == 0                 \* the name ..
Slots == 0 .. NR_DEVICES - 1
Inodes == Slots \X ({ROOT_INODE} \cup Names)
Root == <<ROOT_DEVICE, ROOT_INODE>>

ASSUME ClientsAssumption == IsFiniteSet(Clients)
ASSUME SlotsAssumption == NR_DEVICES \in Nat \ {0}
ASSUME NamesAssumption ==
  /\ Names \subseteq Nat /\ IsFiniteSet(Names) /\ {Up, ROOT_INODE} \cap Names = {}
  /\ Files \subseteq Names
ASSUME DevsAssumption == nil \notin Devs \cup Inodes /\ RootDev \in Devs \ Strange
ASSUME RequestsAssumption ==
  \A r \in Requests :
    /\ r.op \in {"spawn", "exit", "chdir", "mount", "unmount", "shutdown"}
    /\ r.op \in {"chdir", "mount"} => r.path \in Seq(Names \cup {Up}) /\ r.path # <<>>
    /\ r.op \in {"mount", "unmount"} => r.dev \in Devs

VARIABLES devices,      \* fs.devices
          mountinfo,    \* fs.mountinfo
          devs,         \* the devices that the block cache reads
          open,         \* the devices that are not closed
          count,        \* CacheInode.Count
          mount,        \* the inodes whose Mount is set
          rootproc,     \* whether the root process has its root directory
          workdir,      \* the working directories of the processes
          lock,         \* who holds fs.m.device for writing
          call,
          status        \* "up", "closed" by Shutdown, "down" when the server of the
                        \* inode cache has ended, or "panicked"

tables == <<devices, mountinfo, devs, open>>
vars == <<tables, count, mount, rootproc, workdir, lock, call, status>>

NoRequest == [op |-> "none"]
NoCall == [pc |-> "idle", req |-> NoRequest, rest |-> <<>>, dirp |-> Root, rip |-> Root,
           slot |-> ROOT_DEVICE]
NoMount == [imount |-> nil, isup |-> nil]
IsDirectory(i) == i[2] \notin Files
-----------------------------------------------------------------------------
Idle(c) == call[c].pc = "idle"
At(c, pc) == status = "up" /\ call[c].pc = pc
Is(c, op) == ~Idle(c) /\ call[c].req.op = op
Go(c, pc) == call' = [call EXCEPT ![c].pc = pc]
Return(c) == call' = [call EXCEPT ![c] = NoCall] /\ lock' = lock \ {c}
Panic == status' = "panicked" /\ UNCHANGED <<tables, count, mount, rootproc, workdir, lock, call>>

\* An inode is loaded from its device when its first client comes, and a
\* directory is read from it.  A device that is closed panics.
Reads(s) == devs[s] \in open
Loads(i) == count[i] > 0 \/ Reads(i[1])

One(i, s) == IF i \in s THEN 1 ELSE 0
Moved(gets, puts) == count' = [i \in Inodes |-> count[i] + One(i, gets) - One(i, puts)]

\* IsDeviceBusy.  (IsTaken: an inode but the root is used.)
Users(s) == {i \in Inodes : i[1] = s /\ count[i] > 0}
IsTaken(s) == Users(s) \ {<<s, ROOT_INODE>>} # {}
Busy(s) == Cardinality(Users(s)) > 1 \/ \E i \in Users(s) : count[i] > 1
-----------------------------------------------------------------------------
(* Rules that keep out of what the code does not do right. *)

Walking(c) == call[c].pc \in {"lookup", "cross", "found"}
Unmounting(c) == Is(c, "unmount") \/ Is(c, "shutdown")
Quiet == "race" \in Wild \/ \A c \in Clients : ~Walking(c)
Settled == "race" \in Wild \/ \A c \in Clients : ~Unmounting(c)
MayCall(c, r) == status = "up" /\ Idle(c) /\ r.client = c

\* The slot a device is put in: the last one that is free.  (AnySlot: one with a
\* device.)
AnySlot == CHOOSE s \in Slots : \A u \in Slots : u <= s
FreeIndex == CHOOSE s \in Slots : devices[s] = nil /\ \A u \in Slots : devices[u] = nil => u <= s
-----------------------------------------------------------------------------
(* Following a path: lastDir, eatPath and advance. *)

\* dupInode.
Dup(i) == {i}

Follow(c, r, from, s) ==
  /\ Moved(Dup(from), {})
  /\ call' = [call EXCEPT ![c] = [pc |-> "lookup", req |-> r, rest |-> r.path, dirp |-> from,
                                 rip |-> Root, slot |-> s]]

\* What a name leads to, mount points left aside; Up in the root directory of a
\* mounted device leads to the directory that has its mount point.
Above(i) == mountinfo[i[1]].imount
Leaves(i, name) == name = Up /\ i[2] = ROOT_INODE /\ i # Root /\ devices[i[1]] # nil
Named(i, name) ==
  IF name = Up THEN {<<IF Leaves(i, name) THEN Above(i)[1] ELSE i[1], ROOT_INODE>>}
  ELSE {<<i[1], n>> : n \in IF i[2] = ROOT_INODE THEN {name} ELSE {}}

\* MountFail: the block cache keeps the device, which is closed.
Fail(c) ==
  /\ Return(c)
  /\ IF Is(c, "mount")
     THEN /\ devices' = [devices EXCEPT ![call[c].slot] = nil]
          /\ open' = open \ {call[c].req.dev}
     ELSE UNCHANGED <<devices, open>>
  /\ UNCHANGED <<mountinfo, devs>>

Lookup(c) ==
  LET dirp == call[c].dirp
      found == Named(dirp, Head(call[c].rest))
  IN  /\ At(c, "lookup")
      /\ IF ~Reads(dirp[1]) \/ \E i \in found : ~Loads(i) THEN Panic
         ELSE /\ \/ /\ found = {} \/ ~IsDirectory(dirp)
                    /\ Moved({}, {dirp})
                    /\ Fail(c)
                 \/ \E i \in found :
                      /\ IsDirectory(dirp)
                      /\ Moved({i}, {})
                      /\ call' = [call EXCEPT ![c].pc = "cross", ![c].rip = i]
                      /\ UNCHANGED <<tables, lock>>
              /\ UNCHANGED <<mount, rootproc, workdir, status>>

\* The slots are searched from the first one on, and again while there is none.
Crossings(i) == {s \in Slots : mountinfo[s].imount = i}

Cross(c) ==
  LET rip == call[c].rip
      s == CHOOSE u \in Crossings(rip) : \A v \in Crossings(rip) : u <= v
  IN  /\ At(c, "cross") /\ rip \in mount /\ Crossings(rip) # {}
      /\ IF ~Loads(<<s, ROOT_INODE>>) THEN Panic
         ELSE /\ Moved({<<s, ROOT_INODE>>}, {rip})
              /\ call' = [call EXCEPT ![c].rip = <<s, ROOT_INODE>>]
              /\ UNCHANGED <<tables, mount, rootproc, workdir, lock, status>>

Arrive(c) ==
  LET rest == Tail(call[c].rest)
  IN  /\ At(c, "cross") /\ call[c].rip \notin mount
      /\ Moved({}, {call[c].dirp})
      /\ call' = [call EXCEPT ![c].pc = IF rest = <<>> THEN "found" ELSE "lookup",
                              ![c].rest = rest, ![c].dirp = call[c].rip]
      /\ UNCHANGED <<tables, mount, rootproc, workdir, lock, status>>
-----------------------------------------------------------------------------
(* Spawn, Chdir and Exit *)

Spawn(c, r) ==
  /\ r.op = "spawn" /\ MayCall(c, r) /\ lock = {} /\ workdir[c] = nil
  /\ workdir' = [workdir EXCEPT ![c] = Root]
  /\ Moved(Dup(Root), {})
  /\ UNCHANGED <<tables, mount, rootproc, lock, call, status>>

Exit(c, r) ==
  /\ r.op = "exit" /\ MayCall(c, r) /\ lock = {} /\ workdir[c] = Root
  /\ workdir' = [workdir EXCEPT ![c] = nil]
  /\ Moved({}, {Root})
  /\ UNCHANGED <<tables, mount, rootproc, lock, call, status>>

Chdir(c, r) ==
  /\ r.op = "chdir" /\ MayCall(c, r) /\ workdir[c] # nil /\ Settled
  /\ Follow(c, r, IF Head(r.path) = Up THEN workdir[c] ELSE Root, ROOT_DEVICE)
  /\ UNCHANGED <<tables, mount, rootproc, workdir, lock, status>>

EndChdir(c) ==
  LET rip == call[c].rip
  IN  /\ At(c, "found") /\ Is(c, "chdir")
      /\ IF IsDirectory(rip)
         THEN Moved({}, {workdir[c]}) /\ workdir' = [workdir EXCEPT ![c] = rip]
         ELSE Moved({}, {rip}) /\ UNCHANGED workdir
      /\ Return(c)
      /\ UNCHANGED <<tables, mount, rootproc, status>>
-----------------------------------------------------------------------------
(* Mount *)

\* Refused are a device that is mounted, one device too many and a device that
\* holds something else.  A device that the block cache has in the slot stays.
Mount(c, r) ==
  /\ r.op = "mount" /\ MayCall(c, r) /\ lock = {} /\ r.dev \in open
  /\ \A s \in Slots : devices[s] # r.dev
  /\ \E s \in Slots : devices[s] = nil
  /\ "reuse" \in Wild \/ devs[FreeIndex] = devices[FreeIndex]
  /\ LET s == FreeIndex
     IN  IF r.dev \in Strange
         THEN open' = open \ {r.dev} /\ UNCHANGED <<devices, devs, count, lock, call>>
         ELSE /\ devices' = [devices EXCEPT ![s] = r.dev]
              /\ devs' = [devs EXCEPT ![s] = IF @ = nil THEN r.dev ELSE @]
              /\ Follow(c, r, Root, s)
              /\ lock' = {c}
              /\ UNCHANGED open
  /\ UNCHANGED <<mountinfo, mount, rootproc, workdir, status>>

\* A mount point in use is refused, which ends the server of the inode cache: it
\* is given a nil inode.  One that is a file is refused and all is undone.
MountRoot(c) ==
  LET rip == call[c].rip
      s == call[c].slot
  IN  /\ At(c, "found") /\ Is(c, "mount")
      /\ IF count[rip] = 1 /\ ~Reads(s) THEN Panic
         ELSE /\ \/ /\ count[rip] > 1
                    /\ Moved({}, {rip}) /\ Go(c, "hung") /\ status' = "down"
                    /\ UNCHANGED <<tables, lock>>
                 \/ /\ count[rip] = 1 /\ IsDirectory(rip)
                    /\ Moved({<<s, ROOT_INODE>>}, {}) /\ Go(c, "rooted")
                    /\ UNCHANGED <<tables, lock, status>>
                 \/ /\ count[rip] = 1 /\ ~IsDirectory(rip)
                    /\ Moved({}, {rip}) /\ Return(c)
                    /\ devices' = [devices EXCEPT ![s] = nil]
                    /\ devs' = [devs EXCEPT ![s] = nil]
                    /\ open' = open \ {call[c].req.dev}
                    /\ UNCHANGED <<mountinfo, status>>
              /\ UNCHANGED <<mount, rootproc, workdir>>

SetMount(c) ==
  /\ At(c, "rooted")
  /\ mount' = mount \cup {call[c].rip}
  /\ Go(c, "flagged")
  /\ UNCHANGED <<tables, count, rootproc, workdir, lock, status>>

\* (InfoSwapped: the two inodes in the wrong order.)
InfoSwapped(c) == [imount |-> <<call[c].slot, ROOT_INODE>>, isup |-> call[c].rip]
Info(c) == [imount |-> call[c].rip, isup |-> <<call[c].slot, ROOT_INODE>>]

EndMount(c) ==
  /\ At(c, "flagged")
  /\ mountinfo' = [mountinfo EXCEPT ![call[c].slot] = Info(c)]
  /\ Return(c)
  /\ UNCHANGED <<devices, devs, open, count, mount, rootproc, workdir, status>>
-----------------------------------------------------------------------------
(* Unmount and Shutdown *)

\* The first slot of the device; Shutdown takes the slots one by one, the root
\* device last.
Unmount(c, r) ==
  /\ r.op = "unmount" /\ MayCall(c, r) /\ lock = {} /\ Quiet
  /\ \E s \in Slots \ {ROOT_DEVICE} : devices[s] = r.dev
  /\ call' = [call EXCEPT ![c].pc = "unmount", ![c].req = r,
                          ![c].slot = CHOOSE s \in Slots : devices[s] = r.dev]
  /\ lock' = {c}
  /\ UNCHANGED <<tables, count, mount, rootproc, workdir, status>>

Shutdown(c, r) ==
  /\ r.op = "shutdown" /\ MayCall(c, r) /\ lock = {} /\ Quiet
  /\ call' = [call EXCEPT ![c].pc = "next", ![c].req = r]
  /\ lock' = {c}
  /\ UNCHANGED <<tables, count, mount, rootproc, workdir, status>>

Mounted == {s \in Slots \ {ROOT_DEVICE} : devices[s] # nil}

NextDevice(c) ==
  /\ At(c, "next") /\ Mounted # {}
  /\ call' = [call EXCEPT ![c].pc = "unmount",
                          ![c].slot = CHOOSE s \in Mounted : \A u \in Mounted : s <= u]
  /\ UNCHANGED <<tables, count, mount, rootproc, workdir, lock, status>>

IsBusy(c) ==
  /\ At(c, "unmount")
  /\ \/ Busy(call[c].slot) /\ Return(c)
     \/ ~Busy(call[c].slot) /\ Go(c, "release") /\ UNCHANGED lock
  /\ UNCHANGED <<tables, count, mount, rootproc, workdir, status>>

\* The inode mounted on returns to normal.  (KeepFlag: it does not.)
KeepFlag(info) == mount
Normal(info) == mount \ {info.imount}

\* (KeepPoint: the inode mounted on is not put.)
KeepPoint(info) == {info.isup}
Given(info) == {info.imount, info.isup}

Release(c) ==
  LET info == mountinfo[call[c].slot]
  IN  /\ At(c, "release")
      /\ mount' = Normal(info)
      /\ Moved({}, Given(info))
      /\ Go(c, "close")
      /\ UNCHANGED <<tables, rootproc, workdir, lock, status>>

\* mountinfo stays as it is, and so does the device in the block cache.
CloseDevice(c) ==
  LET s == call[c].slot
  IN  /\ At(c, "close")
      /\ open' = open \ {devices[s]}
      /\ devices' = [devices EXCEPT ![s] = nil]
      /\ IF Is(c, "shutdown") THEN Go(c, "next") /\ UNCHANGED lock ELSE Return(c)
      /\ UNCHANGED <<mountinfo, devs, count, mount, rootproc, workdir, status>>

ShutdownRoot(c) ==
  /\ At(c, "next") /\ Mounted = {}
  /\ \/ Busy(ROOT_DEVICE) /\ Return(c) /\ UNCHANGED <<tables, count, rootproc, status>>
     \/ /\ ~Busy(ROOT_DEVICE)
        /\ rootproc' = FALSE /\ Moved({}, {Root})
        /\ devices' = [devices EXCEPT ![ROOT_DEVICE] = nil]
        /\ open' = open \ {devices[ROOT_DEVICE]}
        /\ status' = "closed" /\ Return(c)
        /\ UNCHANGED <<mountinfo, devs>>
  /\ UNCHANGED <<mount, workdir>>
-----------------------------------------------------------------------------
Init ==
  /\ devices = [s \in Slots |-> IF s = ROOT_DEVICE THEN RootDev ELSE nil]
  /\ mountinfo = [s \in Slots |-> NoMount]
  /\ devs = devices /\ open = Devs
  /\ count = [i \in Inodes |-> One(i, {Root})]
  /\ mount = {} /\ rootproc = TRUE
  /\ workdir = [c \in Clients |-> nil]
  /\ lock = {}
  /\ call = [c \in Clients |-> NoCall]
  /\ status = "up"

Begins(c, r) ==
  \/ Spawn(c, r) \/ Exit(c, r) \/ Chdir(c, r)
  \/ Mount(c, r) \/ Unmount(c, r) \/ Shutdown(c, r)

Goes(c) ==
  \/ Lookup(c) \/ Cross(c) \/ Arrive(c) \/ EndChdir(c)
  \/ MountRoot(c) \/ SetMount(c) \/ EndMount(c)
  \/ NextDevice(c) \/ IsBusy(c) \/ Release(c) \/ CloseDevice(c) \/ ShutdownRoot(c)

Next == \E c \in Clients : Goes(c) \/ \E r \in Requests : Begins(c, r)

\* The server of the inode cache answers everybody.
Fairness == \A c \in Clients : WF_vars(Goes(c))

Spec == Init /\ [][Next]_vars /\ Fairness
-----------------------------------------------------------------------------
(* Properties *)

\* What the call of a client, its process and a mount have references to.
CallHas(c) ==
  CASE call[c].pc = "lookup" -> <<call[c].dirp>>
    [] call[c].pc = "cross" -> <<call[c].dirp, call[c].rip>>
    [] call[c].pc = "found" -> <<call[c].rip>>
    [] call[c].pc \in {"rooted", "flagged"} -> <<call[c].rip, <<call[c].slot, ROOT_INODE>>>>
    [] OTHER -> <<>>
IsGiven(s) == \E c \in Clients : call[c].pc = "close" /\ call[c].slot = s
MountHas(s) ==
  IF devices[s] = nil \/ s = ROOT_DEVICE \/ IsGiven(s) \/ mountinfo[s] = NoMount THEN <<>>
  ELSE <<mountinfo[s].imount, mountinfo[s].isup>>
Refers(has, k, i) == k \in DOMAIN has /\ has[k] = i

\* The count of an inode is that of the processes, calls and mounts that use it:
\* no mount, whether it fails or is undone, leaves a reference or takes one.
CountIsReferences ==
  \A i \in Inodes :
    count[i] = Cardinality({c \in Clients : workdir[c] = i})
               + (IF i = Root /\ rootproc THEN 1 ELSE 0)
               + Cardinality({u \in Clients \X {1, 2} : Refers(CallHas(u[1]), u[2], i)})
               + Cardinality({u \in Slots \X {1, 2} : Refers(MountHas(u[1]), u[2], i)})

\* A device is mounted once, open, and what the block cache reads in its slot.
MountedIsRead ==
  \A s \in Slots : devices[s] # nil =>
    /\ devices[s] \in open /\ devs[s] = devices[s]
    /\ \A u \in Slots : devices[u] = devices[s] => u = s

\* When the lock of the devices is free a mounted device covers an inode that
\* leads to it and to no other, and the others lead nowhere.
MountPointsLead ==
  lock = {} =>
    /\ mount = {mountinfo[s].imount : s \in Mounted}
    /\ \A s \in Mounted : Crossings(mountinfo[s].imount) = {s}

\* An inode in use is one of a mounted device, and after Shutdown none is.
UsedIsMounted ==
  /\ \A s \in Slots : Users(s) # {} => devices[s] # nil
  /\ status = "closed" => \A i \in Inodes : count[i] = 0

\* No device is read that has been closed.
NeverPanics == status # "panicked"

\* Every call returns as long as the program is up.
EveryCallReturns == \A c \in Clients : ~Idle(c) ~> Idle(c) \/ status # "up"
=============================================================================
