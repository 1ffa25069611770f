------------------------------ MODULE Syscalls ------------------------------
(***************************************************************************)
(* The system calls of minixfs/fs/syscalls.go and the helpers they share    *)
(* (minixfs/fs/util.go): the tables of processes and open files, and the    *)
(* references to inodes that calls take and give back on their way through  *)
(* the tree.  Threads call concurrently, several of them for one process.   *)
(*                                                                         *)
(* A step of a call is one request to the server of a directory or of the   *)
(* inode cache that others can tell apart, with the references that are     *)
(* given back right after it.  The servers are taken at what they promise   *)
(* (AtomicDirectory, OpenInodes): an inode is in the cache while its count  *)
(* is above 0, and the last PutInode of one without links frees it.  Count, *)
(* Nlinks and the entries belong to the inode, whose pointer is stable only *)
(* while it has a reference.                                                *)
(*                                                                         *)
(* A failing call drops references here and there; lost counts them.  The   *)
(* contents of files, O_TRUNC, permissions and mounted devices are left     *)
(* out, and the increment of a count in dupInode, which the inode cache     *)
(* does not see, is one step.                                               *)
(*                                                                         *)
(* A definition introduced in parentheses is a faulty variant of the one    *)
(* that follows it: putting it in that one's place breaks a property.       *)
(***************************************************************************)
EXTENDS Integers, Sequences, FiniteSets

CONSTANTS Threads,
          Pids,         \* the processes that are spawned; the root process is none
          Inodes,       \* inode numbers
          OPEN_MAX,     \* the number of descriptors of a process
          NR_FILPS,     \* the number of entries of fs.filps
          Requests,     \* the calls that threads make
          MaxLost,      \* no calls are made when so many references are lost
          Wild          \* "race": calls that change the tree overlap,
                        \* "space": a zone is freed while a Mkdir fails for want of one,
                        \* "exitOpen": processes exit whatever files they have open,
                        \* "chdir": processes change directory without care

Root == 1               \* ROOT_INODE
ProcTable == 0          \* stands for the process table among the mutexes: fs.m.proc
Uint16 == 65536         \* the numbers that Nlinks can be
Fds == 0 .. OPEN_MAX - 1
Filps == 0 .. NR_FILPS - 1

PathCalls == {"open", "mkdir", "unlink", "rmdir", "chdir", "spawn"}

\* What filepath.Clean leaves of a path, split at the slashes: / is <<"">>, names
\* follow on .., and .. only begins a path from the working directory.
Plain == STRING \ {"", ".", ".."}
IsClean(from, path) ==
  IF from = "rootdir" THEN path = <<"">> \/ path \in Seq(Plain) \ {<<>>}
  ELSE path = <<".">> \/ \E n \in 0 .. Len(path) :
         \A k \in 1 .. Len(path) : IF k <= n THEN path[k] = ".." ELSE path[k] \in Plain

ASSUME ProgramAssumption ==
  /\ IsFiniteSet(Threads) /\ IsFiniteSet(Pids)
  /\ OPEN_MAX \in Nat /\ NR_FILPS \in Nat /\ MaxLost \in Nat
\* Inode numbers have 16 bits.
ASSUME InodesAssumption ==
  /\ Root \in Inodes /\ 0 \notin Inodes \cup Pids /\ Inodes # {Root}
  /\ IsFiniteSet(Inodes) /\ Cardinality(Inodes) < Uint16 - 2
ASSUME RequestsAssumption ==
  \A r \in Requests :
    /\ r.op \in PathCalls \cup {"close", "seek", "read", "write", "exit"} /\ r.pid \in Pids
    /\ r.op \in PathCalls => r.path \in Seq(STRING) \ {<<>>} /\ IsClean(r.from, r.path)
    /\ r.op \in {"close", "seek", "read", "write"} => r.fd \in Fds

VARIABLES disk,     \* the kind, Nlinks and directory entries of the inodes
          count,    \* count[i]: CacheInode.Count
          lost,     \* lost[i]: references that failed calls have dropped
          procs,    \* fs.procs
          filps,    \* fs.filps: whose Filp is in a slot
          mutex,    \* who holds fs.m.proc and the mutex of a process
          call,     \* the call of a thread: what it has found and where it is
          status    \* "up", or "down" when the server of the inode cache has
                    \* ended, or "panicked"

vars == <<disk, count, lost, procs, filps, mutex, call, status>>

NoProcess == [workdir |-> 0]
NoFile == [filpidx |-> -1, inode |-> 0]
NoFilp == [pid |-> 0, fd |-> -1]
NoRequest == [op |-> "none"]
\* A call that has no inode.
Bare(pc, r) == [pc |-> pc, req |-> r, rest |-> <<>>, dirp |-> 0, rip |-> 0]
NoCall == Bare("idle", NoRequest)
-----------------------------------------------------------------------------
(* Paths *)

Updates == {"mkdir", "unlink", "rmdir"}
Changes(r) == r.op \in Updates \/ (r.op = "open" /\ "O_CREAT" \in r.flags)

\* Spawn looks its path up for the root process.
RootOf(r) == IF r.op = "spawn" THEN Root ELSE procs[r.pid].rootdir
StartOf(r) == IF r.op # "spawn" /\ r.from = "workdir" THEN procs[r.pid].workdir ELSE RootOf(r)

Named(dirp, name) == {e \in disk.entries : e.dir = dirp /\ e.name = name}
StaysAt(r, dirp, name) == name = "" \/ (dirp = RootOf(r) /\ name = "..")

\* advance: the inodes that can be found.
Found(r, dirp, name) ==
  IF StaysAt(r, dirp, name) THEN {dirp} ELSE {e.inode : e \in Named(dirp, name)}

\* A file has no Dinode; and for . in the root directory advance looks at path[1].
Stumbles(r, dirp, name) ==
  /\ ~StaysAt(r, dirp, name)
  /\ disk.kind[dirp] # "dir" \/ (dirp = Root /\ Root \in Found(r, dirp, name))
-----------------------------------------------------------------------------
(* References *)

Times(i, s) == Cardinality({k \in DOMAIN s : s[k] = i})

\* GetInode and NewInode for each of gets, PutInode for each of puts; with the
\* last one an inode without links is freed.  (FreeUnlinked: a put frees it.)
FreeUnlinked(puts, links, after) == {i \in Inodes : Times(i, puts) > 0 /\ links[i] = 0}
Freed(puts, links, after) == {i \in Inodes : Times(i, puts) > 0 /\ after[i] = 0 /\ links[i] = 0}

Settle(gets, puts, new) ==
  LET after == [i \in Inodes |-> count[i] + Times(i, gets) - Times(i, puts)]
      gone == Freed(puts, new.nlinks, after)
  IN  /\ count' = after
      /\ disk' = [kind |-> [i \in Inodes |-> IF i \in gone THEN "free" ELSE new.kind[i]],
                  nlinks |-> new.nlinks,
                  entries |-> {e \in new.entries : e.dir \notin gone}]

Lose(refs) == lost' = [i \in Inodes |-> lost[i] + Times(i, refs)]
Go(t, c) == call' = [call EXCEPT ![t] = c]

\* The deferred unlocks run, too.  (KeepMutexes: they do not.)
KeepMutexes(t) == UNCHANGED mutex
Unlock(t) == mutex' = [m \in DOMAIN mutex |-> IF mutex[m] = {t} THEN {} ELSE mutex[m]]
Return(t) == call' = [call EXCEPT ![t] = NoCall] /\ Unlock(t)

Panic == status' = "panicked" /\ UNCHANGED <<disk, count, lost, procs, filps, mutex, call>>

\* What is left after a step of a call that only moves references.
Tables == <<procs, filps, status>>
-----------------------------------------------------------------------------
(* The rules that well-behaved processes keep. *)

Idle(t) == call[t].pc = "idle"
Alive(p) == procs[p] # NoProcess
CallsOf(p) == {t \in Threads : ~Idle(t) /\ call[t].req.pid = p}
IsOpen(p, fd) == Alive(p) /\ procs[p].files[fd] # NoFile
AtRest == \A t \in Threads : ~Idle(t) => ~Changes(call[t].req)
TotalLost == Cardinality({l \in Inodes \X (1 .. MaxLost) : l[2] <= lost[l[1]]})

MayCall(t, r) ==
  /\ Idle(t) /\ TotalLost < MaxLost
  /\ IF r.op = "spawn" THEN ~Alive(r.pid) /\ CallsOf(r.pid) = {} ELSE Alive(r.pid)
  /\ \A u \in CallsOf(r.pid) : call[u].req.op # "exit"
  /\ Changes(r) => "race" \in Wild \/ AtRest
  /\ r.op = "exit" =>
       /\ CallsOf(r.pid) = {}
       /\ "exitOpen" \in Wild \/ \A fd \in Fds : IsOpen(r.pid, fd) => procs[r.pid].files[fd].filpidx = fd
       /\ "chdir" \in Wild \/ procs[r.pid].workdir = procs[r.pid].rootdir
  /\ r.op = "chdir" => "chdir" \in Wild \/ procs[r.pid].rootdir = Root

LocksOf(r) == CASE r.op = "spawn" -> {ProcTable}
                [] r.op = "exit" -> {ProcTable, r.pid}
                [] r.op = "chdir" -> {r.pid}
                [] OTHER -> {}

Locked(t, r) ==
  /\ \A m \in LocksOf(r) : mutex[m] = {}
  /\ mutex' = [m \in DOMAIN mutex |-> IF m \in LocksOf(r) THEN {t} ELSE mutex[m]]
-----------------------------------------------------------------------------
(* lastDir, which every call with a path starts with. *)

\* In a directory that has been removed it fails at once: only Mkdir does more
\* then (see Fail).
Start(t, r) ==
  /\ r.op \in PathCalls /\ MayCall(t, r) /\ Locked(t, r)
  /\ \/ /\ disk.nlinks[StartOf(r)] > 0
        /\ Settle(<<StartOf(r)>>, <<>>, disk)
        /\ Go(t, [pc |-> "walk", req |-> r, rest |-> r.path, dirp |-> StartOf(r), rip |-> 0])
        /\ UNCHANGED status
     \/ /\ disk.nlinks[StartOf(r)] = 0 /\ r.op = "mkdir"
        /\ Go(t, Bare("hung", r))
        /\ status' = "down"
        /\ UNCHANGED <<disk, count>>
  /\ UNCHANGED <<lost, procs, filps>>

At(t, pc) == status = "up" /\ call[t].pc = pc
Is(t, op) == ~Idle(t) /\ call[t].req.op = op
IsCreat(t) == Is(t, "mkdir") \/ (Is(t, "open") /\ "O_CREAT" \in call[t].req.flags)

\* The server of the inode cache ends when Mkdir, which tests for EEXIST or
\* nothing, gives back what newNode has not returned.
Fail(t) ==
  IF Is(t, "mkdir")
  THEN /\ Go(t, Bare("hung", call[t].req))
       /\ status' = "down"
       /\ UNCHANGED mutex
  ELSE Return(t) /\ UNCHANGED status

Walk(t) ==
  LET c == call[t]
      found == Found(c.req, c.dirp, Head(c.rest))
  IN  /\ At(t, "walk") /\ Len(c.rest) > 1
      /\ IF Stumbles(c.req, c.dirp, Head(c.rest)) THEN Panic
         ELSE /\ \/ found = {} /\ Settle(<<>>, <<c.dirp>>, disk) /\ Fail(t)
                 \/ \E i \in found :
                      /\ Settle(<<i>>, <<c.dirp>>, disk)
                      /\ Go(t, [c EXCEPT !.dirp = i, !.rest = Tail(@)])
                      /\ UNCHANGED <<mutex, status>>
              /\ UNCHANGED <<lost, procs, filps>>

NotADirectory(t) ==
  /\ At(t, "walk") /\ Len(call[t].rest) = 1 /\ disk.kind[call[t].dirp] # "dir"
  /\ Settle(<<>>, <<call[t].dirp>>, disk)
  /\ Fail(t)
  /\ UNCHANGED <<lost, procs, filps>>

AtLast(t) == At(t, "walk") /\ Len(call[t].rest) = 1 /\ disk.kind[call[t].dirp] = "dir"
LastName(t) == call[t].rest[1]
LastFound(t) == Found(call[t].req, call[t].dirp, LastName(t))
LastStumbles(t) == Stumbles(call[t].req, call[t].dirp, LastName(t))

\* Open without O_CREAT, Chdir and Spawn.  (KeepParent: the parent directory is
\* not given back.)
KeepParent(t) == <<>>
Parent(t) == <<call[t].dirp>>

EatPath(t) ==
  /\ AtLast(t) /\ ~IsCreat(t) /\ ~(Is(t, "unlink") \/ Is(t, "rmdir"))
  /\ IF LastStumbles(t) THEN Panic
     ELSE /\ \/ /\ LastName(t) = ""
                /\ Go(t, [call[t] EXCEPT !.pc = "got", !.rip = call[t].dirp, !.dirp = 0])
                /\ UNCHANGED <<disk, count, mutex>>
             \/ /\ LastFound(t) = {}
                /\ Settle(<<>>, Parent(t), disk)
                /\ Return(t)
             \/ \E i \in LastFound(t) :
                  /\ LastName(t) # ""
                  /\ Settle(<<i>>, Parent(t), disk)
                  /\ Go(t, [call[t] EXCEPT !.pc = "got", !.rip = i, !.dirp = 0])
                  /\ UNCHANGED mutex
          /\ UNCHANGED <<lost, Tables>>
-----------------------------------------------------------------------------
(* newNode: Open with O_CREAT, and Mkdir. *)

\* (LooksPast: the name is not looked up.)
LooksPast(t) == {}
Existing(t) == LastFound(t)

LookFirst(t) ==
  /\ AtLast(t) /\ IsCreat(t)
  /\ IF LastStumbles(t) THEN Panic
     ELSE /\ \/ Existing(t) = {} /\ Go(t, [call[t] EXCEPT !.pc = "make"]) /\ UNCHANGED <<disk, count>>
             \/ \E i \in Existing(t) : Settle(<<i>>, <<>>, disk) /\ Go(t, [call[t] EXCEPT !.pc = "exists", !.rip = i])
          /\ UNCHANGED <<lost, mutex, Tables>>

KindOf(t) == IF Is(t, "mkdir") THEN "dir" ELSE "file"

\* The error of AllocInode is not looked at: there is no inode -1 to load.
MakeInode(t) ==
  /\ At(t, "make")
  /\ IF \A i \in Inodes : disk.kind[i] # "free" THEN Panic
     ELSE /\ \E i \in Inodes :
               /\ disk.kind[i] = "free"
               /\ Settle(<<i>>, <<>>, [disk EXCEPT !.kind = [@ EXCEPT ![i] = KindOf(t)],
                                                   !.nlinks = [@ EXCEPT ![i] = 1]])
               /\ Go(t, [call[t] EXCEPT !.pc = "link", !.rip = i])
          /\ UNCHANGED <<lost, mutex, Tables>>

\* (LinkStays: Nlinks is not decremented.)
LinkStays(nlinks, i) == nlinks
OneMore(nlinks, i) == [nlinks EXCEPT ![i] = (@ + 1) % Uint16]
LessOne(nlinks, i) == [nlinks EXCEPT ![i] = (@ - 1) % Uint16]

\* Link fails if the directory must grow and the disk is full.
Link(t) ==
  LET c == call[t]
      entry == [dir |-> c.dirp, name |-> LastName(t), inode |-> c.rip]
  IN  /\ At(t, "link")
      /\ \/ /\ Settle(<<>>, <<>>, [disk EXCEPT !.entries = @ \cup {entry}])
            /\ Go(t, [c EXCEPT !.pc = "made"])
            /\ UNCHANGED <<mutex, status>>
         \/ /\ Settle(<<>>, <<c.dirp, c.rip>>, [disk EXCEPT !.nlinks = LessOne(@, c.rip)])
            /\ Fail(t)
      /\ UNCHANGED <<lost, procs, filps>>

MkdirExists(t) ==
  /\ At(t, "exists") /\ Is(t, "mkdir")
  /\ Settle(<<>>, <<call[t].rip, call[t].dirp>>, disk)
  /\ Return(t)
  /\ UNCHANGED <<lost, Tables>>

\* If . or .. cannot be entered the new directory is removed.  What of them is entered
\* if not both are: .. without . if there is space again.
Left(dot, dotdot) == {{}, dot} \cup IF "space" \in Wild THEN {dotdot} ELSE {}
OneOf(s) == IF s = {} THEN {{}} ELSE {{e} : e \in s}

MkdirDots(t) ==
  LET c == call[t]
      dot == [dir |-> c.rip, name |-> ".", inode |-> c.rip]
      dotdot == [dir |-> c.rip, name |-> "..", inode |-> c.dirp]
  IN  /\ At(t, "made") /\ Is(t, "mkdir")
      /\ \/ Settle(<<>>, <<c.dirp, c.rip>>,
                   [disk EXCEPT !.entries = @ \cup {dot, dotdot},
                                !.nlinks = OneMore(OneMore(@, c.rip), c.dirp)])
         \/ \E gone \in OneOf(Named(c.dirp, LastName(t))), dots \in Left({dot}, {dotdot}) :
              Settle(<<>>, <<c.dirp, c.rip>>,
                     [disk EXCEPT !.entries = (@ \ gone) \cup dots, !.nlinks = LessOne(@, c.rip)])
      /\ Return(t)
      /\ UNCHANGED <<lost, Tables>>
-----------------------------------------------------------------------------
(* Open, Close, Seek, Read and Write *)

\* (OnePastEnd: the scan goes one too far.)
OnePastEnd(p) == {fd \in Fds \cup {Cardinality(Fds)} : fd \notin procs[p].filp}
FreeFds(p) == {fd \in Fds : fd \notin procs[p].filp}
FreeFilps == {k \in Filps : filps[k] = NoFilp}
Least(s) == CHOOSE x \in s : \A y \in s : x <= y

\* exist is set only for a file that O_CREAT has found, and O_EXCL clears it.
RefusesDir(t) ==
  LET c == call[t]
  IN  /\ c.pc = "exists" /\ "O_EXCL" \notin c.req.flags
      /\ disk.kind[c.rip] = "dir" /\ "write" \in c.req.flags

\* Open drops its inode when it has no descriptor for it.
Open(t) ==
  LET c == call[t]
      p == c.req.pid
      fd == Least(FreeFds(p))
      k == Least(FreeFilps)
  IN  /\ (At(t, "got") \/ At(t, "exists") \/ At(t, "made")) /\ Is(t, "open")
      /\ mutex[p] = {}
      /\ Settle(<<>>, IF c.dirp # 0 THEN <<c.dirp>> ELSE <<>>, disk)
      /\ IF FreeFds(p) = {} \/ FreeFilps = {} \/ RefusesDir(t)
         THEN Lose(<<c.rip>>) /\ UNCHANGED <<procs, filps>>
         ELSE /\ procs' = [procs EXCEPT ![p].filp = @ \cup {fd},
                                        ![p].files[fd] = [filpidx |-> k, inode |-> c.rip]]
              /\ filps' = [filps EXCEPT ![k] = [pid |-> p, fd |-> fd]]
              /\ UNCHANGED lost
      /\ Return(t)
      /\ UNCHANGED status

\* The descriptor stays taken.
SlotOf(p, fd) == procs[p].files[fd].filpidx

Close(t, r) ==
  LET p == r.pid
  IN  /\ r.op = "close" /\ MayCall(t, r) /\ IsOpen(p, r.fd) /\ mutex[p] = {}
      /\ Settle(<<>>, <<procs[p].files[r.fd].inode>>, disk)
      /\ procs' = [procs EXCEPT ![p].files[r.fd] = NoFile]
      /\ filps' = [filps EXCEPT ![SlotOf(p, r.fd)] = NoFilp]
      /\ UNCHANGED <<lost, mutex, call, status>>

\* Seek looks for the Filp in the table; Read and Write use that of the file, and
\* a directory has no Finode.  Positions and bytes are left out.
Transfer(t, r) ==
  /\ r.op \in {"seek", "read", "write"} /\ MayCall(t, r) /\ IsOpen(r.pid, r.fd)
  /\ LET f == procs[r.pid].files[r.fd]
     IN  \/ r.op = "seek" /\ filps[f.filpidx] = NoFilp
         \/ r.op \in {"read", "write"} /\ disk.kind[f.inode] # "file"
  /\ Panic
-----------------------------------------------------------------------------
(* Unlink and Rmdir *)

\* unlinkPrep keeps the parent if there is no such entry.
UnlinkPrep(t) ==
  LET c == call[t]
  IN  /\ AtLast(t) /\ (Is(t, "unlink") \/ Is(t, "rmdir"))
      /\ IF LastStumbles(t) THEN Panic
         ELSE /\ \/ LastFound(t) = {} /\ Lose(<<c.dirp>>) /\ Return(t) /\ UNCHANGED <<disk, count>>
                 \/ \E i \in LastFound(t) :
                      /\ IF i = Root THEN Settle(<<>>, <<c.dirp>>, disk) /\ Return(t)
                         ELSE /\ Settle(<<i>>, <<>>, disk)
                              /\ Go(t, [c EXCEPT !.pc = "prepared", !.rip = i])
                              /\ UNCHANGED mutex
                      /\ UNCHANGED lost
              /\ UNCHANGED Tables

\* unlinkFile removes what has the name by now, and takes a link from the inode
\* that had it before.
Unlink(t) ==
  LET c == call[t]
      named == Named(c.dirp, LastName(t))
  IN  /\ At(t, "prepared") /\ Is(t, "unlink")
      /\ \/ named = {} /\ Settle(<<>>, <<c.rip, c.dirp>>, disk)
         \/ \E e \in named :
              Settle(<<>>, <<c.rip, c.dirp>>,
                     [disk EXCEPT !.entries = @ \ {e}, !.nlinks = LessOne(@, c.rip)])
      /\ Return(t)
      /\ UNCHANGED <<lost, Tables>>

\* The early returns of Rmdir keep both inodes.
GiveUp(t) ==
  /\ Lose(<<call[t].rip, call[t].dirp>>)
  /\ Return(t)
  /\ UNCHANGED <<disk, count, Tables>>

IsEmpty(i) == \A e \in disk.entries : e.dir = i => e.name \in {".", ".."}
IsDots(r) == r.from = "workdir" /\ r.path \in {<<".">>, <<"..">>}

RmdirIsEmpty(t) ==
  /\ At(t, "prepared") /\ Is(t, "rmdir")
  /\ IF disk.kind[call[t].rip] # "dir" THEN Panic
     ELSE IF ~IsEmpty(call[t].rip) \/ IsDots(call[t].req) THEN GiveUp(t)
     ELSE Go(t, [call[t] EXCEPT !.pc = "empty"]) /\ UNCHANGED <<disk, count, lost, mutex, Tables>>

RmdirIsUsed(t) ==
  /\ At(t, "empty")
  /\ IF count[call[t].rip] > 1 THEN GiveUp(t)
     ELSE Go(t, [call[t] EXCEPT !.pc = "unused"]) /\ UNCHANGED <<disk, count, lost, mutex, Tables>>

RmdirEntry(t) ==
  LET c == call[t]
      named == Named(c.dirp, LastName(t))
  IN  /\ At(t, "unused")
      /\ \/ named = {} /\ GiveUp(t)
         \/ \E e \in named :
              /\ Settle(<<>>, <<>>, [disk EXCEPT !.entries = @ \ {e}, !.nlinks = LessOne(@, c.rip)])
              /\ Go(t, [c EXCEPT !.pc = "dots"])
              /\ UNCHANGED <<lost, mutex, Tables>>

RmdirDots(t) ==
  LET c == call[t]
      dot == Named(c.rip, ".")
      dotdot == Named(c.rip, "..")
  IN  /\ At(t, "dots")
      /\ \/ (dot = {} \/ dotdot = {}) /\ GiveUp(t)
         \/ \E e \in dot, f \in dotdot :
              /\ Settle(<<>>, <<c.rip, c.dirp>>,
                        [disk EXCEPT !.entries = @ \ {e, f},
                                     !.nlinks = LessOne(LessOne(@, e.inode), f.inode)])
              /\ Return(t)
              /\ UNCHANGED <<lost, Tables>>
-----------------------------------------------------------------------------
(* Chdir, Spawn and Exit *)

Chdir(t) ==
  LET c == call[t]
      p == c.req.pid
  IN  /\ At(t, "got") /\ Is(t, "chdir")
      /\ IF disk.kind[c.rip] # "dir"
         THEN Settle(<<>>, <<c.rip>>, disk) /\ UNCHANGED procs
         ELSE /\ Settle(<<>>, <<procs[p].workdir>>, disk)
              /\ procs' = [procs EXCEPT ![p].workdir = c.rip]
      /\ Return(t)
      /\ UNCHANGED <<lost, filps, status>>

\* One reference serves for both directories.
Spawn(t) ==
  LET c == call[t]
  IN  /\ At(t, "got") /\ Is(t, "spawn")
      /\ procs' = [procs EXCEPT ![c.req.pid] =
                     [rootdir |-> c.rip, workdir |-> c.rip, filp |-> {},
                      files |-> [fd \in Fds |-> NoFile]]]
      /\ Return(t)
      /\ UNCHANGED <<disk, count, lost, filps, status>>

Exit(t, r) ==
  /\ r.op = "exit" /\ MayCall(t, r) /\ Locked(t, r)
  /\ Go(t, Bare("exit", r))
  /\ UNCHANGED <<disk, count, lost, Tables>>

\* close, which empties the slot of the number of the descriptor.
ExitCloses(t) ==
  LET p == call[t].req.pid
      fd == Least({d \in Fds : IsOpen(p, d)})
  IN  /\ At(t, "exit") /\ \E d \in Fds : IsOpen(p, d)
      /\ Settle(<<>>, <<procs[p].files[fd].inode>>, disk)
      /\ procs' = [procs EXCEPT ![p].files[fd] = NoFile, ![p].filp = @ \ {fd}]
      /\ filps' = [filps EXCEPT ![fd] = NoFilp]
      /\ UNCHANGED <<lost, mutex, call, status>>

ExitEnds(t) ==
  LET p == call[t].req.pid
      dirs == IF procs[p].workdir = procs[p].rootdir THEN <<procs[p].rootdir>>
              ELSE <<procs[p].workdir, procs[p].rootdir>>
  IN  /\ At(t, "exit") /\ \A d \in Fds : ~IsOpen(p, d)
      /\ Settle(<<>>, dirs, disk)
      /\ procs' = [procs EXCEPT ![p] = NoProcess]
      /\ Return(t)
      /\ UNCHANGED <<lost, filps, status>>
-----------------------------------------------------------------------------
\* A file system with an empty directory in its root, and no process but the
\* root process.
Dir(i) == [dir |-> i, name |-> ".", inode |-> i]
Init ==
  /\ LET d == CHOOSE i \in Inodes : i # Root
     IN  disk = [kind |-> [i \in Inodes |-> IF i \in {Root, d} THEN "dir" ELSE "free"],
               nlinks |-> [i \in Inodes |-> IF i = Root THEN 3 ELSE IF i = d THEN 2 ELSE 0],
               entries |-> {Dir(Root), Dir(d), [dir |-> Root, name |-> "..", inode |-> Root],
                            [dir |-> Root, name |-> "d", inode |-> d],
                            [dir |-> d, name |-> "..", inode |-> Root]}]
  /\ count = [i \in Inodes |-> IF i = Root THEN 1 ELSE 0]
  /\ lost = [i \in Inodes |-> 0]
  /\ procs = [p \in Pids |-> NoProcess]
  /\ filps = [k \in Filps |-> NoFilp]
  /\ mutex = [m \in Pids \cup {ProcTable} |-> {}]
  /\ call = [t \in Threads |-> NoCall]
  /\ status = "up"

Goes(t) ==
  \/ Walk(t) \/ NotADirectory(t) \/ EatPath(t)
  \/ LookFirst(t) \/ MakeInode(t) \/ Link(t) \/ MkdirExists(t) \/ MkdirDots(t)
  \/ Open(t) \/ UnlinkPrep(t) \/ Unlink(t)
  \/ RmdirIsEmpty(t) \/ RmdirIsUsed(t) \/ RmdirEntry(t) \/ RmdirDots(t)
  \/ Chdir(t) \/ Spawn(t) \/ ExitCloses(t) \/ ExitEnds(t)

Begins(t, r) == status = "up" /\ (Start(t, r) \/ Close(t, r) \/ Transfer(t, r) \/ Exit(t, r))

Next == \E t \in Threads : Goes(t) \/ \E r \in Requests : Begins(t, r)

\* Every server answers, and a mutex is given to those who wait for it.
Fairness == \A t \in Threads : SF_vars(Goes(t))

Spec == Init /\ [][Next]_vars /\ Fairness
-----------------------------------------------------------------------------
(* Properties *)

\* Every variable keeps its shape.
TypeOK ==
  /\ disk.kind \in [Inodes -> {"free", "file", "dir"}]
  /\ disk.nlinks \in [Inodes -> 0 .. Uint16 - 1]
  /\ \A e \in disk.entries : e.dir \in Inodes /\ e.inode \in Inodes
  /\ count \in [Inodes -> Int] /\ lost \in [Inodes -> Nat]
  /\ \A p \in Pids : Alive(p) =>
       /\ procs[p].rootdir \in Inodes /\ procs[p].workdir \in Inodes /\ procs[p].filp \subseteq Fds
       /\ procs[p].files \in [Fds -> {NoFile} \cup [filpidx : Filps, inode : Inodes]]
  /\ filps \in [Filps -> {NoFilp} \cup [pid : Pids, fd : Fds]]
  /\ mutex \in [Pids \cup {ProcTable} -> {{}} \cup {{t} : t \in Threads}]
  /\ status \in {"up", "down", "panicked"}

FilesOn(i) == {f \in Pids \X Fds : IsOpen(f[1], f[2]) /\ procs[f[1]].files[f[2]].inode = i}
CallsOn(i) == Cardinality({t \in Threads : call[t].dirp = i}) + Cardinality({t \in Threads : call[t].rip = i})
RootProcess(i) == IF i = Root THEN 1 ELSE 0
WorkdirsAt(i) == {p \in Pids : procs[p].workdir = i}

\* The references to an inode are those of the open files and of the calls under
\* way, one of every process, for its working directory, and those that a failed
\* call has dropped: no call gives back too much or, but for those, too little.
CountIsReferences ==
  \A i \in Inodes :
    count[i] = RootProcess(i) + Cardinality(WorkdirsAt(i)) + Cardinality(FilesOn(i)) + CallsOn(i) + lost[i]

\* What a process or a call uses is not freed under it: files whose last entry is
\* gone stay until they are closed.
UsedIsAllocated ==
  \A i \in Inodes : disk.kind[i] = "free" =>
    /\ FilesOn(i) = {} /\ CallsOn(i) = 0
    /\ \A p \in Pids : Alive(p) => i \notin {procs[p].rootdir, procs[p].workdir}

\* The root directory of a process has a reference: without one its slot in the
\* inode cache is given to another inode, which the process cannot leave then.
RootdirIsHeld == \A p \in Pids : Alive(p) => count[procs[p].rootdir] > 0

\* A directory has one entry of a name.  When no call changes the tree an inode has
\* as many links as the directories that are left have entries of it, and it is
\* free if it has neither links nor users.
TreeIsSound ==
  /\ \A e, f \in disk.entries : e.dir = f.dir /\ e.name = f.name => e = f
  /\ AtRest => \A i \in Inodes :
       /\ disk.nlinks[i] = Cardinality({e \in disk.entries : e.inode = i /\ disk.nlinks[e.dir] > 0})
       /\ disk.kind[i] = "free" <=> disk.nlinks[i] = 0 /\ count[i] = 0

\* Every call returns, whatever lock it waits for, as long as the program is up.
EveryCallReturns == \A t \in Threads : ~Idle(t) ~> Idle(t) \/ status # "up"
=============================================================================
