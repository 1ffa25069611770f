----------------------------- MODULE InodeCache -----------------------------
(***************************************************************************)
(* The server goroutine of the inode cache (minixfs/inode/cache.go), the    *)
(* goroutines it starts to load inodes, and its clients, the system calls   *)
(* of minixfs/fs, which look inodes up, create, change and unlink them.     *)
(*                                                                         *)
(* The inode of a slot is a pointer into a block of the block cache, which  *)
(* keeps all blocks here.  An inode is its type and its number of links.    *)
(* The bitmap server is the set of its free numbers, and a directory the    *)
(* set of the inodes that have an entry.  Every inode has a block to itself. *)
(*                                                                         *)
(* A definition introduced in parentheses is a faulty variant of the one    *)
(* that follows it: putting it in that one's place breaks a property.       *)
(***************************************************************************)
EXTENDS Integers, Sequences, FiniteSets
LOCAL INSTANCE FiniteSetsExt

CONSTANTS Clients,
          size,        \* the number of slots: NR_INODES, scaled down
          Ids,         \* the inodes: pairs of a device and a number
          Modes,       \* types of the inodes that are created
          Ops,         \* the calls that clients make
          Asks,        \* "loading": inodes are asked for while they are loaded
          MaxHolds     \* bound: a client uses no more inodes at a time

NO_INODE == -1
nil == -1
Slots == 0 .. size - 1
Devices == {i[1] : i \in Ids}
NoId == <<0, 0>>
I_NOT_ALLOC == "free"

ASSUME SizeAssumption == size \in Nat \ {0} /\ MaxHolds \in Nat
ASSUME ClientsAssumption == IsFiniteSet(Clients)
ASSUME IdsAssumption == Ids \subseteq Nat \X (Nat \ {0})
ASSUME WorkloadAssumption == Modes \subseteq {"regular", "directory"} /\ Asks \subseteq {"loading"}

VARIABLES ident,       \* Devno and Inum of the slots
          Count, Dirty,
          Inode,       \* the inode a slot points to, or NoId
          Server,      \* the finode or dinode server of a slot
          waiting,     \* waiting[s]: clients whose callbacks are kept
          table,       \* the inodes in the blocks of the block cache
          saved,       \* the inodes that were written to their block since
                       \* they were changed, if they ever were
          mounted,     \* the devices that are known to the cache
          free,        \* the numbers that are free in the bitmaps
          linked,      \* the inodes with an entry in a directory
          lost,        \* numbers that were allocated for nothing
          server,      \* "loop", "lock", "reply", "closed", "gone", "panicked"
          xp,          \* the slot that the server is filling, or nil
          cur,         \* the client whose request is being handled, or nil
          res,         \* the response being sent
          load,        \* the goroutine that loads a slot: "off", "load",
                       \* "fill", "lock" or "wake" (it has the mutex then)
          pc,          \* "idle", "sending" on in, "receiving" on out, "awaiting"
          req,         \* the request of the call in progress
          holds,       \* the inodes that a client uses, and their slots
          made         \* the inode a client is making an entry for, if any

slots == <<ident, Count, Dirty, Inode, Server>>
disk == <<table, saved, mounted, free, linked, lost>>
serverVars == <<server, xp, cur, res>>
clientVars == <<pc, req, holds, made>>
vars == <<slots, waiting, disk, serverVars, load, clientVars>>
-----------------------------------------------------------------------------
Request(op, i, s, mode) == [op |-> op, id |-> i, slot |-> s, mode |-> mode]
NoRequest == Request("none", NoId, nil, I_NOT_ALLOC)
AllRequests ==
       {Request("get", i, nil, I_NOT_ALLOC) : i \in Ids}
  \cup {Request("new", i, nil, mode) : i \in Ids, mode \in Modes}
  \cup {Request(op, i, s, I_NOT_ALLOC) : op \in {"put", "flush"}, i \in Ids, s \in Slots}
  \cup {Request(op, <<d, 0>>, nil, I_NOT_ALLOC) : op \in {"mount", "isbusy"}, d \in Devices}
  \cup {Request(op, NoId, nil, I_NOT_ALLOC) : op \in {"putnil", "close"}}
Requests == {r \in AllRequests : r.op \in Ops}

Hold(i, s) == [id |-> i, slot |-> s]
NoServer == [kind |-> "none", id |-> NoId, open |-> FALSE]
Idle == [stage |-> "off", op |-> "get", mode |-> I_NOT_ALLOC]
Locked == \E s \in Slots : load[s].stage = "wake"

Asking(c, i) == req[c].op \in {"get", "new"} /\ req[c].id = i
Room(c) == Cardinality(holds[c]) < MaxHolds

\* The callers' discipline.  An inode is looked up by its directory entry.
MayCall(c, r) ==
  /\ r.op = "get" =>
       /\ r.id \in linked /\ r.id[1] \in mounted /\ Room(c)
       /\ \A h \in holds[c] : h.id # r.id
       /\ "loading" \in Asks \/ \A d \in Clients : ~Asking(d, r.id)
  /\ r.op = "new" => r.id \in free /\ r.id[1] \in mounted /\ Room(c)
  /\ r.op \in {"put", "flush"} => Hold(r.id, r.slot) \in holds[c]
  /\ r.op = "mount" => r.id[1] \notin mounted
  /\ r.op = "close" => \A d \in Clients : pc[d] = "idle" /\ made[d] = NoId

Down == server \in {"closed", "gone", "panicked"} \/ \E c \in Clients : req[c].op = "close"

\* A number is allocated for a new inode first.
Call(c, r) ==
  /\ pc[c] = "idle" /\ made[c] = NoId /\ ~Down /\ MayCall(c, r)
  /\ pc' = [pc EXCEPT ![c] = "sending"]
  /\ req' = [req EXCEPT ![c] = r]
  /\ holds' = IF r.op = "put" THEN [holds EXCEPT ![c] = @ \ {Hold(r.id, r.slot)}] ELSE holds
  /\ free' = IF r.op = "new" THEN free \ {r.id} ELSE free
  /\ UNCHANGED <<slots, waiting, table, saved, mounted, linked, lost, serverVars, load, made>>

\* A client that uses the inode of slot s changes it.
Change(c, h) ==
  /\ pc[c] = "idle" /\ ~Down /\ h \in holds[c]
  /\ Dirty' = [Dirty EXCEPT ![h.slot] = TRUE]
  /\ saved' = saved \ {Inode[h.slot]}
  /\ UNCHANGED <<ident, Count, Inode, Server, waiting, mounted, free, lost, serverVars, load,
                 pc, req, holds>>

Write(c, h) == Change(c, h) /\ made[c] = NoId /\ UNCHANGED <<table, linked, made>>

OneLinkLess(h) == table' = [table EXCEPT ![Inode[h.slot]].links = @ - 1]

\* Unlink waits for the lookups in the directory to finish.
Unlink(c, h) ==
  /\ Change(c, h) /\ made[c] = NoId
  /\ h.id \in linked /\ \A d \in Clients : ~(req[d].op = "get" /\ req[d].id = h.id)
  /\ linked' = linked \ {h.id}
  /\ OneLinkLess(h)
  /\ UNCHANGED made

\* The entry of an inode that was created and flushed is made, or cannot be.
Link(c) ==
  /\ pc[c] = "idle" /\ made[c] # NoId /\ ~Down
  /\ linked' = linked \cup {made[c]}
  /\ made' = [made EXCEPT ![c] = NoId]
  /\ UNCHANGED <<slots, waiting, table, saved, mounted, free, lost, serverVars, load, pc, req, holds>>
LinkFails(c, h) ==
  /\ Change(c, h) /\ made[c] = h.id
  /\ made' = [made EXCEPT ![c] = NoId]
  /\ OneLinkLess(h)
  /\ UNCHANGED linked
-----------------------------------------------------------------------------
(***************************************************************************)
(* The loop: one action per case of its switch, and one per later step.     *)
(***************************************************************************)
Receive(c, op) ==
  /\ server = "loop"
  /\ pc[c] = "sending" /\ req[c].op = op
  /\ pc' = [pc EXCEPT ![c] = "receiving"]
  /\ cur' = c
  /\ UNCHANGED <<req, holds, made>>

\* A response: none, a result, or a callback with what is sent on it at once
\* (an inode or ENFILE), or when the inode is loaded ("async").
Respond(kind, s) == server' = "reply" /\ res' = [kind |-> kind, slot |-> s]
NoResponse == [kind |-> "none", slot |-> nil]

\* (NoAnswer: nobody is told that it is done.)
NoAnswer == server' = "loop" /\ UNCHANGED res
Answer == Respond("empty", nil)

\* The slot of the inode, or else the last one that is not in use.
\* (UnusedFirst: a slot that is not in use is preferred.  Uncounted: another user is
\* not counted.)
MaxOf(S) == CHOOSE s \in S : \A r \in S : r <= s
Found(i) == {s \in Slots : Count[s] > 0 /\ ident[s] = i}
Unused == {s \in Slots : Count[s] <= 0}
UnusedFirst(i) ==
  IF Unused \ {0} # {} THEN MaxOf(Unused)
  ELSE IF Found(i) # {} THEN MaxOf(Found(i)) ELSE NO_INODE
SlotFor(i) ==
  IF Found(i) # {} THEN CHOOSE s \in Found(i) : \A r \in Found(i) : s <= r
  ELSE IF Unused # {} THEN MaxOf(Unused) ELSE NO_INODE

Uncounted(s) == Count
OneMore(s) == [Count EXCEPT ![s] = @ + 1]

\* The cases of newinode and getinode, which differ in their goroutines only.
Find(c, op) ==
  /\ Receive(c, op)
  /\ LET i == req[c].id
         s == SlotFor(i)
     IN  \/ /\ ~(s > 0)
            /\ Respond("ENFILE", nil) /\ UNCHANGED <<ident, Count, xp>>
         \/ /\ s > 0 /\ Count[s] > 0
            /\ Count' = OneMore(s)
            /\ Respond("inode", s) /\ UNCHANGED <<ident, xp>>
         \/ /\ s > 0 /\ Count[s] <= 0
            /\ ident' = [ident EXCEPT ![s] = i]
            /\ Count' = [Count EXCEPT ![s] = @ + 1]
            /\ xp' = s /\ server' = "lock" /\ UNCHANGED res
  /\ UNCHANGED <<Dirty, Inode, Server, waiting, disk, load>>

\* The callback is kept under the mutex, and the goroutine is started.
KeepCallback ==
  /\ server = "lock" /\ ~Locked
  /\ waiting' = [waiting EXCEPT ![xp] = Append(@, cur)]
  /\ load' = [load EXCEPT ![xp] = [stage |-> "load", op |-> req[cur].op, mode |-> req[cur].mode]]
  /\ Respond("async", xp)
  /\ UNCHANGED <<slots, disk, xp, cur, clientVars>>

\* writeInode copies the inode to its block.
Written(t, s) == [t EXCEPT ![ident[s]] = t[Inode[s]]]

\* The server of an inode is found by the type of the inode.
Serves(s) == Server[s].kind = table[Inode[s]].mode

\* (OneLeft: or one client still does.  NeverUnlinked, LastLink: it is never freed, or
\* with a link left.  IfUnlinked: changes do not count.)
OneLeft(s) == Count[s] - 1 > 1
StillUsed(s) == Count[s] - 1 # 0
NeverUnlinked(s) == FALSE
LastLink(s) == table[Inode[s]].links <= 1
Unlinked(s) == table[Inode[s]].links = 0

IfUnlinked(s) == Unlinked(s)
NeedsWriting(s) == Unlinked(s) \/ Dirty[s]

\* Nobody uses the inode any more: its server is closed, it is freed if it has no
\* links, and written if it was changed.
Release(s) ==
  LET node == IF Unlinked(s) THEN [table EXCEPT ![Inode[s]].mode = I_NOT_ALLOC] ELSE table IN
  /\ Server' = IF Serves(s) THEN [Server EXCEPT ![s].open = FALSE] ELSE Server
  /\ free' = IF Unlinked(s) THEN free \cup {ident[s]} ELSE free
  /\ table' = IF NeedsWriting(s) THEN Written(node, s) ELSE node
  /\ saved' = IF NeedsWriting(s) THEN saved \cup {ident[s]} ELSE saved
  /\ Dirty' = [Dirty EXCEPT ![s] = FALSE]

\* There is no inode, or its number is free already.
Crashes(s) == Inode[s] = NoId \/ (Unlinked(s) /\ ident[s] \in free)

PutInode(c) ==
  /\ Receive(c, "put")
  /\ LET s == req[c].slot IN
     /\ Count' = [Count EXCEPT ![s] = @ - 1]
     /\ IF StillUsed(s) THEN Answer /\ UNCHANGED <<Dirty, Server, table, saved, free>>
        ELSE IF Crashes(s)
        THEN server' = "panicked" /\ UNCHANGED <<Dirty, Server, table, saved, free, res>>
        ELSE Release(s) /\ Answer
  /\ UNCHANGED <<ident, Inode, waiting, mounted, linked, lost, xp, load>>

\* A put of nil ends the loop.
PutNil(c) ==
  /\ Receive(c, "putnil")
  /\ server' = "gone"
  /\ UNCHANGED <<slots, waiting, disk, xp, res, load>>

FlushInode(c) ==
  /\ Receive(c, "flush")
  /\ LET s == req[c].slot IN
     IF Inode[s] = NoId THEN server' = "panicked" /\ UNCHANGED <<Dirty, table, saved, res>>
     ELSE /\ table' = Written(table, s)
          /\ saved' = saved \cup {ident[s]}
          /\ Dirty' = [Dirty EXCEPT ![s] = FALSE]
          /\ Answer
  /\ UNCHANGED <<ident, Count, Inode, Server, waiting, mounted, free, linked, lost, xp, load>>

MountDevice(c) ==
  /\ Receive(c, "mount")
  /\ mounted' = mounted \cup {req[c].id[1]}
  /\ Answer
  /\ UNCHANGED <<slots, waiting, table, saved, free, linked, lost, xp, load>>

UsersOf(d) == MapThenSumSet(LAMBDA s : Count[s], {s \in Slots : Count[s] > 0 /\ ident[s][1] = d})
IsDeviceBusy(c) ==
  /\ Receive(c, "isbusy")
  /\ Respond(IF UsersOf(req[c].id[1]) > 1 THEN "busy" ELSE "notbusy", nil)
  /\ UNCHANGED <<slots, waiting, disk, xp, load>>

InUse == \E s \in Slots : Count[s] > 0
Close(c) ==
  /\ Receive(c, "close")
  /\ Respond(IF InUse THEN "EBUSY" ELSE "closed", nil)
  /\ UNCHANGED <<slots, waiting, disk, xp, load>>

\* A client gets its inode.  A new one is flushed before an entry is made.
Return(c, s) ==
  /\ holds' = [holds EXCEPT ![c] = @ \cup {Hold(req[c].id, s)}]
  /\ IF req[c].op = "new"
     THEN /\ made' = [made EXCEPT ![c] = req[c].id]
          /\ pc' = [pc EXCEPT ![c] = "sending"]
          /\ req' = [req EXCEPT ![c] = Request("flush", req[c].id, s, I_NOT_ALLOC)]
     ELSE /\ pc' = [pc EXCEPT ![c] = "idle"]
          /\ req' = [req EXCEPT ![c] = NoRequest]
          /\ UNCHANGED made

Reply(c) ==
  /\ server = "reply" /\ pc[c] = "receiving"
  /\ server' = IF res.kind = "closed" THEN "closed" ELSE "loop"
  /\ res' = NoResponse /\ xp' = nil /\ cur' = nil
  /\ \/ res.kind = "inode" /\ Return(c, res.slot)
     \/ res.kind = "async" /\ pc' = [pc EXCEPT ![c] = "awaiting"] /\ UNCHANGED <<req, holds, made>>
     \/ /\ res.kind \notin {"inode", "async"}
        /\ pc' = [pc EXCEPT ![c] = "idle"]
        /\ req' = [req EXCEPT ![c] = NoRequest]
        /\ UNCHANGED <<holds, made>>
  /\ lost' = IF res.kind = "ENFILE" /\ req[c].op = "new" THEN lost \cup {req[c].id} ELSE lost
  /\ UNCHANGED <<slots, waiting, table, saved, mounted, free, linked, load>>
-----------------------------------------------------------------------------
(* The goroutine that loads slot s. *)

Step(s, from, to) ==
  /\ load[s].stage = from /\ server # "panicked"
  /\ load' = [load EXCEPT ![s].stage = to]

LoadInode(s) ==
  /\ Step(s, "load", "fill")
  /\ Inode' = [Inode EXCEPT ![s] = ident[s]]
  /\ Dirty' = [Dirty EXCEPT ![s] = FALSE]
  /\ UNCHANGED <<ident, Count, Server, waiting, disk, serverVars, clientVars>>

\* A new inode gets its type and one link; a server is started for the inode.
Fill(s) ==
  /\ Step(s, "fill", "lock")
  /\ LET isnew == load[s].op = "new" IN
     /\ table' = IF isnew THEN [table EXCEPT ![Inode[s]] = [mode |-> load[s].mode, links |-> 1]]
                 ELSE table
     /\ saved' = IF isnew THEN saved \ {Inode[s]} ELSE saved
     /\ Server' = IF table'[Inode[s]].mode = I_NOT_ALLOC THEN Server
                  ELSE [Server EXCEPT ![s] =
                         [kind |-> table'[Inode[s]].mode, id |-> ident[s], open |-> TRUE]]
  /\ UNCHANGED <<ident, Count, Dirty, Inode, waiting, mounted, free, linked, lost, serverVars,
                 clientVars>>

TakeMutex(s) ==
  /\ ~Locked /\ Step(s, "lock", "wake")
  /\ UNCHANGED <<slots, waiting, disk, serverVars, clientVars>>

\* The callbacks are served in order, under the mutex.
\* (StillWaiting: waiting is not reset.)
StillWaiting(s) == waiting
Served(s) == [waiting EXCEPT ![s] = Tail(@)]
Wake(s, c) ==
  /\ load[s].stage = "wake" /\ server # "panicked"
  /\ pc[c] = "awaiting" /\ c = Head(waiting[s])
  /\ waiting' = Served(s)
  /\ load' = IF Len(waiting[s]) = 1 THEN [load EXCEPT ![s] = Idle] ELSE load
  /\ Return(c, s)
  /\ UNCHANGED <<slots, disk, serverVars>>
-----------------------------------------------------------------------------
FreeInode == [mode |-> I_NOT_ALLOC, links |-> 0]

Init ==
  /\ ident = [s \in Slots |-> NoId] /\ Count = [s \in Slots |-> 0]
  /\ Dirty = [s \in Slots |-> FALSE] /\ Inode = [s \in Slots |-> NoId]
  /\ Server = [s \in Slots |-> NoServer] /\ waiting = [s \in Slots |-> <<>>]
  /\ linked \in SUBSET Ids /\ free = Ids \ linked /\ lost = {}
  /\ table \in [Ids -> {FreeInode} \cup [mode : Modes, links : {1}]]
  /\ \A i \in Ids : table[i] = FreeInode <=> i \in free
  /\ saved = Ids /\ mounted = {}
  /\ server = "loop" /\ xp = nil /\ cur = nil /\ res = NoResponse
  /\ load = [s \in Slots |-> Idle]
  /\ pc = [c \in Clients |-> "idle"] /\ req = [c \in Clients |-> NoRequest]
  /\ holds = [c \in Clients |-> {}] /\ made = [c \in Clients |-> NoId]

NewInode(c) == Find(c, "new")
GetInode(c) == Find(c, "get")
Serve(c) == \/ NewInode(c) \/ GetInode(c) \/ PutInode(c) \/ PutNil(c) \/ FlushInode(c)
            \/ MountDevice(c) \/ IsDeviceBusy(c) \/ Close(c)
Goroutine(s) == LoadInode(s) \/ Fill(s) \/ TakeMutex(s) \/ \E c \in Clients : Wake(s, c)

Next == \/ KeepCallback
        \/ \E s \in Slots : Goroutine(s)
        \/ \E c \in Clients : \/ \E r \in Requests : Call(c, r)
                             \/ Serve(c) \/ Reply(c) \/ Link(c)
                             \/ \E h \in holds[c] : Write(c, h) \/ Unlink(c, h) \/ LinkFails(c, h)

\* The runtime runs every goroutine that can go on and wakes the senders blocked
\* on a channel, and those who wait for a mutex, in FIFO order; other servers answer.
Fairness ==
  /\ SF_vars(KeepCallback)
  /\ \A s \in Slots : WF_vars(LoadInode(s) \/ Fill(s) \/ \E c \in Clients : Wake(s, c))
  /\ \A s \in Slots : SF_vars(TakeMutex(s))
  /\ \A c \in Clients : SF_vars(Serve(c)) /\ WF_vars(Reply(c))

Spec == Init /\ [][Next]_vars /\ Fairness
-----------------------------------------------------------------------------
(* Properties *)

\* Every variable keeps its shape.
AnyId == Ids \cup {NoId}
AnySlot == Slots \cup {nil}
Types == Modes \cup {I_NOT_ALLOC}
TypeOK ==
  /\ ident \in [Slots -> AnyId] /\ Count \in [Slots -> 0 .. Cardinality(Clients) * (MaxHolds + 1)]
  /\ Dirty \in [Slots -> BOOLEAN] /\ Inode \in [Slots -> AnyId]
  /\ Server \in [Slots -> [kind : Modes \cup {"none"}, id : AnyId, open : BOOLEAN]]
  /\ waiting \in [Slots -> {<<>>} \cup {<<c>> : c \in Clients}]
  /\ table \in [Ids -> [mode : Types, links : 0 .. 1]]
  /\ saved \subseteq Ids /\ mounted \subseteq Devices
  /\ free \subseteq Ids /\ linked \subseteq Ids /\ lost \subseteq Ids
  /\ server \in {"loop", "lock", "reply", "closed", "gone", "panicked"}
  /\ xp \in AnySlot /\ cur \in Clients \cup {nil}
  /\ res \in [kind : {"none", "empty", "busy", "notbusy", "EBUSY", "closed", "ENFILE", "inode", "async"},
              slot : AnySlot]
  /\ load \in [Slots -> [stage : {"off", "load", "fill", "lock", "wake"}, op : {"get", "new"},
                        mode : Types]]
  /\ pc \in [Clients -> {"idle", "sending", "receiving", "awaiting"}]
  /\ req \in [Clients -> AllRequests \cup {NoRequest}]
  /\ holds \in [Clients -> SUBSET [id : Ids, slot : Slots]]
  /\ made \in [Clients -> AnyId]

\* A client to which slot s has been given, but which has not got it yet.
Given(c, s) ==
  \/ \E i \in DOMAIN waiting[s] : waiting[s][i] = c
  \/ c = cur /\ server = "lock" /\ xp = s
  \/ c = cur /\ server = "reply" /\ res.kind = "inode" /\ res.slot = s
Has(c, s) == \E h \in holds[c] : h.slot = s
Returns(c, s) == pc[c] = "sending" /\ req[c].op = "put" /\ req[c].slot = s

\* The count of a slot is the number of its users: those that have it, have not
\* got it yet, or are about to return it.
CountIsUsers ==
  \A s \in Slots :
    Count[s] = Cardinality({c \in Clients : Given(c, s) \/ Has(c, s) \/ Returns(c, s)})

\* The inode that a client has got stays in its slot and in no other that is in
\* use, allocated and with one server, of its type and for it, until the client
\* returns it.
HeldInodeReady ==
  \A c \in Clients : \A h \in holds[c] :
    /\ ident[h.slot] = h.id /\ Inode[h.slot] = h.id /\ h.id \notin free
    /\ \A s \in Slots : Count[s] > 0 /\ ident[s] = h.id => s = h.slot
    /\ Server[h.slot] = [kind |-> table[h.id].mode, id |-> h.id, open |-> TRUE]

\* An inode that nobody uses was written to its block since it was changed.
ChangesAreSaved ==
  \A i \in Ids \ saved : \E s \in Slots : Count[s] > 0 /\ ident[s] = i

\* Every call of the cache returns.
EveryCallReturns == \A c \in Clients : pc[c] # "idle" ~> pc[c] = "idle"

(* What the documentation says and the code does not do. *)

\* "wait lists for any outstanding inode load": a client that asks for an inode
\* that is being loaded gets it when it is.
LoadIsAwaited ==
  \A c \in Clients : \A h \in holds[c] : load[h.slot].stage \in {"off", "wake"}
-----------------------------------------------------------------------------
(* The cache implements the life of inodes. *)

\* A client uses an inode from the moment that it is counted as a user until it is
\* not any more.
Counted(c) ==
  \/ pc[c] = "sending" /\ req[c].op = "put"
  \/ pc[c] = "awaiting"
  \/ pc[c] = "receiving" /\ (server = "lock" \/ res.kind \in {"inode", "async"})
Refs(c) == {h.id : h \in holds[c]} \cup (IF Counted(c) THEN {req[c].id} ELSE {})

A == INSTANCE OpenInodes WITH refs <- [c \in Clients |-> Refs(c)]

\* Every behaviour of the cache is one of inodes that live as long as they have an
\* entry or a user.
ImplementsOpenInodes == A!Spec
=============================================================================
