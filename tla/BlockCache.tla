----------------------------- MODULE BlockCache -----------------------------
(***************************************************************************)
(* The server goroutine of the block cache (minixfs/bcache/cache_lru.go),   *)
(* the goroutines it starts to load blocks, and its clients, which get one  *)
(* block at a time, change it and put it back.                              *)
(*                                                                         *)
(* The chain of free buffers is kept by its links.  A block is one value.   *)
(* A loading goroutine changes the hash table while the server reads it: a  *)
(* step reads or writes one head of a hash chain.  numslots and numhash are *)
(* NR_BUFS and NR_BUF_HASH, scaled down.                                    *)
(*                                                                         *)
(* A definition introduced in parentheses is a faulty variant of the one    *)
(* that follows it: putting it in that one's place breaks a property.       *)
(***************************************************************************)
EXTENDS Integers, Sequences, FiniteSets

CONSTANTS Clients,
          numslots, numhash,
          Devices,     \* device numbers
          Numbers,     \* block numbers that clients ask for
          Values,      \* what a block can hold; a new one holds 0
          Modes,       \* only_search: "NORMAL", "NO_READ" (nobody uses PREFETCH)
          Flags,       \* flags of PutBlock: "none", "ONE_SHOT", "WRITE_IMMED"
          Ops,         \* the calls that clients make
          Asks,        \* blocks that clients ask for beside those that are not
                       \* in the cache: "cached", "loading" ones
          MaxHits      \* bound: no block is asked for whose count is below -MaxHits

NO_DEV == -1
nil == -1
Slots == 0 .. numslots - 1
Blocks == Devices \X Numbers
NoBlock == <<NO_DEV, 0>>
Bucket(n) == n % numhash

ASSUME ClientsAssumption == IsFiniteSet(Clients)
ASSUME SlotsAssumption == numslots \in Nat \ {0, 1} /\ numhash \in Nat \ {0}
ASSUME BlocksAssumption == Devices \subseteq Nat /\ Numbers \subseteq Nat /\ 0 \in Values
ASSUME WorkloadAssumption ==
  /\ Modes \subseteq {"NORMAL", "NO_READ"}
  /\ Flags \subseteq {"none", "ONE_SHOT", "WRITE_IMMED"}
  /\ Asks \subseteq {"cached", "loading"} /\ MaxHits \in Nat

VARIABLES Devno, Blockno, Dirty, Block,   \* the fields of the buffers
          count, next, prev, b_hash,
          waiting,     \* the clients for whom a callback is kept
          front, rear, buf_hash,
          devs,        \* the devices that are mounted
          disk,        \* disk[b]: block b on its device
          server,      \* "loop", "hit", "unhash", "lock", "reply", "closed",
                       \* "hung" in an endless chain or "panicked"
          bp, prev_ptr,
          cur,         \* the client whose request the server is handling
          res,         \* the response being sent
          load,        \* the goroutine that loads a buffer: "off", "start",
                       \* "insert", "read" or "wake" (it has the mutex then)
          pc,          \* "idle", "sending" on in, "receiving" on out, "awaiting"
          req,         \* the request of the call in progress
          awaits,      \* the client whose callback a client is awaiting
          holds,       \* the buffer that a client has got and not put back,
                       \* and the block it asked for
          latest       \* what was last read or stored in a block: a history
                       \* variable, or nil

lru == <<next, prev, front, rear>>
hash == <<b_hash, buf_hash>>
bufs == <<Devno, Blockno, Dirty, Block, count>>
serverVars == <<server, bp, prev_ptr, cur, res>>
clientVars == <<pc, req, awaits, holds>>
store == <<devs, disk, latest>>
vars == <<bufs, lru, hash, waiting, store, serverVars, load, clientVars>>
-----------------------------------------------------------------------------
Request(op, b, s, arg) == [op |-> op, block |-> b, slot |-> s, arg |-> arg]
NoRequest == Request("none", NoBlock, nil, "none")
AllRequests ==
       {Request("get", b, nil, mode) : b \in Blocks, mode \in Modes}
  \cup {Request("put", b, s, flag) : b \in Blocks, s \in Slots, flag \in Flags}
  \cup {Request(op, <<d, 0>>, nil, "none") :
          op \in {"mount", "unmount", "invalidate", "flush"}, d \in Devices}
  \cup {Request("close", NoBlock, nil, "none")}
Requests == {r \in AllRequests : r.op \in Ops}

Nothing == [slot |-> nil, block |-> NoBlock]
Idle == [stage |-> "off", block |-> NoBlock, mode |-> "NORMAL"]
Loading(s) == load[s].stage # "off"

IdentityOf(s) == <<Devno[s], Blockno[s]>>
Cached(b) == \E s \in Slots : IdentityOf(s) = b
TooOften(b) == \E s \in Slots : IdentityOf(s) = b /\ count[s] + MaxHits < 0

\* The block that a client is getting, has or is putting back.
Wants(c) == IF req[c].op \in {"get", "put"} THEN req[c].block ELSE holds[c].block

Quiet(d) == \A c \in Clients : Wants(c)[1] # d
GivenUp(d) == \E c \in Clients : req[c].op \in {"unmount", "invalidate"} /\ req[c].block[1] = d

\* The callers' discipline: a device is given up when nobody uses it.
MayCall(c, r) ==
  /\ r.op = "get" =>
       /\ holds[c] = Nothing /\ r.block[1] \in devs /\ ~GivenUp(r.block[1])
       /\ ~TooOften(r.block)
       /\ "cached" \in Asks \/ (~Cached(r.block) /\ \A d \in Clients : Wants(d) # r.block)
       /\ "loading" \in Asks \/ \A d \in Clients : req[d].op = "get" => req[d].block # r.block
  /\ r.op = "put" => holds[c] # Nothing /\ r.slot = holds[c].slot /\ r.block = holds[c].block
  /\ r.op \in {"unmount", "invalidate"} => Quiet(r.block[1])
  /\ r.op = "close" => \A d \in Clients : pc[d] = "idle" /\ holds[d] = Nothing

Closing == server \in {"closed", "panicked"} \/ \E c \in Clients : req[c].op = "close"

Call(c, r) ==
  /\ pc[c] = "idle" /\ ~Closing /\ MayCall(c, r)
  /\ pc' = [pc EXCEPT ![c] = "sending"]
  /\ req' = [req EXCEPT ![c] = r]
  /\ holds' = IF r.op = "put" THEN [holds EXCEPT ![c] = Nothing] ELSE holds
  /\ UNCHANGED <<bufs, lru, hash, waiting, store, serverVars, load, awaits>>

\* A client changes the block it has.
Modify(c, v) ==
  /\ pc[c] = "idle" /\ holds[c] # Nothing /\ ~Closing
  /\ Block' = [Block EXCEPT ![holds[c].slot] = v]
  /\ Dirty' = [Dirty EXCEPT ![holds[c].slot] = TRUE]
  /\ latest' = [latest EXCEPT ![holds[c].block] = v]
  /\ UNCHANGED <<Devno, Blockno, count, lru, hash, waiting, devs, disk, serverVars, load, clientVars>>
-----------------------------------------------------------------------------
(* Chains *)

\* Node(p)[n]: the buffer n links after p in a hash chain, or nil.
Node(p) ==
  LET f[n \in 0 .. numslots] ==
        IF n = 0 THEN p ELSE IF f[n - 1] = nil THEN nil ELSE b_hash[f[n - 1]]
  IN  f

\* The chain from p never ends.
Endless(p) == Node(p)[numslots] # nil

\* The first buffer from p on that is one of S, or nil.
First(p, S) ==
  LET hits == {n \in 0 .. numslots : Node(p)[n] \in S}
  IN  IF hits = {} THEN nil
      ELSE Node(p)[CHOOSE n \in hits : \A k \in hits : n <= k]

Search(b) == First(buf_hash[Bucket(b[2])], {s \in Slots : IdentityOf(s) = b})

\* The list operations on the chain of free buffers.
\* (KeepLinked: the buffer stays in the chain.)
KeepLinked(s) == UNCHANGED lru
rm_lru(s) ==
  LET n == next[s]
      p == prev[s]
  IN  /\ IF p # nil THEN next' = [next EXCEPT ![p] = n] /\ UNCHANGED front
                    ELSE front' = n /\ UNCHANGED next
      /\ IF n # nil THEN prev' = [prev EXCEPT ![n] = p] /\ UNCHANGED rear
                    ELSE rear' = p /\ UNCHANGED prev

\* (PutFrontOneWay: the old front is not linked back to s.)
PutFrontOneWay(s) ==
  /\ next' = [next EXCEPT ![s] = front]
  /\ prev' = [prev EXCEPT ![s] = nil]
  /\ rear' = IF front = nil THEN s ELSE rear
  /\ front' = s
PutFront(s) ==
  /\ next' = [next EXCEPT ![s] = front]
  /\ prev' = IF front = nil THEN [prev EXCEPT ![s] = nil]
             ELSE [prev EXCEPT ![s] = nil, ![front] = s]
  /\ rear' = IF front = nil THEN s ELSE rear
  /\ front' = s

\* (PutRearOneWay: the old rear is not linked to s.)
PutRearOneWay(s) ==
  /\ prev' = [prev EXCEPT ![s] = rear]
  /\ next' = [next EXCEPT ![s] = nil]
  /\ front' = IF rear = nil THEN s ELSE front
  /\ rear' = s
PutRear(s) ==
  /\ prev' = [prev EXCEPT ![s] = rear]
  /\ next' = IF rear = nil THEN [next EXCEPT ![s] = nil]
             ELSE [next EXCEPT ![s] = nil, ![rear] = s]
  /\ front' = IF rear = nil THEN s ELSE front
  /\ rear' = s
-----------------------------------------------------------------------------
(***************************************************************************)
(* The loop: one action per case of its switch, and one per later step.     *)
(***************************************************************************)
Ready == server = "loop"
Receive(c, op) ==
  /\ Ready
  /\ pc[c] = "sending" /\ req[c].op = op
  /\ pc' = [pc EXCEPT ![c] = "receiving"]
  /\ cur' = c
  /\ UNCHANGED <<req, awaits, holds, load>>

\* A response: an error value, none, or a callback; a callback comes with the
\* buffer that the server sends on it (nil: LRU_ALLINUSE) unless that is loaded.
NoResponse == [kind |-> "none", slot |-> nil, ready |-> FALSE]
Respond(kind, s, ready) ==
  /\ server' = "reply"
  /\ res' = [kind |-> kind, slot |-> s, ready |-> ready]

\* The block is in the cache, or the oldest free buffer is taken for it.
\* (TakeRear: the youngest.)
TakeRear == rear
Oldest == front
GetBlock(c) ==
  /\ Receive(c, "get")
  /\ LET b == req[c].block
         found == Search(b)
     IN  IF found # nil
         THEN server' = "hit" /\ bp' = found /\ UNCHANGED <<prev_ptr, res, lru>>
         ELSE IF Endless(buf_hash[Bucket(b[2])])
         THEN server' = "hung" /\ UNCHANGED <<bp, prev_ptr, res, lru>>
         ELSE IF Oldest = nil
         THEN Respond("async", nil, TRUE) /\ UNCHANGED <<bp, prev_ptr, lru>>
         ELSE /\ rm_lru(Oldest)
              /\ bp' = Oldest
              /\ prev_ptr' = buf_hash[Bucket(Blockno[Oldest])]
              /\ server' = "unhash"
              /\ UNCHANGED res
  /\ UNCHANGED <<bufs, hash, waiting, store>>

\* Under the mutex of the buffer: it is ready, or its load is joined.
Unlocked(s) == load[s].stage # "wake"
Hit ==
  /\ server = "hit" /\ Unlocked(bp)
  /\ IF waiting[bp] # <<>>
     THEN /\ waiting' = [waiting EXCEPT ![bp] = Append(@, cur)]
          /\ server' = "loop"
          /\ UNCHANGED res
     ELSE Respond("async", bp, TRUE) /\ UNCHANGED waiting
  /\ UNCHANGED <<bufs, lru, hash, store, bp, prev_ptr, cur, load, clientVars>>

\* evictBlock takes the buffer out of its hash chain.  The flush of its device
\* that follows writes nothing.  (Rest: the buffers after it, too.)
Rest == nil
After == b_hash[bp]
Unlink ==
  LET before == First(prev_ptr, {s \in Slots : b_hash[s] = bp})
  IN  IF prev_ptr = bp
      THEN buf_hash' = [buf_hash EXCEPT ![Bucket(Blockno[bp])] = After] /\ UNCHANGED b_hash
      ELSE /\ b_hash' = IF before = nil THEN b_hash ELSE [b_hash EXCEPT ![before] = After]
           /\ UNCHANGED buf_hash
Unhash ==
  /\ server = "unhash"
  /\ IF prev_ptr = nil THEN server' = "panicked" /\ UNCHANGED hash
     ELSE Unlink /\ server' = "lock"
  /\ UNCHANGED <<bufs, lru, waiting, store, bp, prev_ptr, cur, res, load, clientVars>>

\* The callback is kept with the buffer, under its mutex.
KeepCallback ==
  /\ server = "lock" /\ Unlocked(bp)
  /\ waiting' = [waiting EXCEPT ![bp] = Append(@, cur)]
  /\ Respond("async", bp, FALSE)
  /\ UNCHANGED <<bufs, lru, hash, store, bp, prev_ptr, cur, load, clientVars>>

\* WriteBlock: a block put back with WRITE_IMMED is written at once.
WriteBlock(s, flag) ==
  disk' = IF flag = "WRITE_IMMED" /\ Dirty[s] /\ IdentityOf(s) \in Blocks
          THEN [disk EXCEPT ![IdentityOf(s)] = Block[s]] ELSE disk

StillInUse(s) == count[s] - 1 > 0
PutBlock(c) ==
  /\ Receive(c, "put")
  /\ LET s == req[c].slot
         flag == req[c].arg
     IN  /\ count' = [count EXCEPT ![s] = @ - 1]
         /\ IF StillInUse(s) THEN UNCHANGED <<lru, disk>>
            ELSE /\ IF flag = "ONE_SHOT" THEN PutFront(s) ELSE PutRear(s)
                 /\ WriteBlock(s, flag)
  /\ Respond("err", nil, TRUE)
  /\ UNCHANGED <<Devno, Blockno, Dirty, Block, hash, waiting, devs, latest, bp, prev_ptr>>

MountDevice(c) ==
  /\ Receive(c, "mount")
  /\ devs' = devs \cup {req[c].block[1]}
  /\ Respond("err", nil, TRUE)
  /\ UNCHANGED <<bufs, lru, hash, waiting, disk, latest, bp, prev_ptr>>

UnmountDevice(c) ==
  /\ Receive(c, "unmount")
  /\ devs' = devs \ {req[c].block[1]}
  /\ Respond("err", nil, TRUE)
  /\ UNCHANGED <<bufs, lru, hash, waiting, disk, latest, bp, prev_ptr>>

\* (NoAnswer: nobody is told that it is done.)
NoAnswer == server' = "loop" /\ UNCHANGED res
Answer == Respond("empty", nil, TRUE)
Invalidate(c) ==
  /\ Receive(c, "invalidate")
  /\ LET d == req[c].block[1] IN
     /\ Devno' = [s \in Slots |-> IF Devno[s] = d THEN NO_DEV ELSE Devno[s]]
     /\ latest' = [b \in Blocks |-> IF b[1] = d THEN nil ELSE latest[b]]
  /\ Answer
  /\ UNCHANGED <<Blockno, Dirty, Block, count, lru, hash, waiting, devs, disk, bp, prev_ptr>>

\* Flush looks for the dirty blocks, and would write them if actuallywrite were
\* ever set.
actuallywrite == FALSE
Flush(c) ==
  /\ Receive(c, "flush")
  /\ disk' = [b \in Blocks |->
                IF actuallywrite /\ b[1] = req[c].block[1]
                     /\ \E s \in Slots : IdentityOf(s) = b /\ Dirty[s]
                THEN Block[CHOOSE s \in Slots : IdentityOf(s) = b /\ Dirty[s]] ELSE disk[b]]
  /\ Answer
  /\ UNCHANGED <<bufs, lru, hash, waiting, devs, latest, bp, prev_ptr>>

CloseRequest(c) ==
  /\ Receive(c, "close")
  /\ Respond("err", nil, TRUE)
  /\ UNCHANGED <<bufs, lru, hash, waiting, store, bp, prev_ptr>>

\* The reply goes to any client that is receiving on out, which asserts the kind
\* of the response.  A callback is the one made for cur's request: the block is
\* sent on it at once, or when the goroutine that is now started has loaded it.
Expects(op, kind) ==
  CASE op = "get" -> kind = "async"
    [] op \in {"put", "mount", "unmount", "close"} -> kind = "err"
    [] OTHER -> TRUE

Return(c, s) ==
  /\ pc' = [pc EXCEPT ![c] = "idle"]
  /\ req' = [req EXCEPT ![c] = NoRequest]
  /\ holds' = IF s = nil THEN holds
              ELSE [holds EXCEPT ![c] = [slot |-> s, block |-> req[c].block]]

Reply(c) ==
  /\ server = "reply" /\ pc[c] = "receiving"
  /\ IF ~Expects(req[c].op, res.kind) \/ (res.kind = "async" /\ res.slot = nil)
     THEN server' = "panicked" /\ UNCHANGED <<load, clientVars>>
     ELSE /\ server' = IF req[c].op = "close" THEN "closed" ELSE "loop"
          /\ load' = IF res.ready THEN load
                     ELSE [load EXCEPT ![res.slot] =
                            [stage |-> "start", block |-> req[cur].block, mode |-> req[cur].arg]]
          /\ IF res.ready \/ req[c].op # "get" THEN Return(c, res.slot) /\ UNCHANGED awaits
             ELSE /\ pc' = [pc EXCEPT ![c] = "awaiting"]
                  /\ awaits' = [awaits EXCEPT ![c] = cur]
                  /\ UNCHANGED <<req, holds>>
  /\ res' = NoResponse
  /\ UNCHANGED <<bufs, lru, hash, waiting, store, bp, prev_ptr, cur>>
-----------------------------------------------------------------------------
(* The goroutine that loads buffer s. *)

Step(s, from, to) ==
  /\ load[s].stage = from /\ server # "panicked"
  /\ load' = [load EXCEPT ![s].stage = to]

\* A new block, whose Dirty flag is the old one's; the head of the hash chain
\* is read, and then replaced.
Counted(s) == [count EXCEPT ![s] = @ + 1]
LoadBlock(s) ==
  /\ Step(s, "start", "insert")
  /\ LET b == load[s].block IN
     /\ Block' = [Block EXCEPT ![s] = 0]
     /\ Devno' = [Devno EXCEPT ![s] = b[1]]
     /\ Blockno' = [Blockno EXCEPT ![s] = b[2]]
     /\ count' = Counted(s)
     /\ b_hash' = [b_hash EXCEPT ![s] = buf_hash[Bucket(b[2])]]
  /\ UNCHANGED <<Dirty, lru, buf_hash, waiting, store, serverVars, clientVars>>

ChainOf(b) == Bucket(b[2])
Rehash(s) ==
  /\ Step(s, "insert", "read")
  /\ buf_hash' = [buf_hash EXCEPT ![ChainOf(load[s].block)] = s]
  /\ UNCHANGED <<bufs, lru, b_hash, waiting, store, serverVars, clientVars>>

\* The device is read, or fails, which nobody is told.
Read(s) ==
  /\ Step(s, "read", "wake")
  /\ LET b == load[s].block IN
     /\ \/ load[s].mode = "NORMAL" /\ Block' = [Block EXCEPT ![s] = disk[b]]
        \/ UNCHANGED Block
     /\ latest' = IF latest[b] = nil THEN [latest EXCEPT ![b] = Block'[s]] ELSE latest
  /\ UNCHANGED <<Devno, Blockno, Dirty, count, lru, hash, waiting, devs, disk, serverVars, clientVars>>

\* The callbacks are served in order, under the mutex.
\* (StillWaiting: waiting is not reset.)
StillWaiting(s) == waiting
Served(s) == [waiting EXCEPT ![s] = Tail(@)]
Wake(s, c) ==
  /\ load[s].stage = "wake" /\ server # "panicked"
  /\ pc[c] = "awaiting" /\ awaits[c] = Head(waiting[s])
  /\ waiting' = Served(s)
  /\ load' = IF Len(waiting[s]) = 1 THEN [load EXCEPT ![s] = Idle] ELSE load
  /\ Return(c, s)
  /\ UNCHANGED <<bufs, lru, hash, store, serverVars, awaits>>
-----------------------------------------------------------------------------
Init ==
  /\ Devno = [s \in Slots |-> NO_DEV] /\ Blockno = [s \in Slots |-> 0]
  /\ Dirty = [s \in Slots |-> FALSE] /\ Block = [s \in Slots |-> 0]
  /\ count = [s \in Slots |-> 0]
  /\ next = [s \in Slots |-> IF s = numslots - 1 THEN nil ELSE s + 1]
  /\ prev = [s \in Slots |-> IF s = 0 THEN nil ELSE s - 1]
  /\ front = 0 /\ rear = numslots - 1
  /\ b_hash = next /\ buf_hash = [h \in 0 .. numhash - 1 |-> IF h = 0 THEN 0 ELSE nil]
  /\ waiting = [s \in Slots |-> <<>>]
  /\ devs = {} /\ disk \in [Blocks -> Values] /\ latest = [b \in Blocks |-> nil]
  /\ server = "loop" /\ bp = nil /\ prev_ptr = nil /\ cur \in Clients /\ res = NoResponse
  /\ load = [s \in Slots |-> Idle]
  /\ pc = [c \in Clients |-> "idle"] /\ req = [c \in Clients |-> NoRequest]
  /\ awaits = [c \in Clients |-> c] /\ holds = [c \in Clients |-> Nothing]

Serve(c) == \/ GetBlock(c) \/ PutBlock(c) \/ MountDevice(c) \/ UnmountDevice(c)
            \/ Invalidate(c) \/ Flush(c) \/ CloseRequest(c)
Work == Hit \/ Unhash \/ KeepCallback
Goroutine(s) == LoadBlock(s) \/ Rehash(s) \/ Read(s) \/ \E c \in Clients : Wake(s, c)

Next == \/ Work
        \/ \E s \in Slots : Goroutine(s)
        \/ \E c \in Clients : \/ \E r \in Requests : Call(c, r)
                             \/ \E v \in Values : Modify(c, v)
                             \/ Serve(c) \/ Reply(c)

\* The runtime runs every goroutine that can go on and wakes the senders blocked
\* on a channel in FIFO order; a device answers.
Fairness ==
  /\ WF_vars(Work)
  /\ \A s \in Slots : WF_vars(Goroutine(s))
  /\ \A c \in Clients : SF_vars(Serve(c)) /\ WF_vars(Reply(c))

Spec == Init /\ [][Next]_vars /\ Fairness
-----------------------------------------------------------------------------
(* Properties *)

\* Every variable keeps its shape.
Links == Slots \cup {nil}
TypeOK ==
  /\ Devno \in [Slots -> Devices \cup {NO_DEV}] /\ Blockno \in [Slots -> Numbers \cup {0}]
  /\ Dirty \in [Slots -> BOOLEAN] /\ Block \in [Slots -> Values] 
  /\ count \in [Slots -> -(MaxHits + Cardinality(Clients)) .. numslots]
  /\ next \in [Slots -> Links] /\ prev \in [Slots -> Links] /\ b_hash \in [Slots -> Links]
  /\ front \in Links /\ rear \in Links /\ buf_hash \in [0 .. numhash - 1 -> Links]
  /\ waiting \in [Slots -> {<<>>} \cup {<<c>> : c \in Clients}]
  /\ devs \subseteq Devices /\ disk \in [Blocks -> Values] /\ latest \in [Blocks -> Values \cup {nil}]
  /\ server \in {"loop", "hit", "unhash", "lock", "reply", "closed", "hung", "panicked"}
  /\ bp \in Links /\ prev_ptr \in Links /\ cur \in Clients
  /\ res \in [kind : {"none", "async", "err", "empty"}, slot : Links, ready : BOOLEAN]
  /\ load \in [Slots -> [stage : {"off", "start", "insert", "read", "wake"},
                        block : Blocks \cup {NoBlock}, mode : {"NORMAL", "NO_READ"}]]
  /\ pc \in [Clients -> {"idle", "sending", "receiving", "awaiting"}]
  /\ req \in [Clients -> Requests \cup {NoRequest}]
  /\ awaits \in [Clients -> Clients]
  /\ holds \in [Clients -> [slot : Links, block : Blocks \cup {NoBlock}]]

\* Buffer s has been taken for a block that is not in it yet.
Taken(s) == \/ server \in {"unhash", "lock"} /\ bp = s
            \/ server = "reply" /\ res.kind = "async" /\ ~res.ready /\ res.slot = s
            \/ Loading(s)
Has(c, s) == holds[c].slot = s \/ (pc[c] = "sending" /\ req[c].slot = s)
InUse(s) ==
  \/ Taken(s)
  \/ \E c \in Clients : Has(c, s)
  \/ server = "reply" /\ res.slot = s

\* The block that a client has stays in its buffer, and no other client has the
\* buffer, until the client puts it back.
HeldBlockKept ==
  \A c \in Clients : holds[c] # Nothing =>
    /\ IdentityOf(holds[c].slot) = holds[c].block
    /\ ~Taken(holds[c].slot)
    /\ \A d \in Clients : holds[d].slot = holds[c].slot => d = c

\* GetBlock panics ("all buffers in use") only if all buffers are in use, and
\* nothing else takes the server down.
FailsOnlyIfAllInUse ==
  server \in {"hung", "panicked"} => \A s \in Slots : InUse(s)

\* The hash chains lead to every block in the cache: a buffer is in one of them
\* as soon as its load can be joined, and until it is evicted.
CachedIsFound ==
  \A s \in Slots :
    (IdentityOf(s) \in Blocks /\ ~Taken(s)) \/ load[s].stage \in {"read", "wake"}
      => Search(IdentityOf(s)) = s

\* A block of the cache is what was last stored in it by any client, or read if
\* none has.
LatestKept ==
  \A s \in Slots : IdentityOf(s) \in Blocks /\ ~Taken(s) => Block[s] = latest[IdentityOf(s)]

\* Every call of the cache returns.
EveryCallReturns == \A c \in Clients : pc[c] # "idle" ~> pc[c] = "idle"

(* What the documentation says and the code does not do. *)

\* "the number of clients of this block".
CountIsClients ==
  \A s \in Slots : ~Taken(s) =>
    count[s] = Cardinality({c \in Clients : Has(c, s)})

\* "Any get requests performed during this load should be blocked": they do not
\* load the block once more.
OneBufferPerBlock ==
  \A r, s \in Slots : IdentityOf(r) = IdentityOf(s) /\ IdentityOf(r) \in Blocks => r = s

\* "a thread-safe interface": clients that use different blocks do not crash it.
ThreadSafe == server \notin {"hung", "panicked"}
-----------------------------------------------------------------------------
(* The cache implements a pool of buffers with LRU replacement. *)

\* The links hold the free buffers in the order q.
Linked(q) ==
  LET At(i) == IF i \in DOMAIN q THEN q[i] ELSE nil IN
  /\ front = At(1) /\ rear = At(Len(q))
  /\ \A i \in DOMAIN q : next[q[i]] = At(i + 1) /\ prev[q[i]] = At(i - 1)

Orders(S) == {q \in [1 .. Cardinality(S) -> S] : \A i, j \in DOMAIN q : q[i] = q[j] => i = j}
FreeOrders == {q \in Orders({s \in Slots : ~InUse(s)}) : Linked(q)}
Broken == <<nil>>
Order == IF FreeOrders = {} THEN Broken ELSE CHOOSE q \in FreeOrders : TRUE

ContentOf(s) ==
  IF Loading(s) THEN load[s].block
  ELSE IF Taken(s) THEN req[cur].block
  ELSE IF IdentityOf(s) \in Blocks THEN IdentityOf(s) ELSE NoBlock
Content == [s \in Slots |-> ContentOf(s)]

A == INSTANCE LRUPool WITH
       Buffers <- Slots, None <- NoBlock, order <- Order, content <- Content

\* Every behaviour of the cache is one of the pool, if no block is asked for that
\* is in the cache.
ImplementsLRUPool == A!Spec
=============================================================================
