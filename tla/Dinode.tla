------------------------------- MODULE Dinode -------------------------------
(***************************************************************************)
(* The server goroutine of one open directory (minixfs/dinode/dinode.go),   *)
(* the goroutines it starts for searches, and search_dir                    *)
(* (minixfs/dinode/search.go) block by block.  Lookup, LookupGet and        *)
(* IsEmpty run concurrently in goroutines of their own; Link and Unlink are *)
(* done by the server itself once those it has started are over.            *)
(*                                                                         *)
(* As in Finode the loop never receives from the channel that Lock hands    *)
(* out: Go evaluates the variable it ranges over once.                      *)
(*                                                                         *)
(* Names are those that fit into an entry, of NAME_MAX bytes at most.       *)
(* SlotsPerBlock is scaled down; a directory grows to MaxSlots entries, and *)
(* the disk may be full before.  The test of new_slots for overflow is left *)
(* out.                                                                     *)
(*                                                                         *)
(* A definition introduced in parentheses is a faulty variant of the one    *)
(* that follows it: putting it in that one's place breaks a property.       *)
(***************************************************************************)
EXTENDS Integers, Sequences, FiniteSets

CONSTANTS Clients,
          Entries,        \* the entries [name, inum] that can be made
          Dots,           \* the names . and ..
          SlotsPerBlock,
          MaxSlots,
          Calls           \* the requests that clients make

ASSUME SlotsAssumption ==
  /\ SlotsPerBlock \in Nat \ {0} /\ MaxSlots \in Nat
  /\ MaxSlots % SlotsPerBlock = 0

ASSUME EntriesAssumption == Entries \subseteq [name : STRING, inum : Nat \ {0}]

Names == {e.name : e \in Entries}
Inums == {e.inum : e \in Entries}
Free == [name |-> "", inum |-> 0]       \* Inum 0

VARIABLES slots,      \* the entries below inode.Size, in order
          locked,     \* d.locked # nil
          server,     \* "loop", "wait", "search", "reply" or "panicked"
          at,         \* the block that search_dir comes to next in the server
          res,        \* the response being sent
          waitGroup,  \* the clients whose search goroutines are counted in it
          pc,         \* "idle", "sending" on in, "receiving" on out,
                      \* "awaiting" the callback of a search, or "gone"
          req,        \* the request of the call in progress
          iface,      \* the requestChan the client uses: "public" or "private"
          search      \* search[c]: the search goroutine of a client

serverVars == <<locked, server, at, res>>
clientVars == <<pc, req, iface, search>>
vars == <<slots, serverVars, waitGroup, clientVars>>
-----------------------------------------------------------------------------
Searches == {[op |-> op, name |-> n] : op \in {"lookup", "lookupGet"}, n \in Names}
       \cup {[op |-> "isEmpty"]}
Updates == {[op |-> "unlink", name |-> n] : n \in Names}
      \cup {[op |-> "link", name |-> e.name, inum |-> e.inum] : e \in Entries}
Requests == Searches \cup Updates \cup {[op |-> op] : op \in {"lock", "unlock", "close"}}
ASSUME CallsAssumption == Calls \subseteq Requests
NoRequest == [op |-> "none"]

Responses == [op : {"none", "async", "link", "unlink", "lock", "unlock", "close"}, ok : BOOLEAN]
NoResponse == [op |-> "none", ok |-> FALSE]

\* A search goroutine: oldSlots and the block it comes to next; then what it
\* sends to the callback.
NoSearch == [stage |-> "none", old |-> 0, block |-> 0, ok |-> FALSE, inum |-> 0]

Held(c) == iface[c] = "private"

\* The request in hand: that of the client that receives on out.
Request == req[CHOOSE c \in Clients : pc[c] = "receiving"]

\* Close is called when the last user of the directory is gone; nobody calls
\* after.
Closing == server = "panicked" \/ \E c \in Clients : pc[c] = "gone" \/ req[c].op = "close"

MayCall(c, r) == r.op = "close" => \A d \in Clients : pc[d] = "idle" /\ ~Held(d)

Call(c, r) ==
  /\ pc[c] = "idle" /\ ~Closing /\ MayCall(c, r)
  /\ pc' = [pc EXCEPT ![c] = "sending"]
  /\ req' = [req EXCEPT ![c] = r]
  /\ UNCHANGED <<slots, waitGroup, iface, search, serverVars>>
-----------------------------------------------------------------------------
(* search_dir *)

BlockOf(i) == (i - 1) \div SlotsPerBlock
First(is) == CHOOSE i \in is : \A j \in is : i <= j
IsUsed(i) == slots[i] # Free

\* The slots of a block in which a search for r ends.  (HitsFree: without the
\* test of Inum.)
HitsFree(r, block, old) ==
  {i \in 1 .. old : /\ BlockOf(i) = block
                    /\ IF r.op = "isEmpty" THEN slots[i].name \notin Dots
                       ELSE slots[i].name = r.name}
Hits(r, block, old) ==
  {i \in 1 .. old : /\ BlockOf(i) = block /\ IsUsed(i)
                    /\ IF r.op = "isEmpty" THEN slots[i].name \notin Dots
                       ELSE slots[i].name = r.name}

\* Where ENTER can put an entry: a free slot, or the rest of the last block.
\* (RoomPastBlock: also in the block behind the last.)
RoomPastBlock(block) ==
  {i \in 1 .. Len(slots) + 1 : BlockOf(i) >= block /\ (i <= Len(slots) => ~IsUsed(i))}
Room(block) ==
  {i \in 1 .. Len(slots) + 1 : BlockOf(i) = block /\ (i <= Len(slots) => ~IsUsed(i))}

More(block) == block * SlotsPerBlock < Len(slots)
-----------------------------------------------------------------------------
(***************************************************************************)
(* The loop: one action per case of its switch, and one per later step.     *)
(***************************************************************************)
Receive(c, op) ==
  /\ server = "loop"
  /\ pc[c] = "sending" /\ req[c].op = op /\ iface[c] = "public"
  /\ pc' = [pc EXCEPT ![c] = "receiving"]
  /\ UNCHANGED <<slots, req, iface, search, at>>

Respond(op, ok) == server' = "reply" /\ res' = [op |-> op, ok |-> ok]

\* The goroutine is counted before it starts and before the client is answered.
SearchRequest(c) ==
  /\ \E op \in {"lookup", "lookupGet", "isEmpty"} : Receive(c, op)
  /\ waitGroup' = waitGroup \cup {c}
  /\ Respond("async", TRUE)
  /\ UNCHANGED locked

\* Link, Unlink and Close wait for the searches that are under way.
WaitRequest(c) ==
  /\ \E op \in {"link", "unlink", "close"} : Receive(c, op)
  /\ server' = "wait"
  /\ UNCHANGED <<locked, res, waitGroup>>

\* (NoWait: waitGroup.Wait() is left out.  WaitForScans: LookupGet calls Done()
\* before it calls GetInode.)
NoWait == server = "wait"
WaitForScans == server = "wait" /\ \A c \in waitGroup : search[c].stage \in {"get", "done"}
Waited == server = "wait" /\ waitGroup = {}

StartUpdate ==
  /\ Waited /\ Request.op \in {"link", "unlink"}
  /\ server' = "search"
  /\ UNCHANGED <<slots, locked, at, res, waitGroup, clientVars>>

Finish(ok) ==
  /\ Respond(Request.op, ok)
  /\ at' = 0
  /\ UNCHANGED <<locked, waitGroup, clientVars>>

NextBlock ==
  /\ at' = at + 1
  /\ UNCHANGED <<slots, locked, server, res, waitGroup, clientVars>>

Erase(is) == slots' = [slots EXCEPT ![First(is)] = Free]

DeleteBlock ==
  /\ server = "search" /\ Request.op = "unlink" /\ More(at)
  /\ LET hits == Hits(Request, at, Len(slots))
     IN  IF hits = {} THEN NextBlock ELSE Erase(hits) /\ Finish(TRUE)

NotFound ==
  /\ server = "search" /\ Request.op = "unlink" /\ ~More(at)
  /\ Finish(FALSE) /\ UNCHANGED slots

\* The size grows when the slot is the one past the end.
Put(i) == slots' = [j \in 1 .. IF i > Len(slots) THEN i ELSE Len(slots) |->
                      IF j = i THEN [name |-> Request.name, inum |-> Request.inum] ELSE slots[j]]

EnterBlock ==
  /\ server = "search" /\ Request.op = "link" /\ More(at)
  /\ IF Room(at) = {} THEN NextBlock ELSE Put(First(Room(at))) /\ Finish(TRUE)

\* NewBlock, which fails if no zone is free.
Extend ==
  /\ server = "search" /\ Request.op = "link" /\ ~More(at)
  /\ \/ Len(slots) < MaxSlots /\ Put(Len(slots) + 1) /\ Finish(TRUE)
     \/ Finish(FALSE) /\ UNCHANGED slots

EndClose ==
  /\ Waited /\ Request.op = "close"
  /\ Respond("close", TRUE)
  /\ UNCHANGED <<slots, locked, at, waitGroup, clientVars>>

\* Lock answers nil (ok = FALSE) if d.locked was ever set: Unlock does not reset
\* it.
LockRequest(c) ==
  /\ Receive(c, "lock")
  /\ Respond("lock", ~locked)
  /\ locked' = TRUE
  /\ UNCHANGED waitGroup

UnlockRequest(c) ==
  /\ Receive(c, "unlock")
  /\ Respond("unlock", locked)
  /\ UNCHANGED <<locked, waitGroup>>

\* The reply is taken by the client that is receiving on out.  Unlock panics on
\* the answer false.  After Close the loop goes on: break only leaves the switch.
Reply(c) ==
  /\ server = "reply" /\ pc[c] = "receiving"
  /\ server' = IF res.op = "unlock" /\ ~res.ok THEN "panicked" ELSE "loop"
  /\ pc' = [pc EXCEPT ![c] = CASE res.op = "async" -> "awaiting"
                               [] res.op = "close" -> "gone"
                               [] OTHER -> "idle"]
  /\ req' = IF res.op = "async" THEN req ELSE [req EXCEPT ![c] = NoRequest]
  /\ iface' = IF res.op = "lock" /\ res.ok THEN [iface EXCEPT ![c] = "private"] ELSE iface
  /\ res' = NoResponse
  /\ UNCHANGED <<slots, locked, at, waitGroup, search>>
-----------------------------------------------------------------------------
(* The goroutine of a search. *)

Searching(c, stage) == pc[c] = "awaiting" /\ search[c].stage = stage /\ server # "panicked"

StartSearch(c) ==
  /\ Searching(c, "none")
  /\ search' = [search EXCEPT ![c].stage = "blocks", ![c].old = Len(slots)]
  /\ UNCHANGED <<slots, serverVars, waitGroup, pc, req, iface>>

Answer(c, ok, inum) ==
  search' = [search EXCEPT ![c].stage = IF ok /\ req[c].op = "lookupGet" THEN "get" ELSE "done",
                           ![c].old = 0, ![c].block = 0, ![c].ok = ok, ![c].inum = inum]

SearchBlock(c) ==
  /\ Searching(c, "blocks") /\ More(search[c].block)
  /\ LET hits == Hits(req[c], search[c].block, search[c].old)
     IN  IF hits = {} THEN search' = [search EXCEPT ![c].block = @ + 1]
         ELSE IF req[c].op = "isEmpty" THEN Answer(c, FALSE, 0)
         ELSE Answer(c, TRUE, slots[First(hits)].inum)
  /\ UNCHANGED <<slots, serverVars, waitGroup, pc, req, iface>>

SearchEnds(c) ==
  /\ Searching(c, "blocks") /\ ~More(search[c].block)
  /\ Answer(c, req[c].op = "isEmpty", 0)
  /\ UNCHANGED <<slots, serverVars, waitGroup, pc, req, iface>>

\* icache.GetInode, which fails if the inode cache is full or the inode cannot be
\* read.
GetInode(c) ==
  /\ Searching(c, "get")
  /\ \E ok \in BOOLEAN :
       search' = [search EXCEPT ![c].stage = "done", ![c].ok = ok,
                                ![c].inum = IF ok THEN @ ELSE 0]
  /\ UNCHANGED <<slots, serverVars, waitGroup, pc, req, iface>>

\* callback <- result.  The goroutine then calls waitGroup.Done() and ends; a
\* later Done() would only make a Wait longer.  (NeverDone: without Done().)
NeverDone(c) == UNCHANGED waitGroup
Done(c) == waitGroup' = waitGroup \ {c}

EndSearch(c) ==
  /\ Searching(c, "done")
  /\ pc' = [pc EXCEPT ![c] = "idle"]
  /\ req' = [req EXCEPT ![c] = NoRequest]
  /\ search' = [search EXCEPT ![c] = NoSearch]
  /\ Done(c)
  /\ UNCHANGED <<slots, iface, serverVars>>
-----------------------------------------------------------------------------
\* A directory with . in its first slot, and in the others what Link and Unlink
\* may have left: a name can be there twice.
Init ==
  /\ \E n \in 0 .. MaxSlots : slots \in [1 .. n -> Entries \cup {Free}]
  /\ \A i \in 1 .. Len(slots) : slots[i].name \in Dots <=> i = 1
  /\ locked = FALSE
  /\ server = "loop" /\ at = 0 /\ res = NoResponse
  /\ waitGroup = {}
  /\ pc = [c \in Clients |-> "idle"]
  /\ req = [c \in Clients |-> NoRequest]
  /\ iface = [c \in Clients |-> "public"]
  /\ search = [c \in Clients |-> NoSearch]

Serve(c) == SearchRequest(c) \/ WaitRequest(c) \/ LockRequest(c) \/ UnlockRequest(c)
Work == StartUpdate \/ DeleteBlock \/ NotFound \/ EnterBlock \/ Extend \/ EndClose
Goroutine(c) == StartSearch(c) \/ SearchBlock(c) \/ SearchEnds(c) \/ GetInode(c) \/ EndSearch(c)

Next == \/ Work
        \/ \E c \in Clients : (\E r \in Calls : Call(c, r)) \/ Serve(c) \/ Reply(c) \/ Goroutine(c)

\* The runtime runs every goroutine that can go on, and wakes the senders blocked
\* on a channel in FIFO order; the inode cache answers.
Fairness ==
  /\ WF_vars(Work)
  /\ \A c \in Clients : SF_vars(Serve(c)) /\ WF_vars(Reply(c)) /\ WF_vars(Goroutine(c))

Spec == Init /\ [][Next]_vars /\ Fairness
-----------------------------------------------------------------------------
(* Properties *)

\* Every variable keeps its shape.
TypeOK ==
  /\ slots \in Seq(Entries \cup {Free}) /\ Len(slots) <= MaxSlots
  /\ locked \in BOOLEAN
  /\ server \in {"loop", "wait", "search", "reply", "panicked"}
  /\ at \in 0 .. MaxSlots /\ res \in Responses
  /\ waitGroup \subseteq Clients
  /\ pc \in [Clients -> {"idle", "sending", "receiving", "awaiting", "gone"}]
  /\ req \in [Clients -> Requests \cup {NoRequest}]
  /\ iface \in [Clients -> {"public", "private"}]
  /\ search \in [Clients -> [stage : {"none", "blocks", "get", "done"}, old : 0 .. MaxSlots,
                             block : 0 .. MaxSlots, ok : BOOLEAN, inum : Inums \cup {0}]]

\* While a search is between two blocks the blocks behind it stay as it saw them:
\* none has an entry it looks for, and the directory has the size it had.
SearchSeesStableDirectory ==
  \A c \in Clients : pc[c] = "awaiting" /\ search[c].stage = "blocks" =>
    /\ search[c].old = Len(slots)
    /\ \A b \in 0 .. search[c].block - 1 : Hits(req[c], b, Len(slots)) = {}

\* The inode that LookupGet fetches is still the one of an entry of that name: it
\* is not given back to the disk, or to another file, in between.
InodeGotIsLinked ==
  \A c \in Clients : pc[c] = "awaiting" /\ search[c].stage = "get" =>
    [name |-> req[c].name, inum |-> search[c].inum] \in {slots[i] : i \in 1 .. Len(slots)}

\* Every call that is not made through the interface that Lock returned is
\* answered, whatever it waits behind, or the program is down.
EveryCallReturns ==
  \A c \in Clients : pc[c] # "idle" /\ ~Held(c) ~> pc[c] \in {"idle", "gone"} \/ server = "panicked"
-----------------------------------------------------------------------------
(* The server implements the atomic directory its interface promises. *)

InDirectory(c) == req[c].op \notin {"none", "lock", "unlock", "close"}
Answered(c) ==
  \/ pc[c] = "awaiting" /\ search[c].stage = "done"
  \/ pc[c] = "receiving" /\ server = "reply" /\ res.op \in {"link", "unlink"}

Entered == [e \in Entries |-> Cardinality({i \in 1 .. Len(slots) : slots[i] = e})]
Stages == [c \in Clients |-> IF ~InDirectory(c) THEN "idle"
                             ELSE IF Answered(c) THEN "answered" ELSE "asked"]
Asks == [c \in Clients |-> IF InDirectory(c) THEN req[c] ELSE NoRequest]
Answers == [c \in Clients |->
              IF ~InDirectory(c) \/ ~Answered(c) THEN [ok |-> FALSE, inum |-> 0]
              ELSE IF req[c].op \in {"link", "unlink"} THEN [ok |-> res.ok, inum |-> 0]
              ELSE [ok |-> search[c].ok, inum |-> search[c].inum]]

A == INSTANCE AtomicDirectory WITH
       entries <- Entered, stage <- Stages, ask <- Asks, answer <- Answers

\* Every behaviour of the server is one of the atomic directory.
ImplementsAtomicDirectory == A!Spec
=============================================================================
