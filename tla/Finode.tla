------------------------------- MODULE Finode -------------------------------
(***************************************************************************)
(* The server goroutine of one open file (minixfs/finode/finode.go), the    *)
(* goroutines it starts for reads, and the processes that share the file.   *)
(* Reads run concurrently in goroutines of their own; a write is done by    *)
(* the server itself once the reads it has started are over.  Lock hands    *)
(* out a private channel and assigns it to the variable that the loop       *)
(* ranges over: Go evaluates that once, so that the loop goes on with the   *)
(* public channel and never receives from the private one.                  *)
(*                                                                         *)
(* A read or a write goes chunk by chunk, one GetBlock/PutBlock a step.     *)
(* Writes start at or before the end of the file, so it has no holes, and   *)
(* its blocks are those that hold a byte before the end.  Blocksize is      *)
(* scaled down.                                                             *)
(*                                                                         *)
(* A definition introduced in parentheses is a faulty variant of the one    *)
(* that follows it: putting it in that one's place breaks a property.       *)
(***************************************************************************)
EXTENDS Integers

CONSTANTS Clients,
          Blocksize,
          MaxSize,        \* the largest size of a file
          Spans,          \* the spans (position and length) of Read and Write
          Values,         \* what a byte can hold
          Wild            \* calls outside of the protocol that clients make:
                          \* "unlock" an unlocked file, read "pastEnd"

ASSUME SizeAssumption ==
  /\ Blocksize \in Nat \ {0} /\ MaxSize \in Nat
  /\ Spans \subseteq [pos : 0 .. MaxSize, len : 1 .. MaxSize + 1]
ASSUME WildAssumption == Wild \subseteq {"unlock", "pastEnd"}

Places == 0 .. MaxSize - 1

VARIABLES content,    \* content[i]: byte i of the blocks of the file
          size,       \* inode.Size
          dirty,      \* inode.Dirty
          locked,     \* fi.locked # nil
          server,     \* "loop", "wait", "write", "reply", "closed" or "panicked"
          cur,        \* the client whose request the server is handling
          position,   \* of the write in progress
          res,        \* the response being sent
          waitGroup,  \* the clients whose read goroutines are counted in it
          pc,         \* "idle", "sending" on in, "receiving" on out,
                      \* "awaiting" the callback of a read
          req,        \* the request of the call in progress
          iface,      \* the requestChan the client uses: "public" or "private"
          rd,         \* the read goroutine of a client: the bytes it has copied,
                      \* of how many, or NoRead before it has looked at the size
          before      \* the contents when the write began: a history variable

fileVars == <<content, size, dirty, before>>
serverVars == <<locked, server, cur, position, res>>
clientVars == <<pc, req, iface, rd>>
vars == <<fileVars, serverVars, waitGroup, clientVars>>
-----------------------------------------------------------------------------
Reads == {[op |-> "read", pos |-> s.pos, len |-> s.len] : s \in Spans}
Writes == {[op |-> "write", pos |-> s.pos, len |-> s.len, val |-> v] : s \in Spans, v \in Values}
Requests == Reads \cup Writes \cup {[op |-> op, pos |-> 0, len |-> 0] : op \in {"lock", "unlock", "close"}}
NoRequest == [op |-> "none", pos |-> 0, len |-> 0]

Responses == [op : {"none", "read", "write", "lock", "unlock", "close"}, ok : BOOLEAN, n : 0 .. MaxSize]
NoResponse == [op |-> "none", ok |-> FALSE, n |-> 0]

NoBytes == [i \in 0 .. -1 |-> 0]
NoRead == [want |-> -1, got |-> 0, data |-> NoBytes]
Started(c) == rd[c].want >= 0

Held(c) == iface[c] = "private"
Bytes == [i \in 0 .. size - 1 |-> content[i]]

\* The part of a transfer of n bytes from p on that is in the block of p.
\* (RestOfBlock: without the minimum.)
RestOfBlock(p, n) == Blocksize - (p % Blocksize)
Chunk(p, n) == IF n < Blocksize - (p % Blocksize) THEN n ELSE Blocksize - (p % Blocksize)

\* Close is called when the last user of the file is gone; nobody calls after.
Closing == server \in {"closed", "panicked"} \/ \E c \in Clients : req[c].op = "close"

MayCall(c, r) ==
  /\ r.op = "unlock" => Held(c) \/ "unlock" \in Wild
  /\ r.op = "read" => r.pos <= size \/ "pastEnd" \in Wild
  /\ r.op = "write" => r.pos <= size
  /\ r.op = "close" => \A d \in Clients : pc[d] = "idle" /\ ~Held(d)

Call(c, r) ==
  /\ pc[c] = "idle" /\ ~Closing /\ MayCall(c, r)
  /\ pc' = [pc EXCEPT ![c] = "sending"]
  /\ req' = [req EXCEPT ![c] = r]
  /\ UNCHANGED <<fileVars, waitGroup, iface, rd, serverVars>>
-----------------------------------------------------------------------------
(***************************************************************************)
(* The loop: one action per case of its switch, and one per later step.     *)
(***************************************************************************)
\* (ReceiveWaiting: also during Wait.)
ReceiveWaiting(c, op) ==
  /\ server \in {"loop", "wait"}
  /\ pc[c] = "sending" /\ req[c].op = op
  /\ iface[c] = "public"
  /\ pc' = [pc EXCEPT ![c] = "receiving"]
  /\ cur' = c
  /\ UNCHANGED <<fileVars, req, iface, position>>
Receive(c, op) ==
  /\ server = "loop"
  /\ pc[c] = "sending" /\ req[c].op = op
  /\ iface[c] = "public"
  /\ pc' = [pc EXCEPT ![c] = "receiving"]
  /\ cur' = c
  /\ UNCHANGED <<fileVars, req, iface, position>>

Respond(op, ok, n) ==
  /\ server' = "reply"
  /\ res' = [op |-> op, ok |-> ok, n |-> n]

\* The read is counted before its goroutine starts and the client is answered.
CountIn(c) == waitGroup' = waitGroup \cup {c}

ReadRequest(c) ==
  /\ Receive(c, "read")
  /\ CountIn(c)
  /\ Respond("read", TRUE, 0)
  /\ UNCHANGED <<locked, rd>>

\* Write and Close wait for the reads that are under way.
WaitRequest(c) ==
  /\ \E op \in {"write", "close"} : Receive(c, op)
  /\ server' = "wait"
  /\ UNCHANGED <<locked, res, waitGroup, rd>>

\* (NoWait: waitGroup.Wait() is left out.)
NoWait == server = "wait"
Waited == server = "wait" /\ waitGroup = {}

\* "Check in advance to see if file will grow too big".
StartWrite ==
  /\ Waited /\ req[cur].op = "write"
  /\ IF req[cur].pos > MaxSize - req[cur].len
     THEN Respond("write", FALSE, 0) /\ UNCHANGED <<position, before>>
     ELSE /\ server' = "write"
          /\ position' = req[cur].pos
          /\ before' = Bytes
          /\ UNCHANGED res
  /\ UNCHANGED <<content, size, dirty, locked, cur, waitGroup, clientVars>>

End(r) == r.pos + r.len

\* The chunk starts a block that the file does not have yet.
NeedsZone == position >= size /\ position % Blocksize = 0

WriteChunk ==
  /\ server = "write" /\ position < End(req[cur])
  /\ LET chunk == Chunk(position, End(req[cur]) - position)
     IN  /\ content' = [i \in Places |->
                          IF i >= position /\ i < position + chunk THEN req[cur].val ELSE content[i]]
         /\ position' = position + chunk
  /\ dirty' = (dirty \/ NeedsZone)
  /\ UNCHANGED <<size, before, locked, server, cur, res, waitGroup, clientVars>>

\* (NotGrown: the size is not brought up to date.)
NotGrown == UNCHANGED size
Grow == size' = IF position > size THEN position ELSE size

Finish(ok) ==
  /\ Grow
  /\ dirty' = (dirty \/ ok)
  /\ Respond("write", ok, position - req[cur].pos)
  /\ position' = 0
  /\ UNCHANGED <<content, before, locked, cur, waitGroup, clientVars>>

EndWrite == server = "write" /\ position = End(req[cur]) /\ Finish(TRUE)

\* No zone is free for the next chunk.
ChunkFails == server = "write" /\ position < End(req[cur]) /\ NeedsZone /\ Finish(FALSE)

EndClose ==
  /\ Waited /\ req[cur].op = "close"
  /\ Respond("close", TRUE, 0)
  /\ UNCHANGED <<fileVars, locked, cur, position, waitGroup, clientVars>>

\* Lock answers nil (ok = FALSE) if fi.locked was ever set: Unlock does not
\* reset it.
LockRequest(c) ==
  /\ Receive(c, "lock")
  /\ Respond("lock", ~locked, 0)
  /\ locked' = TRUE
  /\ UNCHANGED <<waitGroup, rd>>

UnlockRequest(c) ==
  /\ Receive(c, "unlock")
  /\ Respond("unlock", locked, 0)
  /\ UNCHANGED <<locked, waitGroup, rd>>

\* The reply is taken by a client that is receiving on out.  Unlock panics on
\* the answer false.  A client that is granted the lock goes on with the private
\* channel.
Reply(c) ==
  /\ server = "reply" /\ pc[c] = "receiving"
  /\ server' = CASE res.op = "unlock" /\ ~res.ok -> "panicked"
                 [] res.op = "close" -> "closed"
                 [] OTHER -> "loop"
  /\ IF res.op = "read"
     THEN pc' = [pc EXCEPT ![c] = "awaiting"] /\ UNCHANGED req
     ELSE pc' = [pc EXCEPT ![c] = "idle"] /\ req' = [req EXCEPT ![c] = NoRequest]
  /\ iface' = IF res.op = "lock" /\ res.ok THEN [iface EXCEPT ![c] = "private"] ELSE iface
  /\ res' = NoResponse
  /\ UNCHANGED <<fileVars, locked, cur, position, waitGroup, rd>>
-----------------------------------------------------------------------------
(* The goroutine of a read. *)

\* It cuts b down to what the file has.  Past the end that panics, before the
\* test for the end of the file.
StartRead(c) ==
  /\ pc[c] = "awaiting" /\ ~Started(c) /\ server # "panicked"
  /\ LET r == req[c] IN
     IF r.pos > size
     THEN server' = "panicked" /\ UNCHANGED rd
     ELSE /\ rd' = [rd EXCEPT ![c] = [want |-> IF End(r) > size THEN size - r.pos ELSE r.len,
                                       got |-> 0, data |-> NoBytes]]
          /\ UNCHANGED server
  /\ UNCHANGED <<fileVars, locked, cur, position, res, waitGroup, pc, req, iface>>

ReadChunk(c) ==
  /\ pc[c] = "awaiting" /\ Started(c) /\ server # "panicked"
  /\ rd[c].got < rd[c].want
  /\ LET from == req[c].pos
         got == rd[c].got
         next == got + Chunk(from + got, rd[c].want - got)
     IN  rd' = [rd EXCEPT ![c] =
                  [want |-> rd[c].want, got |-> next,
                   data |-> [i \in 0 .. next - 1 |->
                               IF i < got THEN rd[c].data[i] ELSE content[from + i]]]]
  /\ UNCHANGED <<fileVars, waitGroup, pc, req, iface, serverVars>>

\* callback <- result.  The goroutine then calls waitGroup.Done() and ends; a
\* later Done() would only make a Wait longer.  (NeverDone: without Done().)
NeverDone(c) == UNCHANGED waitGroup
Done(c) == waitGroup' = waitGroup \ {c}

EndRead(c) ==
  /\ pc[c] = "awaiting" /\ Started(c) /\ server # "panicked"
  /\ rd[c].got = rd[c].want
  /\ pc' = [pc EXCEPT ![c] = "idle"]
  /\ req' = [req EXCEPT ![c] = NoRequest]
  /\ rd' = [rd EXCEPT ![c] = NoRead]
  /\ Done(c)
  /\ UNCHANGED <<fileVars, iface, serverVars>>
-----------------------------------------------------------------------------
Init ==
  /\ size \in 0 .. MaxSize
  /\ content \in [Places -> Values]
  /\ dirty = FALSE
  /\ before = Bytes
  /\ locked = FALSE
  /\ server = "loop" /\ cur \in Clients /\ position = 0 /\ res = NoResponse
  /\ waitGroup = {}
  /\ pc = [c \in Clients |-> "idle"]
  /\ req = [c \in Clients |-> NoRequest]
  /\ iface = [c \in Clients |-> "public"]
  /\ rd = [c \in Clients |-> NoRead]

Serve(c) == ReadRequest(c) \/ WaitRequest(c) \/ LockRequest(c) \/ UnlockRequest(c)
Work == StartWrite \/ WriteChunk \/ EndWrite \/ ChunkFails \/ EndClose
Goroutine(c) == StartRead(c) \/ ReadChunk(c) \/ EndRead(c)

Next == \/ Work
        \/ \E c \in Clients : (\E r \in Requests : Call(c, r)) \/ Serve(c) \/ Reply(c) \/ Goroutine(c)

\* The runtime runs every goroutine that can go on, and wakes the senders blocked
\* on a channel in FIFO order.
Fairness ==
  /\ WF_vars(Work)
  /\ \A c \in Clients : SF_vars(Serve(c)) /\ WF_vars(Reply(c)) /\ WF_vars(Goroutine(c))

Spec == Init /\ [][Next]_vars /\ Fairness
-----------------------------------------------------------------------------
(* Properties *)

\* Every variable keeps its shape.
TypeOK ==
  /\ content \in [Places -> Values] /\ size \in 0 .. MaxSize /\ dirty \in BOOLEAN
  /\ locked \in BOOLEAN
  /\ server \in {"loop", "wait", "write", "reply", "closed", "panicked"}
  /\ cur \in Clients /\ position \in 0 .. MaxSize /\ res \in Responses
  /\ waitGroup \subseteq Clients
  /\ pc \in [Clients -> {"idle", "sending", "receiving", "awaiting"}]
  /\ req \in [Clients -> Requests \cup {NoRequest}]
  /\ iface \in [Clients -> {"public", "private"}]
  /\ rd \in [Clients -> [want : -1 .. MaxSize, got : 0 .. MaxSize,
                         data : UNION {[0 .. n - 1 -> Values] : n \in 0 .. MaxSize}]]

\* A read under way has its length and its bytes from the file as it is now: no
\* write has changed the size or a byte since it looked.
ReadersSeeStableFile ==
  \A c \in Clients : pc[c] = "awaiting" /\ Started(c) =>
    LET r == req[c] IN
    /\ rd[c].want = IF End(r) > size THEN size - r.pos ELSE r.len
    /\ rd[c].data = [i \in 0 .. rd[c].got - 1 |-> content[r.pos + i]]

\* Clients share one out channel and assert the type of what they receive: the
\* only client receiving is the one whose request is being handled.
RepliesReachCaller ==
  \A c \in Clients : pc[c] = "receiving" =>
    /\ c = cur /\ server \in {"wait", "write", "reply", "panicked"}
    /\ server = "reply" => res.op = req[c].op

\* Every call that is not made through the interface that Lock returned is
\* answered, whatever it waits behind, or the program is down.
EveryCallReturns ==
  \A c \in Clients : pc[c] # "idle" /\ ~Held(c) ~> pc[c] = "idle" \/ server = "panicked"

(* What the documentation says and the code does not do. *)

\* "Lock the inode, obtaining exclusive access via the returned interface": while
\* a client has the lock the server handles its requests only.
LockExcludesOthers ==
  \A c \in Clients : Held(c) /\ server \in {"wait", "write", "reply"} => cur = c

\* "Unlock the finode, only has effect on an already locked inode", and Read
\* returns "any error that may have occurred": neither panics.
NeverPanics == server # "panicked"

\* "rip.Dirty = true // inode will be changed": so is every inode whose size a
\* write has changed, and it is written back when the file is closed.
GrowthIsMarked == [][size' # size => dirty']_vars
-----------------------------------------------------------------------------
(* The server implements the atomic file its interface promises. *)

InFile(c) == req[c].op \in {"read", "write"}
Answered(c) ==
  \/ pc[c] = "awaiting" /\ Started(c) /\ rd[c].got = rd[c].want
  \/ pc[c] = "receiving" /\ server = "reply" /\ res.op = "write"

StageOf(c) == IF ~InFile(c) THEN "idle" ELSE IF Answered(c) THEN "answered" ELSE "asked"
AskOf(c) == IF InFile(c) THEN req[c] ELSE NoRequest
NoAnswer == [ok |-> FALSE, n |-> 0, data |-> <<>>]
AnswerOf(c) ==
  IF ~InFile(c) \/ ~Answered(c) THEN NoAnswer
  ELSE IF req[c].op = "read" THEN [ok |-> TRUE, n |-> rd[c].want, data |-> rd[c].data]
  ELSE [ok |-> res.ok, n |-> res.n, data |-> <<>>]

\* A write takes effect when it ends: until then only the server sees the blocks.
FileBytes == IF server = "write" THEN before ELSE Bytes
Stages == [c \in Clients |-> StageOf(c)]
Asks == [c \in Clients |-> AskOf(c)]
Answers == [c \in Clients |-> AnswerOf(c)]

A == INSTANCE AtomicFile WITH
       bytes <- FileBytes, stage <- Stages, ask <- Asks, answer <- Answers

\* Every behaviour of the server is one of the atomic file.
ImplementsAtomicFile == A!Spec
=============================================================================
