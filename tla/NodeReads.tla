---------------------------- MODULE NodeReads -----------------------------
(***************************************************************************)
(* The read side of a node: the gRPC and REST read endpoints (pkg/server,  *)
(* pkg/rest) and the light client service over an engine (pkg/lightclient),*)
(* while the engine keeps committing blocks.  Each call of the engine takes*)
(* e.mu by itself; an endpoint that makes several sees a cycle in between. *)
(*                                                                         *)
(* A block is the key it anchors.  A state root is the set of keys in the  *)
(* tree, and an inclusion proof is the root it was computed under: that a  *)
(* proof fits its own root alone is shown of SparseMerkleTree.             *)
(***************************************************************************)
EXTENDS Naturals, Sequences, FiniteSets, Functions

CONSTANTS
    Key,
    IndexWidth,        \* block indices are unsigned integers of this width
    MaxStream,         \* maxStreamBlocks, maxStreamBlocksPerResponse
    Buffer,            \* the capacity of the channel, of the transport
    MaxBlocks          \* bound: blocks of the chain

\* What the constants must satisfy.
ReadsAssumption ==
    /\ {IndexWidth, MaxStream, Buffer} \subseteq Nat \ {0}
    /\ MaxBlocks \in 1..2^IndexWidth - 1

Index == 0..2^IndexWidth - 1

Wrap(n) == n % 2^IndexWidth

VARIABLES
    blocks,            \* e.blocks
    call,              \* the request being answered
    reply,             \* what the last request was answered
    stream             \* the stream being served

readVars == <<blocks, call, reply, stream>>

---------------------------------------------------------------------------
(* The engine's side: one critical section each. *)

RootAfter(n) == {blocks[i] : i \in 1..n}

\* StateRoot of the block at an index.
StateRoot(i) == RootAfter(i + 1)

BlockCount == Len(blocks)

GetStateRoot == RootAfter(BlockCount)

\* GetBlock: nil from the end of the chain on.
Found(i) == i < BlockCount

\* ProveSMT answers for a key of the tree, and fails for any other.
Provable(k) == k \in GetStateRoot

\* e.anchored[k], set when k is committed: its block and the proof taken then.
LastBlockOf(k) == CHOOSE i \in 0..BlockCount - 1 :
                    blocks[i + 1] = k /\ \A j \in i + 2..BlockCount : blocks[j] # k

LookupHash(k) == [block |-> LastBlockOf(k), proof |-> StateRoot(LastBlockOf(k))]

VerifySMT(k, root, proof) == proof = root /\ k \in root

\* VerifyAnchored checks a proof under the state root of the block it is given.
VerifyAnchored(i, k, proof) == VerifySMT(k, StateRoot(i), proof)

\* One cycle that commits a block.
Commit(k) ==
    /\ BlockCount < MaxBlocks
    /\ blocks' = Append(blocks, k)
    /\ UNCHANGED <<call, reply, stream>>

---------------------------------------------------------------------------
(* Requests: the reads of the engine an endpoint makes, in order. *)

MerkleReads(i) == IF i > 0 THEN <<"block", "proof", "root">> ELSE <<"proof", "root">>

StateRootReads == <<"root", "height">>

HealthReads == <<"height", "root">>

Idle == [op |-> "none"]

\* A request, the chain's length when it came, and the fields of its answer.
Blank(op, k, i) == [op |-> op, ok |-> FALSE, key |-> k, index |-> i, opened |-> BlockCount,
                    proof |-> {}, root |-> {}, height |-> 0]

NoReply == [Blank("none", CHOOSE k \in Key : TRUE, 0) EXCEPT !.opened = 0]

Request(op, k, i, reads) ==
    /\ call = Idle
    /\ call' = [op |-> op, todo |-> reads, so |-> Blank(op, k, i)]
    /\ reply' = NoReply
    /\ UNCHANGED <<blocks, stream>>

\* GetMerkleProof: the block must exist, but index 0 is not looked at.
GetMerkleProof(k, i) == Request("merkle", k, i, MerkleReads(i))

\* GetCurrentStateRoot, and the REST handler handleStateRoot.
GetCurrentStateRoot(k) == Request("stateRoot", k, 0, StateRootReads)

\* GetHealth, and the REST handler handleHealth.
GetHealth(k) == Request("health", k, 0, HealthReads)

\* VerifyHash, and GetBlock for the block it names.
VerifyHash(k) == Request("verify", k, 0, <<"lookup", "fetch">>)

\* The reads that may fail end the request.
Readable(what, so) ==
    CASE what = "block"            -> Found(so.index)
      [] what \in {"proof", "lookup"} -> Provable(so.key)
      [] OTHER                     -> TRUE

After(what, so) ==
    CASE what = "block"  -> so
      [] what = "proof"  -> [so EXCEPT !.proof = GetStateRoot]
      [] what = "root"   -> [so EXCEPT !.root = GetStateRoot]
      [] what = "height" -> [so EXCEPT !.height = BlockCount]
      [] what = "lookup" -> [so EXCEPT !.index = LookupHash(so.key).block,
                                       !.proof = LookupHash(so.key).proof]
      [] what = "fetch"  -> [so EXCEPT !.root = StateRoot(so.index)]

Read ==
    /\ call # Idle
    /\ LET what == Head(call.todo) IN
         \/ /\ ~Readable(what, call.so)
            /\ reply' = call.so
            /\ call' = Idle
         \/ /\ Readable(what, call.so)
            /\ LET so == After(what, call.so) IN
                 IF Len(call.todo) = 1
                 THEN reply' = [so EXCEPT !.ok = TRUE] /\ call' = Idle
                 ELSE call' = [call EXCEPT !.todo = Tail(@), !.so = so] /\ UNCHANGED reply
    /\ UNCHANGED <<blocks, stream>>

CallNext ==
    \/ \E k \in Key : Commit(k) \/ GetCurrentStateRoot(k) \/ GetHealth(k) \/ VerifyHash(k)
    \/ \E k \in Key, i \in 0..MaxBlocks : GetMerkleProof(k, i)
    \/ Read

---------------------------------------------------------------------------
(* Streams: the service's goroutine writing to a channel, and the gRPC      *)
(* handler writing to its transport.  They differ in their last index.      *)

NoStream == [at |-> "none", kind |-> "service", start |-> 0, to |-> 0, end |-> 0, next |-> 0,
             buf |-> <<>>, got |-> <<>>, cancelled |-> FALSE, total |-> 0]

\* The service reads the chain's length once, and stops below it.
ServiceEnd(s) ==
    LET end == Wrap(s.start + MaxStream - 1)
    IN  IF BlockCount > 0 /\ end >= BlockCount THEN BlockCount - 1 ELSE end

\* The handler takes an inverted range for one block, and cuts a long one.
EndUncut(s) == IF s.to < s.start THEN s.start ELSE s.to

HandlerEnd(s) ==
    LET to == EndUncut(s)
    IN  IF to - s.start >= MaxStream THEN Wrap(s.start + MaxStream - 1) ELSE to

StreamBlocks(kind, from, to) ==
    /\ stream.at = "none"
    /\ stream' = [NoStream EXCEPT !.at = "open", !.kind = kind, !.start = from,
                                  !.to = to, !.next = from]
    /\ UNCHANGED <<blocks, call, reply>>

\* The bound is computed when the goroutine, or the handler, first runs.
Open ==
    /\ stream.at = "open"
    /\ stream' = [stream EXCEPT !.at = "get", !.total = BlockCount,
                   !.end = IF stream.kind = "service" THEN ServiceEnd(stream)
                                                      ELSE HandlerEnd(stream)]
    /\ UNCHANGED <<blocks, call, reply>>

\* The head of the loop: past the end, cancelled, or no such block ends it.
Ends(s) == s.next > s.end \/ s.cancelled \/ ~Found(s.next)

GetNext ==
    /\ stream.at = "get"
    /\ stream' = [stream EXCEPT !.at = IF Ends(stream) THEN "closed" ELSE "send"]
    /\ UNCHANGED <<blocks, call, reply>>

\* The write waits for room, or for the caller to give up.
Room(s) == Len(s.buf) < Buffer

\* Mutant: the write does not look at the caller's context.
SendRoom(s) == Room(s)

SendReady(s) == Room(s) \/ s.cancelled

Send ==
    /\ stream.at = "send"
    /\ SendReady(stream)
    /\ \/ /\ Room(stream)
          /\ stream' = [stream EXCEPT !.at = "get", !.buf = Append(@, stream.next),
                                      !.next = Wrap(@ + 1)]
       \/ /\ stream.cancelled
          /\ stream' = [stream EXCEPT !.at = "closed"]
    /\ UNCHANGED <<blocks, call, reply>>

\* The caller takes a block, or gives up and takes no more.
Receive ==
    /\ stream.buf # <<>> /\ ~stream.cancelled
    /\ stream' = [stream EXCEPT !.buf = Tail(@), !.got = Append(@, Head(stream.buf))]
    /\ UNCHANGED <<blocks, call, reply>>

Cancel ==
    /\ stream.at \notin {"none", "closed"} /\ ~stream.cancelled
    /\ stream' = [stream EXCEPT !.cancelled = TRUE]
    /\ UNCHANGED <<blocks, call, reply>>

\* The next call.
Finish ==
    /\ stream.at = "closed"
    /\ stream.buf = <<>> \/ stream.cancelled
    /\ stream' = NoStream
    /\ UNCHANGED <<blocks, call, reply>>

StreamNext ==
    \/ \E k \in Key : Commit(k)
    \/ \E kind \in {"service", "handler"}, from, to \in Index : StreamBlocks(kind, from, to)
    \/ Open \/ GetNext \/ Send \/ Receive \/ Cancel \/ Finish

---------------------------------------------------------------------------
ReadsInit ==
    /\ blocks = <<>>
    /\ call = Idle
    /\ reply = NoReply
    /\ stream = NoStream

CallSpec == ReadsInit /\ [][CallNext]_readVars

\* The goroutine and the handler run on; a caller that has not given up reads on.
StreamSpec ==
    /\ ReadsInit
    /\ [][StreamNext]_readVars
    /\ WF_readVars(Open \/ GetNext \/ Send)
    /\ WF_readVars(Receive)

---------------------------------------------------------------------------
(* Properties. *)

\* Requests and streams keep their shapes, and a stream its bound.
ReadsTypeOK ==
    /\ blocks \in Seq(Key) /\ BlockCount <= MaxBlocks
    /\ reply.key \in Key /\ reply.proof \subseteq Key /\ reply.root \subseteq Key
    /\ {reply.opened, reply.height} \subseteq 0..BlockCount
    /\ {stream.start, stream.to, stream.end, stream.next} \subseteq Index
    /\ Len(stream.buf) <= Buffer

(* What a caller of GetCurrentStateRoot and GetHealth, and of their REST         *)
(* handlers, is told together: the root is that of the reported height.        *)
RootOfHeight ==
    reply.op \in {"stateRoot", "health"} /\ reply.ok => reply.root = RootAfter(reply.height)

(* The comment on GetMerkleProof in pkg/server/lightclient.go: the root it     *)
(* returns is that of the block the caller named.                              *)
RootIsBlocks ==
    reply.op = "merkle" /\ reply.ok /\ reply.index > 0 => reply.root = StateRoot(reply.index)

(* The comment in its body: the root it returns is what the proof was computed *)
(* against.                                                                    *)
ProofMatchesRoot ==
    reply.op = "merkle" /\ reply.ok => VerifySMT(reply.key, reply.root, reply.proof)

(* The comment on Service.GetMerkleProof: a client ties an entry to its block  *)
(* by having VerifyAnchored check the proof under that block's state root.     *)
ProofTiesToBlock ==
    reply.op = "merkle" /\ reply.ok /\ reply.index < BlockCount
        /\ blocks[reply.index + 1] = reply.key
            => VerifyAnchored(reply.index, reply.key, reply.proof)

(* A stream carries consecutive blocks of the chain from the index asked for,  *)
(* at most MaxStream of them, near the largest index too.                      *)
StreamBounded ==
    LET sent == stream.got \o stream.buf IN
        /\ Len(sent) <= MaxStream
        /\ \A i \in DOMAIN sent : sent[i] = stream.start + i - 1 /\ Found(sent[i])

(* A stream that ends without having been cancelled has carried every block    *)
(* asked for that the chain had when it was opened, up to MaxStream.           *)
StreamWhole ==
    stream.at = "closed" /\ ~stream.cancelled =>
        {i \in stream.start..stream.total - 1 :
            /\ i < stream.start + MaxStream
            /\ stream.kind = "handler" => i <= EndUncut(stream)}
          \subseteq Range(stream.got \o stream.buf)

(* Every stream ends: the goroutine does not outlive a caller that reads on    *)
(* or gives up.                                                                *)
StreamEnds == stream.at = "open" ~> stream.at = "closed"

=============================================================================
