----------------------------- MODULE SecureConn -----------------------------
(***************************************************************************)
(* The KEM handshake and the encrypted framing of pkg/transport            *)
(* (secure_conn.go) over the Kyber1024 wrapper of pkg/identity (kyber.go). *)
(*                                                                         *)
(* Two ends share a reliable byte stream in each direction, which may break *)
(* at any time.  A handshake message is one cell with its size; a frame is *)
(* a length cell followed by one cell per byte of nonce and ciphertext, so *)
(* that a length which does not match the bytes really misreads them.      *)
(* Peer identifiers are sequences of characters, 0 standing for NUL.       *)
(*                                                                         *)
(* A caller stops using the connection at its first error, as the tests    *)
(* do.  The AEAD and the KEM are external: a ciphertext opens exactly under *)
(* the key that sealed it, and decapsulating a ciphertext under another    *)
(* secret key yields a different secret and no error.                      *)
(***************************************************************************)
EXTENDS Integers, Sequences, SequencesExt

CONSTANTS Ids,          \* pairs [dialer, listener] of peer identifiers
          IdWidth,      \* the 32 bytes of padPeerID
          NonceSize,    \* the 12 bytes of a ChaCha20-Poly1305 nonce
          TagSize,      \* the 16 bytes of its tag
          MaxPayload,   \* 1 MiB
          LenMod,       \* the 2^32 values of the length prefix
          Payloads,     \* lengths of the messages callers write
          MaxMsgs       \* bound: messages written by one end

MaxFrameSize == MaxPayload + NonceSize

End == {"dialer", "listener"}

\* What the constants must satisfy.  An identifier has no NUL and fits its field.
SecureConnAssumption ==
    /\ {IdWidth, NonceSize, TagSize, MaxPayload, MaxMsgs} \subseteq Nat \ {0}
    /\ LenMod \in Nat /\ LenMod > MaxFrameSize + TagSize
    /\ Payloads \subseteq Nat
    /\ \A ids \in Ids, e \in End : ids[e] \in Seq(Nat \ {0}) /\ Len(ids[e]) <= IdWidth

Other(e) == CHOOSE o \in End : o # e

VARIABLES pc,        \* where each end is
          id,        \* the identifier each end was started with
          peer,      \* PeerInfo of each end
          secret,    \* the shared secret of each end
          key,       \* the AEAD key of each end
          stream,    \* stream[e]: what e wrote and its peer has not read
          sent,      \* lengths of the messages WriteMessage accepted
          received,  \* messages ReadMessage returned
          broken     \* the connection is lost

connVars == <<pc, id, peer, secret, key, stream, sent, received, broken>>

Ended == {"failed", "tooLarge", "badTag", "panicked", "closed"}

None == <<>>

-----------------------------------------------------------------------------
(* Identifiers and key derivation.                                         *)

padPeerID(s) == [i \in 1 .. IdWidth |-> IF i <= Len(s) THEN s[i] ELSE 0]

trimPeerID(b) ==
    SubSeq(b, 1, IF \E i \in DOMAIN b : b[i] = 0
                 THEN SelectInSeq(b, LAMBDA c : c = 0) - 1
                 ELSE Len(b))

After(a, b) ==
    \/ IsStrictPrefix(b, a)
    \/ \E i \in DOMAIN a \cap DOMAIN b :
          a[i] > b[i] /\ SubSeq(a, 1, i - 1) = SubSeq(b, 1, i - 1)

deriveKey(ss, id1, id2) ==
    IF After(id1, id2) THEN <<ss, id2 \o id1>> ELSE <<ss, id1 \o id2>>

\* A KEM public key is named by its owner.
Encapsulate(pk) == [ct |-> [size |-> "ct", to |-> pk], ss |-> <<"ss", pk>>]

Decapsulate(e, ct) == IF ct.to = e THEN <<"ss", e>> ELSE <<"rejected", e>>

-----------------------------------------------------------------------------
ConnInit ==
    /\ pc = [dialer |-> "writePK", listener |-> "readPK"]
    /\ id \in Ids
    /\ peer = [e \in End |-> [PeerID |-> <<>>, PublicKey |-> "none"]]
    /\ secret = [e \in End |-> None]
    /\ key = [e \in End |-> None]
    /\ stream = [e \in End |-> <<>>]
    /\ sent = [e \in End |-> <<>>]
    /\ received = [e \in End |-> <<>>]
    /\ broken = FALSE

Goto(e, l) == pc' = [pc EXCEPT ![e] = l]

\* conn.Write on a connection that is up.
Put(e, cells) == ~broken /\ stream' = [stream EXCEPT ![e] = @ \o cells]

\* io.ReadFull of one handshake message.
HasCell(e, size) == stream[Other(e)] # <<>> /\ Head(stream[Other(e)]).size = size

Take(e, n) == stream' = [stream EXCEPT ![Other(e)] = SubSeq(@, n + 1, Len(@))]

\* The dialer writes its key first and then reads; the listener reads first.
WritePK(e) ==
    /\ pc[e] = "writePK"
    /\ Put(e, <<[size |-> "pk", id |-> padPeerID(id[e]), pk |-> e]>>)
    /\ Goto(e, IF e = "dialer" THEN "readPK" ELSE "readCT")
    /\ UNCHANGED <<id, peer, secret, key, sent, received, broken>>

ReadPK(e) ==
    /\ pc[e] = "readPK"
    /\ HasCell(e, "pk")
    /\ LET m == Head(stream[Other(e)])
       IN peer' = [peer EXCEPT ![e] = [PeerID |-> trimPeerID(m.id), PublicKey |-> m.pk]]
    /\ Take(e, 1)
    /\ Goto(e, IF e = "dialer" THEN "writeCT" ELSE "writePK")
    /\ UNCHANGED <<id, secret, key, sent, received, broken>>

Opened(e, ss) ==
    /\ secret' = [secret EXCEPT ![e] = ss]
    /\ key' = [key EXCEPT ![e] = deriveKey(ss, id[e], peer[e].PeerID)]
    /\ Goto(e, "open")

WriteCT(e) ==
    /\ pc[e] = "writeCT"
    /\ LET kem == Encapsulate(peer[e].PublicKey)
       IN Put(e, <<kem.ct>>) /\ Opened(e, kem.ss)
    /\ UNCHANGED <<id, peer, sent, received, broken>>

ReadCT(e) ==
    /\ pc[e] = "readCT"
    /\ HasCell(e, "ct")
    /\ Opened(e, Decapsulate(e, Head(stream[Other(e)])))
    /\ Take(e, 1)
    /\ UNCHANGED <<id, peer, sent, received, broken>>

-----------------------------------------------------------------------------
(* Framing.                                                                *)

\* The prefix counts its own byte.
PrefixCounted(e, m, n) ==
    LET frameLen == NonceSize + n + TagSize
    IN <<[size |-> "len", n |-> (frameLen + 1) % LenMod]>>
       \o [i \in 1 .. frameLen |->
             [size |-> "byte", m |-> m, i |-> i, of |-> frameLen, key |-> key[e]]]

\* The m-th message of e, of n bytes, as it goes on the wire.
Frame(e, m, n) ==
    LET frameLen == NonceSize + n + TagSize
    IN <<[size |-> "len", n |-> frameLen % LenMod]>>
       \o [i \in 1 .. frameLen |->
             [size |-> "byte", m |-> m, i |-> i, of |-> frameLen, key |-> key[e]]]

Accepted(n) == n <= MaxFrameSize - NonceSize

\* The refusal with ErrFrameTooLarge changes nothing.
WriteMessage(e, n) ==
    /\ pc[e] = "open"
    /\ Len(sent[e]) < MaxMsgs
    /\ Accepted(n)
    /\ Put(e, Frame(e, Len(sent[e]) + 1, n))
    /\ sent' = [sent EXCEPT ![e] = Append(@, n)]
    /\ UNCHANGED <<pc, id, peer, secret, key, received, broken>>

\* The bytes, nonce first, are one whole sealed message under this end's key.
Opens(e, body) ==
    /\ body # <<>>
    /\ \A i \in DOMAIN body :
          /\ body[i].size = "byte" /\ body[i].key = key[e]
          /\ body[i].m = body[1].m /\ body[i].i = i /\ body[i].of = Len(body)

\* The header cell when the stream is in step; a byte of a body read as a
\* length may be any length.
HeaderLengths(c) == IF c.size = "len" THEN {c.n} ELSE 0 .. LenMod - 1

\* A frame too short to hold a nonce panics where it is cut in two.
NotOpened(frameLen) == IF frameLen < NonceSize THEN "panicked" ELSE "badTag"

ReadMessage(e) ==
    LET in == stream[Other(e)]
    IN /\ pc[e] = "open"
       /\ in # <<>>
       /\ \E frameLen \in HeaderLengths(Head(in)) :
            \/ /\ frameLen > MaxFrameSize
               /\ Take(e, 1)
               /\ Goto(e, "tooLarge")
               /\ UNCHANGED received
            \/ /\ frameLen <= MaxFrameSize
               /\ Len(in) > frameLen
               /\ Take(e, frameLen + 1)
               /\ LET body == SubSeq(in, 2, frameLen + 1)
                  IN IF Opens(e, body)
                     THEN /\ received' = [received EXCEPT ![e] =
                                            Append(@, frameLen - NonceSize - TagSize)]
                          /\ UNCHANGED pc
                     ELSE /\ Goto(e, NotOpened(frameLen))
                          /\ UNCHANGED received
       /\ UNCHANGED <<id, peer, secret, key, sent, broken>>

\* The connection is lost with any part of what was in flight.
Break ==
    /\ ~broken
    /\ broken' = TRUE
    /\ \E d \in 0 .. Len(stream["dialer"]), l \in 0 .. Len(stream["listener"]) :
          stream' = [dialer |-> SubSeq(stream["dialer"], 1, d),
                     listener |-> SubSeq(stream["listener"], 1, l)]
    /\ UNCHANGED <<pc, id, peer, secret, key, sent, received>>

\* A write, or a read with too few bytes left, on a lost connection.
Fail(e) ==
    /\ broken
    /\ pc[e] \notin Ended
    /\ Goto(e, "failed")
    /\ UNCHANGED <<id, peer, secret, key, stream, sent, received, broken>>

Close(e) ==
    /\ pc[e] \in {"open", "tooLarge", "badTag"}
    /\ broken' = TRUE
    /\ stream' = [stream EXCEPT ![Other(e)] = <<>>]
    /\ Goto(e, "closed")
    /\ UNCHANGED <<id, peer, secret, key, sent, received>>

ConnStep(e) ==
    \/ WritePK(e) \/ ReadPK(e) \/ WriteCT(e) \/ ReadCT(e) \/ ReadMessage(e)
    \/ Fail(e)

ConnNext ==
    \/ Break
    \/ \E e \in End : ConnStep(e) \/ Close(e)
    \/ \E e \in End, n \in Payloads : WriteMessage(e, n)

ConnSpec == ConnInit /\ [][ConnNext]_connVars

\* Both ends run kemHandshake to its end and then keep reading.
ConnFairSpec == ConnSpec /\ \A e \in End : WF_connVars(ConnStep(e))

-----------------------------------------------------------------------------
ConnTypeOK ==
    /\ pc \in [End -> Ended \cup {"writePK", "readPK", "writeCT", "readCT", "open"}]
    /\ \A e \in End :
          /\ sent[e] \in Seq(Payloads) /\ received[e] \in Seq(Nat)
          /\ (key[e] = None) = (secret[e] = None)
          /\ pc[e] = "open" => key[e] # None /\ peer[e].PublicKey = Other(e)

\* Two ends that both finished kemHandshake derived the same AEAD key and each
\* knows the other by the identifier it was started with, whatever the lengths
\* of the identifiers up to the full width of the field: padPeerID leaves no
\* terminator then, and deriveKey must not depend on which end calls it.
KeysAgree ==
    (\A e \in End : key[e] # None)
        => /\ key["dialer"] = key["listener"]
           /\ \A e \in End : peer[e].PeerID = id[Other(e)]

\* ReadMessage returns the messages the peer's WriteMessage accepted, whole,
\* in order and none twice, up to the point where the connection ended; no
\* message is ever mistaken for another (the length prefix never wraps).
DeliveredInOrder ==
    \A e \in End :
        /\ IsPrefix(received[e], sent[Other(e)])
        /\ pc[e] \notin {"badTag", "panicked"}

\* The comment on MaxFrameSize: "The two directions have to agree on it."  No
\* frame that one end's WriteMessage accepted is refused by the other end's
\* ReadMessage.
DirectionsAgree == \A e \in End : pc[e] # "tooLarge"

\* The handshake cannot leave both ends waiting for each other: each end gets
\* to an open connection or to an error.
HandshakeEnds == \A e \in End : <>(pc[e] \in Ended \cup {"open"})

\* A message that fits a frame with its nonce and tag and was accepted by
\* WriteMessage is read by the peer unless one end's connection ends.
MessageArrives ==
    \A e \in End, n \in 1 .. MaxMsgs :
        Len(sent[e]) >= n ~> \/ Len(received[Other(e)]) >= n
                             \/ pc[Other(e)] \in Ended
=============================================================================
