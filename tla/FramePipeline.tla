---------------------------- MODULE FramePipeline ----------------------------
(***************************************************************************)
(* A message's way from one peer to the handler of the other: Encode       *)
(* (internal/network/codec) with the framer, compressor and encryptor, the *)
(* WebSocket frames in between, Decode, and the router.  A body is known   *)
(* by its length class and by what was done to it; the AAD by the flags it *)
(* was built from, as operation, sequence number and time stamp travel     *)
(* unchanged.  Random bytes are not a zstd frame.                          *)
(***************************************************************************)
EXTENDS Naturals, Sequences

CONSTANTS
  Ops,       \* operation numbers
  Handlers,  \* of the router
  MaxFrames  \* bound on the messages encoded

VARIABLES
  encoder, decoder,      \* EnableCompression and EnableEncryption of the two ends
  compressor, encryptor, \* in use at both: "nop", "zstd" or "zstdMin"; "nop" or "aead"
  limit,     \* the length class beyond which the framer refuses a payload
  flags,     \* of the header that the sender uses for all its messages
  stream,    \* frames under way
  encoded,   \* history: the messages put on the stream
  received,  \* history: what became of each frame
  routes     \* of the router: the handlers, none or one, for each operation

frameVars == <<encoder, decoder, compressor, encryptor, limit, flags, stream, encoded, received, routes>>

Settings == [compress : BOOLEAN, encrypt : BOOLEAN]
Lengths == 0..2 \* empty, below the compressor's minimum, longer

Init ==
  /\ encoder \in Settings /\ decoder \in Settings
  /\ compressor \in {"nop", "zstd", "zstdMin"} /\ encryptor \in {"nop", "aead"}
  /\ limit \in {1, 2} /\ flags = {} /\ stream = <<>> /\ encoded = <<>> /\ received = <<>>
  /\ routes = [op \in Ops |-> {}]

\* A serialised message: not compressed, not sealed.
Marshal(op, len) == [op |-> op, len |-> len, zipped |-> FALSE, sealed |-> {}]

\* Below its minimum the compressor returns the body as it is.
Compress(body) ==
  [body EXCEPT !.zipped = compressor = "zstd" \/ (compressor = "zstdMin" /\ body.len > 1)]
Encrypt(body, aad) == IF encryptor = "aead" THEN [body EXCEPT !.sealed = {aad}] ELSE body

\* Mutant: what the last message left there stays.
KeepFlags(old) == old

\* Encode begins with neither flag, whatever the header was used for before.
ClearFlags(old) == old \ {"compressed", "encrypted"}

\* The framer refuses a payload beyond its limit before it writes anything.
WriteFrame(frame) == frame.body.len <= limit /\ stream' = Append(stream, frame)

\* An empty body is neither compressed nor encrypted; the AAD is built before the header
\* has the encrypted flag.  A payload beyond the limit is refused, the header stays as it is.
Encode(op, len) ==
  LET body   == Marshal(op, len)
      zip    == encoder.compress /\ len > 0
      seal   == encoder.encrypt /\ len > 0
      zipped == IF zip THEN Compress(body) ELSE body
      aad    == ClearFlags(flags) \cup (IF zip THEN {"compressed"} ELSE {})
      packet == IF seal THEN Encrypt(zipped, aad) ELSE zipped
  IN  /\ Len(encoded) < MaxFrames
      /\ flags' = aad \cup (IF seal THEN {"encrypted"} ELSE {})
      /\ \/ WriteFrame([flags |-> flags', body |-> packet]) /\ encoded' = Append(encoded, body)
         \/ len > limit /\ UNCHANGED <<stream, encoded>>
      /\ UNCHANGED <<encoder, decoder, compressor, encryptor, limit, received, routes>>

\* The two halves of decodeFrame: what they return, nothing for an error.
Decrypted(frame) ==
  LET body == frame.body
  IN  IF "encrypted" \notin frame.flags THEN {body}
      ELSE IF ~decoder.encrypt \/ body.len = 0 THEN {}
      ELSE IF encryptor = "nop" THEN {body}
      ELSE IF body.sealed = {frame.flags} THEN {[body EXCEPT !.sealed = {}]} ELSE {}

Decompressed(frame, body) ==
  IF "compressed" \notin frame.flags THEN {body}
  ELSE IF ~decoder.compress \/ body.len = 0 THEN {}
  ELSE IF compressor = "nop" THEN {body}
  ELSE IF body.zipped /\ body.sealed = {} THEN {[body EXCEPT !.zipped = FALSE]} ELSE {}

decodeFrame(frame) == UNION {Decompressed(frame, body) : body \in Decrypted(frame)}

\* Nothing is left of a frame that was read, whatever it decodes to.
ReadFrame == stream # <<>> /\ stream' = Tail(stream)

\* The handler that the router calls, none for an operation nobody has registered.
Handle(op, body) == IF body = {} THEN {} ELSE routes[op]

\* recvLoop takes the next frame, and the router hands the message to its handler.
Decode ==
  /\ ReadFrame
  /\ LET body == decodeFrame(Head(stream))
     IN  received' = Append(received, [body |-> body, handler |-> Handle(Head(stream).body.op, body)])
  /\ UNCHANGED <<encoder, decoder, compressor, encryptor, limit, flags, encoded, routes>>

\* An operation has one handler for good.
Register(op, handler) ==
  /\ routes[op] = {} /\ routes' = [routes EXCEPT ![op] = {handler}]
  /\ UNCHANGED <<encoder, decoder, compressor, encryptor, limit, flags, stream, encoded, received>>

Next ==
  \/ \E op \in Ops : \/ \E len \in Lengths : Encode(op, len)
                     \/ \E handler \in Handlers : Register(op, handler)
  \/ Decode

Spec == Init /\ [][Next]_frameVars

-----------------------------------------------------------------------------
\* Settings under which Decode is the inverse of Encode.  It is not with the AEAD
\* encryptor, whose AAD differs (codec.go:133, 186), nor below the compressor's minimum,
\* where Encode flags a body as compressed that is not (zstd.go:74).
SettingsFit ==
  /\ encoder.compress => decoder.compress /\ compressor # "zstdMin"
  /\ encoder.encrypt => decoder.encrypt /\ encryptor = "nop"

\* Frames are received in the order they were encoded.  What Decode returns is the message
\* that was encoded, never another; it is not refused when the settings of the two ends
\* fit; and messages of one operation reach one handler.
DecodeInvertsEncode ==
  \A i \in DOMAIN received :
    /\ received[i].body \in {{}, {encoded[i]}}
    /\ SettingsFit => received[i].body = {encoded[i]}
    /\ received[i].handler \in {{}, routes[encoded[i].op]}
=============================================================================
