------------------------- MODULE FramePipelineProofs -------------------------
(***************************************************************************)
(* Decode returns the message that was encoded or an error, for any        *)
(* operations, handlers and number of messages and for all settings of the *)
(* two ends.                                                               *)
(***************************************************************************)
EXTENDS FramePipeline, SeqLemmas

Messages == [op : Ops, len : Lengths, zipped : {FALSE}, sealed : {{}}]

\* The frame that Encode makes of a message; it depends on nothing but the settings.
Zips(m) == encoder.compress /\ m.len > 0
Seals(m) == encoder.encrypt /\ m.len > 0
AAD(m) == IF Zips(m) THEN {"compressed"} ELSE {}
Zipped(m) == IF Zips(m) THEN Compress(m) ELSE m
FrameOf(m) ==
  [flags |-> AAD(m) \cup (IF Seals(m) THEN {"encrypted"} ELSE {}),
   body |-> IF Seals(m) THEN Encrypt(Zipped(m), AAD(m)) ELSE Zipped(m)]

Flags == {"compressed", "encrypted"}
Frames == [flags : SUBSET Flags,
           body : [op : Ops, len : Lengths, zipped : BOOLEAN, sealed : SUBSET SUBSET Flags]]

SettingsOK ==
  /\ encoder \in Settings /\ decoder \in Settings
  /\ compressor \in {"nop", "zstd", "zstdMin"} /\ encryptor \in {"nop", "aead"}
  /\ flags \subseteq Flags
  /\ routes \in [Ops -> SUBSET Handlers]

\* Every message encoded has been received or is the next one on the stream, in order.
InOrder ==
  /\ encoded \in Seq(Messages) /\ stream \in Seq(Frames)
  /\ received \in Seq([body : SUBSET Messages, handler : SUBSET Handlers])
  /\ Len(encoded) = Len(received) + Len(stream)

OnStream == \A j \in 1..Len(stream) : stream[j] = FrameOf(encoded[Len(received) + j])

IInv == SettingsOK /\ InOrder /\ OnStream /\ DecodeInvertsEncode

\* The two stages of decodeFrame undo those of Encode, or fail.
LEMMA DecryptFrame ==
  ASSUME SettingsOK, NEW m \in Messages
  PROVE  /\ Decrypted(FrameOf(m)) \in {{}, {Zipped(m)}}
         /\ SettingsFit => Decrypted(FrameOf(m)) = {Zipped(m)}
<1> DEFINE f == FrameOf(m)
<1>1. /\ m.len \in 0..2 /\ m.sealed = {} /\ m.zipped = FALSE
      /\ "encrypted" \in f.flags <=> Seals(m)
      /\ f.body = IF Seals(m) THEN Encrypt(Zipped(m), AAD(m)) ELSE Zipped(m)
  BY DEF Messages, Lengths, FrameOf, AAD
<1>2. CASE ~Seals(m)
  BY <1>1, <1>2 DEF Decrypted
<1>3. CASE Seals(m)
  <2>1. f.body.len = m.len /\ m.len > 0
    BY <1>1, <1>3 DEF Zipped, Encrypt, Compress, Seals, Messages
  <2>2. CASE encryptor = "nop"
    <3>1. f.body = Zipped(m)
      BY <1>1, <1>3, <2>2 DEF Encrypt
    <3>2. CASE ~decoder.encrypt
      BY <1>1, <1>3, <3>2 DEF Decrypted, SettingsFit, Seals
    <3>3. CASE decoder.encrypt
      <4>1. f.body.len # 0 BY <2>1, <1>1
      <4> QED BY <1>1, <1>3, <2>2, <3>1, <3>3, <4>1 DEF Decrypted
    <3> QED BY <3>2, <3>3
  <2>3. CASE encryptor # "nop"
    <3>1. encryptor = "aead" BY <2>3 DEF SettingsOK
    <3>2. f.body.sealed = {AAD(m)}
      BY <1>1, <1>3, <3>1 DEF Encrypt, Zipped, Compress, Messages
    <3>3. AAD(m) # f.flags
      BY <1>3 DEF FrameOf, AAD
    <3>4. Decrypted(f) = {}
      BY <1>1, <1>3, <2>3, <3>2, <3>3 DEF Decrypted
    <3> QED BY <3>4, <1>3, <2>3 DEF SettingsFit, Seals
  <2> QED BY <2>2, <2>3
<1> QED BY <1>2, <1>3

LEMMA DecompressFrame ==
  ASSUME SettingsOK, NEW m \in Messages
  PROVE  /\ Decompressed(FrameOf(m), Zipped(m)) \in {{}, {m}}
         /\ SettingsFit => Decompressed(FrameOf(m), Zipped(m)) = {m}
<1> DEFINE f == FrameOf(m)  z == Zipped(m)
<1>1. /\ m.len \in 0..2 /\ m.sealed = {} /\ m.zipped = FALSE
      /\ "compressed" \in f.flags <=> Zips(m)
  BY DEF Messages, Lengths, FrameOf, AAD
<1>2. CASE ~Zips(m)
  BY <1>1, <1>2 DEF Decompressed, Zipped
<1>3. CASE Zips(m)
  <2>1. z = [m EXCEPT !.zipped = compressor = "zstd" \/ (compressor = "zstdMin" /\ m.len > 1)]
    BY <1>3 DEF Zipped, Compress
  <2>2. z.len = m.len /\ z.len # 0 /\ z.sealed = {}
    BY <1>1, <1>3, <2>1 DEF Zips, Messages
  <2>3. [z EXCEPT !.zipped = FALSE] = m
    BY <2>1, <1>1 DEF Messages
  <2>4. compressor = "nop" => z = m
    BY <2>1, <1>1 DEF Messages
  <2>5. compressor = "zstd" => z.zipped
    BY <2>1 DEF Messages
  <2>6. Decompressed(f, z) = IF ~decoder.compress THEN {} ELSE IF compressor = "nop" THEN {z}
                             ELSE IF z.zipped THEN {[z EXCEPT !.zipped = FALSE]} ELSE {}
    BY <1>1, <1>3, <2>2 DEF Decompressed
  <2>7. SettingsFit => decoder.compress /\ compressor # "zstdMin"
    BY <1>3 DEF SettingsFit, Zips
  <2> QED BY <2>3, <2>4, <2>5, <2>6, <2>7 DEF SettingsOK
<1> QED BY <1>2, <1>3

LEMMA DecodeOfEncode ==
  ASSUME SettingsOK, NEW m \in Messages
  PROVE  /\ decodeFrame(FrameOf(m)) \in {{}, {m}}
         /\ SettingsFit => decodeFrame(FrameOf(m)) = {m}
<1> DEFINE f == FrameOf(m)
<1>1. decodeFrame(f) = UNION {Decompressed(f, body) : body \in Decrypted(f)}
  BY DEF decodeFrame
<1>2. CASE Decrypted(f) = {}
  BY <1>1, <1>2, DecryptFrame
<1>3. CASE Decrypted(f) = {Zipped(m)}
  <2>1. decodeFrame(f) = Decompressed(f, Zipped(m))
    BY <1>1, <1>3
  <2> QED BY <2>1, DecompressFrame
<1> QED BY <1>2, <1>3, DecryptFrame

-----------------------------------------------------------------------------
\* The frame of a message is well formed.
LEMMA FrameType == ASSUME SettingsOK, NEW m \in Messages PROVE FrameOf(m) \in Frames
<1>1. AAD(m) \in SUBSET Flags
  BY DEF AAD, Flags
<1>2. Zipped(m) \in [op : Ops, len : Lengths, zipped : BOOLEAN, sealed : SUBSET SUBSET Flags]
  <2>1. m.op \in Ops /\ m.len \in Lengths /\ m.zipped = FALSE /\ m.sealed = {}
        /\ m = [op |-> m.op, len |-> m.len, zipped |-> m.zipped, sealed |-> m.sealed]
    BY DEF Messages
  <2>2. {} \in SUBSET SUBSET Flags OBVIOUS
  <2>3. CASE Zips(m)
    <3>1. PICK z \in BOOLEAN : Zipped(m) = [m EXCEPT !.zipped = z]
      BY <2>3 DEF Zipped, Compress
    <3> QED BY <2>1, <2>2, <3>1
  <2>4. CASE ~Zips(m)
    BY <2>1, <2>2, <2>4 DEF Zipped
  <2> QED BY <2>3, <2>4
<1>3. Encrypt(Zipped(m), AAD(m)) \in [op : Ops, len : Lengths, zipped : BOOLEAN, sealed : SUBSET SUBSET Flags]
  BY <1>1, <1>2 DEF Encrypt
<1> QED BY <1>1, <1>2, <1>3 DEF FrameOf, Frames, Flags

LEMMA InitIInv == Init => IInv
<1> SUFFICES ASSUME Init PROVE IInv OBVIOUS
<1>1. SettingsOK BY DEF Init, SettingsOK
<1>2. InOrder BY DEF Init, InOrder
<1> QED BY <1>1, <1>2 DEF Init, IInv, OnStream, DecodeInvertsEncode

\* Encode puts the frame of the message on the stream, or nothing.
LEMMA EncodeIInv == ASSUME IInv, NEW op \in Ops, NEW len \in Lengths, Encode(op, len) PROVE IInv'
<1> DEFINE m == Marshal(op, len)
<1>1. m \in Messages /\ m.len = len
  BY DEF Marshal, Messages
<1>2. ClearFlags(flags) = {}
  BY DEF ClearFlags, IInv, SettingsOK, Flags
<1>3. /\ flags' = FrameOf(m).flags
      /\ \/ /\ stream' = Append(stream, FrameOf(m)) /\ encoded' = Append(encoded, m)
         \/ UNCHANGED <<stream, encoded>>
      /\ UNCHANGED <<encoder, decoder, compressor, encryptor, limit, received, routes>>
  BY <1>1, <1>2 DEF Encode, WriteFrame, FrameOf, AAD, Zipped, Zips, Seals
<1>4. SettingsOK'
  <2>1. FrameOf(m).flags \subseteq Flags
    BY <1>1, FrameType DEF IInv, Frames
  <2> QED BY <1>3, <2>1 DEF IInv, SettingsOK
<1>5. CASE UNCHANGED <<stream, encoded>>
  BY <1>3, <1>4, <1>5 DEF IInv, InOrder, OnStream, DecodeInvertsEncode, SettingsFit, FrameOf, AAD,
       Zipped, Zips, Seals, Compress, Encrypt
<1>6. CASE stream' = Append(stream, FrameOf(m)) /\ encoded' = Append(encoded, m)
  <2>1. /\ stream' \in Seq(Frames) /\ Len(stream') = Len(stream) + 1
        /\ \A j \in 1..Len(stream) : stream'[j] = stream[j]
        /\ stream'[Len(stream) + 1] = FrameOf(m)
    <3>1. FrameOf(m) \in Frames
      BY <1>1, FrameType DEF IInv
    <3>2. stream \in Seq(Frames)
      BY DEF IInv, InOrder
    <3> HIDE DEF m
    <3> QED BY <1>6, <3>1, <3>2, Push
  <2>2. /\ encoded' \in Seq(Messages) /\ Len(encoded') = Len(encoded) + 1
        /\ \A j \in 1..Len(encoded) : encoded'[j] = encoded[j]
        /\ encoded'[Len(encoded) + 1] = m
    <3>1. encoded \in Seq(Messages)
      BY DEF IInv, InOrder
    <3> HIDE DEF m
    <3> QED BY <1>1, <1>6, <3>1, Push
  <2>3. Len(encoded) = Len(received) + Len(stream) /\ Len(received) \in Nat /\ Len(stream) \in Nat
    BY DEF IInv, InOrder
  <2>4. InOrder'
    BY <1>3, <2>1, <2>2, <2>3 DEF IInv, InOrder
  <2>5. ASSUME NEW j \in 1..Len(stream') PROVE stream'[j] = FrameOf(encoded'[Len(received) + j])
    <3>1. CASE j = Len(stream) + 1
      BY <2>1, <2>2, <2>3, <3>1
    <3>2. CASE j \in 1..Len(stream)
      <4>1. Len(received) + j \in 1..Len(encoded)
        BY <2>3, <3>2
      <4> QED BY <2>1, <2>2, <3>2, <4>1 DEF IInv, OnStream
    <3> QED BY <2>1, <2>3, <3>1, <3>2
  <2>6. OnStream'
    BY <1>3, <2>5 DEF OnStream, FrameOf, AAD, Zipped, Zips, Seals, Compress, Encrypt
  <2>7. DecodeInvertsEncode'
    <3>1. \A i \in DOMAIN received : i \in 1..Len(encoded)
      BY <2>3 DEF IInv, InOrder
    <3> QED BY <1>3, <2>2, <3>1 DEF IInv, DecodeInvertsEncode, SettingsFit
  <2> QED BY <1>4, <2>4, <2>6, <2>7 DEF IInv
<1> QED BY <1>3, <1>5, <1>6

\* Decode appends what it makes of the first frame.
LEMMA DecodeIInv == ASSUME IInv, Decode PROVE IInv'
<1> DEFINE m == encoded[Len(received) + 1]
           r == [body |-> decodeFrame(FrameOf(m)),
                 handler |-> IF decodeFrame(FrameOf(m)) = {} THEN {} ELSE routes[m.op]]
<1>1. /\ stream' = Tail(stream) /\ stream # <<>>
      /\ UNCHANGED <<encoder, decoder, compressor, encryptor, limit, flags, encoded, routes>>
  BY DEF Decode, ReadFrame
<1>2. /\ Len(encoded) = Len(received) + Len(stream) /\ Len(received) \in Nat /\ Len(stream) \in Nat
      /\ stream \in Seq(Frames) /\ encoded \in Seq(Messages)
      /\ received \in Seq([body : SUBSET Messages, handler : SUBSET Handlers])
  BY DEF IInv, InOrder
<1>3. /\ Head(stream) = stream[1] /\ stream' \in Seq(Frames)
      /\ Len(stream) > 0 /\ Len(stream') = Len(stream) - 1
      /\ \A j \in 1..Len(stream') : stream'[j] = stream[j + 1]
  BY <1>1, <1>2, Pop
<1>4. m \in Messages /\ Head(stream) = FrameOf(m)
  <2>1. Len(received) + 1 \in 1..Len(encoded) /\ 1 \in 1..Len(stream)
    BY <1>2, <1>3
  <2>2. m \in Messages
    BY <1>2, <2>1, ElementOfSeq
  <2>3. stream[1] = FrameOf(encoded[Len(received) + 1])
    BY <2>1 DEF IInv, OnStream
  <2> QED BY <1>3, <2>2, <2>3
<1>5. received' = Append(received, r)
  <2>1. FrameOf(m).body.op = m.op
    BY <1>4 DEF FrameOf, Zipped, Compress, Encrypt, Messages
  <2> QED BY <1>4, <2>1 DEF Decode, Handle
<1>6. /\ r.body \in {{}, {m}} /\ (SettingsFit => r.body = {m})
      /\ r.handler \in {{}, routes[m.op]}
      /\ r \in [body : SUBSET Messages, handler : SUBSET Handlers]
  <2>1. /\ decodeFrame(FrameOf(m)) \in {{}, {m}}
        /\ SettingsFit => decodeFrame(FrameOf(m)) = {m}
    BY <1>4, DecodeOfEncode DEF IInv
  <2>2. routes[m.op] \in SUBSET Handlers
    BY <1>4 DEF IInv, SettingsOK, Messages
  <2> QED BY <1>4, <2>1, <2>2
<1>7. /\ received' \in Seq([body : SUBSET Messages, handler : SUBSET Handlers])
      /\ Len(received') = Len(received) + 1
      /\ \A i \in 1..Len(received) : received'[i] = received[i]
      /\ received'[Len(received) + 1] = r
  <2> HIDE DEF r
  <2> QED BY <1>2, <1>5, <1>6, Push
<1>8. SettingsOK' /\ InOrder'
  <2>1. SettingsOK'
    BY <1>1 DEF IInv, SettingsOK
  <2>2. Len(encoded') = Len(received') + Len(stream')
    BY <1>1, <1>2, <1>3, <1>7
  <2> QED BY <1>1, <1>2, <1>3, <1>7, <2>1, <2>2 DEF InOrder
<1>9. OnStream'
  <2>1. ASSUME NEW j \in 1..Len(stream') PROVE stream'[j] = FrameOf(encoded[Len(received') + j])
    BY <1>2, <1>3, <1>7 DEF IInv, OnStream
  <2> QED BY <1>1, <2>1 DEF OnStream, FrameOf, AAD, Zipped, Zips, Seals, Compress, Encrypt
<1>10. DecodeInvertsEncode'
  <2>1. ASSUME NEW i \in DOMAIN received'
        PROVE  /\ received'[i].body \in {{}, {encoded[i]}}
               /\ SettingsFit => received'[i].body = {encoded[i]}
               /\ received'[i].handler \in {{}, routes[encoded[i].op]}
    <3>1. i \in 1..(Len(received) + 1)
      BY <1>7
    <3>2. CASE i = Len(received) + 1
      <4> HIDE DEF r
      <4> QED BY <1>6, <1>7, <3>2
    <3>3. CASE i \in 1..Len(received)
      <4>1. received'[i] = received[i] /\ i \in DOMAIN received
        BY <1>2, <1>7, <3>3
      <4> QED BY <4>1 DEF IInv, DecodeInvertsEncode
    <3> QED BY <1>2, <3>1, <3>2, <3>3
  <2> QED BY <1>1, <2>1 DEF DecodeInvertsEncode, SettingsFit
<1> QED BY <1>8, <1>9, <1>10 DEF IInv

\* A handler is registered where there was none, which no message received has met yet.
LEMMA RegisterIInv ==
  ASSUME IInv, NEW op \in Ops, NEW handler \in Handlers, Register(op, handler)
  PROVE  IInv'
<1>1. /\ routes[op] = {} /\ routes' = [routes EXCEPT ![op] = {handler}]
      /\ UNCHANGED <<encoder, decoder, compressor, encryptor, limit, flags, stream, encoded, received>>
  BY DEF Register
<1>2. SettingsOK' /\ InOrder'
  BY <1>1 DEF IInv, SettingsOK, InOrder
<1>3. OnStream'
  BY <1>1 DEF IInv, OnStream, FrameOf, AAD, Zipped, Zips, Seals, Compress, Encrypt
<1>4. ASSUME NEW i \in DOMAIN received PROVE received[i].handler \in {{}, routes'[encoded[i].op]}
  <2>1. encoded[i].op \in Ops
    <3>1. /\ encoded \in Seq(Messages) /\ Len(encoded) \in Nat /\ Len(received) \in Nat
          /\ Len(stream) \in Nat /\ Len(encoded) = Len(received) + Len(stream)
          /\ DOMAIN received = 1..Len(received)
      BY DEF IInv, InOrder
    <3>2. i \in 1..Len(encoded)
      BY <3>1
    <3>3. encoded[i] \in Messages
      BY <3>1, <3>2, ElementOfSeq
    <3> QED BY <3>3 DEF Messages
  <2>2. received[i].handler \in {{}, routes[encoded[i].op]}
    BY DEF IInv, DecodeInvertsEncode
  <2> QED BY <1>1, <2>1, <2>2 DEF IInv, SettingsOK
<1>5. DecodeInvertsEncode'
  BY <1>1, <1>4 DEF IInv, DecodeInvertsEncode, SettingsFit
<1> QED BY <1>2, <1>3, <1>5 DEF IInv

\* Every step keeps the invariant.
LEMMA NextIInv == IInv /\ [Next]_frameVars => IInv'
<1> SUFFICES ASSUME IInv, [Next]_frameVars PROVE IInv' OBVIOUS
<1>1. CASE UNCHANGED frameVars
  BY <1>1 DEF frameVars, IInv, SettingsOK, InOrder, OnStream, DecodeInvertsEncode, SettingsFit,
       FrameOf, AAD, Zipped, Zips, Seals, Compress, Encrypt
<1> QED BY <1>1, EncodeIInv, DecodeIInv, RegisterIInv DEF Next

\* Encode and decodeFrame: whatever the settings of the two ends are, Decode returns
\* exactly the message that was encoded, or an error; and no error if they fit.
THEOREM DecodingIsExact == Spec => []DecodeInvertsEncode
<1>1. IInv => DecodeInvertsEncode BY DEF IInv
<1> QED BY InitIInv, NextIInv, <1>1, PTL DEF Spec
=============================================================================
