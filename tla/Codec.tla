--------------------------------- MODULE Codec ---------------------------------
(* The wire format of domain/protocol.py, and what the traffic log presents of *)
(* a frame.  What raises ProtocolError is the empty set, what succeeds the set *)
(* of its result.  Sizes are constants; a text is a sequence of characters of  *)
(* one byte, of two bytes, and white space.                                    *)
EXTENDS Integers, Sequences, FiniteSets, FiniteSetsExt, SequencesExt

CONSTANTS
    IdSize,      \* MESSAGE_ID_SIZE
    PostIdSize,  \* the legacy thread number of a POST: the size of _THREAD_ID
    FrameMax,    \* MESHTASTIC_DATA_PAYLOAD_MAX
    Alphabet,    \* bound: the bytes that samples are made of
    TextMax      \* bound: characters of a text

ASSUME Sizes ==
    {IdSize, PostIdSize, FrameMax, TextMax} \subseteq Nat /\ 1 + 2 * IdSize <= FrameMax /\ Alphabet \subseteq 0 .. 255

VARIABLE sample  \* a message to send, or a frame that arrives

HeaderSize == 1 + 2 * IdSize
RefSize == 1 + IdSize
PayloadMax == FrameMax - HeaderSize

MaxSyncRefs == (PayloadMax - 1) \div RefSize
MaxWantRefs == PayloadMax \div RefSize

Version == 1
Type == [POST |-> 1, COMMIT_ACK |-> 2, WANT |-> 3, SYNC |-> 4, THREAD |-> 5, SYNC_POST |-> 6]
Types == {Type[name] : name \in DOMAIN Type}

Ids == [1 .. IdSize -> 0 .. 2]
Zero == [i \in 1 .. IdSize |-> 0]
Kinds == {1, 2}
Refs == Kinds \X (Ids \ {Zero})

------------------------------------------------------------------------------
(* Texts.                                                                      *)

Texts == BoundedSeq({"narrow", "wide", "space"}, TextMax)

Utf8Char == [narrow |-> <<97>>, wide |-> <<195, 165>>, space |-> <<32>>]
Utf8 == [text \in Texts |-> FlattenSeq([i \in DOMAIN text |-> Utf8Char[text[i]]])]
Characters(bytes) == {text \in Texts : Utf8[text] = bytes}

Strip(text) ==
    LET solid == {i \in DOMAIN text : text[i] # "space"}
    IN  IF solid = {} THEN <<>> ELSE SubSeq(text, Min(solid), Max(solid))

\* Mutant of Normalized: a text is taken as it is.
NormalizedNot(text) == {text} \ {<<>>}

Normalized(text) == {Strip(text)} \ {<<>>}

EncodeText(text, maximum) ==
    {bytes \in {Utf8[t] : t \in Normalized(text)} : Len(bytes) <= maximum}

DecodeText(bytes) == UNION {Normalized(text) : text \in Characters(bytes)}

------------------------------------------------------------------------------
(* Reference lists.                                                            *)

EncodeRefs(refs) == FlattenSeq([i \in DOMAIN refs |-> <<refs[i][1]>> \o refs[i][2]])

RefAt(bytes, i) ==
    LET start == (i - 1) * RefSize
    IN  <<bytes[start + 1], SubSeq(bytes, start + 2, start + RefSize)>>

DecodeRefs(bytes) ==
    IF Len(bytes) % RefSize # 0 THEN {}
    ELSE LET refs == [i \in 1 .. Len(bytes) \div RefSize |-> RefAt(bytes, i)]
         IN  {r \in {refs} : /\ \A i \in DOMAIN refs : refs[i] \in Kinds \X (Seq(0 .. 255) \ {Zero})
                             /\ IsInjective(refs)}

------------------------------------------------------------------------------
(* Payloads, by message type. A message is its type and its content.           *)

Payloads(message) ==
    CASE message.type = Type.THREAD -> EncodeText(message.text, PayloadMax)
      [] message.type = Type.SYNC_POST ->
             {message.thread \o bytes : bytes \in EncodeText(message.text, PayloadMax - IdSize)}
      [] message.type = Type.SYNC ->
             IF Len(message.refs) > MaxSyncRefs THEN {}
             ELSE {<<IF message.reply THEN 1 ELSE 0>> \o EncodeRefs(message.refs)}
      [] message.type = Type.WANT ->
             IF Len(message.refs) \notin 1 .. MaxWantRefs THEN {} ELSE {EncodeRefs(message.refs)}
      [] OTHER -> {<<>>}

DecodePost(payload) ==
    IF Len(payload) <= PostIdSize THEN {}
    ELSE {[type |-> Type.POST, thread |-> SubSeq(payload, 1, PostIdSize), text |-> text] :
              text \in DecodeText(SubSeq(payload, PostIdSize + 1, Len(payload)))}

DecodeSyncPost(payload) ==
    LET thread == SubSeq(payload, 1, IdSize)
    IN  IF Len(payload) <= IdSize \/ thread = Zero THEN {}
        ELSE {[type |-> Type.SYNC_POST, thread |-> thread, text |-> text] :
                  text \in DecodeText(SubSeq(payload, IdSize + 1, Len(payload)))}

DecodeThread(payload) == {[type |-> Type.THREAD, text |-> text] : text \in DecodeText(payload)}

DecodeSync(payload) ==
    IF payload = <<>> \/ Head(payload) \notin {0, 1} THEN {}
    ELSE {[type |-> Type.SYNC, reply |-> Head(payload) = 1, refs |-> refs] :
              refs \in {r \in DecodeRefs(Tail(payload)) : Len(r) <= MaxSyncRefs}}

DecodeWant(payload) ==
    {[type |-> Type.WANT, refs |-> refs] :
         refs \in {r \in DecodeRefs(payload) : Len(r) \in 1 .. MaxWantRefs}}

\* What a handler of a node reads of a payload.
Contents(type, payload) ==
    CASE type = Type.POST -> DecodePost(payload)
      [] type = Type.SYNC_POST -> DecodeSyncPost(payload)
      [] type = Type.THREAD -> DecodeThread(payload)
      [] type = Type.SYNC -> DecodeSync(payload)
      [] type = Type.WANT -> DecodeWant(payload)
      [] OTHER -> {[type |-> type]}

------------------------------------------------------------------------------
(* Frames.                                                                     *)

Encode(id, correlation, message) ==
    {frame \in {<<Version * 16 + message.type>> \o id \o correlation \o payload :
                    payload \in Payloads(message)} :
         id # Zero /\ Len(frame) <= FrameMax}

Field(frame, n) == SubSeq(frame, (n - 1) * IdSize + 2, n * IdSize + 1)

\* Mutant of Envelope: acknowledgements may carry anything.
EnvelopeLax(frame) ==
    IF Len(frame) \notin HeaderSize .. FrameMax THEN {}
    ELSE {[type |-> frame[1] % 16, id |-> Field(frame, 1), correlation |-> Field(frame, 2),
           payload |-> SubSeq(frame, HeaderSize + 1, Len(frame))]}

Legal(envelope) ==
    /\ envelope.type \in Types
    /\ envelope.id # Zero
    /\ (envelope.type = Type.COMMIT_ACK) <=> (envelope.correlation # Zero)
    /\ envelope.type = Type.COMMIT_ACK => envelope.payload = <<>>

Envelope(frame) ==
    IF Len(frame) \notin HeaderSize .. FrameMax \/ frame[1] \div 16 # Version THEN {}
    ELSE {envelope \in {[type |-> frame[1] % 16, id |-> Field(frame, 1),
                         correlation |-> Field(frame, 2),
                         payload |-> SubSeq(frame, HeaderSize + 1, Len(frame))]} :
              Legal(envelope)}

Decode(frame) ==
    UNION {{[id |-> e.id, correlation |-> e.correlation, message |-> m] :
                m \in Contents(e.type, e.payload)} : e \in Envelope(frame)}

------------------------------------------------------------------------------
(* What the traffic log keeps and presents of a frame.                         *)

Public(frame) ==
    Len(frame) \in 1 .. FrameMax /\ frame[1] \div 16 = Version /\ frame[1] % 16 \in 1 .. 6

\* Mutant of Fields: a WANT is parsed as an inventory.
FieldsOneList(kind, payload) ==
    CASE kind = Type.POST -> DecodePost(payload)
      [] kind = Type.THREAD -> DecodeThread(payload)
      [] kind = Type.SYNC_POST -> DecodeSyncPost(payload)
      [] kind \in {Type.WANT, Type.SYNC} -> DecodeSync(payload)
      [] OTHER -> {[type |-> Type.COMMIT_ACK]}

\* The log's own choice of a parser.
Fields(kind, payload) ==
    CASE kind = Type.POST -> DecodePost(payload)
      [] kind = Type.THREAD -> DecodeThread(payload)
      [] kind = Type.SYNC_POST -> DecodeSyncPost(payload)
      [] kind \in {Type.WANT, Type.SYNC} ->
             IF kind = Type.SYNC THEN DecodeSync(payload) ELSE DecodeWant(payload)
      [] OTHER -> {[type |-> Type.COMMIT_ACK]}

Presented(frame) ==
    IF ~Public(frame) THEN [state |-> "hidden", fields |-> {}]
    ELSE LET fields == UNION {Fields(e.type, e.payload) : e \in Envelope(frame)}
         IN  [state |-> IF fields = {} THEN "error" ELSE "decoded", fields |-> fields]

------------------------------------------------------------------------------
(* Samples: what the callers encode, and any frame.                            *)

Pages(n) == UNION {{refs \in [1 .. k -> Refs] : IsInjective(refs)} : k \in 0 .. n}

Messages ==
    UNION {[type : {Type.THREAD}, text : Texts],
           [type : {Type.SYNC_POST}, thread : Ids \ {Zero}, text : Texts],
           [type : {Type.SYNC}, reply : BOOLEAN, refs : Pages(MaxWantRefs + 1)],
           [type : {Type.WANT}, refs : Pages(MaxWantRefs + 1)],
           [type : {Type.COMMIT_ACK}]}

Correlations(message) == IF message.type = Type.COMMIT_ACK THEN Ids \ {Zero} ELSE {Zero}

First == {16 * v + t : v \in {Version}, t \in 0 .. 7} \cup {16 * (Version + 1) + 1}

CodecInit ==
    \/ \E message \in Messages : \E correlation \in Correlations(message), id \in Ids \ {Zero} :
           sample = [is |-> "sent", id |-> id, correlation |-> correlation, message |-> message]
    \/ \E first \in First, id \in [1 .. IdSize -> 0 .. 1], correlation \in [1 .. IdSize -> 0 .. 1] :
       \E payload \in BoundedSeq(Alphabet, PayloadMax) \cup {[i \in 1 .. PayloadMax + 1 |-> 97]} :
           sample = [is |-> "received", frame |-> <<first>> \o id \o correlation \o payload]

Frames == IF sample.is = "received" THEN {sample.frame}
          ELSE Encode(sample.id, sample.correlation, sample.message)

------------------------------------------------------------------------------
Clean(message) ==
    IF message.type \in {Type.THREAD, Type.SYNC_POST}
    THEN [message EXCEPT !.text = Strip(@)] ELSE message

\* What a frame has room for: the paging and text limits are exactly this.
Fits(message) ==
    CASE message.type = Type.SYNC -> 1 + Len(message.refs) * RefSize <= PayloadMax
      [] message.type = Type.WANT ->
             message.refs # <<>> /\ Len(message.refs) * RefSize <= PayloadMax
      [] message.type = Type.THREAD ->
             Strip(message.text) # <<>> /\ Len(Utf8[Strip(message.text)]) <= PayloadMax
      [] message.type = Type.SYNC_POST ->
             Strip(message.text) # <<>> /\ IdSize + Len(Utf8[Strip(message.text)]) <= PayloadMax
      [] OTHER -> TRUE

\* A sender can build a frame of a message if and only if there is room for it
\* (MAX_SYNC_REFS, MAX_WANT_REFS, MAX_SYNC_POST_BODY_BYTES), and a receiver reads
\* from it what the sender meant, but for white space around a text.
SentIsRead ==
    sample.is = "sent" =>
        /\ Frames # {} <=> Fits(sample.message)
        /\ \A frame \in Frames :
               Decode(frame) = {[id |-> sample.id, correlation |-> sample.correlation,
                                 message |-> Clean(sample.message)]}

\* A frame that is read is the only one with its meaning, and can be built from
\* it again; a text may have had white space around it, and POST is not built
\* any more (decode accepts nothing that encode would not have written).
ReadIsCanonical ==
    sample.is = "received" =>
        \A m \in Decode(sample.frame) :
            m.message.type # Type.POST =>
                \E frame \in Encode(m.id, m.correlation, m.message) :
                    /\ Decode(frame) = {m}
                    /\ "text" \notin DOMAIN m.message => frame = sample.frame

\* The traffic log, which decides by the first byte and the length what it keeps
\* and chooses the parser itself (capture, present), decodes exactly the frames
\* the nodes read, and shows of them what the nodes read: no frame that changes a
\* database is hidden, shown as malformed or shown as another.
ReadIsPresented ==
    \A frame \in Frames :
        /\ Decode(frame) # {} <=> Presented(frame).state = "decoded"
        /\ Presented(frame).fields = {m.message : m \in Decode(frame)}
==============================================================================
