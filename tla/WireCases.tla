------------------------------- MODULE WireCases -------------------------------
(***************************************************************************)
(* What comes back from an encoding, for objects made from the walk's x.   *)
(***************************************************************************)
EXTENDS CaseWalk, Wire, FiniteSets

CONSTANT WireCaseCount   \* objects are encoded for x below this bound

ASSUME WireAssumption == WireCaseCount \in Nat

Spread(salt, bound) == (x * salt + x \div (salt + 1) + salt) % bound

ASession ==
    [id |-> 1 + Spread(1, 3), protocol |-> FromTag(1 + Spread(2, 9)), round |-> Spread(3, 3),
     threshold |-> 1 + Spread(4, 2), participants |-> IF x % 2 = 0 THEN <<1, 2>> ELSE <<2, 3, 5>>]

AShare(kind) ==
    [id |-> ASession.id, protocol |-> ASession.protocol, round |-> ASession.round,
     participant |-> 1 + Spread(5, 4), kind |-> kind,
     payload |-> [i \in 1..(1 + Spread(7, 4)) |-> Spread(i, 5)]]

SomeTags == {1 + Spread(3, 9), 1 + Spread(5, 9)}

ProperPrefixes(input) == {SubSeq(input, 1, n) : n \in 0..(Len(input) - 1)}

\* A decoder that owns its input returns the object from all of it, and refuses
\* it shortened or with anything before or after it.
OwnsInput(input, Decode(_), object) ==
    /\ Decode(input) = {object}
    /\ \A other \in ProperPrefixes(input) \union {input \o <<0>>, <<0>> \o input} : Decode(other) = {}

\* A decoder of a tagged object returns it and ignores what follows; it refuses
\* the object cut short and under another tag or version.
ReadsObject(input, Decode(_), object) ==
    /\ Decode(input) = {object}
    /\ Decode(input \o <<x, 0>>) = {object}
    /\ \A other \in ProperPrefixes(input) \union {[input EXCEPT ![1] = @ + 1], [input EXCEPT ![2] = @ + 1]} :
          Decode(other) = {}

------------------------------------------------------------------------------

\* A share whose kinds a decoder can name comes back as it was sent.
SharesArrive ==
    \A tag \in SomeTags :
        OwnsInput(EncodeShare(AShare(FromTag(tag))), DecodeShare, AShare(FromTag(tag)))

\* Messages that differ in where one field ends and the next begins.
SomeMessages ==
    LET bytes == <<1, Spread(2, 3), 1>>
        Cut(n) == NewMessage(ASession, ASession.participants[1],
                             SubSeq(bytes, 1, n), SubSeq(bytes, n + 1, 3))
    IN  UNION {Cut(n) : n \in 0..3}

Transcripts ==
    LET blank == [session |-> ASession, messages |-> <<>>]
        longer == UNION {Appended(blank, m) : m \in SomeMessages}
    IN  {blank} \union longer \union UNION {Appended(t, m) : t \in longer, m \in SomeMessages}

\* Transcripts hash alike only if they hold the same messages in the same order
\* for the same session, down to where each field ends.  To the hash a protocol
\* is its tag, as it is to append: under Custom(3) and under the protocol of tag
\* 3 the same messages have one hash.
TranscriptsBind ==
    LET Under(t, protocol) ==
            [session |-> [t.session EXCEPT !.protocol = protocol],
             messages |-> [i \in DOMAIN t.messages |->
                              [t.messages[i] EXCEPT !.protocol = protocol]]]
        all == Transcripts
               \union {[t EXCEPT !.session.threshold = 3 - @] : t \in Transcripts}
               \union {[t EXCEPT !.session.participants = Append(@, 9)] : t \in Transcripts}
               \union {Under(t, Custom(t.session.protocol.tag)) : t \in Transcripts}
               \union {Under(t, Custom(t.session.protocol.tag + 1)) : t \in Transcripts}
        Tagged(t) == Under(t, FromTag(t.session.protocol.tag))
    IN  /\ Cardinality({EncodeTranscript(t) : t \in all}) = Cardinality({Tagged(t) : t \in all})
        /\ \A t \in all : EncodeTranscript(t) = EncodeTranscript(Tagged(t))
        /\ \A m \in SomeMessages : OwnsInput(EncodeMessage(m), DecodeMessage, m)

APoly(salt) ==
    [j \in 1..(1 + (x % 3)) |-> [i \in 1..(2^(x % 2)) |-> Spread(salt + 2 * j + i, 7)]]

PayloadsArrive ==
    LET count == 1 + (x % 3)
        degree == (2^(x % 2))
        rows == [i \in 1..(x % 4) |-> <<APoly(i), APoly(i + 3)>>]
    IN  /\ OwnsInput(EncodePoly(APoly(1)), LAMBDA in : DecodePoly(in, count, degree), APoly(1))
        /\ DecodePoly(EncodePoly(APoly(1)), count + 1, degree) = {}
        /\ OwnsInput(EncodePolyPair(APoly(1), APoly(2)),
                     LAMBDA in : DecodePolyPair(in, count, degree), <<APoly(1), APoly(2)>>)
        /\ OwnsInput(EncodePolyRows(rows), LAMBDA in : DecodePolyRows(in, count, degree), rows)

ObjectsReturn ==
    LET params == [degree |-> (2^(x % 4)), moduli |-> [i \in 1..(1 + (x % 3)) |-> 7 + (2 * Spread(i, 5))],
                   t |-> 2 + Spread(2, 5)]
        polys == [i \in 1..(1 + (x % 3)) |-> APoly(i)]
        ct == [polys |-> polys, scale |-> 1 + Spread(2, 9), level |-> Spread(3, 4),
               precision |-> Spread(4, 4), degree |-> 1 + (x % 2)]
        key == [relin |-> IF x % 2 = 0 THEN "none" ELSE "real",
                elements |-> [i \in 1..(x % 3) |-> 2 * i + 1]]
    IN  /\ ReadsObject(EncodeBgvParams(params), DecodeBgvParams, params)
        /\ ReadsObject(EncodeBgvCiphertext(polys), DecodeBgvCiphertext, polys)
        /\ \A input \in EncodeCkksCiphertextReal(ct) :
              ReadsObject(input, DecodeCkksCiphertextReal, ct)
        /\ EncodeCkksCiphertextReal([ct EXCEPT !.scale = NonFinite]) = {}
        /\ ReadsObject(EncodePublicKey(<<APoly(1), APoly(2)>>), DecodePublicKey,
                       <<APoly(1), APoly(2)>>)
        /\ ReadsObject(EncodeEvaluationKey(key), DecodeEvaluationKey,
                       [key EXCEPT !.relin = IF @ = "none" THEN "none" ELSE "placeholder"])

\* Objects come back from their encodings as they were, but for the evaluation
\* key, whose key material comes back as the documented placeholder.  Decoders
\* of shares, messages and payloads refuse anything shorter or longer; those of
\* tagged objects ignore what follows.  Transcripts that differ in more than what
\* a protocol's tag stands for have different hashes.  (Kinds that no decoder can
\* name are the subject of KindsReturn.)
EncodingsBind ==
    x < WireCaseCount => SharesArrive /\ TranscriptsBind /\ PayloadsArrive /\ ObjectsReturn

\* docs/internal/serialization-compatibility-policy.md:55 of every type that is
\* serialized, Share among them: "`decode(encode(value)) == value`", for shares
\* of every kind and protocol, custom ones included.
KindsReturn ==
    x < WireCaseCount =>
    \A tag \in SomeTags : \A kind, protocol \in {FromTag(tag), Custom(tag)} :
        LET sent == [AShare(kind) EXCEPT !.protocol = protocol]
        IN  DecodeShare(EncodeShare(sent)) = {sent}
=============================================================================
