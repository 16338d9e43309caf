---------------------------------- MODULE Wire ----------------------------------
(***************************************************************************)
(* What the parties exchange and store: shares and transcripts, the        *)
(* polynomials in share payloads (wire.rs of mpbgv, mpbfv and mpckks), and *)
(* the tagged encodings of parameters, plaintexts, ciphertexts and keys.   *)
(*                                                                         *)
(* An encoding is a sequence of fields.  Every field has a fixed width, so *)
(* a field stands for its bytes; a byte string has one field per byte.     *)
(* Domain tags and magic values are numbers, floats are their bits.        *)
(***************************************************************************)
EXTENDS Integers, SequencesExt

MessageMagic == 101
TranscriptMagic == 102
ShareMagic == 103
BgvParams == 104
BgvCiphertext == 105
CkksCiphertextReal == 106
RlwePublicKey == 107
RlweEvaluationKey == 108
NonFinite == 109   \* the bits of an infinity or of a NaN

Version == 1

------------------------------------------------------------------------------
(* Readers: a result is the set of the value read, with the input left;    *)
(* it is empty when the reader reports an error.                           *)

Take(n, input) ==
    IF Len(input) < n THEN {}
    ELSE {[value |-> SubSeq(input, 1, n), rest |-> SubSeq(input, n + 1, Len(input))]}

AndThen(results, Continue(_, _)) == UNION {Continue(r.value, r.rest) : r \in results}

Values(results) == {r.value : r \in results}

EncodeBytes(bytes) == <<Len(bytes)>> \o bytes

ReadBytes(input) == AndThen(Take(1, input), LAMBDA len, rest : Take(len[1], rest))

\* What a decoder that checks is_finished accepts.
Finished(results) == {r.value : r \in {s \in results : s.rest = <<>>}}

------------------------------------------------------------------------------
(* Shares and transcripts.                                                 *)

\* ShareKind and ProtocolKind: the six named kinds have tags 1 to 6, and
\* Custom(tag) has the tag it was given.
Named == {[named |-> TRUE, tag |-> tag] : tag \in 1..6}
Custom(tag) == [named |-> FALSE, tag |-> tag]
FromTag(tag) == [named |-> tag \in 1..6, tag |-> tag]

Binding(session, participant) ==
    <<session.id, session.protocol.tag, session.round, participant>>

EncodeShare(s) ==
    <<ShareMagic>> \o Binding(s, s.participant) \o <<s.kind.tag>> \o EncodeBytes(s.payload)

\* Mutated form of DecodeShare: what follows the payload is ignored.
DecodeShareUnfinished(input) ==
    AndThen(Take(6, input), LAMBDA head, r :
        {[id |-> head[2], protocol |-> FromTag(head[3]), round |-> head[4],
          participant |-> head[5], kind |-> FromTag(head[6]), payload |-> p] :
            p \in IF head[1] = ShareMagic /\ head[2] # 0 /\ head[5] # 0
                  THEN {q \in Values(ReadBytes(r)) : q # <<>>} ELSE {}})

\* Ids are not zero, the payload is not empty, and nothing follows it.
DecodeShare(input) ==
    AndThen(Take(6, input), LAMBDA head, r :
        {[id |-> head[2], protocol |-> FromTag(head[3]), round |-> head[4],
          participant |-> head[5], kind |-> FromTag(head[6]), payload |-> p] :
            p \in IF head[1] = ShareMagic /\ head[2] # 0 /\ head[5] # 0
                  THEN {q \in Finished(ReadBytes(r)) : q # <<>>} ELSE {}})

NewMessage(session, sender, label, payload) ==
    IF sender \in ToSet(session.participants) /\ label # <<>>
    THEN {[id |-> session.id, protocol |-> session.protocol, round |-> session.round,
           sender |-> sender, label |-> label, payload |-> payload]}
    ELSE {}

EncodeMessage(m) ==
    <<MessageMagic>> \o Binding(m, m.sender) \o EncodeBytes(m.label) \o EncodeBytes(m.payload)

\* No check of membership: the decoder has no session.
DecodeMessage(input) ==
    AndThen(Take(5, input), LAMBDA head, r1 :
    AndThen(ReadBytes(r1), LAMBDA label, r2 :
        {[id |-> head[2], protocol |-> FromTag(head[3]), round |-> head[4],
          sender |-> head[5], label |-> label, payload |-> p] :
            p \in IF head[1] = MessageMagic /\ head[2] # 0 /\ head[5] # 0 /\ label # <<>>
                  THEN Finished(ReadBytes(r2)) ELSE {}}))

\* Transcript::append: the message binds what the session binds.
Appended(transcript, m) ==
    IF Binding(m, m.sender) = Binding(transcript.session, m.sender)
    THEN {[transcript EXCEPT !.messages = Append(@, m)]}
    ELSE {}

\* SessionState::encode; ParticipantSet sorts its members.
EncodeSession(s) ==
    <<s.id, s.protocol.tag, s.threshold, s.round>> \o EncodeBytes(s.participants)

\* The transcript hash is SHA-256 of these fields, which no two inputs share.
EncodeTranscript(t) ==
    <<TranscriptMagic>> \o EncodeSession(t.session) \o <<Len(t.messages)>>
        \o FlattenSeq([i \in 1..Len(t.messages) |-> EncodeBytes(EncodeMessage(t.messages[i]))])

------------------------------------------------------------------------------
(* Polynomials: a sequence of components, one per modulus.                 *)

PolyBody(poly) == FlattenSeq(poly)
EncodePoly(poly) == <<Len(poly), Len(poly[1])>> \o PolyBody(poly)

Components(count, degree, body) ==
    [j \in 1..count |-> SubSeq(body, (j - 1) * degree + 1, j * degree)]

\* read_poly of the tagged encodings: any shape that is not empty.
ReadPoly(input) ==
    AndThen(Take(2, input), LAMBDA shape, r :
        IF 0 \in {shape[1], shape[2]} THEN {}
        ELSE {[b EXCEPT !.value = Components(shape[1], shape[2], @)] :
                 b \in Take(shape[1] * shape[2], r)})

\* decode_poly of the payloads: the shape of the session's ring, to the end.
DecodePoly(input, count, degree) ==
    {p \in Finished(ReadPoly(input)) : Len(p) = count /\ Len(p[1]) = degree}

EncodePolyPair(first, second) == EncodeBytes(EncodePoly(first)) \o EncodePoly(second)

DecodePolyPair(input, count, degree) ==
    AndThen(ReadBytes(input), LAMBDA first, r :
        DecodePoly(first, count, degree) \X DecodePoly(r, count, degree))

\* One header for all rows; without rows it has no shape.
EncodePolyRows(rows) ==
    LET shape == IF rows = <<>> THEN <<0, 0>> ELSE <<Len(rows[1][1]), Len(rows[1][1][1])>>
    IN  <<Len(rows)>> \o shape
            \o FlattenSeq([i \in 1..Len(rows) |-> PolyBody(rows[i][1]) \o PolyBody(rows[i][2])])

\* Mutated form of DecodePolyRows: a row is taken for one polynomial.
DecodePolyRowsSingle(input, count, degree) ==
    LET size == count * degree
        RowAt(body, i) == LET p == Components(count, degree, SubSeq(body, i * size + 1, (i + 1) * size))
                          IN <<p, p>>
    IN  AndThen(Take(3, input), LAMBDA head, r :
            IF head[1] > 0 /\ (<<head[2], head[3]>> # <<count, degree>>
                               \/ Len(r) # head[1] * size)
            THEN {}
            ELSE {[i \in 1..head[1] |-> RowAt(r, i - 1)]})

DecodePolyRows(input, count, degree) ==
    LET size == count * degree
        PolyAt(body, i) == Components(count, degree, SubSeq(body, i * size + 1, (i + 1) * size))
    IN  AndThen(Take(3, input), LAMBDA head, r :
            IF head[1] > 0 /\ <<head[2], head[3]>> # <<count, degree>> THEN {}
            ELSE {[i \in 1..head[1] |-> <<PolyAt(body, 2 * i - 2), PolyAt(body, 2 * i - 1)>>] :
                     body \in Finished(Take(2 * head[1] * size, r))})

------------------------------------------------------------------------------
(* Tagged encodings.  Their readers ignore what follows the object.        *)

Header(domain) == <<domain, Version>>

\* SerializationHeader::read_expected
Open(domain, input) == {r \in Take(2, input) : r.value = Header(domain)}

EncodeBgvParams(p) ==
    Header(BgvParams) \o <<p.degree>> \o EncodeBytes(p.moduli) \o <<p.t>>

PowersOfTwo == {2 ^ i : i \in 0..30}

\* Degree::new, Modulus::new, Ring::new and BgvParams::new all have a say.
ValidParams(p) ==
    /\ p.degree \in PowersOfTwo
    /\ p.moduli # <<>>
    /\ \A q \in ToSet(p.moduli) : q > 1 /\ q % 2 = 1 /\ p.t < q
    /\ p.t > 1

DecodeBgvParams(input) ==
    {p \in AndThen(Open(BgvParams, input), LAMBDA header, r0 :
            AndThen(Take(1, r0), LAMBDA degree, r1 :
            AndThen(ReadBytes(r1), LAMBDA moduli, r2 :
                {[degree |-> degree[1], moduli |-> moduli, t |-> t[1]] :
                    t \in Values(Take(1, r2))}))) :
        ValidParams(p)}

WriteCiphertext(polys) ==
    <<Len(polys)>> \o FlattenSeq([i \in 1..Len(polys) |-> EncodePoly(polys[i])])

ReadCiphertext(input) ==
    LET AppendNext(results, i) ==
            AndThen(results, LAMBDA polys, r :
                {[p EXCEPT !.value = Append(polys, @)] : p \in ReadPoly(r)})
    IN  AndThen(Take(1, input), LAMBDA count, r :
            FoldLeft(AppendNext, {[value |-> <<>>, rest |-> r]}, [i \in 1..count[1] |-> i]))

EncodeBgvCiphertext(polys) == Header(BgvCiphertext) \o WriteCiphertext(polys)
DecodeBgvCiphertext(input) ==
    AndThen(Open(BgvCiphertext, input), LAMBDA header, r : Values(ReadCiphertext(r)))

\* scale and precision are floats: write_f64 and read_f64 refuse those that
\* are not finite, and Scale::new a zero.
FloatsValid(ct) == ct.scale \notin {0, NonFinite} /\ ct.precision # NonFinite

EncodeCkksCiphertextReal(ct) ==
    {Header(CkksCiphertextReal) \o WriteCiphertext(ct.polys)
        \o <<c.scale, c.level, c.precision, c.degree>> : c \in {d \in {ct} : FloatsValid(d)}}

DecodeCkksCiphertextReal(input) ==
    {ct \in AndThen(Open(CkksCiphertextReal, input), LAMBDA header, r0 :
             AndThen(ReadCiphertext(r0), LAMBDA polys, r1 :
                 {[polys |-> polys, scale |-> f[1], level |-> f[2], precision |-> f[3],
                   degree |-> f[4]] : f \in Values(Take(4, r1))})) :
        FloatsValid(ct)}

EncodePublicKey(key) == Header(RlwePublicKey) \o EncodePoly(key[1]) \o EncodePoly(key[2])

DecodePublicKey(input) ==
    AndThen(Open(RlwePublicKey, input), LAMBDA header, r0 :
    AndThen(ReadPoly(r0), LAMBDA first, r1 : {<<first, second>> : second \in Values(ReadPoly(r1))}))

\* Only markers: whether there is a relinearization key, and the elements.
EncodeEvaluationKey(key) ==
    Header(RlweEvaluationKey) \o <<IF key.relin = "none" THEN 0 ELSE 1>>
        \o EncodeBytes(key.elements)

DecodeEvaluationKey(input) ==
    AndThen(Open(RlweEvaluationKey, input), LAMBDA header, r0 :
    AndThen(Take(1, r0), LAMBDA marker, r1 :
        IF marker[1] \notin {0, 1} THEN {}
        ELSE {[relin |-> IF marker[1] = 0 THEN "none" ELSE "placeholder", elements |-> e] :
                 e \in Values(ReadBytes(r1))}))
=============================================================================
