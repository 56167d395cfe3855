------------------------------- MODULE Base64 -------------------------------
(***************************************************************************)
(* The relay's own URL-safe base64 (b64_decode, b64_encode, src/lib.rs),   *)
(* which carries invite bundles and signatures in and out, and the cap on  *)
(* the create body derived from it.  Characters are their ASCII codes.     *)
(***************************************************************************)
EXTENDS Integers, Sequences, SequencesExt, FiniteSetsExt

CONSTANTS
    SomeBytes,     \* bytes tried (bound of the model)
    SomeChars,     \* characters tried (same)
    MaxBytes,      \* longest byte string tried (same)
    MaxChars,      \* longest text tried (same)
    AccWidth       \* bits of the accumulator: 32 in the code; fewer here, so
                   \* that it loses its top bits within a short text

\* The accumulator holds the bits of two characters.
ASSUME CodecAssumption ==
    /\ SomeBytes \subseteq 0..255 /\ SomeChars \subseteq 0..255
    /\ 2^AccWidth \in Nat \ {0} /\ 2^AccWidth % 4096 = 0

Pad == 61
Invalid == -1

\* val: the six bits a character stands for.
Val(c) ==
    CASE c \in 65..90  -> c - 65
      [] c \in 97..122 -> c - 97 + 26
      [] c \in 48..57  -> c - 48 + 52
      [] c = 45        -> 62
      [] c = 95        -> 63
      [] OTHER         -> Invalid

\* T: the character of six bits.
T == [i \in 1..26 |-> 64 + i] \o [i \in 1..26 |-> 96 + i]
        \o [i \in 1..10 |-> 47 + i] \o <<45, 95>>

----------------------------------------------------------------------------
(* Decoding.                                                               *)

TrimEnd(s) == SubSeq(s, 1, Max({0} \cup {i \in DOMAIN s : s[i] # Pad}))

\* Mutation: exactly eight bits are not yet a byte.
TakeEarly(st, c) ==
    LET acc == (st.acc * 64 + Val(c)) % 2^AccWidth
        bits == st.bits + 6
    IN  IF ~st.ok \/ Val(c) = Invalid THEN [st EXCEPT !.ok = FALSE]
        ELSE IF bits > 8
          THEN [ok |-> TRUE, acc |-> acc, bits |-> bits - 8,
                out |-> Append(st.out, (acc \div 2^(bits - 8)) % 256)]
          ELSE [st EXCEPT !.acc = acc, !.bits = bits]

\* One turn of the loop: shift six bits in, and a byte out once there is one.
Take(st, c) ==
    LET acc == (st.acc * 64 + Val(c)) % 2^AccWidth
        bits == st.bits + 6
    IN  IF ~st.ok \/ Val(c) = Invalid THEN [st EXCEPT !.ok = FALSE]
        ELSE IF bits >= 8
          THEN [ok |-> TRUE, acc |-> acc, bits |-> bits - 8,
                out |-> Append(st.out, (acc \div 2^(bits - 8)) % 256)]
          ELSE [st EXCEPT !.acc = acc, !.bits = bits]

Decoded(s) ==
    FoldLeft(Take, [ok |-> TRUE, acc |-> 0, bits |-> 0, out |-> <<>>], TrimEnd(s))

\* Mutation: leftover bits are dropped.
AcceptsLeftover(st) == st.ok /\ st.bits < 6

\* What is left over must be zero padding of less than a character.
Accepts(st) == st.ok /\ st.bits < 6 /\ st.acc % 2^st.bits = 0

\* b64_decode: Some(bytes) is <<bytes>>, None is <<>>.
Decode(s) == IF Accepts(Decoded(s)) THEN <<Decoded(s).out>> ELSE <<>>

----------------------------------------------------------------------------
(* Encoding.                                                               *)

\* Mutation: every chunk becomes four characters.
EncodeChunkWhole(chunk) ==
    LET b == [i \in 1..3 |-> IF i <= Len(chunk) THEN chunk[i] ELSE 0]
        n == b[1] * 65536 + b[2] * 256 + b[3]
    IN  [i \in 1..4 |-> T[((n \div 64^(4 - i)) % 64) + 1]]

EncodeChunk(chunk) ==
    LET b == [i \in 1..3 |-> IF i <= Len(chunk) THEN chunk[i] ELSE 0]
        n == b[1] * 65536 + b[2] * 256 + b[3]
    IN  [i \in 1..(Len(chunk) + 1) |-> T[((n \div 64^(4 - i)) % 64) + 1]]

\* bytes.chunks(3).
Chunks(bytes) ==
    [i \in 1..((Len(bytes) + 2) \div 3) |->
        SubSeq(bytes, 3 * i - 2, Min({3 * i, Len(bytes)}))]

Encode(bytes) == FlattenSeq([i \in DOMAIN Chunks(bytes) |-> EncodeChunk(Chunks(bytes)[i])])

----------------------------------------------------------------------------
(* The cap on the body of an invite create.                                *)

JsonFrame == 4 * 1024

\* Mutation: the division rounds down.
InviteCreateBodyCapFloor(max_bundle_bytes) ==
    2 * ((4 * max_bundle_bytes) \div 3) + JsonFrame

InviteCreateBodyCap(max_bundle_bytes) ==
    2 * ((4 * max_bundle_bytes + 2) \div 3) + JsonFrame

----------------------------------------------------------------------------
(* All short byte strings, then all short texts.                           *)

VARIABLES bytes, text
codecVars == <<bytes, text>>

CodecInit == bytes = <<>> /\ text = <<>>

GrowBytes ==
    /\ text = <<>> /\ Len(bytes) < MaxBytes
    /\ \E b \in SomeBytes : bytes' = Append(bytes, b)
    /\ UNCHANGED text

GrowText ==
    /\ bytes = <<>> /\ Len(text) < MaxChars
    /\ \E c \in SomeChars : text' = Append(text, c)
    /\ UNCHANGED bytes

CodecNext == GrowBytes \/ GrowText
CodecSpec == CodecInit /\ [][CodecNext]_codecVars

\* What a redeemer gets back is what the creator uploaded: decoding undoes
\* encoding for every byte string, across chunk boundaries and beyond the
\* width of the decoder's accumulator.
RoundTrip == Decode(Encode(bytes)) = <<bytes>>

\* Bit j of a byte string, the most significant of the first byte being bit 0,
\* with zeros after its end.
Bit(b, j) ==
    IF j \div 8 < Len(b) THEN (b[(j \div 8) + 1] \div 2^(7 - (j % 8))) % 2 ELSE 0

\* The reference (RFC 4648): character i is the i-th group of six bits of the
\* bit stream, and there are just enough characters to hold it.
EncodesTheBitStream ==
    /\ Len(Encode(bytes)) = (8 * Len(bytes) + 5) \div 6
    /\ \A i \in DOMAIN Encode(bytes) :
          Val(Encode(bytes)[i]) =
            SumFunctionOnSet([k \in 0..5 |-> Bit(bytes, 6 * (i - 1) + k) * 2^(5 - k)], 0..5)

\* Accepted text is canonical: up to trailing padding, the text of its bytes.
\* No two different texts are the same bundle, and no trailing bits are lost.
Canonical ==
    Decode(text) # <<>> => Encode(Decode(text)[1]) = TrimEnd(text)

\* Two blobs of the largest size the limit allows, encoded, and the frame of
\* the JSON body are never refused as too large.
LargestBundleFits ==
    2 * Len(Encode(bytes)) + JsonFrame <= InviteCreateBodyCap(Len(bytes))
=============================================================================
