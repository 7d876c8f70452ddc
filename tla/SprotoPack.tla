----------------------------- MODULE SprotoPack -----------------------------
(***************************************************************************)
(* sproto.pack and sproto.unpack (src/lualib/sproto): the 0-packing of a   *)
(* message.  A segment of 8 bytes is written as a bitmap and its non-zero  *)
(* bytes; a run of segments with (almost) no zero is written as it is,     *)
(* after 0xff and its length.  The output is a buffer with a limit, as in  *)
(* the code, because both functions count on past its end.                 *)
(***************************************************************************)
EXTENDS Integers, Sequences, SequencesExt, FiniteSets, FiniteSetsExt

CONSTANTS
    FF_MAX,             \* segments of the longest run, 256 in the code
    BUFFERSIZE,         \* ENCODE_BUFFERSIZE
    MAXSIZE,            \* ENCODE_MAXSIZE
    PackInputs          \* bound: the strings given to sproto.pack

ASSUME PackAssumption == FF_MAX \in Nat /\ FF_MAX > 1 /\ BUFFERSIZE > 0

VARIABLES
    pkPhase,    \* "in", then "packed", then "unpacked", or "error"
    pkIn,       \* the message
    pkOut,      \* what pack returned
    unOut,      \* what unpack returned
    unOsz       \* upvalue 2 of unpack: the size of its buffer

packVars == <<pkPhase, pkIn, pkOut, unOut, unOsz>>

-----------------------------------------------------------------------------
SEG  == 8
FF   == 255
JUNK == -1              \* a byte nobody wrote

Cell(src, i)      == IF i \in DOMAIN src THEN src[i] ELSE JUNK
Cells(src, a, n)  == [i \in 1 .. n |-> Cell(src, a + i - 1)]
Nonzero(seg)      == SelectSeq([i \in 1 .. SEG |-> i], LAMBDA i : seg[i] # 0)
Bitmap(seg)       == SumSet({2^(i - 1) : i \in {j \in 1 .. SEG : seg[j] # 0}})
Overwrite(out, at, cells) ==
    [p \in DOMAIN out |-> IF p - at + 1 \in DOMAIN cells
                          THEN cells[p - at + 1] ELSE out[p]]

\* The i-th segment, with zeros for what the last one lacks.
Padded(src, i) ==
    [j \in 1 .. SEG |-> IF SEG * (i - 1) + j <= Len(src)
                        THEN src[SEG * (i - 1) + j] ELSE 0]

\* A segment is part of a run if it has no zero, and, once the run has n of
\* them, also with one or two.
InRun(seg, n) == Len(Nonzero(seg)) >= IF n > 0 THEN 6 ELSE 8

\* What pack_seg returns: 10 opens a run, 8 continues one.
SegSize(seg, n) ==
    CASE InRun(seg, n) /\ n = 0 -> 10
      [] InRun(seg, n) /\ n > 0 -> 8
      [] OTHER                  -> Len(Nonzero(seg)) + 1

\* The bytes go out as far as there is room, the bitmap unless this is a run.
pack_seg(out, seg, at, sz, n) ==
    LET nz    == Nonzero(seg)
        fit   == Max({0, Min({Len(nz), sz - 1})})
        bytes == [k \in 1 .. fit |-> seg[nz[k]]]
        put   == Overwrite(out, at + 1, bytes)
    IN  IF sz > 0 /\ ~InRun(seg, n)
        THEN Overwrite(put, at, <<Bitmap(seg)>>) ELSE put

write_ff(out, src, from, at, n) ==
    LET segs == (n + SEG - 1) \div SEG
        zero == [i \in 1 .. SEG * segs - n |-> 0]
    IN  Overwrite(out, at, <<FF, segs - 1>> \o Cells(src, from, n) \o zero)

\* One turn of the loop of sproto_pack; s.n is ff_n, s.from and s.des the
\* start of the open run in the input and in the output.
PackStep(src, s, i) ==
    LET seg    == Padded(src, i)
        n      == SegSize(seg, s.n)
        out    == pack_seg(s.out, seg, s.at, s.room, s.n)
        room   == s.room - n
        Moved(o, k) == [s EXCEPT !.out = o, !.at = @ + n, !.room = room, !.n = k]
        Flushed(k)  == IF room >= 0 THEN write_ff(out, src, s.from, s.des, SEG * k)
                       ELSE out
    IN  CASE n = 10 -> [Moved(out, 1) EXCEPT !.from = SEG * (i - 1) + 1, !.des = s.at]
          [] n = 8 /\ s.n > 0 ->
                IF s.n + 1 = FF_MAX THEN Moved(Flushed(FF_MAX), 0)
                ELSE Moved(out, s.n + 1)
          [] OTHER -> IF s.n > 0 THEN Moved(Flushed(s.n), 0) ELSE Moved(out, 0)

PackLoop(src, bufsz) ==
    FoldLeft(LAMBDA s, i : PackStep(src, s, i),
             [out |-> [p \in 1 .. bufsz |-> JUNK], at |-> 1, room |-> bufsz,
              n |-> 0, from |-> 0, des |-> 0],
             [i \in 1 .. (Len(src) + SEG - 1) \div SEG |-> i])

\* The run still open at the end is written up to the end of the input.
sproto_pack(src, bufsz) ==
    LET s   == PackLoop(src, bufsz)
        n   == IF s.n = 1 THEN SEG ELSE Len(src) - s.from + 1
        out == IF s.room >= 0 /\ s.n > 0 THEN write_ff(s.out, src, s.from, s.des, n)
               ELSE s.out
    IN  [out |-> out, size |-> s.at - 1]

\* One header of sproto_unpack and what follows it; s.out stops at bufsz.
UnpackStep(s, bufsz) ==
    LET header == Head(s.src)
        rest   == Tail(s.src)
        Put(cells, whole) ==
            LET room == bufsz - Len(s.out)
            IN  IF Len(cells) <= room THEN s.out \o cells
                ELSE IF whole THEN s.out ELSE s.out \o SubSeq(cells, 1, room)
    IN  IF header = FF
        THEN LET n == (Cell(rest, 1) + 1) * SEG
                 cells == SubSeq(rest, 2, n + 1)
             IN  [src |-> SubSeq(rest, n + 2, Len(rest)), size |-> s.size + n,
                  out |-> Put(cells, TRUE), bad |-> Len(rest) < n + 1]
        ELSE LET bits == [i \in 1 .. SEG |-> (header \div 2^(i - 1)) % 2]
                 nth  == [i \in 1 .. SEG |-> Cardinality({j \in 1 .. i : bits[j] = 1})]
                 cells == [i \in 1 .. SEG |-> IF bits[i] = 1 THEN Cell(rest, nth[i]) ELSE 0]
             IN  [src |-> SubSeq(rest, nth[SEG] + 1, Len(rest)), size |-> s.size + SEG,
                  out |-> Put(cells, FALSE), bad |-> nth[SEG] > Len(rest) + 1]

RECURSIVE Unpacked(_, _)
Unpacked(s, bufsz) ==
    IF s.src = <<>> \/ s.bad THEN s ELSE Unpacked(UnpackStep(s, bufsz), bufsz)

sproto_unpack(src, bufsz) ==
    Unpacked([src |-> src, out |-> <<>>, size |-> 0, bad |-> FALSE], bufsz)

\* expand_buffer: the size doubled until it is enough, and at least once.
RECURSIVE expand_buffer(_, _)
expand_buffer(osz, nsz) ==
    IF 2 * osz >= nsz THEN 2 * osz ELSE expand_buffer(2 * osz, nsz)

-----------------------------------------------------------------------------
\* lpack: room for two more bytes per run of FF_MAX segments, and an error
\* when sproto_pack needed more.
MaxPacked(sz) == ((sz + SEG * FF_MAX - 1) \div (SEG * FF_MAX)) * 2 + sz

lpack ==
    LET maxsz  == MaxPacked(Len(pkIn))
        osz    == IF BUFFERSIZE < maxsz THEN expand_buffer(BUFFERSIZE, maxsz)
                  ELSE BUFFERSIZE
        packed == sproto_pack(pkIn, maxsz)
    IN  /\ pkPhase = "in"
        /\ IF osz > MAXSIZE \/ packed.size > maxsz
           THEN pkPhase' = "error" /\ UNCHANGED pkOut
           ELSE pkPhase' = "packed" /\ pkOut' = SubSeq(packed.out, 1, packed.size)
        /\ UNCHANGED <<pkIn, unOut, unOsz>>

\* lunpack: a second pass with a buffer that is large enough.
lunpack ==
    LET first  == sproto_unpack(pkOut, unOsz)
        osz    == IF first.size > unOsz THEN expand_buffer(unOsz, first.size)
                  ELSE unOsz
        second == IF first.size > unOsz THEN sproto_unpack(pkOut, first.size)
                  ELSE first
    IN  /\ pkPhase = "packed"
        /\ IF first.bad \/ osz > MAXSIZE
           THEN pkPhase' = "error" /\ UNCHANGED <<unOut, unOsz>>
           ELSE pkPhase' = "unpacked" /\ unOut' = second.out /\ unOsz' = osz
        /\ UNCHANGED <<pkIn, pkOut>>

PackInit ==
    /\ pkPhase = "in"
    /\ pkIn \in PackInputs
    /\ pkOut = <<>> /\ unOut = <<>>
    /\ unOsz = BUFFERSIZE

PackNext == lpack \/ lunpack

PackSpec == PackInit /\ [][PackNext]_packVars

-----------------------------------------------------------------------------
\* A run that ends at the limit with the padded segment: its last bytes are
\* read past the end of the input.
RunOverEnd(src) ==
    LET n == Len(src) \div SEG
    IN  Len(src) % SEG > 0 /\ PackLoop(src, 0).n = 0
        /\ PackLoop(SubSeq(src, 1, SEG * n), 0).n = FF_MAX - 1

\* sproto.unpack gives back the message sproto.pack was given, followed by
\* zeros up to a whole segment, whatever runs, limits and partial segments it
\* had, and no byte of the packed form is left unwritten; only the padding
\* after a run cut at its limit by the end of the input is undetermined.
PackExact ==
    /\ pkPhase = "packed" => (JUNK \in Range(pkOut) => RunOverEnd(pkIn))
    /\ pkPhase = "unpacked" =>
        /\ Len(unOut) = SEG * ((Len(pkIn) + SEG - 1) \div SEG)
        /\ SubSeq(unOut, 1, Len(pkIn)) = pkIn
        /\ \A i \in Len(pkIn) + 1 .. Len(unOut) : unOut[i] = 0 \/ RunOverEnd(pkIn)

\* The comment in lpack: "the worst-case space overhead of packing is 2 bytes
\* per 2 KiB of input", so a message that fits its buffer is never refused.
PackOverhead == pkPhase = "error" => Len(pkIn) > MAXSIZE
=============================================================================
