------------------------------ MODULE ModelFiles ------------------------------
(***************************************************************************)
(* The container of weights (tmq.h): a file is a sequence of bytes, a       *)
(* payload's bytes are all alike.  The converter from gguf (convert_gguf):  *)
(* a tensor is the sequence of its elements' places in the source, so that  *)
(* where each one is written shows; the loader of llama.h says what it makes *)
(* of a record.  A number past Huge is Huge: no file here is as long.        *)
(***************************************************************************)
EXTENDS Integers, Sequences, SequencesExt

CONSTANT Chunk        \* kChunkBytes: what the converter reads at once

Huge == 1000000
MaxName == 2 ^ 20
Magic == <<84, 77, 81, 49>>

BlockElems == [d \in 0 .. 7 |-> CASE d \in {0, 1, 4} -> 32 [] d \in {2, 3} -> 1 [] d \in {5, 6} -> 256 [] OTHER -> 128]
BlockBytes == (0 :> 34) @@ (1 :> 18) @@ (2 :> 4) @@ (3 :> 2) @@ (4 :> 20) @@ (5 :> 176) @@ (6 :> 210) @@ (7 :> 34)
Volume(dims) == FoldLeft(LAMBDA n, d : IF n * d > Huge THEN Huge ELSE n * d, 1, dims)

\* Little-endian numbers; those written here fit three bytes.
Bytes(n, width) == [k \in 1 .. width |-> IF k > 3 THEN 0 ELSE (n \div 256 ^ (k - 1)) % 256]
Number(file, at, width) ==
    LET b == SubSeq(file, at + 1, at + width)
        n == b[1] + (256 * b[2]) + (65536 * b[3])
    IN  IF n > Huge \/ \E k \in 4 .. width : b[k] # 0 THEN Huge ELSE n

RecordBytes(r) ==
    Bytes(Len(r.name), 4) \o r.name \o Bytes(r.dtype, 4) \o Bytes(Len(r.shape), 4)
      \o FlattenSeq([i \in DOMAIN r.shape |-> Bytes(r.shape[i], 4)]) \o Bytes(r.nblocks, 8)
      \o [k \in 1 .. r.nblocks * BlockBytes[r.dtype] |-> 7]
FileOf(records) == Magic \o Bytes(Len(records), 4) \o FlattenSeq([i \in DOMAIN records |-> RecordBytes(records[i])])

\* One record at off: [ok], and when it is, the record, its payload and its end.
ParseRecord(file, off) ==
    LET left(at) == IF at > Len(file) THEN 0 ELSE Len(file) - at
        nl    == Number(file, off, 4)
        named == off + 4 + nl
        dtype == Number(file, named, 4)
        nd    == Number(file, named + 4, 4)
        shape == [i \in 1 .. nd |-> Number(file, named + 8 + (4 * (i - 1)), 4)]
        n     == Volume(shape)
        at    == named + 8 + (4 * nd)
        nblocks == Number(file, at, 8)
        ok == /\ left(off) >= 4 /\ nl <= MaxName /\ nl <= left(off + 4)
              /\ left(named) >= 4 /\ dtype \in DOMAIN BlockElems
              /\ left(named + 4) >= 4
              /\ nd # 0 /\ left(named + 8) >= 8 /\ nd <= (left(named + 8) - 8) \div 4
              /\ \A i \in DOMAIN shape : shape[i] # 0
              /\ n % BlockElems[dtype] = 0 /\ nblocks = n \div BlockElems[dtype]
              /\ nblocks <= left(at + 8) \div BlockBytes[dtype]
    IN  IF ~ok THEN [ok |-> FALSE]
        ELSE [ok |-> TRUE, end |-> at + 8 + (nblocks * BlockBytes[dtype]), payload |-> at + 8,
              record |-> [name |-> SubSeq(file, off + 5, named), dtype |-> dtype, shape |-> shape \o <<>>, nblocks |-> nblocks]]

MinRecord == 4 + 4 + 4 + 4 + 8 + 2
Refused == [ok |-> FALSE]
RECURSIVE ParseRecords(_, _, _, _)
ParseRecords(file, off, count, out) ==
    IF count = 0 THEN IF off = Len(file) THEN [ok |-> TRUE, records |-> out] ELSE Refused
    ELSE LET r == ParseRecord(file, off)
         IN  IF ~r.ok THEN Refused ELSE ParseRecords(file, r.end, count - 1, Append(out, r.record))
ParseIndex(file) ==
    IF Len(file) < 8 \/ SubSeq(file, 1, 4) # Magic THEN Refused
    ELSE LET count == Number(file, 4, 4)
         IN  IF count > (Len(file) - 8) \div MinRecord THEN Refused ELSE ParseRecords(file, 8, count, <<>>)

\* load_quant: which table a record's rows go to; "none" is a file it refuses.
Loaded(r) ==
    IF Len(r.shape) = 2
    THEN IF r.dtype # 3 /\ r.shape[2] % BlockElems[r.dtype] # 0 THEN "none"
         ELSE CASE r.dtype = 3 -> "f16" [] r.dtype = 0 -> "q8" [] r.dtype = 1 -> "q4" [] OTHER -> "qk"
    ELSE IF Len(r.shape) = 1 /\ r.dtype # 3 THEN "w" ELSE "none"

-----------------------------------------------------------------------------
(* convert_gguf.  A tensor is [name, type, dims], dims with the inner one first. *)

SourceBytes == [F32 |-> 4, F16 |-> 2, BF16 |-> 2, Q4_0 |-> 18, Q4_1 |-> 20, Q8_0 |-> 34, Q5_K |-> 176, Q6_K |-> 210]
SourceElems == [F32 |-> 1, F16 |-> 1, BF16 |-> 1, Q4_0 |-> 32, Q4_1 |-> 32, Q8_0 |-> 32, Q5_K |-> 256, Q6_K |-> 256]
OwnDtype == [Q4_0 |-> 1, Q8_0 |-> 0, Q4_1 |-> 4, Q5_K |-> 5, Q6_K |-> 6]

Shape(t) == IF Len(t.dims) = 2 /\ t.name # "conv1d" THEN <<t.dims[2], t.dims[1]>> ELSE t.dims
Count(t) == Volume(t.dims)
Skipped(t) == Count(t) < 32 /\ t.type # "F32"
Outs(tensors) ==
    LET kept == SelectSeq(tensors, LAMBDA t : ~Skipped(t))
    IN  IF \E i \in DOMAIN kept : kept[i].name = "lm_head" THEN kept
        ELSE kept \o [i \in 1 .. 1 |-> [kept[CHOOSE k \in DOMAIN kept : kept[k].name = "embed"] EXCEPT !.name = "lm_head"]]

RawF32(t) == t.type = "F32" /\ (Len(Shape(t)) = 1 \/ Count(t) < 32)
Inner(t) == Shape(t)[Len(Shape(t))]
LmHeadQ4(t, m) == t.name = "lm_head" /\ (m.lmhead = "q4" \/ (m.lmhead # "f16" /\ m.arch # "qwen35"))
DtypeOf(t, m) ==
    LET two == Len(Shape(t)) = 2
        own == IF t.type \in DOMAIN OwnDtype THEN OwnDtype[t.type] ELSE 3
        first == IF RawF32(t) THEN 2
                 ELSE IF (two /\ Inner(t) % 32 # 0) \/ t.name \in {"alpha", "beta"} THEN 3
                 ELSE IF LmHeadQ4(t, m) THEN 1 ELSE own
    IN  IF first >= 4 /\ two /\ Inner(t) % BlockElems[first] # 0 THEN 3 ELSE first
NBlocks(t, m) == Count(t) \div BlockElems[DtypeOf(t, m)]

IsQk(t, m) == m.arch # "qwen35" /\ m.heads > 0 /\ m.kvheads > 0 /\ Len(Shape(t)) = 2 /\ t.name \in {"q_proj", "k_proj"}
HfRow(g, dim) == LET h == g \div dim  r == g % dim IN (h * dim) + ((r % 2) * (dim \div 2)) + (r \div 2)
\* The elements [from, from + n) of the source, and the whole with its rows moved.
Elements(from, n) == [k \in 1 .. n |-> from + k - 1]
Moved(t, m) ==
    LET rows == Shape(t)[1]
        dim  == rows \div (IF t.name = "k_proj" THEN m.kvheads ELSE m.heads)
        from == [r \in 0 .. rows - 1 |-> CHOOSE g \in 0 .. rows - 1 : HfRow(g, dim) = r]
    IN  FlattenSeq([r \in 1 .. rows |-> Elements(from[r - 1] * Inner(t), Inner(t))])
BitExact(t, m) == t.type \in DOMAIN OwnDtype /\ DtypeOf(t, m) = OwnDtype[t.type]

\* The blocks' own bytes, a chunk read at a time, into a buffer that is written
\* when it is full and at the end.
RECURSIVE EmitBlocks(_, _, _, _, _, _)
EmitBlocks(all, elems, chunk, cap, pos, st) ==
    IF pos = Len(all) \div elems
    THEN st.out \o st.buffer
    ELSE LET c    == IF (Len(all) \div elems) - pos < chunk THEN (Len(all) \div elems) - pos ELSE chunk
             next == FoldLeft(LAMBDA s, b :
                        LET full == s.buffer \o SubSeq(all, ((pos + b - 1) * elems) + 1, (pos + b) * elems)
                        IN  IF Len(full) = cap * elems THEN [out |-> s.out \o full, buffer |-> <<>>]
                            ELSE [out |-> s.out, buffer |-> full], st, [b \in 1 .. c |-> b])
         IN  EmitBlocks(all, elems, chunk, cap, pos + c, next)
\* Values of a chunk of source blocks, stored anew.
RECURSIVE Requantised(_, _, _, _)
Requantised(elems, chunk, left, at) ==
    IF left = 0 THEN <<>>
    ELSE LET c == IF left < chunk THEN left ELSE chunk
         IN  Elements(at, c * elems) \o Requantised(elems, chunk, left - c, at + (c * elems))

Payload(t, m) ==
    LET elems == SourceElems[t.type]
        bytes == SourceBytes[t.type]
        blocks == Count(t) \div elems
        chunk == IF blocks < Chunk \div bytes THEN blocks ELSE Chunk \div bytes
        all   == IF IsQk(t, m) THEN Moved(t, m) ELSE Elements(0, Count(t))
    IN  IF RawF32(t) THEN Elements(0, Count(t))
        ELSE IF BitExact(t, m) THEN EmitBlocks(all, elems, chunk, Chunk \div bytes, 0, [out |-> <<>>, buffer |-> <<>>])
        ELSE IF IsQk(t, m) THEN all
        ELSE Requantised(elems, Chunk \div bytes, blocks, 0)
\* The rows of an F16, BF16 or F32 query or key are converted into a buffer of one
\* chunk: a longer tensor is written past its end.
PastTheBuffer(t, m) ==
    LET elems == SourceElems[t.type]  blocks == Count(t) \div elems  chunk == Chunk \div SourceBytes[t.type]
    IN  /\ IsQk(t, m) /\ ~RawF32(t) /\ ~BitExact(t, m) /\ DtypeOf(t, m) = 3
        /\ Count(t) > ((IF blocks < chunk THEN blocks ELSE chunk) * elems) + 16

\* Nibbles: the low ones of a source block are its first half.
SplitToInterleaved(qs) ==
    [j \in 1 .. 16 |-> IF j <= 8 THEN (qs[(2 * j) - 1] % 16) + (16 * (qs[2 * j] % 16))
                       ELSE (qs[(2 * (j - 8)) - 1] \div 16) + (16 * (qs[2 * (j - 8)] \div 16))]

-----------------------------------------------------------------------------

\* tmq.h: what the writer wrote is read as it was, and no shorter or longer file is
\* taken for it; a file that is taken for one is the file of what was read.
IndexExact(records) ==
    LET file == FileOf(records)
    IN  /\ ParseIndex(file) = [ok |-> TRUE, records |-> records]
        /\ ~ParseIndex(file \o <<7>>).ok
        /\ \A k \in 0 .. Len(file) - 1 : ~ParseIndex(SubSeq(file, 1, k)).ok
NoOtherFile(records, at, byte) ==
    LET file == [FileOf(records) EXCEPT ![at] = byte]
        r    == ParseIndex(file)
        payload(k) == file[k] = 7 \/ FileOf(records)[k] = 7
    IN  r.ok => \A k \in DOMAIN file : payload(k) \/ file[k] = FileOf(r.records)[k]

\* convert_gguf: each record is one the loader takes, of the shape the engine asks
\* for, and its rows are the source's, a query's and a key's in the order of halves;
\* the head exists.
ConversionExact(tensors, m) ==
    LET outs == Outs(tensors)
    IN  /\ \E i \in DOMAIN outs : outs[i].name = "lm_head"
        /\ \A i \in DOMAIN outs : ~PastTheBuffer(outs[i], m) =>
            LET t == outs[i]  out == Payload(t, m)  inner == Inner(t)
                dim == Shape(t)[1] \div (IF t.name = "k_proj" THEN m.kvheads ELSE m.heads)
            IN  /\ Count(t) = NBlocks(t, m) * BlockElems[DtypeOf(t, m)] /\ Len(out) = Count(t)
                /\ Loaded([dtype |-> DtypeOf(t, m), shape |-> Shape(t)]) # "none"
                     \/ (Len(t.dims) = 1 /\ t.type \in {"F16", "BF16"})
                /\ IF IsQk(t, m)
                   THEN \A h \in 0 .. (Shape(t)[1] \div dim) - 1, k \in 0 .. (dim \div 2) - 1, j \in 0 .. 1, c \in 1 .. inner :
                          out[(((h * dim) + (j * (dim \div 2)) + k) * inner) + c] = (((h * dim) + (2 * k) + j) * inner) + c - 1
                   ELSE out = Elements(0, Count(t))
=============================================================================
