----------------------------- MODULE GgufWriter -----------------------------
(***************************************************************************)
(* The other side of GgufFile: what a program that follows the GGUF format *)
(* writes, field by field, as the writers of tests/test_gguf_parser.cpp    *)
(* and the converters of llama.cpp do.                                     *)
(***************************************************************************)
EXTENDS Integers, Sequences, FiniteSets

\* A metadata value is a scalar or an array of values of one type.
Scalar(type, v)  == [type |-> type, v |-> v]
Array(of, elems) == [type |-> "ARRAY", of |-> of, v |-> elems]

LOCAL Kind(type) == CASE type \in {"UINT8", "INT8", "BOOL"} -> <<"u8", 1>>
                      [] type \in {"UINT16", "INT16"} -> <<"u16", 2>>
                      [] type \in {"UINT32", "INT32", "FLOAT32"} -> <<"u32", 4>>
                      [] type \in {"UINT64", "INT64", "FLOAT64"} -> <<"u64", 8>>
                      [] type = "STRING" -> <<"str", 12>>
                      [] OTHER -> <<"other", 4>>

\* Two's complement in the width of the type; a Boolean is a byte.
LOCAL Raw(type, v) == CASE type = "INT8" /\ v < 0 -> v + 2^8
                        [] type = "INT16" /\ v < 0 -> v + 2^16
                        [] type = "BOOL" -> IF v THEN 1 ELSE 0
                        [] OTHER -> v

LOCAL Field(kind, bytes, v) == <<[kind |-> kind, bytes |-> bytes, value |-> v]>>
LOCAL U32(v) == Field("u32", 4, v)
LOCAL Tag(v) == Field("tag", 4, v)
LOCAL U64(v) == Field("u64", 8, v)
LOCAL Str(v) == Field("str", 12, v)

\* The same sequence, computed once.
LOCAL Tuple(s) == SubSeq(s, 1, Len(s))

RECURSIVE Flat(_)
Flat(ss) == IF ss = <<>> THEN <<>> ELSE Head(ss) \o Flat(Tail(ss))

\* Two texts stand for longer ones.
LOCAL StringLen(v) == CASE v = "long" -> 16 [] v = "longer" -> 17 [] OTHER -> 4

RECURSIVE ValueFields(_)
ValueFields(x) ==
    IF x.type = "STRING" THEN Field("str", 8 + StringLen(x.v), x.v)
    ELSE IF x.type = "ARRAY"
    THEN Tag(x.of) \o U64(Len(x.v)) \o Flat([i \in DOMAIN x.v |-> ValueFields(x.v[i])])
    ELSE Field(Kind(x.type)[1], Kind(x.type)[2], Raw(x.type, x.v))

\* The value as a reader is to see it.
RECURSIVE Plain(_)
Plain(x) == [type |-> x.type,
             v |-> IF x.type = "ARRAY" THEN Tuple([i \in DOMAIN x.v |-> Plain(x.v[i])]) ELSE x.v]

RECURSIVE ValueSupported(_, _)
ValueSupported(x, limits) ==
    IF x.type = "ARRAY"
    THEN Len(x.v) <= limits.array /\ \A i \in DOMAIN x.v : ValueSupported(x.v[i], limits)
    ELSE /\ Kind(x.type)[1] # "other"
         /\ x.type = "STRING" => StringLen(x.v) <= limits.string

-----------------------------------------------------------------------------
Pad(n, a) == (a - (n % a)) % a

LOCAL DataBytes(t) == LET RECURSIVE P(_)
                          P(d) == IF d = <<>> THEN 1 ELSE Head(d) * P(Tail(d))
                          n == P(t.dims)
                      IN CASE t.dtype = "F32" -> 4 * n
                           [] t.dtype \in {"F16", "BF16"} -> 2 * n
                           [] t.dtype = "Q8_0" -> 34 * ((n + 31) \div 32)
                           [] OTHER -> 18 * ((n + 31) \div 32)

\* Tensors follow each other in the data, each aligned.
LOCAL Offset(tensors, a) ==
    LET o[i \in 1..Len(tensors)] ==
            IF i = 1 THEN 0
            ELSE LET e == o[i - 1] + DataBytes(tensors[i - 1]) IN e + Pad(e, a)
    IN o

LOCAL Reversed(d) == [i \in DOMAIN d |-> d[Len(d) + 1 - i]]

LOCAL TensorFields(t, offset) ==
    Str(t.name) \o U32(Len(t.dims)) \o Flat([i \in DOMAIN t.dims |-> U64(Reversed(t.dims)[i])])
    \o Tag(t.dtype) \o U64(offset)

RECURSIVE WithEnds(_, _)
WithEnds(fs, at) ==
    IF fs = <<>> THEN <<>>
    ELSE LET f == Head(fs)
         IN <<[kind |-> f.kind, value |-> f.value, end |-> at + f.bytes]>>
            \o WithEnds(Tail(fs), at + f.bytes)

\* The file with this magic, version, metadata (key, value), tensors (name,
\* dims, dtype, number) and alignment; limits are the parser's.
Write(magic, version, kv, tensors, alignment, limits) ==
    LET offset == Tuple(Offset(tensors, alignment))
        fs == WithEnds(Field("magic", 4, magic) \o U32(version) \o U64(Len(tensors)) \o U64(Len(kv))
                       \o Flat([i \in DOMAIN kv |->
                                  Str(kv[i].key) \o Tag(kv[i].value.type) \o ValueFields(kv[i].value)])
                       \o Flat([i \in DOMAIN tensors |-> TensorFields(tensors[i], offset[i])]), 0)
        header == fs[Len(fs)].end
        start  == header + Pad(header, alignment)
        n      == Len(tensors)
    IN [fields |-> fs, data_start |-> start,
        bytes |-> IF n = 0 THEN start ELSE start + offset[n] + DataBytes(tensors[n]),
        kv |-> Tuple([i \in DOMAIN kv |-> [key |-> kv[i].key, value |-> Plain(kv[i].value)]]),
        tensors |-> Tuple([i \in 1..n |->
            [info |-> [name |-> tensors[i].name, dimensions |-> tensors[i].dims,
                       dtype |-> tensors[i].dtype, offset |-> offset[i]],
             number |-> tensors[i].number, bytes |-> DataBytes(tensors[i])]]),
        supported |-> /\ magic = "GGUF" /\ version = 3 /\ n <= limits.tensors
                      /\ \A i \in DOMAIN kv : ValueSupported(kv[i].value, limits)
                      /\ \A i \in 1..n : /\ Len(tensors[i].dims) \in 1..limits.dims
                                         /\ \A d \in DOMAIN tensors[i].dims : tensors[i].dims[d] > 0]
=============================================================================
