------------------------------ MODULE GgufFile ------------------------------
(***************************************************************************)
(* GGUFParser::parse (src/io/gguf_parser.cpp): a file is read front to     *)
(* back, header, metadata, tensor descriptions; what follows is the tensor *)
(* data, found later through data_offset.                                  *)
(*                                                                         *)
(* A file is what a writer meant to write (kv, tensors, the number of      *)
(* bytes of the whole) and the fields it wrote, each with its kind, its    *)
(* value and the position at which it ends; size says how many bytes       *)
(* really are on disk.  The reads are the parser's: each asks for one kind *)
(* of field and fails when the stream ends before it; the 32 bits that     *)
(* name a type are a kind of their own.  A dotted name is a tuple:         *)
(* <<"general", "alignment">>, <<"blk", 0, "attn_q">>.                     *)
(***************************************************************************)
EXTENDS Integers, Sequences, FiniteSets

CONSTANTS Files,            \* file id -> file as written
          Sizes(_),         \* bound: the sizes a file is cut to
          MaxStringLen,     \* max_string_len
          MaxArrayLen,      \* max_array_len
          MaxTensorDims,    \* max_tensor_dims
          MaxTensorCount    \* max_tensor_count

\* The fields are a list, and one of an integer kind holds an integer.
ASSUME FilesAssumption ==
    \A f \in DOMAIN Files :
        LET s == Files[f].fields
        IN /\ Len(s) \in Nat /\ DOMAIN s = 1..Len(s)
           /\ \A i \in DOMAIN s : s[i].kind \in {"u8", "u16", "u32", "u64"} => s[i].value \in Int

kGgufVersion == 3
kGgufDefaultAlignment == 32

VARIABLES file, size,       \* the file on disk and its bytes
          pos,              \* the field that is read next
          stage,            \* where parse, and the program that called it, is
          kv_read,          \* i of parse_metadata
          key,              \* the key whose value is being read
          frames,           \* calls of read_metadata_value under way
          metadata, tensor_infos, data_offset   \* the GGUFFile

parseVars == <<file, size, pos, kv_read, key, frames, metadata, tensor_infos,
               data_offset>>

fields == file.fields

-----------------------------------------------------------------------------
(* Binary readers. *)

\* read_string: the text follows its length of 8 bytes and is not too long.
string_ok(i) == fields[i].end - (IF i = 1 THEN 0 ELSE fields[i - 1].end) - 8 <= MaxStringLen

\* The next fields are there in full and of these kinds.
Readable(kinds) == \A i \in DOMAIN kinds :
                      /\ pos + i - 1 <= Len(fields)
                      /\ fields[pos + i - 1].kind = kinds[i]
                      /\ kinds[i] = "str" => string_ok(pos + i - 1)
                      /\ fields[pos + i - 1].end <= size

Field(i) == fields[pos + i - 1].value

Scalars == {"UINT8", "INT8", "BOOL", "UINT16", "INT16", "UINT32", "INT32", "FLOAT32",
            "UINT64", "INT64", "FLOAT64", "STRING"}

WireKind(type) == CASE type \in {"UINT8", "INT8", "BOOL"} -> "u8"
                    [] type \in {"UINT16", "INT16"} -> "u16"
                    [] type \in {"UINT32", "INT32", "FLOAT32"} -> "u32"
                    [] type \in {"UINT64", "INT64", "FLOAT64"} -> "u64"
                    [] type = "STRING" -> "str"

Signed(raw, width) == IF raw >= 2^(width - 1) THEN raw - 2^width ELSE raw

\* Integers of 32 and 64 bits are kept where both readings agree.
Converted(type, raw) == CASE type = "INT8" -> Signed(raw, 8)
                          [] type = "INT16" -> Signed(raw, 16)
                          [] type = "BOOL" -> raw # 0
                          [] OTHER -> raw

-----------------------------------------------------------------------------
(* Header and metadata. *)

HeaderKinds == <<"magic", "u32", "u64", "u64">>

header_ok == /\ Readable(HeaderKinds)
             /\ Field(1) = "GGUF" /\ Field(2) = kGgufVersion

tensor_count == fields[3].value
metadata_kv_count == fields[4].value

read_header == /\ stage = "header" /\ header_ok
               /\ pos' = pos + 4
               /\ stage' = "metadata"
               /\ UNCHANGED <<file, size, kv_read, key, frames, metadata, tensor_infos,
                              data_offset>>

\* A value of one type is to be read: a call of read_metadata_value, or the
\* loop over the elements of an array.
Frame(type, n) == [of |-> type, left |-> n, elems |-> <<>>]

top == frames[Len(frames)]

WithElement(f, e) == [f EXCEPT !.left = @ - 1, !.elems = Append(@, e)]

ReplaceTop(fs, f) == [fs EXCEPT ![Len(fs)] = f]

read_key == /\ stage = "metadata" /\ kv_read < metadata_kv_count
            /\ Readable(<<"str", "tag">>)
            /\ key' = Field(1)
            /\ frames' = <<Frame(Field(2), 1)>>
            /\ pos' = pos + 2
            /\ stage' = "value"
            /\ UNCHANGED <<file, size, kv_read, metadata, tensor_infos, data_offset>>

read_scalar == /\ stage = "value" /\ top.left > 0 /\ top.of \in Scalars
               /\ Readable(<<WireKind(top.of)>>)
               /\ LET e == [type |-> top.of, v |-> Converted(top.of, Field(1))]
                  IN frames' = ReplaceTop(frames, WithElement(top, e))
               /\ pos' = pos + 1
               /\ UNCHANGED <<file, size, stage, kv_read, key, metadata, tensor_infos,
                              data_offset>>

array_ok == Readable(<<"tag", "u64">>) /\ Field(2) <= MaxArrayLen

read_array == /\ stage = "value" /\ top.left > 0 /\ top.of = "ARRAY" /\ array_ok
              /\ frames' = Append(frames, Frame(Field(1), Field(2)))
              /\ pos' = pos + 2
              /\ UNCHANGED <<file, size, stage, kv_read, key, metadata, tensor_infos,
                             data_offset>>

\* Mutant: the array is handed up, the loop around it not counted down.
array_return_uncounted ==
    /\ stage = "value" /\ top.left = 0 /\ Len(frames) > 1
    /\ LET outer == SubSeq(frames, 1, Len(frames) - 1)
           e     == [type |-> "ARRAY", v |-> top.elems]
           f     == outer[Len(outer)]
       IN frames' = ReplaceTop(outer, [f EXCEPT !.elems = Append(@, e)])
    /\ UNCHANGED <<file, size, pos, stage, kv_read, key, metadata, tensor_infos,
                   data_offset>>

\* An array is complete and is one element of what it was read for.
array_return ==
    /\ stage = "value" /\ top.left = 0 /\ Len(frames) > 1
    /\ LET outer == SubSeq(frames, 1, Len(frames) - 1)
           e     == [type |-> "ARRAY", v |-> top.elems]
       IN frames' = ReplaceTop(outer, WithElement(outer[Len(outer)], e))
    /\ UNCHANGED <<file, size, pos, stage, kv_read, key, metadata, tensor_infos,
                   data_offset>>

\* emplace keeps the value that a key got first.
emplaced(m, k, v) == IF k \in DOMAIN m THEN m
                     ELSE [x \in DOMAIN m \cup {k} |-> IF x = k THEN v ELSE m[x]]

emplace == /\ stage = "value" /\ top.left = 0 /\ Len(frames) = 1
           /\ metadata' = emplaced(metadata, key, top.elems[1])
           /\ kv_read' = kv_read + 1
           /\ frames' = <<>>
           /\ stage' = "metadata"
           /\ UNCHANGED <<file, size, pos, key, tensor_infos, data_offset>>

metadata_end == /\ stage = "metadata" /\ kv_read = metadata_kv_count
                /\ tensor_count <= MaxTensorCount
                /\ stage' = "tensors"
                /\ UNCHANGED parseVars

-----------------------------------------------------------------------------
(* Tensor descriptions. *)

TensorKinds(n) == <<"str", "u32">> \o [d \in 1..n |-> "u64"] \o <<"tag", "u64">>

tensor_info_ok == /\ Readable(<<"str", "u32">>)
                  /\ Field(2) \in 1..MaxTensorDims
                  /\ Readable(TensorKinds(Field(2)))
                  /\ \A d \in 1..Field(2) : Field(2 + d) # 0

\* Dimensions come fastest first and are kept slowest first.
dimensions(n) == [d \in 1..n |-> Field(2 + n + 1 - d)]

read_tensor_info ==
    /\ stage = "tensors" /\ Len(tensor_infos) < tensor_count /\ tensor_info_ok
    /\ LET n == Field(2)
       IN /\ tensor_infos' = Append(tensor_infos,
                 [name |-> Field(1), dimensions |-> dimensions(n),
                  dtype |-> Field(n + 3), offset |-> Field(n + 4)])
          /\ pos' = pos + n + 4
    /\ UNCHANGED <<file, size, stage, kv_read, key, frames, metadata, data_offset>>

\* The bytes read so far.
tellg == IF pos = 1 THEN 0 ELSE fields[pos - 1].end

alignment_key == <<"general", "alignment">>

AlignmentOf(m) == IF alignment_key \in DOMAIN m /\ m[alignment_key].type = "UINT32"
                  THEN m[alignment_key].v ELSE kGgufDefaultAlignment

\* Mutant: a header that ends aligned is padded all the same.
AlignUp_always_pads(n, a) == n + (a - (n % a))

AlignUp(n, a) == n + ((a - (n % a)) % a)

\* parse also maps the file when the system can.  A tensor is read from the
\* mapping or, without one, from the stream: the same bytes.
parse_end == /\ stage = "tensors" /\ Len(tensor_infos) = tensor_count
             /\ data_offset' = AlignUp(tellg, AlignmentOf(metadata))
             /\ stage' = "parsed"
             /\ UNCHANGED <<file, size, pos, kv_read, key, frames, metadata, tensor_infos>>

\* What each stage cannot go on without.
read_fails ==
    \/ stage = "header" /\ ~header_ok
    \/ stage = "metadata" /\ kv_read < metadata_kv_count /\ ~Readable(<<"str", "tag">>)
    \/ stage = "metadata" /\ kv_read = metadata_kv_count /\ tensor_count > MaxTensorCount
    \/ /\ stage = "value" /\ top.left > 0
       /\ \/ top.of \in Scalars /\ ~Readable(<<WireKind(top.of)>>)
          \/ top.of = "ARRAY" /\ ~array_ok
          \/ top.of \notin Scalars \cup {"ARRAY"}
    \/ stage = "tensors" /\ Len(tensor_infos) < tensor_count /\ ~tensor_info_ok

parse_fails == /\ read_fails
               /\ stage' = "parse_failed"
               /\ UNCHANGED parseVars

-----------------------------------------------------------------------------
ParseInit == /\ \E f \in DOMAIN Files : file = Files[f] /\ size \in Sizes(f)
             /\ pos = 1 /\ stage = "header"
             /\ kv_read = 0 /\ key = <<>> /\ frames = <<>>
             /\ metadata = <<>> /\ tensor_infos = <<>>
             /\ data_offset = 0

ParseNext == \/ read_header
             \/ read_key \/ read_scalar \/ read_array \/ array_return \/ emplace
             \/ metadata_end
             \/ read_tensor_info
             \/ parse_end
             \/ parse_fails

-----------------------------------------------------------------------------
(* Properties. *)

ParseStages == {"header", "metadata", "value", "tensors", "parsed", "parse_failed"}

\* The metadata of a file: the value that each key was given first.
FirstWins(kv) == [k \in {kv[i].key : i \in DOMAIN kv} |->
                    kv[CHOOSE i \in DOMAIN kv :
                          kv[i].key = k /\ \A j \in 1..(i - 1) : kv[j].key # k].value]

HeaderBytes == fields[Len(fields)].end

\* What is parsed is what was written, nested arrays, repeated keys and
\* reversed dimensions included, with every field read exactly once; and
\* parse fails only on a file of a kind it does not support or cut inside its
\* header, never on a whole one (GGUFParser::parse).
ParsesExactlyTheWhole ==
    /\ stage \notin ParseStages \ {"parsed"} =>
         /\ metadata = FirstWins(file.kv)
         /\ tensor_infos = [i \in DOMAIN file.tensors |-> file.tensors[i].info]
         /\ pos = Len(fields) + 1 /\ size >= HeaderBytes
    /\ stage = "parse_failed" => ~file.supported \/ size < HeaderBytes
=============================================================================
