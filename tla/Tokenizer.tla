----------------------------- MODULE Tokenizer -----------------------------
(***************************************************************************)
(* BPETokenizer (src/io/bpe_tokenizer.cpp): a vocabulary and merge rules   *)
(* are read from a file's metadata, a text is encoded, and the tokens are  *)
(* decoded again.  A string is a sequence of code points; a text is valid  *)
(* UTF-8, so that a search in its bytes is a search in its code points.    *)
(***************************************************************************)
EXTENDS Integers, Sequences, FiniteSets, FiniteSetsExt, SequencesExt

CONSTANTS Files,     \* bound: metadata of the tokenizer
          Texts      \* bound: texts to encode

VARIABLES stage,     \* "init", "encode", "decode", "done" or "failed"
          vocab, vocab_map, bpe_ranks, added_tokens, bos_id, eos_id,
          letters,   \* code points above 255 that isalpha takes for letters
          text, pos, \* the text and the index encode has reached
          pieces,    \* pieces of pre_tokenize that bpe has not seen
          symbols,   \* bpe's symbols of the current piece
          matched,   \* the added token that follows the pieces
          tokens,    \* what encode has returned so far
          at, decoded \* tokens decoded, and their bytes

tables     == <<vocab, vocab_map, bpe_ranks, added_tokens, bos_id, eos_id, letters>>
tokVars    == <<stage, tables, text, pos, pieces, symbols, matched, tokens, at, decoded>>

NoMatch == -1
None    == 0     \* prev or next of a symbol that has none
Merged  == -1    \* prev of a symbol that was merged into another

-----------------------------------------------------------------------------
(* Bytes and code points. *)

UTF8(cp) == IF cp < 128 THEN <<cp>>
            ELSE IF cp < 2048 THEN <<192 + (cp \div 64), 128 + (cp % 64)>>
            ELSE <<224 + (cp \div 4096), 128 + ((cp \div 64) % 64), 128 + (cp % 64)>>

Bytes(s) == FlattenSeq([i \in DOMAIN s |-> UTF8(s[i])])

Direct == (33..126) \cup (161..172) \cup (174..255)

byte_to_unicode == [b \in 0..255 |-> IF b \in Direct THEN b
                                     ELSE 256 + Cardinality((0..(b - 1)) \ Direct)]

bytes_to_unicode(s) == LET b == Bytes(s) IN [i \in DOMAIN b |-> byte_to_unicode[b[i]]]

\* 255 marks a code point without a byte, so byte 255 is never returned.
unicode_to_byte == [cp \in {byte_to_unicode[b] : b \in 0..254} |->
                      CHOOSE b \in 0..254 : byte_to_unicode[b] = cp]

unicode_to_bytes(s) == LET known == SelectSeq(s, LAMBDA cp : cp \in DOMAIN unicode_to_byte)
                       IN [i \in DOMAIN known |-> unicode_to_byte[known[i]]]

-----------------------------------------------------------------------------
(* pre_tokenize: the end of the piece that starts at p.  isalpha is not    *)
(* defined above 255: what it takes for a letter there is `letters`.       *)

Letter(cp)  == cp \in (65..90) \cup (97..122) \cup letters
Digit(cp)   == cp \in 48..57
Newline(cp) == cp \in {10, 13}
Space(cp)   == cp \in (9..13) \cup {32}
Blank(cp)   == Space(cp) /\ ~Newline(cp)
Other(cp)   == ~Letter(cp) /\ ~Digit(cp) /\ ~Space(cp)

\* The first index from p on whose code point is not of the kind.
run_end(t, p, Kind(_)) == Min({q \in p..(Len(t) + 1) : q > Len(t) \/ ~Kind(t[q])})

Lower(cp) == IF cp \in 65..90 THEN cp + 32 ELSE cp

\* 's, 't, 'd, 'm and 'll, 've, 're, whatever their case.
match_contraction(t, p) ==
    LET c(i) == IF p + i <= Len(t) THEN Lower(t[p + i]) ELSE 0
    IN IF t[p] # 39 THEN 0
       ELSE IF c(1) \in {115, 116, 100, 109} THEN 2
       ELSE IF <<c(1), c(2)>> \in {<<108, 108>>, <<118, 101>>, <<114, 101>>} THEN 3
       ELSE 0

\* Others, then the newlines that follow them.
others_end(t, p) == run_end(t, run_end(t, p, Other), Newline)

\* White space up to the last newline of its first run of newlines; without
\* one the piece is the whole rest of the text.
space_end(t, p) == LET q == run_end(t, p, Blank)
                   IN IF q <= Len(t) /\ Newline(t[q]) THEN run_end(t, q, Newline)
                      ELSE Len(t) + 1

piece_end(t, p) ==
    LET next(Kind(_)) == p < Len(t) /\ Kind(t[p + 1])
    IN IF match_contraction(t, p) > 0        THEN p + match_contraction(t, p)
       ELSE IF Letter(t[p])                  THEN run_end(t, p, Letter)
       ELSE IF Other(t[p]) /\ next(Letter)   THEN run_end(t, p + 1, Letter)
       ELSE IF Digit(t[p])                   THEN Min({run_end(t, p, Digit), p + 3})
       ELSE IF Other(t[p])                   THEN others_end(t, p)
       ELSE IF t[p] = 32 /\ next(Other)      THEN others_end(t, p + 1)
       ELSE space_end(t, p)

pre_tokenize(t) ==
    LET from[p \in 1..(Len(t) + 1)] ==
            IF p > Len(t) THEN <<>>
            ELSE LET q == piece_end(t, p) IN <<SubSeq(t, p, q - 1)>> \o from[q]
    IN from[1]

-----------------------------------------------------------------------------
(* init. *)

\* "left right", split at the first space.
Spaces(m) == {i \in DOMAIN m : m[i] = 32}
Rule(m)   == <<SubSeq(m, 1, Min(Spaces(m)) - 1), SubSeq(m, Min(Spaces(m)) + 1, Len(m))>>

\* A later index replaces an earlier one.
LastIndex(S, Is(_, _), n) == [x \in S |-> Max({i \in 1..n : Is(i, x)}) - 1]

\* Longest first; equals in any order.
LongestFirst(S) == {o \in [1..Cardinality(S) -> S] :
                      /\ IsInjective(o)
                      /\ \A i, j \in DOMAIN o : i < j => Len(Bytes(o[i])) >= Len(Bytes(o[j]))}

init(f) ==
    /\ stage = "init" /\ f.tokens_kind = "strings"
    /\ vocab' = f.tokens
    /\ vocab_map' = LastIndex(ToSet(f.tokens), LAMBDA i, s : f.tokens[i] = s, Len(f.tokens))
    /\ LET ruled == {i \in DOMAIN f.merges : Spaces(f.merges[i]) # {}}
       IN bpe_ranks' = LastIndex({Rule(f.merges[i]) : i \in ruled},
                                 LAMBDA i, r : i \in ruled /\ Rule(f.merges[i]) = r, Len(f.merges))
    /\ \E o \in LongestFirst({s \in ToSet(f.tokens) : Len(pre_tokenize(s)) > 1}) : added_tokens' = o
    /\ bos_id' = f.bos /\ eos_id' = f.eos
    /\ stage' = "ready"
    /\ UNCHANGED <<letters, text, pos, pieces, symbols, matched, tokens, at, decoded>>

\* No tokens, no array, or an element that is no string.
init_fails(f) == /\ stage = "init" /\ f.tokens_kind # "strings"
                 /\ stage' = "failed"
                 /\ UNCHANGED <<tables, text, pos, pieces, symbols, matched, tokens, at, decoded>>

-----------------------------------------------------------------------------
(* bpe: the symbols of a word in a list, merged by rank.  A symbol that    *)
(* was merged stays in the array, and the scan still visits it.            *)

Symbols(w) == [i \in DOMAIN w |-> [text |-> <<w[i]>>, prev |-> i - 1,
                                   next |-> IF i < Len(w) THEN i + 1 ELSE None]]

Pair(s, i)   == <<s[i].text, s[s[i].next].text>>
Ranked(s)    == {i \in DOMAIN s : s[i].next # None /\ Pair(s, i) \in DOMAIN bpe_ranks}
Rank(s, i)   == bpe_ranks[Pair(s, i)]

\* Mutant: <= in place of <.
best_last(s) == CHOOSE i \in Ranked(s) : \A k \in Ranked(s) :
                   Rank(s, i) < Rank(s, k) \/ (Rank(s, i) = Rank(s, k) /\ i >= k)

best(s) == CHOOSE i \in Ranked(s) : \A k \in Ranked(s) :
                   Rank(s, i) < Rank(s, k) \/ (Rank(s, i) = Rank(s, k) /\ i <= k)

\* Mutant: the merged symbol stays in the list.
relinked_not(s, i) == [s EXCEPT ![i].text = @ \o s[s[i].next].text, ![s[i].next].prev = Merged]

relinked(s, i) ==
    LET j == s[i].next
        k == s[j].next
    IN [x \in DOMAIN s |->
          CASE x = i -> [s[i] EXCEPT !.text = @ \o s[j].text, !.next = k]
            [] x = j -> [s[j] EXCEPT !.prev = Merged]
            [] x = k -> [s[k] EXCEPT !.prev = i]
            [] OTHER -> s[x]]

\* The texts from the first symbol without a predecessor on.
Chain(s) == LET from[i \in 0..Len(s)] == IF i = None THEN <<>> ELSE <<s[i].text>> \o from[s[i].next]
            IN from[Min({i \in DOMAIN s : s[i].prev = None})]

\* A text that is not in the vocabulary has no token.
Ids(texts) == LET known == SelectSeq(texts, LAMBDA t : t \in DOMAIN vocab_map)
              IN [i \in DOMAIN known |-> vocab_map[known[i]]]

bpe_begin == /\ stage = "encode" /\ symbols = <<>> /\ pieces # <<>>
             /\ symbols' = Symbols(bytes_to_unicode(Head(pieces)))
             /\ pieces' = Tail(pieces)
             /\ UNCHANGED <<stage, tables, text, pos, matched, tokens, at, decoded>>

bpe_merge == /\ stage = "encode" /\ symbols # <<>> /\ Ranked(symbols) # {}
             /\ symbols' = relinked(symbols, best(symbols))
             /\ UNCHANGED <<stage, tables, text, pos, pieces, matched, tokens, at, decoded>>

bpe_return == /\ stage = "encode" /\ symbols # <<>> /\ Ranked(symbols) = {}
              /\ tokens' = tokens \o Ids(Chain(symbols))
              /\ symbols' = <<>>
              /\ UNCHANGED <<stage, tables, text, pos, pieces, matched, at, decoded>>

-----------------------------------------------------------------------------
(* encode. *)

Occurs(t, q) == q + Len(t) - 1 <= Len(text) /\ SubSeq(text, q, q + Len(t) - 1) = t

\* Where an added token is found first, from pos on: 0 when nowhere.
found(t) == LET S == {q \in pos..Len(text) : Occurs(t, q)} IN IF S = {} THEN 0 ELSE Min(S)

idle == stage = "encode" /\ pieces = <<>> /\ symbols = <<>> /\ matched = NoMatch

encode(t, add_bos) == /\ stage = "ready"
                      /\ text' = t /\ pos' = 1
                      /\ tokens' = IF add_bos /\ bos_id >= 0 THEN <<bos_id>> ELSE <<>>
                      /\ stage' = "encode"
                      /\ UNCHANGED <<tables, pieces, symbols, matched, at, decoded>>

\* The added token found earliest, the first of the list when several are,
\* and the pieces before it.
encode_segment ==
    /\ idle /\ pos <= Len(text)
    /\ LET hits == {i \in DOMAIN added_tokens : found(added_tokens[i]) > 0}
           i == CHOOSE i \in hits : \A k \in hits :
                   \/ found(added_tokens[i]) < found(added_tokens[k])
                   \/ found(added_tokens[i]) = found(added_tokens[k]) /\ i <= k
       IN \/ /\ hits = {}
             /\ pieces' = pre_tokenize(SubSeq(text, pos, Len(text)))
             /\ pos' = Len(text) + 1
             /\ UNCHANGED matched
          \/ /\ hits # {}
             /\ LET earliest == found(added_tokens[i])
                IN /\ pieces' = pre_tokenize(SubSeq(text, pos, earliest - 1))
                   /\ matched' = vocab_map[added_tokens[i]]
                   /\ pos' = earliest + Len(added_tokens[i])
    /\ UNCHANGED <<stage, tables, text, symbols, tokens, at, decoded>>

push_matched == /\ stage = "encode" /\ pieces = <<>> /\ symbols = <<>> /\ matched # NoMatch
                /\ tokens' = Append(tokens, matched)
                /\ matched' = NoMatch
                /\ UNCHANGED <<stage, tables, text, pos, pieces, symbols, at, decoded>>

encode_end(add_eos) == /\ idle /\ pos > Len(text)
                       /\ tokens' = IF add_eos /\ eos_id >= 0 THEN Append(tokens, eos_id) ELSE tokens
                       /\ stage' = "decode"
                       /\ UNCHANGED <<tables, text, pos, pieces, symbols, matched, at, decoded>>

-----------------------------------------------------------------------------
(* decode. *)

Hex(cp) == CASE cp \in 48..57  -> cp - 48
             [] cp \in 97..102 -> cp - 87
             [] cp \in 65..70  -> cp - 55
             [] OTHER          -> 0

\* <0xHH> is one byte.
token_to_text(id) ==
    LET tok == vocab[id + 1]
    IN IF Len(Bytes(tok)) = 6 /\ SubSeq(tok, 1, 3) = <<60, 48, 120>> /\ Last(tok) = 62
       THEN <<Hex(tok[4]) * 16 + Hex(tok[5])>>
       ELSE unicode_to_bytes(tok)

\* vocab_ is not empty: encode returned an identifier of it.
decode_token == /\ stage = "decode" /\ at < Len(tokens)
                /\ tokens[at + 1] < Len(vocab) /\ tokens[at + 1] # eos_id
                /\ decoded' = decoded \o token_to_text(tokens[at + 1])
                /\ at' = at + 1
                /\ UNCHANGED <<stage, tables, text, pos, pieces, symbols, matched, tokens>>

decode_end == /\ stage = "decode"
              /\ \/ at = Len(tokens)
                 \/ /\ at < Len(tokens) /\ tokens[at + 1] < Len(vocab)
                    /\ tokens[at + 1] = eos_id
              /\ stage' = "done"
              /\ UNCHANGED <<tables, text, pos, pieces, symbols, matched, tokens, at, decoded>>

decode_fails == /\ stage = "decode" /\ at < Len(tokens) /\ tokens[at + 1] >= Len(vocab)
                /\ stage' = "failed"
                /\ UNCHANGED <<tables, text, pos, pieces, symbols, matched, tokens, at, decoded>>

-----------------------------------------------------------------------------
TokenizerInit == /\ stage = "init"
                 /\ vocab = <<>> /\ vocab_map = <<>> /\ bpe_ranks = <<>> /\ added_tokens = <<>>
                 /\ bos_id = -1 /\ eos_id = -1
                 /\ letters \in SUBSET {cp \in UNION {ToSet(t) : t \in Texts} : cp > 255}
                 /\ text = <<>> /\ pos = 1 /\ pieces = <<>> /\ symbols = <<>> /\ matched = NoMatch
                 /\ tokens = <<>> /\ at = 0 /\ decoded = <<>>

TokenizerNext ==
    \/ \E f \in Files : init(f) \/ init_fails(f)
    \/ \E t \in Texts, add_bos \in BOOLEAN : encode(t, add_bos)
    \/ encode_segment \/ bpe_begin \/ bpe_merge \/ bpe_return \/ push_matched
    \/ \E add_eos \in BOOLEAN : encode_end(add_eos)
    \/ decode_token \/ decode_end \/ decode_fails

TokenizerSpec == TokenizerInit /\ [][TokenizerNext]_tokVars

-----------------------------------------------------------------------------
(* What encoding and decoding mean, without the list and the positions.    *)

\* One merge of a sequence of symbols: the lowest rank, leftmost.
MergedOnce(w) ==
    LET p(i) == <<w[i], w[i + 1]>>
        S == {i \in 1..(Len(w) - 1) : p(i) \in DOMAIN bpe_ranks}
        low == {i \in S : \A k \in S : bpe_ranks[p(i)] <= bpe_ranks[p(k)]}
    IN IF S = {} THEN w
       ELSE LET i == Min(low)
            IN SubSeq(w, 1, i - 1) \o <<w[i] \o w[i + 1]>> \o SubSeq(w, i + 2, Len(w))

MergedFully(w) == LET m[n \in 0..Len(w)] == IF n = 0 THEN w ELSE MergedOnce(m[n - 1]) IN m[Len(w)]

WordIds(w) == Ids(MergedFully([i \in DOMAIN w |-> <<w[i]>>]))

\* The text cut at the leftmost, longest added tokens.
Segments ==
    LET here(q) == {t \in ToSet(added_tokens) : Occurs(t, q)}
        from[p \in 1..(Len(text) + 1)] ==
            LET hit == {q \in p..Len(text) : here(q) # {}}
                q == Min(hit)
                t == CHOOSE t \in here(q) : \A u \in here(q) : Len(u) <= Len(t)
            IN IF hit = {} THEN <<[added |-> FALSE, s |-> SubSeq(text, p, Len(text))]>>
               ELSE <<[added |-> FALSE, s |-> SubSeq(text, p, q - 1)], [added |-> TRUE, s |-> t]>>
                    \o from[q + Len(t)]
    IN from[1]

SegmentIds(g) == IF g.added THEN <<vocab_map[g.s]>>
                 ELSE FlattenSeq([i \in DOMAIN pre_tokenize(g.s) |->
                                    WordIds(bytes_to_unicode(pre_tokenize(g.s)[i]))])

\* encode returns what merging each piece by rank, and taking added tokens
\* leftmost and longest, gives: the symbols that bpe merged and still scans,
\* and the order in which it scans, do not show.
EncodesByRank ==
    idle /\ pos > Len(text) =>
        LET ids == FlattenSeq([i \in DOMAIN Segments |-> SegmentIds(Segments[i])])
        IN tokens \in {ids, <<bos_id>> \o ids}

\* Every symbol of the text and every result of a rule has a token, added
\* tokens are spelt as they decode, and only an added token ends a text.
Complete == /\ \A cp \in ToSet(bytes_to_unicode(text)) : <<cp>> \in DOMAIN vocab_map
            /\ \A r \in DOMAIN bpe_ranks : r[1] \o r[2] \in DOMAIN vocab_map
            /\ \A t \in ToSet(added_tokens) : unicode_to_bytes(t) = Bytes(t)
            /\ eos_id >= 0 => vocab[eos_id + 1] \in ToSet(added_tokens)
            /\ bos_id \in -1..(Len(vocab) - 1) /\ bos_id # eos_id

\* The text up to the first added token that ends it.
Said == LET n == {i \in DOMAIN Segments : eos_id >= 0 /\ Segments[i].s = vocab[eos_id + 1]}
            upto == IF n = {} THEN Segments ELSE SubSeq(Segments, 1, Min(n) - 1)
        IN FlattenSeq([i \in DOMAIN upto |-> upto[i].s])

\* What encode returns decodes to the text: pieces, symbols and merges lose
\* nothing and repeat nothing.
RoundTrips ==
    stage = "done" /\ Complete =>
        decoded \in {Bytes(Said)} \cup (IF bos_id < 0 THEN {} ELSE {token_to_text(bos_id) \o Bytes(Said)})
=============================================================================
