----------------------------- MODULE MCTokenizer -----------------------------
(***************************************************************************)
(* Vocabularies over a, b, space, newline, 1, <, |, >, ', s and a letter   *)
(* above 255, with rules that overlap; every short text over them.         *)
(***************************************************************************)
EXTENDS Tokenizer

G == 288          \* the symbol of a space
N == 266          \* the symbol of a newline
Omega == 937

\* "<|a|>", its prefix "<|", the end "<|s|>" and the start "|>s".
TokA == <<60, 124, 97, 124, 62>>
TokE == <<60, 124, 115, 124, 62>>
TokB == <<124, 62, 115>>
\* An added token that starts another: "<|a" is a prefix of "<|a|>".
TokP == <<60, 124, 97>>

Base == <<<<97>>, <<98>>, <<G>>, <<N>>, <<49>>, <<60>>, <<124>>, <<62>>, <<39>>, <<115>>, <<206>>, <<169>>>>

Results == <<<<97, 98>>, <<98, 97>>, <<97, 97>>, <<97, 98, 97>>, <<G, 97>>, <<98, 97, 98>>, <<206, 169>>>>

Full == [tokens_kind |-> "strings",
         tokens |-> Base \o Results \o <<TokA, TokP, TokB, TokE, <<97>>>>,
         merges |-> <<<<97, 32, 97>>, <<98, 32, 97>>, <<97, 32, 98>>, <<97, 98, 32, 97>>,
                      <<98, 32, 97, 98>>, <<97>>, <<G, 32, 97>>, <<206, 32, 169>>>>,
         bos |-> 21, eos |-> 22]

\* A byte token, spaces in an added token, no token for a result, a rule
\* given twice, and a start that is no token.
Partial == [tokens_kind |-> "strings",
            tokens |-> Base \o <<<<60, 48, 120, 52, 49, 62>>, <<97, 32, 97>>, <<98, 97>>, <<G, 49>>>>,
            merges |-> <<<<97, 32, 98>>, <<98, 32, 97>>, <<97, 32, 98>>>>,
            bos |-> 99, eos |-> -1]

MCFiles == {Full, Partial} \cup {[tokens_kind |-> k] : k \in {"absent", "scalar", "numbers"}}

Words(S, n) == UNION {[1..m -> S] : m \in 0..n}

MCTexts == Words({97, 98}, 5) \cup Words({97, 32, 10, 49, 60, 39, 115}, 3)
           \cup {<<97>> \o TokA \o <<98>>, TokP \o TokE \o <<97>>, <<32>> \o TokA \o TokB,
                 <<Omega, 97>>, <<32, Omega, 98>>, <<49, 49, 49, 49, Omega>>, <<39, 83, 97>>,
                 <<39, 114, 101>>, <<32, 60, 60, 10, 10, 97>>, <<32, 32, 10, 10, 32, 97>>, <<G, 49>>,
                 <<97, 32, 97, 98>>, <<60, 48, 120, 52, 49, 62>>}
=============================================================================
