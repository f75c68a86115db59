----------------------------- MODULE MCPrograms -----------------------------
(* An instance of Programs.  binary-tree: every search tree of three nodes,  *)
(* the records of its nodes in any order after the root's, a larger tree     *)
(* with a record that is not part of it, and the same files cut short.       *)
(* write-char: an output buffer of three bytes, filled in the middle of a    *)
(* read and across two.  binary-search: every array of up to five of the     *)
(* numbers around 40, in the order main asserts.  binary-reverse: a 2-bit x  *)
(* and a 3-bit y.  The style check: up to two files, and pipes that hold     *)
(* less than clang-format prints but all its errors.                         *)
EXTENDS Programs, SequencesExt

Node(k, l, r) == [key |-> k, left_idx |-> l, right_idx |-> r]

\* The keys below an index of a file of three records.
Below(f, k) ==
    LET more(S) == S \cup UNION {{f[n + 1].left_idx, f[n + 1].right_idx} : n \in S}
    IN  IF k = 0 THEN {} ELSE more(more({k})) \ {0}

\* No node has two parents, and descendants are on the side of their keys.
SearchTree(f) ==
    /\ \A m, n \in 1..3 : m # n =>
          {f[m].left_idx, f[m].right_idx} \cap {f[n].left_idx, f[n].right_idx}
            \subseteq {0}
    /\ \A n \in 1..3 : /\ \A d \in Below(f, f[n].left_idx) : f[d + 1].key < f[n].key
                      /\ \A d \in Below(f, f[n].right_idx) : f[d + 1].key > f[n].key

Trees ==
    {f \in [1..3 -> {Node(k, l, r) : k \in 1..3, l \in 0..2, r \in 0..2}] :
       /\ {f[n].key : n \in 1..3} = 1..3
       /\ SearchTree(f)}

Larger == <<Node(4, 2, 5), Node(9, 0, 0), Node(2, 3, 4), Node(1, 0, 0),
            Node(3, 0, 0), Node(6, 6, 7), Node(5, 0, 0), Node(7, 0, 0)>>

Cut(f) == SubSeq(f, 1, Len(f) - 1)

SmallFiles == LET whole == Trees \cup {Larger} IN whole \cup {Cut(f) : f \in whole}

BoundedInputs == BoundedSeq(Byte, 3) \cup {[k \in 1..n |-> 1 + (k % 2)] : n \in 4..7}

\* With four bits: every pair to add or average, every root, small powers and
\* products in the signed range, and one or two rows.
Few == {-8, -3, 0, 1, 2, 3, 7}
Ask(name, asked) == {[task |-> name, args |-> a] : a \in asked}
FewQuestions ==
    Ask("satsum", (0..15) \X (0..15)) \cup Ask("average", (0..15) \X (0..15))
    \cup Ask("fib-root", {<<x>> : x \in 0..15})
    \cup Ask("pow", (-8..7) \X (-2..7))
    \cup Ask("whole-mul", {Append(s, -1) : s \in BoundedSeq(Few, 3)})
    \cup LET rows == {Append(s, -1) : s \in BoundedSeq({-8, -3, 0, 7}, 2) \ {<<>>}}
         IN  Ask("double-loop", {<<1>> \o r : r \in rows}
                                \cup {<<2>> \o q \o r : q, r \in rows})
    \cup Ask("simpleasan", {<<n>> : n \in 1..13})

\* Paths and words of up to six characters, strings and lines of up to two;
\* characters at the ends of their ranges.
Zero(s) == Append(s, 0)
Pairs(S) == S \X S
Points == {10, 127, 128, 1023, 1024, 1279, 1280, 2047, 2048, 65535, 65536, 1114111}

\* UTF-8, apart from Texts, with which TextsAssumption compares it.
Bytes(cp) ==
    LET low(k) == 128 + ((cp \div 64 ^ k) % 64)
    IN  CASE cp < 128 -> <<cp>>
          [] cp \in 128..2047 -> <<192 + cp \div 64, low(0)>>
          [] cp \in 2048..65535 -> <<224 + cp \div 4096, low(1), low(0)>>
          [] OTHER -> <<240 + cp \div 262144, low(2), low(1), low(0)>>

OneName == {<<97, 97>>}
FewLines ==
    Ask("normalize-path", {<<Zero(s)>> : s \in BoundedSeq({47, 97}, 6)})
    \cup Ask("mystrcmp", Pairs({Zero(s) : s \in BoundedSeq({1, 127, 255}, 2)}))
    \cup Ask("utf-wc", {<<FlattenSeq([k \in DOMAIN cps |-> Bytes(cps[k])]), cps>> :
                          cps \in BoundedSeq(Points, 2)})
    \cup Ask("anagram", Pairs(BoundedSeq({32, 64, 65, 97, 90}, 2)))
    \cup Ask("func-table", {<<s>> : s \in BoundedSeq({32, 49, 97}, 6)})
    \cup Ask("sha256", {<<[k \in 1..n |-> k]>> : n \in 0..17})
    \cup Ask("checker", {<<s>> : s \in BoundedSeq({32, 10, 97}, 6)})

\* Files of up to three records, mixing signs and the extremes of y.
FewRecordFiles == BoundedSeq({<<1, 3>>, <<3, 2>>, <<2, 4>>, <<0, 7>>}, 3)
                  \cup [1..4 -> {<<1, 0>>, <<3, 3>>}]
SmallFactors == -2..2

Source(isTidy, works, plain, text) ==
    [kind |-> "source", tidy |-> isTidy, works |-> works, plain |-> plain, text |-> text,
     lines |-> IF works THEN 3 ELSE 0, errors |-> IF works THEN 1 ELSE 2]
Other(kind, text) == [Source(FALSE, TRUE, TRUE, text) EXCEPT !.kind = kind]
FewSources ==
    BoundedSeq({Source(t, w, TRUE, x) : t, w \in BOOLEAN, x \in {{}, {"goto"}, {"main"}}}
               \cup {Source(TRUE, TRUE, FALSE, {"main"}), Other("other", {"goto"}),
                     Other("other", {"main"}), Other("ignored", {"goto", "main"})}, 2)
FewRules == [skip : BOOLEAN, supported : BOOLEAN, banned : {{}, {"goto"}}, required : {{}, {"main"}}]

\* "A=B", "A=", "=A", "AB", "A=B=A B=A" and two quoted ones, one not closed.
Entry(key, value) == [key |-> key, value |-> value]
EnvValues == {<<97, 61, 98>>, <<97, 61>>, <<61, 97>>, <<97, 98>>,
            <<97, 61, 98, 61, 97, 32, 98, 61, 97>>,
            <<34, 97, 61, 98, 32, 97, 34>>, <<34, 97, 61, 98>>, <<32>>}
EnvEntries == {Entry(k, v) : k \in {"environ", "compiler_env", "interactor_env"}, v \in EnvValues}
OtherEntries ==
    {Entry(k, v) : k \in {"check_stderr", "params", "exit_code", "time_limit_ms",
                          "real_time_limit_ms", "max_process_count", "comment", "colour"},
                   v \in {<<49>>, <<50, 32>>}}
    \cup {Entry(k, <<-1>>) : k \in {"check_stderr", "enable_subst", "params"}}
FewInfFiles ==
    {<<<<>>, <<e, f>>>> : e, f \in EnvEntries \cup OtherEntries}
    \cup {<<<<e>>, <<f>>>> : e, f \in EnvEntries}
    \cup {<<<<e>>, <<f>>>> : e, f \in {o \in OtherEntries : o.value # <<-1>>}}
    \cup {<<<<e>>, <<f, g>>>> : e, f, g \in {v \in EnvEntries : v.key = "environ"}}
=============================================================================
