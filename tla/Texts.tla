------------------------------- MODULE Texts --------------------------------
(* The tasks that read text: c_basic's normalize-path and mystrcmp,          *)
(* c_advanced's utf-wc and func-table, asm_2's anagram,                      *)
(* the reading of a file by checkers, from nejudge/include/checker.h, and    *)
(* the blocks that read-file-fd/sha256.c cuts a file into.                   *)
(* A run is one step from the text to the answer.  A character is a number,  *)
(* its byte; a C string is a sequence whose last element is 0.               *)
EXTENDS Integers, Sequences, FiniteSets

CONSTANTS Lines,        \* the runs: records of a task and one or two texts
          FirstCapacity, \* 16, the first size of a token's buffer; for checkers
                        \* 1024 bytes and 128 lines
          Table,        \* the names in func-table's function_table
          BlockSize     \* 64, of sha256.c, and eight times that of the length in it

VARIABLES task, args,
          answer        \* <<>> until the program ends

vars == <<task, args, answer>>

Slash == 47
Space == 32
NewLine == 10
IsSpace(c) == c \in {Space} \cup 9..13

Bytes == 0..255
Strings == {s \in Seq(Bytes) : s # <<>> /\ \A k \in DOMAIN s : s[k] = 0 <=> k = Len(s)}

\* One sequence after the other.
Joined(seqs) ==
    LET joined[n \in 0..Len(seqs)] == IF n = 0 THEN <<>> ELSE joined[n - 1] \o seqs[n]
    IN  joined[Len(seqs)]

\* The number that the bytes of s are in base 256.
Base256(s) ==
    LET value[n \in 0..Len(s)] == IF n = 0 THEN 0 ELSE 256 * value[n - 1] + s[n]
    IN  value[Len(s)]

\* UTF-8: a code point as its bytes.
CodePoints == {cp \in Nat : cp < 1114112}
Encode(cp) ==
    CASE cp < 128 -> <<cp>>
      [] cp >= 128 /\ cp < 2048 -> <<192 + cp \div 64, 128 + (cp % 64)>>
      [] cp >= 2048 /\ cp < 65536 -> <<224 + cp \div 4096, 128 + ((cp \div 64) % 64), 128 + (cp % 64)>>
      [] OTHER -> <<240 + cp \div 262144, 128 + ((cp \div 4096) % 64),
                    128 + ((cp \div 64) % 64), 128 + (cp % 64)>>

LengthSize == BlockSize \div 8
DataSize == BlockSize - LengthSize

\* What the bytes of the length in a block can tell apart.
Lengths == Base256([k \in 1..LengthSize |-> 255]) + 1

TextTasks == {"normalize-path", "mystrcmp", "utf-wc", "anagram", "checker", "func-table",
              "sha256"}
TextsAssumption ==
    /\ FirstCapacity \in Nat \ {0} /\ BlockSize \in Nat /\ BlockSize >= 8
    /\ \A t \in Lines :
          \/ t.task = "normalize-path" /\ t.args[1] \in Strings
          \/ t.task = "mystrcmp" /\ t.args \in Strings \X Strings
          \/ /\ t.task = "utf-wc" /\ t.args[2] \in Seq(CodePoints)
             /\ t.args[1] = Joined([k \in DOMAIN t.args[2] |-> Encode(t.args[2][k])])
          \/ t.task = "anagram" /\ t.args \in Seq(Bytes) \X Seq(Bytes)
          \/ t.task \in {"checker", "func-table"} /\ t.args[1] \in Seq(Bytes \ {0})
          \/ /\ t.task = "sha256" /\ t.args[1] \in Seq(Bytes)
             /\ 8 * Len(t.args[1]) < Lengths

-----------------------------------------------------------------------------
\* normalize_path: the string is rewritten in place; write never passes read,
\* which never passes the 0.
Rewriting ==
    {s \in [mem : Seq(Nat), read : Nat, write : Nat \ {0}, prev_was_slash : BOOLEAN] :
       s.write <= s.read /\ \E k \in s.read..Len(s.mem) : s.mem[k] = 0}
normalize_path(string) ==
    LET step[s \in Rewriting] ==
            LET c == s.mem[s.read]
                stored == [s.mem EXCEPT ![s.write] = c]
            IN  CASE c = 0 -> stored
                  [] c = Slash /\ s.prev_was_slash -> step[[s EXCEPT !.read = @ + 1]]
                  [] OTHER -> step[[mem |-> stored, read |-> s.read + 1, write |-> s.write + 1,
                                    prev_was_slash |-> c = Slash]]
    IN  step[[mem |-> string, read |-> 1, write |-> 1, prev_was_slash |-> FALSE]]

\* mystrcmp, where char is signed: the strings differ by the first bytes that
\* do, compared unsigned; only the sign is printed.
mystrcmp(str1, str2) ==
    LET stop == CHOOSE k \in DOMAIN str1 :
                   /\ \/ str1[k] = 0 \/ str2[k] = 0 \/ str1[k] # str2[k]
                   /\ \A j \in 1..k-1 : str1[j] = str2[j] /\ str1[j] # 0
        r == str1[stop] - str2[stop]
    IN  CASE r < 0 -> -1 [] r = 0 -> 0 [] r > 0 -> 1

\* The bytes of a character that starts with b0, itself included.
Length(b0) == CASE b0 < 128 -> 1
                [] b0 \div 32 = 6 -> 2
                [] b0 \div 16 = 14 -> 3
                [] OTHER -> 4

\* The code point at k: the low bits of the first byte, then six of each other.
Low(s, k, n) == (s[k + n] % 64)
CodePoint(s, k) ==
    CASE Length(s[k]) = 1 -> s[k]
      [] Length(s[k]) = 2 -> 64 * (s[k] % 32) + Low(s, k, 1)
      [] Length(s[k]) = 3 -> 64 * (64 * (s[k] % 16) + Low(s, k, 1)) + Low(s, k, 2)
      [] Length(s[k]) = 4 -> 64 * (64 * (64 * (s[k] % 8) + Low(s, k, 1)) + Low(s, k, 2))
                             + Low(s, k, 3)

Cyrillic(cp) == cp >= 1024 /\ cp <= 1279

\* utf-wc: how many characters, and how many Cyrillic ones.
utf_wc(s) ==
    LET count[r \in [next : Nat, codepoints : Nat, cyrillic : Nat]] ==
            IF r.next > Len(s) THEN <<r.codepoints, r.cyrillic>>
            ELSE count[[next |-> r.next + Length(s[r.next]), codepoints |-> r.codepoints + 1,
                        cyrillic |-> IF Cyrillic(CodePoint(s, r.next)) THEN r.cyrillic + 1
                                     ELSE r.cyrillic]]
    IN  count[[next |-> 1, codepoints |-> 0, cyrillic |-> 0]]

\* anagram: one counter per byte, up for the first line and down for the second.
Lower(c) == IF c \in 65..90 THEN c + 32 ELSE c
Counted(s, c) == Cardinality({k \in DOMAIN s : s[k] # Space /\ Lower(s[k]) = c})
anagram(line1, line2) == \A c \in Bytes : Counted(line1, c) - Counted(line2, c) = 0

\* Mutated: no place is kept for the final 0.
CapacityForToken(len, cap) == IF len >= cap THEN cap * 2 ELSE cap

\* What the buffer of a token grows to before a character is stored after len.
Capacity(len, cap) == IF len + 1 >= cap THEN cap * 2 ELSE cap

\* The C string in a piece of memory.
String(mem) ==
    SubSeq(mem, 1, (CHOOSE k \in DOMAIN mem : mem[k] = 0 /\ \A j \in 1..k-1 : mem[j] # 0) - 1)

\* The first place from k on that holds no white space, or is past the end.
Solid(s, k) ==
    CHOOSE n \in k..k+Len(s) : /\ n > Len(s) \/ ~IsSpace(s[n])
                               /\ \A j \in k..n-1 : j <= Len(s) /\ IsSpace(s[j])

\* read_token: skips white space, then stores characters up to the next white
\* space, which it takes too.  It returns the token, its buffer's size and
\* where the next one is looked for; no token at the end of the input.
read_token(s, from) ==
    LET store[r \in [token : Seq(Nat), cap : Nat, next : Nat \ {0}]] ==
            IF r.next > Len(s) \/ IsSpace(s[r.next])
            THEN [token |-> Append(r.token, 0), cap |-> r.cap, next |-> r.next + 1]
            ELSE store[[token |-> Append(r.token, s[r.next]),
                        cap |-> Capacity(Len(r.token), r.cap), next |-> r.next + 1]]
    IN  IF Solid(s, from) > Len(s) THEN <<>>
        ELSE <<store[[token |-> <<>>, cap |-> FirstCapacity, next |-> Solid(s, from)]]>>

\* scanf of a number, as far as it goes: white space, then digits.  It returns
\* where it stops, 0 when there is no number.
IsDigit(c) == c \in 48..57
scan_number(s, from) ==
    LET start == Solid(s, from)
    IN  IF start > Len(s) \/ ~IsDigit(s[start]) THEN 0
        ELSE CHOOSE n \in start..Len(s)+1 : /\ n > Len(s) \/ ~IsDigit(s[n])
                                            /\ \A j \in start..n-1 : IsDigit(s[j])

\* func-table: names and numbers in turn; for each pair the value of the named
\* function is printed, or nan, until a name or a number is missing.
func_table(s) ==
    LET read[from \in Nat \ {0}] ==
            LET r == read_token(s, from)
                stop == scan_number(s, r[1].next)
                line(printed) == <<[name |-> r[1].token, cap |-> r[1].cap, out |-> printed]>>
            IN  IF r = <<>> THEN <<>>
                ELSE IF stop = 0 THEN line("none")
                ELSE line(IF String(r[1].token) \in Table THEN "value" ELSE "nan") \o read[stop]
    IN  read[1]

\* checker_read_file_by_line: the lines, each with its newline and the final 0,
\* and the sizes of the line buffer, which is kept from one line to the next,
\* and of the array of lines, which ends with NULL.  No byte is 0.
by_line(s) ==
    LET read[r \in [next : Nat \ {0}, b : Seq(Nat), b_a : Nat, lines : Seq(Seq(Nat)), lb_a : Nat]] ==
            CASE r.next > Len(s) /\ r.b = <<>> ->
                    [lines |-> r.lines, b_a |-> r.b_a, lb_a |-> r.lb_a]
              [] r.next <= Len(s) /\ (r.b = <<>> \/ r.b[Len(r.b)] # NewLine) ->
                    read[[next |-> r.next + 1, b |-> Append(r.b, s[r.next]),
                          b_a |-> Capacity(Len(r.b), r.b_a), lines |-> r.lines, lb_a |-> r.lb_a]]
              [] OTHER ->
                    read[[next |-> r.next, b |-> <<>>, b_a |-> r.b_a,
                          lines |-> Append(r.lines, Append(r.b, 0)),
                          lb_a |-> Capacity(Len(r.lines), r.lb_a)]]
    IN  read[[next |-> 1, b |-> <<>>, b_a |-> FirstCapacity,
              lines |-> <<>>, lb_a |-> FirstCapacity]]

\* checker_normalize_file: white space goes from the ends of the lines, and
\* empty lines from the end of the file.
LastOf(S) == CHOOSE n \in S \cup {0} : \A k \in S : k <= n
normalize_file(lines) ==
    LET short == [n \in DOMAIN lines |->
                    SubSeq(lines[n], 1, LastOf({k \in DOMAIN lines[n] :
                       lines[n][k] # 0 /\ ~IsSpace(lines[n][k])}))]
    IN  SubSeq(short, 1, LastOf({n \in DOMAIN short : short[n] # <<>>}))

\* sha256_init, sha256_update and sha256_final as far as the arguments of
\* sha256_transform: the buffer keeps its old bytes until they are overwritten.
sha256_update(s) ==
    LET feed[r \in [next : Nat \ {0}, data : [1..BlockSize -> Int], datalen : 0..BlockSize-1,
                    blocks : Seq(Seq(Int))]] ==
            LET stored == [r.data EXCEPT ![r.datalen + 1] = s[r.next]]
            IN  CASE r.next > Len(s) ->
                        [data |-> r.data, datalen |-> r.datalen,
                         bitlen |-> 8 * BlockSize * Len(r.blocks), blocks |-> r.blocks]
                  [] r.next <= Len(s) /\ r.datalen + 1 < BlockSize ->
                        feed[[next |-> r.next + 1, data |-> stored, datalen |-> r.datalen + 1,
                              blocks |-> r.blocks]]
                  [] OTHER -> feed[[next |-> r.next + 1, data |-> stored, datalen |-> 0,
                                    blocks |-> Append(r.blocks, stored)]]
    IN  feed[[next |-> 1, data |-> [k \in 1..BlockSize |-> -1], datalen |-> 0, blocks |-> <<>>]]

\* The k-th byte of the length: n, shifted by 8 bits for every byte behind it.
LengthByte(n, k) ==
    LET shifted[j \in 0..LengthSize] == IF j = 0 THEN n ELSE shifted[j - 1] \div 256
    IN  (shifted[LengthSize - k] % 256)

sha256_final(ctx) ==
    LET fits == ctx.datalen < DataSize
        padded == [k \in 1..BlockSize |->
                     CASE k = ctx.datalen + 1 -> 128
                       [] k > ctx.datalen + 1 /\ (fits => k <= DataSize) -> 0
                       [] OTHER -> ctx.data[k]]
        bitlen == (ctx.bitlen + 8 * ctx.datalen) % Lengths
        last == [k \in 1..BlockSize |->
                   CASE k > DataSize -> LengthByte(bitlen, k - DataSize)
                     [] k <= DataSize -> IF fits THEN padded[k] ELSE 0]
    IN  ctx.blocks \o (IF fits THEN <<last>> ELSE <<padded, last>>)

-----------------------------------------------------------------------------
Init == /\ \E t \in Lines : task = t.task /\ args = t.args
        /\ answer = <<>>

Given(t) == task = t /\ answer = <<>> /\ UNCHANGED <<task, args>>

Next == \/ Given("normalize-path") /\ answer' = <<normalize_path(args[1])>>
        \/ Given("mystrcmp") /\ answer' = <<mystrcmp(args[1], args[2])>>
        \/ Given("utf-wc") /\ answer' = <<utf_wc(args[1])>>
        \/ Given("anagram") /\ answer' = <<anagram(args[1], args[2])>>
        \/ /\ Given("checker")
           /\ \E f \in {by_line(args[1])} : answer' = <<f, normalize_file(f.lines)>>
        \/ Given("func-table") /\ answer' = <<func_table(args[1])>>
        \/ /\ Given("sha256")
           /\ \E ctx \in {sha256_update(args[1])} :
                 \E blocks \in {sha256_final(ctx)} : answer' = <<blocks>>

Spec == Init /\ [][Next]_vars
-----------------------------------------------------------------------------
Answered(t) == task = t /\ answer # <<>>

\* The characters of s at the positions in P.
At(s, P) ==
    LET at[n \in 0..Len(s)] == IF n = 0 THEN <<>>
                               ELSE IF n \in P THEN Append(at[n - 1], s[n]) ELSE at[n - 1]
    IN  at[Len(s)]

\* Of each run of slashes the first is left.
PathRight ==
    Answered("normalize-path") =>
        LET s == String(args[1])
        IN  String(answer[1]) =
               At(s, {k \in DOMAIN s : s[k] = Slash /\ k > 1 => s[k - 1] # Slash})

\* The order of the strings is that of the fractions whose digits they are, or of
\* the numbers when they are filled up with zeros.
Filled(str, n) == [k \in 1..n |-> IF k < Len(str) THEN str[k] ELSE 0]
ComparedRight ==
    Answered("mystrcmp") =>
        LET n == IF Len(args[1]) > Len(args[2]) THEN Len(args[1]) ELSE Len(args[2])
            d == Base256(Filled(args[1], n)) - Base256(Filled(args[2], n))
        IN  (answer[1] > 0) = (d > 0) /\ (answer[1] < 0) = (d < 0)

\* All code points that the bytes encode are counted, and those in the
\* Cyrillic block.
CodePointsRight ==
    Answered("utf-wc") =>
        answer[1] = <<Len(args[2]), Cardinality({k \in DOMAIN args[2] : args[2][k] \in 1024..1279})>>

\* The letters of one line can be matched, each with an equal one, with those of
\* the other.
Letters(s) == {k \in DOMAIN s : s[k] # Space}
AnagramRight ==
    Answered("anagram") =>
        (answer[1] =
           \E match \in [Letters(args[1]) -> Letters(args[2])] :
              /\ \A j, k \in Letters(args[1]) : match[j] = match[k] => j = k
              /\ \A k \in Letters(args[2]) : \E j \in Letters(args[1]) : match[j] = k
              /\ \A k \in Letters(args[1]) : Lower(args[1][k]) = Lower(args[2][match[k]]))

\* The words between white space.
Words(s) ==
    LET words[n \in 0..Len(s)] ==
            IF n = 0 THEN <<>>
            ELSE LET before == words[n - 1]
                 IN  IF IsSpace(s[n]) THEN before
                     ELSE IF n = 1 \/ IsSpace(s[n - 1]) THEN Append(before, <<s[n]>>)
                     ELSE [before EXCEPT ![Len(before)] = Append(@, s[n])]
    IN  words[Len(s)]

\* A line for every pair of a name and a number, the name in a buffer that has
\* room for it and the final 0.
FunctionsRight ==
    Answered("func-table") =>
        LET lines == answer[1]
            words == Words(args[1])
        IN  /\ \A k \in DOMAIN lines : Len(lines[k].name) <= lines[k].cap
            /\ (\A k \in DOMAIN words : k % 2 = 0 => \A n \in DOMAIN words[k] : IsDigit(words[k][n]))
                  => /\ Len(lines) = (Len(words) + 1) \div 2
                     /\ \A k \in DOMAIN lines :
                           /\ String(lines[k].name) = words[2 * k - 1]
                           /\ lines[k].out = "none" <=> 2 * k > Len(words)
                           /\ lines[k].out = "nan" => words[2 * k - 1] \notin Table
                           /\ lines[k].out = "value" => words[2 * k - 1] \in Table

\* A checker's lines are the file, each up to a newline, in buffers that have room;
\* what it compares is the lines without the white space at their ends, and
\* without those at the end of the file of which nothing is left.
LinesRight ==
    Answered("checker") =>
        LET lines == [k \in DOMAIN answer[1].lines |-> String(answer[1].lines[k])]
            short == answer[2]
        IN  /\ Joined(lines) = args[1]
            /\ \A k \in DOMAIN lines : \A n \in DOMAIN lines[k] :
                  IF n < Len(lines[k]) THEN lines[k][n] # NewLine
                  ELSE lines[k][n] = NewLine \/ k = Len(lines)
            /\ \A k \in DOMAIN lines : lines[k] # <<>> /\ Len(lines[k]) < answer[1].b_a
            /\ Len(lines) < answer[1].lb_a
            /\ Len(short) <= Len(lines)
            /\ \A k \in DOMAIN lines :
                  LET kept == IF k <= Len(short) THEN short[k] ELSE <<>>
                  IN  /\ Len(kept) <= Len(lines[k]) /\ kept = SubSeq(lines[k], 1, Len(kept))
                      /\ kept # <<>> => ~IsSpace(kept[Len(kept)])
                      /\ \A n \in Len(kept)+1..Len(lines[k]) : IsSpace(lines[k][n])
            /\ short # <<>> => short[Len(short)] # <<>>

\* The blocks of a checksum are the file, one bit, as few zeros as fill the last
\* block, and the length in bits.
BlocksRight ==
    Answered("sha256") =>
        LET text == Joined(answer[1])
            end == Len(text) - LengthSize     \* where the length begins
        IN  /\ Len(text) = BlockSize * Len(answer[1]) /\ end > Len(args[1])
            /\ end - Len(args[1]) <= BlockSize
            /\ SubSeq(text, 1, Len(args[1]) + 1) = Append(args[1], 128)
            /\ \A k \in Len(args[1])+2..end : text[k] = 0
            /\ Base256(SubSeq(text, end + 1, Len(text))) = 8 * Len(args[1])

\* Every program prints what its task defines.
TextsRight == /\ PathRight /\ ComparedRight /\ CodePointsRight /\ AnagramRight
              /\ FunctionsRight /\ LinesRight /\ BlocksRight
=============================================================================
