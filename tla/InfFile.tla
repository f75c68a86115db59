------------------------------ MODULE InfFile -------------------------------
(* parse_inf_file of nejudge/test.py: what is known of a test, from the      *)
(* judge's environment (EJ_META_...) and then from the lines of its .inf     *)
(* file, one entry after the other, until the end or an exception.  A value  *)
(* is a sequence of characters, each of them a number.                       *)
EXTENDS Integers, Sequences, FiniteSets, SequencesExt

CONSTANTS InfFiles     \* pairs of sequences of entries: the environment's and
                       \* the file's

Line == [key : STRING, value : Seq(Int)]

InfAssumption == InfFiles \subseteq Seq(Line) \X Seq(Line)

VARIABLES inf,         \* the pair that is parsed
          entry,       \* the number of the next entry, counted through both
          words,       \* the words NAME=value of the last one not yet parsed
          meta         \* the dictionary so far; raised, once an exception has been

vars == <<inf, entry, words, meta>>

\* The key of an environment's entry is the end of its name, in small letters.
\* A line that is a key alone has this value; a blank one, and one that ends
\* in ` =`, does nothing and is not among the entries.  Times are numbers; no
\* time limit stands for EJUDGE_REAL_TIME_LIMIT_MS.
Alone == <<-1>>

Equals == 61
Quote == 34
IsSpace(c) == c = 32 \/ c \in 9..13

Flags == {"enable_subst", "check_stderr", "disable_valgrind"}
Limits == {"max_process_count", "max_open_file_count", "max_vm_size", "max_rss_size"}
Once == {"params", "exit_code"}
Times == {"time_limit_ms", "real_time_limit_ms"}
EnvKeys == {"environ", "compiler_env", "interactor_env"}

\* Python's val.find('='), val.strip(), val.split() and val[from:to], where a
\* negative index counts from the end.
find(val) == SelectInSeq(val, LAMBDA c : c = Equals) - 1

Solid(val) == {k \in DOMAIN val : ~IsSpace(val[k])}

strip(val) == IF Solid(val) = {} THEN <<>>
              ELSE SubSeq(val, Min(Solid(val)), Max(Solid(val)))

Starts(val) == {k \in Solid(val) : k - 1 \notin Solid(val)}
Ordinal(val, k) == Cardinality({j \in Starts(val) : j <= k})
StartOf(val, w) == CHOOSE k \in Starts(val) : Ordinal(val, k) = w
Ends(val, k) == {e \in Solid(val) : e >= k /\ e + 1 \notin Solid(val)}
split(val) == [w \in 1..Cardinality(Starts(val)) |->
                 LET k == StartOf(val, w) IN SubSeq(val, k, Min(Ends(val, k)))]

slice(val, from, to) ==
    LET index(k) == IF k >= 0 THEN k ELSE Len(val) + k
    IN  SubSeq(val, index(from) + 1, index(to))

-----------------------------------------------------------------------------
NewDictionary ==
    [raised |-> FALSE, flags |-> {}, time_limit |-> <<>>,
     given |-> [key \in {"max_process_count"} |-> <<50>>],   \* limits, params, exit_code
     environ |-> [name \in {} |-> <<>>], interactor_env |-> [name \in {} |-> <<>>]]

Raise(d) == [d EXCEPT !.raised = TRUE]

\* env[name] = value; compiler_env goes with environ.
Put(env, name, value) == [n \in DOMAIN env \cup {name} |-> IF n = name THEN value ELSE env[n]]
Target(key) == IF key = "interactor_env" THEN key ELSE "environ"
PutIn(d, key, name, value) == [d EXCEPT ![Target(key)] = Put(@, name, value)]

parse_word(d, key, val) ==
    LET eq == find(val)
    IN  IF eq = 0 THEN Raise(d)
        ELSE PutIn(d, key, slice(val, 0, eq), slice(val, eq + 1, Len(val)))

\* "NAME=value" with blanks in the value; its first character being the quote,
\* find never returns 0 here and only the other quote is tested.
parse_quoted(d, key, val) ==
    LET eq == find(val)
    IN  IF Last(val) # Quote THEN Raise(d)
        ELSE PutIn(d, key, slice(val, 1, eq), slice(val, eq + 1, -1))

IsQuoted(val) == val # <<>> /\ val[1] = Quote

\* What an entry does before its words are parsed.  A key alone is a flag.
Unfit(e) == (e.value = Alone) # (e.key \in Flags)

parse_param(d, e) ==
    IF Unfit(e) THEN Raise(d)
    ELSE CASE e.key \in Flags -> [d EXCEPT !.flags = @ \cup {e.key}]
           [] e.key \in Limits -> [d EXCEPT !.given = Put(@, e.key, e.value)]
           [] e.key \in Once -> IF e.key \in DOMAIN d.given THEN Raise(d)
                                ELSE [d EXCEPT !.given = Put(@, e.key, e.value)]
           [] e.key \in Times -> [d EXCEPT !.time_limit = e.value]
           [] e.key \in EnvKeys ->
                 IF IsQuoted(e.value) THEN parse_quoted(d, e.key, e.value) ELSE d
           [] e.key = "comment" -> d
           [] OTHER -> Raise(d)

Stripped(file) == [k \in DOMAIN file |-> [file[k] EXCEPT !.value = strip(@)]]

\* Mutated: the environment has the last word.
OrderFileFirst(environment, file) == Stripped(file) \o environment

Order(environment, file) == environment \o Stripped(file)

Entries == Order(inf[1], inf[2])

Raised == meta.raised
Parsed == Raised \/ (words = <<>> /\ entry > Len(Entries))

-----------------------------------------------------------------------------
Init == inf \in InfFiles /\ entry = 1 /\ words = <<>> /\ meta = NewDictionary

\* One entry of the environment, or one line.
Entry ==
    /\ ~Raised /\ words = <<>> /\ entry <= Len(Entries)
    /\ \E e \in {Entries[entry]} :
          /\ meta' = parse_param(meta, e)
          /\ words' = IF e.key \in EnvKeys /\ ~IsQuoted(e.value) THEN split(e.value) ELSE <<>>
    /\ entry' = entry + 1
    /\ UNCHANGED inf

Word ==
    /\ ~Raised /\ words # <<>>
    /\ meta' = parse_word(meta, Entries[entry - 1].key, Head(words))
    /\ words' = Tail(words)
    /\ UNCHANGED <<inf, entry>>

Next == Entry \/ Word

Spec == Init /\ [][Next]_vars /\ WF_vars(Next)
-----------------------------------------------------------------------------
All == inf[1] \o Stripped(inf[2])
With(keys) == {k \in DOMAIN All : All[k].key \in keys}
LastOf(keys, default) == IF With(keys) = {} THEN default ELSE All[Max(With(keys))].value

\* The definitions an entry of the environment kind is made of, unquoted.
Words(val) == IF IsQuoted(val)
              THEN <<SubSeq(val, 2, Len(val) - 1)>> ELSE split(val)
WordsOf(keys) == FlattenSeq([k \in DOMAIN All |->
                    IF k \in With(keys) THEN Words(All[k].value) ELSE <<>>])
IsDefinition(word) == \E k \in DOMAIN word : word[k] = Equals

Refused(k) ==
    LET e == All[k]
    IN  \/ (e.value = Alone) # (e.key \in Flags)
        \/ e.key \notin UNION {Flags, Limits, Once, Times, EnvKeys, {"comment"}}
        \/ e.key \in Once /\ \E j \in 1..k-1 : All[j].key = e.key
        \/ /\ e.key \in EnvKeys
           /\ IF IsQuoted(e.value) THEN Last(e.value) # Quote
              ELSE \E w \in DOMAIN split(e.value) : split(e.value)[w][1] = Equals

EqualsAt(word) == Min({k \in DOMAIN word : word[k] = Equals})
NameOf(word) == SubSeq(word, 1, EqualsAt(word) - 1)
ValueOf(word) == SubSeq(word, EqualsAt(word) + 1, Len(word))

\* The environment that a sequence of words defines: of two words for a name
\* the later counts, and a value may have '=' in it.
DefinedBy(defs, env) ==
    /\ DOMAIN env = {NameOf(defs[k]) : k \in DOMAIN defs}
    /\ \A n \in DOMAIN env :
          env[n] = ValueOf(defs[Max({j \in DOMAIN defs : NameOf(defs[j]) = n})])

\* parse_inf_file raises exactly for the entries it refuses; otherwise the file
\* overrides the environment, the last time limit counts, whichever of the two
\* it is, and the program and the interactor get the variables defined for
\* each.
InfRight ==
    Parsed =>
       LET defs == WordsOf({"environ", "compiler_env"})
           idefs == WordsOf({"interactor_env"})
       IN  IF \E k \in DOMAIN All : Refused(k) THEN meta.raised
           ELSE /\ ~meta.raised
                /\ meta.flags = {All[k].key : k \in With(Flags)}
                /\ meta.time_limit = LastOf(Times, <<>>)
                /\ meta.given = [key \in {"max_process_count"}
                                        \cup {All[k].key : k \in With(Limits \cup Once)} |->
                                   LastOf({key}, <<50>>)]
                /\ (\A w \in DOMAIN defs : IsDefinition(defs[w]))
                      => DefinedBy(defs, meta.environ)
                /\ (\A w \in DOMAIN idefs : IsDefinition(idefs[w]))
                      => DefinedBy(idefs, meta.interactor_env)

\* A word that defines nothing is an "Unsupported env", says the exception that
\* parse_env raises when its search for '=' is without success.
EnvWordsChecked ==
    Parsed /\ ~meta.raised =>
       LET defs == WordsOf(EnvKeys) IN \A w \in DOMAIN defs : IsDefinition(defs[w])
=============================================================================
