----------------------------- MODULE StyleCheck -----------------------------
(* check_style of nejudge/test.py: the sources that match the wildcard, one  *)
(* after the other, are formatted by tools/run-clang-format.py and searched  *)
(* for banned and required patterns.  The wrapper reads all of clang-        *)
(* format's standard output and then all of its errors, over two pipes.      *)
EXTENDS Integers, Sequences

CONSTANTS Sources,   \* what the wildcard may match: sequences of files
          Rules,     \* [skip, supported, banned, required]: skip_clang_format,
                     \* whether clang-format is there and new enough, patterns
          PipeLines   \* how many lines a pipe holds

File == [kind : {"ignored", "other", "source"}, tidy : BOOLEAN,
         works : BOOLEAN,     \* clang-format can deal with it
         plain : BOOLEAN,     \* the preprocessor leaves no line marker
         text : SUBSET STRING, lines : Nat, errors : Nat]

StyleAssumption ==
    /\ Sources \subseteq Seq(File)
    /\ Rules \subseteq [skip : BOOLEAN, supported : BOOLEAN,
                       banned : SUBSET STRING, required : SUBSET STRING]

\* What the wrapper hopes for: "the stderr pipe won't get full and block".
ErrorsFit == \A s \in Sources : \A n \in DOMAIN s : s[n].errors <= PipeLines

VARIABLES sources,   \* the files, see MCPrograms
          rules,
          checked,   \* how many files the loop is done with
          found,     \* the required patterns found so far
          tidy,      \* the files that are formatted as they should be
          foreign,   \* the files whose owner or mode is no longer the one they
                     \* had
          check,     \* "next", "format", "ask", "fix", "search", "passed"
                     \* or "raised"
          wrapper,   \* run-clang-format.py: "off", "stdout", "stderr"
          clang      \* clang-format: [out, err: lines to write; outPipe,
                     \* errPipe: lines in the pipes; runs]

vars == <<sources, rules, checked, found, tidy, foreign, check, wrapper, clang>>

NoClang == [out |-> 0, err |-> 0, outPipe |-> 0, errPipe |-> 0, runs |-> FALSE]

Init ==
    /\ sources \in Sources /\ rules \in Rules
    /\ checked = 0 /\ found = {} /\ foreign = {}
    /\ tidy = {n \in DOMAIN sources : sources[n].tidy}
    /\ check = "next" /\ wrapper = "off" /\ clang = NoClang

this == checked + 1
file == sources[this]

\* The next file: an object, a backup or no file at all is passed over; only
\* C and C++ sources are formatted.
Skip ==
    /\ check = "next" /\ checked < Len(sources) /\ file.kind = "ignored"
    /\ checked' = this
    /\ UNCHANGED <<sources, rules, found, tidy, foreign, check, wrapper, clang>>

NoFormat ==
    /\ check = "next" /\ checked < Len(sources)
    /\ file.kind = "other" \/ (file.kind = "source" /\ rules.skip)
    /\ check' = "search"
    /\ UNCHANGED <<sources, rules, checked, found, tidy, foreign, wrapper, clang>>

\* check_clang_format_version finds none, or one that is too old.
Unsupported ==
    /\ check = "next" /\ checked < Len(sources)
    /\ file.kind = "source" /\ ~rules.skip /\ ~rules.supported
    /\ check' = "raised"
    /\ UNCHANGED <<sources, rules, checked, found, tidy, foreign, wrapper, clang>>

\* The wrapper starts clang-format; with -i the text does not come out.
Start(lines) ==
    /\ wrapper' = "stdout"
    /\ clang' = [NoClang EXCEPT !.out = lines, !.err = file.errors, !.runs = TRUE]
    /\ UNCHANGED <<sources, rules, checked, found, tidy, foreign>>

Format ==
    /\ check = "next" /\ checked < Len(sources)
    /\ file.kind = "source" /\ ~rules.skip /\ rules.supported
    /\ check' = "format" /\ Start(file.lines)

-----------------------------------------------------------------------------
(* clang-format and the wrapper. *)

PrintLine ==
    /\ clang.out > 0 /\ clang.outPipe < PipeLines
    /\ clang' = [clang EXCEPT !.out = @ - 1, !.outPipe = @ + 1]
    /\ UNCHANGED <<sources, rules, checked, found, tidy, foreign, check, wrapper>>

Complain ==
    /\ clang.err > 0 /\ clang.errPipe < PipeLines
    /\ clang' = [clang EXCEPT !.err = @ - 1, !.errPipe = @ + 1]
    /\ UNCHANGED <<sources, rules, checked, found, tidy, foreign, check, wrapper>>

\* With -i the file has been replaced by a formatted one of the script's owner,
\* unless nothing was to be changed or clang-format does not work.
ClangEnds ==
    /\ clang.runs /\ clang.out = 0 /\ clang.err = 0
    /\ clang' = [clang EXCEPT !.runs = FALSE]
    /\ LET changed == IF check = "fix" /\ file.works THEN {this} \ tidy ELSE {}
       IN  tidy' = tidy \cup changed /\ foreign' = foreign \cup changed
    /\ UNCHANGED <<sources, rules, checked, found, check, wrapper>>

ReadOutput ==
    /\ wrapper = "stdout" /\ clang.outPipe > 0
    /\ clang' = [clang EXCEPT !.outPipe = 0]
    /\ UNCHANGED <<sources, rules, checked, found, tidy, foreign, check, wrapper>>

ReadErrors ==
    /\ wrapper = "stderr" /\ clang.errPipe > 0
    /\ clang' = [clang EXCEPT !.errPipe = 0]
    /\ UNCHANGED <<sources, rules, checked, found, tidy, foreign, check, wrapper>>

\* Mutated: the errors are read first.
ErrorsFirst ==
    /\ wrapper = "stdout"
    /\ wrapper' = "stderr"
    /\ UNCHANGED <<sources, rules, checked, found, tidy, foreign, check, clang>>

\* The end of the output, which comes with clang-format's own.
EndOfOutput ==
    /\ wrapper = "stdout" /\ ~clang.runs /\ clang.outPipe = 0
    /\ wrapper' = "stderr"
    /\ UNCHANGED <<sources, rules, checked, found, tidy, foreign, check, clang>>

\* What the wrapper's exit status becomes, once it has read everything: 0 if
\* clang-format worked and, without -i, printed the file as it is.
Ended == wrapper = "stderr" /\ ~clang.runs /\ clang.errPipe = 0
Success == file.works /\ (check = "fix" \/ this \in tidy)

-----------------------------------------------------------------------------
(* run_clang_format and the rest of check_style. *)

Close(step) ==
    /\ Ended /\ wrapper' = "off" /\ check' = step
    /\ UNCHANGED <<sources, rules, checked, found, tidy, clang>>

Formatted == check = "format" /\ Success /\ Close("search") /\ UNCHANGED foreign

NotFormatted == check = "format" /\ ~Success /\ Close("ask") /\ UNCHANGED foreign

\* The developer is asked whether to fix the code.
Refuse ==
    /\ check = "ask" /\ check' = "raised"
    /\ UNCHANGED <<sources, rules, checked, found, tidy, foreign, wrapper, clang>>

Fix == check = "ask" /\ check' = "fix" /\ Start(0)

\* Owner and mode become again what they were.
Fixed == check = "fix" /\ Success /\ Close("search") /\ foreign' = foreign \ {this}

\* chown or chmod raises.
NotRestored == check = "fix" /\ Success /\ Close("raised") /\ UNCHANGED foreign

NotFixed == check = "fix" /\ ~Success /\ Close("raised") /\ UNCHANGED foreign

\* The patterns are searched for in the preprocessed text.  A text with line
\* markers or one the preprocessor refuses ends the run, if there is a pattern
\* to look for.
Refused == \/ file.text \cap rules.banned # {}
           \/ ~file.plain /\ rules.banned \cup rules.required # {}

SearchFails ==
    /\ check = "search" /\ Refused
    /\ check' = "raised"
    /\ UNCHANGED <<sources, rules, checked, found, tidy, foreign, wrapper, clang>>

\* Mutated: every file has to have what is required.
SearchAfresh ==
    /\ check = "search" /\ ~Refused
    /\ found' = file.text \cap rules.required
    /\ checked' = this /\ check' = "next"
    /\ UNCHANGED <<sources, rules, tidy, foreign, wrapper, clang>>

Search ==
    /\ check = "search" /\ ~Refused
    /\ found' = found \cup (file.text \cap rules.required)
    /\ checked' = this /\ check' = "next"
    /\ UNCHANGED <<sources, rules, tidy, foreign, wrapper, clang>>

Finish ==
    /\ check = "next" /\ checked = Len(sources)
    /\ check' = IF rules.required \subseteq found THEN "passed" ELSE "raised"
    /\ UNCHANGED <<sources, rules, checked, found, tidy, foreign, wrapper, clang>>

ClangFormat == PrintLine \/ Complain \/ ClangEnds
Wrapper == ReadOutput \/ ReadErrors \/ EndOfOutput
Script == \/ Skip \/ NoFormat \/ Unsupported \/ Format \/ Formatted \/ NotFormatted \/ Refuse \/ Fix
          \/ Fixed \/ NotRestored \/ NotFixed \/ SearchFails \/ Search \/ Finish

Next == ClangFormat \/ Wrapper \/ Script

Spec == Init /\ [][Next]_vars /\ WF_vars(Next)
-----------------------------------------------------------------------------
Checked == {n \in DOMAIN sources : sources[n].kind # "ignored"}
Unformatted == {n \in DOMAIN sources : sources[n].kind = "source" /\ n \notin tidy}

\* A style check that passes has seen no banned pattern in any file it is
\* about, every required one in some file, and leaves each source formatted, in
\* its owner's hands; one that fails has found a file that breaks the rules, one
\* that clang-format cannot deal with, or one it could not give back.
StyleRight ==
    /\ check = "passed" =>
          /\ \A n \in Checked : sources[n].text \cap rules.banned = {}
          /\ \A r \in rules.required : \E n \in Checked : r \in sources[n].text
          /\ ~rules.skip => Unformatted = {}
          /\ foreign = {}
    /\ check = "raised" =>
          \/ foreign # {}
          \/ \E n \in Checked : sources[n].text \cap rules.banned # {} \/ ~sources[n].plain
          \/ \E r \in rules.required : \A n \in Checked : r \notin sources[n].text
          \/ ~rules.skip /\ \E n \in DOMAIN sources :
                /\ sources[n].kind = "source"
                /\ n \in Unformatted \/ ~sources[n].works \/ ~rules.supported
=============================================================================
