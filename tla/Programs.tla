------------------------------ MODULE Programs ------------------------------
(* The tasks whose programs run alone and touch nothing but their input and  *)
(* their output, and the two parts of nejudge/test.py that come before any   *)
(* test: one of them is started and run.  The variables of the others keep   *)
(* the value they are given here.                                            *)
EXTENDS BinarySearch

CONSTANTS MinReads, Files, Byte, Inputs, BufferSize, ReadSize,
          XMod, YMod, RecordFiles, Factors, BadFactor,
          Sources, Rules, PipeLines,
          Width, PageSize, Questions, Lines, FirstCapacity, Table, BlockSize, InfFiles

VARIABLES program,
          file, frames, wanted, printed, reads, exit,       \* of BinaryTree
          input, got, chunk, cur, buf, out, writes, pc,     \* of WriteChar
          original, ragged, factor, records, counter,       \* of BinaryReverse
          left, right, done, step, status,
          sources, rules, checked, found, tidy, foreign,    \* of StyleCheck
          check, wrapper, clang,
          inf, entry, words, meta,                          \* of InfFile
          task, args, answer                                \* of Numbers and Texts

Tree == INSTANCE BinaryTree
Write == INSTANCE WriteChar
Reversal == INSTANCE BinaryReverse
             WITH Files <- RecordFiles, a <- factor, file <- records, i <- counter,
                  pc <- step, exit <- status
Style == INSTANCE StyleCheck
Number == INSTANCE Numbers
Text == INSTANCE Texts
Inf == INSTANCE InfFile

ASSUME ProgramsAssumption ==
    /\ Tree!TreeAssumption /\ Write!WriteAssumption /\ Reversal!ReverseAssumption
    /\ Style!StyleAssumption /\ Style!ErrorsFit /\ Inf!InfAssumption
    /\ Number!NumbersAssumption /\ Text!TextsAssumption

searchVars == vars
treeVars == <<file, frames, wanted, printed, reads, exit>>
writeVars == <<input, got, chunk, cur, buf, out, writes, pc>>
reverseVars == <<original, ragged, factor, records, counter, left, right, done, step, status>>
styleVars == <<sources, rules, checked, found, tidy, foreign, check, wrapper, clang>>
infVars == <<inf, entry, words, meta>>
oneStepVars == <<task, args, answer>>
allVars == <<program, searchVars, treeVars, writeVars, reverseVars, styleVars, infVars, oneStepVars>>

SearchUnused == array = <<>> /\ lo = 0 /\ hi = -1 /\ result = NotFound
TreeUnused == /\ file = <<>> /\ frames = <<>> /\ wanted = -1 /\ printed = <<>>
              /\ reads = 0 /\ exit = -1
WriteUnused == /\ input = <<>> /\ got = 0 /\ chunk = <<>> /\ cur = 0
               /\ buf = <<>> /\ out = <<>> /\ writes = <<>> /\ pc = "exit"
ReverseUnused == /\ original = <<>> /\ ragged = FALSE /\ factor = BadFactor
                 /\ records = <<>> /\ counter = 1 /\ left = <<0, 0>> /\ right = <<0, 0>>
                 /\ done = 0 /\ step = "exit" /\ status = -1
StyleUnused == /\ sources = <<>>
               /\ rules = [skip |-> TRUE, supported |-> FALSE, banned |-> {}, required |-> {}]
               /\ checked = 0 /\ found = {} /\ tidy = {} /\ foreign = {}
               /\ check = "passed" /\ wrapper = "off" /\ clang = Style!NoClang
InfUnused == inf = <<<<>>, <<>>>> /\ entry = 1 /\ words = <<>>
             /\ meta = Inf!NewDictionary
OneStepUnused == task = "none" /\ args = <<>> /\ answer = <<>>

ProgramsInit ==
    \/ /\ program = "binary-search" /\ Init
       /\ TreeUnused /\ WriteUnused /\ ReverseUnused /\ StyleUnused /\ InfUnused /\ OneStepUnused
    \/ /\ program = "binary-tree" /\ Tree!Init
       /\ SearchUnused /\ WriteUnused /\ ReverseUnused /\ StyleUnused /\ InfUnused /\ OneStepUnused
    \/ /\ program = "write-char" /\ Write!Init
       /\ SearchUnused /\ TreeUnused /\ ReverseUnused /\ StyleUnused /\ InfUnused /\ OneStepUnused
    \/ /\ program = "binary-reverse" /\ Reversal!Init
       /\ SearchUnused /\ TreeUnused /\ WriteUnused /\ StyleUnused /\ InfUnused /\ OneStepUnused
    \/ /\ program = "style-check" /\ Style!Init
       /\ SearchUnused /\ TreeUnused /\ WriteUnused /\ ReverseUnused /\ InfUnused /\ OneStepUnused
    \/ /\ program = "inf-file" /\ Inf!Init
       /\ SearchUnused /\ TreeUnused /\ WriteUnused /\ ReverseUnused /\ StyleUnused
       /\ OneStepUnused
    \/ /\ program = "one-step" /\ (Number!Init \/ Text!Init)
       /\ SearchUnused /\ TreeUnused /\ WriteUnused /\ ReverseUnused /\ StyleUnused
       /\ InfUnused

SearchStep ==
    /\ program = "binary-search" /\ Next
    /\ UNCHANGED <<program, treeVars, writeVars, reverseVars, styleVars, infVars, oneStepVars>>
TreeStep ==
    /\ program = "binary-tree" /\ Tree!Next
    /\ UNCHANGED <<program, searchVars, writeVars, reverseVars, styleVars, infVars, oneStepVars>>
WriteStep ==
    /\ program = "write-char" /\ Write!Next
    /\ UNCHANGED <<program, searchVars, treeVars, reverseVars, styleVars, infVars, oneStepVars>>
ReverseStep ==
    /\ program = "binary-reverse" /\ Reversal!Next
    /\ UNCHANGED <<program, searchVars, treeVars, writeVars, styleVars, infVars, oneStepVars>>
StyleStep ==
    /\ program = "style-check" /\ Style!Next
    /\ UNCHANGED <<program, searchVars, treeVars, writeVars, reverseVars, infVars, oneStepVars>>
InfStep ==
    /\ program = "inf-file" /\ Inf!Next
    /\ UNCHANGED <<program, searchVars, treeVars, writeVars, reverseVars, styleVars, oneStepVars>>
OneStep ==
    /\ program = "one-step" /\ (Number!Next \/ Text!Next)
    /\ UNCHANGED <<program, searchVars, treeVars, writeVars, reverseVars, styleVars, infVars>>

ProgramsNext == \/ SearchStep \/ TreeStep \/ WriteStep \/ ReverseStep
                \/ StyleStep \/ InfStep \/ OneStep

\* The program that was started goes on until it stops by itself.
ProgramsSpec == ProgramsInit /\ [][ProgramsNext]_allVars /\ WF_allVars(ProgramsNext)
-----------------------------------------------------------------------------
\* binary-tree prints keys downwards from the largest, whatever fails, and
\* exits with 0 only when it has printed the whole tree.
TreeRight == program = "binary-tree" => Tree!TreeRight

\* write-char loses, repeats and reorders no character, writes full buffers, and
\* stores nothing past their end.
WriteRight == program = "write-char" => Write!NothingLost /\ Write!FullWrites

\* binary-reverse exits with 0 only when every record has its new value in its
\* new place, and with 3 only for a sum that really does not fit.
SuccessRight == program = "binary-reverse" => Reversal!SuccessRight

\* Wherever binary-reverse stops, at most one record of the file is damaged.
AtMostOneLost == program = "binary-reverse" => Reversal!AtMostOneLost

\* The style check passes the sources that follow the rules and no others, and
\* leaves them formatted and in their owner's hands.
StyleRight == program = "style-check" => Style!StyleRight

\* satsum, average, fib-root, pow, whole-mul and double-loop compute what their
\* tasks define, and protected buffers lie where they should.
NumbersRight == Number!NumbersRight

\* normalize-path, mystrcmp, utf-wc, anagram, and the readers of func-table and of
\* checkers compute what they are defined to.
TextsRight == Text!TextsRight

\* The .inf parser refuses what it has to and nothing else, and the later
\* setting wins.
InfRight == program = "inf-file" => Inf!InfRight

\* A word without '=' in a variable of the environment kind is refused, as the
\* exception in parse_env has it (test.py:601).
EnvWordsChecked == program = "inf-file" => Inf!EnvWordsChecked

\* Every program stops: the search on any array, the descent in any tree file,
\* the copying and reversing loops with any pattern of short calls, and the
\* style check with clang-format and its wrapper writing and reading two pipes.
ProgramsEnd ==
    <>(CASE program = "binary-search" -> result # Running
         [] program = "binary-tree" -> exit # -1
         [] program = "write-char" -> pc = "exit"
         [] program = "binary-reverse" -> step = "exit"
         [] program = "style-check" -> check \in {"passed", "raised"}
         [] program = "inf-file" -> Inf!Parsed
         [] program = "one-step" -> answer # <<>>)
=============================================================================
