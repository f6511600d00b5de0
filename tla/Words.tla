--------------------------------- MODULE Words ---------------------------------
(***************************************************************************)
(* Word expansion of 42sh (expander.c, expand_word.c, expand_parameter.c,  *)
(* expand_tilde.c, expand_cmdsub.c, expand_arithmetic.c) and the splitting *)
(* of its result (field_split.c): one step per turn of the scan over a     *)
(* word, from the words the parser left to a command that can be run or    *)
(* is refused.                                                             *)
(*                                                                         *)
(* A text is a sequence of one-character strings.  The buffer is a         *)
(* sequence of pairs: a byte, and whether it may be a field boundary.      *)
(*                                                                         *)
(* An operator whose name begins with Bad is not part of the model: it is  *)
(* the definition after it with a plausible slip.                          *)
(***************************************************************************)
EXTENDS Arithmetic, FiniteSets, SequencesExt

CONSTANTS Char,      \* what a text may hold
          Cases,     \* bound: commands, with the variables they meet: words are
                     \* [text, means], means the pieces they were written from
          Outputs,   \* bound: what a substituted command may print
          Statuses,  \* bound: what it may exit with
          UserDirs   \* external: home directories by user name

Text  == Seq(Char)
Unset == <<End>>                   \* no variable of that name

Written(ws) == ws \in Seq(Range(ws)) /\ \A i \in DOMAIN ws : ws[i].text \in Text

\* what is typed, printed and stored are strings of C
ASSUME WordsAssumption ==
    /\ End \notin Char
    /\ Range(Digit) \cup {"-", "$", "{", "\\", "s", "h"} \subseteq Char
    /\ \A c \in Cases : /\ Written(c.argv) /\ Written(c.values)
                        /\ Written([i \in DOMAIN c.redirs |-> c.redirs[i].target])
                        /\ c.redirs \in Seq(Range(c.redirs))
                        /\ {c.x, c.ifs, c.home} \subseteq Text \cup {Unset}
    /\ Outputs \subseteq Text /\ Statuses \subseteq Nat /\ Range(UserDirs) \subseteq Text

Killed    == -1                    \* a substitution died of a signal
Interrupted == -1                  \* $? of a command whose wait a signal ended
Name      == {"a", "b", "u", "X"}  \* the characters of names that occur
Backtick  == "BT"                  \* TLA+ has no way to write it
ShellName == <<"4", "2", "s", "h">>
Pid       == <<"1">>

VARIABLES
    case,    \* the command as it was parsed, and the variables
    argv, values, targets,   \* its words: t_cmd, rewritten in place
    todo,    \* the words still to expand, the current one first
    fields,  \* new_argv: fields of the arguments so far
    scans,   \* the scan of the word; above it, those of $(( )) inside it
    phase,
    status,  \* $?
    log      \* history: $? when the word began, substitutions run for it

command == <<case, argv, values, targets, todo, fields>>
vars    == <<command, scans, phase, status, log>>

-------------------------------------------------------------------------------
(* Texts.                                                                    *)

Bytes(s, split) == [i \in DOMAIN s |-> <<s[i], split>>]
Chars(buf)      == [i \in DOMAIN buf |-> buf[i][1]]

ValueOf(name) == IF name = <<"X">> /\ case.x # Unset THEN case.x ELSE <<>>

\* the `)` of a substitution whose inside begins at i; 0 if there is none
FindClose(w, i) ==
    LET Flip(s, q) == [s EXCEPT !.q = IF @ = q THEN "none" ELSE q]
        Step(s, c) ==
            CASE s.hidden -> [s EXCEPT !.hidden = FALSE]
              [] ~s.hidden /\ c = "\\" /\ s.q # "single" -> [s EXCEPT !.hidden = TRUE]
              [] ~s.hidden /\ c = "'" /\ s.q # "double" -> Flip(s, "single")
              [] ~s.hidden /\ c = "\"" /\ s.q # "single" -> Flip(s, "double")
              [] ~s.hidden /\ c = "(" /\ s.q = "none" -> [s EXCEPT !.depth = @ + 1]
              [] ~s.hidden /\ c = ")" /\ s.q = "none" -> [s EXCEPT !.depth = @ - 1]
              [] OTHER -> s
        after[j \in (i - 1)..Len(w)] ==
            IF j < i THEN [depth |-> 1, q |-> "none", hidden |-> FALSE]
            ELSE Step(after[j - 1], w[j])
        closes == {j \in i..Len(w) : after[j].depth = 0}
    IN  IF closes = {} THEN 0 ELSE Min(closes)

\* what follows the )) of an expression that begins at i; 0 if there is none
FindArithClose(w, i) ==
    LET Step(s, j) ==
            CASE s.hidden -> [s EXCEPT !.hidden = FALSE]
              [] ~s.hidden /\ w[j] = "(" /\ At(w, j + 1) = "(" ->
                   [hidden |-> TRUE, depth |-> s.depth + 1]
              [] ~s.hidden /\ w[j] = ")" /\ At(w, j + 1) = ")" ->
                   [hidden |-> TRUE, depth |-> s.depth - 1]
              [] OTHER -> s
        after[j \in (i - 1)..Len(w)] ==
            IF j < i THEN [depth |-> 1, hidden |-> FALSE] ELSE Step(after[j - 1], j)
        closes == {j \in i..(Len(w) - 1) : after[j].depth = 0}
    IN  IF closes = {} THEN 0 ELSE Min(closes) + 2

\* without the newlines at its end
Stripped(s) ==
    LET kept == {i \in DOMAIN s : s[i] # "\n"}
    IN  IF kept = {} THEN <<>> ELSE SubSeq(s, 1, Max(kept))

-------------------------------------------------------------------------------
(* Fields.                                                                   *)

IfsSpace == {" ", "\t", "\n"}

Ifs == IF case.ifs = Unset THEN IfsSpace ELSE Range(case.ifs)

Splits(b) == b[2] /\ b[1] \in Ifs       \* is_ifs_split
Soft(b)   == Splits(b) /\ b[1] \in IfsSpace
Hard(b)   == Splits(b) /\ b[1] \notin IfsSpace

\* the first position from i on where the byte is not of the kind
Past(buf, i, Kind(_)) ==
    CHOOSE j \in i..(Len(buf) + 1) :
        (j > Len(buf) \/ ~Kind(buf[j])) /\ \A k \in i..(j - 1) : Kind(buf[k])

SkipIfsWs(buf, i) == Past(buf, i, Soft)

\* slip: the whitespace after a delimiter is not its
BadConsumeDelimiter(buf, i) ==
    LET j == SkipIfsWs(buf, i)
    IN  IF j <= Len(buf) /\ Hard(buf[j]) THEN j + 1 ELSE j

ConsumeDelimiter(buf, i) ==
    LET j == SkipIfsWs(buf, i)
    IN  IF j <= Len(buf) /\ Hard(buf[j]) THEN SkipIfsWs(buf, j + 1) ELSE j

CollectFields(buf) ==
    LET Byte(b) == ~Splits(b)
        from[i \in 1..(Len(buf) + 1)] ==
            IF i > Len(buf) THEN <<>>
            ELSE LET j    == Past(buf, i, Byte)
                     rest == IF j > Len(buf) THEN <<>> ELSE from[ConsumeDelimiter(buf, j)]
                 IN  <<Chars(SubSeq(buf, i, j - 1))>> \o rest
    IN  from[SkipIfsWs(buf, 1)]

FieldSplit(buf) ==
    IF case.ifs = <<>> THEN <<Chars(buf)>> ELSE CollectFields(buf)

\* a quote anywhere in the word, a backslash hides the character after it
WordHasQuote(w) ==
    LET from[j \in 1..(Len(w) + 1)] ==
            CASE At(w, j) = End -> FALSE
              [] At(w, j) = "\\" /\ At(w, j + 1) # End -> from[j + 2]
              [] At(w, j) \in {"'", "\""} -> TRUE
              [] OTHER -> from[j + 1]
    IN  from[1]

\* slip: no empty field for a quoted word that came to nothing
BadWordFields(w, buf) == FieldSplit(buf)

WordFields(w, buf) ==
    LET split == FieldSplit(buf)
    IN  IF split = <<>> /\ WordHasQuote(w) THEN <<<<>>>> ELSE split

-------------------------------------------------------------------------------
(* The scan.                                                                 *)

NewScan(w) == [word |-> w, pos |-> 1, quote |-> "none", buf |-> <<>>]

Top     == scans[Len(scans)]
Here(k) == At(Top.word, Top.pos + k)

Scanning == phase = "expanding" /\ Here(0) # End
Splitting == Top.quote = "none"

\* emit bytes and go to a position
Advance(bytes, to) ==
    scans' = [scans EXCEPT ![Len(scans)] = [Top EXCEPT !.buf = @ \o bytes, !.pos = to]]

Unmoved == UNCHANGED <<command, phase, status, log>>

Toggles == \/ Here(0) = "'" /\ Top.quote # "double"
           \/ Here(0) = "\"" /\ Top.quote # "single"

Quote ==
    /\ Scanning /\ Toggles
    /\ LET q == IF Here(0) = "'" THEN "single" ELSE "double"
       IN  scans' = [scans EXCEPT ![Len(scans)] =
                        [Top EXCEPT !.pos = @ + 1,
                                    !.quote = IF @ = q THEN "none" ELSE q]]
    /\ Unmoved

Special == CASE Top.quote = "single" -> {}
             [] Top.quote = "double" -> {"\\", "$"}
             [] OTHER -> {"\\", "$"} \cup (IF Top.pos = 1 THEN {"~"} ELSE {})

\* a literal byte outside quotes may be a boundary too
Ordinary ==
    /\ Scanning /\ ~Toggles /\ Here(0) \notin Special
    /\ Advance(Bytes(<<Here(0)>>, Splitting), Top.pos + 1)
    /\ Unmoved

\* slip: a backslash that ends the word takes the end with it
BadBackslash ==
    /\ Scanning /\ Here(0) = "\\" /\ Top.quote = "none"
    /\ Advance(IF Here(1) \in {End, "\n"} THEN <<>> ELSE Bytes(<<Here(1)>>, FALSE),
               Top.pos + 2)
    /\ Unmoved

Backslash ==
    /\ Scanning /\ Here(0) = "\\" /\ Top.quote = "none"
    /\ Advance(IF Here(1) \in {End, "\n"} THEN <<>> ELSE Bytes(<<Here(1)>>, FALSE),
               IF Here(1) = End THEN Top.pos + 1 ELSE Top.pos + 2)
    /\ Unmoved

BackslashInDouble ==
    /\ Scanning /\ Here(0) = "\\" /\ Top.quote = "double"
    /\ IF Here(1) \in {"\n", "$", Backtick, "\"", "\\"}
       THEN Advance(IF Here(1) = "\n" THEN <<>> ELSE Bytes(<<Here(1)>>, FALSE), Top.pos + 2)
       ELSE Advance(Bytes(<<"\\">>, FALSE), Top.pos + 1)
    /\ Unmoved

\* ~ and ~name, at the start of the word; what is unknown stays as it is
Tilde ==
    /\ Scanning /\ Here(0) = "~" /\ Top.quote = "none" /\ Top.pos = 1
    /\ LET w    == Top.word
           stop == CHOOSE j \in 2..(Len(w) + 1) :
                       At(w, j) \in {End, "/"} /\ \A k \in 2..(j - 1) : w[k] # "/"
           user == SubSeq(w, 2, stop - 1)
           text == CASE user = <<>> /\ case.home # Unset -> case.home
                     [] (user # <<>> \/ case.home = Unset) /\ user \in DOMAIN UserDirs ->
                          UserDirs[user]
                     [] OTHER -> SubSeq(w, 1, stop - 1)
       IN  Advance(Bytes(text, FALSE), stop)
    /\ Unmoved

-------------------------------------------------------------------------------
(* What a $ begins.                                                          *)

Dollar == Scanning /\ Here(0) = "$" /\ Top.quote # "single"

SpecialValue(c) ==
    CASE c = "?" -> Decimal(status) [] c = "$" -> Pid [] c = "0" -> ShellName

DollarAlone ==
    /\ Dollar /\ Here(1) \notin Name \cup {"?", "$", "0", "{", "("}
    /\ Advance(Bytes(<<"$">>, Splitting), Top.pos + 1)
    /\ Unmoved

SpecialParameter ==
    /\ Dollar /\ Here(1) \in {"?", "$", "0"}
    /\ Advance(Bytes(SpecialValue(Here(1)), Splitting), Top.pos + 2)
    /\ Unmoved

Parameter ==
    /\ Dollar /\ Here(1) \in Name
    /\ LET stop == After(Top.word, Top.pos + 1, Name \cup Range(Digit))
       IN  Advance(Bytes(ValueOf(SubSeq(Top.word, Top.pos + 1, stop - 1)), Splitting), stop)
    /\ Unmoved

\* the position of the } of a ${ at pos; 0 if there is none
Brace(w, pos) ==
    IF \E j \in (pos + 2)..Len(w) : w[j] = "}"
    THEN CHOOSE j \in (pos + 2)..Len(w) : w[j] = "}" /\ \A k \in (pos + 2)..(j - 1) : w[k] # "}"
    ELSE 0

Braced ==
    /\ Dollar /\ Here(1) = "{" /\ Brace(Top.word, Top.pos) # 0
    /\ LET close == Brace(Top.word, Top.pos)
           name  == SubSeq(Top.word, Top.pos + 2, close - 1)
           text  == IF Len(name) = 1 /\ name[1] \in {"?", "$", "0"}
                    THEN SpecialValue(name[1]) ELSE ValueOf(name)
       IN  Advance(Bytes(text, Splitting), close + 1)
    /\ Unmoved

\* slip: the scan goes on at the $
BadBraceUnterminated ==
    /\ Dollar /\ Here(1) = "{" /\ Brace(Top.word, Top.pos) = 0
    /\ Advance(Bytes(<<"$", "{">>, FALSE), Top.pos)
    /\ Unmoved

\* ${ is emitted and the scan goes on at the {, which is so emitted twice
BraceUnterminated ==
    /\ Dollar /\ Here(1) = "{" /\ Brace(Top.word, Top.pos) = 0
    /\ Advance(Bytes(<<"$", "{">>, FALSE), Top.pos + 1)
    /\ Unmoved

\* the signal of a division, or of a null pointer, ends the shell
Die == phase' = "dead" /\ UNCHANGED <<command, scans, status, log>>

\* The expansion of the word at a depth fails.  Inside $(( )) its null result goes
\* to arith_eval unseen.  Else expand_command fails: a stage of a pipeline is run
\* as it is, any other command is not run and its status is 1.
Fail(depth, st) ==
    \/ depth > 1 /\ Die
    \/ /\ depth = 1
       /\ phase' = IF case.launch = "pipeline" THEN "ready" ELSE "failed"
       /\ status' = IF case.launch = "pipeline" THEN st ELSE 1
       /\ UNCHANGED <<command, scans, log>>

Substitutes == Dollar /\ Here(1) = "(" /\ Here(2) # "("

Unmatched ==
    /\ Substitutes /\ FindClose(Top.word, Top.pos + 2) = 0
    /\ Fail(Len(scans), 2)

Emit(out, st) ==
    /\ Advance(Bytes(Stripped(out), Splitting), FindClose(Top.word, Top.pos + 2) + 1)
    /\ status' = IF st = Killed THEN status ELSE st
    /\ log' = [log EXCEPT !.subs = Append(@, [out |-> Stripped(out), status |-> status'])]
    /\ UNCHANGED <<command, phase>>

\* slip: the status of the substitution is dropped
BadSubstitution ==
    /\ Substitutes /\ FindClose(Top.word, Top.pos + 2) # 0
    /\ \E out \in Outputs, st \in Statuses \cup {Killed} :
          /\ Advance(Bytes(Stripped(out), Splitting), FindClose(Top.word, Top.pos + 2) + 1)
          /\ log' = [log EXCEPT !.subs = Append(@, [out |-> Stripped(out), status |-> st])]
    /\ UNCHANGED <<command, phase, status>>

\* An interrupt while the output is read cuts it short, one in waitpid leaves the
\* status uninitialised: both are among these outcomes.
Substitution ==
    /\ Substitutes /\ FindClose(Top.word, Top.pos + 2) # 0
    /\ \E out \in Outputs, st \in Statuses \cup {Killed} : Emit(out, st)

\* no pipe or no process: the substitution is nothing
SubstitutionNotStarted ==
    /\ Substitutes /\ FindClose(Top.word, Top.pos + 2) # 0
    /\ Emit(<<>>, Killed)

Computes == Dollar /\ Here(1) = "(" /\ Here(2) = "("

\* the expression is a word of its own, expanded first
ArithmeticBegins ==
    /\ Computes
    /\ LET next == FindArithClose(Top.word, Top.pos + 3)
       IN  IF next = 0 THEN Fail(Len(scans), status)
           ELSE /\ scans' = Append([scans EXCEPT ![Len(scans)].pos = next],
                                   NewScan(SubSeq(Top.word, Top.pos + 3, next - 3)))
                /\ Unmoved

AtEnd(depth) == phase = "expanding" /\ Here(0) = End /\ (Len(scans) > 1 <=> depth > 1)

ArithmeticEnds ==
    /\ AtEnd(2)
    /\ LET r     == ArithEval(Chars(Top.buf))
           outer == scans[Len(scans) - 1]
       IN  CASE r.err = "none" ->
                  /\ scans' = Append(SubSeq(scans, 1, Len(scans) - 2),
                               [outer EXCEPT !.buf = @ \o
                                    Bytes(Decimal(r.val), outer.quote = "none")])
                  /\ Unmoved
             [] r.err = "trap" -> Die
             [] r.err \in {"syntax", "zero"} -> Fail(Len(scans) - 1, status)

-------------------------------------------------------------------------------
(* The words of a command: arguments, values of assignments, targets.        *)

WordOf(k, p) == CASE p.part = "argv" -> k.argv[p.i]
                  [] p.part = "value" -> k.values[p.i]
                  [] p.part = "target" -> k.redirs[p.i].target

\* the delimiter of a heredoc is not expanded
Parts(k) ==
    LET upTo[i \in 0..Len(k.redirs)] ==
            CASE i = 0 -> <<>>
              [] i > 0 /\ k.redirs[i].heredoc -> upTo[i - 1]
              [] OTHER -> Append(upTo[i - 1], [part |-> "target", i |-> i])
    IN  [i \in DOMAIN k.argv |-> [part |-> "argv", i |-> i]] \o
        [i \in DOMAIN k.values |-> [part |-> "value", i |-> i]] \o upTo[Len(k.redirs)]

NoCase == [launch |-> "none"]
NoLog  == [status |-> 0, subs |-> <<>>]

Begin ==
    /\ phase = "idle"
    /\ case' \in Cases
    /\ argv' = [i \in DOMAIN case'.argv |-> case'.argv[i].text]
    /\ values' = [i \in DOMAIN case'.values |-> case'.values[i].text]
    /\ targets' = [i \in DOMAIN case'.redirs |-> case'.redirs[i].target.text]
    /\ todo' = Parts(case')
    /\ fields' = <<>>
    /\ scans' = IF todo' = <<>> THEN <<>> ELSE <<NewScan(WordOf(case', Head(todo')).text)>>
    /\ phase' = IF todo' = <<>> THEN "ready" ELSE "expanding"
    /\ log' = [status |-> status, subs |-> <<>>]
    /\ UNCHANGED status

NextWord ==
    /\ todo' = Tail(todo)
    /\ phase' = IF todo' = <<>> THEN "ready" ELSE "expanding"
    /\ scans' = IF todo' = <<>> THEN <<>> ELSE <<NewScan(WordOf(case, Head(todo')).text)>>
    /\ log' = [status |-> status, subs |-> <<>>]
    /\ UNCHANGED <<case, status>>

\* argv is replaced when every argument has been expanded
ArgumentEnds ==
    /\ AtEnd(1) /\ Head(todo).part = "argv"
    /\ fields' = fields \o WordFields(Top.word, Top.buf)
    /\ NextWord
    /\ argv' = IF Head(todo).i = Len(case.argv) THEN fields' ELSE argv
    /\ UNCHANGED <<values, targets>>

ValueEnds ==
    /\ AtEnd(1) /\ Head(todo).part = "value"
    /\ values' = [values EXCEPT ![Head(todo).i] = Chars(Top.buf)]
    /\ NextWord
    /\ UNCHANGED <<argv, targets, fields>>

\* slip: a target that came to nothing is not refused
BadTargetEnds ==
    /\ AtEnd(1) /\ Head(todo).part = "target"
    /\ LET f == WordFields(Top.word, Top.buf)
       IN  IF Len(f) > 1 THEN Fail(1, status)
           ELSE /\ targets' = [targets EXCEPT ![Head(todo).i] = FlattenSeq(f)]
                /\ NextWord
                /\ UNCHANGED <<argv, values, fields>>

TargetEnds ==
    /\ AtEnd(1) /\ Head(todo).part = "target"
    /\ LET f == WordFields(Top.word, Top.buf)
       IN  IF Len(f) # 1 THEN Fail(1, status)
           ELSE /\ targets' = [targets EXCEPT ![Head(todo).i] = f[1]]
                /\ NextWord
                /\ UNCHANGED <<argv, values, fields>>

\* the command is run, or was refused; a shell that died is started again
Over ==
    /\ phase \in {"ready", "failed", "dead"}
    /\ phase' = "idle"
    /\ status' \in CASE phase = "ready" -> Statuses \cup {Interrupted}
                     [] phase = "failed" -> {status}
                     [] phase = "dead" -> {0}
    /\ case' = NoCase /\ argv' = <<>> /\ values' = <<>> /\ targets' = <<>>
    /\ todo' = <<>> /\ scans' = <<>> /\ fields' = <<>>
    /\ log' = NoLog

-------------------------------------------------------------------------------

Init ==
    /\ case = NoCase
    /\ argv = <<>> /\ values = <<>> /\ targets = <<>>
    /\ todo = <<>> /\ fields = <<>> /\ scans = <<>>
    /\ phase = "idle"
    /\ status = 0
    /\ log = NoLog

Scan ==
    \/ Quote \/ Ordinary \/ Backslash \/ BackslashInDouble \/ Tilde
    \/ DollarAlone \/ SpecialParameter \/ Parameter \/ Braced \/ BraceUnterminated
    \/ Unmatched \/ Substitution \/ SubstitutionNotStarted
    \/ ArithmeticBegins \/ ArithmeticEnds
    \/ ArgumentEnds \/ ValueEnds \/ TargetEnds

Next == Begin \/ Scan \/ Over

Spec == Init /\ [][Next]_vars

-------------------------------------------------------------------------------
\* The splitting rules of the header of field_split.c, without an order: what
\* separates is every hard delimiter, and every run of whitespace that touches
\* no delimiter and no end.
Separators(buf) ==
    {i \in DOMAIN buf :
        \/ Hard(buf[i])
        \/ /\ Soft(buf[i]) /\ i > 1 /\ ~Splits(buf[i - 1])
           /\ \E j \in i..Len(buf) : /\ \A k \in i..j : Soft(buf[k])
                                     /\ j < Len(buf) /\ ~Splits(buf[j + 1])}

FieldsByRule(buf) ==
    LET seps   == Separators(buf)
        bytes  == {i \in DOMAIN buf : ~Splits(buf[i])}
        nth(i) == Cardinality({s \in seps : s < i}) + 1
        last   == Cardinality(seps) + 1
        number == IF \E i \in bytes : nth(i) = last THEN last ELSE last - 1
        field(n) == LET of == {i \in bytes : nth(i) = n}
                    IN  IF of = {} THEN <<>> ELSE Chars(SubSeq(buf, Min(of), Max(of)))
    IN  IF case.ifs = <<>> THEN <<Chars(buf)>> ELSE [n \in 1..number |-> field(n)]

-------------------------------------------------------------------------------
(* Properties.                                                               *)

Marked(s) == \A i \in DOMAIN s : s[i][1] # End /\ s[i][2] \in BOOLEAN

\* A scan stands in its word or at its end, with one mark for each byte; what
\* the scan holds open in quotes belongs to a word.
TypeOK ==
    /\ phase \in {"idle", "expanding", "ready", "failed", "dead"}
    /\ phase = "expanding" => scans # <<>> /\ todo # <<>>
    /\ \A i \in DOMAIN scans : /\ scans[i].pos \in 1..(Len(scans[i].word) + 1)
                               /\ scans[i].quote \in {"none", "single", "double"}
                               /\ Marked(scans[i].buf)
    /\ status \in Nat \cup {Interrupted}

\* the word under expansion, with its meaning
Current  == WordOf(case, Head(todo))
WordDone == phase = "expanding" /\ Len(scans) = 1 /\ Here(0) = End

\* the fields the rules give
RuledFields == IF FieldsByRule(Top.buf) = <<>> /\ WordHasQuote(Top.word)
               THEN <<<<>>>> ELSE FieldsByRule(Top.buf)

\* Whatever was expanded, the fields are those the rules give: no field is lost
\* or made up at the ends or between two delimiters.
SplitsByRule ==
    WordDone => FieldSplit(Top.buf) = FieldsByRule(Top.buf)

\* A command is refused at a target exactly when the rules do not give it one
\* field: it never runs with a redirection to nothing or to the first of several
\* words.  A stage of a pipeline is not refused (RunsExpanded).
AmbiguousIsRefused ==
    [][WordDone /\ Head(todo).part = "target" /\ case.launch # "pipeline" =>
          (phase' = "failed" <=> Len(RuledFields) # 1)]_vars

\* characters still to be scanned
Left ==
    LET left[i \in 0..Len(scans)] ==
            IF i = 0 THEN 0 ELSE left[i - 1] + Len(scans[i].word) + 1 - scans[i].pos
    IN  left[Len(scans)]

\* The expansion of every command ends, whatever was typed, be it in the death of
\* the shell: each step leaves fewer words, or fewer characters in the word and the
\* expressions inside it, or one expression less, or is the last.
EveryStepAdvances ==
    [][phase = "expanding" =>
          \/ phase' # "expanding"
          \/ Len(todo') < Len(todo)
          \/ Left' < Left
          \/ Left' = Left /\ Len(scans') < Len(scans)]_vars
-------------------------------------------------------------------------------
(* What a comment of the code says.  A run refutes it.                       *)

\* "so each child inherits a fully-expanded argv"
RunsExpanded == phase = "ready" => todo = <<>>
===============================================================================
