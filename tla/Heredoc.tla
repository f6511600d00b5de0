------------------------------- MODULE Heredoc -------------------------------
(***************************************************************************)
(* How 42sh reads one logical line and finds the body of every heredoc:    *)
(* the reader (srcs/input.c) scans physical lines, swallows bodies at once *)
(* and queues them; the lexer and parser read the joined line again; the   *)
(* collector (srcs/parser/parser_heredoc.c) gives the queued bodies to the *)
(* redirections of the tree, and reads the input itself when none is left. *)
(*                                                                         *)
(* A physical line is a sequence of these pieces of text:                  *)
(*   "w"  a blank and a word            "A" "B"  a letter, glued to        *)
(*   "<<" "<<-"  heredoc operators               what is before it         *)
(*   "sq" "dq"  a single, a double quote                                   *)
(*   "(" ")" "semi" "|"  operators, "semi" the semicolon                   *)
(*   "$("  start of a substitution      "\\"  a backslash at the end       *)
(*   "#"  start of a comment            "x#"  a blank and a word with a #  *)
(*   "alias"  a blank and a word that has the alias "w <<A"                *)
(*   "\t"  a tab                                                           *)
(* "\n" is what joins two of them.  In the joined line each piece carries  *)
(* the place it was read at, which names the operators.                    *)
(*                                                                         *)
(* An operator whose name begins with Bad is not part of the model: it is  *)
(* the definition after it with a plausible slip, which the properties are *)
(* shown to catch.                                                         *)
(***************************************************************************)
EXTENDS Naturals, Sequences, FiniteSets, SequencesExt

CONSTANTS Lines,     \* the physical lines the input may hold
          MaxLines,  \* bound: how many of them are ever read
          Sources    \* where the input may come from

Letters   == {"A", "B"}
Operators == {"<<", "<<-"}
Quotes    == {"sq", "dq"}
Pieces    == Letters \cup Operators \cup Quotes
             \cup {"w", "(", ")", "semi", "|", "$(", "\\", "#", "x#", "alias", "\t"}

ASSUME HeredocAssumption ==
    /\ Lines \subseteq Seq(Pieces) \ {<< >>}
    /\ \A text \in Lines : \A i \in DOMAIN text :
          /\ text[i] \in Operators => i = Len(text) \/ text[i + 1] \in Letters
          /\ text[i] = "\\" => i = Len(text)
          /\ text[i] \in Quotes \cup {"$("} => i > 1 /\ text[i - 1] \notin Letters
          /\ text[i] = "alias" => i = Len(text) \/ text[i + 1] \notin
                                     Letters \cup Quotes \cup {"$(", "\\"}
    /\ MaxLines \in Nat \ {0}
    /\ Sources \subseteq {"terminal", "stream", "command"}

VARIABLES
    source,     \* "terminal": shell->interactive; "command": shell->cmd_entrypoint
    nread,      \* how many lines have been read
    eof,        \* the stream is at its end
    pc,         \* what the shell is doing
    buf,        \* the logical line so far
    ctx,        \* t_lcont_ctx
    queue,      \* shell->heredoc_body_queue: the operator each body was read for
    todo,       \* heredoc redirections of the tree that ast_walk has yet to visit
    given,      \* those it has given a body, each with the body's operator
    sigint,     \* g_sigint_heredoc
    \* history
    left,       \* the queue was not empty when this logical line was begun
    mishap,     \* "rescanned": the line was scanned again with a body of it queued
                \* or below a comment; "cut": the input ended after a backslash
    spoiled     \* a line that leaves bodies behind has been met

line  == <<buf, ctx, todo, given, mishap>>
vars  == <<source, nread, eof, pc, line, queue, sigint, left, spoiled>>

Places == (0..MaxLines) \X Nat
At(n, text) == [i \in DOMAIN text |-> [t |-> text[i], at |-> <<n, i>>]]
Nowhere == <<0, 0>>     \* the place of what was not read: a joint, an alias's value
Newline == <<[t |-> "\n", at |-> Nowhere]>>
NoLine  == [sq |-> FALSE, dq |-> FALSE, depth |-> 0, bs |-> FALSE, pending |-> << >>]

-------------------------------------------------------------------------------
(* The reader's scanner.                                                   *)

Op(x) == [at |-> x.at, strip |-> x.t = "<<-", delim |-> << >>]

\* what read_hd_delim takes into a delimiter: a newline, on a line scanned again
InDelimiter == Letters \cup {"\n"}

\* the delimiter, or the word of the token, of the last of ops goes on
Grown(ops, t) == [ops EXCEPT ![Len(ops)].delim = Append(@, t)]

\* slip: a closing parenthesis with nothing open counts too
BadUnquoted(d, x) ==
    CASE x.t \in {"#", "x#"} -> [d EXCEPT !.halt = TRUE]
      [] x.t \in {"(", "$("} -> [d EXCEPT !.depth = @ + 1]
      [] x.t = ")" -> [d EXCEPT !.depth = @ - 1]
      [] x.t \in Operators -> [d EXCEPT !.pending = Append(@, Op(x)), !.open = TRUE]
      [] OTHER -> d

\* a piece outside quotes; a comment ends the scan
Unquoted(d, x) ==
    CASE x.t \in {"#", "x#"} -> [d EXCEPT !.halt = TRUE]
      [] x.t \in {"(", "$("} -> [d EXCEPT !.depth = @ + 1]
      [] x.t = ")" /\ d.depth > 0 -> [d EXCEPT !.depth = @ - 1]
      [] x.t \in Operators -> [d EXCEPT !.pending = Append(@, Op(x)), !.open = TRUE]
      [] OTHER -> d

\* slip: operators are seen inside double quotes too
BadScanPiece(c, x) ==
    IF c.halt THEN c
    ELSE IF c.open /\ x.t \in InDelimiter THEN [c EXCEPT !.pending = Grown(@, x.t)]
    ELSE LET d == [c EXCEPT !.open = FALSE]
         IN  CASE x.t = "\\" /\ ~c.sq -> [d EXCEPT !.bs = TRUE, !.halt = TRUE]
               [] x.t = "sq" /\ ~c.dq  -> [d EXCEPT !.sq = ~@]
               [] x.t = "dq" /\ ~c.sq -> [d EXCEPT !.dq = ~@]
               [] OTHER -> IF c.sq THEN d ELSE Unquoted(d, x)

\* one turn of the loop of scan_line_into; halt is its early return, open says
\* that read_hd_delim is in the word of the last pending operator
ScanPiece(c, x) ==
    IF c.halt THEN c
    ELSE IF c.open /\ x.t \in InDelimiter THEN [c EXCEPT !.pending = Grown(@, x.t)]
    ELSE LET d == [c EXCEPT !.open = FALSE]
         IN  CASE x.t = "\\" /\ ~c.sq -> [d EXCEPT !.bs = TRUE, !.halt = TRUE]
               [] x.t = "sq" /\ ~c.dq  -> [d EXCEPT !.sq = ~@]
               [] x.t = "dq" /\ ~c.sq -> [d EXCEPT !.dq = ~@]
               [] OTHER -> IF c.sq \/ c.dq THEN d ELSE Unquoted(d, x)

\* an operator that ends the text without a word is not pending
WithWord(s) == IF s.open /\ Last(s.pending).delim = << >> THEN Front(s.pending)
               ELSE s.pending

\* the loop of scan_line_into, from the quotes and parentheses of c
Scanned(text, c) ==
    LET s[i \in 0..Len(text)] ==
            IF i = 0 THEN [sq |-> c.sq, dq |-> c.dq, depth |-> c.depth, bs |-> FALSE,
                           pending |-> << >>, halt |-> FALSE, open |-> FALSE]
            ELSE ScanPiece(s[i - 1], text[i])
    IN  s[Len(text)]

Scan(text, c) ==
    LET s == Scanned(text, c)
    IN  [sq |-> s.sq, dq |-> s.dq, depth |-> s.depth, bs |-> s.bs, pending |-> WithWord(s)]

\* needs_continuation, and what shell_read_logical_line does about it
Phase(c) == IF c.bs THEN "backslash"
            ELSE IF c.pending # << >> THEN "body"
            ELSE IF c.sq \/ c.dq \/ c.depth > 0 THEN "more" ELSE "parse"

-------------------------------------------------------------------------------
(* The lexer and the parser.                                               *)

Token(k, x) == [k |-> k, at |-> x.at, strip |-> x.t = "<<-", delim |-> << >>]

\* cmd_pos of alias_scan_step: no word since the last separator
InCommandPosition(toks) ==
    \A i \in DOMAIN toks : toks[i].k = "w" =>
        \E j \in i..Len(toks) : toks[j].k \in {"(", "semi", "|", "\n"}

\* a token begins; only the word after an operator goes on
Put(l, k, x) == [l EXCEPT !.open = k = "op", !.out = Append(@, Token(k, x))]

\* read_word, inside quotes or a substitution
LexInside(l, x) ==
    CASE x.t \in Quotes ->
           [l EXCEPT !.q = IF l.q = "none" THEN x.t ELSE IF l.q = x.t THEN "none" ELSE l.q]
      [] x.t \in {"(", "$("} /\ l.q # "sq" /\ (x.t = "$(" \/ l.sub > 0) ->
           [l EXCEPT !.sub = @ + 1]
      [] x.t = ")" /\ l.q # "sq" /\ l.sub > 0 -> [l EXCEPT !.sub = @ - 1]
      [] OTHER -> l

\* the word and the operator that the one alias stands for
Expanded(l, x) ==
    [l EXCEPT !.open = FALSE, !.out = @ \o
        <<Token("w", x), [Token("op", x) EXCEPT !.at = Nowhere, !.delim = <<"A">>]>>]

LexOutside(l, x) ==
    CASE x.t = "$("          -> [Put(l, "w", x) EXCEPT !.sub = 1]
      [] x.t \in Quotes      -> [Put(l, "w", x) EXCEPT !.q = x.t]
      [] x.t = "#"           -> [l EXCEPT !.note = TRUE, !.open = FALSE]
      [] x.t \in Letters     -> IF l.open THEN [l EXCEPT !.out = Grown(@, x.t)]
                                ELSE Put(l, "w", x)
      [] x.t \in Operators   -> Put(l, "op", x)
      [] x.t = "alias"       -> IF InCommandPosition(l.out) THEN Expanded(l, x)
                                ELSE Put(l, "w", x)
      [] x.t \in {"w", "x#"} -> Put(l, "w", x)
      [] x.t = "\t"          -> [l EXCEPT !.open = FALSE]
      [] x.t \in {"(", ")", "semi", "|", "\\", "\n"} ->
           [Put(l, x.t, x) EXCEPT !.note = FALSE]

\* lexer_tokenize, with alias_expand_tokens for the one alias; q is the open
\* quote, sub the depth of an open $(, note an open comment
LexPiece(l, x) ==
    IF l.note /\ x.t # "\n" THEN l
    ELSE IF l.q # "none" \/ l.sub > 0 THEN LexInside(l, x) ELSE LexOutside(l, x)

LexStart == [q |-> "none", sub |-> 0, note |-> FALSE, open |-> FALSE, out |-> << >>]

Lexed(text, from) ==
    LET l[i \in 0..Len(text)] == IF i = 0 THEN from ELSE LexPiece(l[i - 1], text[i])
    IN  l[Len(text)]

Lex(text) == Lexed(text, LexStart).out

Count(toks, i, k) == Cardinality({j \in 1..i : toks[j].k = k})
Depth(toks, i)    == Count(toks, i, "(") - Count(toks, i, ")")

\* parse_command: what begins a command
Starts == {"w", "op", "("}
\* detect_separator, parse_list: what may follow a separator
Separated == Starts \cup {")", "end"}
\* nl: newlines in between; only a simple command skips them after a pipe, and
\* elsewhere they separate
AfterPipe(nl)    == IF nl THEN Starts \ {"("} ELSE Starts
AfterGroup(nl)   == IF nl THEN Separated \cup {"semi"} ELSE {"op", "semi", "|", ")", "end"}
AfterCommand(nl) == AfterGroup(nl) \cup {"w"}

\* the tokens that may follow k
Follow(k, nl) ==
    CASE k \in {"start", "("} -> Starts
      [] k = "semi" -> Separated
      [] k = "|" -> AfterPipe(nl)
      [] k = ")" -> AfterGroup(nl)
      [] k \in {"w", "op"} -> AfterCommand(nl)

\* the heredoc operators
Ops(toks) == {i \in DOMAIN toks : toks[i].k = "op"}

\* parser_parse accepts the tokens
Parses(toks) ==
    LET n    == Len(toks)
        k(i) == IF i = 0 THEN "start" ELSE IF i = n + 1 THEN "end" ELSE toks[i].k
        nl(i) == k(i) = "\n"
    IN  /\ \A i \in 1..n : Count(toks, i, "(") >= Count(toks, i, ")")
        /\ Count(toks, n, "(") = Count(toks, n, ")")
        /\ \A i \in Ops(toks) : toks[i].delim # << >>
        /\ \A i \in 0..n : \A j \in (i+1)..(n+1) :
              ~nl(i) /\ ~nl(j) /\ (\A m \in (i+1)..(j-1) : nl(m))
                  => k(j) \in Follow(k(i), j > i + 1)

\* the parenthesis that opens the group whose redirection list holds token i
Closer(toks, i) ==
    {j \in 1..(i-1) : toks[j].k = ")" /\ \A m \in (j+1)..(i-1) : toks[m].k = "op"}
Opener(toks, j) ==
    Max({i \in 1..(j-1) : toks[i].k = "(" /\ Depth(toks, i) = Depth(toks, j) + 1})
VisitKey(toks, i) == IF Closer(toks, i) = {} THEN i
                     ELSE Opener(toks, CHOOSE j \in Closer(toks, i) : TRUE)

\* the tokens at some places, in order
Selected(toks, at) ==
    LET sel[i \in 0..Len(toks)] ==
            IF i = 0 THEN << >>
            ELSE IF i \in at THEN Append(sel[i - 1], toks[i]) ELSE sel[i - 1]
    IN  sel[Len(toks)]

\* ast_walk: left before right, but the redirections of a group before its
\* child, and each list in text order
WalkOrder(toks) ==
    LET walk[k \in 0..Len(toks)] ==
            IF k = 0 THEN << >>
            ELSE walk[k - 1] \o Selected(toks, {i \in Ops(toks) : VisitKey(toks, i) = k})
    IN  walk[Len(toks)]

-------------------------------------------------------------------------------
(* The steps.  A read takes one physical line, or finds the end.           *)

CanRead == nread < MaxLines /\ ~eof
Took    == nread' = nread + 1 /\ eof' = eof
\* at the terminal an end of input is one keystroke and more may follow
Ended   == nread' = nread /\ eof' = (source # "terminal")

Matches(text, h) ==
    LET tabs == {i \in DOMAIN text : \A j \in 1..i : text[j] = "\t"}
    IN  h.delim = IF h.strip THEN SubSeq(text, Cardinality(tabs) + 1, Len(text)) ELSE text

\* the line is over: its tree is freed
Forget == /\ buf' = << >> /\ ctx' = NoLine /\ todo' = << >> /\ given' = << >>
          /\ mishap' = {}
          /\ pc' = IF source = "command" THEN "done" ELSE "prompt"

\* shell_read_logical_line: the first line
ReadPrimary(text) ==
    /\ pc = "prompt" /\ CanRead /\ Took
    /\ buf' = At(nread', text)
    /\ ctx' = Scan(buf', NoLine)
    /\ pc' = Phase(ctx')
    /\ left' = (queue # << >>)
    /\ UNCHANGED <<source, todo, given, mishap, queue, sigint, spoiled>>

\* end of input at the prompt ends repl_loop or shell_run_stream
EndOfInput ==
    /\ pc = "prompt" /\ Ended /\ pc' = "done"
    /\ UNCHANGED <<source, line, queue, sigint, left, spoiled>>

\* operators of the text so far whose bodies are queued
Drained(text) ==
    {i \in DOMAIN text : text[i].t \in Operators /\ text[i].at \in ToSet(queue)}

\* the loop of the reader stops for good at a comment of an earlier line
BelowComment(text) ==
    \E i, j \in DOMAIN text : i < j /\ text[i].t = "#" /\ text[j].t = "\n"

\* handle_trailing_bs
JoinBackslash(text) ==
    /\ pc = "backslash" /\ CanRead /\ Took
    /\ buf' = Front(buf) \o At(nread', text)
    /\ ctx' = Scan(buf', NoLine)
    /\ pc' = Phase(ctx')
    /\ mishap' = mishap \cup {m \in {"rescanned"} : Drained(buf) # {} \/ BelowComment(buf)}
    /\ UNCHANGED <<source, todo, given, queue, sigint, left, spoiled>>

EndAfterBackslash ==
    /\ pc = "backslash" /\ Ended
    /\ buf' = Front(buf) /\ ctx' = NoLine /\ pc' = "parse"
    /\ mishap' = mishap \cup {"cut"}
    /\ UNCHANGED <<source, todo, given, queue, sigint, left, spoiled>>

\* read_and_join_one
JoinLine(text) ==
    /\ pc = "more" /\ CanRead /\ Took
    /\ buf' = buf \o Newline \o At(nread', text)
    /\ ctx' = Scan(At(nread', text), ctx)
    /\ pc' = Phase(ctx')
    /\ UNCHANGED <<source, todo, given, mishap, queue, sigint, left, spoiled>>

EndInMore ==
    /\ pc = "more" /\ Ended /\ pc' = "parse"
    /\ UNCHANGED <<source, line, queue, sigint, left, spoiled>>

\* slip: the body goes to the front of the queue
BadBodyDone ==
    /\ queue' = <<Head(ctx.pending).at>> \o queue
    /\ ctx' = [ctx EXCEPT !.pending = Tail(@)]
    /\ pc' = Phase(ctx')
    /\ UNCHANGED <<source, buf, todo, given, mishap, sigint, left, spoiled>>

\* the body of the first pending operator is complete: it is queued, and when
\* it was the last the loop of shell_read_logical_line goes on
BodyDone ==
    /\ queue' = Append(queue, Head(ctx.pending).at)
    /\ ctx' = [ctx EXCEPT !.pending = Tail(@)]
    /\ pc' = Phase(ctx')
    /\ UNCHANGED <<source, buf, todo, given, mishap, sigint, left, spoiled>>

\* collect_hd_body, drain_pending_heredocs
ReadBody(text) ==
    /\ pc = "body" /\ CanRead /\ Took
    /\ IF Matches(text, Head(ctx.pending)) THEN BodyDone
       ELSE UNCHANGED <<source, line, pc, queue, sigint, left, spoiled>>

\* slip: the end of input does not end the body
BadEndInBody ==
    pc = "body" /\ Ended /\ UNCHANGED <<source, line, pc, queue, sigint, left, spoiled>>
EndInBody == pc = "body" /\ Ended /\ BodyDone

\* process_line: a comment is dropped, a line that does not parse is reported;
\* neither looks at the queue
Parse ==
    /\ pc = "parse"
    /\ \E toks \in {Lex(buf)} :
          IF toks # << >> /\ Parses(toks)
          THEN /\ todo' = WalkOrder(toks) /\ pc' = "walk" /\ sigint' = FALSE
               /\ UNCHANGED <<buf, ctx, given, mishap, spoiled>>
          ELSE Forget /\ sigint' = sigint /\ spoiled' = (spoiled \/ queue # << >>)
    /\ UNCHANGED <<source, nread, eof, queue, left>>

\* collect_heredoc: the next redirection of the walk gets a body
Give(for) == /\ given' = Append(given, [op |-> Head(todo).at, for |-> for])
             /\ todo' = Tail(todo)
             /\ UNCHANGED <<source, pc, buf, ctx, mishap, sigint, left, spoiled>>

\* slip: the body stays at the head of the queue
BadPopQueued ==
    /\ pc = "walk" /\ todo # << >> /\ queue # << >>
    /\ Give(Head(queue))
    /\ UNCHANGED <<nread, eof, queue>>

\* pop_queued_heredoc
PopQueued ==
    /\ pc = "walk" /\ todo # << >> /\ queue # << >>
    /\ Give(Head(queue)) /\ queue' = Tail(queue)
    /\ UNCHANGED <<nread, eof>>

\* read_heredoc with nothing queued: under -c the body is empty, else the lines
\* that follow on the input up to the delimiter or the end
Unqueued == pc = "walk" /\ todo # << >> /\ queue = << >>
EmptyBody ==
    /\ Unqueued /\ source = "command" /\ Give(Head(todo).at)
    /\ UNCHANGED <<nread, eof, queue>>
ReadFallback(text) ==
    /\ Unqueued /\ source # "command" /\ ~sigint /\ CanRead /\ Took
    /\ IF Matches(text, Head(todo)) THEN Give(Head(todo).at)
       ELSE UNCHANGED <<source, pc, line, sigint, left, spoiled>>
    /\ UNCHANGED queue
EndInFallback ==
    /\ Unqueued /\ source # "command" /\ ~sigint /\ Ended /\ Give(Head(todo).at)
    /\ UNCHANGED queue

\* heredoc_sigint_handler: installed while the tree is walked
Interrupt ==
    /\ pc = "walk" /\ ~sigint /\ sigint' = TRUE
    /\ UNCHANGED <<source, nread, eof, pc, buf, ctx, todo, given, mishap, queue,
                   left, spoiled>>

\* read_heredoc returns -1: parser_parse frees the tree
Abort ==
    /\ Unqueued /\ source # "command" /\ sigint /\ sigint' = FALSE
    /\ Forget
    /\ UNCHANGED <<source, nread, eof, queue, left, spoiled>>

\* the walk is over: parser_parse returns the tree
Collected ==
    /\ pc = "walk" /\ todo = << >> /\ pc' = "run" /\ sigint' = FALSE
    /\ UNCHANGED <<source, nread, eof, line, queue, left, spoiled>>

Has(text, ts) == \E i \in DOMAIN text : text[i].t \in ts

\* executor_execute and ast_free; the child of a substitution pops its own copy
\* of the queue (run_in_child)
Execute ==
    /\ pc = "run" /\ Forget
    /\ spoiled' = (spoiled \/ "rescanned" \in mishap \/ Has(buf, {"$(", "x#"}))
    /\ UNCHANGED <<source, nread, eof, queue, sigint, left>>

Over == pc = "done" /\ UNCHANGED vars

-------------------------------------------------------------------------------

Init ==
    /\ source \in Sources
    /\ IF source = "command"
       THEN /\ nread = 1 /\ pc = "parse"
            /\ \E text \in Lines : buf = At(1, text)
       ELSE nread = 0 /\ pc = "prompt" /\ buf = << >>
    /\ eof = FALSE
    /\ ctx = NoLine
    /\ queue = << >>
    /\ todo = << >>
    /\ given = << >>
    /\ sigint = FALSE
    /\ left = FALSE
    /\ mishap = {}
    /\ spoiled = FALSE

ReadEnds == EndOfInput \/ EndAfterBackslash \/ EndInMore \/ EndInBody \/ EndInFallback

Reads ==
    \E text \in Lines :
        \/ ReadPrimary(text) \/ JoinBackslash(text) \/ JoinLine(text)
        \/ ReadBody(text) \/ ReadFallback(text)

Collect == PopQueued \/ EmptyBody \/ Abort \/ Collected

Next == Reads \/ ReadEnds \/ Parse \/ Collect \/ Execute \/ Interrupt \/ Over

Spec == Init /\ [][Next]_vars

\* the shell runs its own code, and at the end of the input a read returns;
\* nothing is assumed of who supplies the input
FairSpec == Spec /\ WF_vars(Collect \/ Execute) /\ WF_vars(eof /\ ReadEnds)
                 /\ WF_pc(pc = "parse" /\ pc' \in {"walk", "prompt", "done"}) \* Parse

-------------------------------------------------------------------------------
(* Properties.                                                             *)

Redirs == [at : Places, strip : BOOLEAN, delim : Seq(InDelimiter)]
Tokens == [k : {"w", "op", "(", ")", "semi", "|", "\\", "\n"}, at : Places,
           strip : BOOLEAN, delim : Seq(Letters)]

\* Every variable stays in its range; no closing parenthesis takes the depth
\* of the scanner below zero.
TypeOK ==
    /\ source \in Sources /\ nread \in 0..MaxLines /\ eof \in BOOLEAN
    /\ pc \in {"prompt", "backslash", "body", "more", "parse", "walk", "run", "done"}
    /\ buf \in Seq([t : Pieces \cup {"\n"}, at : Places])
    /\ ctx \in [sq : BOOLEAN, dq : BOOLEAN, depth : Nat, bs : BOOLEAN,
                pending : Seq(Redirs)]
    /\ queue \in Seq(Places)
    /\ todo \in Seq(Tokens)
    /\ given \in Seq([op : Places, for : Places])
    /\ mishap \subseteq {"rescanned", "cut"}
    /\ {sigint, left, spoiled} \subseteq BOOLEAN

\* no piece that the scanner and the lexer are known to read differently
Plain(text) == ~Has(text, {"$(", "x#", "alias"})

\* nothing was queued before this line, and it was scanned once
Clean == source # "command" /\ ~left /\ "rescanned" \notin mishap

Ats(toks) == [i \in DOMAIN toks |-> toks[i].at]

\* every heredoc operator has its word
Worded(toks) == \A i \in Ops(toks) : toks[i].delim # << >>

\* The reader swallows a body for exactly the operators that the lexer, reading
\* the joined line again, takes for heredocs, in their order: over quotes,
\* comments, parentheses and continuations no command is taken for a body and no
\* body for a command.
ScannerAgrees ==
    pc = "parse" /\ Clean /\ mishap = {} /\ Plain(buf) /\ Worded(Lex(buf)) =>
        queue = Ats(Selected(Lex(buf), Ops(Lex(buf))))

\* no group that has a heredoc both inside and in its own redirections
Flat(toks) ==
    \A i \in DOMAIN toks : toks[i].k = "op" /\ Closer(toks, i) # {} =>
        \A m \in VisitKey(toks, i)..Min(Closer(toks, i)) : toks[m].k # "op"

\* When the line is run, every heredoc redirection holds the body that was read
\* for its own operator.
OwnBody ==
    pc = "run" /\ Clean /\ Plain(buf) /\ Flat(Lex(buf)) =>
        \A i \in DOMAIN given : given[i].for = given[i].op

\* No body is left in the queue for the next line, unless a line failed to
\* parse, held a substitution or a word the scanner takes for a comment, or was
\* scanned again with a body of it queued or below a comment.
NothingLeft == pc = "prompt" /\ ~spoiled => queue = << >>

\* The end of a stream ends the shell, whatever was open or pending: no loop of
\* the reader or the collector waits for a line that cannot come.
EndOfInputEnds == eof ~> pc = "done"

===============================================================================
