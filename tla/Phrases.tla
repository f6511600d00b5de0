-------------------------------- MODULE Phrases --------------------------------
(***************************************************************************)
(* What a word means: the structure it was written from, piece by piece.   *)
(* A piece is [kind, dq, text, tree]; dq tells whether it is in double     *)
(* quotes.                                                                 *)
(***************************************************************************)
EXTENDS Words

CONSTANTS Worth(_),    \* what the tree of an expression is worth
          Show(_, _)   \* how it is written, at a level of precedence

Inner(p) ==
    CASE p.kind = "plain"  -> p.text
      [] p.kind = "single" -> <<"'">> \o p.text \o <<"'">>
      [] p.kind = "escape" -> <<"\\">> \o p.text
      [] p.kind = "var"    -> <<"$", "{", "X", "}">>
      [] p.kind = "bare"   -> <<"$", "X">>
      [] p.kind = "status" -> <<"$", "?">>
      [] p.kind = "sub"    -> <<"$", "(">> \o p.text \o <<")">>
      [] p.kind = "sum"    -> <<"$", "(", "(">> \o Show(p.tree, 0) \o <<" ", ")", ")">>

Write(p) == IF p.dq THEN <<"\"">> \o Inner(p) \o <<"\"">> ELSE Inner(p)

WriteWord(pieces) == FlattenSeq([i \in DOMAIN pieces |-> Write(pieces[i])])

From(p) == IF p.dq \/ p.kind \in {"single", "escape"} THEN "quoted"
           ELSE IF p.kind = "plain" THEN "plain" ELSE "expanded"

Worded(p, m, text) == [m EXCEPT !.bytes = @ \o [i \in DOMAIN text |-> <<text[i], From(p)>>]]

\* the meaning of one more piece, given the substitutions still to come
Extend(m, p) ==
    CASE ~m.ok -> m
      [] m.ok /\ p.kind \in {"plain", "single", "escape"} -> Worded(p, m, p.text)
      [] m.ok /\ p.kind \in {"var", "bare"} -> Worded(p, m, ValueOf(<<"X">>))
      [] m.ok /\ p.kind = "status" -> Worded(p, m, Decimal(m.status))
      [] m.ok /\ p.kind = "sub" /\ m.subs # <<>> ->
           [Worded(p, m, Head(m.subs).out) EXCEPT !.status = Head(m.subs).status,
                                                  !.subs = Tail(@)]
      [] m.ok /\ p.kind = "sub" /\ m.subs = <<>> -> [m EXCEPT !.ok = FALSE]
      [] m.ok /\ p.kind = "sum" ->
           LET w == Worth(p.tree)
           IN  IF w.err = "none" THEN Worded(p, m, Decimal(w.val))
               ELSE [m EXCEPT !.ok = FALSE, !.err = w.err]

Meaning(w) == FoldLeft(Extend, [bytes |-> <<>>, subs |-> log.subs, status |-> log.status,
                                ok |-> TRUE, err |-> "none"], w.means)

-------------------------------------------------------------------------------
(* Properties.                                                               *)

\* The scan of a word emits what its pieces mean, in order: quotes keep their
\* contents and are never a boundary, what expands outside quotes always may
\* be, $? is the status of the last substitution before it, an expression is
\* worth its tree, and no word is refused that means something.
ExpandsAsWritten ==
    /\ WordDone /\ Current.means # <<>> =>
          LET m == Meaning(Current)
          IN  /\ m.ok /\ m.subs = <<>> /\ m.status = status
              /\ Chars(Top.buf) = Chars(m.bytes)
              /\ \A i \in DOMAIN m.bytes :
                    /\ m.bytes[i][2] = "quoted" => ~Top.buf[i][2]
                    /\ m.bytes[i][2] = "expanded" => Top.buf[i][2]
    /\ phase \in {"ready", "failed"} /\ todo # <<>> /\ Current.means # <<>> =>
          ~Meaning(Current).ok \/ Head(todo).part = "target"
    /\ phase = "dead" /\ Current.means # <<>> =>
          Meaning(Current).err # "none"

\* An argument with a quoted piece is a field even if it is empty: "$X" with no X
\* does not shift the arguments after it.
QuotedStays ==
    WordDone /\ Current.means # <<>>
        /\ (\E i \in DOMAIN Current.means : LET p == Current.means[i]
                                           IN  p.dq \/ p.kind = "single")
      => WordFields(Top.word, Top.buf) # <<>>
===============================================================================
