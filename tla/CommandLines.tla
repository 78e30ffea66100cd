----------------------------- MODULE CommandLines -----------------------------
(***************************************************************************)
(* Arguments on their way into a command line and out of it: quoteArg and  *)
(* buildCommandLine of bindmount, Quote-ProcessArgument of the GUI, and    *)
(* the reader on the other side, which follows CommandLineToArgvW.         *)
(***************************************************************************)
EXTENDS Naturals, Sequences, SequencesExt

Space     == " "
Quote     == "\""
Backslash == "\\"

Repeat(c, n) == [k \in 1..n |-> c]

NeedsQuotes(s) == Contains(s, Space) \/ Contains(s, Quote)

\* s with every quote escaped: the backslashes before it doubled, and extra more.
Escaped(s, extra) ==
  LET Escape(st, c) ==
        IF c = Backslash THEN [st EXCEPT !.slashes = @ + 1]
        ELSE [out |-> st.out \o Repeat(Backslash, IF c = Quote THEN 2 * st.slashes + extra
                                                  ELSE st.slashes) \o <<c>>,
              slashes |-> 0]
  IN  FoldLeft(Escape, [out |-> <<>>, slashes |-> 0], s)

InQuotes(text, trailing) == <<Quote>> \o text \o Repeat(Backslash, trailing) \o <<Quote>>

\* Fault: the backslashes before the closing quote are not doubled.
QuoteArgOpen(s) ==
  IF s # <<>> /\ ~NeedsQuotes(s) THEN s
  ELSE LET e == Escaped(s, 1) IN InQuotes(e.out, e.slashes)

QuoteArg(s) ==
  IF s # <<>> /\ ~NeedsQuotes(s) THEN s
  ELSE LET e == Escaped(s, 1) IN InQuotes(e.out, 2 * e.slashes)

Joined(words) == FlattenSeq([k \in DOMAIN words |->
                               (IF k = 1 THEN <<>> ELSE <<Space>>) \o words[k]])

BuildCommandLine(args) == Joined([k \in DOMAIN args |-> QuoteArg(args[k])])

\* Fault: the backslashes before the closing quote are not doubled.
QuoteProcessArgumentOpen(s) ==
  IF ~NeedsQuotes(s) THEN s
  ELSE LET e == Escaped(s, 2) IN InQuotes(e.out, e.slashes)

\* The replacement '$1$1\\"' puts two backslashes before a quote: a backslash is
\* no escape in a replacement.
QuoteProcessArgument(s) ==
  IF ~NeedsQuotes(s) THEN s
  ELSE LET e == Escaped(s, 2) IN InQuotes(e.out, 2 * e.slashes)

\* The argument string of Start-Bindmount and of Copy command.
ArgumentString(args) == Joined([k \in DOMAIN args |-> QuoteProcessArgument(args[k])])

-----------------------------------------------------------------------------
(* The reader.  An odd number of backslashes before a quote makes it part  *)
(* of the argument, an even number leaves it a delimiter; in either case   *)
(* half of them stay.  A quote right behind a closing one is one too.      *)

Start == [args |-> <<>>, word |-> <<>>, open |-> FALSE, quoted |-> FALSE,
          closed |-> FALSE, slashes |-> 0]

WithSlashes(st, n) == [st EXCEPT !.word = @ \o Repeat(Backslash, n), !.slashes = 0,
                                 !.open = TRUE, !.closed = FALSE]

EndWord(st) ==
  IF ~st.open THEN st
  ELSE LET w == WithSlashes(st, st.slashes)
       IN  [w EXCEPT !.args = Append(@, w.word), !.word = <<>>, !.open = FALSE]

TakeChar(st, c) ==
  CASE c = Backslash -> [st EXCEPT !.slashes = @ + 1, !.open = TRUE, !.closed = FALSE]
    [] c = Quote ->
         LET w == WithSlashes(st, st.slashes \div 2)
         IN  IF st.slashes % 2 = 1 \/ (st.closed /\ st.slashes = 0)
               THEN [w EXCEPT !.word = Append(@, Quote)]
               ELSE [w EXCEPT !.quoted = ~@, !.closed = st.quoted]
    [] c = Space /\ ~st.quoted -> EndWord(st)
    [] OTHER -> LET w == WithSlashes(st, st.slashes) IN [w EXCEPT !.word = Append(@, c)]

ToArgv(line) == EndWord(FoldLeft(TakeChar, Start, line)).args

\* The name of the program: in quotes up to the next one, else up to a space.
ProgramName(line) ==
  LET Ends(c) == c = IF line[1] = Quote THEN Quote ELSE Space
      text == IF line[1] = Quote THEN Tail(line) ELSE line
      at == SelectInSeq(text, Ends)
  IN  IF at = 0 THEN text ELSE SubSeq(text, 1, at - 1)

=============================================================================
