------------------------------ MODULE AliasReader ------------------------------
(***************************************************************************)
(* ReadAppExecLinkInfo: the strings of an app execution alias's reparse    *)
(* data.  Data is a sequence of UTF-16 units from byte 12 on; a unit is 0  *)
(* or any other number.                                                    *)
(***************************************************************************)
EXTENDS Naturals, Sequences, SequencesExt

\* parseAllAppExecLinkStrings: up to the first string that is empty or has no end.
ParseAllStrings(data) ==
  LET Take(st, u) ==
        CASE st.over -> st
          [] ~st.over /\ u # 0 -> [st EXCEPT !.word = Append(@, u)]
          [] ~st.over /\ u = 0 /\ st.word = <<>> -> [st EXCEPT !.over = TRUE]
          [] OTHER -> [st EXCEPT !.out = Append(@, st.word), !.word = <<>>]
  IN  FoldLeft(Take, [out |-> <<>>, word |-> <<>>, over |-> FALSE], data).out

Info(strs) == [outcome |-> "read", family |-> strs[1], exe |-> strs[3]]
Outcome(o) == [outcome |-> o, family |-> <<>>, exe |-> <<>>]

EnoughStrings(strs) == Len(strs) > 2

\* Fault: the other layout is tried first.
ReadAppExecLinkInfoSwapped(data) ==
  LET first == ParseAllStrings(data)
      second == ParseAllStrings(SubSeq(data, 3, Len(data)))
  IN  IF Len(data) < 2 THEN Outcome("panic")
      ELSE IF EnoughStrings(second) THEN Info(second)
      ELSE IF EnoughStrings(first) THEN Info(first)
      ELSE Outcome("refused")

\* First from byte 12 on, then from byte 16 on, which slices out of range when
\* the data ends before it.
ReadAppExecLinkInfo(data) ==
  LET first == ParseAllStrings(data)
      second == ParseAllStrings(SubSeq(data, 3, Len(data)))
  IN  IF EnoughStrings(first) THEN Info(first)
      ELSE IF Len(data) < 2 THEN Outcome("panic")
      ELSE IF EnoughStrings(second) THEN Info(second)
      ELSE Outcome("refused")

\* The strings as the data of an alias: from byte 12 on, or after the two units
\* of their count.
Payload(strs) == FlattenSeq([k \in DOMAIN strs |-> strs[k] \o <<0>>])
Counted(strs) == <<Len(strs), 0>> \o Payload(strs)

=============================================================================
