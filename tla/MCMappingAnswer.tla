---------------------------- MODULE MCMappingAnswer ----------------------------
EXTENDS MappingAnswer

\* Four bytes of four values make a word, so M = 256.
Pow4 == <<4, 16, 64>>

\* The word at byte offset o of the words ws, also across two of them.
WordAt(ws, o) ==
  LET low == ws[(o \div 4) + 1]  k == o % 4
  IN  IF k = 0 THEN low
      ELSE (low \div Pow4[k]) + (ws[(o \div 4) + 2] % Pow4[k]) * Pow4[4 - k]

Response(n, ws) == [n |-> n, word |-> [o \in {x \in 0..255 : x + 4 <= n} |-> WordAt(ws, o)]]

Ending == <<0, 0, 0, 0>>

\* One mapping with one target, and wrong sizes, states and counts in the header.
Headers == {Response(n, <<hdr, status, count, 2, 40, 7, 1, 32, 2, 40, 0>> \o Ending)
              : n \in {8, 12, 31, 32, 40, 44}, hdr \in {11, 12, 44, 45},
                status \in {0, 1}, count \in {0, 1, 2, 13}}

\* Roots and targets inside the answer, at its end and beyond; target arrays that
\* overlap other parts, are not aligned, or end beyond the last word.
Entries == {Response(n, <<12, 0, count, v[1], v[2], 7, t[1], t[2], s[1], s[2], 0>> \o Ending)
              : n \in {40, 44, 52}, count \in {1, 2},
                v \in {<<0, 0>>, <<2, 42>>, <<3, 40>>, <<2, 254>>},
                t \in {<<0, 255>>, <<1, 32>>, <<1, 34>>, <<2, 32>>, <<2, 248>>, <<4, 12>>, <<5, 0>>},
                s \in {<<0, 0>>, <<4, 40>>, <<2, 255>>}}

MCResponses == Headers \cup Entries
=============================================================================
