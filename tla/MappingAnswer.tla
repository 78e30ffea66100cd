----------------------------- MODULE MappingAnswer -----------------------------
(***************************************************************************)
(* getMappings as a whole: the query of MappingQuery, whose answer goes to *)
(* the parser of ResponseParser in the buffer that was large enough.       *)
(***************************************************************************)
EXTENDS MappingQuery, ResponseParser

CONSTANT Unit   \* bytes of a unit of the query (64 KB)

ASSUME UnitAssumption == Unit \in Nat /\ Limit * Unit < M

AnswerInit == Init /\ ParserInit

\* The call that succeeds returns the answer and its size.
AnswerArrives == CallSucceeds /\ \E r \in Responses : Receive(r, size * Unit)

Asks == (CallRefused \/ CallFails \/ GiveUp \/ Grow \/ Shrink) /\ UNCHANGED parserVars

AnswerNext == AnswerArrives \/ Asks \/ (Parse /\ UNCHANGED vars)

AnswerSpec == AnswerInit /\ [][AnswerNext]_<<vars, parserVars>>

=============================================================================
