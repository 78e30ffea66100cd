----------------------------- MODULE MappingQuery -----------------------------
(***************************************************************************)
(* getMappings: one BfGetMappings query that starts with a small buffer    *)
(* and grows it while the filter says that it is too small, against a      *)
(* filter whose mappings other processes add and remove between the calls. *)
(* Sizes are counted in units of the first buffer (64 KB).                 *)
(***************************************************************************)
EXTENDS Integers

CONSTANTS
  Start,      \* size of the first buffer
  Limit,      \* maxMappingsBufferSize
  Attempts,   \* calls of one query
  MaxNeed,    \* bound: the room the mappings can take
  MaxGrowths  \* bound: times the mappings grow during one query

ASSUME SizesAssumption ==
  /\ Start \in Nat \ {0} /\ Limit \in Nat /\ Start <= Limit
  /\ Attempts \in Nat \ {0}

ASSUME BoundsAssumption == MaxNeed \in Nat /\ MaxGrowths \in Nat

VARIABLES
  reports,  \* the filter's refusals say how much room it wants
  need,     \* room the mappings take now
  growths,  \* times the mappings have grown since the query began
  size,     \* room of the next call's buffer
  attempt,  \* calls that were refused
  tried,    \* room of the largest buffer that was handed to the filter
  outcome   \* "asking", or how the query ended

vars == <<reports, need, growths, size, attempt, tried, outcome>>

Init == /\ reports \in BOOLEAN
        /\ need \in 0..MaxNeed
        /\ growths = 0
        /\ size = Start
        /\ attempt = 0
        /\ tried = 0
        /\ outcome = "asking"

\* Faults: the report is ignored; it is trusted even when it is no improvement;
\* some headroom is added to it.
NextSizeByDoubling(current, reported)   == 2 * current
NextSizeAsReported(current, reported)   == reported
NextSizeWithHeadroom(current, reported) ==
  IF reported <= current THEN 2 * current ELSE 2 * reported

\* nextMappingsBufferSize: the reported size, or twice the current one when the
\* report is no improvement.
NextSize(current, reported) == IF reported <= current THEN 2 * current ELSE reported

\* What a refusal leaves in the size argument: the room the mappings take, or
\* what the caller passed in.
Reported == IF reports THEN need ELSE size

-----------------------------------------------------------------------------

\* The buffer is large enough: the answer goes to the parser.
CallSucceeds ==
  /\ outcome = "asking"
  /\ attempt < Attempts
  /\ need <= size
  /\ outcome' = "answered"
  /\ tried' = size
  /\ UNCHANGED <<reports, need, growths, size, attempt>>

\* Fault: the limit is not checked.
CallRefusedUnlimited ==
  /\ outcome = "asking"
  /\ attempt < Attempts
  /\ need > size
  /\ tried' = size
  /\ size' = NextSize(size, Reported)
  /\ attempt' = attempt + 1
  /\ UNCHANGED <<reports, need, growths, outcome>>

\* ERROR_INSUFFICIENT_BUFFER or ERROR_MORE_DATA: grow, unless the limit is
\* reached; after the last attempt give up.
CallRefused ==
  /\ outcome = "asking"
  /\ attempt < Attempts
  /\ need > size
  /\ tried' = size
  /\ LET next == NextSize(size, Reported)
     IN  IF next > Limit
           THEN outcome' = "too_large" /\ UNCHANGED <<size, attempt>>
           ELSE size' = next /\ attempt' = attempt + 1 /\ UNCHANGED outcome
  /\ UNCHANGED <<reports, need, growths>>

\* Any other error ends the query.
CallFails ==
  /\ outcome = "asking"
  /\ attempt < Attempts
  /\ outcome' = "failed"
  /\ tried' = size
  /\ UNCHANGED <<reports, need, growths, size, attempt>>

\* The loop is over without an answer.
GiveUp ==
  /\ outcome = "asking"
  /\ attempt = Attempts
  /\ outcome' = "exhausted"
  /\ UNCHANGED <<reports, need, growths, size, attempt, tried>>

\* Another process adds or removes mappings between two calls.
Grow ==
  /\ outcome = "asking"
  /\ growths < MaxGrowths
  /\ need' \in (need + 1)..MaxNeed
  /\ growths' = growths + 1
  /\ UNCHANGED <<reports, size, attempt, tried, outcome>>

Shrink ==
  /\ outcome = "asking"
  /\ need' \in 0..(need - 1)
  /\ UNCHANGED <<reports, growths, size, attempt, tried, outcome>>

Next == CallSucceeds \/ CallRefused \/ CallFails \/ GiveUp \/ Grow \/ Shrink

Spec == Init /\ [][Next]_vars

-----------------------------------------------------------------------------
(* Properties.                                                             *)

\* Every variable has its type, and no buffer is larger than the limit.
TypeOK == /\ reports \in BOOLEAN
          /\ need \in 0..MaxNeed
          /\ growths \in 0..MaxGrowths
          /\ size \in Start..Limit
          /\ attempt \in 0..Attempts
          /\ tried \in 0..Limit
          /\ outcome \in {"asking", "answered", "too_large", "failed", "exhausted"}

\* With a filter that reports the room it wants, the query gives up only when
\* the mappings outgrew a buffer that was large enough when it was asked for,
\* once for every attempt after the first.
ExhaustedOnlyByGrowth ==
  outcome = "exhausted" /\ reports => growths >= Attempts - 1

\* With such a filter only mappings that do not fit under the limit make the
\* query refuse to grow.
TooLargeOnlyBeyondLimit == outcome = "too_large" /\ reports => need > Limit

\* A query that is refused again is refused with a larger buffer: no size is
\* tried twice.
EveryTryIsLarger ==
  [][attempt' > attempt => size' > size /\ tried' > tried]_vars

=============================================================================
