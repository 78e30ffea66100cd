------------------------ MODULE MappingAnswer_proofs ------------------------
(***************************************************************************)
(* What a mapping query does for every buffer limit, number of attempts    *)
(* and history of other processes' changes; the properties of the parser,  *)
(* for every width of a word, every limit of the counts and every answer;  *)
(* and getMappings as a whole has the properties of both.                  *)
(***************************************************************************)
EXTENDS MappingAnswer, TLAPS

-----------------------------------------------------------------------------
(* The query.                                                              *)

\* A retry always asks with more room than before.
LEMMA NextSizeGrows ==
  ASSUME NEW current \in Nat \ {0}, NEW reported \in Nat
  PROVE  /\ NextSize(current, reported) \in Nat
         /\ NextSize(current, reported) > current
         /\ reported > current => NextSize(current, reported) = reported
  BY SMT DEF NextSize

\* The sizes that were tried stay below the next one.
TriedIsBelow == outcome = "asking" => tried < size

\* Every attempt after the first was made with room for what the mappings took
\* when the one before was refused; if that is not enough they have grown since.
\* Growth is counted once for each such attempt.
GrowthPerAttempt ==
  outcome \in {"asking", "exhausted"} /\ reports =>
    /\ growths >= attempt - 1
    /\ attempt > 0 /\ need > size => growths >= attempt

AttemptsAreUsedUp == outcome = "exhausted" => attempt = Attempts

\* The inductive invariant.
IInv == /\ TypeOK
        /\ TriedIsBelow
        /\ GrowthPerAttempt
        /\ AttemptsAreUsedUp
        /\ TooLargeOnlyBeyondLimit

\* The query begins with the first buffer and no growth seen.
LEMMA InitHolds == Init => IInv
  BY SizesAssumption, BoundsAssumption
  DEF Init, IInv, TypeOK, TriedIsBelow, GrowthPerAttempt, AttemptsAreUsedUp,
      TooLargeOnlyBeyondLimit

\* Every step keeps the inductive invariant.
LEMMA NextKeeps == IInv /\ [Next]_vars => IInv'
<1> SUFFICES ASSUME IInv, [Next]_vars PROVE IInv'
  OBVIOUS
<1> USE SizesAssumption, BoundsAssumption
    DEF IInv, TypeOK, TriedIsBelow, GrowthPerAttempt, AttemptsAreUsedUp,
        TooLargeOnlyBeyondLimit
<1>1. CASE CallSucceeds
  BY <1>1 DEF CallSucceeds
<1>2. CASE CallRefused
  <2>1. Reported \in Nat /\ size \in Nat \ {0}
    BY DEF Reported
  <2>2. /\ NextSize(size, Reported) \in Nat
        /\ NextSize(size, Reported) > size
        /\ reports => NextSize(size, Reported) = need
    BY <2>1, <1>2, NextSizeGrows DEF CallRefused, Reported
  <2>3. CASE NextSize(size, Reported) > Limit
    BY <1>2, <2>2, <2>3 DEF CallRefused
  <2>4. CASE ~(NextSize(size, Reported) > Limit)
    BY <1>2, <2>2, <2>4 DEF CallRefused
  <2> QED BY <2>3, <2>4
<1>3. CASE CallFails
  BY <1>3 DEF CallFails
<1>4. CASE GiveUp
  BY <1>4 DEF GiveUp
<1>5. CASE Grow
  BY <1>5 DEF Grow
<1>6. CASE Shrink
  BY <1>6 DEF Shrink
<1>7. CASE UNCHANGED vars
  BY <1>7 DEF vars
<1> QED
  BY <1>1, <1>2, <1>3, <1>4, <1>5, <1>6, <1>7 DEF Next

\* The inductive invariant holds in every reachable state.
THEOREM Invariance == Spec => []IInv
  BY InitHolds, NextKeeps, PTL DEF Spec

\* No buffer of a query is larger than maxMappingsBufferSize.
THEOREM TypeCorrect == Spec => []TypeOK
<1>1. IInv => TypeOK BY DEF IInv
<1> QED BY <1>1, Invariance, PTL

\* getMappings gives up against a filter that reports the room it wants only
\* when the mappings kept growing under it.
THEOREM ExhaustedOnlyByGrowthHolds == Spec => []ExhaustedOnlyByGrowth
<1>1. IInv => ExhaustedOnlyByGrowth
  BY DEF IInv, GrowthPerAttempt, AttemptsAreUsedUp, ExhaustedOnlyByGrowth
<1> QED BY <1>1, Invariance, PTL

\* getMappings refuses to grow, against such a filter, only beyond the limit.
THEOREM TooLargeOnlyBeyondLimitHolds == Spec => []TooLargeOnlyBeyondLimit
<1>1. IInv => TooLargeOnlyBeyondLimit BY DEF IInv
<1> QED BY <1>1, Invariance, PTL

\* Every retry of getMappings has a larger buffer than every call before it.
THEOREM EveryTryIsLargerHolds == Spec => EveryTryIsLarger
<1>1. IInv /\ [Next]_vars => [attempt' > attempt => size' > size /\ tried' > tried]_vars
  <2> SUFFICES ASSUME IInv, Next, attempt' > attempt
               PROVE  size' > size /\ tried' > tried
    OBVIOUS
  <2>1. CallRefused
    BY DEF Next, IInv, TypeOK, CallSucceeds, CallFails, GiveUp, Grow, Shrink
  <2>2. Reported \in Nat /\ size \in Nat \ {0}
    BY SizesAssumption, BoundsAssumption DEF Reported, IInv, TypeOK
  <2>3. NextSize(size, Reported) > size
    BY <2>2, NextSizeGrows
  <2> QED
    BY <2>1, <2>3 DEF CallRefused, IInv, TypeOK, TriedIsBelow
<1> QED BY <1>1, Invariance, PTL DEF Spec, EveryTryIsLarger

-----------------------------------------------------------------------------
(* The parser.                                                             *)

Read == [root : Strings, flags : 0..(M - 1), targets : Seq(Strings)]

Types ==
  /\ room \in 0..(M - 1) /\ response \in Responses \cup {EmptyResponse}
  /\ at \in Places \ {"panic"}
  /\ entry \in [root : Strings, flags : 0..(M - 1), numTargets : 0..MaxTargets,
                targetsOff : 0..(M - 1)]
  /\ i \in 0..MaxMappings /\ j \in 0..entry.numTargets
  /\ targets \in Seq(Strings) /\ Len(targets) = j
  /\ parsed \in Seq(Read) /\ Len(parsed) = i

\* Nothing is parsed before the header has been accepted.
Fresh ==
  /\ at # "waiting" => response \in Responses
  /\ at \in {"waiting", "header"} => i = 0
  /\ at \in {"header", "entries", "targets", "accepted"} => response.n <= room

\* The mappings done are those of the format.
Done ==
  at \in {"entries", "targets", "accepted"} =>
     /\ HeaderFits
     /\ i <= Word(8)
     /\ \A k \in 1..i : MappingFits(k - 1) /\ parsed[k] = Mapping(k - 1)

\* So are the entry in hand and its targets done.
InHand ==
  at = "targets" =>
     /\ i < Word(8)
     /\ LET b == HeaderSize + i * EntrySize
        IN  entry = [root |-> <<Word(b + 4), Word(b)>>, flags |-> Word(b + 8),
                     numTargets |-> Word(b + 12), targetsOff |-> Word(b + 16)]
     /\ EntryFits(entry)
     /\ \A t \in 1..j : /\ targets[t] = Target(i, t - 1)
                        /\ StringFits(targets[t][1], targets[t][2])

Ends == /\ at = "accepted" => i = Word(8)
        /\ at = "refused" => ~WellFormed

PInv == Types /\ Fresh /\ Done /\ InHand /\ Ends

-----------------------------------------------------------------------------
(* Words and offsets.                                                      *)

\* Arithmetic modulo M is exact below M.
LEMMA Exact ==
  ASSUME NEW a \in Nat, a < M
  PROVE  a % M = a
BY WidthAssumption

LEMMA WordType ==
  ASSUME response \in Responses, NEW o \in Nat, o + 4 <= response.n
  PROVE  Word(o) \in 0..(M - 1)
BY WidthAssumption, ResponsesAssumption DEF Word

LEMMA SizeType ==
  ASSUME response \in Responses
  PROVE  response.n \in 0..(M - 1)
BY WidthAssumption, ResponsesAssumption

\* The words of an entry are read where the format has them.
LEMMA FieldExact ==
  ASSUME response \in Responses, HeaderFits, i \in Nat, i < Word(8),
         NEW k \in {0, 4, 8, 12, 16}
  PROVE  /\ EntryField(k) = HeaderSize + i * EntrySize + k
         /\ Readable(EntryField(k))
         /\ ReadField(k) = Word(HeaderSize + i * EntrySize + k)
         /\ ReadField(k) \in 0..(M - 1)
<1>1. response.n \in 0..(M - 1) /\ M \in Nat
  BY SizeType, WidthAssumption
<1>2. Word(8) \in 0..(M - 1)
  BY <1>1, WordType DEF HeaderFits, HeaderSize
<1>3. 12 + i * 20 + 20 <= response.n
  BY <1>1, <1>2 DEF HeaderFits, HeaderSize, EntrySize
<1>4. EntryAt = 12 + i * 20
  <2>1. 12 + i * 20 \in Nat /\ 12 + i * 20 < M
    BY <1>1, <1>3
  <2> QED
    BY <2>1, Exact DEF EntryAt, HeaderSize, EntrySize
<1>5. EntryField(k) = 12 + i * 20 + k
  <2>1. 12 + i * 20 + k \in Nat /\ 12 + i * 20 + k < M
    BY <1>1, <1>3
  <2> QED
    BY <1>4, <2>1, Exact DEF EntryField
<1>6. 12 + i * 20 + k + 4 <= response.n
  BY <1>1, <1>3
<1>7. Word(12 + i * 20 + k) \in 0..(M - 1)
  BY <1>6, WordType
<1> QED
  BY <1>5, <1>6, <1>7 DEF Readable, ReadField, HeaderSize, EntrySize

\* EntryRead is the entry of the format.
LEMMA EntryExact ==
  ASSUME response \in Responses, HeaderFits, i \in Nat, i < Word(8)
  PROVE  /\ \A k \in {0, 4, 8, 12, 16} : Readable(EntryField(k))
         /\ LET b == HeaderSize + i * EntrySize
            IN  EntryRead = [root |-> <<Word(b + 4), Word(b)>>, flags |-> Word(b + 8),
                             numTargets |-> Word(b + 12), targetsOff |-> Word(b + 16)]
         /\ EntryRead \in [root : Strings, flags : 0..(M - 1), numTargets : 0..(M - 1),
                           targetsOff : 0..(M - 1)]
<1>1. \A k \in {0, 4, 8, 12, 16} : /\ Readable(EntryField(k))
                                   /\ ReadField(k) = Word(HeaderSize + i * EntrySize + k)
                                   /\ ReadField(k) \in 0..(M - 1)
  BY FieldExact
<1>2. HeaderSize + i * EntrySize + 0 = HeaderSize + i * EntrySize
  BY DEF HeaderSize, EntrySize
<1> QED
  BY <1>1, <1>2 DEF EntryRead, Strings

\* The words of a target are read where the format has them.
LEMMA TargetExact ==
  ASSUME response \in Responses, NEW e \in [root : Strings, flags : 0..(M - 1),
           numTargets : 0..MaxTargets, targetsOff : 0..(M - 1)],
         entry = e, EntryFits(e), j \in Nat, j < e.numTargets
  PROVE  /\ TargetAt = e.targetsOff + j * TargetSize
         /\ TargetOff = e.targetsOff + j * TargetSize + 4
         /\ Readable(TargetAt) /\ Readable(TargetOff)
         /\ <<Word(TargetOff), Word(TargetAt)>> \in Strings
<1>1. response.n \in 0..(M - 1) /\ M \in Nat /\ MaxTargets \in Nat
  BY SizeType, WidthAssumption
<1>2. e.targetsOff + j * 8 + 8 <= response.n
  BY <1>1 DEF EntryFits, TargetSize
<1>3. TargetAt = e.targetsOff + j * 8
  <2>1. e.targetsOff + j * 8 \in Nat /\ e.targetsOff + j * 8 < M
    BY <1>1, <1>2
  <2> QED
    BY <2>1, Exact DEF TargetAt, TargetSize
<1>4. TargetOff = e.targetsOff + j * 8 + 4
  <2>1. e.targetsOff + j * 8 + 4 \in Nat /\ e.targetsOff + j * 8 + 4 < M
    BY <1>1, <1>2
  <2> QED
    BY <1>3, <2>1, Exact DEF TargetOff
<1>5. Readable(TargetAt) /\ Readable(TargetOff)
  BY <1>1, <1>2, <1>3, <1>4 DEF Readable
<1>6. Word(TargetAt) \in 0..(M - 1) /\ Word(TargetOff) \in 0..(M - 1)
  <2>1. TargetAt \in Nat /\ TargetOff \in Nat
    BY <1>1, <1>3, <1>4
  <2> QED
    BY <1>5, <2>1, WordType DEF Readable
<1> QED
  BY <1>3, <1>4, <1>5, <1>6 DEF TargetSize, Strings

\* Sequences that agree everywhere are equal.
LEMMA SameSequence ==
  ASSUME NEW S, NEW s \in Seq(S), NEW n \in Nat, Len(s) = n, NEW f, DOMAIN f = 1..n,
         f = [t \in DOMAIN f |-> f[t]], \A t \in 1..n : s[t] = f[t]
  PROVE  s = f
<1>1. DOMAIN s = 1..n /\ s = [t \in DOMAIN s |-> s[t]]
  OBVIOUS
<1> QED
  BY <1>1

-----------------------------------------------------------------------------
(* The parser's invariant.                                                 *)

LEMMA ParserInitInv == ParserInit => PInv
<1> SUFFICES ASSUME ParserInit PROVE PInv
  OBVIOUS
<1>1. 0 \in 0..(M - 1) /\ 0 \in 0..MaxTargets /\ 0 \in 0..MaxMappings /\ 0 \in 0..0
  BY WidthAssumption
<1>2. NoEntry \in [root : Strings, flags : 0..(M - 1), numTargets : 0..MaxTargets,
                   targetsOff : 0..(M - 1)]
  BY <1>1 DEF NoEntry, Strings
<1>3. Types
  BY <1>1, <1>2 DEF ParserInit, Types, Places, NoEntry
<1> QED
  BY <1>3 DEF ParserInit, PInv, Fresh, Done, InHand, Ends

LEMMA ReceiveKeeps ==
  ASSUME PInv, NEW r \in Responses, NEW len \in 0..(M - 1), Receive(r, len)
  PROVE  PInv'
<1>1. /\ at = "waiting" /\ room' = len /\ response' = r
      /\ at' = IF r.n > len THEN "refused" ELSE "header"
      /\ UNCHANGED <<i, entry, j, targets, parsed>>
  BY DEF Receive
<1>2. Types'
  BY <1>1 DEF PInv, Types, Places
<1>3. r.n \in 0..(M - 1)
  BY WidthAssumption, ResponsesAssumption
<1>4. Fresh'
  BY <1>1, <1>3 DEF PInv, Fresh
<1>5. Done' /\ InHand'
  BY <1>1 DEF Done, InHand
<1>6. Ends'
  BY <1>1, <1>3 DEF Ends, WellFormed
<1> QED
  BY <1>2, <1>4, <1>5, <1>6 DEF PInv

LEMMA ReadHeaderKeeps ==
  ASSUME PInv, ReadHeader
  PROVE  PInv'
<1>1. /\ at = "header" /\ at' = IF HeaderFits THEN "entries" ELSE "refused"
      /\ UNCHANGED <<room, response, i, entry, j, targets, parsed>>
  BY DEF ReadHeader
<1>2. Types' /\ Fresh'
  BY <1>1 DEF PInv, Types, Fresh, Places
<1>3. response \in Responses /\ i = 0
  BY <1>1 DEF PInv, Fresh
<1>4. Done'
  <2> SUFFICES ASSUME HeaderFits PROVE Done'
    BY <1>1 DEF Done
  <2>1. Word(8) \in 0..(M - 1) /\ Word(8)' = Word(8) /\ HeaderFits'
    <3>1. 8 + 4 <= response.n
      BY <1>3, SizeType, WidthAssumption DEF HeaderFits, HeaderSize
    <3> QED
      BY <1>1, <1>3, <3>1, WordType DEF HeaderFits, Word
  <2>2. 1..i' = {} /\ i' <= Word(8)'
    BY <1>1, <1>3, <2>1, WidthAssumption
  <2> QED
    BY <2>1, <2>2 DEF Done
<1>5. InHand'
  BY <1>1 DEF InHand
<1>6. Ends'
  BY <1>1 DEF Ends, WellFormed, HeaderFits, Word
<1> QED
  BY <1>2, <1>4, <1>5, <1>6 DEF PInv

LEMMA ReadEntryKeeps ==
  ASSUME PInv, ReadEntry
  PROVE  PInv'
<1>1. /\ at = "entries" /\ i < Word(8) /\ i \in Nat /\ i \in 0..MaxMappings
      /\ response \in Responses /\ HeaderFits
  BY WidthAssumption DEF ReadEntry, PInv, Types, Fresh, Done
<1>2. /\ \A k \in {0, 4, 8, 12, 16} : Readable(EntryField(k))
      /\ LET b == HeaderSize + i * EntrySize
         IN  EntryRead = [root |-> <<Word(b + 4), Word(b)>>, flags |-> Word(b + 8),
                          numTargets |-> Word(b + 12), targetsOff |-> Word(b + 16)]
      /\ EntryRead \in [root : Strings, flags : 0..(M - 1), numTargets : 0..(M - 1),
                        targetsOff : 0..(M - 1)]
  BY <1>1, EntryExact
<1>3. /\ j' = 0 /\ targets' = <<>> /\ UNCHANGED <<room, response, i, parsed>>
      /\ IF EntryFits(EntryRead) THEN entry' = EntryRead /\ at' = "targets"
                                 ELSE at' = "refused" /\ UNCHANGED entry
  BY <1>2 DEF ReadEntry
<1>4. \A o : Word(o)' = Word(o)
  BY <1>3 DEF Word
<1>5. HeaderFits' /\ (\A k : MappingFits(k)' = MappingFits(k) /\ Mapping(k)' = Mapping(k))
  BY <1>1, <1>3 DEF HeaderFits, MappingFits, Mapping, Target, StringFits, Word
<1>6. CASE EntryFits(EntryRead)
  <2>1. EntryRead.numTargets \in 0..MaxTargets
    BY <1>2, <1>6, WidthAssumption DEF EntryFits
  <2>2. entry' \in [root : Strings, flags : 0..(M - 1), numTargets : 0..MaxTargets,
                    targetsOff : 0..(M - 1)]
    BY <1>2, <1>3, <1>6, <2>1
  <2>3. 0 \in 0..entry'.numTargets
    BY <2>2, WidthAssumption
  <2>4. Types'
    BY <1>3, <1>6, <2>2, <2>3 DEF PInv, Types, Places
  <2>5. Fresh' /\ Ends'
    BY <1>1, <1>3, <1>6 DEF PInv, Fresh, Ends
  <2>6. Done'
    BY <1>1, <1>3, <1>4, <1>5 DEF PInv, Done
  <2>7. InHand'
    <3>1. 1..j' = {}
      BY <1>3
    <3>2. EntryFits(entry)'
      BY <1>3, <1>6 DEF EntryFits, StringFits
    <3> QED
      BY <1>1, <1>2, <1>3, <1>4, <1>6, <3>1, <3>2 DEF InHand
  <2> QED
    BY <2>4, <2>5, <2>6, <2>7 DEF PInv
<1>7. CASE ~EntryFits(EntryRead)
  <2>1. Types'
    <3>1. 0 \in 0..entry.numTargets
      BY WidthAssumption DEF PInv, Types
    <3> QED
      BY <1>3, <1>7, <3>1 DEF PInv, Types, Places
  <2>2. Fresh' /\ Done' /\ InHand'
    BY <1>1, <1>3, <1>7 DEF PInv, Fresh, Done, InHand
  <2>3. ~MappingFits(i)
    BY <1>2, <1>7 DEF EntryFits, MappingFits
  <2>4. ~WellFormed
    <3>1. Word(8) \in 0..(M - 1)
      <4>1. 8 + 4 <= response.n
        BY <1>1, SizeType, WidthAssumption DEF HeaderFits, HeaderSize
      <4> QED
        BY <1>1, <4>1, WordType
    <3>2. i + 1 \in 1..Word(8) /\ (i + 1) - 1 = i
      BY <1>1, <3>1, WidthAssumption
    <3> QED
      BY <2>3, <3>2 DEF WellFormed
  <2>5. Ends'
    <3>1. WellFormed' = WellFormed
      BY <1>3 DEF WellFormed, HeaderFits, MappingFits, Target, StringFits, Word
    <3> QED
      BY <1>3, <1>7, <2>4, <3>1 DEF Ends
  <2> QED
    BY <2>1, <2>2, <2>5 DEF PInv
<1> QED
  BY <1>6, <1>7

LEMMA ReadTargetKeeps ==
  ASSUME PInv, ReadTarget
  PROVE  PInv'
<1> DEFINE string == <<Word(TargetOff), Word(TargetAt)>>
<1>1. /\ at = "targets" /\ j < entry.numTargets /\ response \in Responses
      /\ EntryFits(entry) /\ i < Word(8) /\ HeaderFits
      /\ entry \in [root : Strings, flags : 0..(M - 1), numTargets : 0..MaxTargets,
                    targetsOff : 0..(M - 1)]
  BY DEF ReadTarget, PInv, Types, Fresh, InHand, Done
<1>2. j \in Nat /\ i \in Nat /\ entry.numTargets \in Nat
  BY <1>1, WidthAssumption DEF PInv, Types
<1>3. /\ TargetAt = entry.targetsOff + j * TargetSize
      /\ TargetOff = entry.targetsOff + j * TargetSize + 4
      /\ Readable(TargetAt) /\ Readable(TargetOff)
      /\ string \in Strings
  BY <1>1, <1>2, TargetExact
<1>4. string = Target(i, j)
  BY <1>1, <1>3 DEF Target, PInv, InHand
<1>5. /\ UNCHANGED <<room, response, i, entry, parsed>>
      /\ IF StringFits(Word(TargetOff), Word(TargetAt))
           THEN targets' = Append(targets, string) /\ j' = j + 1 /\ UNCHANGED at
           ELSE at' = "refused" /\ UNCHANGED <<j, targets>>
  BY <1>3 DEF ReadTarget
<1>6. \A o : Word(o)' = Word(o)
  BY <1>5 DEF Word
<1>7. /\ HeaderFits'
      /\ \A k : MappingFits(k)' = MappingFits(k) /\ Mapping(k)' = Mapping(k)
      /\ \A k, t : Target(k, t)' = Target(k, t)
  BY <1>1, <1>5 DEF HeaderFits, MappingFits, Mapping, Target, StringFits, Word
<1>8. CASE StringFits(Word(TargetOff), Word(TargetAt))
  <2>1. j + 1 \in 0..entry.numTargets
    BY <1>1, <1>2
  <2>2. /\ targets' \in Seq(Strings) /\ Len(targets') = j + 1
        /\ targets'[j + 1] = string
        /\ \A t \in 1..j : targets'[t] = targets[t]
    <3>1. targets \in Seq(Strings) /\ Len(targets) = j
      BY DEF PInv, Types
    <3>2. targets' = Append(targets, string)
      BY <1>5, <1>8
    <3> HIDE DEF string
    <3> QED
      BY <1>2, <1>3, <3>1, <3>2
  <2>3. Types' /\ Fresh' /\ Ends'
    BY <1>1, <1>5, <1>8, <2>1, <2>2 DEF PInv, Types, Fresh, Ends
  <2>4. Done'
    BY <1>5, <1>6, <1>7, <1>8 DEF PInv, Done
  <2>5. InHand'
    <3>1. \A t \in 1..j' : /\ targets'[t] = Target(i, t - 1)
                           /\ StringFits(targets'[t][1], targets'[t][2])
      <4> SUFFICES ASSUME NEW t \in 1..j'
                   PROVE  /\ targets'[t] = Target(i, t - 1)
                          /\ StringFits(targets'[t][1], targets'[t][2])
        OBVIOUS
      <4>1. CASE t \in 1..j
        <5>1. targets'[t] = targets[t]
          BY <2>2, <4>1
        <5> QED
          BY <1>1, <4>1, <5>1 DEF PInv, InHand
      <4>2. CASE t = j + 1
        <5>1. targets'[t] = string
          BY <2>2, <4>2
        <5>2. t - 1 = j
          BY <1>2, <4>2
        <5> QED
          BY <1>4, <1>8, <5>1, <5>2
      <4> QED
        BY <1>2, <1>5, <1>8, <4>1, <4>2
    <3>2. EntryFits(entry)' /\ (\A x, y : StringFits(x, y)' = StringFits(x, y))
      BY <1>1, <1>5 DEF EntryFits, StringFits
    <3> QED
      BY <1>1, <1>5, <1>6, <1>7, <1>8, <3>1, <3>2 DEF PInv, InHand
  <2> QED
    BY <2>3, <2>4, <2>5 DEF PInv
<1>9. CASE ~StringFits(Word(TargetOff), Word(TargetAt))
  <2>1. Types' /\ Fresh' /\ Done' /\ InHand'
    BY <1>1, <1>5, <1>9 DEF PInv, Types, Fresh, Done, InHand, Places
  <2>2. ~MappingFits(i)
    <3>1. entry.numTargets = Word(HeaderSize + i * EntrySize + 12)
      BY <1>1 DEF PInv, InHand
    <3>2. j + 1 \in 1..entry.numTargets /\ (j + 1) - 1 = j
      BY <1>1, <1>2
    <3>3. ~StringFits(Target(i, j)[1], Target(i, j)[2])
      BY <1>4, <1>9
    <3> QED
      BY <3>1, <3>2, <3>3 DEF MappingFits
  <2>3. ~WellFormed
    <3>1. Word(8) \in 0..(M - 1)
      <4>1. 8 + 4 <= response.n
        BY <1>1, SizeType, WidthAssumption DEF HeaderFits, HeaderSize
      <4> QED
        BY <1>1, <4>1, WordType
    <3>2. i + 1 \in 1..Word(8) /\ (i + 1) - 1 = i
      BY <1>1, <1>2, <3>1, WidthAssumption
    <3> QED
      BY <2>2, <3>2 DEF WellFormed
  <2>4. Ends'
    <3>1. WellFormed' = WellFormed
      BY <1>5 DEF WellFormed, HeaderFits, MappingFits, Target, StringFits, Word
    <3> QED
      BY <1>5, <1>9, <2>3, <3>1 DEF Ends
  <2> QED
    BY <2>1, <2>4 DEF PInv
<1> QED
  BY <1>8, <1>9

LEMMA EndEntryKeeps ==
  ASSUME PInv, EndEntry
  PROVE  PInv'
<1> DEFINE m == [root |-> entry.root, flags |-> entry.flags, targets |-> targets]
           b == HeaderSize + i * EntrySize
<1>1. /\ at = "targets" /\ j = entry.numTargets /\ response \in Responses
      /\ EntryFits(entry) /\ i < Word(8) /\ HeaderFits
      /\ entry \in [root : Strings, flags : 0..(M - 1), numTargets : 0..MaxTargets,
                    targetsOff : 0..(M - 1)]
      /\ entry = [root |-> <<Word(b + 4), Word(b)>>, flags |-> Word(b + 8),
                  numTargets |-> Word(b + 12), targetsOff |-> Word(b + 16)]
  BY DEF EndEntry, PInv, Types, Fresh, InHand, Done
<1>2. j \in Nat /\ i \in Nat
  BY <1>1, WidthAssumption DEF PInv, Types
<1>3. /\ parsed' = Append(parsed, m) /\ i' = i + 1 /\ at' = "entries"
      /\ UNCHANGED <<room, response, entry, j, targets>>
  BY DEF EndEntry
<1>4. m \in Read
  BY <1>1 DEF PInv, Types, Read
<1>5. Word(8) \in 0..(M - 1) /\ Word(8) <= MaxMappings
  <2>1. 8 + 4 <= response.n
    BY <1>1, SizeType, WidthAssumption DEF HeaderFits, HeaderSize
  <2> QED
    BY <1>1, <2>1, WordType DEF HeaderFits
<1>6. i + 1 \in 0..MaxMappings /\ i + 1 <= Word(8)
  BY <1>1, <1>2, <1>5, WidthAssumption
<1>7. Types'
  BY <1>3, <1>4, <1>6 DEF PInv, Types, Places
<1>8. Fresh' /\ InHand' /\ Ends'
  BY <1>1, <1>3 DEF PInv, Fresh, InHand, Ends
<1>9. /\ HeaderFits' /\ \A o : Word(o)' = Word(o)
      /\ \A k : MappingFits(k)' = MappingFits(k) /\ Mapping(k)' = Mapping(k)
  BY <1>1, <1>3 DEF HeaderFits, MappingFits, Mapping, Target, StringFits, Word
<1>10. m = Mapping(i)
  <2> DEFINE f == [t \in 1..Word(b + 12) |-> Target(i, t - 1)]
  <2>1. Word(b + 12) = j
    BY <1>1
  <2>2. \A t \in 1..j : targets[t] = Target(i, t - 1)
    BY <1>1 DEF PInv, InHand
  <2>3. targets = f
    <3>1. targets \in Seq(Strings) /\ Len(targets) = j
      BY DEF PInv, Types
    <3>2. DOMAIN f = 1..j /\ f = [t \in DOMAIN f |-> f[t]] /\ \A t \in 1..j : targets[t] = f[t]
      BY <2>1, <2>2
    <3> HIDE DEF f
    <3> QED
      BY <1>2, <3>1, <3>2, SameSequence
  <2> QED
    BY <1>1, <2>3 DEF Mapping
<1>11. MappingFits(i)
  <2>1. StringFits(Word(b + 4), Word(b)) /\ Word(b + 12) <= MaxTargets
        /\ Word(b + 16) + Word(b + 12) * TargetSize <= response.n
    BY <1>1 DEF EntryFits
  <2>2. \A t \in 1..Word(b + 12) : StringFits(Target(i, t - 1)[1], Target(i, t - 1)[2])
    BY <1>1 DEF PInv, InHand
  <2> QED
    BY <2>1, <2>2 DEF MappingFits
<1>12. Done'
  <2>1. ASSUME NEW k \in 1..i' PROVE MappingFits(k - 1) /\ parsed'[k] = Mapping(k - 1)
    <3>1. CASE k \in 1..i
      <4>1. parsed'[k] = parsed[k]
        BY <1>2, <1>3, <1>4, <3>1 DEF PInv, Types
      <4> QED
        BY <1>1, <3>1, <4>1 DEF PInv, Done
    <3>2. CASE k = i + 1
      <4>1. parsed'[k] = m
        BY <1>2, <1>3, <1>4, <3>2 DEF PInv, Types
      <4>2. k - 1 = i
        BY <1>2, <3>2
      <4> QED
        BY <1>10, <1>11, <4>1, <4>2
    <3>3. k \in 1..i \/ k = i + 1
      <4>1. k \in 1..(i + 1)
        BY <1>3
      <4> QED
        BY <1>2, <4>1
    <3> QED
      BY <3>1, <3>2, <3>3
  <2> QED
    BY <1>3, <1>6, <1>9, <2>1 DEF Done
<1> QED
  BY <1>7, <1>8, <1>12 DEF PInv

LEMMA EndEntriesKeeps ==
  ASSUME PInv, EndEntries
  PROVE  PInv'
<1>1. /\ at = "entries" /\ i = Word(8) /\ at' = "accepted"
      /\ UNCHANGED <<room, response, i, entry, j, targets, parsed>>
  BY DEF EndEntries
<1>2. Types' /\ Fresh' /\ InHand'
  BY <1>1 DEF PInv, Types, Fresh, InHand, Places
<1>3. /\ HeaderFits' = HeaderFits /\ Word(8)' = Word(8)
      /\ \A k : MappingFits(k)' = MappingFits(k) /\ Mapping(k)' = Mapping(k)
  BY <1>1 DEF HeaderFits, MappingFits, Mapping, Target, StringFits, Word
<1>4. Done'
  BY <1>1, <1>3 DEF PInv, Done
<1>5. Ends'
  BY <1>1, <1>3 DEF Ends
<1> QED
  BY <1>2, <1>4, <1>5 DEF PInv

LEMMA ParserStutterKeeps ==
  ASSUME PInv, UNCHANGED parserVars
  PROVE  PInv'
BY DEF parserVars, PInv, Types, Fresh, Done, InHand, Ends, HeaderFits, EntryFits,
       MappingFits, Mapping, Target, StringFits, WellFormed, Word

LEMMA ParserStepKeeps == PInv /\ [ParserNext]_parserVars => PInv'
<1> SUFFICES ASSUME PInv, [ParserNext]_parserVars PROVE PInv'
  OBVIOUS
<1>1. CASE Parse
  BY <1>1, ReadHeaderKeeps, ReadEntryKeeps, ReadTargetKeeps, EndEntryKeeps,
     EndEntriesKeeps DEF Parse
<1>2. CASE \E r \in Responses, len \in 0..(M - 1) : Receive(r, len)
  BY <1>2, ReceiveKeeps
<1>3. CASE UNCHANGED parserVars
  BY <1>3, ParserStutterKeeps
<1> QED
  BY <1>1, <1>2, <1>3 DEF ParserNext

\* The invariant behind the parser's properties: what it has read so far is what
\* the format says, and its offsets are exact.
THEOREM ParserInvariance == ParserSpec => []PInv
<1>1. ParserInit => PInv
  BY ParserInitInv
<1>2. PInv /\ [ParserNext]_parserVars => PInv'
  BY ParserStepKeeps
<1> QED
  BY <1>1, <1>2, PTL DEF ParserSpec

LEMMA PInvImplies == PInv => ParserTypeOK /\ NeverPanics /\ AnswerIsExact
<1> SUFFICES ASSUME PInv PROVE ParserTypeOK /\ NeverPanics /\ AnswerIsExact
  OBVIOUS
<1>1. ParserTypeOK
  BY DEF PInv, Types, Done, ParserTypeOK
<1>2. NeverPanics
  BY DEF PInv, Types, NeverPanics
<1>3. ASSUME at = "accepted"
      PROVE  WellFormed /\ parsed = [k \in 1..Word(8) |-> Mapping(k - 1)]
  <2>1. HeaderFits /\ i = Word(8) /\ response.n <= room
        /\ \A k \in 1..i : MappingFits(k - 1) /\ parsed[k] = Mapping(k - 1)
    BY <1>3 DEF PInv, Fresh, Done, Ends
  <2> DEFINE f == [k \in 1..Word(8) |-> Mapping(k - 1)]
  <2>2. parsed \in Seq(Read) /\ Len(parsed) = i /\ i \in Nat
    BY WidthAssumption DEF PInv, Types
  <2>3. DOMAIN f = 1..i /\ f = [k \in DOMAIN f |-> f[k]] /\ \A k \in 1..i : parsed[k] = f[k]
    BY <2>1
  <2>4. parsed = f
    <3> HIDE DEF f
    <3> QED
      BY <2>2, <2>3, SameSequence
  <2> QED
    BY <2>1, <2>4 DEF WellFormed
<1>4. AnswerIsExact
  BY <1>3 DEF AnswerIsExact, PInv, Ends
<1> QED
  BY <1>1, <1>2, <1>4

-----------------------------------------------------------------------------
(* getMappings as a whole.                                                 *)

\* A step of getMappings is a step of the query or of the parser, never both but
\* when the answer passes from the one to the other (bindfilter's getMappings).
THEOREM AnswerImplements == AnswerSpec => Spec /\ ParserSpec
<1>1. AnswerInit => Init /\ ParserInit
  BY DEF AnswerInit
<1>2. TypeOK /\ [AnswerNext]_<<vars, parserVars>>
        => [Next]_vars /\ [ParserNext]_parserVars
  <2> SUFFICES ASSUME TypeOK, [AnswerNext]_<<vars, parserVars>>
               PROVE  [Next]_vars /\ [ParserNext]_parserVars
    OBVIOUS
  <2>1. CASE AnswerArrives
    <3>1. size * Unit \in 0..(M - 1)
      <4>1. size \in Nat /\ size <= Limit /\ Limit \in Nat /\ Unit \in Nat /\ M \in Nat
        BY SizesAssumption, UnitAssumption, WidthAssumption DEF TypeOK
      <4>2. size * Unit <= Limit * Unit /\ size * Unit \in Nat
        BY <4>1
      <4> QED
        BY <4>1, <4>2, UnitAssumption
    <3> QED
      BY <2>1, <3>1 DEF AnswerArrives, Next, ParserNext
  <2>2. CASE Asks
    BY <2>2 DEF Asks, Next
  <2>3. CASE Parse /\ UNCHANGED vars
    BY <2>3 DEF ParserNext
  <2>4. CASE UNCHANGED <<vars, parserVars>>
    BY <2>4
  <2> QED
    BY <2>1, <2>2, <2>3, <2>4 DEF AnswerNext
<1>3. IInv => TypeOK
  BY DEF IInv
<1>4. Init => IInv
  BY InitHolds
<1>5. IInv /\ [Next]_vars => IInv'
  BY NextKeeps
<1> QED
  BY <1>1, <1>2, <1>3, <1>4, <1>5, PTL DEF AnswerSpec, Spec, ParserSpec

\* Whatever the filter returns, getMappings does not panic over it.
THEOREM NeverPanicsHolds == AnswerSpec => []NeverPanics
<1>1. PInv => NeverPanics
  BY PInvImplies
<1> QED
  BY <1>1, AnswerImplements, ParserInvariance, PTL

\* What getMappings returns is what a well-formed answer says, and it refuses
\* every other one.
THEOREM AnswerIsExactHolds == AnswerSpec => []AnswerIsExact
<1>1. PInv => AnswerIsExact
  BY PInvImplies
<1> QED
  BY <1>1, AnswerImplements, ParserInvariance, PTL

\* Types of the parser within getMappings.
THEOREM ParserTypeCorrect == AnswerSpec => []ParserTypeOK
<1>1. PInv => ParserTypeOK
  BY PInvImplies
<1> QED
  BY <1>1, AnswerImplements, ParserInvariance, PTL

\* The properties of the query hold of getMappings.
THEOREM QueryHolds ==
  AnswerSpec => /\ []TypeOK /\ []ExhaustedOnlyByGrowth /\ []TooLargeOnlyBeyondLimit
                /\ EveryTryIsLarger
BY AnswerImplements, TypeCorrect, ExhaustedOnlyByGrowthHolds,
   TooLargeOnlyBeyondLimitHolds, EveryTryIsLargerHolds, PTL

=============================================================================
