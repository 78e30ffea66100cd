---------------------------- MODULE ResponseParser ----------------------------
(***************************************************************************)
(* ParseMappingsChecked: the answer of BfGetMappings read entry by entry,  *)
(* every count and offset checked before it is used.  Words are M values   *)
(* wide (2^32 in the code); offsets are computed modulo M where the code   *)
(* uses uint32, and exactly where it uses uint64.  A read or a slice past  *)
(* the end of the answer is a panic of the program.                        *)
(*                                                                         *)
(* A string is the range it is read from: <<offset, length>> in bytes.     *)
(***************************************************************************)
EXTENDS Naturals, Sequences

CONSTANTS
  M,           \* values of a word
  MaxMappings, \* maxMappingCount
  MaxTargets,  \* maxTargetCount
  Responses    \* what a call can return: the size, and the word at each offset

ASSUME WidthAssumption == M \in Nat \ {0} /\ MaxMappings \in Nat /\ MaxTargets \in Nat

ASSUME ResponsesAssumption ==
  \A r \in Responses : /\ r.n \in 0..(M - 1)
                       /\ \A o \in 0..(M - 1) : o + 4 <= r.n => r.word[o] \in 0..(M - 1)

HeaderSize == 12
EntrySize  == 20
TargetSize == 8

VARIABLES
  room,     \* length of the buffer the answer is in
  response, \* the answer
  at,       \* where the parser is
  i,        \* mappings done
  entry,    \* the mapping in hand
  j,        \* its targets done
  targets,  \* what they are
  parsed    \* the mappings done

parserVars == <<room, response, at, i, entry, j, targets, parsed>>

Places == {"waiting", "header", "entries", "targets", "accepted", "refused", "panic"}

Strings == (0..(M - 1)) \X (0..(M - 1))
NoEntry == [root |-> <<0, 0>>, flags |-> 0, numTargets |-> 0, targetsOff |-> 0]
EmptyResponse == [n |-> 0, word |-> <<>>]

ParserInit == /\ room = 0 /\ response = EmptyResponse
              /\ at = "waiting"
              /\ i = 0 /\ j = 0
              /\ entry = NoEntry
              /\ targets = <<>> /\ parsed = <<>>

Word(o) == response.word[o]
Readable(o) == o + 4 <= response.n

\* readUTF16 returns the string.
StringFits(off, length) == length % 2 = 0 /\ off + length <= response.n

-----------------------------------------------------------------------------

\* The answer r has come in a buffer of the given size.
Receive(r, size) ==
  /\ at = "waiting"
  /\ room' = size /\ response' = r
  /\ at' = IF r.n > size THEN "refused" ELSE "header"
  /\ UNCHANGED <<i, entry, j, targets, parsed>>

\* The checks of the header and of the size of the entry array.
HeaderFits ==
  /\ response.n >= HeaderSize
  /\ Word(4) = 0
  /\ Word(0) >= HeaderSize /\ Word(0) <= response.n
  /\ Word(8) <= MaxMappings
  /\ HeaderSize + Word(8) * EntrySize <= response.n

ReadHeader ==
  /\ at = "header"
  /\ at' = IF HeaderFits THEN "entries" ELSE "refused"
  /\ UNCHANGED <<room, response, i, entry, j, targets, parsed>>

\* base, and the offsets of the five words read from there.
EntryAt == (HeaderSize + i * EntrySize) % M
EntryField(k) == (EntryAt + k) % M

ReadField(k) == Word(EntryField(k))

EntryRead == [root |-> <<ReadField(4), ReadField(0)>>, flags |-> ReadField(8),
              numTargets |-> ReadField(12), targetsOff |-> ReadField(16)]

\* Fault: the end of the target array is computed in 32 bits.
EntryFitsWrapping(e) ==
  /\ StringFits(e.root[1], e.root[2])
  /\ e.numTargets <= MaxTargets
  /\ (e.targetsOff + e.numTargets * TargetSize) % M <= response.n

\* The checks of an entry and of the size of its target array.
EntryFits(e) ==
  /\ StringFits(e.root[1], e.root[2])
  /\ e.numTargets <= MaxTargets
  /\ e.targetsOff + e.numTargets * TargetSize <= response.n

ReadEntry ==
  /\ at = "entries" /\ i < Word(8)
  /\ IF \A k \in {0, 4, 8, 12, 16} : Readable(EntryField(k))
       THEN IF EntryFits(EntryRead)
              THEN entry' = EntryRead /\ at' = "targets"
              ELSE at' = "refused" /\ UNCHANGED entry
       ELSE at' = "panic" /\ UNCHANGED entry
  /\ j' = 0 /\ targets' = <<>>
  /\ UNCHANGED <<room, response, i, parsed>>

\* tbase, and the string it describes.
TargetAt == (entry.targetsOff + j * TargetSize) % M
TargetOff == (TargetAt + 4) % M

ReadTarget ==
  /\ at = "targets" /\ j < entry.numTargets
  /\ IF ~Readable(TargetAt) \/ ~Readable(TargetOff)
       THEN at' = "panic" /\ UNCHANGED <<j, targets>>
       ELSE IF StringFits(Word(TargetOff), Word(TargetAt))
              THEN /\ targets' = Append(targets, <<Word(TargetOff), Word(TargetAt)>>)
                   /\ j' = j + 1 /\ UNCHANGED at
              ELSE at' = "refused" /\ UNCHANGED <<j, targets>>
  /\ UNCHANGED <<room, response, i, entry, parsed>>

\* Fault: the loop over the targets ends one early.
EndEntryEarly ==
  /\ at = "targets" /\ j + 1 >= entry.numTargets
  /\ parsed' = Append(parsed, [root |-> entry.root, flags |-> entry.flags,
                               targets |-> targets])
  /\ i' = i + 1 /\ at' = "entries"
  /\ UNCHANGED <<room, response, entry, j, targets>>

EndEntry ==
  /\ at = "targets" /\ j = entry.numTargets
  /\ parsed' = Append(parsed, [root |-> entry.root, flags |-> entry.flags,
                               targets |-> targets])
  /\ i' = i + 1 /\ at' = "entries"
  /\ UNCHANGED <<room, response, entry, j, targets>>

EndEntries ==
  /\ at = "entries" /\ i = Word(8)
  /\ at' = "accepted"
  /\ UNCHANGED <<room, response, i, entry, j, targets, parsed>>

Parse == ReadHeader \/ ReadEntry \/ ReadTarget \/ EndEntry \/ EndEntries

ParserNext == Parse \/ \E r \in Responses, size \in 0..(M - 1) : Receive(r, size)

ParserSpec == ParserInit /\ [][ParserNext]_parserVars

-----------------------------------------------------------------------------
(* The format, as docs/BindFilterAPI.md's checklist has it, in exact       *)
(* arithmetic and without an order of reading.                             *)

Target(k, t) == LET o == Word(HeaderSize + k * EntrySize + 16) + t * TargetSize
                IN  <<Word(o + 4), Word(o)>>

Mapping(k) == LET b == HeaderSize + k * EntrySize
              IN  [root |-> <<Word(b + 4), Word(b)>>, flags |-> Word(b + 8),
                   targets |-> [t \in 1..Word(b + 12) |-> Target(k, t - 1)]]

MappingFits(k) ==
  LET b == HeaderSize + k * EntrySize
  IN  /\ StringFits(Word(b + 4), Word(b))
      /\ Word(b + 12) <= MaxTargets
      /\ Word(b + 16) + Word(b + 12) * TargetSize <= response.n
      /\ \A t \in 1..Word(b + 12) : StringFits(Target(k, t - 1)[1], Target(k, t - 1)[2])

WellFormed == /\ response.n <= room
              /\ HeaderFits
              /\ \A k \in 1..Word(8) : MappingFits(k - 1)

-----------------------------------------------------------------------------
(* Properties.                                                             *)

\* Types; the parser never goes past the counts that it has checked.
ParserTypeOK ==
  /\ room \in 0..(M - 1) /\ response \in Responses \cup {EmptyResponse}
  /\ at \in Places
  /\ entry.root \in Strings /\ entry.flags \in 0..(M - 1)
  /\ entry.numTargets \in 0..MaxTargets /\ entry.targetsOff \in 0..(M - 1)
  /\ i \in 0..MaxMappings /\ Len(parsed) = i
  /\ j \in 0..entry.numTargets /\ Len(targets) = j
  /\ at \in {"entries", "targets", "accepted"} => i <= Word(8)

\* No answer, however wrong its counts and offsets, makes the parser read past
\* the end of the answer: checks of one word protect reads of others, in another
\* arithmetic.
NeverPanics == at # "panic"

\* An answer is accepted exactly if it is well formed, and what is returned is
\* what it says: nothing partial is returned with an error.
AnswerIsExact ==
  /\ at = "accepted" => WellFormed /\ parsed = [k \in 1..Word(8) |-> Mapping(k - 1)]
  /\ at = "refused" => ~WellFormed

=============================================================================
