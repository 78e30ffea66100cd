------------------------------ MODULE Conversions ------------------------------
(***************************************************************************)
(* The conversions of CommandLines, AliasReader and ExecArguments against  *)
(* what the other side reads: every input up to a number of words and      *)
(* letters, built letter by letter, and every setting of the GUI's boxes.  *)
(***************************************************************************)
EXTENDS CommandLines, AliasReader, ExecArguments

CONSTANTS
  Alphabet,    \* letters of each kind of input: "arguments", "link", "alias"
  MaxWords,    \* bound, for each kind
  MaxLetters,  \* bound: letters of all words together
  Settings,    \* of the GUI's boxes
  Typed,       \* typed into the boxes for names, directories and links
  CommandWords,\* of commands and their arguments
  Dashed,      \* the words that begin with a dash
  WslLinks,    \* links that block WSL
  WindowsLink, \* the link of the Windows directory
  Covering,    \* link specifications that $windowsDirPattern matches
  Malformed    \* link specifications that splitLinkSpec refuses

ASSUME BoundsAssumption ==
  /\ DOMAIN Alphabet = DOMAIN MaxWords
  /\ \A k \in DOMAIN MaxWords : MaxWords[k] \in Nat
  /\ MaxLetters \in Nat

\* The letters are not those of the boxes.
ASSUME KindsAssumption == "boxes" \notin DOMAIN Alphabet

\* A unit of 0 ends a string.
ASSUME UnitsAssumption == "alias" \in DOMAIN Alphabet => 0 \notin Alphabet["alias"]

\* What exec takes for its own.
Reserved == {"--", "--detach", "--no-ui-restrictions", "--root", "--readonly-root",
             "--passthrough", "--no-passthrough", "--verbose"}

BoxStates ==
  [detach : BOOLEAN, root : BOOLEAN, readOnlyRoot : BOOLEAN, rootDir : Typed \cup {NoDirectory},
   checked : SUBSET PassthroughNames, blockWSL : BOOLEAN, windows : BOOLEAN,
   links : Seq(Typed), name : Typed, command : CommandWords, args : Seq(CommandWords)]

ASSUME DashedAssumption == Reserved \subseteq Dashed

\* What is typed for a name, a directory or a link is none of exec's words.
ASSUME SettingsAssumption ==
  /\ Typed \cap Reserved = {}
  /\ Settings \subseteq BoxStates
  /\ WslLinks \in Seq(Typed) /\ WindowsLink \in Typed

VARIABLES
  kind,   \* what the words are
  words,  \* sequences of letters
  boxes   \* the GUI's

vars == <<kind, words, boxes>>

Kinds == DOMAIN Alphabet

Init == \/ kind \in Kinds /\ words = <<>> /\ boxes = {}
        \/ kind = "boxes" /\ words = <<>> /\ boxes \in Settings

Letters == Len(FlattenSeq(words))

NewWord == /\ kind \in Kinds /\ Len(words) < MaxWords[kind]
           /\ words' = Append(words, <<>>)
           /\ UNCHANGED <<kind, boxes>>

NewLetter == /\ kind \in Kinds /\ words # <<>> /\ Letters < MaxLetters
             /\ \E c \in Alphabet[kind] :
                   words' = [words EXCEPT ![Len(words)] = Append(@, c)]
             /\ UNCHANGED <<kind, boxes>>

Next == NewWord \/ NewLetter

Spec == Init /\ [][Next]_vars

-----------------------------------------------------------------------------
(* Properties.                                                             *)

\* A file name: not empty, without quotes, not a directory's.
IsProgram(w) == w # <<>> /\ ~Contains(w, Quote) /\ Last(w) # Backslash

\* The command that exec and silo exec start has exactly the arguments they were
\* given, with any quotes, spaces and backslashes, also empty ones.
ArgumentsArrive ==
  kind = "arguments" /\ words # <<>> =>
    LET line == BuildCommandLine(words)
    IN  /\ ToArgv(line) = words
        /\ IsProgram(words[1]) => ProgramName(line) = words[1]

\* The GUI's argument string gives bindmount.exe its arguments, as long as no
\* argument holds a quote.
PlainArgumentsArrive ==
  kind = "arguments" /\ (\A k \in DOMAIN words : words[k] # <<>> /\ ~Contains(words[k], Quote))
    => ToArgv(ArgumentString(words)) = words

\* A link is taken apart as it was put together but for roots with an equals
\* sign, a writable link's target that begins with one, and an unmerged link's
\* root that ends in a plus; and the GUI's check of masked links looks at the
\* root that exec maps.
LinksArrive ==
  kind = "link" =>
    /\ Len(words) = 2 /\ words[1] # <<>> /\ words[2] # <<>> =>
         \A readOnly, merged \in BOOLEAN :
            (SplitLinkSpec(AddSpec(words[1], words[2], readOnly, merged)) =
               [outcome |-> "split", root |-> words[1], target |-> words[2],
                readOnly |-> readOnly, merged |-> merged])
              <=> /\ ~Contains(words[1], "=")
                  /\ merged \/ Last(words[1]) # "+"
                  /\ readOnly \/ words[2][1] # "="
    /\ Len(words) = 1 /\ SplitLinkSpec(words[1]).outcome = "split" =>
         GetLinkRoot(words[1]) = SplitLinkSpec(words[1]).root

\* Of strings from byte 12 on the first and the third are returned, whatever
\* follows them, and fewer than three are refused.  Where four bytes that are no
\* letters stand at byte 12, the strings are found from byte 16 on.  Data whose
\* first string is the number of the others is also that of an alias with a count,
\* which the shape does not tell apart.
AliasIsRead ==
  kind = "alias" =>
    LET info == ReadAppExecLinkInfo(Payload(words))
    IN  /\ /\ Len(words) >= 3 /\ \A k \in 1..3 : words[k] # <<>>
           /\ words[1] # <<Len(words) - 1>>
           => info = Info(words)
        /\ Len(words) < 3 => info.outcome # "read"
        /\ /\ Len(words) >= 5 /\ words[1] = <<>> /\ words[2] = <<>>
           /\ \A k \in 3..5 : words[k] # <<>>
           => info = Info(SubSeq(words, 3, Len(words)))

\* exec maps, passes through and starts what the boxes show: the defaults of
\* --root do not bring back a box that was cleared, a link that cannot be split ends
\* exec, and a copied command does the same without --detach.  Entering an existing
\* silo starts the same command, unless its name begins with a dash, which silo exec
\* takes for a flag it does not know.
BoxesReachExec ==
  kind = "boxes" =>
    LET links == GUILinks(boxes, WslLinks, WindowsLink, Covering)
        made  == GetExecArguments(boxes, links)
    IN  made # Refused =>
          /\ ParseExec(made.args, Malformed) =
               IF \E k \in DOMAIN links : links[k] \in Malformed THEN Refused
               ELSE [outcome |-> "parsed", detach |-> boxes.detach,
                     rootDir |-> IF boxes.root THEN boxes.rootDir ELSE NoDirectory,
                     readOnlyRoot |-> boxes.readOnlyRoot, passthrough |-> boxes.checked,
                     links |-> links, jobName |-> boxes.name,
                     cmdArgs |-> <<boxes.command>> \o boxes.args]
          /\ ParseSiloExec(GetExistingSiloExecArguments(boxes), Dashed) =
               IF boxes.name \in Dashed THEN Refused
               ELSE [outcome |-> "parsed", detach |-> TRUE, jobName |-> boxes.name,
                     cmdArgs |-> <<boxes.command>> \o boxes.args]

-----------------------------------------------------------------------------
(* What labels and comments say and the code does not do: see the findings.*)

\* "Arguments (one per line)" (bindmount-gui.ps1:341).
OneArgumentPerLine ==
  kind = "arguments" /\ (\A k \in DOMAIN words : words[k] # <<>>)
    => ToArgv(ArgumentString(words)) = words

\* The parser "falls back to offset 16 for layouts that do carry the 8-byte
\* version+count header" (appexec_windows.go:52-53), and an alias cut short is
\* "data unreadable": it is left out without a word (exec_windows.go:583).
AliasIsReadOrSkipped ==
  kind = "alias" /\ Len(words) >= 3 /\ (\A k \in DOMAIN words : words[k] # <<>>)
    => /\ ReadAppExecLinkInfo(Counted(words)) = Info(words)
       /\ \A data \in Prefixes(Counted(words)) : ReadAppExecLinkInfo(data).outcome # "panic"

=============================================================================
