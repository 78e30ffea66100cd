----------------------------- MODULE ExecArguments -----------------------------
(***************************************************************************)
(* The arguments of exec: what Get-ExecArguments makes of the GUI's boxes, *)
(* what the flag loop of cmdExecInner and parseLinkFlags make of them, and *)
(* parseSiloExecArgs.  Arguments are words; a link specification is also a *)
(* sequence of characters, which splitLinkSpec and Get-LinkRoot take apart.*)
(***************************************************************************)
EXTENDS Naturals, Sequences, FiniteSets, SequencesExt

Refused == [outcome |-> "refused"]

-----------------------------------------------------------------------------
(* Link specifications.                                                    *)

IsEquals(c) == c = "="

\* The root in s up to its first "=" sign; a plus at its end is the mark of a
\* merged mapping.
WithoutPlus(root) == IF root # <<>> /\ Last(root) = "+" THEN Front(root) ELSE root

\* Fault: the double sign is looked for first.
SplitLinkSpecDoubleFirst(s) ==
  LET double == {k \in 1..(Len(s) - 1) : s[k] = "=" /\ s[k + 1] = "="}
      first == IF double # {} THEN CHOOSE k \in double : \A x \in double : k <= x
               ELSE SelectInSeq(s, IsEquals)
      root == SubSeq(s, 1, first - 1)
      readOnly == double # {}
      target == SubSeq(s, first + (IF readOnly THEN 2 ELSE 1), Len(s))
  IN  IF first <= 1 \/ WithoutPlus(root) = <<>> \/ target = <<>> THEN Refused
      ELSE [outcome |-> "split", root |-> WithoutPlus(root), target |-> target,
            readOnly |-> readOnly, merged |-> Last(root) = "+"]

SplitLinkSpec(s) ==
  LET first == SelectInSeq(s, IsEquals)
      root == SubSeq(s, 1, first - 1)
      readOnly == first < Len(s) /\ s[first + 1] = "="
      target == SubSeq(s, first + (IF readOnly THEN 2 ELSE 1), Len(s))
  IN  IF first <= 1 \/ WithoutPlus(root) = <<>> \/ target = <<>> THEN Refused
      ELSE [outcome |-> "split", root |-> WithoutPlus(root), target |-> target,
            readOnly |-> readOnly, merged |-> Last(root) = "+"]

\* What the GUI takes for the root of a link, and how it writes one.
GetLinkRoot(s) == LET first == SelectInSeq(s, IsEquals)
                  IN  IF first <= 1 THEN <<>> ELSE WithoutPlus(SubSeq(s, 1, first - 1))

AddSpec(root, target, readOnly, merged) ==
  root \o (IF merged THEN <<"+">> ELSE <<>>)
       \o (IF readOnly THEN <<"=", "=">> ELSE <<"=">>) \o target

-----------------------------------------------------------------------------
(* The flag loops.                                                         *)

PassthroughNames == {"executable", "path", "cwd", "gitroot", "appstate", "appexec", "powershell"}

NoDirectory == ""

NoFlags == [detach |-> FALSE, noUI |-> FALSE, rootDir |-> NoDirectory, readOnlyRoot |-> FALSE,
            verbose |-> FALSE, on |-> {}, set |-> {}, rest |-> <<>>, want |-> "flag"]

\* One argument; want says what the one before it asks for.
TakeFlag(st, a) ==
  CASE st.want = "error" -> st
    [] st.want = "dir"   -> [st EXCEPT !.rootDir = a, !.want = "flag"]
    [] st.want \in {"--passthrough", "--no-passthrough"} ->
         IF a \notin PassthroughNames THEN [st EXCEPT !.want = "error"]
         ELSE [st EXCEPT !.on = IF st.want = "--passthrough" THEN @ \cup {a} ELSE @ \ {a},
                         !.set = @ \cup {a}, !.want = "flag"]
    [] st.want = "flag" /\ a = "--detach"        -> [st EXCEPT !.detach = TRUE]
    [] st.want = "flag" /\ a = "--no-ui-restrictions" -> [st EXCEPT !.noUI = TRUE]
    [] st.want = "flag" /\ a = "--root"          -> [st EXCEPT !.want = "dir"]
    [] st.want = "flag" /\ a = "--readonly-root" -> [st EXCEPT !.readOnlyRoot = TRUE]
    [] st.want = "flag" /\ a = "--verbose"       -> [st EXCEPT !.verbose = TRUE]
    [] st.want = "flag" /\ a \in {"--passthrough", "--no-passthrough"} ->
         [st EXCEPT !.want = a]
    [] OTHER -> [st EXCEPT !.rest = Append(@, a)]

\* Fault: the defaults of --root do not ask what was set.
WithDefaultsForced(st) ==
  IF st.rootDir = NoDirectory THEN st.on
  ELSE st.on \cup {"executable", "path", "cwd", "gitroot", "appexec"}

WithDefaults(st) ==
  IF st.rootDir = NoDirectory THEN st.on
  ELSE st.on \cup ({"executable", "path", "cwd", "gitroot", "appexec"} \ st.set)

\* parseLinkFlags: pairs of --link and a specification; Malformed are the words
\* that splitLinkSpec refuses.
ParseLinkFlags(args, Malformed) ==
  IF /\ Len(args) % 2 = 0
     /\ \A k \in DOMAIN args : IF k % 2 = 1 THEN args[k] \in {"--link", "-l"}
                                ELSE args[k] \notin Malformed
    THEN [outcome |-> "parsed", links |-> [k \in 1..(Len(args) \div 2) |-> args[2 * k]]]
    ELSE Refused

IsDashes(a) == a = "--"

\* cmdExecInner up to the point where it uses the arguments.
ParseExec(args, Malformed) ==
  LET dashes == SelectInSeq(args, IsDashes)
      st == FoldLeft(TakeFlag, NoFlags, SubSeq(args, 1, dashes - 1))
      links == ParseLinkFlags(Front(st.rest), Malformed)
  IN  IF \/ dashes = 0 \/ dashes = Len(args)
         \/ st.want # "flag" \/ st.rest = <<>> \/ links = Refused
         \/ st.rootDir # NoDirectory /\ st.readOnlyRoot
        THEN Refused
        ELSE [outcome |-> "parsed", detach |-> st.detach, rootDir |-> st.rootDir,
              readOnlyRoot |-> st.readOnlyRoot, passthrough |-> WithDefaults(st),
              links |-> links.links, jobName |-> Last(st.rest),
              cmdArgs |-> SubSeq(args, dashes + 1, Len(args))]

\* parseSiloExecArgs; Dashed are the words that begin with a dash.
ParseSiloExec(args, Dashed) ==
  LET dashes == SelectInSeq(args, IsDashes)
      ours == SubSeq(args, 1, dashes - 1)
      positionals == {k \in DOMAIN ours : ours[k] # "--detach"}
  IN  IF \/ dashes = 0 \/ dashes = Len(args)
         \/ \E k \in positionals : ours[k] \in Dashed
         \/ Cardinality(positionals) # 1
        THEN Refused
        ELSE [outcome |-> "parsed", detach |-> Contains(ours, "--detach"),
              jobName |-> ours[CHOOSE k \in positionals : TRUE],
              cmdArgs |-> SubSeq(args, dashes + 1, Len(args))]

-----------------------------------------------------------------------------
(* The GUI.                                                                *)

\* The passthrough boxes in the order of their arguments; the last has no
\* default in exec.
Boxes == <<"executable", "path", "cwd", "gitroot", "appexec", "appstate">>

PassthroughArguments(b) ==
  FlattenSeq([k \in DOMAIN Boxes |->
                IF Boxes[k] \in b.checked THEN <<"--passthrough", Boxes[k]>>
                ELSE IF b.root THEN <<"--no-passthrough", Boxes[k]>> ELSE <<>>])
    \o (IF "powershell" \in b.checked THEN <<"--passthrough", "powershell">> ELSE <<>>)

LinkArguments(links) == FlattenSeq([k \in DOMAIN links |-> <<"--link", links[k]>>])

\* The links of the lines, those that block WSL, and the one of the Windows
\* directory unless a line is among those that cover it.
GUILinks(b, wsl, windows, covering) ==
  b.links \o (IF b.blockWSL THEN wsl ELSE <<>>)
          \o (IF b.windows /\ ~\E k \in DOMAIN b.links : b.links[k] \in covering
                THEN <<windows>> ELSE <<>>)

GetExecArguments(b, links) ==
  IF b.root /\ (b.readOnlyRoot \/ b.rootDir = NoDirectory) THEN Refused
  ELSE [outcome |-> "made",
        args |-> (IF b.detach THEN <<"--detach">> ELSE <<>>)
                   \o (IF b.root THEN <<"--root", b.rootDir>> ELSE <<>>)
                   \o (IF b.readOnlyRoot THEN <<"--readonly-root">> ELSE <<>>)
                   \o PassthroughArguments(b) \o LinkArguments(links)
                   \o <<b.name, "--", b.command>> \o b.args]

GetExistingSiloExecArguments(b) ==
  <<"--detach", b.name, "--", b.command>> \o b.args

=============================================================================
