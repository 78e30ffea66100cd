-------------------------- MODULE MCMappingCommands --------------------------
EXTENDS MappingCommands, TLC

MCLetters == {3, 4}

P(n) == <<3, n>>
Add(s, r, t) == [op |-> "add", scope |-> s, root |-> P(r), target |-> P(t), opts |-> {}]

MCChoices == {Add("global", "n1", "n2"), Add("silo", "n1", "n2"), Add("global", "n2", "n1"),
              [op |-> "remove", scope |-> "global", root |-> P("n1")],
              [op |-> "list", scope |-> "global"]}

World(k, h, d) == [kind   |-> [l \in Locations |-> IF l[1] = "v2" THEN "absent"
                                                   ELSE IF l[2] = "n1" THEN "dir" ELSE k],
                   hidden |-> h,
                   drives |-> (3 :> "v1" @@ 4 :> d)]

\* On the first device: n1 a directory, n2 a directory or a file, which Stat may
\* be denied.  The second letter has the same device, or none; nothing is on v2.
MCWorlds == {World(k, h, "v1") : k \in {"dir", "file"}, h \in {{}, {<<"v1", "n2">>}}}
              \cup {World("dir", {}, NoDevice)}

Symmetry == Permutations(Commands)
=============================================================================
