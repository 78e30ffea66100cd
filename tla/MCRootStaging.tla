---------------------------- MODULE MCRootStaging ----------------------------
EXTENDS RootStaging, TLC

A  == <<"a">>
AB == <<"a", "b">>
MCRelative == {<<>>, A, AB, <<"b">>}
MCTops     == {"C", "R", "T", "U"}

MCInitPaths   == {<<>>, <<A>>, <<AB>>}
MCPathEntries == {<<>>, <<A>>, <<AB>>, <<A, AB>>, <<AB, A>>}

\* C:\a is a link to T, T\b a link to U, a directory or absent; or C:\a is a
\* directory and C:\a\b a link to U.
Tree(ca, cab, tb, ub) ==
  [l \in Locations |->
     CASE l = <<"C", "a">> -> ca
       [] l = <<"C", "a", "b">> -> cab
       [] l = <<"T", "b">> -> tb
       [] l = <<"U", "b">> -> ub
       [] Len(l) = 1 -> Dir
       [] OTHER -> None]

MCHostTrees == {Tree(Link(<<"T">>), None, tb, Dir) : tb \in {None, Dir, Link(<<"U">>)}}
                 \cup {Tree(Dir, Link(<<"U">>), None, None)}
MCRelinks == {<<"U">>}
Symmetry == Permutations(Execs)
=============================================================================
