----------------------------- MODULE MCConversions -----------------------------
EXTENDS Conversions

MCAlphabet == [arguments |-> {"a", Space, Quote, Backslash},
               link      |-> {"a", "=", "+"},
               alias     |-> {1, 4}]
MCMaxWords == [arguments |-> 3, link |-> 2, alias |-> 5]

MCWslLinks == <<"wsl==decoy">>
MCCovering  == {"C:\\=z"}
MCMalformed == {"x"}

MCTyped == {"silo", "-n", "d", "x=y", "C:\\=z", "x", "wsl==decoy", "windows=windows"}
MCDashed == Reserved \cup {"-n"}
MCCommandWords == {"cmd", "--detach", "--"}

\* One line maps a directory, another the drive of the Windows directory.
MCSettings ==
  [detach : BOOLEAN, root : BOOLEAN, readOnlyRoot : BOOLEAN, rootDir : {"", "d"},
   checked : SUBSET PassthroughNames, blockWSL : BOOLEAN, windows : BOOLEAN,
   links : {<<>>, <<"x=y">>, <<"x=y", "C:\\=z">>, <<"x=y", "x">>},
   name : {"silo", "-n"}, command : {"cmd"}, args : {<<"--detach", "--">>}]
=============================================================================
