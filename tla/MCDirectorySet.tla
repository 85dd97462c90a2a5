---- MODULE MCDirectorySet ----
(* Model-checking instance of DirectorySet: the sources /a, /ab, /a/b and  *)
(* the root, which begin one another.                                      *)
EXTENDS DirectorySet

SomeSources == {<<"/", "a">>, <<"/", "a", "b">>, <<"/", "a", "/", "b">>,
                <<"/", "c">>, <<"/">>}
SomeDestinations == {<<"/", "a">>, <<"/", "d">>}
SomeRests == {<<"/", "b">>, <<"/", "b", "/", "a">>}

====
