---- MODULE MCCopierTree ----
(* Model-checking instance of CopierTree: a directory d with a directory   *)
(* that has a file, and a file beside d that is excluded.                  *)
EXTENDS CopierTree

CONSTANTS d, e, f, g

SmallTree == {<<d>>, <<d, e>>, <<d, e, f>>, <<g>>}
SmallDirectories == {<<d>>, <<d, e>>}
SmallContents == {{<<d>>, <<d, e>>, <<d, e, f>>}, {<<d>>}}
ExcludedNames == {<<g>>}

====
