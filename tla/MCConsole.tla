------------------------------ MODULE MCConsole ------------------------------
(* A screen of three lines, and what the kernel prints on it.              *)
EXTENDS Console

\* Texts with a line break between numbers, a string and a sign, and two line
\* breaks in a row.
Texts == {<<"char", "newline", "%d">>, <<"%ld", "newline", "%s", "%c">>,
          <<"newline", "newline", "char">>}
=============================================================================
