------------------------------ MODULE MCEditor ------------------------------
(* Instances of MyEditor for TLC. *)
EXTENDS EditorChecks, TLC

CONSTANTS a, b

OneChar  == {a}
TwoChars == {a, b}
NoNames  == {}

\* No action prefers one name to another.
Swap == Permutations(Names)

\* Files of another program: with and without a last newline, with empty
\* lines, too tall, too wide and with a byte that is not text.
SomeContents ==
    { <<>>, <<a, Newline>>, <<Newline, a>>, <<Return, Newline, Newline>>,
      <<a, a, a>>, <<a, Newline, a, Newline, a>>, <<Newline, Newline, Newline>>,
      <<a, Other>> }
=============================================================================
