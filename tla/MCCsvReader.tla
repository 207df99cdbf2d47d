---------------------------- MODULE MCCsvReader -----------------------------
(* A small instance of CsvReader for TLC: headers that nest, clash, repeat *)
(* or are empty; cells that are numbers, zero, text, text with a comma, or *)
(* empty; rows of the right length or not.                                 *)
EXTENDS CsvReader

Line(quoted, cells) == [quoted |-> quoted, cells |-> cells]

A == << <<"a">> >>
AB == << <<"a", "b">> >>
AC == << <<"a", "c">> >>
ABC == << <<"a", "b", "c">> >>
AStop == << <<"a", "">> >>
B == << <<"b">> >>
AComma == << <<"a">>, <<"b">> >>

MCHeaderLine ==
  {Line(quoted, <<g, h>>) : quoted \in BOOLEAN, g, h \in {A, AB, AC, ABC, AStop, B, EmptyCell, AComma}}
  \cup {Line(FALSE, <<EmptyCell>>), Line(TRUE, <<A>>)}

Seven == << <<"7">> >>
Some == << <<"x">> >>
SomeMore == << <<"x">>, <<"y">> >>

MCDataLine ==
  {Line(TRUE, <<g, h>>) : g, h \in {Seven, ZeroCell, Some, SomeMore, EmptyCell}}
  \cup {Line(FALSE, <<Some, Seven>>), Line(FALSE, <<EmptyCell>>), Line(TRUE, <<Seven>>),
        Line(TRUE, <<Some, Seven, Some>>)}

=============================================================================
