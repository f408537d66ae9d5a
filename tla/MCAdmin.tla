------------------------------ MODULE MCAdmin -------------------------------
(* An operator, and other programs that ask (49 is '1') and set time_out    *)
(* (50), with and without a CR, without the password, with a byte that is   *)
(* no command, too short or empty.  In units of 20 seconds TIMEOUT is 6,    *)
(* and pselect() waits for 1.                                               *)
EXTENDS Admin
CONSTANT operator
Datagram(size, authorised, byte, value) ==
  [client |-> Nobody, number |-> 0, size |-> size,
   authorised |-> authorised, command |-> byte, value |-> value, cr |-> TRUE]
SomePeriods == {-1, 3, 10, NaN, Infinity}
ValidAndNot ==
  {Datagram(9, TRUE, 50, value) : value \in SomePeriods} \cup
  { Datagram(9, TRUE, 49, 3), [Datagram(9, TRUE, 50, 3) EXCEPT !.cr = FALSE],
    Datagram(9, FALSE, 50, 10), Datagram(9, TRUE, 2, 10),
    Datagram(4, FALSE, 0, 3), Datagram(0, FALSE, 0, 3) }
FourLetters == [c \in {operator} |-> 4]
=============================================================================
