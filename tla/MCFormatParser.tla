---------------------------- MODULE MCFormatParser ----------------------------
(* Formats of up to five fragments, over every kind of character a specifier *)
(* can have, and two required formats.                                       *)
EXTENDS FormatParser

Pieces ==
  {<<c>> : c \in {"%", "0", "*", "h", "l", "f"}}
    \cup {<<"1", "0">>, <<".", "2">>, <<".">>, <<"d">>, <<" ", "y">>}

Assigned == {<<"%", "l", "d">>, <<"%", "1", "0", "d", "%", ".", "2", "f">>}
=============================================================================
