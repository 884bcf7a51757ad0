-------------------------- MODULE MC_UriAuxiliary --------------------------
(* Strings of up to 4 bytes over: ' ', '+', '%', '-', 'A', 'f', '~', a     *)
(* control byte and a byte above 127, so that every branch of Encode and   *)
(* Decode is taken and an escape can close the string.                     *)
(*                                                                         *)
(* URLs of up to 8 tokens: six prefixes (known schemes with "://" and      *)
(* ":/", a capitalised scheme, a leading blank, an unknown scheme), then   *)
(* every character Parse looks for, a letter and its capital, an address   *)
(* literal, and the digit runs 0, 80 and 65536 (the first number above  *)
(* MaxPort).                                                               *)
EXTENDS UriAuxiliary

MCAlphabet == {32, 43, 37, 45, 65, 102, 126, 10, 200}

MCUrlPrefixes ==
    { <<Http, Colon, Slash, Slash>>, <<HTTP, Colon, Slash, Slash>>,
      <<Tcp, Colon, Slash, Slash>>, <<Wss, Colon, Slash>>,
      <<Blank, Ws, Colon, Slash, Slash>>, <<Ftp, Colon, Slash, Slash>> }

MCUrlTokens ==
    {Colon, Slash, LBracket, RBracket, Blank, Letter, Capital, IPv4, 0, 80, 65536}

=============================================================================
