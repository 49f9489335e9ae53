------------------------------ MODULE CHeader ------------------------------
(****************************************************************************)
(* firmware/make-cheader.py: a certificate or a key as a C string literal for *)
(* the firmware, and what the C compiler makes of it.  A character is its     *)
(* class: line feed, carriage return, hexadecimal digit, other printable,     *)
(* quote or backslash, control (DEL too), and beyond ASCII.  The script says  *)
(* that "the contents [are] assuemd to be ascii": there a character is a      *)
(* byte.  One beyond is several bytes of the file (UTF-8), which are decoded  *)
(* to one character and never come back.                                      *)
(****************************************************************************)
EXTENDS Naturals, SequencesExt

CONSTANT MaxText    \* bound: characters of a file

ASSUME HeaderAssumption == MaxText \in Nat

VARIABLE text       \* the file that is converted

Classes == {"LF", "CR", "hex", "printable", "quote", "control", "beyond"}

HeaderInit == text = << >>

Extend ==
    /\ Len(text) < MaxText
    /\ \E c \in Classes : text' = Append(text, c)

(* A file opened as text is decoded, and every end of a line is a line feed.  *)
readlines(t) ==
    FlattenSeq([i \in DOMAIN t |->
        IF t[i] # "CR" THEN <<t[i]>>
        ELSE IF i < Len(t) /\ t[i + 1] = "LF" THEN << >> ELSE <<"LF">>])

(* What is written for a character, a line feed excepted: itself, or \x.      *)
hex_escape(c) ==
    CASE c = "control" -> "x_control"
      [] c = "beyond"  -> "x_beyond"
      [] OTHER         -> c

(* Mutation: the escape of a line feed is left to the end of the literal.     *)
MutEscape(c) == IF c = "LF" THEN <<"end">> ELSE <<hex_escape(c)>>

(* One literal for each line, \n its last character.                          *)
escape(c) == IF c = "LF" THEN <<"n_escape", "end">> ELSE <<hex_escape(c)>>

c_string(t) == LET r == readlines(t) IN FlattenSeq([i \in DOMAIN r |-> escape(r[i])])

(* The compiler: \x takes every hexadecimal digit that follows and makes one  *)
(* byte of them; a quote or a backslash that was not escaped is not what it   *)
(* was, and neither is the one byte, or too large a number, that stands for   *)
(* the bytes of a character beyond ASCII.                                     *)
character(tokens, i) ==
    CASE tokens[i] = "n_escape" -> "LF"
      [] tokens[i] \in {"quote", "x_beyond"} -> "wrong"
      [] tokens[i] = "x_control" ->
            IF i < Len(tokens) /\ tokens[i + 1] = "hex" THEN "wrong" ELSE "control"
      [] OTHER -> tokens[i]

compiled(tokens) ==
    FlattenSeq([i \in DOMAIN tokens |->
        IF tokens[i] = "end" THEN << >> ELSE <<character(tokens, i)>>])

HeaderNext == Extend

HeaderSpec == HeaderInit /\ [][HeaderNext]_text

-----------------------------------------------------------------------------
(* The string in the firmware is the certificate, line by line, however its   *)
(* lines end, unless a control character stands before a digit, or there is a *)
(* quote, a backslash or a character beyond ASCII (a PEM file has none of     *)
(* these).                                                                    *)
HeaderDenotes ==
    (\A i \in DOMAIN text :
        /\ text[i] \notin {"quote", "beyond"}
        /\ text[i] = "control" /\ i < Len(text) => text[i + 1] # "hex") =>
        compiled(c_string(text)) = readlines(text)
=============================================================================
