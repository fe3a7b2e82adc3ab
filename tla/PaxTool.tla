------------------------------- MODULE PaxTool -------------------------------
(***************************************************************************)
(* The exit code of a PAX tool command (commandline.c): the device's tool   *)
(* prints "[SYSTOOL:-N]" somewhere in its output, and the client looks for   *)
(* it in each of its reads.                                                 *)
(*                                                                          *)
(* Output is a sequence of tokens: the ten characters before N are two, so  *)
(* that a read may end between them; a digit is one; "x" is other text.     *)
(***************************************************************************)
EXTENDS Integers, Sequences, FiniteSetsExt, SequencesExt

DigitValue == [c \in {"0", "1", "2", "3", "4", "5"} |->
  CASE c = "0" -> 0 [] c = "1" -> 1 [] c = "2" -> 2
    [] c = "3" -> 3 [] c = "4" -> 4 [] c = "5" -> 5]

(* Where the prefix begins, and where a marker that begins at i ends.        *)
Starts(s) == {i \in 1 .. Len(s) - 1 : s[i] = "[SYS" /\ s[i + 1] = "TOOL:-"}
Brackets(s, i) == {j \in i + 2 .. Len(s) : s[j] = "]"}

(* Everything up to the bracket, or to the end of the read, that is a digit. *)
Digits(s, i) ==
  LET end == IF Brackets(s, i) = {} THEN Len(s) ELSE Min(Brackets(s, i)) - 1
  IN  SelectSeq(SubSeq(s, i + 2, end), LAMBDA c : c \in DOMAIN DigitValue)
Atoi(digits) == FoldLeft(LAMBDA n, c : 10 * n + DigitValue[c], 0, digits)

(* Mutant: -22 is a failure.                                                 *)
NormalisedStrict(r) ==
  CASE r = -4 -> -6
    [] r = -101 -> 0
    [] r \notin {-4, -101} /\ r + 310 \notin 0 .. 9 -> -5
    [] OTHER -> r

(* The codes the command passes on.  The test, of an unsigned int, is for    *)
(* -310 to -301.                                                             *)
Normalised(r) ==
  CASE r = -4 -> -6
    [] r \in {-22, -101} -> 0
    [] r \notin {-4, -22, -101} /\ r + 310 \notin 0 .. 9 -> -5
    [] OTHER -> r

(* pax_stream_and_parse_ret(), one read: the first marker in it counts, and  *)
(* replaces what an earlier read gave.                                       *)
ParseRead(ret, buf) ==
  IF Starts(buf) = {} THEN ret
  ELSE Normalised(-Atoi(Digits(buf, Min(Starts(buf)))))

-----------------------------------------------------------------------------
(* What the command promises of a whole output: the code of the last marker, *)
(* with the codes the test suite lists.                                      *)
ReportedCode(n) == CASE n = 4 -> -6
                     [] n \in {22, 101} -> 0
                     [] n \in 301 .. 310 -> -n
                     [] OTHER -> -5
Markers(s) == {i \in Starts(s) : Brackets(s, i) # {}}
WholeOutputCode(s) ==
  IF Markers(s) = {} THEN 0
  ELSE ReportedCode(Atoi(Digits(s, Max(Markers(s)))))

(* A read that ends inside a marker, even when nothing follows, or holds two *)
(* of them.                                                                  *)
CutsMarker(s, from, to) ==
  \/ \E i \in Starts(s) : i <= to /\ \A j \in Brackets(s, i) : to < j
  \/ \E i, j \in Markers(s) : i # j /\ {i, j} \subseteq from .. to

=============================================================================
