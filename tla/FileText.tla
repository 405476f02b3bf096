------------------------------ MODULE FileText ------------------------------
(***************************************************************************)
(* mind_files decides twice whether a file is text: in the listing from its *)
(* first bytes, when it is opened from all of them. A byte is what UTF-8    *)
(* makes of it: one of its own, the first of two, three or four, or one of  *)
(* those that follow. A file that grows meanwhile is another file.          *)
(***************************************************************************)
EXTENDS Integers, Sequences

CONSTANTS
  SniffBytes,   \* how much of a file the listing reads (4096)
  MaxFileBytes  \* the longest file the editor opens

Bytes == {"nul", "one", "first2", "first3", "first4", "next"}

ASSUME SizesAssumption == SniffBytes \in Nat /\ MaxFileBytes \in Nat

VARIABLE file  \* the bytes of a file

TextTypeOK == file \in Seq(Bytes)
TextInit == file = << >>

\* A file of any bytes, written one after the other.
Grows(b) == Len(file) <= MaxFileBytes /\ file' = Append(file, b)
TextNext == \E b \in Bytes : Grows(b)
TextSpec == TextInit /\ [][TextNext]_file

Width(b) == CASE b = "first2" -> 2 [] b = "first3" -> 3 [] b = "first4" -> 4 [] OTHER -> 1

\* A character begins at i and is whole.
Character(s, i) ==
  /\ s[i] # "next"
  /\ i + Width(s[i]) - 1 <= Len(s)
  /\ \A k \in i + 1 .. i + Width(s[i]) - 1 : s[k] = "next"

\* Byte i is part of a whole character.
Decoded(s, i) ==
  \E j \in 1 .. i : Character(s, j) /\ i < j + Width(s[j])

\* Where a decode can stop (UnicodeDecodeError.start is the least of them).
Undecoded(s) == {i \in 1 .. Len(s) : ~Decoded(s, i)}
HasNul(s) == \E i \in 1 .. Len(s) : s[i] = "nul"

\* Mutant: a character of four bytes cut after its third is taken for binary.
IsTextOffByOne(data, truncated) ==
  /\ ~HasNul(data)
  /\ \A i \in Undecoded(data) : truncated /\ i >= Len(data) - 1

IsText(data, truncated) ==
  /\ ~HasNul(data)
  /\ \A i \in Undecoded(data) : truncated /\ i >= Len(data) - 2

Prefix(s, n) == SubSeq(s, 1, IF n < Len(s) THEN n ELSE Len(s))

\* _editable_reason, from a sample of the file.
Editable(want) ==
  /\ Len(file) <= MaxFileBytes
  /\ IsText(Prefix(file, want), want < Len(file))

Listed == Editable(SniffBytes)
Opens == Editable(MaxFileBytes)

\* A file that opens as text is listed as editable, also when the listing's
\* sample ends in the middle of a character (the docstring of _is_text).
OpensAsListed == Opens => Listed
=============================================================================
