---------------------------- MODULE VoiceTailer ----------------------------
(***************************************************************************)
(* pty_voice follows the transcripts of a terminal's conversation: its own   *)
(* file, at the end when the terminal is first seen and from the top after a *)
(* rotation, and the files of its delegates. A sweep reads what was written  *)
(* since the last one; a read may end inside a line, and inside a character. *)
(* Every line has LineBytes bytes, numbered through the file, the last of    *)
(* them its newline; in a wide line the two bytes in its middle are one      *)
(* character. The lines read are handed over once, to the speaker and to the *)
(* column: a post that fails, or that nothing is configured for, drops what  *)
(* it carried. A line stands for one block of prose.                         *)
(***************************************************************************)
EXTENDS Integers, Sequences, FiniteSets

CONSTANTS
  WideLines,  \* the lines with a character of two bytes
  MaxVoiceLines    \* bound: lines of a file

ASSUME LinesAssumption == MaxVoiceLines \in Nat \ {0} /\ WideLines \subseteq 1 .. MaxVoiceLines

VARIABLES
  size,     \* bytes of each transcript
  open,     \* the terminal is alive
  conv,     \* its conversation (claude_sid)
  followed,    \* the conversation its tailer follows, or "none"
  tailer,   \* each transcript's tailer, if there is one: offset and partial line
  heard,    \* lines read of each transcript since its tailer was made
  posted,   \* those that reached each channel of the gateway
  lost,     \* ghost: those whose post to it failed
  first,    \* ghost: the first line a tailer is to read
  torn      \* ghost: a read of it has broken a character

posts == <<posted, lost>>
voiceTailerVars == <<size, open, conv, followed, tailer, heard, posts, first, torn>>
harnessSide == <<open, conv, followed, tailer, heard, posts, first, torn>>
tailerSide == <<followed, tailer, heard, posts, first, torn>>

LineBytes == 4
Main == {"old", "new"}
Delegates == {"delegate"}
Transcripts == Main \cup Delegates
Channels == {"speaker", "column"}   \* pty-text, pty-activity
NoTailer == [off |-> -1, pending |-> << >>]
Broken == 0     \* a replacement character

VoiceTypeOK ==
  /\ size \in [Transcripts -> 0 .. MaxVoiceLines * LineBytes]
  /\ open \in BOOLEAN
  /\ conv \in Main
  /\ followed \in Main \cup {"none"}
  /\ tailer \in [Transcripts -> [off : Int, pending : Seq(Nat)]]
  /\ heard \in [Transcripts -> Seq(Nat)]
  /\ posted \in [Channels -> [Transcripts -> Seq(Nat)]]
  /\ lost \in [Channels -> [Transcripts -> SUBSET Nat]]
  /\ first \in [Transcripts -> Nat]
  /\ torn \in [Transcripts -> BOOLEAN]

VoiceInit ==
  /\ \E n \in {0, LineBytes} :
       size = [f \in Transcripts |-> IF f = "old" THEN n ELSE 0]
  /\ open = TRUE
  /\ conv = "old"
  /\ followed = "none"
  /\ tailer = [f \in Transcripts |-> NoTailer]
  /\ heard = [f \in Transcripts |-> << >>]
  /\ posted = [c \in Channels |-> [f \in Transcripts |-> << >>]]
  /\ lost = [c \in Channels |-> [f \in Transcripts |-> {}]]
  /\ first = [f \in Transcripts |-> 1]
  /\ torn = [f \in Transcripts |-> FALSE]

-----------------------------------------------------------------------------
(* The harness, and the terminal.                                           *)

\* The harness appends to its transcript, or a delegate to its own: a line, or
\* one half of it and then the other.
Written(f) ==
  /\ f = conv \/ (f \in Delegates /\ conv = "old")
  /\ size[f] < MaxVoiceLines * LineBytes
  /\ \E n \in {LineBytes \div 2, LineBytes} :
       /\ (size[f] % LineBytes) + n <= LineBytes
       /\ size' = [size EXCEPT ![f] = @ + n]
  /\ UNCHANGED harnessSide

\* A rotation: a new conversation under the same terminal.
Rotated ==
  /\ conv = "old"
  /\ conv' = "new"
  /\ UNCHANGED <<size, open, tailerSide>>

TerminalCloses == open /\ open' = FALSE /\ UNCHANGED <<size, conv, tailerSide>>
TerminalOpens == ~open /\ open' = TRUE /\ UNCHANGED <<size, conv, tailerSide>>

-----------------------------------------------------------------------------
(* TranscriptTailer.poll_lines                                              *)

HasWide(n) == ((n - 1) \div LineBytes) + 1 \in WideLines

\* A chunk from offset to the end, decoded: half a character becomes a
\* replacement, which is two bytes longer again when its length is counted.
HalfAt(off, n, end) ==
  /\ HasWide(n)
  /\ (n % LineBytes = 2 /\ n = end) \/ (n % LineBytes = 3 /\ n = off + 1)
HeardBytes(off, end) == [i \in 1 .. end - off |-> IF HalfAt(off, off + i, end) THEN Broken ELSE off + i]
Halves(off, end) == {n \in off + 1 .. end : HalfAt(off, n, end)}
Counted(off, end) ==
  (end - off) + (IF Halves(off, end) = {} THEN 0
                 ELSE IF off + 1 \in Halves(off, end) /\ end \in Halves(off, end) /\ end # off + 1
                 THEN 4 ELSE 2)

EndOfLine(n) == n # Broken /\ n % LineBytes = 0

\* The lines of some data, and what is left after the last newline. Only a
\* line that is whole parses (activity_blocks).
EndsAt(data) == {i \in 1 .. Len(data) : EndOfLine(data[i])}
LastEnd(data) == IF EndsAt(data) = {} THEN 0 ELSE CHOOSE i \in EndsAt(data) : \A j \in EndsAt(data) : j <= i
Rest(data) == SubSeq(data, LastEnd(data) + 1, Len(data))
WholeLine(data, i) ==
  /\ EndOfLine(data[i])
  /\ i >= LineBytes
  /\ \A k \in 1 .. LineBytes - 1 : data[i - k] = data[i] - k
  /\ i = LineBytes \/ EndOfLine(data[i - LineBytes])

\* The lines that parse, by their ends: the k-th of them is the k-th parsed.
WholeEnds(data) == {i \in EndsAt(data) : WholeLine(data, i)}
Place(ends, k) == CHOOSE i \in ends : Cardinality({j \in ends : j <= i}) = k
Parsed(data) ==
  LET ends == WholeEnds(data)
  IN [k \in 1 .. Cardinality(ends) |-> data[Place(ends, k)] \div LineBytes]

\* Mutant: a partial line is parsed with the rest.
PollForgetful(f, t) ==
  LET data == HeardBytes(t.off, size[f]) IN
  IF size[f] < t.off THEN [t |-> [off |-> size[f], pending |-> << >>], lines |-> << >>]
  ELSE [t |-> [off |-> t.off + Counted(t.off, size[f]), pending |-> << >>],
        lines |-> Parsed(data)]

\* A file that is shorter than the offset is read on from where it ends.
Poll(f, t) ==
  LET data == t.pending \o HeardBytes(t.off, size[f]) IN
  IF size[f] < t.off THEN [t |-> [off |-> size[f], pending |-> << >>], lines |-> << >>]
  ELSE [t |-> [off |-> t.off + Counted(t.off, size[f]), pending |-> Rest(data)],
        lines |-> Parsed(data)]

-----------------------------------------------------------------------------
(* SessionVoice.poll_blocks, from _pty_voice_sweep                          *)

NewAtEnd(f) == [off |-> size[f], pending |-> << >>]
NewAtStart == [off |-> 0, pending |-> << >>]

\* Mutant: every conversation is opened at its end.
OpenTailersAtEnd ==
  [f \in Transcripts |->
     IF f = conv THEN IF followed = conv THEN tailer[f] ELSE NewAtEnd(f)
     ELSE IF f \in Delegates /\ conv = "old" /\ size[f] > 0
     THEN IF followed = conv /\ tailer[f] # NoTailer THEN tailer[f] ELSE NewAtStart
     ELSE NoTailer]

\* The tailers a sweep polls: the conversation's, made when it is another one
\* than before, and one of each delegate that has a transcript.
OpenTailers ==
  [f \in Transcripts |->
     IF f = conv THEN IF followed = conv THEN tailer[f]
                      ELSE IF followed = "none" THEN NewAtEnd(f) ELSE NewAtStart
     ELSE IF f \in Delegates /\ conv = "old" /\ size[f] > 0
     THEN IF followed = conv /\ tailer[f] # NoTailer THEN tailer[f] ELSE NewAtStart
     ELSE NoTailer]

\* The first line that begins at or after byte n.
LineFrom(n) == (n + LineBytes - 1) \div LineBytes + 1

SpokenOf(f) == f \notin Delegates   \* a delegate's report is not read aloud

LinesOf(lines) == {lines[i] : i \in 1 .. Len(lines)}

\* Mutant: a sweep that has been read is spoken by its last block.
ReachedLast(lines, gone) ==
  IF lines = << >> \/ lines[Len(lines)] \in gone THEN << >> ELSE <<lines[Len(lines)]>>

\* What of some lines reaches a channel, when the posts of `gone` fail.
Reached(lines, gone) ==
  LET at == {i \in 1 .. Len(lines) : lines[i] \notin gone}
  IN [k \in 1 .. Cardinality(at) |-> lines[Place(at, k)]]

\* The posts of one sweep, which fail or not: one to the speaker for each line
\* of the conversation's own, one to the column for all there is.
\* lines[f] was read of f, and anew says that its tailer was made now.
Posts(lines, anew) ==
  \E mute \in SUBSET LinesOf(lines[conv]), dark \in BOOLEAN :
    LET gone(c, f) == CASE c = "speaker" -> IF f = conv THEN mute ELSE {}
                        [] c = "column" -> IF dark THEN LinesOf(lines[f]) ELSE {}
        to(c, f) == IF c = "speaker" /\ ~SpokenOf(f) THEN << >> ELSE lines[f]
    IN
    /\ posted' = [c \in Channels |-> [f \in Transcripts |->
                    (IF f \in anew THEN << >> ELSE posted[c][f]) \o Reached(to(c, f), gone(c, f))]]
    /\ lost' = [c \in Channels |-> [f \in Transcripts |->
                  (IF f \in anew THEN {} ELSE lost[c][f]) \cup gone(c, f)]]

Sweep ==
  LET now == OpenTailers
      fresh(f) == now[f] # NoTailer /\ (tailer[f] = NoTailer \/ followed # conv)
      anew == {f \in Transcripts : fresh(f) \/ now[f] = NoTailer}
      polled == [f \in Transcripts |->
                   IF now[f] = NoTailer THEN [t |-> NoTailer, lines |-> << >>]
                   ELSE Poll(f, now[f])]
  IN
  /\ open
  /\ followed' = conv
  /\ tailer' = [f \in Transcripts |-> polled[f].t]
  /\ heard' = [f \in Transcripts |->
                 (IF f \in anew THEN << >> ELSE heard[f]) \o polled[f].lines]
  /\ Posts([f \in Transcripts |-> polled[f].lines], anew)
  /\ first' = [f \in Transcripts |->
                 IF fresh(f) THEN IF followed = "none" /\ f = conv THEN LineFrom(size[f]) ELSE 1
                 ELSE first[f]]
  /\ torn' = [f \in Transcripts |->
                now[f] # NoTailer /\ (\/ ~fresh(f) /\ torn[f]
                                      \/ Halves(now[f].off, size[f]) # {})]
  /\ UNCHANGED <<size, open, conv>>

\* retain_only: the terminal is gone.
ForgetsTerminal ==
  /\ ~open
  /\ followed # "none"
  /\ followed' = "none"
  /\ tailer' = [f \in Transcripts |-> NoTailer]
  /\ heard' = [f \in Transcripts |-> << >>]
  /\ posted' = [c \in Channels |-> [f \in Transcripts |-> << >>]]
  /\ lost' = [c \in Channels |-> [f \in Transcripts |-> {}]]
  /\ torn' = [f \in Transcripts |-> FALSE]
  /\ UNCHANGED <<size, open, conv, first>>

VoiceNext ==
  \/ \E f \in Transcripts : Written(f)
  \/ Rotated \/ TerminalCloses \/ TerminalOpens \/ Sweep \/ ForgetsTerminal

VoiceSpec == VoiceInit /\ [][VoiceNext]_voiceTailerVars

-----------------------------------------------------------------------------
(* Properties *)

\* What has been read of a transcript are its lines from the first one that was
\* begun after its terminal was first seen, and of a new conversation and a
\* delegate from the top: each once, in order, and none left out that its
\* tailer is past, wherever the reads fell; unless one broke a character.
VoiceFollows ==
  \A f \in Transcripts :
    tailer[f] # NoTailer /\ ~torn[f] =>
      heard[f] = [i \in 1 .. (IF tailer[f].off \div LineBytes < first[f] THEN 0
                              ELSE tailer[f].off \div LineBytes + 1 - first[f])
                    |-> first[f] + i - 1]

Rising(lines) == \A i, j \in 1 .. Len(lines) : i < j => lines[i] < lines[j]

\* Also then nothing is read twice or out of order.
HeardOnce == \A f \in Transcripts : Rising(heard[f])

\* What reaches the speaker and the column is what has been read, each line once
\* and in the order of its transcript, over all the sweeps, and without the lines
\* whose own post failed: a failure costs those and no other. No line of a
\* delegate is spoken.
PostedAsHeard ==
  \A c \in Channels, f \in Transcripts :
    /\ Rising(posted[c][f])
    /\ LinesOf(posted[c][f]) =
         IF c = "speaker" /\ ~SpokenOf(f) THEN {} ELSE LinesOf(heard[f]) \ lost[c][f]

\* The voice and the column of a terminal: what its tailers read, and what of it
\* is posted. A line that is read and whose post fails is never posted again.
VoiceIsTrue == VoiceFollows /\ HeardOnce /\ PostedAsHeard
=============================================================================
