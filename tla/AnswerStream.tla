---------------------------- MODULE AnswerStream ----------------------------
(***************************************************************************)
(* One answer on its way to a chat: query_stream rebuilds what the mind     *)
(* says from the gateway's event stream, a line at a time from chunks cut   *)
(* anywhere, and _stream_to_message shows it. A piece of text is a word, or  *)
(* none, and the newlines it ends with; in what is said the word of frame i  *)
(* is i and a newline is 0. The edits on the way there change nothing here.  *)
(***************************************************************************)
EXTENDS Integers, Sequences, FiniteSets

CONSTANTS
  Shapes,    \* the texts: <<1 or 0 words, newlines after it>>
  MaxFrames  \* bound: frames of one answer

ASSUME ShapesAssumption == Shapes \subseteq ((0 .. 1) \X Nat) \ {<<0, 0>>}
ASSUME MaxFramesAssumption == MaxFrames \in Nat

VARIABLES
  frames,   \* the frames that have come, the last one perhaps in part
  cut,      \* the last chunk ends inside a line
  read,     \* frames taken from the buffer
  reader,   \* query_stream's local variables
  said,     \* what it has yielded
  phase     \* "streaming", "closed" (the response is over), "told" or "broken"

answerVars == <<frames, cut, read, reader, said, phase>>

BlockSeparator == 2
NoText == <<0, 0>>

Frame(kind, own, index, text) == [kind |-> kind, own |-> own, index |-> index, text |-> text]

\* A delta, a frame around a block or a message, a whole message, the result;
\* a delegate's turn comes on the same stream (parent_tool_use_id).
Frames ==
  {Frame("delta", own, i, t) : own \in BOOLEAN, i \in 0 .. 1, t \in Shapes}
  \cup {Frame("mark", own, 0, NoText) : own \in BOOLEAN}
  \cup {Frame("message", own, 0, t) : own \in BOOLEAN, t \in Shapes}
  \cup {Frame("result", TRUE, 0, t) : t \in Shapes \cup {NoText}}

NoBlock == <<0, 0>>

AnswerTypeOK ==
  /\ frames \in Seq(Frames)
  /\ cut \in BOOLEAN
  /\ read \in Nat
  /\ reader \in [any : BOOLEAN, partial : BOOLEAN, block : Nat \X Nat, epoch : Nat,
                 tail : Nat, fallback : Nat]
  /\ said \in Seq(Nat)
  /\ phase \in {"streaming", "closed", "told", "broken"}

AnswerInit ==
  /\ frames = << >>
  /\ cut = FALSE
  /\ read = 0
  /\ reader = [any |-> FALSE, partial |-> FALSE, block |-> NoBlock, epoch |-> 1,
               tail |-> 0, fallback |-> 0]
  /\ said = << >>
  /\ phase = "streaming"

-----------------------------------------------------------------------------
(* query_stream                                                             *)

\* A chunk, when the lines of the last one have been read: up to the end of
\* a line or into the next, and the rest of that one.
ChunkArrives(f) ==
  /\ phase = "streaming"
  /\ read = Len(frames) /\ Len(frames) < MaxFrames
  /\ frames' = Append(frames, f)
  /\ cut' \in BOOLEAN
  /\ UNCHANGED <<read, reader, said, phase>>

RestArrives ==
  /\ phase = "streaming"
  /\ cut
  /\ cut' = FALSE
  /\ UNCHANGED <<frames, read, reader, said, phase>>

Newlines(n) == [i \in 1 .. n |-> 0]
Spelled(i, t) == (IF t[1] = 1 THEN <<i>> ELSE << >>) \o Newlines(t[2])

\* separator(): what the last piece lacks of a paragraph break.
Gap == IF reader.tail < BlockSeparator THEN Newlines(BlockSeparator - reader.tail) ELSE << >>

\* A piece of the answer is yielded, after a break when it opens a block.
Yields(i, opens, next) ==
  /\ said' = said \o (IF reader.any /\ opens THEN Gap ELSE << >>) \o Spelled(i, frames[i].text)
  /\ reader' = [next EXCEPT !.any = TRUE, !.tail = frames[i].text[2]]

\* Mutant: the index alone tells two blocks apart.
ReadDeltaByIndex(i) ==
  LET block == <<1, frames[i].index>> IN
  /\ frames[i].kind = "delta"
  /\ Yields(i, block # reader.block, [reader EXCEPT !.block = block, !.partial = TRUE])

ReadDelta(i) ==
  LET block == <<reader.epoch, frames[i].index>> IN
  /\ frames[i].kind = "delta"
  /\ Yields(i, block # reader.block, [reader EXCEPT !.block = block, !.partial = TRUE])

ReadMark(i) ==
  /\ frames[i].kind = "mark"
  /\ reader' = [reader EXCEPT !.epoch = @ + 1]
  /\ UNCHANGED said

\* A whole message is passed over once a delta has been seen.
ReadMessage(i) ==
  /\ frames[i].kind = "message"
  /\ IF reader.partial THEN UNCHANGED <<reader, said>> ELSE Yields(i, TRUE, reader)

ReadResult(i) ==
  /\ frames[i].kind = "result"
  /\ reader' = [reader EXCEPT !.fallback = IF frames[i].text = NoText THEN 0 ELSE i]
  /\ UNCHANGED said

\* One whole line of the buffer. A delegate's frame is passed over.
ReadLine ==
  LET i == read + 1 IN
  /\ phase = "streaming"
  /\ i <= Len(frames) /\ ~cut
  /\ read' = i
  /\ IF ~frames[i].own THEN UNCHANGED <<reader, said>>
     ELSE ReadDelta(i) \/ ReadMark(i) \/ ReadMessage(i) \/ ReadResult(i)
  /\ UNCHANGED <<frames, cut, phase>>

\* The response ends.
ResponseEnds ==
  /\ phase = "streaming"
  /\ read = Len(frames)
  /\ phase' = "closed"
  /\ said' = IF ~reader.any /\ reader.fallback # 0
             THEN Spelled(reader.fallback, frames[reader.fallback].text) ELSE said
  /\ UNCHANGED <<frames, cut, read, reader>>

\* The connection is lost, or an HTTP error instead of a stream: query_stream
\* raises, and its caller says so in a message of its own.
ResponseBreaks ==
  /\ phase = "streaming"
  /\ read = Len(frames) \/ cut
  /\ phase' = "broken"
  /\ UNCHANGED <<frames, cut, read, reader, said>>

-----------------------------------------------------------------------------
(* _stream_to_message: the last edit.                                       *)

Complaint == MaxFrames + 1

\* Mutant: there may be nothing to show.
TellWhatThereIs ==
  /\ phase = "closed"
  /\ phase' = "told"
  /\ UNCHANGED <<frames, cut, read, reader, said>>

\* An answer without a text is a complaint.
Tell ==
  /\ phase = "closed"
  /\ phase' = "told"
  /\ said' = IF said = << >> THEN <<Complaint>> ELSE said
  /\ UNCHANGED <<frames, cut, read, reader>>

AnswerNext ==
  \/ \E f \in Frames : ChunkArrives(f)
  \/ RestArrives \/ ReadLine \/ ResponseEnds \/ ResponseBreaks \/ Tell

AnswerSpec == AnswerInit /\ [][AnswerNext]_answerVars

-----------------------------------------------------------------------------
(* Properties. The answer as it should read, from the whole history.        *)

\* The frames in the mind's own voice so far: its deltas, and the messages
\* that no delta came before.
Voiced ==
  {i \in 1 .. read :
     /\ frames[i].own
     /\ \/ frames[i].kind = "delta"
        \/ frames[i].kind = "message" /\
             ~\E k \in 1 .. i - 1 : frames[k].own /\ frames[k].kind = "delta"}

\* Two pieces are of one block: deltas of one index, with no frame between.
SameBlock(i, j) ==
  /\ frames[i].kind = "delta" /\ frames[j].kind = "delta"
  /\ frames[i].index = frames[j].index
  /\ ~\E k \in i .. j : frames[k].own /\ frames[k].kind = "mark"

Worded(i) == i \in Voiced /\ frames[i].text[1] = 1
Places(w) == {p \in 1 .. Len(said) : said[p] = w}

\* Two words that follow each other, and the newlines between them.
Consecutive(i, j) == i < j /\ Worded(i) /\ Worded(j) /\ ~\E k \in i + 1 .. j - 1 : k \in Voiced
Between(i, j) == Cardinality({p \in 1 .. Len(said) : said[p] = 0 /\
                   (\E q \in Places(i) : q < p) /\ (\E q \in Places(j) : p < q)})

\* Every word of the mind is said once, in order, and nobody else's is;
\* within a block nothing is put between two pieces, and between two blocks
\* there is a paragraph break and no more, wherever the chunks were cut and
\* whatever a delegate said meanwhile.
ReadsAsSaid ==
  phase = "streaming" =>
    /\ \A w \in 1 .. Len(frames) : Cardinality(Places(w)) = IF Worded(w) THEN 1 ELSE 0
    /\ \A i, j \in 1 .. Len(frames) : Consecutive(i, j) =>
         /\ \A p \in Places(i), q \in Places(j) : p < q
         /\ Between(i, j) = IF SameBlock(i, j) \/ frames[i].text[2] > BlockSeparator
                            THEN frames[i].text[2] ELSE BlockSeparator

\* An answer that is over is never empty: the result stands in for a turn
\* without a text, and a complaint for one without either.
NeverEmpty == phase = "told" => said # << >>

\* What a chat reads of an answer.
AnswerIsWhole == ReadsAsSaid /\ NeverEmpty
=============================================================================
