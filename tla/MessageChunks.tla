---------------------------- MODULE MessageChunks ----------------------------
(***************************************************************************)
(* How the two bots cut an answer that is too long for one message.         *)
(* Discord's _chunk_message goes by lines and closes a code block that it    *)
(* cuts; Telegram's goes by characters, of one or two UTF-16 units. A letter  *)
(* is its place in the text, marked when it is of a fence (a line that begins  *)
(* with three backticks) or of two units; a newline is 0, a backtick -1. There *)
(* are no blanks.                                                             *)
(***************************************************************************)
EXTENDS Integers, Sequences, FiniteSets

CONSTANTS
  Limit,        \* DISCORD_MSG_LIMIT (2000)
  LineLengths,  \* the lines considered, in letters
  FenceLengths, \* the fences considered, in letters after the backticks
  MaxLines,     \* bound: lines of a text
  UnitLimit,    \* TELEGRAM_MSG_LIMIT (4096)
  MaxLetters    \* bound: characters of a text for Telegram

ASSUME LimitAssumption == Limit \in Nat /\ Limit > 3 /\ UnitLimit \in Nat /\ UnitLimit > 1
ASSUME LengthsAssumption == LineLengths \subseteq Nat /\ FenceLengths \subseteq Nat

VARIABLES
  bot,     \* which of the two
  chunks,  \* sent off
  current, \* the chunk being filled
  inBlock, \* Discord: within a code block
  lang,    \* Discord: the fence that opened the last one (fence_lang)
  lines,   \* lines (Discord) or characters (Telegram) taken
  letters, \* of how many letters
  total,   \* Discord: characters of the text so far, its newlines with them
  width    \* Telegram: UTF-16 units of the current chunk

chunkVars == <<bot, chunks, current, inBlock, lang, lines, letters, total, width>>

Newline == 0
FenceLine == <<-1, -1, -1>>
IsFence(s) == Len(s) >= 3 /\ SubSeq(s, 1, 3) = FenceLine
Fence == FenceLine \o <<Newline>>

\* A letter that is marked, and the letter that a character is; 0, if it is none.
Marked(n) == -1 - n
Letter(c) == IF c < 0 THEN -1 - c ELSE c

\* Telegram: a marked letter is of two units.
UnitsOf(c) == IF c < 0 THEN 2 ELSE 1

ChunksTypeOK ==
  /\ bot \in {"discord", "telegram"}
  /\ chunks \in Seq(Seq(Int))
  /\ current \in Seq(Int)
  /\ inBlock \in BOOLEAN /\ lang \in Seq(Int)
  /\ lines \in Nat /\ letters \in Nat /\ total \in Nat /\ width \in Nat

ChunksInit ==
  /\ bot \in {"discord", "telegram"}
  /\ chunks = << >> /\ current = << >>
  /\ inBlock = FALSE /\ lang = << >>
  /\ lines = 0 /\ letters = 0 /\ total = 0 /\ width = 0

\* rstrip("\n").
Stripped(s) ==
  LET kept == {k \in 1 .. Len(s) : s[k] # Newline}
  IN SubSeq(s, 1, IF kept = {} THEN 0 ELSE CHOOSE k \in kept : \A j \in kept : j <= k)

Lines == {[i \in 1 .. n |-> letters + i] : n \in LineLengths}
         \cup {FenceLine \o [i \in 1 .. n |-> Marked(letters + i)] : n \in FenceLengths}

\* A fence opens a block, and is remembered whole, or closes the block.
Fenced(line) ==
  /\ inBlock' = IF IsFence(line) THEN ~inBlock ELSE inBlock
  /\ lang' = IF IsFence(line) /\ ~inBlock THEN line ELSE lang

\* Mutant: of a line that does not fit, what is over the limit is dropped.
TakeLineCropped(line) ==
  LET candidate == current \o line \o <<Newline>> IN
  /\ Fenced(line)
  /\ IF Len(candidate) <= Limit
       THEN current' = candidate /\ UNCHANGED chunks
       ELSE /\ chunks' = Append(chunks, Stripped(current))
            /\ current' = SubSeq(line \o <<Newline>>, 1,
                                 IF Len(line) < Limit THEN Len(line) + 1 ELSE Limit)

\* One line. When it does not fit, what there is is sent off, its code block
\* closed; in a block the next chunk begins with the fence that opened it, with
\* all its text; whole pieces of what is then too long are sent off as they are.
TakeLine(line) ==
  LET candidate == current \o line \o <<Newline>>
      close == IF inBlock' THEN Fence ELSE << >>
      prefix == IF inBlock' THEN lang' \o <<Newline>> ELSE << >>
      pending == prefix \o line \o <<Newline>>
      pieces == (Len(pending) - 1) \div Limit
  IN
  /\ Fenced(line)
  /\ IF Len(candidate) <= Limit
       THEN current' = candidate /\ UNCHANGED chunks
       ELSE /\ chunks' = chunks
                         \o (IF current = << >> THEN << >> ELSE <<Stripped(current \o close)>>)
                         \o [i \in 1 .. pieces |->
                               SubSeq(pending, (i - 1) * Limit + 1, i * Limit)]
            /\ current' = SubSeq(pending, pieces * Limit + 1, Len(pending))

DiscordLine ==
  /\ bot = "discord"
  /\ lines < MaxLines
  /\ lines' = lines + 1
  /\ \E line \in Lines :
       /\ TakeLine(line)
       /\ letters' = letters + (IF IsFence(line) THEN Len(line) - 3 ELSE Len(line))
       /\ total' = total + Len(line) + 1
  /\ UNCHANGED <<bot, width>>

\* A text within the limit is not cut. Its last newline is not part of it.
TooLong == bot = "discord" /\ total - 1 > Limit

\* The chunks of the text so far, were it to end here.
DiscordChunks == chunks \o (IF Stripped(current) = << >> THEN << >> ELSE <<Stripped(current)>>)

\* Mutant: a character is one unit.
AddCharacterByLength(c) ==
  IF Len(current) + 1 > UnitLimit
    THEN chunks' = Append(chunks, current) /\ current' = <<c>> /\ width' = UnitsOf(c)
    ELSE current' = Append(current, c) /\ width' = width + 1 /\ UNCHANGED chunks

AddCharacter(c) ==
  IF width + UnitsOf(c) > UnitLimit
    THEN chunks' = Append(chunks, current) /\ current' = <<c>> /\ width' = UnitsOf(c)
    ELSE current' = Append(current, c) /\ width' = width + UnitsOf(c) /\ UNCHANGED chunks

TelegramCharacter ==
  /\ bot = "telegram"
  /\ letters < MaxLetters
  /\ letters' = letters + 1
  /\ \E c \in {letters + 1, Marked(letters + 1)} : AddCharacter(c)
  /\ UNCHANGED <<bot, inBlock, lang, lines, total>>

ChunksNext == DiscordLine \/ TelegramCharacter

ChunksSpec == ChunksInit /\ [][ChunksNext]_chunkVars

-----------------------------------------------------------------------------
(* Properties *)

\* Letters that may not be sent twice; the text of a fence may, when its block
\* goes on in another chunk or it does not fit itself.
Ordinary(b, c) == b = "telegram" \/ c > 0

\* Where the characters of some chunks are, which of two comes first, and the
\* letters that come before a place.
Spots(cs) == UNION {{k} \X (1 .. Len(cs[k])) : k \in 1 .. Len(cs)}
Before(p, q) == p[1] < q[1] \/ (p[1] = q[1] /\ p[2] < q[2])
LetterAt(cs, p) == Letter(cs[p[1]][p[2]])
Shown(cs, p) == {LetterAt(cs, q) : q \in {q \in Spots(cs) : Before(q, p)}}

\* The chunks hold the letters 1 to n of the text: none is missing, each comes
\* after all those before it, and an ordinary one comes once.
KeepText(b, cs, n) ==
  /\ {LetterAt(cs, p) : p \in Spots(cs)} \ {0} = 1 .. n
  /\ \A p \in Spots(cs) :
       /\ 1 .. LetterAt(cs, p) - 1 \subseteq Shown(cs, p)
       /\ Ordinary(b, cs[p[1]][p[2]]) => LetterAt(cs, p) \notin Shown(cs, p)

\* UTF-16 units of a chunk.
Units(s) == Len(s) + Cardinality({n \in 1 .. Len(s) : s[n] < 0})

\* Wherever lines, fences and wide characters fall, the chunks hold every
\* letter of the text, in order, and once, but for the text of a Discord fence,
\* which the code may send again; and Telegram's, which end with the current one,
\* are within the limit in the units it counts.
ChunksKeepText ==
  /\ TooLong => KeepText(bot, DiscordChunks, letters)
  /\ bot = "telegram" =>
       LET all == Append(chunks, current) IN
         /\ KeepText(bot, all, letters)
         /\ \A k \in 1 .. Len(all) : Units(all[k]) <= UnitLimit

\* "Split text into <=2000 char chunks, preserving code fences": every chunk
\* is one that Discord takes, neither longer nor empty.
ChunksFit ==
  TooLong =>
    \A k \in 1 .. Len(DiscordChunks) : Len(DiscordChunks[k]) \in 1 .. Limit
=============================================================================
