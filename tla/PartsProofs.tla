------------------------------ MODULE PartsProofs ------------------------------
(***************************************************************************)
(* Theorems about the parts that MCParts runs, for any values of their      *)
(* constants: FileText, SessionSurfaces, ChatCommands, HarnessFiles,        *)
(* AnswerStream, MessageChunks and VoiceTailer, and all of them together.   *)
(***************************************************************************)
EXTENDS MCParts, FiniteSetTheorems, NaturalsInduction, WellFoundedInduction, TLAPS

-----------------------------------------------------------------------------
(* FileText: a file of any length, and any two sizes.                       *)

\* A file stays a sequence of bytes of the four kinds.
THEOREM TextTypeCorrect == TextSpec => []TextTypeOK
<1>1. TextInit => TextTypeOK
  BY DEF TextInit, TextTypeOK
<1>2. TextTypeOK /\ [TextNext]_file => TextTypeOK'
  BY DEF TextNext, Grows, TextTypeOK
<1> QED  BY <1>1, <1>2, PTL DEF TextSpec

LEMMA WidthBounds ==
    ASSUME NEW b
    PROVE  Width(b) \in 1 .. 4
  BY DEF Width

\* A sample is the beginning of its file.
LEMMA PrefixIs ==
    ASSUME NEW s \in Seq(Bytes), NEW n \in Nat
    PROVE  /\ Prefix(s, n) \in Seq(Bytes)
           /\ Len(Prefix(s, n)) = IF n < Len(s) THEN n ELSE Len(s)
           /\ \A i \in 1 .. Len(Prefix(s, n)) : Prefix(s, n)[i] = s[i]
  BY DEF Prefix

\* A character that ends within the sample is a character of the sample.
LEMMA CharacterInPrefix ==
    ASSUME NEW s \in Seq(Bytes), NEW n \in Nat, NEW j \in 1 .. Len(Prefix(s, n)),
           Character(s, j), j + Width(s[j]) - 1 <= Len(Prefix(s, n))
    PROVE  Character(Prefix(s, n), j)
<1>1. Prefix(s, n)[j] = s[j] /\ Len(Prefix(s, n)) \in Nat
  BY PrefixIs
<1>2. \A k \in j + 1 .. j + Width(s[j]) - 1 : k \in 1 .. Len(Prefix(s, n))
  BY <1>1, WidthBounds
<1>3. \A k \in j + 1 .. j + Width(s[j]) - 1 : Prefix(s, n)[k] = "next"
  BY <1>2, PrefixIs DEF Character
<1> QED  BY <1>1, <1>3 DEF Character

\* Of a text without an undecoded byte, only the last three bytes of a sample
\* can be undecoded, and only where the sample ends before the file does.
LEMMA UndecodedNearEnd ==
    ASSUME NEW s \in Seq(Bytes), NEW n \in Nat, Undecoded(s) = {},
           NEW i \in Undecoded(Prefix(s, n))
    PROVE  n < Len(s) /\ i >= Len(Prefix(s, n)) - 2
<1> DEFINE p == Prefix(s, n)
<1>1. Len(p) = (IF n < Len(s) THEN n ELSE Len(s)) /\ i \in 1 .. Len(p) /\ ~Decoded(p, i)
  BY PrefixIs DEF Undecoded
<1>2. i \in 1 .. Len(s) /\ Decoded(s, i)
  BY <1>1 DEF Undecoded
<1>3. PICK j \in 1 .. i : Character(s, j) /\ i < j + Width(s[j])
  BY <1>2 DEF Decoded
<1>4. Width(s[j]) \in 1 .. 4 /\ j \in 1 .. Len(p) /\ p[j] = s[j]
  BY <1>1, <1>3, WidthBounds, PrefixIs
<1>5. CASE j + Width(s[j]) - 1 <= Len(p)
  <2>1. Character(p, j)
    BY <1>3, <1>4, <1>5, CharacterInPrefix
  <2> QED  BY <2>1, <1>1, <1>3, <1>4 DEF Decoded
<1>6. CASE Len(p) < j + Width(s[j]) - 1
  <2>1. j + Width(s[j]) - 1 <= Len(s)
    BY <1>3 DEF Character
  <2> QED  BY <2>1, <1>1, <1>3, <1>4, <1>6
<1> QED  BY <1>1, <1>4, <1>5, <1>6

LEMMA ListedWhenOpens ==
    ASSUME TextTypeOK, Opens
    PROVE  Listed
<1> USE SizesAssumption
<1>1. file \in Seq(Bytes) /\ Len(file) <= MaxFileBytes
  BY DEF TextTypeOK, Opens, Editable
<1>2. Prefix(file, MaxFileBytes) = file
  BY <1>1 DEF Prefix
<1>3. Undecoded(file) = {} /\ ~HasNul(file)
  BY <1>1, <1>2 DEF Opens, Editable, IsText
<1>4. ~HasNul(Prefix(file, SniffBytes))
  BY <1>1, <1>3, PrefixIs DEF HasNul
<1>5. \A i \in Undecoded(Prefix(file, SniffBytes)) :
        SniffBytes < Len(file) /\ i >= Len(Prefix(file, SniffBytes)) - 2
  BY <1>1, <1>3, UndecodedNearEnd
<1> QED  BY <1>1, <1>4, <1>5 DEF Listed, Editable, IsText

\* A file that opens as text is listed as editable, whatever its bytes, however
\* much the listing reads and wherever that ends (the docstring of _is_text).
THEOREM OpensAsListedCorrect == TextSpec => []OpensAsListed
<1>1. TextTypeOK => OpensAsListed
  BY ListedWhenOpens DEF OpensAsListed
<1> QED  BY <1>1, TextTypeCorrect, PTL

-----------------------------------------------------------------------------
(* SessionSurfaces: any number of route calls.                              *)

\* Every step keeps the types.
LEMMA SurfacesTypeStep ==
    ASSUME SurfacesTypeOK, [SurfacesNext]_surfaceVars
    PROVE  SurfacesTypeOK'
<1> USE DEF SurfacesTypeOK, Opening
<1>1. ASSUME NEW c \in Calls, CreateSession(c)  PROVE SurfacesTypeOK'
  BY <1>1 DEF CreateSession, OpensFor, UnderWay
<1>2. ASSUME NEW c \in Calls, Created(c)  PROVE SurfacesTypeOK'
  BY <1>2 DEF Created
<1>3. ASSUME NEW c \in Calls, ReleaseStream(c)  PROVE SurfacesTypeOK'
  BY <1>3 DEF ReleaseStream, PopStream, Closes, UnderWay
<1>4. ASSUME NEW c \in Calls, StreamEnded(c)  PROVE SurfacesTypeOK'
  BY <1>4 DEF StreamEnded
<1>5. ASSUME NEW c \in Calls, AttachToPane(c)  PROVE SurfacesTypeOK'
  BY <1>5 DEF AttachToPane, OpenTerminal, OpensFor, UnderWay
<1>6. ASSUME NEW c \in Calls, AttachToNone(c)  PROVE SurfacesTypeOK'
  BY <1>6 DEF AttachToNone, OpensFor, UnderWay
<1>7. ASSUME NEW c \in Calls, Fetched(c)  PROVE SurfacesTypeOK'
  BY <1>7 DEF Fetched, OpenTerminal
<1>8. ASSUME NEW c \in Calls, ReleaseTerminal(c)  PROVE SurfacesTypeOK'
  BY <1>8 DEF ReleaseTerminal, TeardownPty, TeardownRaises, Closes, UnderWay
<1>9. ASSUME NEW c \in Calls, KillSession(c)  PROVE SurfacesTypeOK'
  BY <1>9 DEF KillSession, TeardownPty, PopStream, Closes, UnderWay
<1>10. CASE Reap
  BY <1>10 DEF Reap
<1>11. CASE HarnessEnds
  BY <1>11 DEF HarnessEnds
<1>12. CASE ServerRestarts
  BY <1>12 DEF ServerRestarts
<1>13. CASE UNCHANGED surfaceVars
  BY <1>13 DEF surfaceVars
<1>14. ASSUME NEW c \in Calls, KillRaises(c)  PROVE SurfacesTypeOK'
  BY <1>14 DEF KillRaises, TeardownRaises
<1> QED
  BY <1>1, <1>2, <1>3, <1>4, <1>5, <1>6, <1>7, <1>8, <1>9, <1>10, <1>11, <1>12, <1>13,
     <1>14
     DEF SurfacesNext

\* The state stays in its types.
THEOREM SurfacesTypeCorrect == SurfacesSpec => []SurfacesTypeOK
<1>1. SurfacesInit => SurfacesTypeOK
  BY CallsAssumption DEF SurfacesInit, SurfacesTypeOK
<1> QED  BY <1>1, SurfacesTypeStep, PTL DEF SurfacesSpec

-----------------------------------------------------------------------------
(* One harness process. While the gateway hands over one call at a time, the *)
(* surface it takes for the live one tells what may run and be on its way.    *)

Ending == {c \in Calls : call[c] = "ending"}

\* The terminal, if it runs and was not left by a teardown.
Known == tmux /\ ~left

\* Released or never opened: what still runs is being ended.
NoneOwns ==
  owner = "none" =>
    /\ ~Known
    /\ ~UnderWay(Opening)
    /\ live \subseteq {ending[c] : c \in Ending}

\* One create is under way, or has registered the only process there is.
StreamOwns ==
  owner = "stream" =>
    /\ ~Known
    /\ ~UnderWay({"fetching", "ending"})
    /\ \A c, d \in Calls : call[c] = "spawning" /\ call[d] = "spawning" => c = d
    /\ UnderWay({"spawning"}) => live = {}
    /\ live \subseteq {entry}

TerminalOwns ==
  owner = "terminal" => live = {} /\ ~UnderWay({"spawning"})

OneRuns == \A p, q \in live : p = q

Handover == ~crossed => NoneOwns /\ StreamOwns /\ TerminalOwns /\ OneRuns

LEMMA HandoverShows ==
    ASSUME SurfacesTypeOK, Handover
    PROVE  OneOwner
BY DEF SurfacesTypeOK, Handover, NoneOwns, StreamOwns, TerminalOwns, OneRuns, OneOwner, Known

\* A create begins on a conversation that nothing runs for.
LEMMA HandoverCreate ==
    ASSUME SurfacesTypeOK, Handover, NEW c \in Calls, CreateSession(c)
    PROVE  Handover'
<1>1. SUFFICES ASSUME ~crossed'  PROVE (NoneOwns /\ StreamOwns /\ TerminalOwns /\ OneRuns)'
  BY DEF Handover
<1>2. ~crossed /\ owner = "none" /\ owner' = "stream" /\ Ending = {} /\ live = {}
  BY <1>1 DEF CreateSession, OpensFor, UnderWay, Ending, Handover, NoneOwns
<1>3. \A d \in Calls : d # c => call'[d] = call[d] /\ call[d] \notin {"spawning", "fetching", "ending"}
  BY <1>1, <1>2 DEF CreateSession, OpensFor, UnderWay, Handover, NoneOwns, Opening, SurfacesTypeOK
<1>4. call'[c] = "spawning" /\ ~Known' /\ live' = {}
  BY <1>2 DEF CreateSession, SurfacesTypeOK, Handover, NoneOwns, Known
<1> QED
  BY <1>2, <1>3, <1>4 DEF NoneOwns, StreamOwns, TerminalOwns, OneRuns, UnderWay

\* The one create registers its process, or fails.
LEMMA HandoverCreated ==
    ASSUME SurfacesTypeOK, Handover, NEW c \in Calls, Created(c)
    PROVE  Handover'
<1>1. SUFFICES ASSUME ~crossed'  PROVE (NoneOwns /\ StreamOwns /\ TerminalOwns /\ OneRuns)'
  BY DEF Handover
<1>2. ~crossed /\ owner = "stream" /\ owner' = "stream" /\ live = {} /\ ~Known'
  BY <1>1 DEF Created, Known, UnderWay, Opening, Handover, NoneOwns, StreamOwns, TerminalOwns, SurfacesTypeOK
<1>3. \A d \in Calls : call'[d] \notin {"spawning", "fetching", "ending"}
  BY <1>2 DEF Created, UnderWay, Handover, StreamOwns, SurfacesTypeOK
<1>4. live' \subseteq {entry'}
  BY <1>2 DEF Created
<1> QED
  BY <1>2, <1>3, <1>4 DEF NoneOwns, StreamOwns, TerminalOwns, OneRuns, UnderWay

\* What is released or killed was registered; it is ended by the call from here on.
LEMMA HandoverCloses ==
    ASSUME SurfacesTypeOK, Handover, NEW c \in Calls, ReleaseStream(c) \/ KillSession(c)
    PROVE  Handover'
<1>1. SUFFICES ASSUME ~crossed'  PROVE (NoneOwns /\ StreamOwns /\ TerminalOwns /\ OneRuns)'
  BY DEF Handover
<1>2. ~crossed /\ ~UnderWay(Opening) /\ call[c] = "new" /\ live' = live /\ owner' # "stream"
  BY <1>1 DEF ReleaseStream, KillSession, Closes, SurfacesTypeOK
<1>3. owner' \in {owner, "none"} /\ owner' \in {"none", "terminal"}
  BY <1>2 DEF ReleaseStream, KillSession, Closes, SurfacesTypeOK
<1>4. \A d \in Calls \ {c} : call'[d] = call[d] /\ ending'[d] = ending[d]
  BY DEF ReleaseStream, KillSession, PopStream, SurfacesTypeOK
<1>5. entry # NoProcess => call'[c] = "ending" /\ ending'[c] = entry
  BY DEF ReleaseStream, KillSession, PopStream, SurfacesTypeOK
<1>6. ~UnderWay(Opening)'
  <2>1. call'[c] \notin Opening
    BY DEF ReleaseStream, KillSession, PopStream, SurfacesTypeOK, Opening
  <2> QED  BY <1>2, <1>4, <2>1 DEF UnderWay, Opening
<1>7. live \subseteq {ending[d] : d \in Ending} => live' \subseteq {ending'[d] : d \in Ending'}
  BY <1>2, <1>4 DEF Ending
<1>8. live \subseteq {entry} => live' \subseteq {ending'[d] : d \in Ending'}
  BY <1>2, <1>5, CallsAssumption DEF Ending, SurfacesTypeOK
<1>9. ASSUME owner' = "none"  PROVE ~Known' /\ live' \subseteq {ending'[d] : d \in Ending'}
  <2>1. CASE owner = "none"
    <3>1. ~Known'
      BY <1>2, <2>1 DEF Handover, NoneOwns, ReleaseStream, KillSession, TeardownPty, Known
    <3> QED  BY <1>2, <1>7, <2>1, <3>1 DEF Handover, NoneOwns
  <2>2. CASE owner = "stream"
    <3>1. ~Known'
      BY <1>2, <2>2 DEF Handover, StreamOwns, ReleaseStream, KillSession, TeardownPty, Known
    <3> QED  BY <1>2, <1>8, <2>2, <3>1 DEF Handover, StreamOwns
  <2>3. CASE owner = "terminal"
    <3>1. ~Known'
      BY <1>1, <1>9, <2>3 DEF ReleaseStream, KillSession, TeardownPty, Closes, SurfacesTypeOK, Known
    <3> QED  BY <1>2, <2>3, <3>1 DEF Handover, TerminalOwns
  <2> QED  BY <2>1, <2>2, <2>3 DEF SurfacesTypeOK
<1>10. TerminalOwns'
  BY <1>2, <1>3, <1>6 DEF Handover, TerminalOwns, UnderWay, Opening
<1>11. OneRuns'
  BY <1>2 DEF Handover, OneRuns
<1> QED
  BY <1>2, <1>6, <1>9, <1>10, <1>11 DEF NoneOwns, StreamOwns

\* A process has been waited for.
LEMMA HandoverEnded ==
    ASSUME SurfacesTypeOK, Handover, NEW c \in Calls, StreamEnded(c)
    PROVE  Handover'
<1>1. SUFFICES ASSUME ~crossed'  PROVE (NoneOwns /\ StreamOwns /\ TerminalOwns /\ OneRuns)'
  BY DEF Handover
<1>2. ~crossed /\ owner' = owner /\ owner # "stream" /\ Known' = Known
  BY <1>1 DEF StreamEnded, Known, Handover, StreamOwns, UnderWay
<1>3. live' = live \ {ending[c]}
  BY DEF StreamEnded
<1>4. \A d \in Calls \ {c} : call'[d] = call[d] /\ ending'[d] = ending[d]
  BY DEF StreamEnded, SurfacesTypeOK
<1>5. \A s \in SUBSET Opening : UnderWay(s)' => UnderWay(s)
  BY <1>4 DEF StreamEnded, UnderWay, SurfacesTypeOK, Opening
<1>6. NoneOwns'
  <2>1. live \subseteq {ending[d] : d \in Ending} => live' \subseteq {ending'[d] : d \in Ending'}
    BY <1>3, <1>4 DEF Ending
  <2> QED  BY <1>2, <1>5, <2>1 DEF Handover, NoneOwns
<1>7. TerminalOwns'
  BY <1>2, <1>3, <1>5 DEF Handover, TerminalOwns, Opening
<1> QED
  BY <1>2, <1>3, <1>6, <1>7 DEF Handover, StreamOwns, OneRuns

\* A tile attaches while the terminal is the live surface, or nothing is.
LEMMA HandoverAttach ==
    ASSUME SurfacesTypeOK, Handover, NEW c \in Calls, AttachToPane(c) \/ AttachToNone(c)
    PROVE  Handover'
<1>1. SUFFICES ASSUME ~crossed'  PROVE (NoneOwns /\ StreamOwns /\ TerminalOwns /\ OneRuns)'
  BY DEF Handover
<1>2. ~crossed /\ owner \in {"none", "terminal"} /\ owner' = "terminal"
  BY <1>1 DEF AttachToPane, AttachToNone, OpensFor
<1>3. ~UnderWay({"spawning", "ending"})
  BY <1>1 DEF AttachToPane, AttachToNone, OpensFor
<1>4. live = {} /\ live' = live
  BY <1>2, <1>3 DEF AttachToPane, AttachToNone, Handover, NoneOwns, TerminalOwns, Ending, UnderWay
<1>5. ~UnderWay({"spawning"})'
  BY <1>3 DEF AttachToPane, AttachToNone, UnderWay, SurfacesTypeOK
<1> QED
  BY <1>2, <1>4, <1>5 DEF NoneOwns, StreamOwns, TerminalOwns, OneRuns

\* The carry-forward has come: the pane is opened for the surface that owns.
LEMMA HandoverFetched ==
    ASSUME SurfacesTypeOK, Handover, NEW c \in Calls, Fetched(c)
    PROVE  Handover'
<1>1. SUFFICES ASSUME ~crossed'  PROVE (NoneOwns /\ StreamOwns /\ TerminalOwns /\ OneRuns)'
  BY DEF Handover
<1>2. ~crossed /\ owner = "terminal" /\ owner' = "terminal"
  BY <1>1 DEF Fetched, Handover, NoneOwns, StreamOwns, UnderWay, Opening, SurfacesTypeOK
<1>3. live' = {} /\ ~UnderWay({"spawning"})'
  BY <1>2 DEF Fetched, Handover, TerminalOwns, UnderWay, SurfacesTypeOK
<1> QED
  BY <1>2, <1>3 DEF NoneOwns, StreamOwns, TerminalOwns, OneRuns

\* The terminal is released, or the release or the kill raises: no surface opens.
LEMMA HandoverReleased ==
    ASSUME SurfacesTypeOK, Handover, NEW c \in Calls, ReleaseTerminal(c) \/ KillRaises(c)
    PROVE  Handover'
<1>1. SUFFICES ASSUME ~crossed'  PROVE (NoneOwns /\ StreamOwns /\ TerminalOwns /\ OneRuns)'
  BY DEF Handover
<1>2. ~crossed /\ live' = live /\ entry' = entry /\ ending' = ending
  <2>1. CASE ReleaseTerminal(c)
    <3>1. live' = live /\ entry' = entry /\ ending' = ending
      BY <2>1 DEF ReleaseTerminal
    <3>2. Closes({"terminal"}) \/ crossed' = crossed
      BY <2>1 DEF ReleaseTerminal
    <3> QED  BY <1>1, <3>1, <3>2 DEF Closes, SurfacesTypeOK
  <2>2. CASE KillRaises(c)  BY <1>1, <2>2 DEF KillRaises
  <2> QED  BY <2>1, <2>2
<1>3. call' = [call EXCEPT ![c] = "done"]
  BY DEF ReleaseTerminal, KillRaises
<1>4. Ending' = Ending
  BY <1>3 DEF ReleaseTerminal, KillRaises, Ending, SurfacesTypeOK
<1>5. \A s \in SUBSET {"spawning", "fetching", "ending"} : UnderWay(s)' => UnderWay(s)
  BY <1>3 DEF UnderWay, SurfacesTypeOK
<1>6. ASSUME Known'  PROVE Known /\ owner' = owner /\ handle
  BY <1>6 DEF Known, ReleaseTerminal, KillRaises, TeardownPty, TeardownRaises, Closes, SurfacesTypeOK
<1>7. owner' = owner \/ (owner = "terminal" /\ owner' = "none" /\ ~UnderWay(Opening))
  BY <1>1 DEF ReleaseTerminal, KillRaises, Closes
<1>8. NoneOwns'
  <2>1. owner' = "none" => owner = "none" \/ (owner = "terminal" /\ ~UnderWay(Opening))
    BY <1>7
  <2> QED  BY <1>2, <1>4, <1>5, <1>6, <2>1 DEF Handover, NoneOwns, TerminalOwns, Opening
<1>9. StreamOwns'
  <2>1. owner' = "stream" => owner = "stream"
    BY <1>7
  <2>2. \A d \in Calls : call'[d] = "spawning" => call[d] = "spawning"
    BY <1>3 DEF SurfacesTypeOK
  <2> QED  BY <1>2, <1>5, <1>6, <2>1, <2>2 DEF Handover, StreamOwns
<1>10. TerminalOwns'
  BY <1>2, <1>5, <1>7 DEF Handover, TerminalOwns
<1> QED
  BY <1>2, <1>8, <1>9, <1>10 DEF Handover, OneRuns

\* Nothing that ends by itself brings a process into being.
LEMMA HandoverEnds ==
    ASSUME SurfacesTypeOK, Handover, Reap \/ HarnessEnds \/ ServerRestarts
    PROVE  Handover'
<1>1. SUFFICES ASSUME ~crossed'  PROVE (NoneOwns /\ StreamOwns /\ TerminalOwns /\ OneRuns)'
  BY DEF Handover
<1>2. ~crossed /\ owner' = owner /\ live' \subseteq live /\ (Known' => Known)
  <2> USE DEF Known
  <2>1. CASE Reap
    BY <1>1, <2>1 DEF Reap
  <2>2. CASE HarnessEnds
    BY <1>1, <2>2 DEF HarnessEnds
  <2>3. CASE ServerRestarts
    <3>1. tmux' = FALSE \/ (tmux' = tmux /\ left' = left)
      BY <2>3 DEF ServerRestarts
    <3> QED  BY <1>1, <2>3, <3>1 DEF ServerRestarts
  <2> QED  BY <2>1, <2>2, <2>3
<1>3. CASE Reap \/ HarnessEnds
  <2>1. entry' = entry /\ call' = call /\ ending' = ending
    BY <1>3 DEF Reap, HarnessEnds
  <2>2. UnderWay(Opening)' = UnderWay(Opening) /\ Ending' = Ending
        /\ UnderWay({"fetching", "ending"})' = UnderWay({"fetching", "ending"})
        /\ UnderWay({"spawning"})' = UnderWay({"spawning"})
    BY <2>1 DEF UnderWay, Ending, Opening
  <2> QED
    BY <1>2, <2>1, <2>2 DEF Handover, NoneOwns, StreamOwns, TerminalOwns, OneRuns
<1>4. CASE ServerRestarts
  <2>1. live' = {} /\ \A d \in Calls : call'[d] \in {"new", "done"}
    BY <1>4 DEF ServerRestarts
  <2> QED
    BY <1>2, <2>1 DEF Handover, NoneOwns, StreamOwns, TerminalOwns, OneRuns, UnderWay, Opening
<1> QED  BY <1>3, <1>4

LEMMA HandoverStep ==
    ASSUME SurfacesTypeOK, Handover, [SurfacesNext]_surfaceVars
    PROVE  Handover'
<1>1. CASE UNCHANGED surfaceVars
  BY <1>1 DEF surfaceVars, Handover, NoneOwns, StreamOwns, TerminalOwns, OneRuns, UnderWay,
              Ending, Opening, Known
<1>2. CASE SurfacesNext
  BY <1>2, HandoverCreate, HandoverCreated, HandoverCloses, HandoverEnded, HandoverAttach,
     HandoverFetched, HandoverReleased, HandoverEnds DEF SurfacesNext
<1> QED  BY <1>1, <1>2

\* A conversation has one harness process at most, for any calls and any
\* interleaving of them, while the gateway hands over one call at a time; a
\* terminal that a teardown left, which nothing knows of, is apart.
THEOREM OneOwnerCorrect == SurfacesSpec => []OneOwner
<1>1. SurfacesInit => Handover
  BY CallsAssumption
     DEF SurfacesInit, Handover, NoneOwns, StreamOwns, TerminalOwns, OneRuns, UnderWay, Opening, Known
<1>2. SurfacesInit => SurfacesTypeOK
  BY CallsAssumption DEF SurfacesInit, SurfacesTypeOK
<1>3. SurfacesTypeOK /\ Handover /\ [SurfacesNext]_surfaceVars => (SurfacesTypeOK /\ Handover)'
  BY SurfacesTypeStep, HandoverStep
<1> QED  BY <1>1, <1>2, <1>3, HandoverShows, PTL DEF SurfacesSpec

-----------------------------------------------------------------------------
(* ChatCommands: any number of taps, commands, pickers and conversations,   *)
(* any number of claims remembered, any number of restarts.                 *)

LEMMA GatewayIs ==
    ASSUME NEW j \in Jobs, GatewayDoes(j)
    PROVE  \/ GatewayNew
           \/ GatewaySwitch(job[j].target)
           \/ GatewaySuspend(job[j].target)
           \/ GatewayRename(job[j].target)
  BY Zenon DEF GatewayDoes

LEMMA GatewayTypes ==
    ASSUME CommandsTypeOK, NEW j \in Jobs, GatewayDoes(j)
    PROVE  /\ status' \in [Convs -> {"none", "live", "suspended", "closed"}]
           /\ active' \in Convs \cup {Nobody}
           /\ convs' \in 0 .. MaxConvs
<1> USE CommandsAssumption DEF CommandsTypeOK, Convs
<1>1. job[j].target \in Convs \cup {Nobody}
  OBVIOUS
<1>2. CASE GatewayNew
  BY <1>2 DEF GatewayNew, Closed
<1>3. CASE GatewaySwitch(job[j].target)
  BY <1>1, <1>3 DEF GatewaySwitch
<1>4. CASE GatewaySuspend(job[j].target)
  BY <1>1, <1>4 DEF GatewaySuspend
<1>5. CASE GatewayRename(job[j].target)
  BY <1>5 DEF GatewayRename, gatewaySide
<1> QED  BY <1>2, <1>3, <1>4, <1>5, GatewayIs

JobType ==
  [pc : {"new", "queued", "claimed", "waiting", "locked", "acting", "answer", "done", "lost"},
   kind : Kinds, on : Pickers \cup {Nobody}, target : Convs \cup {Nobody},
   was : Convs \cup {Nobody}, crossed : BOOLEAN, told : Words]

LEMMA JobFields ==
    ASSUME NEW r \in JobType, NEW kind \in Kinds, NEW on \in Pickers \cup {Nobody},
           NEW target \in Convs \cup {Nobody}, NEW was \in Convs \cup {Nobody},
           NEW pc \in {"new", "queued", "claimed", "waiting", "locked", "acting", "answer", "done",
                      "lost"}
    PROVE  /\ [r EXCEPT !.pc = pc] \in JobType
           /\ [r EXCEPT !.pc = pc, !.was = was] \in JobType
           /\ [r EXCEPT !.pc = pc, !.target = target, !.kind = kind] \in JobType
           /\ [r EXCEPT !.pc = pc, !.kind = kind, !.target = target] \in JobType
           /\ [r EXCEPT !.pc = pc, !.kind = kind, !.target = target, !.was = was] \in JobType
           /\ [r EXCEPT !.pc = pc, !.on = on, !.target = target, !.kind = kind] \in JobType
  BY ZenonT(60) DEF JobType

LEMMA OverType ==
    ASSUME NEW pc \in {"answer", "done", "lost", "new"}, NEW word \in Words
    PROVE  Over(pc, word) \in JobType
  BY DEF Over, JobType, Kinds, Words

LEMMA AfterType ==
    ASSUME NEW j \in Jobs, NEW word \in {"done", "fails", Raised(j)}
    PROVE  After(j, word) \in JobType
<1>1. word \in Words
  BY DEF Raised, Words
<1> QED  BY <1>1, OverType DEF After

LEMMA CrossedType ==
    ASSUME CommandsTypeOK
    PROVE  /\ Crossed \in [Jobs -> JobType]
           /\ \A j \in Jobs : /\ Crossed[j].pc = job[j].pc /\ Crossed[j].kind = job[j].kind
                              /\ Crossed[j].was = job[j].was /\ Crossed[j].told = job[j].told
                              /\ job[j].crossed => Crossed[j].crossed
                              /\ job[j].pc = "acting" /\ active' # active => Crossed[j].crossed
<1>1. ASSUME NEW j \in Jobs
      PROVE  /\ Crossed[j] \in JobType
             /\ Crossed[j].pc = job[j].pc /\ Crossed[j].kind = job[j].kind
             /\ Crossed[j].was = job[j].was /\ Crossed[j].told = job[j].told
             /\ job[j].crossed => Crossed[j].crossed
             /\ job[j].pc = "acting" /\ active' # active => Crossed[j].crossed
  <2> DEFINE c == job[j].crossed \/ (job[j].pc = "acting" /\ active' # active)
  <2>1. c \in BOOLEAN
    OBVIOUS
  <2>2. Crossed[j] = [job[j] EXCEPT !.crossed = c]
    BY <1>1 DEF Crossed
  <2>3. job[j] \in JobType
    BY <1>1 DEF CommandsTypeOK, JobType
  <2>4. Crossed[j].crossed = c
    BY <2>2, <2>3 DEF JobType
  <2> HIDE DEF c
  <2>5. /\ Crossed[j] \in JobType
        /\ Crossed[j].pc = job[j].pc /\ Crossed[j].kind = job[j].kind
        /\ Crossed[j].was = job[j].was /\ Crossed[j].told = job[j].told
    BY <2>1, <2>2, <2>3 DEF JobType
  <2> QED  BY <2>4, <2>5 DEF c
<1>2. Crossed = [j \in Jobs |-> Crossed[j]]
  BY DEF Crossed
<1> QED  BY <1>1, <1>2

\* Claims remembered are pickers, and never more than may be.
LEMMA LastSpentType ==
    ASSUME NEW s \in Seq(Pickers), Len(s) <= MaxSpent, NEW m \in Pickers
    PROVE  LastSpent(Append(s, m)) \in Seq(Pickers) /\ Len(LastSpent(Append(s, m))) <= MaxSpent
  BY CommandsAssumption DEF LastSpent

\* A tap that is on its way is on a picker, and asks for a conversation.
UnderWayTap == {"queued", "claimed", "waiting", "locked", "acting"}
Tapped ==
  \A t \in Taps : job[t].pc \in UnderWayTap =>
    job[t].on \in Pickers /\ job[t].kind \in {"tapNew", "tapSwitch"}

CommandsTyped == CommandsTypeOK /\ Tapped

LEMMA TypedTap ==
    ASSUME CommandsTyped, NEW t \in Taps, TapStep(t) \/ \E m \in Pickers : Tap(t, m)
    PROVE  CommandsTyped'
<1> USE CommandsAssumption
    DEF CommandsTyped, CommandsTypeOK, Tapped, UnderWayTap, gatewaySide, claimVars
<1>0. t \in Jobs /\ Taps \subseteq Jobs
  BY DEF Jobs
<1>1. job \in [Jobs -> JobType]
  BY DEF JobType
<1>2. ASSUME NEW m \in Pickers, Tap(t, m)  PROVE CommandsTyped'
  <2>1. PICK c \in 0 .. convs :
          job' = [job EXCEPT ![t].pc = "queued", ![t].on = m, ![t].target = c,
                             ![t].kind = IF c = Nobody THEN "tapNew" ELSE "tapSwitch"]
    BY <1>2 DEF Tap
  <2>2. c \in Convs \cup {Nobody}
    BY DEF Convs, Nobody
  <2> DEFINE kind == IF c = Nobody THEN "tapNew" ELSE "tapSwitch"
             new == [job[t] EXCEPT !.pc = "queued", !.on = m, !.target = c, !.kind = kind]
  <2>3. job' \in [Jobs -> JobType]
    <3>1. new \in JobType
      BY <1>0, <1>1, <2>2, JobFields, ZenonT(60) DEF Kinds
    <3>2. job' = [job EXCEPT ![t] = new]
      BY <2>1
    <3> QED  BY <1>1, <3>1, <3>2
  <2>4. Tapped'
    BY <1>0, <1>1, <2>1 DEF JobType
  <2> QED  BY <1>2, <2>3, <2>4 DEF Tap, JobType
<1>3. CASE Claim(t)
  <2>1. job[t].on \in Pickers
    BY <1>3 DEF Claim
  <2>2. spent' \in Seq(Pickers) /\ Len(spent') <= MaxSpent
    BY <1>3, <2>1, LastSpentType DEF Claim
  <2>3. disk' \in Seq(Pickers) /\ Len(disk') <= MaxSpent
    BY <1>3, <2>2 DEF Claim
  <2>4. claims' \in Seq(Pickers) /\ forgotten' \in SUBSET Pickers
    BY <1>3, <2>1 DEF Claim
  <2>5. job' \in [Jobs -> JobType] /\ Tapped'
    BY <1>0, <1>1, <1>3, ZenonT(60) DEF Claim, JobType
  <2> QED  BY <1>3, <2>2, <2>3, <2>4, <2>5 DEF Claim, JobType
<1>4. CASE ClaimRefused(t)
  <2>1. Over("done", "spent") \in JobType /\ Over("done", "spent").pc = "done"
    BY OverType DEF Words, Over
  <2>2. job' \in [Jobs -> JobType] /\ Tapped'
    BY <1>0, <1>1, <1>4, <2>1 DEF ClaimRefused
  <2> QED  BY <1>4, <2>2 DEF ClaimRefused, JobType
<1>5. CASE ClearKeyboard(t)
  <2>1. job' \in [Jobs -> JobType] /\ Tapped'
    <3>1. job' = [job EXCEPT ![t].pc = "waiting"] /\ job[t].pc = "claimed"
      BY <1>5 DEF ClearKeyboard
    <3> QED  BY <1>0, <1>1, <3>1, ZenonT(60) DEF JobType
  <2> QED  BY <1>5, <2>1 DEF ClearKeyboard, JobType
<1>6. CASE AnswerTap(t)
  <2>1. job' \in [Jobs -> JobType] /\ Tapped'
    BY <1>0, <1>1, <1>6 DEF AnswerTap, JobType
  <2>2. picker' \in [Pickers -> {"none", "open", "bare"}]
    BY <1>6 DEF AnswerTap, Drawn
  <2> QED  BY <1>6, <2>1, <2>2 DEF AnswerTap, JobType
<1> QED  BY <1>2, <1>3, <1>4, <1>5, <1>6 DEF TapStep

LEMMA TypedCommand ==
    ASSUME CommandsTyped, NEW c \in Commands, Asks(c)
    PROVE  CommandsTyped'
<1> USE CommandsAssumption
    DEF CommandsTyped, CommandsTypeOK, Tapped, UnderWayTap, gatewaySide, claimVars
<1>0. c \in Jobs /\ \A t \in Taps : t \in Jobs /\ t # c
  BY DEF Jobs
<1>1. job \in [Jobs -> JobType]
  BY DEF JobType
<1>2. CASE Suspend(c)
  <2>1. job' \in [Jobs -> JobType] /\ Tapped'
    <3>1. PICK s \in Convs :
            job' = [job EXCEPT ![c].pc = "waiting", ![c].kind = "suspend", ![c].target = s]
      BY <1>2 DEF Suspend
    <3>2. [job[c] EXCEPT !.pc = "waiting", !.kind = "suspend", !.target = s] \in JobType
      BY <1>0, <1>1, JobFields DEF Kinds
    <3> QED  BY <1>0, <1>1, <3>1, <3>2
  <2> QED  BY <1>2, <2>1 DEF Suspend, JobType
<1>3. CASE AskName(c)
  <2>1. Over("done", "gone") \in JobType
    BY OverType DEF Words
  <2>2. [job[c] EXCEPT !.pc = "acting", !.kind = "rename", !.target = active, !.was = active] \in JobType
    BY <1>0, <1>1, JobFields, ZenonT(60) DEF Kinds
  <2>3. job' \in [Jobs -> JobType] /\ Tapped'
    BY <1>0, <1>1, <1>3, <2>1, <2>2 DEF AskName
  <2> QED  BY <1>3, <2>3 DEF AskName, JobType
<1>4. CASE Typed(c)
  <2>1. job' \in [Jobs -> JobType] /\ Tapped'
    <3>1. PICK s \in Convs \cup {Nobody} :
            job' = [job EXCEPT ![c].pc = "acting", ![c].target = s,
                               ![c].kind = IF s = Nobody THEN "new" ELSE "switch"]
      BY <1>4 DEF Typed
    <3> DEFINE kind == IF s = Nobody THEN "new" ELSE "switch"
    <3>2. [job[c] EXCEPT !.pc = "acting", !.target = s, !.kind = kind] \in JobType
      BY <1>0, <1>1, JobFields, ZenonT(60) DEF Kinds
    <3> QED  BY <1>0, <1>1, <3>1, <3>2
  <2> QED  BY <1>4, <2>1 DEF Typed, JobType
<1> QED  BY <1>2, <1>3, <1>4 DEF Asks

LEMMA TypedJob ==
    ASSUME CommandsTyped, NEW j \in Jobs, TakeLock(j) \/ AskActive(j) \/ Acts(j) \/ Fails(j)
    PROVE  CommandsTyped'
<1> USE CommandsAssumption
    DEF CommandsTyped, CommandsTypeOK, Tapped, UnderWayTap, gatewaySide, claimVars
<1>0. Taps \subseteq Jobs
  BY DEF Jobs
<1>1. job \in [Jobs -> JobType]
  BY DEF JobType
<1>2. CASE TakeLock(j)
  <2>1. job' \in [Jobs -> JobType] /\ Tapped'
    BY <1>0, <1>1, <1>2 DEF TakeLock, JobType
  <2> QED  BY <1>2, <2>1 DEF TakeLock, JobType
<1>3. CASE AskActive(j)
  <2>1. job' \in [Jobs -> JobType] /\ Tapped'
    <3>1. job' = [job EXCEPT ![j].pc = "acting", ![j].was = active] /\ job[j].pc = "locked"
      BY <1>3 DEF AskActive
    <3>2. [job[j] EXCEPT !.pc = "acting", !.was = active] \in JobType
      BY <1>1, JobFields
    <3> QED  BY <1>0, <1>1, <3>1, <3>2
  <2> QED  BY <1>3, <2>1 DEF AskActive, JobType
<1>4. CASE Acts(j)
  <2>1. PICK word \in {"done", Raised(j)} : job' = [Crossed EXCEPT ![j] = After(j, word)]
    BY <1>4 DEF Acts
  <2>2. After(j, word) \in JobType /\ After(j, word).pc \in {"answer", "done"}
    BY <2>1, AfterType DEF After, Over
  <2>3. job' \in [Jobs -> JobType]
    BY <2>1, <2>2, CrossedType
  <2>4. Tapped'
    <3>1. ASSUME NEW t \in Taps, job'[t].pc \in UnderWayTap
          PROVE  job'[t].on = job[t].on /\ job'[t].kind = job[t].kind /\ job'[t].pc = job[t].pc
      <4>1. t # j
        BY <1>0, <2>1, <2>2, <3>1, CrossedType
      <4>2. job'[t] = [job[t] EXCEPT !.crossed = @ \/ (job[t].pc = "acting" /\ active' # active)]
        BY <1>0, <2>1, <4>1 DEF Crossed
      <4> QED  BY <1>0, <1>1, <4>2 DEF JobType
    <3> QED  BY <3>1
  <2>5. holder' \in SUBSET Jobs
    BY <1>4 DEF Acts
  <2> QED  BY <1>4, <2>3, <2>4, <2>5, GatewayTypes DEF Acts, JobType
<1>5. CASE Fails(j)
  <2>1. PICK word \in {"fails", Raised(j)} : job' = [job EXCEPT ![j] = After(j, word)]
    BY <1>5 DEF Fails
  <2>2. After(j, word) \in JobType /\ After(j, word).pc \in {"answer", "done"}
    BY <2>1, AfterType DEF After, Over
  <2>3. job' \in [Jobs -> JobType] /\ Tapped'
    BY <1>0, <1>1, <2>1, <2>2
  <2> QED  BY <1>5, <2>3 DEF Fails, JobType
<1> QED  BY <1>2, <1>3, <1>4, <1>5

\* What a restart makes of a handler: it is queued again, as it was or lost.
LEMMA RestartIs ==
    ASSUME CommandsTypeOK, BotRestarts
    PROVE  /\ job' \in [Jobs -> JobType]
           /\ \A j \in Jobs :
                \/ j \in Taps /\ job[j].pc \in UnderWayTap /\ job'[j].pc = "queued"
                   /\ job'[j].on = job[j].on /\ job'[j].kind = job[j].kind
                \/ job'[j] = job[j] /\ job[j].pc \in {"new", "queued", "done"}
                \/ job'[j].pc = "lost"
<1> DEFINE Redelivered(j) == [job[j] EXCEPT !.pc = "queued", !.was = Nobody, !.crossed = FALSE]
<1>1. PICK again \in SUBSET {t \in Taps : job[t].pc \notin {"new", "queued", "lost", "answer", "done"}} :
        job' = [j \in Jobs |-> IF j \in again THEN Redelivered(j)
                               ELSE IF job[j].pc \in {"new", "queued", "done"} THEN job[j]
                               ELSE Over("lost", "")]
  BY DEF BotRestarts
<1>2. ASSUME NEW j \in Jobs
      PROVE  /\ Redelivered(j) \in JobType
             /\ Redelivered(j).pc = "queued" /\ Redelivered(j).on = job[j].on
             /\ Redelivered(j).kind = job[j].kind
  BY <1>2, ZenonT(60) DEF CommandsTypeOK, JobType
<1>3. Over("lost", "") \in JobType /\ Over("lost", "").pc = "lost"
  BY OverType DEF Words, Over
<1>4. \A j \in Jobs : job[j] \in JobType
  BY DEF CommandsTypeOK, JobType
<1>5. \A j \in again : j \in Taps /\ job[j].pc \in UnderWayTap
  <2> TAKE j \in again
  <2>1. j \in Taps /\ job[j].pc \notin {"new", "queued", "lost", "answer", "done"} /\ j \in Jobs
    BY <1>1 DEF Jobs
  <2> QED  BY <1>4, <2>1 DEF JobType, UnderWayTap
<1> HIDE DEF Redelivered
<1> QED  BY <1>1, <1>2, <1>3, <1>4, <1>5

LEMMA TypedStep ==
    ASSUME CommandsTyped, [CommandsNext]_commandVars
    PROVE  CommandsTyped'
<1> USE DEF CommandsTyped, CommandsTypeOK
<1>1. ASSUME NEW m \in Pickers, SessionsCommand(m)  PROVE CommandsTyped'
  BY <1>1 DEF SessionsCommand, Drawn, gatewaySide, claimVars, Tapped
<1>2. CASE BotRestarts
  <2>1. job' \in [Jobs -> JobType] /\ Tapped'
    BY <1>2, RestartIs DEF Tapped, UnderWayTap, Jobs
  <2>2. restarts' \in 0 .. MaxRestarts
    <3>1. restarts < MaxRestarts /\ restarts' = restarts + 1
      BY <1>2 DEF BotRestarts
    <3> QED  BY <3>1, CommandsAssumption
  <2>3. holder' = {}
    BY <1>2 DEF BotRestarts, Free
  <2> QED  BY <1>2, <2>1, <2>2, <2>3 DEF BotRestarts, gatewaySide, JobType
<1>3. CASE UNCHANGED commandVars
  BY <1>3 DEF commandVars, Tapped
<1> QED  BY <1>1, <1>2, <1>3, TypedTap, TypedCommand, TypedJob DEF CommandsNext

LEMMA TypedInit == CommandsInit => CommandsTyped
<1> SUFFICES ASSUME CommandsInit PROVE CommandsTyped
  OBVIOUS
<1>1. Over("new", "") \in JobType /\ Over("new", "").pc = "new"
  BY OverType DEF Words, Over
<1>2. job \in [Jobs -> JobType] /\ Tapped
  BY <1>1 DEF CommandsInit, Tapped, UnderWayTap, Jobs
<1>3. 1 \in Convs /\ Nobody = 0
  BY CommandsAssumption DEF Convs, Nobody
<1>4. status \in [Convs -> {"none", "live", "suspended", "closed"}]
  BY DEF CommandsInit
<1>6. active \in Convs
  BY <1>3 DEF CommandsInit
<1>7. convs \in 0 .. MaxConvs /\ restarts \in 0 .. MaxRestarts
  <2>1. convs = 1 /\ restarts = 0
    BY DEF CommandsInit
  <2> QED  BY <2>1, CommandsAssumption
<1>5. /\ picker \in [Pickers -> {"none", "open", "bare"}]
      /\ spent \in Seq(Pickers) /\ disk \in Seq(Pickers) /\ claims \in Seq(Pickers)
      /\ holder = {} /\ forgotten = {}
  <2>1. /\ picker = [m \in Pickers |-> "none"]
        /\ spent = << >> /\ disk = << >> /\ claims = << >> /\ holder = {} /\ forgotten = {}
    BY DEF CommandsInit, Free
  <2> QED  BY <2>1
<1>8. Len(spent) = 0 /\ Len(disk) = 0 /\ 0 <= MaxSpent
  <2>1. spent = << >> /\ disk = << >>
    BY DEF CommandsInit
  <2> QED  BY <2>1, CommandsAssumption
<1> QED
  BY <1>2, <1>4, <1>5, <1>6, <1>7, <1>8 DEF CommandsTyped, CommandsTypeOK, JobType

\* Taps, jobs, claims and the gateway stay in their types, over restarts.
THEOREM CommandsTypeCorrect == CommandsSpec => []CommandsTypeOK
<1>1. CommandsTyped => CommandsTypeOK
  BY DEF CommandsTyped
<1> QED  BY <1>1, TypedInit, TypedStep, PTL DEF CommandsSpec

\* What a step does to the handlers: their own moves, or one that crosses them.
LEMMA TapTold ==
    ASSUME CommandsTyped, EveryTapIsTold, [CommandsNext]_commandVars
    PROVE  EveryTapIsTold'
<1> USE DEF EveryTapIsTold
<1>0. /\ Taps \subseteq Jobs /\ Commands \subseteq Jobs
      /\ \A t \in Taps, c \in Commands : t # c
  BY CommandsAssumption DEF Jobs
<1>1. job \in [Jobs -> JobType]
  BY DEF CommandsTyped, CommandsTypeOK, JobType
<1>2. ASSUME NEW m \in Pickers, SessionsCommand(m)  PROVE EveryTapIsTold'
  BY <1>2 DEF SessionsCommand
<1>3. ASSUME NEW t \in Taps, NEW m \in Pickers, Tap(t, m)  PROVE EveryTapIsTold'
  <2>1. PICK c \in 0 .. convs :
          job' = [job EXCEPT ![t].pc = "queued", ![t].on = m, ![t].target = c,
                             ![t].kind = IF c = Nobody THEN "tapNew" ELSE "tapSwitch"]
    BY <1>3 DEF Tap
  <2> QED  BY <1>0, <1>1, <2>1 DEF JobType
<1>4. ASSUME NEW t \in Taps, Claim(t) \/ ClearKeyboard(t)  PROVE EveryTapIsTold'
  <2>1. job' = [job EXCEPT ![t].pc = "claimed"] \/ job' = [job EXCEPT ![t].pc = "waiting"]
    BY <1>4 DEF Claim, ClearKeyboard
  <2> QED  BY <1>0, <1>1, <2>1 DEF JobType
<1>5. ASSUME NEW t \in Taps, ClaimRefused(t)  PROVE EveryTapIsTold'
  <2>1. job' = [job EXCEPT ![t] = Over("done", "spent")]
    BY <1>5 DEF ClaimRefused
  <2> QED  BY <1>0, <1>1, <2>1 DEF Over
<1>6. ASSUME NEW t \in Taps, AnswerTap(t)  PROVE EveryTapIsTold'
  <2>1. job' = [job EXCEPT ![t].pc = "done"] /\ job[t].pc = "answer"
    BY <1>6 DEF AnswerTap
  <2> QED  BY <1>0, <1>1, <2>1 DEF JobType
<1>7. ASSUME NEW c \in Commands, Asks(c)  PROVE EveryTapIsTold'
  <2>1. \A t \in Taps : job'[t] = job[t]
    <3>1. CASE Suspend(c)
      BY <1>0, <1>1, <3>1 DEF Suspend
    <3>2. CASE AskName(c)
      BY <1>0, <1>1, <3>2 DEF AskName
    <3>3. CASE Typed(c)
      BY <1>0, <1>1, <3>3 DEF Typed
    <3> QED  BY <1>7, <3>1, <3>2, <3>3 DEF Asks
  <2> QED  BY <2>1
<1>8. ASSUME NEW j \in Jobs, TakeLock(j) \/ AskActive(j)  PROVE EveryTapIsTold'
  <2>1. \A t \in Taps : job'[t].pc \in {"answer", "done"} => job'[t] = job[t]
    <3>1. CASE TakeLock(j)
      BY <1>0, <1>1, <3>1 DEF TakeLock, JobType
    <3>2. CASE AskActive(j)
      BY <1>0, <1>1, <3>2 DEF AskActive, JobType
    <3> QED  BY <1>8, <3>1, <3>2
  <2> QED  BY <2>1
<1>9. ASSUME NEW j \in Jobs, Acts(j) \/ Fails(j)  PROVE EveryTapIsTold'
  <2>1. \A t \in Taps : t # j => job'[t].pc = job[t].pc /\ job'[t].told = job[t].told
    <3>1. CASE Acts(j)
      <4>1. PICK word \in {"done", Raised(j)} : job' = [Crossed EXCEPT ![j] = After(j, word)]
        BY <3>1 DEF Acts
      <4>2. \A t \in Taps : t # j => job'[t] = Crossed[t]
        BY <1>0, <4>1, CrossedType DEF CommandsTyped
      <4> QED  BY <1>0, <4>2, CrossedType DEF CommandsTyped
    <3>2. CASE Fails(j)
      BY <1>0, <1>1, <3>2 DEF Fails
    <3> QED  BY <1>9, <3>1, <3>2
  <2>2. j \in Taps => job'[j].told # ""
    <3>1. SUFFICES ASSUME j \in Taps PROVE job'[j].told # ""
      OBVIOUS
    <3>2. Raised(j) = "fails"
      BY <1>9, <3>1 DEF Acts, Fails, Raised, CommandsTyped, Tapped, UnderWayTap
    <3>3. PICK word \in {"done", "fails"} : job'[j] = After(j, word)
      <4>1. Crossed \in [Jobs -> JobType]
        BY CrossedType DEF CommandsTyped
      <4> QED  BY <1>1, <1>9, <3>2, <4>1 DEF Acts, Fails
    <3>4. job'[j] = Over("answer", word)
      BY <3>1, <3>3 DEF After
    <3>5. job'[j].told = word
      BY <3>4, Over("answer", word).told = word DEF Over
    <3>6. word # ""
      OBVIOUS
    <3> QED  BY <3>5, <3>6
  <2> QED  BY <2>1, <2>2
<1>10. CASE BotRestarts
  <2>1. \A t \in Taps : job'[t].pc \in {"answer", "done"} => job'[t] = job[t]
    BY <1>0, <1>10, RestartIs DEF CommandsTyped
  <2> QED  BY <2>1
<1>11. CASE UNCHANGED commandVars
  BY <1>11 DEF commandVars
<1> QED
  BY <1>2, <1>3, <1>4, <1>5, <1>6, <1>7, <1>8, <1>9, <1>10, <1>11 DEF CommandsNext, TapStep

\* A list of claims remembers the last of them: all but the forgotten, as far
\* back as it is long.
Remembers(s) ==
  \A i \in 1 .. Len(claims) :
    Len(claims) + 1 - i <= MaxSpent /\ claims[i] \notin forgotten =>
      \E p \in 1 .. Len(s) : s[p] = claims[i] /\ Len(s) - p <= Len(claims) - i

ClaimsRemembered == Remembers(spent) /\ Remembers(disk) /\ PickerActsOnce

LEMMA ClaimTaken ==
    ASSUME CommandsTyped, ClaimsRemembered, NEW t \in Taps, Claim(t)
    PROVE  ClaimsRemembered'
<1> DEFINE m == job[t].on
           n == Len(claims)
<1> USE CommandsAssumption DEF CommandsTypeOK
<1>1. /\ claims \in Seq(Pickers) /\ spent \in Seq(Pickers) /\ disk \in Seq(Pickers)
      /\ Len(spent) <= MaxSpent /\ MaxSpent \in Nat \ {0}
      /\ forgotten \in SUBSET Pickers
  BY DEF CommandsTyped
<1>2. /\ ~Spent(spent, m) /\ spent' = LastSpent(Append(spent, m)) /\ claims' = Append(claims, m)
      /\ \/ disk' = spent' /\ forgotten' = forgotten
         \/ disk' = disk /\ forgotten' = forgotten \cup {m}
  BY DEF Claim
<1>m. m \in Pickers
  BY DEF Claim, CommandsTyped, Tapped, UnderWayTap
<1> HIDE DEF m
<1>3. /\ n \in Nat /\ Len(claims') = n + 1 /\ claims'[n + 1] = m
      /\ \A i \in 1 .. n : claims'[i] = claims[i]
      /\ forgotten \subseteq forgotten'
  BY <1>1, <1>2, <1>m
<1>4. /\ spent' \in Seq(Pickers)
      /\ Len(spent') \in Nat \ {0} /\ spent'[Len(spent')] = m
      /\ \A p \in 1 .. Len(spent) :
           Len(spent) - p <= MaxSpent - 2 =>
             \E q \in 1 .. Len(spent') :
               spent'[q] = spent[p] /\ Len(spent') - q = Len(spent) - p + 1
  <2> DEFINE L == Len(spent)
  <2>0. /\ L \in Nat /\ L <= MaxSpent /\ Append(spent, m) \in Seq(Pickers)
        /\ Len(Append(spent, m)) = L + 1 /\ Append(spent, m)[L + 1] = m
        /\ \A p \in 1 .. L : Append(spent, m)[p] = spent[p]
    BY <1>1, <1>m
  <2>1. CASE L + 1 <= MaxSpent
    <3>1. spent' = Append(spent, m)
      BY <1>1, <1>2, <2>0, <2>1 DEF LastSpent
    <3>2. ASSUME NEW p \in 1 .. L, L - p <= MaxSpent - 2
          PROVE  \E q \in 1 .. Len(spent') : spent'[q] = spent[p] /\ Len(spent') - q = L - p + 1
      <4>1. p \in 1 .. Len(spent') /\ spent'[p] = spent[p] /\ Len(spent') - p = L - p + 1
        BY <2>0, <3>1
      <4> QED  BY <4>1
    <3> QED  BY <2>0, <3>1, <3>2
  <2>2. CASE L = MaxSpent
    <3>1. spent' = Tail(Append(spent, m))
      BY <1>1, <1>2, <2>0, <2>2 DEF LastSpent
    <3>2. /\ spent' \in Seq(Pickers) /\ Len(spent') = L
          /\ \A q \in 1 .. L : spent'[q] = Append(spent, m)[q + 1]
      BY <2>0, <3>1, Append(spent, m) # << >>
    <3>3. ASSUME NEW p \in 1 .. L, L - p <= MaxSpent - 2
          PROVE  \E q \in 1 .. Len(spent') : spent'[q] = spent[p] /\ Len(spent') - q = L - p + 1
      <4>1. p - 1 \in 1 .. L
        BY <1>1, <2>0, <2>2, <3>3
      <4>2. spent'[p - 1] = spent[p] /\ Len(spent') - (p - 1) = L - p + 1
        BY <2>0, <3>2, <4>1
      <4> QED  BY <3>2, <4>1, <4>2
    <3>4. L \in Nat \ {0} /\ spent'[L] = m
      BY <1>1, <2>0, <2>2, <3>2
    <3> QED  BY <3>2, <3>3, <3>4
  <2> QED  BY <1>1, <2>0, <2>1, <2>2
<1>5. Remembers(spent)'
  <2>1. SUFFICES ASSUME NEW i \in 1 .. n + 1, n + 2 - i <= MaxSpent, claims'[i] \notin forgotten'
                 PROVE  \E p \in 1 .. Len(spent') :
                          spent'[p] = claims'[i] /\ Len(spent') - p <= n + 1 - i
    BY <1>3 DEF Remembers
  <2>2. CASE i = n + 1
    BY <1>3, <1>4, <2>2
  <2>3. CASE i \in 1 .. n
    <3>1. PICK p \in 1 .. Len(spent) : spent[p] = claims[i] /\ Len(spent) - p <= n - i
      BY <1>3, <2>1, <2>3 DEF Remembers, ClaimsRemembered
    <3>2. Len(spent) - p <= MaxSpent - 2
      BY <1>1, <1>3, <2>1, <3>1
    <3>3. PICK q \in 1 .. Len(spent') :
            spent'[q] = spent[p] /\ Len(spent') - q = Len(spent) - p + 1
      BY <1>4, <3>2
    <3>4. spent'[q] = claims'[i] /\ Len(spent') - q <= n + 1 - i
      BY <1>1, <1>3, <2>3, <3>1, <3>3
    <3> QED  BY <3>4
  <2> QED  BY <1>3, <2>2, <2>3
<1>6. Remembers(disk)'
  <2>1. CASE disk' = spent'
    BY <1>5, <2>1 DEF Remembers
  <2>2. CASE disk' = disk /\ forgotten' = forgotten \cup {m}
    <3>1. SUFFICES ASSUME NEW i \in 1 .. n + 1, n + 2 - i <= MaxSpent, claims'[i] \notin forgotten'
                   PROVE  \E p \in 1 .. Len(disk) :
                            disk[p] = claims'[i] /\ Len(disk) - p <= n + 1 - i
      BY <1>3, <2>2 DEF Remembers
    <3>2. i \in 1 .. n
      BY <1>3, <2>2, <3>1
    <3>3. PICK p \in 1 .. Len(disk) : disk[p] = claims[i] /\ Len(disk) - p <= n - i
      <4>1. Remembers(disk)
        BY DEF ClaimsRemembered
      <4>2. n + 1 - i <= MaxSpent /\ claims[i] \notin forgotten
        BY <1>1, <1>3, <3>1, <3>2
      <4> QED  BY <3>2, <4>1, <4>2 DEF Remembers
    <3> QED  BY <1>1, <1>3, <3>2, <3>3
  <2> QED  BY <1>2, <2>1, <2>2
<1>7. PickerActsOnce'
  <2>1. SUFFICES ASSUME NEW i \in 1 .. n + 1, NEW k \in 1 .. n + 1, i < k, claims'[i] = claims'[k],
                        claims'[i] \notin forgotten'
                 PROVE  k - i > MaxSpent
    BY <1>3 DEF PickerActsOnce
  <2>2. CASE k \in 1 .. n
    BY <1>3, <2>1, <2>2 DEF PickerActsOnce, ClaimsRemembered
  <2>3. CASE k = n + 1
    <3>1. i \in 1 .. n /\ claims[i] = m
      BY <1>3, <2>1, <2>3
    <3>2. ~(n + 1 - i <= MaxSpent)
      BY <1>2, <1>3, <2>1, <3>1 DEF Spent, Remembers, ClaimsRemembered
    <3> QED  BY <1>1, <1>3, <2>3, <3>1, <3>2
  <2> QED  BY <1>3, <2>2, <2>3
<1> QED  BY <1>5, <1>6, <1>7 DEF ClaimsRemembered

LEMMA RememberedStep ==
    ASSUME CommandsTyped, ClaimsRemembered, [CommandsNext]_commandVars
    PROVE  ClaimsRemembered'
<1>1. CASE \E t \in Taps : Claim(t)
  BY <1>1, ClaimTaken
<1>2. CASE BotRestarts
  <2>1. spent' = disk /\ UNCHANGED <<disk, claims, forgotten>>
    BY <1>2 DEF BotRestarts
  <2> QED  BY <2>1 DEF ClaimsRemembered, Remembers, PickerActsOnce
<1>3. CASE UNCHANGED <<spent, disk, claims, forgotten>>
  BY <1>3 DEF ClaimsRemembered, Remembers, PickerActsOnce
<1>4. \/ \E t \in Taps : Claim(t)
      \/ BotRestarts
      \/ UNCHANGED <<spent, disk, claims, forgotten>>
  BY DEF CommandsNext, commandVars, claimVars, TapStep, Asks, SessionsCommand, Tap, ClaimRefused,
         ClearKeyboard, AnswerTap, Suspend, AskName, Typed, TakeLock, AskActive, Acts, Fails
<1> QED  BY <1>1, <1>2, <1>3, <1>4

\* Over restarts and taps delivered again, a picker acts once as long as its
\* claim is remembered and was written down, and no tap ends without a word.
THEOREM TapsSettled == CommandsSpec => []TapsAreSettled
<1> DEFINE Inv == CommandsTyped /\ EveryTapIsTold /\ ClaimsRemembered
<1>1. CommandsInit => Inv
  <2>1. CommandsInit => EveryTapIsTold
    <3>1. Over("new", "").pc = "new"
      BY DEF Over
    <3> QED  BY <3>1 DEF CommandsInit, EveryTapIsTold, Jobs
  <2>2. CommandsInit => ClaimsRemembered
    <3>1. CommandsInit => Len(claims) = 0
      BY DEF CommandsInit
    <3> QED  BY <3>1 DEF ClaimsRemembered, Remembers, PickerActsOnce
  <2> QED  BY <2>1, <2>2, TypedInit
<1>2. Inv /\ [CommandsNext]_commandVars => Inv'
  BY TypedStep, TapTold, RememberedStep
<1>3. Inv => TapsAreSettled
  BY DEF TapsAreSettled, ClaimsRemembered
<1> QED  BY <1>1, <1>2, <1>3, PTL DEF CommandsSpec

\* The conversation a handler asked about is still the chat's when it acts, or
\* the handler was crossed.
AskedIsActive ==
  \A j \in Jobs :
    job[j].pc = "acting" /\ ~job[j].crossed /\ job[j].kind \in Asking => job[j].was = active

LEMMA AskedStep ==
    ASSUME CommandsTyped, AskedIsActive, [CommandsNext]_commandVars
    PROVE  AskedIsActive'
<1> USE DEF AskedIsActive, gatewaySide
<1>0. /\ Taps \subseteq Jobs /\ Commands \subseteq Jobs
  BY DEF Jobs
<1>1. job \in [Jobs -> JobType]
  BY DEF CommandsTyped, CommandsTypeOK, JobType
<1>2. ASSUME NEW m \in Pickers, SessionsCommand(m)  PROVE AskedIsActive'
  BY <1>2 DEF SessionsCommand
<1>3. ASSUME NEW t \in Taps, NEW m \in Pickers, Tap(t, m)  PROVE AskedIsActive'
  <2>1. PICK c \in 0 .. convs :
          job' = [job EXCEPT ![t].pc = "queued", ![t].on = m, ![t].target = c,
                             ![t].kind = IF c = Nobody THEN "tapNew" ELSE "tapSwitch"]
    BY <1>3 DEF Tap
  <2>2. active' = active
    BY <1>3 DEF Tap
  <2> QED  BY <1>0, <1>1, <2>1, <2>2 DEF JobType
<1>4. ASSUME NEW t \in Taps, TapStep(t)  PROVE AskedIsActive'
  <2>1. /\ active' = active
        /\ \/ \E pc \in {"claimed", "waiting", "done"} : job' = [job EXCEPT ![t].pc = pc]
           \/ job' = [job EXCEPT ![t] = Over("done", "spent")]
    BY <1>4 DEF TapStep, Claim, ClaimRefused, ClearKeyboard, AnswerTap
  <2>2. ASSUME NEW pc \in {"claimed", "waiting", "done"}, job' = [job EXCEPT ![t].pc = pc]
        PROVE  AskedIsActive'
    BY <1>0, <1>1, <2>1, <2>2 DEF JobType
  <2>3. CASE job' = [job EXCEPT ![t] = Over("done", "spent")]
    BY <1>0, <1>1, <2>1, <2>3 DEF Over
  <2> QED  BY <2>1, <2>2, <2>3
<1>5. ASSUME NEW c \in Commands, Asks(c)  PROVE AskedIsActive'
  <2>0. active' = active
    BY <1>5 DEF Asks, Suspend, AskName, Typed
  <2>1. CASE Suspend(c)
    <3>1. PICK s \in Convs :
            job' = [job EXCEPT ![c].pc = "waiting", ![c].kind = "suspend", ![c].target = s]
      BY <2>1 DEF Suspend
    <3> QED  BY <1>0, <1>1, <2>0, <3>1 DEF JobType
  <2>2. CASE AskName(c)
    <3>1. CASE active = Nobody
      <4>1. job' = [job EXCEPT ![c] = Over("done", "gone")]
        BY <2>2, <3>1 DEF AskName
      <4> QED  BY <1>0, <1>1, <2>0, <4>1 DEF Over
    <3>2. CASE active # Nobody
      <4>1. job' = [job EXCEPT ![c] = [@ EXCEPT !.pc = "acting", !.kind = "rename",
                                                !.target = active, !.was = active]]
        BY <2>2, <3>2 DEF AskName
      <4> QED  BY <1>0, <1>1, <2>0, <4>1 DEF JobType
    <3> QED  BY <3>1, <3>2
  <2>3. CASE Typed(c)
    <3>1. PICK s \in Convs \cup {Nobody} :
            job' = [job EXCEPT ![c].pc = "acting", ![c].target = s,
                               ![c].kind = IF s = Nobody THEN "new" ELSE "switch"]
      BY <2>3 DEF Typed
    <3> QED  BY <1>0, <1>1, <2>0, <3>1 DEF JobType, Asking
  <2> QED  BY <1>5, <2>1, <2>2, <2>3 DEF Asks
<1>6. ASSUME NEW j \in Jobs, TakeLock(j)  PROVE AskedIsActive'
  BY <1>1, <1>6 DEF TakeLock, JobType
<1>7. ASSUME NEW j \in Jobs, AskActive(j)  PROVE AskedIsActive'
  BY <1>1, <1>7 DEF AskActive, JobType
<1>8. ASSUME NEW j \in Jobs, Acts(j)  PROVE AskedIsActive'
  <2>1. PICK word \in {"done", Raised(j)} : job' = [Crossed EXCEPT ![j] = After(j, word)]
    BY <1>8 DEF Acts
  <2>2. \A i \in Jobs : i # j => job'[i] = Crossed[i]
    BY <2>1, CrossedType DEF CommandsTyped
  <2>3. job'[j].pc # "acting"
    BY <2>1, CrossedType DEF CommandsTyped, After, Over
  <2> QED  BY <2>2, <2>3, CrossedType DEF CommandsTyped
<1>9. ASSUME NEW j \in Jobs, Fails(j)  PROVE AskedIsActive'
  <2>1. PICK word \in {"fails", Raised(j)} : job' = [job EXCEPT ![j] = After(j, word)]
    BY <1>9 DEF Fails
  <2>2. active' = active
    BY <1>9 DEF Fails
  <2>3. job'[j].pc # "acting"
    BY <1>1, <2>1 DEF After, Over
  <2> QED  BY <1>1, <2>1, <2>2, <2>3
<1>10. CASE BotRestarts
  <2>1. active' = active
    BY <1>10 DEF BotRestarts
  <2>2. \A j \in Jobs : job'[j].pc # "acting"
    BY <1>10, RestartIs DEF CommandsTyped
  <2> QED  BY <2>1, <2>2
<1>11. CASE UNCHANGED commandVars
  BY <1>11 DEF commandVars
<1> QED
  BY <1>2, <1>3, <1>4, <1>5, <1>6, <1>7, <1>8, <1>9, <1>10, <1>11 DEF CommandsNext

\* The operator is told what became of the chat's own conversation as it was
\* when the gateway acted, unless a command without the lock came between.
THEOREM ToldIsTrue == CommandsSpec => ToldWhatHappened
<1> DEFINE Inv == CommandsTyped /\ AskedIsActive
<1>1. CommandsInit => Inv
  <2>1. CommandsInit => AskedIsActive
    <3>1. Over("new", "").pc = "new"
      BY DEF Over
    <3> QED  BY <3>1 DEF CommandsInit, AskedIsActive
  <2> QED  BY <2>1, TypedInit
<1>2. Inv /\ [CommandsNext]_commandVars => Inv'
  BY TypedStep, AskedStep
<1>3. Inv => \A j \in Jobs :
       job[j].pc = "acting" /\ ~job[j].crossed /\ job'[j].told = "done" =>
         CASE job[j].kind = "tapNew" -> (job[j].was = Nobody) = (active = Nobody)
           [] job[j].kind = "suspend" -> (job[j].was = job[j].target) = (active = job[j].target)
           [] OTHER -> TRUE
  <2> SUFFICES ASSUME AskedIsActive, NEW j \in Jobs, job[j].pc = "acting", ~job[j].crossed
               PROVE  CASE job[j].kind = "tapNew" -> (job[j].was = Nobody) = (active = Nobody)
                        [] job[j].kind = "suspend" ->
                             (job[j].was = job[j].target) = (active = job[j].target)
                        [] OTHER -> TRUE
    OBVIOUS
  <2>1. job[j].kind \in {"tapNew", "suspend"} => job[j].was = active
    BY DEF AskedIsActive, Asking
  <2> QED  BY <2>1, Zenon
<1> QED  BY <1>1, <1>2, <1>3, PTL DEF CommandsSpec, ToldWhatHappened

-----------------------------------------------------------------------------
(* HarnessFiles: any number of copies, removals and editors, any texts.     *)

OpType ==
  [pc : OpPCs, to : Roots, copies : BOOLEAN, todo : SUBSET Files,
   got : [Files -> Texts \cup {Gone}], half : BOOLEAN, lost : BOOLEAN, alone : BOOLEAN]

EdType ==
  [pc : {"closed", "reading", "open", "saving", "checked", "saved"},
   seen : Texts, rev : Texts, new : Texts, torn : BOOLEAN, overtaken : BOOLEAN]

TreeType == [Files -> Texts \cup {Gone}]

FilesTyped ==
  /\ tree \in [Roots -> TreeType] /\ made \in [Roots -> BOOLEAN]
  /\ op \in [Copies -> OpType] /\ ed \in [Editors -> EdType]
  /\ texts \in Texts /\ spoiled \in [Roots -> BOOLEAN]

LEMMA FilesTypes == FilesTyped => FilesTypeOK
  BY DEF FilesTypeOK, FilesTyped, OpType, EdType, TreeType

\* The steps of a copy, and of an editor.
LEMMA FileAlternatives ==
    ASSUME FilesNext
    PROVE  \/ \E c \in Copies :
                \/ \E to \in Roots, copies \in BOOLEAN : Begin(c, to, copies)
                \/ ListOrigin(c) \/ CopyDone(c) \/ OpenTarget(c) \/ DeleteDone(c)
                \/ RenameCopy(c) \/ Report(c)
                \/ \E f \in Files : CopyFile(c, f) \/ DeleteFile(c, f)
           \/ \E e \in Editors : EditStep(e)
           \/ FilesCrash
<1>1. /\ \A c \in Copies : Install(c) => Begin(c, "mind", TRUE)
      /\ \A c \in Copies : WriteBack(c) => Begin(c, "repo", TRUE)
      /\ \A c \in Copies : Remove(c) => Begin(c, "mind", FALSE)
  BY DEF Install, WriteBack, Remove
<1>2. "mind" \in Roots /\ "repo" \in Roots /\ TRUE \in BOOLEAN /\ FALSE \in BOOLEAN
  BY DEF Roots
<1> QED  BY <1>1, <1>2, Zenon DEF FilesNext, CopyStep

\* Those who are told of others: nobody is alone any more, a checked save is
\* overtaken, a directory that was opened is no longer the one of that name.
LEMMA DisturbedType ==
    ASSUME FilesTyped
    PROVE  /\ Disturbed \in [Copies -> OpType]
           /\ \A c \in Copies :
                /\ Disturbed[c].pc = op[c].pc /\ Disturbed[c].to = op[c].to
                /\ Disturbed[c].copies = op[c].copies /\ Disturbed[c].todo = op[c].todo
                /\ Disturbed[c].got = op[c].got /\ Disturbed[c].half = op[c].half
                /\ Disturbed[c].lost = op[c].lost /\ ~Disturbed[c].alone
  BY DEF FilesTyped, Disturbed, OpType

LEMMA OvertakenType ==
    ASSUME FilesTyped
    PROVE  /\ Overtaken \in [Editors -> EdType]
           /\ \A e \in Editors :
                /\ Overtaken[e].pc = ed[e].pc /\ Overtaken[e].seen = ed[e].seen
                /\ Overtaken[e].rev = ed[e].rev /\ Overtaken[e].new = ed[e].new
                /\ Overtaken[e].torn = ed[e].torn
                /\ ed[e].pc = "checked" => Overtaken[e].overtaken
<1>1. ASSUME NEW e \in Editors
      PROVE  /\ Overtaken[e] \in EdType
             /\ Overtaken[e].pc = ed[e].pc /\ Overtaken[e].seen = ed[e].seen
             /\ Overtaken[e].rev = ed[e].rev /\ Overtaken[e].new = ed[e].new
             /\ Overtaken[e].torn = ed[e].torn
             /\ ed[e].pc = "checked" => Overtaken[e].overtaken
  <2> DEFINE o == ed[e].overtaken \/ ed[e].pc = "checked"
  <2>1. ed[e] \in EdType
    BY DEF FilesTyped
  <2>2. Overtaken[e] = [ed[e] EXCEPT !.overtaken = o]
    BY DEF Overtaken
  <2>3. o \in BOOLEAN /\ (ed[e].pc = "checked" => o)
    BY <2>1 DEF EdType
  <2> HIDE DEF o
  <2> QED  BY <2>1, <2>2, <2>3 DEF EdType
<1>2. Overtaken = [e \in Editors |-> Overtaken[e]]
  BY DEF Overtaken
<1> QED  BY <1>1, <1>2

LEMMA LostType ==
    ASSUME NEW r \in OpType, NEW l, NEW s, s = [r EXCEPT !.lost = @ \/ l]
    PROVE  /\ s \in OpType
           /\ s.pc = r.pc /\ s.to = r.to /\ s.copies = r.copies /\ s.todo = r.todo
           /\ s.got = r.got /\ s.half = r.half /\ s.alone = r.alone
           /\ s.lost = (r.lost \/ l)
<1> DEFINE b == r.lost \/ l
<1>1. b \in BOOLEAN /\ s = [r EXCEPT !.lost = b]
  BY DEF OpType
<1> HIDE DEF b
<1>2. /\ s \in OpType
      /\ s.pc = r.pc /\ s.to = r.to /\ s.copies = r.copies /\ s.todo = r.todo
      /\ s.got = r.got /\ s.half = r.half /\ s.alone = r.alone /\ s.lost = b
  BY <1>1 DEF OpType
<1> QED  BY <1>2 DEF b

-----------------------------------------------------------------------------
\* One lemma for each step of a copy: what becomes of its record, and of the
\* others.
LEMMA BeginTypes ==
    ASSUME FilesTyped, NEW c \in Copies, NEW to \in Roots, NEW copies \in BOOLEAN,
           Begin(c, to, copies)
    PROVE  /\ op' \in [Copies -> OpType]
           /\ \A d \in Copies \ {c} : op'[d] = Disturbed[d]
           /\ op'[c].to = to /\ op'[c].copies = copies /\ op'[c].got = op[c].got
           /\ op'[c].pc \in {"refused", "list", "replace"}
           /\ op'[c].pc = "list" => copies /\ tree[Other(to)]["md"] # Gone
           /\ op'[c].pc = "replace" => ~copies
           /\ op'[c].alone => /\ \A d \in Copies \ {c} : ~AtWork(d)
                              /\ \A e \in Editors : ~Saving(e)
<1> DEFINE from == IF copies THEN Other(to) ELSE to
           alone == /\ \A d \in Copies \ {c} : ~AtWork(d)
                    /\ \A e \in Editors : ~Saving(e)
           pc == IF tree[from]["md"] = Gone THEN "refused"
                 ELSE IF copies THEN "list" ELSE "replace"
           new == [Disturbed[c] EXCEPT !.pc = pc, !.to = to, !.copies = copies, !.alone = alone]
<1>1. op' = [Disturbed EXCEPT ![c] = new]
  BY DEF Begin
<1>2. Disturbed \in [Copies -> OpType] /\ Disturbed[c] \in OpType /\ Disturbed[c].got = op[c].got
  BY DisturbedType
<1>3. /\ pc \in {"refused", "list", "replace"} /\ alone \in BOOLEAN
      /\ pc = "list" => copies /\ tree[Other(to)]["md"] # Gone
      /\ pc = "replace" => ~copies
  OBVIOUS
<1> HIDE DEF pc, alone
<1>4. /\ new \in OpType /\ new.pc = pc /\ new.to = to /\ new.copies = copies
      /\ new.alone = alone /\ new.got = op[c].got
  BY <1>2, <1>3 DEF OpType, OpPCs
<1> HIDE DEF new
<1>5. op'[c] = new /\ \A d \in Copies \ {c} : op'[d] = Disturbed[d]
  BY <1>1, <1>2
<1>6. op' \in [Copies -> OpType]
  BY <1>1, <1>2, <1>4
<1> QED  BY <1>3, <1>4, <1>5, <1>6 DEF alone

LEMMA OwnStage ==
    ASSUME NEW r \in OpType, NEW pc \in OpPCs
    PROVE  [r EXCEPT !.pc = pc] \in OpType
  BY DEF OpType

LEMMA OwnTodo ==
    ASSUME NEW r \in OpType, NEW todo \in SUBSET Files
    PROVE  [r EXCEPT !.todo = todo] \in OpType
  BY DEF OpType

LEMMA OwnCopy ==
    ASSUME NEW r \in OpType, NEW f \in Files, NEW text \in Texts \cup {Gone}
    PROVE  [r EXCEPT !.got[f] = text, !.todo = @ \ {f}] \in OpType
  BY DEF OpType

LEMMA OwnList ==
    ASSUME NEW r \in OpType, NEW pc \in OpPCs, NEW todo \in SUBSET Files, NEW half \in BOOLEAN
    PROVE  /\ [r EXCEPT !.todo = todo, !.half = half, !.pc = pc] \in OpType
           /\ [r EXCEPT !.pc = pc, !.todo = todo, !.lost = FALSE] \in OpType
  BY DEF OpType

LEMMA CopyTypes ==
    ASSUME FilesTyped, NEW c \in Copies,
           \/ ListOrigin(c) \/ CopyDone(c) \/ OpenTarget(c) \/ Report(c)
           \/ \E f \in Files : CopyFile(c, f)
    PROVE  FilesTyped'
<1>0. /\ tree \in [Roots -> TreeType] /\ made \in [Roots -> BOOLEAN]
      /\ op \in [Copies -> OpType] /\ op[c] \in OpType /\ op[c].to \in Roots
      /\ Other(op[c].to) \in Roots
  BY DEF FilesTyped, OpType, Other, Roots
<1>1. CASE ListOrigin(c)
  <2> DEFINE origin == tree[Other(op[c].to)]
  <2>1. op' = [op EXCEPT ![c] = [@ EXCEPT !.todo = Held(origin), !.half = ~Whole(origin),
                                          !.pc = "copy"]]
    BY <1>1 DEF ListOrigin
  <2>2. Held(origin) \in SUBSET Files /\ (~Whole(origin)) \in BOOLEAN /\ "copy" \in OpPCs
    <3> HIDE DEF origin
    <3>1. Held(origin) \in SUBSET Files
      BY DEF Held
    <3>2. (~Whole(origin)) \in BOOLEAN
      BY DEF Whole
    <3> QED  BY <3>1, <3>2 DEF OpPCs
  <2> HIDE DEF origin
  <2>3. op' \in [Copies -> OpType]
    BY <1>0, <2>1, <2>2, OwnStage, OwnTodo, OwnCopy, OwnList
  <2> QED  BY <1>1, <2>3 DEF FilesTyped, ListOrigin, editorVars
<1>2. CASE CopyDone(c)
  <2>1. op' \in [Copies -> OpType]
    BY <1>0, <1>2, OwnStage, OwnTodo, OwnCopy, OwnList DEF CopyDone, OpPCs
  <2> QED  BY <1>2, <2>1 DEF FilesTyped, CopyDone, editorVars
<1>3. CASE OpenTarget(c)
  <2>1. Held(tree[op[c].to]) \in SUBSET Files
    BY DEF Held
  <2>2. /\ [op[c] EXCEPT !.pc = "delete", !.todo = Held(tree[op[c].to]), !.lost = FALSE] \in OpType
        /\ [op[c] EXCEPT !.pc = IF op[c].copies THEN "rename" ELSE "removed"] \in OpType
    BY <1>0, <2>1, OwnStage, OwnTodo, OwnCopy, OwnList DEF OpPCs
  <2>3. op' \in [Copies -> OpType]
    BY <1>0, <1>3, <2>2 DEF OpenTarget
  <2> QED  BY <1>3, <2>3 DEF FilesTyped, OpenTarget, editorVars
<1>4. CASE Report(c)
  <2>1. PairState \in OpPCs
    BY DEF PairState, OpPCs
  <2>2. op' \in [Copies -> OpType]
    BY <1>0, <1>4, <2>1, OwnStage, OwnTodo, OwnCopy, OwnList DEF Report
  <2> QED  BY <1>4, <2>2 DEF FilesTyped, Report, editorVars
<1>5. ASSUME NEW f \in Files, CopyFile(c, f)  PROVE FilesTyped'
  <2> DEFINE text == tree[Other(op[c].to)][f]
  <2>1. text \in Texts \cup {Gone} /\ op[c].todo \ {f} \in SUBSET Files /\ "failed" \in OpPCs
    BY <1>0 DEF TreeType, OpType, OpPCs
  <2>2. /\ [op[c] EXCEPT !.pc = "failed"] \in OpType
        /\ [op[c] EXCEPT !.got[f] = text, !.todo = @ \ {f}] \in OpType
    BY <1>0, <2>1, OwnStage, OwnTodo, OwnCopy, OwnList
  <2>3. op' \in [Copies -> OpType]
    <3>1. op' = [op EXCEPT ![c] = IF text = Gone
                   THEN [op[c] EXCEPT !.pc = "failed"]
                   ELSE [op[c] EXCEPT !.got[f] = text, !.todo = @ \ {f}]]
      BY <1>0, <1>5 DEF CopyFile
    <3> HIDE DEF text
    <3> QED  BY <1>0, <2>2, <3>1
  <2> QED  BY <1>5, <2>3 DEF FilesTyped, CopyFile, editorVars
<1> QED  BY <1>1, <1>2, <1>3, <1>4, <1>5

\* The three steps on the target directory, as they change the copies.
LEMMA DeleteFileIs ==
    ASSUME FilesTyped, NEW c \in Copies, NEW f \in Files, DeleteFile(c, f)
    PROVE  LET r == op[c].to
               there == ~op[c].lost /\ tree[r][f] # Gone
           IN
           /\ r \in Roots /\ op[c].pc = "delete" /\ f \in op[c].todo
           /\ tree' = IF there THEN [tree EXCEPT ![r][f] = Gone] ELSE tree
           /\ \A d \in Copies \ {c} : op'[d] = op[d]
           /\ \/ op'[c] = [op[c] EXCEPT !.todo = @ \ {f}] /\ UNCHANGED spoiled
              \/ /\ op'[c] = [op[c] EXCEPT !.pc = "failed"] /\ ~there
                 /\ spoiled' = [spoiled EXCEPT ![r] = @ \/ ~op[c].lost]
           /\ FilesTyped'
<1> DEFINE r == op[c].to
           there == ~op[c].lost /\ tree[r][f] # Gone
<1>0. /\ tree \in [Roots -> TreeType] /\ made \in [Roots -> BOOLEAN] /\ r \in Roots
      /\ op \in [Copies -> OpType] /\ op[c] \in OpType /\ spoiled \in [Roots -> BOOLEAN]
      /\ op[c].todo \ {f} \in SUBSET Files
  BY DEF FilesTyped, OpType
<1>1. /\ op[c].pc = "delete" /\ f \in op[c].todo
      /\ tree' = IF there THEN [tree EXCEPT ![r][f] = Gone] ELSE tree
      /\ \/ op' = [op EXCEPT ![c].todo = @ \ {f}] /\ UNCHANGED spoiled
         \/ /\ op' = [op EXCEPT ![c].pc = "failed"] /\ ~there
            /\ spoiled' = [spoiled EXCEPT ![r] = @ \/ ~op[c].lost]
      /\ ed' = (IF there /\ r = "mind" /\ f = "md" THEN Overtaken ELSE ed)
      /\ UNCHANGED <<made, texts>>
  BY DEF DeleteFile
<1> HIDE DEF there, r
<1>2. tree' \in [Roots -> TreeType]
  BY <1>0, <1>1 DEF TreeType
<1>3. ed' \in [Editors -> EdType]
  BY <1>1, OvertakenType DEF FilesTyped
<1>4. op' \in [Copies -> OpType]
  <2>1. /\ [op[c] EXCEPT !.todo = @ \ {f}] \in OpType
        /\ [op[c] EXCEPT !.pc = "failed"] \in OpType
    BY <1>0, OwnStage, OwnTodo DEF OpPCs
  <2>2. \/ op' = [op EXCEPT ![c] = [op[c] EXCEPT !.todo = @ \ {f}]]
        \/ op' = [op EXCEPT ![c] = [op[c] EXCEPT !.pc = "failed"]]
    BY <1>0, <1>1
  <2> QED  BY <1>0, <2>1, <2>2
<1>5. spoiled' \in [Roots -> BOOLEAN]
  <2> DEFINE b == spoiled[r] \/ ~op[c].lost
  <2>1. b \in BOOLEAN
    OBVIOUS
  <2>2. spoiled' = spoiled \/ spoiled' = [spoiled EXCEPT ![r] = b]
    BY <1>1
  <2> HIDE DEF b
  <2> QED  BY <1>0, <2>1, <2>2
<1>6. FilesTyped'
  BY <1>1, <1>2, <1>3, <1>4, <1>5 DEF FilesTyped
<1>7. /\ \A d \in Copies \ {c} : op'[d] = op[d]
      /\ \/ op'[c] = [op[c] EXCEPT !.todo = @ \ {f}] /\ UNCHANGED spoiled
         \/ /\ op'[c] = [op[c] EXCEPT !.pc = "failed"] /\ ~there
            /\ spoiled' = [spoiled EXCEPT ![r] = @ \/ ~op[c].lost]
  BY <1>0, <1>1
<1> QED  BY <1>0, <1>1, <1>6, <1>7 DEF there, r

LEMMA DeleteDoneIs ==
    ASSUME FilesTyped, NEW c \in Copies, DeleteDone(c)
    PROVE  LET r == op[c].to
               gone == ~op[c].lost /\ tree[r] = None
           IN
           /\ r \in Roots /\ op[c].pc = "delete" /\ op[c].todo = {}
           /\ UNCHANGED <<tree, ed, texts>>
           /\ made' = IF gone THEN [made EXCEPT ![r] = FALSE] ELSE made
           /\ op'[c] = [op[c] EXCEPT !.pc = IF ~gone THEN "failed"
                                            ELSE IF op[c].copies THEN "rename" ELSE "removed"]
           /\ \A d \in Copies \ {c} :
                op'[d] = [op[d] EXCEPT !.lost = @ \/ (gone /\ op[d].to = r)]
           /\ spoiled' = IF op[c].lost THEN spoiled ELSE [spoiled EXCEPT ![r] = ~gone]
           /\ FilesTyped'
<1> DEFINE r == op[c].to
           gone == ~op[c].lost /\ tree[r] = None
           pc == IF ~gone THEN "failed" ELSE IF op[c].copies THEN "rename" ELSE "removed"
<1>0. /\ tree \in [Roots -> TreeType] /\ made \in [Roots -> BOOLEAN] /\ r \in Roots
      /\ op \in [Copies -> OpType] /\ op[c] \in OpType /\ spoiled \in [Roots -> BOOLEAN]
      /\ gone \in BOOLEAN /\ pc \in OpPCs
  BY DEF FilesTyped, OpType, OpPCs
<1>1. /\ op[c].pc = "delete" /\ op[c].todo = {}
      /\ made' = (IF gone THEN [made EXCEPT ![r] = FALSE] ELSE made)
      /\ op' = [d \in Copies |-> IF d = c THEN [op[c] EXCEPT !.pc = pc]
                                 ELSE [op[d] EXCEPT !.lost = @ \/ (gone /\ op[d].to = r)]]
      /\ spoiled' = (IF op[c].lost THEN spoiled ELSE [spoiled EXCEPT ![r] = ~gone])
      /\ UNCHANGED <<tree, ed, texts>>
  BY DEF DeleteDone, editorVars
<1> HIDE DEF gone, pc, r
<1>2. op' \in [Copies -> OpType]
  <2>1. \A d \in Copies : [op[d] EXCEPT !.lost = @ \/ (gone /\ op[d].to = r)] \in OpType
    BY <1>0, LostType
  <2>2. [op[c] EXCEPT !.pc = pc] \in OpType
    BY <1>0, OwnStage
  <2> QED  BY <1>1, <2>1, <2>2
<1>3. spoiled' \in [Roots -> BOOLEAN] /\ made' \in [Roots -> BOOLEAN]
  <2>1. (~gone) \in BOOLEAN
    BY <1>0
  <2> QED  BY <1>0, <1>1, <2>1
<1>4. FilesTyped'
  BY <1>1, <1>2, <1>3 DEF FilesTyped
<1>5. /\ op'[c] = [op[c] EXCEPT !.pc = pc]
      /\ \A d \in Copies \ {c} : op'[d] = [op[d] EXCEPT !.lost = @ \/ (gone /\ op[d].to = r)]
  BY <1>1
<1> QED  BY <1>0, <1>1, <1>4, <1>5 DEF gone, pc, r

LEMMA RenameCopyIs ==
    ASSUME FilesTyped, NEW c \in Copies, RenameCopy(c)
    PROVE  LET r == op[c].to
               free == tree[r] = None
           IN
           /\ r \in Roots /\ op[c].pc = "rename" /\ texts' = texts
           /\ tree' = IF free THEN [tree EXCEPT ![r] = op[c].got] ELSE tree
           /\ made' = IF free THEN [made EXCEPT ![r] = TRUE] ELSE made
           /\ op'[c] = [op[c] EXCEPT !.pc = IF free THEN "report" ELSE "failed"]
           /\ \A d \in Copies \ {c} :
                op'[d] = [op[d] EXCEPT !.lost = @ \/ (free /\ op[d].to = r)]
           /\ spoiled' = IF free THEN [spoiled EXCEPT ![r] = op[c].half] ELSE spoiled
           /\ ed' = IF free /\ r = "mind" THEN Overtaken ELSE ed
           /\ FilesTyped'
<1> DEFINE r == op[c].to
           free == tree[r] = None
           pc == IF free THEN "report" ELSE "failed"
<1>0. /\ tree \in [Roots -> TreeType] /\ made \in [Roots -> BOOLEAN] /\ r \in Roots
      /\ op \in [Copies -> OpType] /\ op[c] \in OpType /\ spoiled \in [Roots -> BOOLEAN]
      /\ free \in BOOLEAN /\ pc \in OpPCs /\ op[c].got \in TreeType /\ op[c].half \in BOOLEAN
  BY DEF FilesTyped, OpType, OpPCs, TreeType
<1>1. /\ op[c].pc = "rename" /\ texts' = texts
      /\ tree' = (IF free THEN [tree EXCEPT ![r] = op[c].got] ELSE tree)
      /\ made' = (IF free THEN [made EXCEPT ![r] = TRUE] ELSE made)
      /\ op' = [d \in Copies |-> IF d = c THEN [op[c] EXCEPT !.pc = pc]
                                 ELSE [op[d] EXCEPT !.lost = @ \/ (free /\ op[d].to = r)]]
      /\ spoiled' = (IF free THEN [spoiled EXCEPT ![r] = op[c].half] ELSE spoiled)
      /\ ed' = (IF free /\ r = "mind" THEN Overtaken ELSE ed)
  BY DEF RenameCopy
<1> HIDE DEF free, pc, r
<1>2. op' \in [Copies -> OpType]
  <2>1. \A d \in Copies : [op[d] EXCEPT !.lost = @ \/ (free /\ op[d].to = r)] \in OpType
    BY <1>0, LostType
  <2>2. [op[c] EXCEPT !.pc = pc] \in OpType
    BY <1>0, OwnStage
  <2> QED  BY <1>1, <2>1, <2>2
<1>3. tree' \in [Roots -> TreeType] /\ spoiled' \in [Roots -> BOOLEAN] /\ made' \in [Roots -> BOOLEAN]
  BY <1>0, <1>1
<1>4. FilesTyped'
  BY <1>1, <1>2, <1>3, OvertakenType DEF FilesTyped
<1>5. /\ op'[c] = [op[c] EXCEPT !.pc = pc]
      /\ \A d \in Copies \ {c} : op'[d] = [op[d] EXCEPT !.lost = @ \/ (free /\ op[d].to = r)]
  BY <1>1
<1> QED  BY <1>0, <1>1, <1>4, <1>5 DEF free, pc, r

LEMMA EditTypes ==
    ASSUME FilesTyped, NEW e \in Editors, EditStep(e)
    PROVE  FilesTyped'
<1>0. /\ tree \in [Roots -> TreeType] /\ ed \in [Editors -> EdType] /\ ed[e] \in EdType
      /\ md \in Texts \cup {Gone} /\ made["mind"] \in BOOLEAN /\ "mind" \in Roots
      /\ ed[e].new \in Texts
  BY DEF FilesTyped, TreeType, Roots, Files, md, EdType
<1>1. CASE ReadText(e)
  <2>1. ed' \in [Editors -> EdType]
    BY <1>0, <1>1 DEF ReadText, EdType
  <2> QED  BY <1>1, <2>1 DEF ReadText, FilesTyped
<1>2. CASE ReadRevision(e)
  <2> DEFINE half == md # ed[e].seen
  <2>1. half \in BOOLEAN
    OBVIOUS
  <2>2. ed' = [ed EXCEPT ![e] = IF md = Gone THEN [ed[e] EXCEPT !.pc = "closed"]
                ELSE [ed[e] EXCEPT !.pc = "open", !.rev = md, !.torn = half]]
    BY <1>0, <1>2 DEF ReadRevision
  <2> HIDE DEF half
  <2>3. /\ [ed[e] EXCEPT !.pc = "closed"] \in EdType
        /\ md # Gone => [ed[e] EXCEPT !.pc = "open", !.rev = md, !.torn = half] \in EdType
    BY <1>0, <2>1 DEF EdType
  <2>4. ed' \in [Editors -> EdType]
    BY <1>0, <2>2, <2>3
  <2> QED  BY <1>2, <2>4 DEF ReadRevision, FilesTyped
<1>3. CASE Save(e)
  <2>1. texts + 1 \in Texts
    BY <1>3, TextsAssumption DEF Save, FilesTyped, Texts
  <2>2. [ed[e] EXCEPT !.pc = "saving", !.new = texts + 1] \in EdType
    BY <1>0, <2>1 DEF EdType
  <2>3. ed' \in [Editors -> EdType]
    BY <1>0, <1>3, <2>2 DEF Save
  <2> QED  BY <1>3, <2>1, <2>3, DisturbedType DEF Save, FilesTyped
<1>4. CASE CompareRevision(e)
  <2> DEFINE pc == IF md = ed[e].rev THEN "checked" ELSE "closed"
  <2>1. [ed[e] EXCEPT !.pc = pc, !.overtaken = FALSE] \in EdType
    BY <1>0 DEF EdType
  <2>2. ed' \in [Editors -> EdType]
    BY <1>0, <1>4, <2>1 DEF CompareRevision
  <2> QED  BY <1>4, <2>2 DEF CompareRevision, FilesTyped
<1>5. CASE ReplaceFile(e)
  <2>1. Overtaken \in [Editors -> EdType]
    BY OvertakenType
  <2>2. /\ [Overtaken[e] EXCEPT !.pc = "saved"] \in EdType
        /\ [ed[e] EXCEPT !.pc = "closed"] \in EdType
    BY <1>0, <2>1 DEF EdType
  <2>3. ed' \in [Editors -> EdType]
    BY <1>0, <1>5, <2>1, <2>2 DEF ReplaceFile
  <2>4. tree' \in [Roots -> TreeType]
    BY <1>0, <1>5 DEF ReplaceFile, TreeType, Files
  <2> QED  BY <1>5, <2>3, <2>4 DEF ReplaceFile, FilesTyped
<1>6. CASE SaveAnswered(e)
  <2>1. ed' \in [Editors -> EdType]
    BY <1>0, <1>6 DEF SaveAnswered, EdType
  <2> QED  BY <1>6, <2>1 DEF SaveAnswered, FilesTyped
<1> QED  BY <1>1, <1>2, <1>3, <1>4, <1>5, <1>6 DEF EditStep

LEMMA CrashIs ==
    ASSUME FilesTyped, FilesCrash
    PROVE  /\ FilesTyped'
           /\ \A c \in Copies : op'[c] = IF AtWork(c)
                                THEN [op[c] EXCEPT !.pc = "failed", !.alone = FALSE] ELSE op[c]
           /\ \A r \in Roots : spoiled'[r] = (spoiled[r] \/ \E c \in Copies :
                                   op[c].pc = "delete" /\ op[c].to = r /\ ~op[c].lost)
           /\ \A e \in Editors : ed'[e] = IF Saving(e) \/ ed[e].pc = "reading"
                                          THEN [ed[e] EXCEPT !.pc = "closed"] ELSE ed[e]
<1>1. \A c \in Copies : [op[c] EXCEPT !.pc = "failed", !.alone = FALSE] \in OpType
  BY DEF FilesTyped, OpType, OpPCs
<1>2. \A e \in Editors : [ed[e] EXCEPT !.pc = "closed"] \in EdType
  BY DEF FilesTyped, EdType
<1>3. op' \in [Copies -> OpType] /\ ed' \in [Editors -> EdType]
  BY <1>1, <1>2 DEF FilesTyped, FilesCrash
<1>4. spoiled' \in [Roots -> BOOLEAN]
  BY DEF FilesTyped, FilesCrash
<1> QED  BY <1>3, <1>4 DEF FilesTyped, FilesCrash

LEMMA FilesTypedStep ==
    ASSUME FilesTyped, [FilesNext]_filesVars
    PROVE  FilesTyped'
<1>1. ASSUME NEW c \in Copies, NEW to \in Roots, NEW copies \in BOOLEAN, Begin(c, to, copies)
      PROVE  FilesTyped'
  BY <1>1, BeginTypes DEF Begin, FilesTyped, editorVars
<1>2. ASSUME NEW c \in Copies,
             \/ ListOrigin(c) \/ CopyDone(c) \/ OpenTarget(c) \/ Report(c)
             \/ \E f \in Files : CopyFile(c, f)
      PROVE  FilesTyped'
  BY <1>2, CopyTypes
<1>3. ASSUME NEW c \in Copies, NEW f \in Files, DeleteFile(c, f)  PROVE FilesTyped'
  BY <1>3, DeleteFileIs
<1>4. ASSUME NEW c \in Copies, DeleteDone(c)  PROVE FilesTyped'
  BY <1>4, DeleteDoneIs
<1>5. ASSUME NEW c \in Copies, RenameCopy(c)  PROVE FilesTyped'
  BY <1>5, RenameCopyIs
<1>6. CASE UNCHANGED filesVars
  BY <1>6 DEF filesVars, FilesTyped
<1> QED
  BY <1>1, <1>2, <1>3, <1>4, <1>5, <1>6, FileAlternatives, EditTypes, CrashIs

LEMMA FilesTypedInit == FilesInit => FilesTyped
<1> SUFFICES ASSUME FilesInit PROVE FilesTyped
  OBVIOUS
<1>1. 1 \in Texts /\ 2 \in Texts
  BY TextsAssumption DEF Texts
<1>2. None \in TreeType /\ [f \in Files |-> 1] \in TreeType /\ [f \in Files |-> 2] \in TreeType
  BY <1>1 DEF None, TreeType
<1>3. tree \in [Roots -> TreeType]
  BY <1>2 DEF FilesInit
<1>4. made \in [Roots -> BOOLEAN] /\ spoiled \in [Roots -> BOOLEAN] /\ texts \in Texts
  BY <1>1 DEF FilesInit, Whole
<1>5. op \in [Copies -> OpType]
  BY <1>2 DEF FilesInit, OpType, OpPCs, Roots, TreeType
<1>6. ed \in [Editors -> EdType]
  BY <1>1 DEF FilesInit, EdType
<1> QED  BY <1>3, <1>4, <1>5, <1>6 DEF FilesTyped

\* The two trees, the copies and the editors stay in their types, over crashes.
THEOREM FilesTypeCorrect == FilesSpec => []FilesTypeOK
<1> QED  BY FilesTypes, FilesTypedInit, FilesTypedStep, PTL DEF FilesSpec

-----------------------------------------------------------------------------
\* A console's revision is of the text it shows, and one that was compared is
\* still that of the file.
SavesSee ==
  \A e \in Editors :
    /\ ed[e].pc \in {"open", "saving", "checked"} /\ ~ed[e].torn => ed[e].rev = ed[e].seen
    /\ ed[e].pc = "checked" /\ ~ed[e].overtaken => md = ed[e].rev

LEMMA SavesSeeStep ==
    ASSUME FilesTyped, SavesSee, [FilesNext]_filesVars
    PROVE  SavesSee'
<1>0. /\ tree \in [Roots -> TreeType] /\ ed \in [Editors -> EdType] /\ md = tree["mind"]["md"]
  BY DEF FilesTyped, md
<1>1. ASSUME md' = md, ed' = ed  PROVE SavesSee'
  BY <1>1 DEF SavesSee
<1>2. ASSUME ed' = Overtaken  PROVE SavesSee'
  BY <1>2, OvertakenType DEF SavesSee
<1>3. ASSUME tree' = tree, ed' = ed  PROVE SavesSee'
  BY <1>1, <1>3 DEF md
<1>4. ASSUME NEW c \in Copies,
             \/ \E to \in Roots, copies \in BOOLEAN : Begin(c, to, copies)
             \/ ListOrigin(c) \/ CopyDone(c) \/ OpenTarget(c) \/ DeleteDone(c) \/ Report(c)
             \/ \E f \in Files : CopyFile(c, f)
      PROVE  SavesSee'
  BY <1>3, <1>4
     DEF Begin, ListOrigin, CopyDone, OpenTarget, DeleteDone, Report, CopyFile, editorVars
<1>5. ASSUME NEW c \in Copies, NEW f \in Files, DeleteFile(c, f)  PROVE SavesSee'
  <2> DEFINE r == op[c].to
             there == ~op[c].lost /\ tree[r][f] # Gone
  <2>1. /\ r \in Roots /\ tree' = IF there THEN [tree EXCEPT ![r][f] = Gone] ELSE tree
    BY <1>5, DeleteFileIs
  <2>2. ed' = IF there /\ r = "mind" /\ f = "md" THEN Overtaken ELSE ed
    BY <1>5 DEF DeleteFile
  <2> HIDE DEF r, there
  <2>3. CASE there /\ r = "mind" /\ f = "md"
    BY <1>2, <2>2, <2>3
  <2>4. CASE ~(there /\ r = "mind" /\ f = "md")
    <3>1. md' = md
      BY <1>0, <2>1, <2>4 DEF md, TreeType, Roots, Files
    <3> QED  BY <1>1, <2>2, <2>4, <3>1
  <2> QED  BY <2>3, <2>4
<1>6. ASSUME NEW c \in Copies, RenameCopy(c)  PROVE SavesSee'
  <2> DEFINE r == op[c].to
             free == tree[r] = None
  <2>1. /\ r \in Roots /\ tree' = IF free THEN [tree EXCEPT ![r] = op[c].got] ELSE tree
        /\ ed' = IF free /\ r = "mind" THEN Overtaken ELSE ed
    BY <1>6, RenameCopyIs
  <2> HIDE DEF r, free
  <2>2. CASE free /\ r = "mind"
    BY <1>2, <2>1, <2>2
  <2>3. CASE ~(free /\ r = "mind")
    <3>1. md' = md
      BY <1>0, <2>1, <2>3 DEF md, Roots
    <3> QED  BY <1>1, <2>1, <2>3, <3>1
  <2> QED  BY <2>2, <2>3
<1>7. ASSUME NEW e \in Editors, EditStep(e)  PROVE SavesSee'
  <2>1. CASE ReadText(e)
    <3>1. md' = md
      BY <2>1 DEF ReadText, md
    <3> QED  BY <1>0, <2>1, <3>1 DEF ReadText, SavesSee, EdType
  <2>2. CASE ReadRevision(e)
    <3>1. md' = md
      BY <2>2 DEF ReadRevision, md
    <3>2. /\ \A i \in Editors \ {e} : ed'[i] = ed[i]
          /\ \/ ed'[e] = [ed[e] EXCEPT !.pc = "closed"]
             \/ ed'[e] = [ed[e] EXCEPT !.pc = "open", !.rev = md, !.torn = (md # ed[e].seen)]
      BY <1>0, <2>2 DEF ReadRevision
    <3>3. /\ ed'[e].pc \in {"closed", "open"}
          /\ ed'[e].pc = "open" /\ ~ed'[e].torn => ed'[e].rev = ed'[e].seen
      BY <1>0, <3>2 DEF EdType
    <3> QED  BY <3>1, <3>2, <3>3 DEF SavesSee
  <2>3. CASE Save(e)
    <3>1. md' = md
      BY <2>3 DEF Save, md
    <3> QED  BY <1>0, <2>3, <3>1 DEF Save, SavesSee, EdType
  <2>4. CASE CompareRevision(e)
    <3>1. md' = md
      BY <2>4 DEF CompareRevision, md
    <3> QED  BY <1>0, <2>4, <3>1 DEF CompareRevision, SavesSee, EdType
  <2>5. CASE ReplaceFile(e)
    <3>1. CASE made["mind"]
      <4>1. ed' = [Overtaken EXCEPT ![e].pc = "saved"]
        BY <2>5, <3>1 DEF ReplaceFile
      <4>2. \A i \in Editors \ {e} : ed'[i] = Overtaken[i]
        BY <4>1, OvertakenType
      <4>3. ed'[e].pc = "saved"
        BY <4>1, OvertakenType DEF EdType
      <4> QED  BY <4>2, <4>3, OvertakenType DEF SavesSee
    <3>2. CASE ~made["mind"]
      <4>1. ed' = [ed EXCEPT ![e].pc = "closed"] /\ md' = md
        BY <2>5, <3>2 DEF ReplaceFile, md
      <4> QED  BY <1>0, <4>1 DEF SavesSee, EdType
    <3> QED  BY <3>1, <3>2
  <2>6. CASE SaveAnswered(e)
    <3>1. md' = md
      BY <2>6 DEF SaveAnswered, md
    <3> QED  BY <1>0, <2>6, <3>1 DEF SaveAnswered, SavesSee, EdType
  <2> QED  BY <1>7, <2>1, <2>2, <2>3, <2>4, <2>5, <2>6 DEF EditStep
<1>8. CASE FilesCrash
  <2>1. md' = md
    BY <1>8 DEF FilesCrash, md
  <2>2. \A e \in Editors : ed'[e] = ed[e] \/ ed'[e].pc = "closed"
    BY <1>0, <1>8, CrashIs DEF EdType
  <2> QED  BY <2>1, <2>2 DEF SavesSee
<1>9. CASE UNCHANGED filesVars
  BY <1>3, <1>9 DEF filesVars
<1> QED
  BY <1>4, <1>5, <1>6, <1>7, <1>8, <1>9, FileAlternatives

\* For any editors, copies and removals, a save that is accepted replaces the
\* very text its console showed, but for a writer in one of the two gaps.
THEOREM SavesReplaceWhatTheySaw == FilesSpec => SaveReplacesWhatItSaw
<1> DEFINE Inv == FilesTyped /\ SavesSee
<1>1. FilesInit => Inv
  <2>1. FilesInit => SavesSee
    BY DEF FilesInit, SavesSee
  <2> QED  BY <2>1, FilesTypedInit
<1>2. Inv /\ [FilesNext]_filesVars => Inv'
  BY FilesTypedStep, SavesSeeStep
<1>3. Inv => \A e \in Editors :
        ed[e].pc = "checked" /\ ed'[e].pc = "saved" /\ ~ed[e].overtaken /\ ~ed[e].torn
          => md = ed[e].seen
  BY DEF SavesSee
<1> QED  BY <1>1, <1>2, <1>3, PTL DEF FilesSpec, SaveReplacesWhatItSaw

-----------------------------------------------------------------------------
\* Someone is deleting the directory that now has this name.
Deleting(c, r) == op[c].to = r /\ op[c].pc = "delete" /\ ~op[c].lost

Accounted(r) == spoiled[r] \/ \E c \in Copies : Deleting(c, r)

\* A directory that is there is whole, or it is known why it is not; one that
\* is not there holds nothing.
DirsAreWhole ==
  \A r \in Roots :
    /\ made[r] => Whole(tree[r]) \/ Accounted(r)
    /\ ~made[r] => tree[r] = None

\* What a copy has made of a whole skill is whole when it is put in place.
CopiesAreWhole ==
  \A c \in Copies : ~op[c].half =>
    /\ op[c].pc = "copy" => \A f \in Files \ op[c].todo : op[c].got[f] # Gone
    /\ op[c].pc \in {"replace", "delete"} /\ op[c].copies => Whole(op[c].got)
    /\ op[c].pc = "rename" => Whole(op[c].got)

LEMMA DirsStay ==
    ASSUME DirsAreWhole, UNCHANGED <<tree, made>>,
           \A r \in Roots : Accounted(r) => Accounted(r)'
    PROVE  DirsAreWhole'
  BY DEF DirsAreWhole

LEMMA CopiesStay ==
    ASSUME CopiesAreWhole,
           \A c \in Copies : /\ op'[c].half = op[c].half /\ op'[c].pc = op[c].pc
                             /\ op'[c].todo = op[c].todo /\ op'[c].got = op[c].got
                             /\ op'[c].copies = op[c].copies
                             \/ op'[c].pc \notin {"copy", "replace", "delete", "rename"}
    PROVE  CopiesAreWhole'
  BY DEF CopiesAreWhole

\* The steps that change no directory and only the record of one copy.
LEMMA WholeOwnStep ==
    ASSUME FilesTyped, DirsAreWhole, CopiesAreWhole, NEW c \in Copies,
           \/ ListOrigin(c) \/ CopyDone(c) \/ OpenTarget(c) \/ Report(c)
           \/ \E f \in Files : CopyFile(c, f)
    PROVE  DirsAreWhole' /\ CopiesAreWhole'
<1>0. op \in [Copies -> OpType] /\ op[c] \in OpType /\ UNCHANGED <<tree, made, spoiled>>
  BY DEF FilesTyped, ListOrigin, CopyDone, OpenTarget, Report, CopyFile
<1>1. op[c].pc # "delete" /\ \A d \in Copies \ {c} : op'[d] = op[d]
  BY <1>0 DEF ListOrigin, CopyDone, OpenTarget, Report, CopyFile
<1>2. \A r \in Roots : Accounted(r) => Accounted(r)'
  BY <1>0, <1>1 DEF Accounted, Deleting
<1>3. DirsAreWhole'
  BY <1>0, <1>2, DirsStay
<1>4. CopiesAreWhole'
  <2>1. SUFFICES ASSUME ~op'[c].half
        PROVE  /\ op'[c].pc = "copy" => \A f \in Files \ op'[c].todo : op'[c].got[f] # Gone
               /\ op'[c].pc \in {"replace", "delete"} /\ op'[c].copies => Whole(op'[c].got)
               /\ op'[c].pc = "rename" => Whole(op'[c].got)
    BY <1>1 DEF CopiesAreWhole
  <2>2. CASE ListOrigin(c)
    <3> DEFINE origin == tree[Other(op[c].to)]
               half == ~Whole(origin)
    <3>1. /\ op' = [op EXCEPT ![c].todo = Held(origin), ![c].half = half, ![c].pc = "copy"]
      BY <2>2 DEF ListOrigin
    <3> HIDE DEF half, origin
    <3>2. op'[c].todo = Held(origin) /\ op'[c].half = half /\ op'[c].pc = "copy"
      BY <1>0, <3>1 DEF OpType
    <3>3. Whole(origin)
      BY <2>1, <3>2 DEF half
    <3>4. Held(origin) = Files
      BY <3>3 DEF Whole, Held
    <3> QED  BY <3>2, <3>4
  <2>3. CASE CopyDone(c)
    <3>1. op' = [op EXCEPT ![c].pc = "replace"] /\ op[c].pc = "copy" /\ op[c].todo = {}
      BY <2>3 DEF CopyDone
    <3>2. /\ op'[c].pc = "replace" /\ op'[c].half = op[c].half /\ op'[c].got = op[c].got
      BY <1>0, <3>1 DEF OpType
    <3> QED  BY <2>1, <3>1, <3>2 DEF CopiesAreWhole, Whole
  <2>4. CASE OpenTarget(c)
    <3>1. /\ op[c].pc = "replace"
          /\ op' = [op EXCEPT ![c] = IF made[op[c].to]
              THEN [op[c] EXCEPT !.pc = "delete", !.todo = Held(tree[op[c].to]), !.lost = FALSE]
              ELSE [op[c] EXCEPT !.pc = IF op[c].copies THEN "rename" ELSE "removed"]]
      BY <1>0, <2>4 DEF OpenTarget
    <3>2. /\ op'[c].half = op[c].half /\ op'[c].got = op[c].got /\ op'[c].copies = op[c].copies
          /\ \/ op'[c].pc \in {"delete", "removed"}
             \/ op'[c].pc = "rename" /\ op[c].copies
      <4>1. CASE made[op[c].to]
        <5>1. op'[c] = [op[c] EXCEPT !.pc = "delete", !.todo = Held(tree[op[c].to]), !.lost = FALSE]
          BY <1>0, <3>1, <4>1
        <5> QED  BY <1>0, <5>1 DEF OpType
      <4>2. CASE ~made[op[c].to]
        <5> DEFINE pc == IF op[c].copies THEN "rename" ELSE "removed"
        <5>1. op'[c] = [op[c] EXCEPT !.pc = pc]
          BY <1>0, <3>1, <4>2
        <5>2. op'[c].pc = pc
          BY <1>0, <5>1 DEF OpType
        <5>3. op'[c].half = op[c].half /\ op'[c].got = op[c].got /\ op'[c].copies = op[c].copies
          BY <1>0, <5>1 DEF OpType
        <5> QED  BY <5>2, <5>3
      <4> QED  BY <4>1, <4>2
    <3> QED  BY <2>1, <3>1, <3>2 DEF CopiesAreWhole
  <2>5. CASE Report(c)
    <3>1. op' = [op EXCEPT ![c].pc = PairState]
      BY <2>5 DEF Report
    <3>2. PairState \in {"missing", "same", "differs"}
      BY DEF PairState
    <3>3. op'[c].pc = PairState
      BY <1>0, <3>1 DEF OpType
    <3> QED  BY <3>2, <3>3
  <2>6. ASSUME NEW f \in Files, CopyFile(c, f)
        PROVE  /\ op'[c].pc = "copy" => \A g \in Files \ op'[c].todo : op'[c].got[g] # Gone
               /\ op'[c].pc \notin {"replace", "delete", "rename"}
    <3> DEFINE text == tree[Other(op[c].to)][f]
    <3>1. op[c].pc = "copy" /\ f \in op[c].todo
      BY <2>6 DEF CopyFile
    <3>2. CASE text = Gone
      <4>1. op'[c] = [op[c] EXCEPT !.pc = "failed"]
        BY <1>0, <2>6, <3>2 DEF CopyFile
      <4> QED  BY <1>0, <4>1 DEF OpType
    <3>3. CASE text # Gone
      <4>1. op'[c] = [op[c] EXCEPT !.got[f] = text, !.todo = op[c].todo \ {f}]
        BY <1>0, <2>6, <3>3 DEF CopyFile
      <4> HIDE DEF text
      <4>2. /\ op'[c].half = op[c].half /\ op'[c].pc = "copy" /\ op'[c].todo = op[c].todo \ {f}
            /\ op'[c].got = [op[c].got EXCEPT ![f] = text]
        BY <1>0, <3>1, <4>1 DEF OpType
      <4>3. op[c].got \in [Files -> Texts \cup {Gone}]
        BY <1>0 DEF OpType
      <4>4. \A g \in Files \ op[c].todo : op[c].got[g] # Gone
        BY <2>1, <3>1, <4>2 DEF CopiesAreWhole
      <4> QED  BY <3>3, <4>2, <4>3, <4>4
    <3> QED  BY <3>2, <3>3
  <2> QED  BY <2>2, <2>3, <2>4, <2>5, <2>6
<1> QED  BY <1>3, <1>4

LEMMA WholeDelete ==
    ASSUME FilesTyped, DirsAreWhole, CopiesAreWhole, NEW c \in Copies,
           NEW f \in Files, DeleteFile(c, f)
    PROVE  DirsAreWhole' /\ CopiesAreWhole'
<1>r. PICK r \in Roots : r = op[c].to
  BY DEF FilesTyped, OpType
<1> DEFINE there == ~op[c].lost /\ tree[r][f] # Gone
<1>1. /\ r \in Roots /\ op[c].pc = "delete" /\ f \in op[c].todo
      /\ tree' = IF there THEN [tree EXCEPT ![r][f] = Gone] ELSE tree
      /\ \A d \in Copies \ {c} : op'[d] = op[d]
      /\ \/ op'[c] = [op[c] EXCEPT !.todo = @ \ {f}] /\ UNCHANGED spoiled
         \/ /\ op'[c] = [op[c] EXCEPT !.pc = "failed"] /\ ~there
            /\ spoiled' = [spoiled EXCEPT ![r] = @ \/ ~op[c].lost]
      /\ made' = made
  BY <1>r, DeleteFileIs DEF DeleteFile
<1>2. /\ tree \in [Roots -> TreeType] /\ op[c] \in OpType /\ spoiled \in [Roots -> BOOLEAN]
      /\ op[c].lost \in BOOLEAN /\ made \in [Roots -> BOOLEAN]
  BY DEF FilesTyped, OpType
<1>3. CopiesAreWhole'
  <2>1. \/ /\ op'[c].half = op[c].half /\ op'[c].pc = "delete"
           /\ op'[c].got = op[c].got /\ op'[c].copies = op[c].copies
        \/ op'[c].pc = "failed"
    BY <1>1, <1>2 DEF OpType
  <2> QED  BY <1>1, <2>1 DEF CopiesAreWhole
<1>4. ASSUME NEW q \in Roots, Accounted(q)  PROVE Accounted(q)'
  <2>1. CASE spoiled[q]
    <3>1. spoiled'[q]
      BY <1>1, <1>2, <2>1
    <3> QED  BY <3>1 DEF Accounted
  <2>2. ASSUME NEW d \in Copies, Deleting(d, q)  PROVE Accounted(q)'
    <3>1. CASE d # c
      BY <1>1, <2>2, <3>1 DEF Accounted, Deleting
    <3>2. CASE d = c
      <4>1. q = r /\ ~op[c].lost
        BY <1>r, <2>2, <3>2 DEF Deleting
      <4>2. CASE op'[c] = [op[c] EXCEPT !.todo = @ \ {f}]
        <5>1. op'[c].pc = "delete" /\ op'[c].to = r /\ ~op'[c].lost
          BY <1>1, <1>2, <1>r, <4>1, <4>2 DEF OpType
        <5> QED  BY <4>1, <5>1 DEF Accounted, Deleting
      <4>3. CASE spoiled' = [spoiled EXCEPT ![r] = @ \/ ~op[c].lost]
        <5>1. spoiled'[q]
          BY <1>1, <1>2, <4>1, <4>3
        <5> QED  BY <5>1 DEF Accounted
      <4> QED  BY <1>1, <4>2, <4>3
    <3> QED  BY <3>1, <3>2
  <2> QED  BY <1>4, <2>1, <2>2 DEF Accounted
<1>5. DirsAreWhole'
  <2>1. CASE ~there
    BY <1>1, <1>4, <2>1, DirsStay
  <2>2. CASE there
    <3>1. Deleting(c, r)
      BY <1>1, <1>r, <2>2 DEF Deleting
    <3>2. Accounted(r)'
      BY <1>1, <1>4, <3>1 DEF Accounted
    <3>3. \A q \in Roots \ {r} : tree'[q] = tree[q]
      BY <1>1, <1>2
    <3>4. made[r]
      BY <1>1, <2>2 DEF DirsAreWhole, None
    <3> QED  BY <1>1, <1>4, <3>2, <3>3, <3>4 DEF DirsAreWhole
  <2> QED  BY <2>1, <2>2
<1> QED  BY <1>3, <1>5

LEMMA WholeDeleteDone ==
    ASSUME FilesTyped, DirsAreWhole, CopiesAreWhole, NEW c \in Copies, DeleteDone(c)
    PROVE  DirsAreWhole' /\ CopiesAreWhole'
<1>r. PICK r \in Roots : r = op[c].to
  BY DEF FilesTyped, OpType
<1> DEFINE gone == ~op[c].lost /\ tree[r] = None
           pc == IF ~gone THEN "failed" ELSE IF op[c].copies THEN "rename" ELSE "removed"
<1>1. /\ r \in Roots /\ op[c].pc = "delete"
      /\ UNCHANGED tree
      /\ made' = IF gone THEN [made EXCEPT ![r] = FALSE] ELSE made
      /\ op'[c] = [op[c] EXCEPT !.pc = pc]
      /\ \A d \in Copies \ {c} :
           op'[d] = [op[d] EXCEPT !.lost = @ \/ (gone /\ op[d].to = r)]
      /\ spoiled' = IF op[c].lost THEN spoiled ELSE [spoiled EXCEPT ![r] = ~gone]
  BY <1>r, DeleteDoneIs
<1>2. /\ tree \in [Roots -> TreeType] /\ op \in [Copies -> OpType] /\ spoiled \in [Roots -> BOOLEAN]
      /\ op[c].lost \in BOOLEAN /\ made \in [Roots -> BOOLEAN] /\ gone \in BOOLEAN
  BY DEF FilesTyped, OpType
<1>3. /\ op'[c].half = op[c].half /\ op'[c].pc = pc
      /\ op'[c].got = op[c].got /\ op'[c].copies = op[c].copies
  BY <1>1, <1>2 DEF OpType
<1>4. \A d \in Copies \ {c} :
        /\ op'[d].pc = op[d].pc /\ op'[d].to = op[d].to /\ op'[d].copies = op[d].copies
        /\ op'[d].todo = op[d].todo /\ op'[d].got = op[d].got /\ op'[d].half = op[d].half
        /\ op'[d].lost = (op[d].lost \/ (gone /\ op[d].to = r))
  <2> TAKE d \in Copies \ {c}
  <2> DEFINE l == gone /\ op[d].to = r
  <2>1. op'[d] = [op[d] EXCEPT !.lost = @ \/ l] /\ op[d] \in OpType
    BY <1>1, <1>2
  <2> HIDE DEF l
  <2>2. /\ op'[d].pc = op[d].pc /\ op'[d].to = op[d].to /\ op'[d].copies = op[d].copies
        /\ op'[d].todo = op[d].todo /\ op'[d].got = op[d].got /\ op'[d].half = op[d].half
        /\ op'[d].lost = (op[d].lost \/ l)
    BY <2>1, LostType
  <2> QED  BY <2>2 DEF l
<1>5. CopiesAreWhole'
  <2>1. \A d \in Copies \ {c} :
          /\ op'[d].half = op[d].half /\ op'[d].pc = op[d].pc /\ op'[d].todo = op[d].todo
          /\ op'[d].got = op[d].got /\ op'[d].copies = op[d].copies
    BY <1>4
  <2>2. \/ op'[c].pc \in {"failed", "removed", "report"}
        \/ /\ op'[c].pc = "rename" /\ op'[c].half = op[c].half /\ op'[c].got = op[c].got
           /\ op[c].pc = "delete" /\ op[c].copies
    BY <1>1, <1>3
  <2> QED  BY <2>1, <2>2 DEF CopiesAreWhole
<1> HIDE DEF pc
<1>6. ASSUME NEW q \in Roots, q # r, Accounted(q)  PROVE Accounted(q)'
  <2>1. CASE spoiled[q]
    <3>1. spoiled'[q]
      BY <1>1, <1>2, <1>6, <2>1
    <3> QED  BY <3>1 DEF Accounted
  <2>2. ASSUME NEW d \in Copies, Deleting(d, q)  PROVE Accounted(q)'
    <3>1. d # c
      BY <1>6, <1>r, <2>2 DEF Deleting
    <3>2. Deleting(d, q)'
      BY <1>4, <1>6, <2>2, <3>1 DEF Deleting
    <3> QED  BY <3>2 DEF Accounted
  <2> QED  BY <1>6, <2>1, <2>2 DEF Accounted
<1>7. \A q \in Roots \ {r} : made'[q] = made[q]
  BY <1>1, <1>2
<1>8. CASE gone
  <2>1. made'[r] = FALSE /\ tree'[r] = None
    BY <1>1, <1>2, <1>8
  <2> QED  BY <1>1, <1>5, <1>6, <1>7, <2>1 DEF DirsAreWhole
<1>9. CASE ~gone
  <2>1. made' = made
    BY <1>1, <1>9
  <2>2. Accounted(r) => Accounted(r)'
    <3>1. CASE ~op[c].lost
      <4>1. spoiled'[r]
        BY <1>1, <1>2, <1>9, <3>1
      <4> QED  BY <4>1 DEF Accounted
    <3>2. CASE op[c].lost
      <4>1. spoiled' = spoiled /\ ~Deleting(c, r)
        BY <1>1, <3>2 DEF Deleting
      <4>2. \A d \in Copies \ {c} : Deleting(d, r) => Deleting(d, r)'
        BY <1>4, <1>9 DEF Deleting
      <4> QED  BY <4>1, <4>2 DEF Accounted
    <3> QED  BY <1>2, <3>1, <3>2
  <2> QED  BY <1>1, <1>5, <1>6, <2>1, <2>2, DirsStay
<1> QED  BY <1>2, <1>8, <1>9

LEMMA WholeRename ==
    ASSUME FilesTyped, DirsAreWhole, CopiesAreWhole, NEW c \in Copies, RenameCopy(c)
    PROVE  DirsAreWhole' /\ CopiesAreWhole'
<1>r. PICK r \in Roots : r = op[c].to
  BY DEF FilesTyped, OpType
<1> DEFINE free == tree[r] = None
           pc == IF free THEN "report" ELSE "failed"
<1>1. /\ r \in Roots /\ op[c].pc = "rename"
      /\ tree' = IF free THEN [tree EXCEPT ![r] = op[c].got] ELSE tree
      /\ made' = IF free THEN [made EXCEPT ![r] = TRUE] ELSE made
      /\ op'[c] = [op[c] EXCEPT !.pc = pc]
      /\ \A d \in Copies \ {c} :
           op'[d] = [op[d] EXCEPT !.lost = @ \/ (free /\ op[d].to = r)]
      /\ spoiled' = IF free THEN [spoiled EXCEPT ![r] = op[c].half] ELSE spoiled
  BY <1>r, RenameCopyIs
<1>2. /\ tree \in [Roots -> TreeType] /\ op \in [Copies -> OpType] /\ spoiled \in [Roots -> BOOLEAN]
      /\ made \in [Roots -> BOOLEAN] /\ free \in BOOLEAN /\ op[c].half \in BOOLEAN
  BY DEF FilesTyped, OpType
<1>3. op'[c].pc = pc
  BY <1>1, <1>2 DEF OpType
<1>4. \A d \in Copies \ {c} :
        /\ op'[d].pc = op[d].pc /\ op'[d].to = op[d].to /\ op'[d].copies = op[d].copies
        /\ op'[d].todo = op[d].todo /\ op'[d].got = op[d].got /\ op'[d].half = op[d].half
        /\ op'[d].lost = (op[d].lost \/ (free /\ op[d].to = r))
  <2> TAKE d \in Copies \ {c}
  <2> DEFINE l == free /\ op[d].to = r
  <2>1. op'[d] = [op[d] EXCEPT !.lost = @ \/ l] /\ op[d] \in OpType
    BY <1>1, <1>2
  <2> HIDE DEF l
  <2>2. /\ op'[d].pc = op[d].pc /\ op'[d].to = op[d].to /\ op'[d].copies = op[d].copies
        /\ op'[d].todo = op[d].todo /\ op'[d].got = op[d].got /\ op'[d].half = op[d].half
        /\ op'[d].lost = (op[d].lost \/ l)
    BY <2>1, LostType
  <2> QED  BY <2>2 DEF l
<1>5. CopiesAreWhole'
  <2>1. \A d \in Copies \ {c} :
          /\ op'[d].half = op[d].half /\ op'[d].pc = op[d].pc /\ op'[d].todo = op[d].todo
          /\ op'[d].got = op[d].got /\ op'[d].copies = op[d].copies
    BY <1>4
  <2>2. \/ op'[c].pc \in {"failed", "removed", "report"}
        \/ /\ op'[c].pc = "rename" /\ op'[c].half = op[c].half /\ op'[c].got = op[c].got
           /\ op[c].pc = "delete" /\ op[c].copies
    BY <1>1, <1>3
  <2> QED  BY <2>1, <2>2 DEF CopiesAreWhole
<1>6. Whole(op[c].got) \/ op[c].half
  BY <1>1 DEF CopiesAreWhole
<1> HIDE DEF pc
<1>7. CASE free
  <2>1. ASSUME NEW q \in Roots, q # r, Accounted(q)  PROVE Accounted(q)'
    <3>1. CASE spoiled[q]
      <4>1. spoiled'[q]
        BY <1>1, <1>2, <2>1, <3>1
      <4> QED  BY <4>1 DEF Accounted
    <3>2. ASSUME NEW d \in Copies, Deleting(d, q)  PROVE Accounted(q)'
      <4>1. d # c
        BY <1>1, <3>2 DEF Deleting
      <4>2. Deleting(d, q)'
        BY <1>4, <2>1, <3>2, <4>1 DEF Deleting
      <4> QED  BY <4>2 DEF Accounted
    <3> QED  BY <2>1, <3>1, <3>2 DEF Accounted
  <2>2. /\ \A q \in Roots \ {r} : made'[q] = made[q] /\ tree'[q] = tree[q]
        /\ made'[r] = TRUE /\ tree'[r] = op[c].got /\ spoiled'[r] = op[c].half
    BY <1>1, <1>2, <1>7
  <2>3. Whole(tree'[r]) \/ Accounted(r)'
    BY <1>6, <2>2 DEF Accounted
  <2> QED  BY <1>5, <2>1, <2>2, <2>3 DEF DirsAreWhole
<1>8. CASE ~free
  <2>1. UNCHANGED <<tree, made, spoiled>>
    BY <1>1, <1>8
  <2>2. \A q \in Roots, d \in Copies : Deleting(d, q) => Deleting(d, q)'
    BY <1>1, <1>4, <1>8 DEF Deleting
  <2>3. \A q \in Roots : Accounted(q) => Accounted(q)'
    BY <2>1, <2>2 DEF Accounted
  <2> QED  BY <1>5, <2>1, <2>3, DirsStay
<1> QED  BY <1>2, <1>7, <1>8

LEMMA WholeEdit ==
    ASSUME FilesTyped, DirsAreWhole, CopiesAreWhole, NEW e \in Editors, EditStep(e)
    PROVE  DirsAreWhole' /\ CopiesAreWhole'
<1>1. UNCHANGED <<made, spoiled>> /\ (op' = op \/ op' = Disturbed)
  BY DEF EditStep, ReadText, ReadRevision, Save, CompareRevision, ReplaceFile, SaveAnswered
<1>2. \A c \in Copies :
        /\ op'[c].pc = op[c].pc /\ op'[c].to = op[c].to /\ op'[c].copies = op[c].copies
        /\ op'[c].todo = op[c].todo /\ op'[c].got = op[c].got /\ op'[c].half = op[c].half
        /\ op'[c].lost = op[c].lost
  BY <1>1, DisturbedType
<1>3. CopiesAreWhole'
  BY <1>2, CopiesStay
<1>4. \A r \in Roots : Accounted(r) => Accounted(r)'
  BY <1>1, <1>2 DEF Accounted, Deleting
<1>5. CASE tree' = tree
  BY <1>1, <1>3, <1>4, <1>5, DirsStay
<1>6. CASE ReplaceFile(e) /\ made["mind"]
  <2>1. tree \in [Roots -> TreeType] /\ "mind" \in Roots /\ ed[e].new # Gone
    BY DEF FilesTyped, EdType, Roots, Texts, Gone
  <2>2. tree' = [tree EXCEPT !["mind"]["md"] = ed[e].new]
    BY <1>6 DEF ReplaceFile
  <2>3. tree'["repo"] = tree["repo"] /\ (Whole(tree["mind"]) => Whole(tree'["mind"]))
    BY <2>1, <2>2 DEF Whole, TreeType, Roots, Files
  <2> QED  BY <1>1, <1>3, <1>4, <1>6, <2>3 DEF DirsAreWhole, Roots
<1>7. tree' = tree \/ (ReplaceFile(e) /\ made["mind"])
  BY DEF EditStep, ReadText, ReadRevision, Save, CompareRevision, ReplaceFile, SaveAnswered
<1> QED  BY <1>5, <1>6, <1>7

LEMMA WholeStep ==
    ASSUME FilesTyped, DirsAreWhole, CopiesAreWhole, [FilesNext]_filesVars
    PROVE  DirsAreWhole' /\ CopiesAreWhole'
<1>1. ASSUME NEW c \in Copies, NEW to \in Roots, NEW copies \in BOOLEAN, Begin(c, to, copies)
      PROVE  DirsAreWhole' /\ CopiesAreWhole'
  <2>1. op[c].pc = "new" /\ UNCHANGED <<tree, made, spoiled>>
    BY <1>1 DEF Begin
  <2>2. /\ \A d \in Copies \ {c} : op'[d] = Disturbed[d]
        /\ op'[c].pc = "replace" => ~op'[c].copies
        /\ op'[c].pc \in {"refused", "list", "replace"}
    BY <1>1, BeginTypes
  <2>3. CopiesAreWhole'
    BY <2>2, DisturbedType DEF CopiesAreWhole
  <2>4. \A r \in Roots, d \in Copies : Deleting(d, r) => Deleting(d, r)'
    BY <2>1, <2>2, DisturbedType DEF Deleting
  <2>5. \A r \in Roots : Accounted(r) => Accounted(r)'
    BY <2>1, <2>4 DEF Accounted
  <2> QED  BY <2>1, <2>3, <2>5, DirsStay
<1>2. CASE FilesCrash
  <2>0. UNCHANGED <<tree, made>> /\ op \in [Copies -> OpType]
    BY <1>2 DEF FilesCrash, FilesTyped
  <2>1. \A c \in Copies : op'[c] = op[c] \/ op'[c].pc = "failed"
    BY <1>2, <2>0, CrashIs DEF OpType
  <2>2. CopiesAreWhole'
    BY <2>1, CopiesStay
  <2>3. \A r \in Roots : Accounted(r) => spoiled'[r]
    BY <1>2, CrashIs DEF Accounted, Deleting
  <2> QED  BY <2>0, <2>2, <2>3, DirsStay DEF Accounted
<1>3. CASE UNCHANGED filesVars
  BY <1>3 DEF filesVars, DirsAreWhole, CopiesAreWhole, Accounted, Deleting
<1> QED
  BY <1>1, <1>2, <1>3, FileAlternatives, WholeOwnStep, WholeDelete, WholeDeleteDone,
     WholeRename, WholeEdit

-----------------------------------------------------------------------------
\* A copy that is alone has the disk to itself.
Solo ==
  \A c \in Copies : op[c].alone /\ AtWork(c) =>
    /\ \A d \in Copies \ {c} : ~AtWork(d)
    /\ \A e \in Editors : ~Saving(e)

\* Nothing has been copied before the origin is listed.
Unstaged == \A c \in Copies : op[c].pc \in {"new", "list"} => op[c].got = None

\* How far a copy that is alone has come, at each of its stages.
SoloStage(c) ==
  LET from == tree[Other(op[c].to)]
      target == tree[op[c].to]
  IN
  /\ op[c].pc \in {"list", "copy", "replace", "delete", "rename", "report"} => from["md"] # Gone
  /\ op[c].pc = "copy" => /\ op[c].todo \subseteq Held(from)
                          /\ \A f \in Files \ op[c].todo : op[c].got[f] = from[f]
  /\ op[c].pc \in {"replace", "delete", "rename"} => op[c].got = from
  /\ op[c].pc = "delete" => ~op[c].lost /\ Held(target) = op[c].todo
  /\ op[c].pc = "rename" => target = None
  /\ op[c].pc = "report" => target = from
  /\ op[c].pc \in OpEnded => op[c].pc \in {"same", "refused"}

SoloCopies == \A c \in Copies : op[c].alone /\ op[c].copies => SoloStage(c)

RepairInv == Solo /\ Unstaged /\ SoloCopies

LEMMA TreeFacts ==
    /\ None \in TreeType
    /\ \A t \in TreeType : Held(t) = {} <=> t = None
    /\ \A r \in Roots : Other(r) \in Roots /\ Other(r) # r
  BY DEF None, TreeType, Held, Files, Roots, Other

\* Whoever is not at work stands as it stood, whatever became of the disk.
LEMMA IdleStage ==
    ASSUME NEW c \in Copies, ~AtWork(c), op'[c].pc = op[c].pc,
           op[c].alone /\ op[c].copies => SoloStage(c), op[c].alone /\ op[c].copies
    PROVE  SoloStage(c)'
<1>1. op[c].pc \in OpEnded \cup {"new"}
  BY DEF AtWork
<1>2. op[c].pc \in OpEnded => op[c].pc \in {"same", "refused"}
  BY DEF SoloStage
<1>3. op[c].pc \notin {"list", "copy", "replace", "delete", "rename", "report"}
  BY <1>1 DEF OpEnded
<1> QED  BY <1>2, <1>3 DEF SoloStage

\* A step of a copy at work: the others are as they were but for what they
\* have lost.
LEMMA RepairOwn ==
    ASSUME FilesTyped, RepairInv, NEW c \in Copies, AtWork(c),
           ed' = ed \/ ed' = Overtaken,
           op'[c].alone = op[c].alone, op'[c].copies = op[c].copies,
           op'[c].pc \notin {"new", "list"},
           \A d \in Copies \ {c} :
             /\ op'[d].pc = op[d].pc /\ op'[d].alone = op[d].alone
             /\ op'[d].copies = op[d].copies /\ op'[d].got = op[d].got,
           op[c].alone /\ op[c].copies /\ SoloStage(c) => SoloStage(c)'
    PROVE  RepairInv'
<1>1. \A e \in Editors : Saving(e)' => Saving(e)
  BY OvertakenType DEF Saving
<1>2. \A d \in Copies \ {c} : AtWork(d)' = AtWork(d)
  BY DEF AtWork
<1>3. \A d \in Copies \ {c} : op[d].alone => ~AtWork(d)
  BY DEF RepairInv, Solo
<1>4. Solo'
  <2> SUFFICES ASSUME NEW d \in Copies, op'[d].alone, AtWork(d)'
               PROVE  /\ \A b \in Copies \ {d} : ~AtWork(b)'
                      /\ \A e \in Editors : ~Saving(e)'
    BY DEF Solo
  <2>1. d = c
    BY <1>2, <1>3
  <2> QED  BY <1>1, <1>2, <2>1 DEF RepairInv, Solo
<1>5. Unstaged'
  BY DEF RepairInv, Unstaged
<1>6. SoloCopies'
  <2> SUFFICES ASSUME NEW d \in Copies, op'[d].alone, op'[d].copies  PROVE SoloStage(d)'
    BY DEF SoloCopies
  <2>1. CASE d = c
    BY <2>1 DEF RepairInv, SoloCopies
  <2>2. CASE d # c
    BY <1>3, <2>2, IdleStage DEF RepairInv, SoloCopies
  <2> QED  BY <2>1, <2>2
<1> QED  BY <1>4, <1>5, <1>6 DEF RepairInv

LEMMA RepairCopy ==
    ASSUME FilesTyped, DirsAreWhole, RepairInv, NEW c \in Copies,
           \/ ListOrigin(c) \/ CopyDone(c) \/ OpenTarget(c) \/ Report(c)
           \/ \E f \in Files : CopyFile(c, f)
    PROVE  RepairInv'
<1>0. /\ op \in [Copies -> OpType] /\ op[c] \in OpType /\ tree \in [Roots -> TreeType]
      /\ op[c].to \in Roots /\ Other(op[c].to) \in Roots /\ made \in [Roots -> BOOLEAN]
      /\ UNCHANGED <<tree, made, ed>>
  BY TreeFacts DEF FilesTyped, ListOrigin, CopyDone, OpenTarget, Report, CopyFile, editorVars, OpType
<1>1. AtWork(c) /\ \A d \in Copies \ {c} : op'[d] = op[d]
  BY <1>0 DEF AtWork, OpEnded, ListOrigin, CopyDone, OpenTarget, Report, CopyFile
<1> DEFINE from == tree[Other(op[c].to)]
           target == tree[op[c].to]
<1>2. from \in TreeType /\ target \in TreeType
  BY <1>0
<1>3. ASSUME op'[c].alone = op[c].alone, op'[c].copies = op[c].copies,
             op'[c].pc \notin {"new", "list"},
             op[c].alone /\ op[c].copies /\ SoloStage(c) => SoloStage(c)'
      PROVE  RepairInv'
  BY <1>0, <1>1, <1>3, RepairOwn
<1>4. CASE ListOrigin(c)
  <2> DEFINE half == ~Whole(from)
  <2>1. /\ op[c].pc = "list"
        /\ op'[c] = [op[c] EXCEPT !.todo = Held(from), !.half = half, !.pc = "copy"]
    BY <1>0, <1>4 DEF ListOrigin
  <2> HIDE DEF half
  <2>2. /\ op'[c].alone = op[c].alone /\ op'[c].copies = op[c].copies /\ op'[c].pc = "copy"
        /\ op'[c].to = op[c].to /\ op'[c].got = op[c].got /\ op'[c].todo = Held(from)
    BY <1>0, <2>1 DEF OpType
  <2>3. op[c].got = None
    BY <2>1 DEF RepairInv, Unstaged
  <2>4. \A f \in Files \ Held(from) : None[f] = from[f]
    BY DEF Held, None
  <2>5. SoloStage(c) => SoloStage(c)'
    BY <1>0, <2>1, <2>2, <2>3, <2>4 DEF SoloStage, OpEnded
  <2> QED  BY <1>3, <2>2, <2>5
<1>5. CASE CopyDone(c)
  <2>1. op[c].pc = "copy" /\ op[c].todo = {} /\ op'[c] = [op[c] EXCEPT !.pc = "replace"]
    BY <1>0, <1>5 DEF CopyDone
  <2>2. /\ op'[c].alone = op[c].alone /\ op'[c].copies = op[c].copies /\ op'[c].pc = "replace"
        /\ op'[c].to = op[c].to /\ op'[c].got = op[c].got
    BY <1>0, <2>1 DEF OpType
  <2>3. SoloStage(c) => op[c].got = from
    <3> SUFFICES ASSUME SoloStage(c) PROVE op[c].got = from
      OBVIOUS
    <3>1. \A f \in Files : op[c].got[f] = from[f]
      BY <2>1 DEF SoloStage
    <3>2. op[c].got \in TreeType
      BY <1>0 DEF OpType, TreeType
    <3> QED  BY <1>2, <3>1, <3>2 DEF TreeType
  <2>4. SoloStage(c) => SoloStage(c)'
    BY <1>0, <2>1, <2>2, <2>3 DEF SoloStage, OpEnded
  <2> QED  BY <1>3, <2>2, <2>4
<1>6. CASE OpenTarget(c)
  <2>0. op[c].pc = "replace"
    BY <1>6 DEF OpenTarget
  <2>1. CASE made[op[c].to]
    <3>1. op'[c] = [op[c] EXCEPT !.pc = "delete", !.todo = Held(target), !.lost = FALSE]
      BY <1>0, <1>6, <2>1 DEF OpenTarget
    <3>2. /\ op'[c].alone = op[c].alone /\ op'[c].copies = op[c].copies /\ op'[c].pc = "delete"
          /\ op'[c].to = op[c].to /\ op'[c].got = op[c].got /\ op'[c].todo = Held(target)
          /\ ~op'[c].lost
      BY <1>0, <3>1 DEF OpType
    <3>3. SoloStage(c) => SoloStage(c)'
      BY <1>0, <2>0, <3>2 DEF SoloStage, OpEnded
    <3> QED  BY <1>3, <3>2, <3>3
  <2>2. CASE ~made[op[c].to]
    <3> DEFINE pc == IF op[c].copies THEN "rename" ELSE "removed"
    <3>1. op'[c] = [op[c] EXCEPT !.pc = pc]
      BY <1>0, <1>6, <2>2 DEF OpenTarget
    <3>2. /\ op'[c].alone = op[c].alone /\ op'[c].copies = op[c].copies
          /\ op'[c].to = op[c].to /\ op'[c].got = op[c].got
      BY <1>0, <3>1 DEF OpType
    <3>3. op'[c].pc = pc
      BY <1>0, <3>1 DEF OpType
    <3>4. target = None
      BY <1>0, <2>2 DEF DirsAreWhole
    <3>5. op[c].copies /\ SoloStage(c) => SoloStage(c)'
      BY <1>0, <2>0, <3>2, <3>3, <3>4 DEF SoloStage, OpEnded
    <3> QED  BY <1>3, <3>2, <3>3, <3>5
  <2> QED  BY <2>1, <2>2
<1>7. CASE Report(c)
  <2>1. op[c].pc = "report" /\ op'[c] = [op[c] EXCEPT !.pc = PairState]
    BY <1>0, <1>7 DEF Report
  <2>2. /\ op'[c].alone = op[c].alone /\ op'[c].copies = op[c].copies /\ op'[c].pc = PairState
        /\ op'[c].to = op[c].to
    BY <1>0, <2>1 DEF OpType
  <2>3. PairState \in {"missing", "same", "differs"}
    BY DEF PairState
  <2>4. SoloStage(c) => PairState = "same"
    <3> SUFFICES ASSUME SoloStage(c) PROVE PairState = "same"
      OBVIOUS
    <3>1. target = from /\ from["md"] # Gone
      BY <2>1 DEF SoloStage
    <3>2. tree["repo"] = tree["mind"] /\ tree["repo"]["md"] # Gone
      BY <1>0, <3>1 DEF Other, Roots
    <3> QED  BY <3>2 DEF PairState
  <2>5. SoloStage(c) => SoloStage(c)'
    BY <2>2, <2>4 DEF SoloStage
  <2> QED  BY <1>3, <2>2, <2>3, <2>5
<1>8. ASSUME NEW f \in Files, CopyFile(c, f)  PROVE RepairInv'
  <2> DEFINE text == from[f]
  <2>0. op[c].pc = "copy" /\ f \in op[c].todo
    BY <1>8 DEF CopyFile
  <2>1. CASE text = Gone
    <3>1. op'[c] = [op[c] EXCEPT !.pc = "failed"]
      BY <1>0, <1>8, <2>1 DEF CopyFile
    <3>2. /\ op'[c].alone = op[c].alone /\ op'[c].copies = op[c].copies /\ op'[c].pc = "failed"
      BY <1>0, <3>1 DEF OpType
    <3>3. ~SoloStage(c)
      BY <2>0, <2>1 DEF SoloStage, Held
    <3> QED  BY <1>3, <3>2, <3>3
  <2>2. CASE text # Gone
    <3>1. op'[c] = [op[c] EXCEPT !.got[f] = text, !.todo = op[c].todo \ {f}]
      BY <1>0, <1>8, <2>2 DEF CopyFile
    <3> HIDE DEF text
    <3>2. /\ op'[c].alone = op[c].alone /\ op'[c].copies = op[c].copies /\ op'[c].pc = "copy"
          /\ op'[c].to = op[c].to /\ op'[c].todo = op[c].todo \ {f}
          /\ op'[c].got = [op[c].got EXCEPT ![f] = text]
      BY <1>0, <2>0, <3>1 DEF OpType
    <3>3. op[c].got \in TreeType
      BY <1>0 DEF OpType, TreeType
    <3>4. SoloStage(c) => \A g \in Files \ op'[c].todo : op'[c].got[g] = from[g]
      BY <2>0, <3>2, <3>3 DEF SoloStage, TreeType, text
    <3>5. SoloStage(c) => op'[c].todo \subseteq Held(from) /\ from["md"] # Gone
      BY <2>0, <3>2 DEF SoloStage
    <3>6. SoloStage(c) => SoloStage(c)'
      BY <1>0, <3>2, <3>4, <3>5 DEF SoloStage, OpEnded
    <3> QED  BY <1>3, <3>2, <3>6
  <2> QED  BY <2>1, <2>2
<1> QED  BY <1>4, <1>5, <1>6, <1>7, <1>8

LEMMA RepairDelete ==
    ASSUME FilesTyped, RepairInv, NEW c \in Copies, NEW f \in Files, DeleteFile(c, f)
    PROVE  RepairInv'
<1>r. PICK r \in Roots : r = op[c].to
  BY DEF FilesTyped, OpType
<1> DEFINE there == ~op[c].lost /\ tree[r][f] # Gone
<1>1. /\ op[c].pc = "delete" /\ f \in op[c].todo
      /\ tree' = IF there THEN [tree EXCEPT ![r][f] = Gone] ELSE tree
      /\ \A d \in Copies \ {c} : op'[d] = op[d]
      /\ \/ op'[c] = [op[c] EXCEPT !.todo = @ \ {f}]
         \/ op'[c] = [op[c] EXCEPT !.pc = "failed"] /\ ~there
      /\ ed' = ed \/ ed' = Overtaken
  BY <1>r, DeleteFileIs DEF DeleteFile
<1>2. tree \in [Roots -> TreeType] /\ op[c] \in OpType /\ Other(r) \in Roots /\ Other(r) # r
  BY TreeFacts DEF FilesTyped
<1>3. /\ op'[c].alone = op[c].alone /\ op'[c].copies = op[c].copies /\ op'[c].to = r
      /\ op'[c].got = op[c].got /\ op'[c].lost = op[c].lost
      /\ \/ op'[c].pc = "delete" /\ op'[c].todo = op[c].todo \ {f}
         \/ op'[c].pc = "failed" /\ ~there
  BY <1>r, <1>1, <1>2 DEF OpType
<1>4. SoloStage(c) => SoloStage(c)'
  <2> SUFFICES ASSUME SoloStage(c) PROVE SoloStage(c)'
    OBVIOUS
  <2>1. there
    BY <1>1, <1>r DEF SoloStage, Held
  <2>2. /\ tree'[Other(r)] = tree[Other(r)]
        /\ tree'[r] = [tree[r] EXCEPT ![f] = Gone]
    BY <1>1, <1>2, <2>1
  <2>3. Held(tree'[r]) = Held(tree[r]) \ {f}
    BY <1>2, <2>2 DEF Held, TreeType
  <2>4. op'[c].pc = "delete" /\ op'[c].todo = op[c].todo \ {f}
    BY <1>3, <2>1
  <2> QED  BY <1>r, <1>1, <1>3, <2>2, <2>3, <2>4 DEF SoloStage, OpEnded
<1>5. AtWork(c) /\ op'[c].pc \notin {"new", "list"}
  BY <1>1, <1>3 DEF AtWork, OpEnded
<1> QED  BY <1>1, <1>3, <1>4, <1>5, RepairOwn

LEMMA RepairDeleteDone ==
    ASSUME FilesTyped, RepairInv, NEW c \in Copies, DeleteDone(c)
    PROVE  RepairInv'
<1>r. PICK r \in Roots : r = op[c].to
  BY DEF FilesTyped, OpType
<1> DEFINE gone == ~op[c].lost /\ tree[r] = None
           pc == IF ~gone THEN "failed" ELSE IF op[c].copies THEN "rename" ELSE "removed"
<1>1. /\ op[c].pc = "delete" /\ op[c].todo = {} /\ UNCHANGED <<tree, ed>>
      /\ op'[c] = [op[c] EXCEPT !.pc = pc]
      /\ \A d \in Copies \ {c} :
           op'[d] = [op[d] EXCEPT !.lost = @ \/ (gone /\ op[d].to = r)]
  BY <1>r, DeleteDoneIs
<1>2. /\ tree \in [Roots -> TreeType] /\ op \in [Copies -> OpType]
      /\ Other(r) \in Roots /\ Other(r) # r
  BY TreeFacts DEF FilesTyped
<1>3. /\ op'[c].alone = op[c].alone /\ op'[c].copies = op[c].copies /\ op'[c].to = r
      /\ op'[c].got = op[c].got /\ op'[c].pc = pc
  BY <1>r, <1>1, <1>2 DEF OpType
<1>4. \A d \in Copies \ {c} :
        /\ op'[d].pc = op[d].pc /\ op'[d].alone = op[d].alone
        /\ op'[d].copies = op[d].copies /\ op'[d].got = op[d].got
  <2> TAKE d \in Copies \ {c}
  <2> DEFINE l == gone /\ op[d].to = r
  <2>1. op'[d] = [op[d] EXCEPT !.lost = @ \/ l] /\ op[d] \in OpType
    BY <1>1, <1>2
  <2> HIDE DEF l
  <2> QED  BY <2>1, LostType
<1>5. op[c].copies /\ SoloStage(c) => SoloStage(c)'
  <2> SUFFICES ASSUME op[c].copies, SoloStage(c) PROVE SoloStage(c)'
    OBVIOUS
  <2>1. gone
    BY <1>1, <1>2, <1>r, TreeFacts DEF SoloStage
  <2>2. op'[c].pc = "rename"
    BY <1>3, <2>1
  <2> QED  BY <1>r, <1>1, <1>3, <2>1, <2>2 DEF SoloStage, OpEnded
<1>6. AtWork(c) /\ op'[c].pc \notin {"new", "list"}
  BY <1>1, <1>3 DEF AtWork, OpEnded
<1> QED  BY <1>1, <1>3, <1>4, <1>5, <1>6, RepairOwn

LEMMA RepairRename ==
    ASSUME FilesTyped, RepairInv, NEW c \in Copies, RenameCopy(c)
    PROVE  RepairInv'
<1>r. PICK r \in Roots : r = op[c].to
  BY DEF FilesTyped, OpType
<1> DEFINE free == tree[r] = None
           pc == IF free THEN "report" ELSE "failed"
<1>1. /\ op[c].pc = "rename"
      /\ tree' = IF free THEN [tree EXCEPT ![r] = op[c].got] ELSE tree
      /\ op'[c] = [op[c] EXCEPT !.pc = pc]
      /\ \A d \in Copies \ {c} :
           op'[d] = [op[d] EXCEPT !.lost = @ \/ (free /\ op[d].to = r)]
      /\ ed' = ed \/ ed' = Overtaken
  BY <1>r, RenameCopyIs
<1>2. /\ tree \in [Roots -> TreeType] /\ op \in [Copies -> OpType]
      /\ Other(r) \in Roots /\ Other(r) # r
  BY TreeFacts DEF FilesTyped
<1>3. /\ op'[c].alone = op[c].alone /\ op'[c].copies = op[c].copies /\ op'[c].to = r
      /\ op'[c].pc = pc
  BY <1>r, <1>1, <1>2 DEF OpType
<1>4. \A d \in Copies \ {c} :
        /\ op'[d].pc = op[d].pc /\ op'[d].alone = op[d].alone
        /\ op'[d].copies = op[d].copies /\ op'[d].got = op[d].got
  <2> TAKE d \in Copies \ {c}
  <2> DEFINE l == free /\ op[d].to = r
  <2>1. op'[d] = [op[d] EXCEPT !.lost = @ \/ l] /\ op[d] \in OpType
    BY <1>1, <1>2
  <2> HIDE DEF l
  <2> QED  BY <2>1, LostType
<1>5. SoloStage(c) => SoloStage(c)'
  <2> SUFFICES ASSUME SoloStage(c) PROVE SoloStage(c)'
    OBVIOUS
  <2>1. free /\ op[c].got = tree[Other(r)] /\ tree[Other(r)]["md"] # Gone
    BY <1>1, <1>r DEF SoloStage
  <2>2. /\ op'[c].pc = "report"
        /\ tree'[r] = tree[Other(r)] /\ tree'[Other(r)] = tree[Other(r)]
    BY <1>1, <1>2, <1>3, <2>1
  <2> QED  BY <1>3, <2>1, <2>2 DEF SoloStage, OpEnded
<1>6. AtWork(c) /\ op'[c].pc \notin {"new", "list"}
  BY <1>1, <1>3 DEF AtWork, OpEnded
<1> QED  BY <1>1, <1>3, <1>4, <1>5, <1>6, RepairOwn

LEMMA RepairBegin ==
    ASSUME FilesTyped, RepairInv, NEW c \in Copies, NEW to \in Roots, NEW copies \in BOOLEAN,
           Begin(c, to, copies)
    PROVE  RepairInv'
<1>1. op[c].pc = "new" /\ UNCHANGED <<tree, ed>>
  BY DEF Begin, editorVars
<1>2. /\ \A d \in Copies \ {c} : op'[d] = Disturbed[d]
      /\ op'[c].to = to /\ op'[c].copies = copies /\ op'[c].got = op[c].got
      /\ op'[c].pc \in {"refused", "list", "replace"}
      /\ op'[c].pc = "list" => copies /\ tree[Other(to)]["md"] # Gone
      /\ op'[c].pc = "replace" => ~copies
      /\ op'[c].alone => /\ \A d \in Copies \ {c} : ~AtWork(d)
                         /\ \A e \in Editors : ~Saving(e)
  BY BeginTypes
<1>3. \A d \in Copies \ {c} : /\ ~op'[d].alone /\ op'[d].pc = op[d].pc /\ op'[d].got = op[d].got
                              /\ AtWork(d)' = AtWork(d)
  BY <1>2, DisturbedType DEF AtWork
<1>4. Solo'
  BY <1>1, <1>2, <1>3 DEF Solo, Saving
<1>5. Unstaged'
  BY <1>1, <1>2, <1>3 DEF RepairInv, Unstaged
<1>6. copies => SoloStage(c)'
  BY <1>1, <1>2 DEF SoloStage, OpEnded
<1>7. SoloCopies'
  BY <1>2, <1>3, <1>6 DEF SoloCopies
<1> QED  BY <1>4, <1>5, <1>7 DEF RepairInv

LEMMA RepairEdit ==
    ASSUME FilesTyped, RepairInv, NEW e \in Editors, EditStep(e)
    PROVE  RepairInv'
<1>0. ed \in [Editors -> EdType]
  BY DEF FilesTyped
<1>1. CASE Save(e)
  <2>1. op' = Disturbed /\ tree' = tree
    BY <1>1 DEF Save
  <2>2. \A c \in Copies : ~op'[c].alone /\ op'[c].pc = op[c].pc /\ op'[c].got = op[c].got
    BY <2>1, DisturbedType
  <2> QED  BY <2>2 DEF RepairInv, Solo, Unstaged, SoloCopies
<1>2. CASE ReplaceFile(e)
  <2>1. op' = op /\ Saving(e)
    BY <1>2 DEF ReplaceFile, Saving
  <2>2. \A c \in Copies : op[c].alone => ~AtWork(c)
    BY <2>1 DEF RepairInv, Solo
  <2>3. Solo' /\ Unstaged'
    BY <2>1, <2>2 DEF RepairInv, Solo, Unstaged, AtWork
  <2>4. SoloCopies'
    <3> SUFFICES ASSUME NEW c \in Copies, op'[c].alone, op'[c].copies  PROVE SoloStage(c)'
      BY DEF SoloCopies
    <3> QED  BY <2>1, <2>2, IdleStage DEF RepairInv, SoloCopies
  <2> QED  BY <2>3, <2>4 DEF RepairInv
<1>3. CASE ReadText(e) \/ ReadRevision(e) \/ CompareRevision(e) \/ SaveAnswered(e)
  <2>1. UNCHANGED <<op, tree>>
    BY <1>3 DEF ReadText, ReadRevision, CompareRevision, SaveAnswered
  <2>2. \A i \in Editors : Saving(i)' => Saving(i)
    <3>1. CASE ReadText(e)
      BY <1>0, <3>1 DEF ReadText, Saving, EdType
    <3>2. CASE ReadRevision(e)
      <4>1. /\ \A i \in Editors \ {e} : ed'[i] = ed[i]
            /\ ed'[e].pc \in {"closed", "open"}
        BY <1>0, <3>2 DEF ReadRevision, EdType
      <4> QED  BY <4>1 DEF Saving
    <3>3. CASE CompareRevision(e)
      <4>1. \A i \in Editors \ {e} : ed'[i] = ed[i]
        BY <1>0, <3>3 DEF CompareRevision
      <4> QED  BY <3>3, <4>1 DEF CompareRevision, Saving
    <3>4. CASE SaveAnswered(e)
      BY <1>0, <3>4 DEF SaveAnswered, Saving, EdType
    <3> QED  BY <1>3, <3>1, <3>2, <3>3, <3>4
  <2> QED  BY <2>1, <2>2 DEF RepairInv, Solo, Unstaged, SoloCopies, SoloStage, AtWork
<1> QED  BY <1>1, <1>2, <1>3 DEF EditStep

LEMMA RepairStep ==
    ASSUME FilesTyped, DirsAreWhole, RepairInv, [FilesNext]_filesVars
    PROVE  RepairInv'
<1>1. CASE FilesCrash
  <2>0. UNCHANGED tree /\ op \in [Copies -> OpType] /\ ed \in [Editors -> EdType]
    BY <1>1 DEF FilesCrash, FilesTyped
  <2>1. \A c \in Copies : IF AtWork(c) THEN op'[c].pc = "failed" /\ ~op'[c].alone
                                       ELSE op'[c] = op[c]
    BY <1>1, <2>0, CrashIs DEF OpType
  <2>2. \A c \in Copies : ~AtWork(c)'
    BY <2>1 DEF AtWork, OpEnded
  <2>3. Solo'
    BY <2>2 DEF Solo
  <2>4. Unstaged'
    BY <2>1 DEF RepairInv, Unstaged
  <2>5. SoloCopies'
    <3> SUFFICES ASSUME NEW c \in Copies, op'[c].alone, op'[c].copies  PROVE SoloStage(c)'
      BY DEF SoloCopies
    <3>1. ~AtWork(c) /\ op'[c] = op[c]
      BY <2>1
    <3> QED  BY <3>1, IdleStage DEF RepairInv, SoloCopies
  <2> QED  BY <2>3, <2>4, <2>5 DEF RepairInv
<1>2. CASE UNCHANGED filesVars
  BY <1>2 DEF filesVars, RepairInv, Solo, Unstaged, SoloCopies, SoloStage, AtWork, Saving
<1> QED
  BY <1>1, <1>2, FileAlternatives, RepairBegin, RepairCopy, RepairDelete, RepairDeleteDone,
     RepairRename, RepairEdit

\* For any copies, removals and editors, in any order and with crashes between
\* any two calls: a skill is whole or not there, and a copy that met nobody has
\* brought the two sides to agree.
THEOREM SkillsWhole == FilesSpec => []SkillsAreWhole
<1> DEFINE Inv == FilesTyped /\ DirsAreWhole /\ CopiesAreWhole /\ RepairInv
<1>1. FilesInit => Inv
  <2> SUFFICES ASSUME FilesInit PROVE DirsAreWhole /\ CopiesAreWhole /\ RepairInv
    BY FilesTypedInit
  <2>1. DirsAreWhole
    <3>1. \A r \in Roots : tree[r] \in {None, [f \in Files |-> 1], [f \in Files |-> 2]}
      BY DEF FilesInit
    <3>2. \A r \in Roots : Whole(tree[r]) \/ tree[r] = None
      BY <3>1 DEF Whole, Gone
    <3>3. \A r \in Roots : made[r] = Whole(tree[r])
      BY DEF FilesInit
    <3> QED  BY <3>2, <3>3 DEF DirsAreWhole
  <2>2. \A c \in Copies : op[c].pc = "new" /\ op[c].got = None /\ ~op[c].alone
    BY DEF FilesInit
  <2>3. CopiesAreWhole
    BY <2>2 DEF CopiesAreWhole
  <2>4. RepairInv
    BY <2>2 DEF RepairInv, Solo, Unstaged, SoloCopies, AtWork
  <2> QED  BY <2>1, <2>3, <2>4
<1>2. Inv /\ [FilesNext]_filesVars => Inv'
  BY FilesTypedStep, WholeStep, RepairStep
<1>3. Inv => SkillsAreWhole
  <2> SUFFICES ASSUME Inv PROVE SkillsAreWhole
    OBVIOUS
  <2>1. NeverHalf
    BY DEF DirsAreWhole, NeverHalf, Accounted, Deleting, FilesTyped
  <2>2. CopyRepairs
    BY DEF RepairInv, SoloCopies, SoloStage, CopyRepairs
  <2> QED  BY <2>1, <2>2 DEF SkillsAreWhole
<1> QED  BY <1>1, <1>2, <1>3, PTL DEF FilesSpec

-----------------------------------------------------------------------------
(* AnswerStream: any texts, and answers of any length.                      *)

ReaderType == [any : BOOLEAN, partial : BOOLEAN, block : Nat \X Nat, epoch : Nat,
               tail : Nat, fallback : Nat]

LEMMA FrameFields ==
    ASSUME NEW f \in Frames
    PROVE  /\ f.kind \in {"delta", "mark", "message", "result"}
           /\ f.index \in Nat
           /\ f.text[1] \in 0 .. 1 /\ f.text[2] \in Nat
<1>1. f.text \in Shapes \cup {NoText}
  BY DEF Frames, Frame
<1>2. f.text[1] \in 0 .. 1 /\ f.text[2] \in Nat
  BY <1>1, ShapesAssumption DEF NoText
<1>3. f.kind \in {"delta", "mark", "message", "result"}
  BY DEF Frames, Frame
<1>4. f.index \in Nat
  <2>1. \/ \E own \in BOOLEAN, i \in 0 .. 1, t \in Shapes :
               f = [kind |-> "delta", own |-> own, index |-> i, text |-> t]
        \/ f.index = 0
    BY DEF Frames, Frame
  <2> QED  BY <2>1
<1> QED  BY <1>2, <1>3, <1>4

LEMMA ConcatIs ==
    ASSUME NEW S, NEW a \in Seq(S), NEW b \in Seq(S)
    PROVE  /\ a \o b \in Seq(S) /\ Len(a \o b) = Len(a) + Len(b)
           /\ \A p \in 1 .. Len(a) : (a \o b)[p] = a[p]
           /\ \A p \in Len(a) + 1 .. Len(a) + Len(b) : (a \o b)[p] = b[p - Len(a)]
  OBVIOUS

\* A line is read no sooner than it has come, and so is a result kept of one.
AnswerTyped == AnswerTypeOK /\ read <= Len(frames) /\ reader.fallback <= read

LEMMA ReaderMarks ==
    ASSUME NEW r \in ReaderType, NEW n \in Nat
    PROVE  LET q == [r EXCEPT !.epoch = n] IN
           /\ q \in ReaderType /\ q.any = r.any /\ q.partial = r.partial /\ q.block = r.block
           /\ q.epoch = n /\ q.tail = r.tail /\ q.fallback = r.fallback
  BY DEF ReaderType

LEMMA ReaderKeeps ==
    ASSUME NEW r \in ReaderType, NEW n \in Nat
    PROVE  LET q == [r EXCEPT !.fallback = n] IN
           /\ q \in ReaderType /\ q.any = r.any /\ q.partial = r.partial /\ q.block = r.block
           /\ q.epoch = r.epoch /\ q.tail = r.tail /\ q.fallback = n
  BY DEF ReaderType

LEMMA ReaderOpens ==
    ASSUME NEW r \in ReaderType, NEW b \in Nat \X Nat
    PROVE  LET q == [r EXCEPT !.block = b, !.partial = TRUE] IN
           /\ q \in ReaderType /\ q.any = r.any /\ q.partial = TRUE /\ q.block = b
           /\ q.epoch = r.epoch /\ q.tail = r.tail /\ q.fallback = r.fallback
  BY DEF ReaderType

LEMMA SpelledIs ==
    ASSUME NEW i \in Nat, NEW t, t[1] \in 0 .. 1, t[2] \in Nat
    PROVE  /\ Spelled(i, t) \in Seq(Nat) /\ Len(Spelled(i, t)) = t[1] + t[2]
           /\ \A p \in 1 .. t[1] + t[2] :
                Spelled(i, t)[p] = IF t[1] = 1 /\ p = 1 THEN i ELSE 0
<1>1. /\ Newlines(t[2]) \in Seq(Nat) /\ Len(Newlines(t[2])) = t[2]
      /\ \A p \in 1 .. t[2] : Newlines(t[2])[p] = 0
  BY DEF Newlines
<1> HIDE DEF Newlines
<1>2. CASE t[1] = 1
  <2>1. Spelled(i, t) = <<i>> \o Newlines(t[2])
    BY <1>2 DEF Spelled
  <2>2. <<i>> \in Seq(Nat) /\ Len(<<i>>) = 1 /\ <<i>>[1] = i
    OBVIOUS
  <2>3. /\ <<i>> \o Newlines(t[2]) \in Seq(Nat) /\ Len(<<i>> \o Newlines(t[2])) = 1 + t[2]
        /\ \A p \in 1 .. 1 + t[2] :
             (<<i>> \o Newlines(t[2]))[p] = IF p = 1 THEN i ELSE Newlines(t[2])[p - 1]
    BY <1>1, <2>2
  <2> QED  BY <1>1, <1>2, <2>1, <2>3
<1>3. CASE t[1] = 0
  <2>1. Spelled(i, t) = << >> \o Newlines(t[2])
    BY <1>3 DEF Spelled
  <2>2. << >> \o Newlines(t[2]) = Newlines(t[2])
    BY <1>1
  <2> QED  BY <1>1, <1>3, <2>1, <2>2
<1> QED  BY <1>2, <1>3

GapLength == IF reader.tail < BlockSeparator THEN BlockSeparator - reader.tail ELSE 0

\* What is yielded: zeros, the word if there is one, and zeros.
LEMMA YieldsIs ==
    ASSUME AnswerTyped, NEW i \in 1 .. Len(frames), NEW opens \in BOOLEAN,
           NEW next \in ReaderType, Yields(i, opens, next)
    PROVE  LET g == IF reader.any /\ opens THEN GapLength ELSE 0
               t == frames[i].text IN
           /\ g \in Nat
           /\ said' \in Seq(Nat)
           /\ Len(said') = Len(said) + g + t[1] + t[2]
           /\ \A p \in 1 .. Len(said) : said'[p] = said[p]
           /\ \A p \in Len(said) + 1 .. Len(said') :
                said'[p] = IF t[1] = 1 /\ p = Len(said) + g + 1 THEN i ELSE 0
           /\ reader' \in ReaderType
           /\ reader'.any /\ reader'.tail = t[2] /\ reader'.partial = next.partial
           /\ reader'.block = next.block /\ reader'.epoch = next.epoch
           /\ reader'.fallback = next.fallback
<1> DEFINE g == IF reader.any /\ opens THEN GapLength ELSE 0
           t == frames[i].text
           z == IF reader.any /\ opens THEN Gap ELSE << >>
           s == Spelled(i, t)
<1>1. t[1] \in 0 .. 1 /\ t[2] \in Nat /\ said \in Seq(Nat) /\ reader \in ReaderType
  BY FrameFields DEF AnswerTyped, AnswerTypeOK, ReaderType
<1>2. GapLength \in Nat /\ Gap \in Seq(Nat) /\ Len(Gap) = GapLength
      /\ \A p \in 1 .. GapLength : Gap[p] = 0
  <2>1. reader.tail \in Nat
    BY <1>1 DEF ReaderType
  <2>2. \A n \in Nat : /\ Newlines(n) \in Seq(Nat) /\ Len(Newlines(n)) = n
                       /\ \A p \in 1 .. n : Newlines(n)[p] = 0
    BY DEF Newlines
  <2>3. CASE reader.tail < BlockSeparator
    <3>1. GapLength = 2 - reader.tail /\ Gap = Newlines(2 - reader.tail)
      BY <2>3 DEF GapLength, Gap, BlockSeparator
    <3>2. 2 - reader.tail \in Nat
      BY <2>1, <2>3 DEF BlockSeparator
    <3> QED  BY <2>2, <3>1, <3>2
  <2>4. CASE ~(reader.tail < BlockSeparator)
    BY <2>4 DEF GapLength, Gap
  <2> QED  BY <2>3, <2>4
<1>3. g \in Nat /\ z \in Seq(Nat) /\ Len(z) = g /\ \A p \in 1 .. g : z[p] = 0
  BY <1>2
<1>4. /\ s \in Seq(Nat) /\ Len(s) = t[1] + t[2]
      /\ \A p \in 1 .. t[1] + t[2] : s[p] = IF t[1] = 1 /\ p = 1 THEN i ELSE 0
  <2>1. i \in Nat
    BY DEF AnswerTyped, AnswerTypeOK
  <2> HIDE DEF t
  <2> QED  BY <1>1, <2>1, SpelledIs
<1>5. said' = said \o z \o s
  BY DEF Yields
<1>6. reader' = [next EXCEPT !.any = TRUE, !.tail = t[2]]
  BY DEF Yields
<1> HIDE DEF g, z, s, t
<1>7. /\ said' \in Seq(Nat) /\ Len(said') = Len(said) + g + t[1] + t[2]
      /\ \A p \in 1 .. Len(said) : said'[p] = said[p]
      /\ \A p \in Len(said) + 1 .. Len(said) + g : said'[p] = z[p - Len(said)]
      /\ \A p \in Len(said) + g + 1 .. Len(said') : said'[p] = s[p - Len(said) - g]
  <2> DEFINE pre == said \o z
  <2>1. /\ pre \in Seq(Nat) /\ Len(pre) = Len(said) + g
        /\ \A p \in 1 .. Len(said) : pre[p] = said[p]
        /\ \A p \in Len(said) + 1 .. Len(said) + g : pre[p] = z[p - Len(said)]
    BY <1>1, <1>3
  <2>2. said' = pre \o s
    BY <1>5
  <2> HIDE DEF pre
  <2>3. /\ said' \in Seq(Nat) /\ Len(said') = Len(pre) + Len(s)
        /\ \A p \in 1 .. Len(pre) : said'[p] = pre[p]
        /\ \A p \in Len(pre) + 1 .. Len(pre) + Len(s) : said'[p] = s[p - Len(pre)]
    BY <1>4, <2>1, <2>2, ConcatIs, ZenonT(60)
  <2>4. \A p \in Len(said) + 1 .. Len(said) + g : said'[p] = z[p - Len(said)]
    BY <1>1, <1>3, <2>1, <2>3
  <2>5. \A p \in Len(said) + g + 1 .. Len(said') : said'[p] = s[p - Len(said) - g]
    BY <1>1, <1>3, <2>1, <2>3
  <2> QED  BY <1>1, <1>3, <1>4, <2>1, <2>3, <2>4, <2>5
<1>8. \A p \in Len(said) + 1 .. Len(said') :
         said'[p] = IF t[1] = 1 /\ p = Len(said) + g + 1 THEN i ELSE 0
  <2> TAKE p \in Len(said) + 1 .. Len(said')
  <2>1. CASE p <= Len(said) + g
    BY <1>1, <1>3, <1>7, <2>1
  <2>2. CASE p > Len(said) + g
    <3>1. t[1] + t[2] \in Nat /\ Len(said) \in Nat /\ p \in Int
      BY <1>1, <1>3, <1>7
    <3>2. p - Len(said) - g \in 1 .. t[1] + t[2] /\ p \in Len(said) + g + 1 .. Len(said')
      BY <1>1, <1>3, <1>7, <2>2, <3>1, SMTT(60)
    <3>3. said'[p] = s[p - Len(said) - g]
      BY <1>7, <3>2
    <3> QED  BY <1>3, <1>4, <3>1, <3>2, <3>3
  <2> QED  BY <2>1, <2>2, <1>1, <1>3
<1>9. /\ reader' \in ReaderType
      /\ reader'.any /\ reader'.tail = t[2] /\ reader'.partial = next.partial
      /\ reader'.block = next.block /\ reader'.epoch = next.epoch
      /\ reader'.fallback = next.fallback
  BY <1>1, <1>6 DEF ReaderType, t
<1> QED  BY <1>3, <1>7, <1>8, <1>9 DEF g, t

LEMMA AnswerTypedStep ==
    ASSUME AnswerTyped, [AnswerNext]_answerVars
    PROVE  AnswerTyped'
<1> USE DEF AnswerTyped, AnswerTypeOK
<1>0. reader \in ReaderType /\ MaxFrames \in Nat
  BY MaxFramesAssumption DEF ReaderType
<1>1. ASSUME NEW f \in Frames, ChunkArrives(f) PROVE AnswerTyped'
  <2>1. Append(frames, f) \in Seq(Frames) /\ Len(Append(frames, f)) = Len(frames) + 1
    OBVIOUS
  <2> QED  BY <1>1, <2>1 DEF ChunkArrives
<1>2. CASE RestArrives
  BY <1>2 DEF RestArrives
<1>3. CASE ReadLine
  <2> DEFINE i == read + 1
  <2>1. i \in 1 .. Len(frames) /\ read' = i /\ UNCHANGED <<frames, cut, phase>>
    BY <1>3 DEF ReadLine
  <2>2. frames[i] \in Frames
    BY <2>1
  <2>3. CASE UNCHANGED <<reader, said>>
    BY <2>1, <2>3
  <2>4. CASE ReadDelta(i)
    <3> DEFINE block == <<reader.epoch, frames[i].index>>
               next == [reader EXCEPT !.block = block, !.partial = TRUE]
    <3>0. block \in Nat \X Nat
      BY <1>0, <2>2, FrameFields DEF ReaderType
    <3>1. next \in ReaderType /\ (block # reader.block) \in BOOLEAN /\ next.fallback = reader.fallback
      BY <1>0, <3>0, ReaderOpens
    <3>2. Yields(i, block # reader.block, next)
      BY <2>4 DEF ReadDelta
    <3> HIDE DEF next, block, i
    <3>3. said' \in Seq(Nat) /\ reader' \in ReaderType /\ reader'.fallback = reader.fallback
      BY <2>1, <3>1, <3>2, YieldsIs
    <3> QED  BY <2>1, <3>3 DEF ReaderType, i
  <2>5. CASE ReadMark(i)
    <3>1. reader' = [reader EXCEPT !.epoch = reader.epoch + 1] /\ said' = said
      BY <2>5 DEF ReadMark
    <3>2. reader' \in ReaderType /\ reader'.fallback = reader.fallback
      <4>1. reader.epoch + 1 \in Nat
        BY <1>0 DEF ReaderType
      <4> QED  BY <1>0, <3>1, <4>1, ReaderMarks
    <3> QED  BY <2>1, <3>1, <3>2 DEF ReaderType
  <2>6. CASE Yields(i, TRUE, reader)
    <3> HIDE DEF i
    <3>1. said' \in Seq(Nat) /\ reader' \in ReaderType /\ reader'.fallback = reader.fallback
      BY <1>0, <2>1, <2>6, YieldsIs
    <3> QED  BY <2>1, <3>1 DEF ReaderType, i
  <2>7. CASE ReadResult(i)
    <3>1. reader' = [reader EXCEPT !.fallback = IF frames[i].text = NoText THEN 0 ELSE i] /\ said' = said
      BY <2>7 DEF ReadResult
    <3>2. reader' \in ReaderType /\ reader'.fallback <= i
      <4> DEFINE n == IF frames[i].text = NoText THEN 0 ELSE i
      <4>1. n \in Nat /\ n <= i
        BY <2>1
      <4> HIDE DEF n
      <4> QED  BY <1>0, <3>1, <4>1, ReaderKeeps DEF n
    <3> QED  BY <2>1, <3>1, <3>2 DEF ReaderType
  <2>8. \/ UNCHANGED <<reader, said>> \/ ReadDelta(i) \/ ReadMark(i)
        \/ Yields(i, TRUE, reader) \/ ReadResult(i)
    BY <1>3 DEF ReadLine, ReadMessage
  <2> QED  BY <2>3, <2>4, <2>5, <2>6, <2>7, <2>8
<1>4. CASE ResponseEnds
  <2>1. CASE ~(~reader.any /\ reader.fallback # 0)
    BY <1>4, <2>1 DEF ResponseEnds
  <2>2. CASE ~reader.any /\ reader.fallback # 0
    <3> DEFINE i == reader.fallback
    <3>1. i \in 1 .. Len(frames)
      BY <1>0, <2>2 DEF ReaderType
    <3>2. frames[i] \in Frames
      BY <3>1
    <3> HIDE DEF i
    <3>3. Spelled(i, frames[i].text) \in Seq(Nat)
      <4>1. i \in Nat
        BY <3>1
      <4>2. frames[i].text[1] \in 0 .. 1 /\ frames[i].text[2] \in Nat
        BY <3>2, FrameFields
      <4> QED  BY <4>1, <4>2, SpelledIs
    <3> QED  BY <1>4, <2>2, <3>3 DEF ResponseEnds, i
  <2> QED  BY <2>1, <2>2
<1>5. CASE ResponseBreaks
  BY <1>5 DEF ResponseBreaks
<1>6. CASE Tell
  <2>1. Complaint \in Nat /\ <<Complaint>> \in Seq(Nat)
    BY <1>0 DEF Complaint
  <2> QED  BY <1>6, <2>1 DEF Tell
<1>7. CASE UNCHANGED answerVars
  BY <1>7 DEF answerVars
<1> QED  BY <1>1, <1>2, <1>3, <1>4, <1>5, <1>6, <1>7 DEF AnswerNext

LEMMA AnswerTypedInit == AnswerInit => AnswerTyped
<1> SUFFICES ASSUME AnswerInit PROVE AnswerTyped
  OBVIOUS
<1>1. frames = << >> /\ said = << >> /\ frames \in Seq(Frames) /\ said \in Seq(Nat) /\ read = 0
  BY DEF AnswerInit
<1>2. reader \in ReaderType /\ reader.fallback = 0
  BY DEF AnswerInit, ReaderType, NoBlock
<1>3. cut \in BOOLEAN /\ phase = "streaming"
  BY DEF AnswerInit
<1> QED  BY <1>1, <1>2, <1>3 DEF AnswerTyped, AnswerTypeOK, ReaderType

\* The frames, the reader's variables and what is said stay in their types.
THEOREM AnswerTypeCorrect == AnswerSpec => []AnswerTypeOK
<1>1. AnswerTyped => AnswerTypeOK
  BY DEF AnswerTyped
<1> QED  BY <1>1, AnswerTypedInit, AnswerTypedStep, PTL DEF AnswerSpec

-----------------------------------------------------------------------------
(* What the reader remembers of the frames, and where each word of them is.  *)

DeltaAt(k) == frames[k].own /\ frames[k].kind = "delta"
MarkAt(k)  == frames[k].own /\ frames[k].kind = "mark"
LastVoiced(i) == i \in Voiced /\ \A k \in Voiced : k <= i

\* What belongs between two words that follow each other.
Apart(i, j) == IF SameBlock(i, j) \/ frames[i].text[2] > BlockSeparator
               THEN frames[i].text[2] ELSE BlockSeparator

\* The block of the last delta is still open while no mark has come since.
ReaderKnows ==
  /\ reader.any <=> Voiced # {}
  /\ reader.partial <=> \E k \in 1 .. read : DeltaAt(k)
  /\ reader.epoch >= 1
  /\ ~reader.partial => reader.block = NoBlock
  /\ \A i \in Voiced : LastVoiced(i) =>
       /\ reader.tail = frames[i].text[2]
       /\ frames[i].kind = "delta" =>
            /\ reader.block[2] = frames[i].index /\ reader.block[1] <= reader.epoch
            /\ (reader.block[1] = reader.epoch) <=> ~\E k \in i .. read : MarkAt(k)

SaidAt(p, w) == p \in 1 .. Len(said) /\ said[p] = w

SaidInOrder ==
  /\ \A p, w \in Nat : SaidAt(p, w) /\ w # 0 => Worded(w)
  /\ \A w \in Nat : Worded(w) => \E p \in Nat : SaidAt(p, w)
  /\ \A p, q, v, w \in Nat :
       SaidAt(p, v) /\ SaidAt(q, w) /\ v # 0 /\ w # 0 /\ p < q => v < w
  /\ \A p, w \in Nat : SaidAt(p, w) /\ LastVoiced(w) => Len(said) = p + frames[w].text[2]
  /\ \A p, q, v, w \in Nat :
       SaidAt(p, v) /\ SaidAt(q, w) /\ Consecutive(v, w) => q = p + 1 + Apart(v, w)

AnswerInv == phase = "streaming" => ReaderKnows /\ SaidInOrder

NewVoice(i) == /\ frames[i].own
               /\ \/ frames[i].kind = "delta"
                  \/ frames[i].kind = "message" /\ ~\E k \in 1 .. i - 1 : DeltaAt(k)

\* A frame that is read is the last one voiced, or changes nothing there.
LEMMA VoicedGrows ==
    ASSUME AnswerTyped, read < Len(frames), read' = read + 1, frames' = frames
    PROVE  /\ Voiced' = IF NewVoice(read + 1) THEN Voiced \cup {read + 1} ELSE Voiced
           /\ Voiced \subseteq 1 .. read
<1> USE DEF AnswerTyped, AnswerTypeOK
<1>1. \A i : NewVoice(i) <=> /\ frames[i].own
                           /\ \/ frames[i].kind = "delta"
                              \/ frames[i].kind = "message" /\
                                   ~\E k \in 1 .. i - 1 : frames[k].own /\ frames[k].kind = "delta"
  BY DEF NewVoice, DeltaAt
<1>2. Voiced = {i \in 1 .. read : NewVoice(i)}
  BY <1>1 DEF Voiced
<1>3. Voiced' = {i \in 1 .. read + 1 : NewVoice(i)}
  BY <1>1 DEF Voiced
<1>4. 1 .. read + 1 = (1 .. read) \cup {read + 1}
  OBVIOUS
<1> QED  BY <1>2, <1>3, <1>4

LEMMA SilentSaid ==
    ASSUME SaidInOrder, UNCHANGED <<said, frames>>, Voiced' = Voiced
    PROVE  SaidInOrder'
<1>1. \A i : Worded(i)' = Worded(i) /\ LastVoiced(i)' = LastVoiced(i)
  BY DEF Worded, LastVoiced
<1>2. \A i, j : Consecutive(i, j)' = Consecutive(i, j) /\ Apart(i, j)' = Apart(i, j)
  BY <1>1 DEF Consecutive, Apart, SameBlock
<1>3. \A p, w : SaidAt(p, w)' = SaidAt(p, w)
  BY DEF SaidAt
<1> QED  BY <1>1, <1>2, <1>3 DEF SaidInOrder

\* One more piece, after the break that belongs between it and the last one.
LEMMA VoicedSaid ==
    ASSUME AnswerTyped, SaidInOrder, NEW i \in 1 .. Len(frames), i = read + 1, NewVoice(i),
           read' = i, frames' = frames, NEW g \in Nat,
           said' \in Seq(Nat),
           Len(said') = Len(said) + g + frames[i].text[1] + frames[i].text[2],
           \A p \in 1 .. Len(said) : said'[p] = said[p],
           \A p \in Len(said) + 1 .. Len(said') :
             said'[p] = IF frames[i].text[1] = 1 /\ p = Len(said) + g + 1 THEN i ELSE 0,
           \A j \in Voiced : LastVoiced(j) => frames[j].text[2] + g = Apart(j, i)
    PROVE  SaidInOrder'
<1> DEFINE n == Len(said)
           t == frames[i].text
<1>1. /\ t[1] \in 0 .. 1 /\ t[2] \in Nat /\ n \in Nat /\ read \in Nat /\ said \in Seq(Nat)
      /\ Len(said') \in Nat /\ n <= Len(said')
  <2>1. frames[i] \in Frames /\ read \in Nat /\ said \in Seq(Nat)
    BY DEF AnswerTyped, AnswerTypeOK
  <2> QED  BY <2>1, FrameFields
<1>2. Voiced' = Voiced \cup {i} /\ Voiced \subseteq 1 .. read /\ i \notin Voiced
  BY <1>1, VoicedGrows DEF AnswerTyped, AnswerTypeOK
<1>3. \A w : Worded(w)' <=> Worded(w) \/ (w = i /\ t[1] = 1)
  BY <1>2 DEF Worded
<1>4. \A w : LastVoiced(w)' <=> w = i
  BY <1>1, <1>2 DEF LastVoiced
<1>5. \A v, w : Apart(v, w)' = Apart(v, w)
  BY DEF Apart, SameBlock
<1>6. \A v, w : Consecutive(v, w)' =>
         \/ Consecutive(v, w) /\ v \in 1 .. read /\ w \in 1 .. read
         \/ LastVoiced(v) /\ Worded(v) /\ w = i /\ t[1] = 1
  <2> SUFFICES ASSUME NEW v, NEW w, Consecutive(v, w)'
               PROVE  \/ Consecutive(v, w) /\ v \in 1 .. read /\ w \in 1 .. read
                      \/ LastVoiced(v) /\ Worded(v) /\ w = i /\ t[1] = 1
    OBVIOUS
  <2>1. v < w /\ Worded(v)' /\ Worded(w)' /\ ~\E k \in v + 1 .. w - 1 : k \in Voiced'
    BY DEF Consecutive
  <2>2. v \in 1 .. i /\ w \in 1 .. i
    BY <1>1, <1>2, <2>1 DEF Worded
  <2>3. v # i /\ v \in 1 .. read /\ Worded(v)
    BY <1>1, <1>3, <2>1, <2>2
  <2>4. CASE w = i
    <3>1. ASSUME NEW k \in Voiced PROVE k <= v
      <4>1. k \in 1 .. read /\ v \in 1 .. read
        BY <1>2, <2>3
      <4>2. k \notin v + 1 .. w - 1
        BY <1>2, <2>1
      <4> QED  BY <1>1, <2>4, <4>1, <4>2
    <3> QED  BY <1>2, <1>3, <2>1, <2>3, <2>4, <3>1 DEF LastVoiced, Worded
  <2>5. CASE w # i
    BY <1>1, <1>2, <1>3, <2>1, <2>2, <2>3, <2>5 DEF Consecutive
  <2> QED  BY <2>4, <2>5
<1>7. \A p, w \in Nat : SaidAt(p, w) /\ w # 0 => w \in 1 .. read /\ w # i /\ p \in 1 .. n
  BY <1>1, <1>2, SMTT(60) DEF SaidInOrder, Worded, SaidAt
<1> HIDE DEF n, t
<1>8. \A p, w \in Nat : w # 0 =>
        (SaidAt(p, w)' <=> SaidAt(p, w) \/ (t[1] = 1 /\ w = i /\ p = n + g + 1))
  <2> SUFFICES ASSUME NEW p \in Nat, NEW w \in Nat, w # 0
               PROVE  SaidAt(p, w)' <=> SaidAt(p, w) \/ (t[1] = 1 /\ w = i /\ p = n + g + 1)
    OBVIOUS
  <2>1. SaidAt(p, w)' <=> p \in 1 .. Len(said') /\ said'[p] = w
    BY DEF SaidAt
  <2>2. SaidAt(p, w) <=> p \in 1 .. n /\ said[p] = w
    BY DEF SaidAt, n
  <2>3. CASE p \in 1 .. n
    BY <1>1, <2>1, <2>2, <2>3 DEF n
  <2>4. CASE p \in n + 1 .. Len(said')
    <3>1. said'[p] = IF t[1] = 1 /\ p = n + g + 1 THEN i ELSE 0
      BY <2>4 DEF n, t
    <3> QED  BY <1>1, <2>1, <2>2, <2>4, <3>1
  <2>5. CASE p \notin 1 .. n /\ p \notin n + 1 .. Len(said')
    <3>1. p # n + g + 1 \/ t[1] # 1
      BY <1>1, <2>5, SMTT(60) DEF n, t
    <3> QED  BY <1>1, <2>1, <2>2, <2>5, <3>1
  <2> QED  BY <2>3, <2>4, <2>5
<1>9. \A p, w \in Nat : SaidAt(p, w)' /\ w # 0 => Worded(w)'
  BY <1>3, <1>8 DEF SaidInOrder
<1>10. \A p, q, v, w \in Nat :
         SaidAt(p, v)' /\ SaidAt(q, w)' /\ v # 0 /\ w # 0 /\ p < q => v < w
  <2> SUFFICES ASSUME NEW p \in Nat, NEW q \in Nat, NEW v \in Nat, NEW w \in Nat,
                      SaidAt(p, v)', SaidAt(q, w)', v # 0, w # 0, p < q
               PROVE  v < w
    OBVIOUS
  <2>1. SaidAt(p, v) \/ (v = i /\ p = n + g + 1)
    BY <1>8
  <2>2. SaidAt(q, w) \/ (w = i /\ q = n + g + 1)
    BY <1>8
  <2>3. SaidAt(p, v)
    BY <1>1, <1>7, <2>1, <2>2
  <2>4. CASE SaidAt(q, w)
    BY <2>3, <2>4 DEF SaidInOrder
  <2>5. CASE w = i
    BY <1>1, <1>7, <2>3, <2>5
  <2> QED  BY <2>2, <2>4, <2>5
<1>11. \A w \in Nat : Worded(w)' => \E p \in Nat : SaidAt(p, w)'
  <2> SUFFICES ASSUME NEW w \in Nat, Worded(w)' PROVE \E p \in Nat : SaidAt(p, w)'
    OBVIOUS
  <2>1. w # 0 /\ n + g + 1 \in Nat
    BY <1>1, <1>2, <1>3 DEF Worded
  <2>2. CASE Worded(w)
    <3>1. PICK p \in Nat : SaidAt(p, w)
      BY <2>2 DEF SaidInOrder
    <3> QED  BY <1>8, <2>1, <3>1
  <2>3. CASE w = i /\ t[1] = 1
    BY <1>8, <2>1, <2>3
  <2> QED  BY <1>3, <2>2, <2>3
<1>12. \A p, w \in Nat : SaidAt(p, w)' /\ LastVoiced(w)' => Len(said') = p + frames'[w].text[2]
  <2> SUFFICES ASSUME NEW p \in Nat, SaidAt(p, i)' PROVE Len(said') = p + t[2]
    BY <1>4 DEF t
  <2>1. i \in Nat /\ i # 0
    BY <1>1
  <2>2. ~SaidAt(p, i)
    BY <1>7, <2>1
  <2>3. p = n + g + 1 /\ t[1] = 1
    BY <1>8, <2>1, <2>2
  <2> QED  BY <1>1, <2>3 DEF n, t
<1>13. \A p, q, v, w \in Nat :
         SaidAt(p, v)' /\ SaidAt(q, w)' /\ Consecutive(v, w)' => q = p + 1 + Apart(v, w)'
  <2> SUFFICES ASSUME NEW p \in Nat, NEW q \in Nat, NEW v \in Nat, NEW w \in Nat,
                      SaidAt(p, v)', SaidAt(q, w)', Consecutive(v, w)'
               PROVE  q = p + 1 + Apart(v, w)
    BY <1>5, SMTT(60)
  <2>1. \/ Consecutive(v, w) /\ v \in 1 .. read /\ w \in 1 .. read
        \/ LastVoiced(v) /\ Worded(v) /\ w = i /\ t[1] = 1
    BY <1>6
  <2>2. v \in 1 .. read /\ v # i /\ w # 0
    BY <1>1, <1>2, <2>1 DEF Worded
  <2>3. SaidAt(p, v) /\ p \in 1 .. n
    BY <1>7, <1>8, <2>2
  <2>4. CASE Consecutive(v, w) /\ w \in 1 .. read
    <3>1. SaidAt(q, w)
      BY <1>1, <1>8, <2>2, <2>4
    <3> QED  BY <2>3, <2>4, <3>1 DEF SaidInOrder
  <2>5. CASE LastVoiced(v) /\ w = i
    <3>1. q = n + g + 1
      BY <1>7, <1>8, <2>2, <2>5
    <3>2. n = p + frames[v].text[2]
      BY <2>3, <2>5 DEF SaidInOrder, n
    <3>3. frames[v].text[2] + g = Apart(v, i)
      BY <2>5 DEF LastVoiced
    <3>4. frames[v].text[2] \in Nat
      <4>1. frames[v] \in Frames
        BY <2>2 DEF AnswerTyped, AnswerTypeOK
      <4> QED  BY <4>1, FrameFields
    <3>5. q = p + 1 + (frames[v].text[2] + g)
      <4>1. \A x, m \in Nat : m = p + x /\ q = m + g + 1 => q = p + 1 + (x + g)
        BY SMTT(60)
      <4>2. n \in Nat
        BY <1>1
      <4> QED  BY <3>1, <3>2, <3>4, <4>1, <4>2
    <3> QED  BY <2>5, <3>3, <3>5
  <2> QED  BY <2>1, <2>4, <2>5
<1> QED  BY <1>9, <1>10, <1>11, <1>12, <1>13 DEF SaidInOrder

\* A chunk that comes is not read yet.
LEMMA KnownChunk ==
    ASSUME AnswerTyped, ReaderKnows, SaidInOrder, NEW f \in Frames, frames' = Append(frames, f),
           UNCHANGED <<read, reader, said>>
    PROVE  ReaderKnows' /\ SaidInOrder'
<1>1. /\ read \in Nat /\ read <= Len(frames) /\ Len(frames') = Len(frames) + 1
      /\ \A k \in 1 .. read : frames'[k] = frames[k]
  BY DEF AnswerTyped, AnswerTypeOK
<1>2. \A k \in 1 .. read : DeltaAt(k)' = DeltaAt(k) /\ MarkAt(k)' = MarkAt(k)
  BY <1>1 DEF DeltaAt, MarkAt
<1>3. Voiced' = Voiced /\ Voiced \subseteq 1 .. read
  <2>1. \A k \in 1 .. read : 1 .. k - 1 \subseteq 1 .. read
    BY <1>1
  <2>2. \A k \in 1 .. read : k \in Voiced' <=> k \in Voiced
    BY <1>1, <2>1 DEF Voiced
  <2>3. Voiced \subseteq 1 .. read /\ Voiced' \subseteq 1 .. read
    BY DEF Voiced
  <2> QED  BY <2>2, <2>3
<1>4. \A w : Worded(w)' = Worded(w) /\ LastVoiced(w)' = LastVoiced(w)
  BY <1>1, <1>3 DEF Worded, LastVoiced
<1>5. \A v, w : Consecutive(v, w)' = Consecutive(v, w)
  BY <1>3, <1>4 DEF Consecutive
<1>6. \A v, w \in 1 .. read : Apart(v, w)' = Apart(v, w)
  BY <1>1 DEF Apart, SameBlock
<1>7. \A p, w : SaidAt(p, w)' = SaidAt(p, w)
  BY DEF SaidAt
<1>8. ReaderKnows'
  <2>1. \A i \in Voiced : \A k \in i .. read : k \in 1 .. read
    BY <1>1, <1>3
  <2> QED  BY <1>1, <1>2, <1>3, <1>4, <2>1 DEF ReaderKnows
<1>9. \A w \in Nat : LastVoiced(w) => frames'[w].text = frames[w].text
  BY <1>1, <1>3 DEF LastVoiced
<1>10. \A v, w : Consecutive(v, w) => v \in 1 .. read /\ w \in 1 .. read
  BY <1>3 DEF Consecutive, Worded
<1>11. \A p, w \in Nat : SaidAt(p, w)' /\ LastVoiced(w)' => Len(said') = p + frames'[w].text[2]
  BY <1>4, <1>7, <1>9 DEF SaidInOrder
<1>12. \A p, q, v, w \in Nat :
         SaidAt(p, v)' /\ SaidAt(q, w)' /\ Consecutive(v, w)' => q = p + 1 + Apart(v, w)'
  BY <1>5, <1>6, <1>7, <1>10 DEF SaidInOrder
<1>13. /\ \A p, w \in Nat : SaidAt(p, w)' /\ w # 0 => Worded(w)'
       /\ \A w \in Nat : Worded(w)' => \E p \in Nat : SaidAt(p, w)'
       /\ \A p, q, v, w \in Nat :
            SaidAt(p, v)' /\ SaidAt(q, w)' /\ v # 0 /\ w # 0 /\ p < q => v < w
  BY <1>4, <1>7 DEF SaidInOrder
<1> QED  BY <1>8, <1>11, <1>12, <1>13 DEF SaidInOrder

\* A frame that is passed over, or only marks the stream.
LEMMA KnownSilent ==
    ASSUME AnswerTyped, AnswerTyped', ReaderKnows, SaidInOrder, NEW i \in 1 .. Len(frames),
           i = read + 1, read' = i, UNCHANGED <<frames, said>>, ~NewVoice(i),
           reader'.any = reader.any, reader'.partial = reader.partial,
           reader'.block = reader.block, reader'.tail = reader.tail,
           reader'.epoch = IF MarkAt(i) THEN reader.epoch + 1 ELSE reader.epoch
    PROVE  ReaderKnows' /\ SaidInOrder'
<1>1. read \in Nat /\ reader \in ReaderType
  BY DEF AnswerTyped, AnswerTypeOK, ReaderType
<1>2. Voiced' = Voiced /\ Voiced \subseteq 1 .. read
  BY <1>1, VoicedGrows
<1>3. SaidInOrder'
  BY <1>2, SilentSaid
<1>4. \A k : DeltaAt(k)' = DeltaAt(k) /\ MarkAt(k)' = MarkAt(k) /\ LastVoiced(k)' = LastVoiced(k)
  BY <1>2 DEF DeltaAt, MarkAt, LastVoiced
<1>5. ~DeltaAt(i)
  BY DEF NewVoice, DeltaAt
<1>6. (\E k \in 1 .. read' : DeltaAt(k)') <=> \E k \in 1 .. read : DeltaAt(k)
  BY <1>1, <1>4, <1>5
<1>7. reader.epoch \in Nat /\ reader.block[1] \in Nat
  BY <1>1 DEF ReaderType
<1>8. \A v \in Voiced : (\E k \in v .. read' : MarkAt(k)') <=> MarkAt(i) \/ \E k \in v .. read : MarkAt(k)
  BY <1>1, <1>2, <1>4
<1>9. \A v \in Voiced' : LastVoiced(v)' =>
       /\ reader'.tail = frames'[v].text[2]
       /\ frames'[v].kind = "delta" =>
            /\ reader'.block[2] = frames'[v].index /\ reader'.block[1] <= reader'.epoch
            /\ (reader'.block[1] = reader'.epoch) <=> ~\E k \in v .. read' : MarkAt(k)'
  <2> SUFFICES ASSUME NEW v \in Voiced, LastVoiced(v)
               PROVE  /\ reader.tail = frames[v].text[2]
                      /\ frames[v].kind = "delta" =>
                           /\ reader.block[2] = frames[v].index /\ reader.block[1] <= reader'.epoch
                           /\ (reader.block[1] = reader'.epoch) <=> ~\E k \in v .. read' : MarkAt(k)'
    BY <1>2, <1>4
  <2>1. CASE MarkAt(i)
    BY <1>7, <1>8, <2>1 DEF ReaderKnows
  <2>2. CASE ~MarkAt(i)
    BY <1>7, <1>8, <2>2 DEF ReaderKnows
  <2> QED  BY <2>1, <2>2
<1>10. reader'.epoch >= 1
  BY <1>7 DEF ReaderKnows
<1> QED  BY <1>2, <1>3, <1>6, <1>9, <1>10 DEF ReaderKnows

\* A piece of the answer is voiced: as a delta of a block, or as a message, for
\* which no delta may have come. `opens' says that it begins a block.
LEMMA KnownVoice ==
    ASSUME AnswerTyped, AnswerTyped', ReaderKnows, SaidInOrder, NEW i \in 1 .. Len(frames),
           i = read + 1, read' = i, frames' = frames, NewVoice(i),
           NEW opens \in BOOLEAN, NEW next \in ReaderType, Yields(i, opens, next),
           next.epoch = reader.epoch,
           \/ /\ frames[i].kind = "delta" /\ next.partial
              /\ next.block = <<reader.epoch, frames[i].index>>
              /\ opens = (next.block # reader.block)
           \/ /\ frames[i].kind = "message" /\ ~reader.partial /\ opens
              /\ next.block = reader.block /\ ~next.partial
    PROVE  ReaderKnows' /\ SaidInOrder'
<1> DEFINE g == IF reader.any /\ opens THEN GapLength ELSE 0
           t == frames[i].text
<1>1. read \in Nat /\ reader \in ReaderType /\ reader.epoch \in Nat /\ reader.tail \in Nat
      /\ reader.block \in Nat \X Nat
  BY DEF AnswerTyped, AnswerTypeOK, ReaderType
<1>2. /\ g \in Nat
      /\ said' \in Seq(Nat)
      /\ Len(said') = Len(said) + g + t[1] + t[2]
      /\ \A p \in 1 .. Len(said) : said'[p] = said[p]
      /\ \A p \in Len(said) + 1 .. Len(said') :
           said'[p] = IF t[1] = 1 /\ p = Len(said) + g + 1 THEN i ELSE 0
      /\ reader' \in ReaderType
      /\ reader'.any /\ reader'.tail = t[2] /\ reader'.partial = next.partial
      /\ reader'.block = next.block /\ reader'.epoch = next.epoch
  BY YieldsIs
<1>3. Voiced' = Voiced \cup {i} /\ Voiced \subseteq 1 .. read /\ i \notin Voiced
  BY <1>1, VoicedGrows
<1>4. frames[i].own
  BY DEF NewVoice
<1>5. \A j \in Voiced : LastVoiced(j) => t[2] \in Nat /\ frames[j].text[2] + g = Apart(j, i)
  <2> SUFFICES ASSUME NEW j \in Voiced, LastVoiced(j)
               PROVE  t[2] \in Nat /\ frames[j].text[2] + g = Apart(j, i)
    OBVIOUS
  <2>1. reader.any /\ reader.tail = frames[j].text[2]
    BY DEF ReaderKnows
  <2>2. ~opens <=> SameBlock(j, i)
    <3>1. CASE frames[i].kind = "message"
      BY <3>1 DEF SameBlock
    <3>2. CASE frames[i].kind = "delta" /\ frames[j].kind # "delta"
      <4>1. ~\E k \in 1 .. read : DeltaAt(k)
        <5>1. ~\E k \in Voiced : DeltaAt(k)
          <6>1. ASSUME NEW k \in Voiced, DeltaAt(k) PROVE FALSE
            <7>1. k \in 1 .. j - 1
              BY <1>1, <1>3, <3>2, <6>1 DEF LastVoiced, DeltaAt
            <7> QED  BY <3>2, <6>1, <7>1 DEF Voiced, DeltaAt
          <6> QED  BY <6>1
        <5>2. \A k \in 1 .. read : DeltaAt(k) => k \in Voiced
          BY DEF Voiced, DeltaAt
        <5> QED  BY <5>1, <5>2
      <4>2. reader.block = NoBlock /\ reader.epoch >= 1
        BY <4>1 DEF ReaderKnows
      <4>3. opens
        BY <1>1, <3>2, <4>2 DEF NoBlock
      <4> QED  BY <3>2, <4>3 DEF SameBlock
    <3>3. CASE frames[i].kind = "delta" /\ frames[j].kind = "delta"
      <4>1. /\ reader.block[2] = frames[j].index
            /\ (reader.block[1] = reader.epoch) <=> ~\E k \in j .. read : MarkAt(k)
        BY <3>3 DEF ReaderKnows
      <4>2. ~MarkAt(i)
        BY <3>3 DEF MarkAt
      <4>3. (\E k \in j .. i : MarkAt(k)) <=> \E k \in j .. read : MarkAt(k)
        BY <1>1, <1>3, <4>2
      <4>4. SameBlock(j, i) <=> frames[j].index = frames[i].index /\ ~\E k \in j .. i : MarkAt(k)
        BY <3>3 DEF SameBlock, MarkAt
      <4>5. ~opens <=> reader.block[1] = reader.epoch /\ reader.block[2] = frames[i].index
        <5>1. opens <=> <<reader.epoch, frames[i].index>> # reader.block
          BY <3>3
        <5>2. reader.block = <<reader.block[1], reader.block[2]>>
          BY <1>1
        <5> QED  BY <5>1, <5>2
      <4> QED  BY <4>1, <4>3, <4>4, <4>5
    <3> QED  BY <3>1, <3>2, <3>3
  <2>3. g = IF ~SameBlock(j, i) THEN GapLength ELSE 0
    BY <2>1, <2>2
  <2>4. t[2] \in Nat
    <3>1. frames[i] \in Frames
      BY DEF AnswerTyped, AnswerTypeOK
    <3> QED  BY <3>1, FrameFields
  <2> QED  BY <1>1, <2>1, <2>3, <2>4 DEF Apart, GapLength, BlockSeparator
<1>6. SaidInOrder'
  <2> HIDE DEF g
  <2> QED  BY <1>2, <1>5, VoicedSaid
<1>7. ReaderKnows'
  <2>1. \A k : LastVoiced(k)' <=> k = i
    <3>1. i \in Voiced' /\ \A k \in Voiced' : k <= i /\ (k = i \/ ~(i <= k))
      <4>1. i <= i /\ \A k \in 1 .. read : k <= i /\ ~(i <= k)
        BY <1>1
      <4>2. \A k \in Voiced' : k = i \/ k \in 1 .. read
        BY <1>3
      <4> QED  BY <1>3, <4>1, <4>2
    <3> QED  BY <3>1 DEF LastVoiced
  <2>2. reader'.partial <=> \E k \in 1 .. read' : DeltaAt(k)'
    <3>1. CASE frames[i].kind = "delta"
      <4>1. DeltaAt(i)' /\ i \in 1 .. read'
        BY <1>1, <1>4, <3>1 DEF DeltaAt
      <4> QED  BY <1>2, <3>1, <4>1
    <3>2. CASE frames[i].kind = "message"
      <4>1. ~\E k \in 1 .. read : DeltaAt(k)
        BY <3>2 DEF ReaderKnows
      <4>2. \A k \in 1 .. read' : DeltaAt(k)' => k \in 1 .. read /\ DeltaAt(k)
        BY <1>1, <3>2 DEF DeltaAt
      <4> QED  BY <1>2, <3>2, <4>1, <4>2
    <3> QED  BY <3>1, <3>2
  <2>3. reader'.epoch = reader.epoch /\ reader.epoch >= 1
    BY <1>2 DEF ReaderKnows
  <2>4. ~reader'.partial => reader'.block = NoBlock
    BY <1>2 DEF ReaderKnows
  <2>5. /\ reader'.tail = frames'[i].text[2]
        /\ frames'[i].kind = "delta" =>
             /\ reader'.block[2] = frames'[i].index /\ reader'.block[1] <= reader'.epoch
             /\ (reader'.block[1] = reader'.epoch) <=> ~\E k \in i .. read' : MarkAt(k)'
    <3>1. frames[i].kind = "delta" => ~\E k \in i .. read' : MarkAt(k)'
      BY <1>1 DEF MarkAt
    <3> QED  BY <1>1, <1>2, <3>1
  <2> QED  BY <1>2, <1>3, <2>1, <2>2, <2>3, <2>4, <2>5 DEF ReaderKnows
<1> QED  BY <1>6, <1>7

LEMMA AnswerInvStep ==
    ASSUME AnswerTyped, AnswerTyped', AnswerInv, [AnswerNext]_answerVars
    PROVE  AnswerInv'
<1>1. ASSUME NEW f \in Frames, ChunkArrives(f) PROVE AnswerInv'
  <2>1. phase = "streaming" /\ frames' = Append(frames, f) /\ UNCHANGED <<read, reader, said>>
    BY <1>1 DEF ChunkArrives
  <2> QED  BY <2>1, KnownChunk DEF AnswerInv
<1>2. CASE RestArrives \/ UNCHANGED answerVars
  <2>1. UNCHANGED <<frames, read, reader, said, phase>>
    BY <1>2 DEF RestArrives, answerVars
  <2>2. ReaderKnows' = ReaderKnows
    BY <2>1 DEF ReaderKnows, Voiced, LastVoiced, DeltaAt, MarkAt
  <2>3. Voiced' = Voiced
    BY <2>1 DEF Voiced
  <2>4. SaidInOrder => SaidInOrder'
    BY <2>1, <2>3, SilentSaid
  <2> QED  BY <2>1, <2>2, <2>4 DEF AnswerInv
<1>3. CASE ReadLine
  <2> DEFINE i == read + 1
  <2>1. /\ i \in 1 .. Len(frames) /\ read' = i /\ UNCHANGED <<frames, cut, phase>>
        /\ phase = "streaming"
    BY <1>3 DEF ReadLine, AnswerTyped, AnswerTypeOK
  <2>2. ReaderKnows /\ SaidInOrder
    BY <2>1 DEF AnswerInv
  <2>3. reader \in ReaderType /\ reader.epoch \in Nat /\ frames[i] \in Frames
    BY <2>1 DEF AnswerTyped, AnswerTypeOK, ReaderType
  <2> HIDE DEF i
  <2>4. CASE ~frames[i].own /\ UNCHANGED <<reader, said>>
    <3>1. ~NewVoice(i) /\ ~MarkAt(i)
      BY <2>4 DEF NewVoice, MarkAt
    <3> QED  BY <2>1, <2>2, <2>4, <3>1, KnownSilent DEF i, AnswerInv
  <2>5. CASE frames[i].own /\ ReadDelta(i)
    <3> DEFINE block == <<reader.epoch, frames[i].index>>
               next == [reader EXCEPT !.block = block, !.partial = TRUE]
               opens == block # reader.block
    <3>1. block \in Nat \X Nat
      BY <2>3, FrameFields
    <3>2. /\ next \in ReaderType /\ next.partial /\ next.block = block
          /\ next.epoch = reader.epoch
      BY <2>3, <3>1, ReaderOpens
    <3>3. Yields(i, opens, next) /\ frames[i].kind = "delta" /\ NewVoice(i)
      BY <2>5 DEF ReadDelta, NewVoice
    <3>4. opens \in BOOLEAN /\ opens = (next.block # reader.block)
      BY <3>2
    <3> HIDE DEF next, opens
    <3> QED  BY <2>1, <2>2, <3>2, <3>3, <3>4, KnownVoice DEF i, AnswerInv
  <2>6. CASE frames[i].own /\ ReadMark(i)
    <3>1. reader' = [reader EXCEPT !.epoch = reader.epoch + 1] /\ said' = said /\ frames[i].kind = "mark"
      BY <2>6 DEF ReadMark
    <3>2. ~NewVoice(i) /\ MarkAt(i)
      BY <2>6, <3>1 DEF NewVoice, MarkAt
    <3>3. /\ reader'.any = reader.any /\ reader'.partial = reader.partial
          /\ reader'.block = reader.block /\ reader'.tail = reader.tail
          /\ reader'.epoch = reader.epoch + 1
      BY <2>3, <3>1, ReaderMarks
    <3> QED  BY <2>1, <2>2, <3>1, <3>2, <3>3, KnownSilent DEF i, AnswerInv
  <2>7. CASE frames[i].own /\ ReadMessage(i) /\ reader.partial
    <3>1. frames[i].kind = "message" /\ UNCHANGED <<reader, said>>
      BY <2>7 DEF ReadMessage
    <3>2. \E k \in 1 .. i - 1 : DeltaAt(k)
      BY <2>1, <2>2, <2>7 DEF ReaderKnows, i, AnswerTyped, AnswerTypeOK
    <3>3. ~NewVoice(i) /\ ~MarkAt(i)
      BY <3>1, <3>2 DEF NewVoice, MarkAt
    <3> QED  BY <2>1, <2>2, <3>1, <3>3, KnownSilent DEF i, AnswerInv
  <2>8. CASE frames[i].own /\ ReadMessage(i) /\ ~reader.partial
    <3>1. frames[i].kind = "message" /\ Yields(i, TRUE, reader)
      BY <2>8 DEF ReadMessage
    <3>2. ~\E k \in 1 .. i - 1 : DeltaAt(k)
      BY <2>1, <2>2, <2>8 DEF ReaderKnows, i, AnswerTyped, AnswerTypeOK
    <3>3. NewVoice(i)
      BY <2>8, <3>1, <3>2 DEF NewVoice
    <3> QED  BY <2>1, <2>2, <2>3, <2>8, <3>1, <3>3, KnownVoice DEF i, AnswerInv
  <2>9. CASE frames[i].own /\ ReadResult(i)
    <3> DEFINE n == IF frames[i].text = NoText THEN 0 ELSE i
    <3>1. reader' = [reader EXCEPT !.fallback = n] /\ said' = said /\ frames[i].kind = "result"
      BY <2>9 DEF ReadResult
    <3>2. n \in Nat
      BY <2>1 DEF i
    <3>3. ~NewVoice(i) /\ ~MarkAt(i)
      BY <3>1 DEF NewVoice, MarkAt
    <3> HIDE DEF n
    <3>4. /\ reader'.any = reader.any /\ reader'.partial = reader.partial
          /\ reader'.block = reader.block /\ reader'.tail = reader.tail
          /\ reader'.epoch = reader.epoch
      BY <2>3, <3>1, <3>2, ReaderKeeps
    <3> QED  BY <2>1, <2>2, <3>1, <3>3, <3>4, KnownSilent DEF i, AnswerInv
  <2>10. \/ ~frames[i].own /\ UNCHANGED <<reader, said>>
         \/ frames[i].own /\ (ReadDelta(i) \/ ReadMark(i) \/ ReadMessage(i) \/ ReadResult(i))
    BY <1>3 DEF ReadLine, i
  <2> QED  BY <2>4, <2>5, <2>6, <2>7, <2>8, <2>9, <2>10
<1>4. CASE ResponseEnds \/ ResponseBreaks \/ Tell
  BY <1>4 DEF ResponseEnds, ResponseBreaks, Tell, AnswerInv
<1> QED  BY <1>1, <1>2, <1>3, <1>4 DEF AnswerNext

LEMMA AnswerInvInit == AnswerInit => AnswerInv
<1> SUFFICES ASSUME AnswerInit PROVE AnswerInv
  OBVIOUS
<1>1. said = << >> /\ Len(said) = 0 /\ read = 0 /\ 1 .. read = {} /\ Voiced = {}
  BY DEF AnswerInit, Voiced
<1>2. /\ ~reader.any /\ ~reader.partial /\ reader.block = NoBlock /\ reader.epoch = 1
  BY DEF AnswerInit
<1>3. ReaderKnows
  BY <1>1, <1>2 DEF ReaderKnows
<1>4. \A p, w : ~SaidAt(p, w) /\ ~Worded(w)
  BY <1>1 DEF SaidAt, Worded
<1>5. SaidInOrder
  BY <1>4 DEF SaidInOrder
<1> QED  BY <1>3, <1>5 DEF AnswerInv

\* From where each word is to how often it is there and what is between two.
LEMMA AnswerReads ==
    ASSUME AnswerTyped, AnswerInv, phase = "streaming"
    PROVE  ReadsAsSaid
<1>1. SaidInOrder /\ said \in Seq(Nat) /\ read \in Nat /\ read <= Len(frames)
  BY DEF AnswerInv, AnswerTyped, AnswerTypeOK
<1>2. \A p, w \in Nat : p \in Places(w) <=> SaidAt(p, w)
  BY DEF Places, SaidAt
<1>3. \A w : Places(w) \subseteq Nat
  BY DEF Places
<1>4. \A w \in Nat, p, q \in Nat : w # 0 /\ SaidAt(p, w) /\ SaidAt(q, w) => p = q
  <2> SUFFICES ASSUME NEW w \in Nat, NEW p \in Nat, NEW q \in Nat, w # 0, SaidAt(p, w), SaidAt(q, w), p < q
               PROVE  FALSE
    OBVIOUS
  <2>1. w < w
    BY <1>1 DEF SaidInOrder
  <2> QED  BY <2>1
<1>5. ASSUME NEW w \in 1 .. Len(frames) PROVE Cardinality(Places(w)) = IF Worded(w) THEN 1 ELSE 0
  <2>1. CASE Worded(w)
    <3>1. PICK p \in Nat : SaidAt(p, w)
      BY <1>1, <2>1 DEF SaidInOrder
    <3>2. Places(w) = {p}
      BY <1>2, <1>3, <1>4, <3>1
    <3> QED  BY <2>1, <3>2, FS_Singleton
  <2>2. CASE ~Worded(w)
    <3>1. \A p \in Nat : ~SaidAt(p, w)
      BY <1>1, <2>2 DEF SaidInOrder
    <3>2. Places(w) = {}
      BY <1>2, <1>3, <3>1
    <3> QED  BY <2>2, <3>2, FS_EmptySet
  <2> QED  BY <2>1, <2>2
<1>6. ASSUME NEW i \in 1 .. Len(frames), NEW j \in 1 .. Len(frames), Consecutive(i, j)
      PROVE  /\ \A p \in Places(i), q \in Places(j) : p < q
             /\ Between(i, j) = Apart(i, j)
  <2>1. PICK p \in Nat, q \in Nat : SaidAt(p, i) /\ SaidAt(q, j)
    BY <1>1, <1>6 DEF SaidInOrder, Consecutive
  <2>2. Places(i) = {p} /\ Places(j) = {q}
    BY <1>2, <1>3, <1>4, <2>1
  <2>3. q = p + 1 + Apart(i, j)
    BY <1>1, <1>6, <2>1 DEF SaidInOrder
  <2>4. Apart(i, j) \in Nat
    <3>1. frames[i] \in Frames
      BY DEF AnswerTyped, AnswerTypeOK
    <3> QED  BY <3>1, FrameFields DEF Apart, BlockSeparator
  <2>5. p \in 1 .. Len(said) /\ q \in 1 .. Len(said)
    BY <2>1 DEF SaidAt
  <2>6. ASSUME NEW r \in p + 1 .. q - 1 PROVE said[r] = 0
    <3>1. SUFFICES ASSUME said[r] # 0 PROVE FALSE
      OBVIOUS
    <3>2. r \in Nat /\ r \in 1 .. Len(said) /\ said[r] \in Nat /\ p < r /\ r < q
      BY <1>1, <2>5
    <3>3. SaidAt(r, said[r])
      BY <3>2 DEF SaidAt
    <3>i. i \in Nat /\ j \in Nat /\ i # 0 /\ j # 0
      OBVIOUS
    <3>v. \A a, b, v, w \in Nat : SaidAt(a, v) /\ SaidAt(b, w) /\ v # 0 /\ w # 0 /\ a < b => v < w
      BY <1>1 DEF SaidInOrder
    <3>w. Worded(said[r])
      BY <1>1, <3>1, <3>2, <3>3 DEF SaidInOrder
    <3>x. i < said[r]
      BY <2>1, <3>1, <3>2, <3>3, <3>i, <3>v
    <3>y. said[r] < j
      BY <2>1, <3>1, <3>2, <3>3, <3>i, <3>v
    <3>4. i < said[r] /\ said[r] < j /\ Worded(said[r])
      BY <3>w, <3>x, <3>y
    <3>5. said[r] \in i + 1 .. j - 1 /\ said[r] \in Voiced
      BY <3>2, <3>4 DEF Worded
    <3> QED  BY <1>6, <3>5 DEF Consecutive
  <2>7. {r \in 1 .. Len(said) : said[r] = 0 /\ (\E x \in Places(i) : x < r) /\ (\E y \in Places(j) : r < y)}
         = p + 1 .. q - 1
    BY <1>1, <2>2, <2>5, <2>6
  <2>8. Cardinality(p + 1 .. q - 1) = Apart(i, j)
    <3>1. p + 1 \in Int /\ q - 1 \in Int /\ q - 1 = p + Apart(i, j)
      BY <2>3, <2>4
    <3>2. Cardinality(p + 1 .. q - 1) = IF p + 1 > q - 1 THEN 0 ELSE (q - 1) - (p + 1) + 1
      BY <3>1, FS_Interval
    <3> QED  BY <2>4, <3>1, <3>2
  <2>9. Between(i, j) = Apart(i, j)
    BY <2>7, <2>8 DEF Between
  <2>10. p < q
    BY <2>3, <2>4
  <2> QED  BY <2>2, <2>9, <2>10
<1> QED  BY <1>5, <1>6 DEF ReadsAsSaid, Apart

LEMMA TellStep ==
    ASSUME AnswerTyped, NeverEmpty, [AnswerNext]_answerVars
    PROVE  NeverEmpty'
<1>1. CASE Tell
  <2>1. <<Complaint>> # << >>
    OBVIOUS
  <2> QED  BY <1>1, <2>1 DEF Tell, NeverEmpty
<1>2. CASE ~Tell
  BY <1>2 DEF AnswerNext, NeverEmpty, answerVars, ChunkArrives, RestArrives, ReadLine, ResponseEnds,
              ResponseBreaks
<1> QED  BY <1>1, <1>2

\* Of any answer, in chunks cut anywhere: every word of the mind is said once
\* and in order with what belongs between two of them, whatever a delegate says
\* meanwhile, and no answer is shown that is empty.
THEOREM AnswerWhole == AnswerSpec => []AnswerIsWhole
<1>1. AnswerInit => NeverEmpty
  BY DEF AnswerInit, NeverEmpty
<1>2. AnswerTyped /\ AnswerTyped' /\ AnswerInv /\ [AnswerNext]_answerVars => AnswerInv'
  BY AnswerInvStep
<1>3. AnswerTyped /\ NeverEmpty /\ [AnswerNext]_answerVars => NeverEmpty'
  BY TellStep
<1>4. AnswerTyped /\ AnswerInv /\ NeverEmpty => AnswerIsWhole
  BY AnswerReads DEF AnswerIsWhole, ReadsAsSaid
<1> QED
  BY <1>1, <1>2, <1>3, <1>4, AnswerTypedInit, AnswerTypedStep, AnswerInvInit, PTL DEF AnswerSpec


-----------------------------------------------------------------------------
(* Numbers.                                                                 *)

\* A set of numbers that is not empty has a least one.
Smaller == {ss \in Nat \X Nat : ss[1] < ss[2]}

LEMMA SmallerWF == IsWellFoundedOn(Smaller, Nat)
  BY NatLessThanWellFounded DEF OpToRel, Smaller

LEMMA NatMin ==
  ASSUME NEW S \in SUBSET Nat, S # {}
  PROVE  \E x \in S : \A y \in S : x <= y
<1>1. PICK x \in S : \A y \in S : ~(<<y, x>> \in Smaller)
  BY SmallerWF, WFMin
<1>2. \A y \in S : x <= y
  <2> TAKE y \in S
  <2>1. <<y, x>> \in Smaller <=> y < x
    BY DEF Smaller
  <2> QED
    BY <2>1, <1>1
<1> QED
  BY <1>2

\* And one that has a bound has a greatest.
LEMMA NatMax ==
  ASSUME NEW S \in SUBSET Nat, S # {}, NEW n \in Nat, \A y \in S : y <= n
  PROVE  \E x \in S : \A y \in S : y <= x
<1> DEFINE Bounds == {u \in Nat : \A y \in S : y <= u}
<1>1. Bounds \in SUBSET Nat /\ n \in Bounds
  OBVIOUS
<1>2. PICK u \in Bounds : \A w \in Bounds : u <= w
  BY <1>1, NatMin
<1>3. u \in S
  <2> SUFFICES ASSUME u \notin S PROVE FALSE
    OBVIOUS
  <2>1. PICK y \in S : TRUE
    OBVIOUS
  <2>2. u \in Nat /\ y \in Nat /\ y <= u /\ y # u
    BY <1>2
  <2>3. u - 1 \in Nat
    BY <2>2
  <2>4. \A z \in S : z <= u - 1
    <3> TAKE z \in S
    <3>1. z \in Nat /\ z <= u /\ z # u
      BY <1>2
    <3> QED
      BY <3>1, <2>2
  <2>5. u - 1 \in Bounds
    BY <2>3, <2>4
  <2> QED
    BY <2>5, <2>2, <1>2
<1> QED
  BY <1>2, <1>3


-----------------------------------------------------------------------------
(* Chunks of a message.                                                     *)

\* Where the letters up to lo have been shown, the places i + 1 to j of s show
\* those up to hi: none is missing, each comes after all those before it, and an
\* ordinary one comes once; so does all of s, and a sequence of chunks.
Seg(b, s, i, j, lo, hi) ==
  /\ \A n \in i + 1 .. j : Letter(s[n]) <= hi /\ (Ordinary(b, s[n]) => lo < Letter(s[n]))
  /\ \A v \in lo + 1 .. hi : \E n \in i + 1 .. j : Letter(s[n]) = v
  /\ \A n \in i + 1 .. j : \A u \in lo + 1 .. Letter(s[n]) - 1 :
       \E m \in i + 1 .. j : m < n /\ Letter(s[m]) = u
  /\ \A m, n \in i + 1 .. j : m < n /\ Ordinary(b, s[n]) => Letter(s[m]) # Letter(s[n])

One(b, s, lo, hi) == Seg(b, s, 0, Len(s), lo, hi)

At(cs, k) == 1 .. Len(cs[k])
Many(b, cs, lo, hi) ==
  /\ \A k \in 1 .. Len(cs) : \A n \in At(cs, k) :
       Letter(cs[k][n]) <= hi /\ (Ordinary(b, cs[k][n]) => lo < Letter(cs[k][n]))
  /\ \A v \in lo + 1 .. hi : \E k \in 1 .. Len(cs) : \E n \in At(cs, k) : Letter(cs[k][n]) = v
  /\ \A l \in 1 .. Len(cs) : \A n \in At(cs, l) : \A u \in lo + 1 .. Letter(cs[l][n]) - 1 :
       \E k \in 1 .. Len(cs) : \E m \in At(cs, k) :
         (k < l \/ (k = l /\ m < n)) /\ Letter(cs[k][m]) = u
  /\ \A k, l \in 1 .. Len(cs) : \A m \in At(cs, k) : \A n \in At(cs, l) :
       (k < l \/ (k = l /\ m < n)) /\ Ordinary(b, cs[l][n])
         => Letter(cs[k][m]) # Letter(cs[l][n])

LEMMA LetterNat == \A c \in Int : Letter(c) \in Nat
  BY DEF Letter

LEMMA LetterIn ==
  ASSUME NEW s \in Seq(Int), NEW n \in 1 .. Len(s)
  PROVE  s[n] \in Int /\ Letter(s[n]) \in Nat
<1>1. s[n] \in Int
  OBVIOUS
<1> QED  BY <1>1, LetterNat

\* The same of all of a sequence, from its first place.
LEMMA OneIs ==
  ASSUME NEW b, NEW s \in Seq(Int), NEW lo, NEW hi
  PROVE  One(b, s, lo, hi) <=>
         /\ \A n \in 1 .. Len(s) : Letter(s[n]) <= hi /\ (Ordinary(b, s[n]) => lo < Letter(s[n]))
         /\ \A v \in lo + 1 .. hi : \E n \in 1 .. Len(s) : Letter(s[n]) = v
         /\ \A n \in 1 .. Len(s) : \A u \in lo + 1 .. Letter(s[n]) - 1 :
              \E m \in 1 .. Len(s) : m < n /\ Letter(s[m]) = u
         /\ \A m, n \in 1 .. Len(s) : m < n /\ Ordinary(b, s[n]) => Letter(s[m]) # Letter(s[n])
<1>1. 0 + 1 = 1
  OBVIOUS
<1> QED  BY <1>1 DEF One, Seg

LEMMA SegSub ==
  ASSUME NEW b, NEW s \in Seq(Int), NEW i \in Nat, NEW j \in Nat, i <= j, j <= Len(s),
         NEW lo \in Nat, NEW hi \in Nat, Seg(b, s, i, j, lo, hi)
  PROVE  One(b, SubSeq(s, i + 1, j), lo, hi)
<1> DEFINE t == SubSeq(s, i + 1, j)
<1>1. t \in Seq(Int) /\ Len(t) = j - i /\ \A n \in 1 .. j - i : t[n] = s[n + i]
  OBVIOUS
<1> HIDE DEF t
<1>2. \A n \in 1 .. Len(t) : t[n] = s[n + i] /\ n + i \in i + 1 .. j
  BY <1>1
<1>3. \A n \in i + 1 .. j : n - i \in 1 .. Len(t) /\ t[n - i] = s[n]
  <2> TAKE n \in i + 1 .. j
  <2>1. n - i \in 1 .. j - i /\ (n - i) + i = n
    OBVIOUS
  <2> QED
    BY <1>1, <2>1
<1>4. \A n \in 1 .. Len(t) : Letter(t[n]) <= hi /\ (Ordinary(b, t[n]) => lo < Letter(t[n]))
  BY <1>2 DEF Seg
<1>5. \A v \in lo + 1 .. hi : \E n \in 1 .. Len(t) : Letter(t[n]) = v
  <2> TAKE v \in lo + 1 .. hi
  <2>1. PICK n \in i + 1 .. j : Letter(s[n]) = v
    BY DEF Seg
  <2>2. n - i \in 1 .. Len(t) /\ t[n - i] = s[n]
    BY <1>3
  <2> QED
    BY <2>1, <2>2
<1>6. \A n \in 1 .. Len(t) : \A u \in lo + 1 .. Letter(t[n]) - 1 :
        \E m \in 1 .. Len(t) : m < n /\ Letter(t[m]) = u
  <2> TAKE n \in 1 .. Len(t)
  <2>1. t[n] = s[n + i] /\ n + i \in i + 1 .. j
    BY <1>2
  <2> TAKE u \in lo + 1 .. Letter(t[n]) - 1
  <2>2. PICK m \in i + 1 .. j : m < n + i /\ Letter(s[m]) = u
    BY <2>1 DEF Seg
  <2>3. m - i \in 1 .. Len(t) /\ t[m - i] = s[m]
    BY <1>3
  <2>4. m - i < n
    BY <2>2, <1>1
  <2> QED
    BY <2>2, <2>3, <2>4
<1>7. \A m, n \in 1 .. Len(t) : m < n /\ Ordinary(b, t[n]) => Letter(t[m]) # Letter(t[n])
  <2> TAKE m, n \in 1 .. Len(t)
  <2> HAVE m < n /\ Ordinary(b, t[n])
  <2>1. t[m] = s[m + i] /\ t[n] = s[n + i] /\ m + i \in i + 1 .. j /\ n + i \in i + 1 .. j
    BY <1>2
  <2>2. m + i < n + i
    BY <1>1
  <2> QED
    BY <2>1, <2>2 DEF Seg
<1>8. One(b, t, lo, hi)
  BY <1>1, <1>4, <1>5, <1>6, <1>7, OneIs
<1> QED
  BY <1>8 DEF t

\* Where a text is cut, its letters are.
LEMMA SegCut ==
  ASSUME NEW b, NEW s \in Seq(Int), NEW i \in Nat, NEW m \in Nat, NEW j \in Nat,
         i <= m, m <= j, j <= Len(s),
         NEW lo \in Nat, NEW hi \in Nat, lo <= hi, Seg(b, s, i, j, lo, hi)
  PROVE  \E mid \in lo .. hi : Seg(b, s, i, m, lo, mid) /\ Seg(b, s, m, j, mid, hi)
<1> DEFINE In(v) == \E n \in i + 1 .. m : Letter(s[n]) = v
<1> DEFINE Out == {v \in lo + 1 .. hi + 1 : v = hi + 1 \/ ~In(v)}
<1>1. Out \in SUBSET Nat /\ Out # {}
  <2>1. hi + 1 \in lo + 1 .. hi + 1 /\ lo + 1 .. hi + 1 \subseteq Nat
    OBVIOUS
  <2> HIDE DEF In
  <2> QED
    BY <2>1
<1>2. PICK w \in Out : \A y \in Out : w <= y
  <2> HIDE DEF Out
  <2> QED
    BY <1>1, NatMin
<1>3. w \in lo + 1 .. hi + 1 /\ w - 1 \in lo .. hi /\ (w - 1) + 1 = w /\ w \in Nat
  OBVIOUS
<1>4. w = hi + 1 \/ (w \in lo + 1 .. hi /\ ~In(w))
  BY <1>3
<1>5. \A v \in lo + 1 .. w - 1 : In(v)
  <2> TAKE v \in lo + 1 .. w - 1
  <2>1. v \in lo + 1 .. hi + 1 /\ v # hi + 1 /\ ~(w <= v)
    BY <1>3
  <2> QED
    BY <2>1, <1>2
<1>6. \A n \in Int : n \in i + 1 .. j <=> n \in i + 1 .. m \/ n \in m + 1 .. j
  OBVIOUS
<1>7. \A p \in i + 1 .. m, q \in m + 1 .. j : p < q
  OBVIOUS
<1>8. \A n \in i + 1 .. j : s[n] \in Int /\ Letter(s[n]) \in Nat
  <2> TAKE n \in i + 1 .. j
  <2>1. n \in 1 .. Len(s)
    OBVIOUS
  <2>2. s[n] \in Int
    BY <2>1
  <2> QED
    BY <2>2, LetterNat
<1> HIDE DEF Out
\* What is shown in the first part is what was shown at the cut.
<1>9. \A n \in i + 1 .. m : Letter(s[n]) <= w - 1
  <2> SUFFICES ASSUME NEW n \in i + 1 .. m, ~(Letter(s[n]) <= w - 1) PROVE FALSE
    OBVIOUS
  <2>1. n \in i + 1 .. j /\ Letter(s[n]) \in Nat /\ Letter(s[n]) <= hi
    BY <1>6, <1>8 DEF Seg
  <2>2. w \in lo + 1 .. hi /\ ~In(w)
    BY <2>1, <1>3, <1>4
  <2>3. CASE Letter(s[n]) = w
    BY <2>2, <2>3
  <2>4. CASE Letter(s[n]) # w
    <3>1. w \in lo + 1 .. Letter(s[n]) - 1
      BY <2>1, <2>2, <2>4
    <3>2. PICK q \in i + 1 .. j : q < n /\ Letter(s[q]) = w
      BY <2>1, <3>1 DEF Seg
    <3>3. q \in i + 1 .. m
      BY <3>2, <1>6, <1>7
    <3> QED
      BY <3>2, <3>3, <2>2
  <2> QED
    BY <2>3, <2>4
<1>10. \A n \in m + 1 .. j : Ordinary(b, s[n]) => w - 1 < Letter(s[n])
  <2> SUFFICES ASSUME NEW n \in m + 1 .. j, Ordinary(b, s[n]), ~(w - 1 < Letter(s[n])) PROVE FALSE
    OBVIOUS
  <2>1. n \in i + 1 .. j /\ Letter(s[n]) \in Nat /\ lo < Letter(s[n])
    BY <1>6, <1>8 DEF Seg
  <2>2. Letter(s[n]) \in lo + 1 .. w - 1
    BY <2>1, <1>3
  <2>3. PICK q \in i + 1 .. m : Letter(s[q]) = Letter(s[n])
    BY <2>2, <1>5
  <2>4. q < n /\ q \in i + 1 .. j
    BY <1>7, <1>6
  <2> QED
    BY <2>1, <2>3, <2>4 DEF Seg
<1>11. Seg(b, s, i, m, lo, w - 1)
  <2>1. \A n \in i + 1 .. m : Letter(s[n]) <= w - 1 /\ (Ordinary(b, s[n]) => lo < Letter(s[n]))
    BY <1>9, <1>6 DEF Seg
  <2>2. \A v \in lo + 1 .. w - 1 : \E n \in i + 1 .. m : Letter(s[n]) = v
    BY <1>5
  <2>3. \A n \in i + 1 .. m : \A u \in lo + 1 .. Letter(s[n]) - 1 :
          \E p \in i + 1 .. m : p < n /\ Letter(s[p]) = u
    <3> TAKE n \in i + 1 .. m
    <3>1. n \in i + 1 .. j
      BY <1>6
    <3> TAKE u \in lo + 1 .. Letter(s[n]) - 1
    <3>2. PICK p \in i + 1 .. j : p < n /\ Letter(s[p]) = u
      BY <3>1 DEF Seg
    <3>3. p \in i + 1 .. m
      BY <3>2, <1>6, <1>7
    <3> QED
      BY <3>2, <3>3
  <2>4. \A p, n \in i + 1 .. m : p < n /\ Ordinary(b, s[n]) => Letter(s[p]) # Letter(s[n])
    BY <1>6 DEF Seg
  <2> QED
    BY <2>1, <2>2, <2>3, <2>4 DEF Seg
<1>12. Seg(b, s, m, j, w - 1, hi)
  <2> DEFINE x == w - 1
  <2>0. x + 1 = w /\ x \in Nat /\ lo <= x
    BY <1>3
  <2>1. \A n \in m + 1 .. j : Letter(s[n]) <= hi /\ (Ordinary(b, s[n]) => x < Letter(s[n]))
    BY <1>10, <1>6 DEF Seg
  <2>2. \A v \in x + 1 .. hi : \E n \in m + 1 .. j : Letter(s[n]) = v
    <3> TAKE v \in x + 1 .. hi
    <3>1. v \in lo + 1 .. hi /\ ~(v <= w - 1)
      BY <2>0
    <3>2. PICK n \in i + 1 .. j : Letter(s[n]) = v
      BY <3>1 DEF Seg
    <3>3. n \in m + 1 .. j
      BY <3>1, <3>2, <1>6, <1>9
    <3> QED
      BY <3>2, <3>3
  <2>3. \A n \in m + 1 .. j : \A u \in x + 1 .. Letter(s[n]) - 1 :
          \E p \in m + 1 .. j : p < n /\ Letter(s[p]) = u
    <3> TAKE n \in m + 1 .. j
    <3>1. n \in i + 1 .. j /\ Letter(s[n]) \in Nat
      BY <1>6, <1>8
    <3> TAKE u \in x + 1 .. Letter(s[n]) - 1
    <3>2. u \in lo + 1 .. Letter(s[n]) - 1 /\ ~(u <= w - 1)
      BY <2>0, <3>1
    <3>3. PICK p \in i + 1 .. j : p < n /\ Letter(s[p]) = u
      BY <3>1, <3>2 DEF Seg
    <3>4. p \in m + 1 .. j
      BY <3>2, <3>3, <1>6, <1>9
    <3> QED
      BY <3>3, <3>4
  <2>4. \A p, n \in m + 1 .. j : p < n /\ Ordinary(b, s[n]) => Letter(s[p]) # Letter(s[n])
    BY <1>6 DEF Seg
  <2> HIDE DEF x
  <2>5. Seg(b, s, m, j, x, hi)
    BY <2>1, <2>2, <2>3, <2>4 DEF Seg
  <2> QED
    BY <2>5 DEF x
<1> QED
  BY <1>11, <1>12, <1>3

LEMMA OneEmpty ==
  ASSUME NEW b, NEW lo \in Nat
  PROVE  One(b, << >>, lo, lo)
  BY DEF One, Seg

LEMMA OneOfNone ==
  ASSUME NEW b, NEW lo \in Nat, NEW hi \in Nat, lo <= hi, One(b, << >>, lo, hi)
  PROVE  lo = hi
<1> SUFFICES ASSUME lo < hi PROVE FALSE
  OBVIOUS
<1>1. hi \in lo + 1 .. hi
  OBVIOUS
<1>2. PICK n \in 0 + 1 .. Len(<< >>) : TRUE
  BY <1>1 DEF One, Seg
<1> QED
  BY <1>2

LEMMA OneConcat ==
  ASSUME NEW b, NEW s \in Seq(Int), NEW t \in Seq(Int),
         NEW lo \in Nat, NEW mid \in Nat, NEW hi \in Nat, lo <= mid, mid <= hi,
         One(b, s, lo, mid), One(b, t, mid, hi)
  PROVE  One(b, s \o t, lo, hi)
<1> DEFINE r == s \o t
<1>1. /\ r \in Seq(Int) /\ Len(r) = Len(s) + Len(t) /\ Len(s) \in Nat /\ Len(t) \in Nat
      /\ \A n \in 1 .. Len(r) : r[n] = IF n <= Len(s) THEN s[n] ELSE t[n - Len(s)]
  OBVIOUS
<1> HIDE DEF r
<1>2. \A n \in 1 .. Len(r) : \/ n \in 1 .. Len(s) /\ r[n] = s[n]
                             \/ n - Len(s) \in 1 .. Len(t) /\ r[n] = t[n - Len(s)] /\ ~(n <= Len(s))
  BY <1>1
<1>3. \A n \in 1 .. Len(s) : n \in 1 .. Len(r) /\ r[n] = s[n]
  BY <1>1
<1>4. \A n \in 1 .. Len(t) : n + Len(s) \in 1 .. Len(r) /\ r[n + Len(s)] = t[n]
  <2> TAKE n \in 1 .. Len(t)
  <2>1. n + Len(s) \in 1 .. Len(r) /\ ~(n + Len(s) <= Len(s)) /\ (n + Len(s)) - Len(s) = n
    BY <1>1
  <2> QED
    BY <2>1, <1>1
<1>5. \A n \in 1 .. Len(r) : Letter(r[n]) \in Nat
  BY <1>1, LetterIn
<1>s. /\ \A n \in 1 .. Len(s) : Letter(s[n]) <= mid /\ (Ordinary(b, s[n]) => lo < Letter(s[n]))
      /\ \A v \in lo + 1 .. mid : \E n \in 1 .. Len(s) : Letter(s[n]) = v
      /\ \A n \in 1 .. Len(s) : \A u \in lo + 1 .. Letter(s[n]) - 1 :
           \E m \in 1 .. Len(s) : m < n /\ Letter(s[m]) = u
      /\ \A m, n \in 1 .. Len(s) : m < n /\ Ordinary(b, s[n]) => Letter(s[m]) # Letter(s[n])
  BY OneIs
<1>t. /\ \A n \in 1 .. Len(t) : Letter(t[n]) <= hi /\ (Ordinary(b, t[n]) => mid < Letter(t[n]))
      /\ \A v \in mid + 1 .. hi : \E n \in 1 .. Len(t) : Letter(t[n]) = v
      /\ \A n \in 1 .. Len(t) : \A u \in mid + 1 .. Letter(t[n]) - 1 :
           \E m \in 1 .. Len(t) : m < n /\ Letter(t[m]) = u
      /\ \A m, n \in 1 .. Len(t) : m < n /\ Ordinary(b, t[n]) => Letter(t[m]) # Letter(t[n])
  BY OneIs
<1>6. \A n \in 1 .. Len(r) : Letter(r[n]) <= hi /\ (Ordinary(b, r[n]) => lo < Letter(r[n]))
  <2> TAKE n \in 1 .. Len(r)
  <2>1. \/ Letter(r[n]) <= mid /\ (Ordinary(b, r[n]) => lo < Letter(r[n]))
        \/ Letter(r[n]) <= hi /\ (Ordinary(b, r[n]) => mid < Letter(r[n]))
    BY <1>2, <1>s, <1>t
  <2> QED
    BY <2>1, <1>5
<1>7. \A v \in lo + 1 .. hi : \E n \in 1 .. Len(r) : Letter(r[n]) = v
  <2> TAKE v \in lo + 1 .. hi
  <2>1. ASSUME v \in lo + 1 .. mid PROVE \E n \in 1 .. Len(r) : Letter(r[n]) = v
    BY <2>1, <1>s, <1>3
  <2>2. ASSUME v \in mid + 1 .. hi PROVE \E n \in 1 .. Len(r) : Letter(r[n]) = v
    <3>1. PICK n \in 1 .. Len(t) : Letter(t[n]) = v
      BY <2>2, <1>t
    <3>2. n + Len(s) \in 1 .. Len(r) /\ r[n + Len(s)] = t[n]
      BY <1>4
    <3> QED
      BY <3>1, <3>2
  <2> QED
    BY <2>1, <2>2
<1>8. \A n \in 1 .. Len(r) : \A u \in lo + 1 .. Letter(r[n]) - 1 :
        \E m \in 1 .. Len(r) : m < n /\ Letter(r[m]) = u
  <2> SUFFICES ASSUME NEW n \in 1 .. Len(r), NEW u \in lo + 1 .. Letter(r[n]) - 1
               PROVE  \E m \in 1 .. Len(r) : m < n /\ Letter(r[m]) = u
    OBVIOUS
  <2>0. Letter(r[n]) \in Nat /\ u \in Nat
    BY <1>5
  <2>1. CASE n \in 1 .. Len(s) /\ r[n] = s[n]
    <3>1. PICK m \in 1 .. Len(s) : m < n /\ Letter(s[m]) = u
      BY <2>1, <1>s
    <3> QED
      BY <3>1, <1>3
  <2>2. CASE n - Len(s) \in 1 .. Len(t) /\ r[n] = t[n - Len(s)] /\ ~(n <= Len(s))
    <3>1. CASE u <= mid
      <4>1. PICK m \in 1 .. Len(s) : Letter(s[m]) = u
        BY <3>1, <2>0, <1>s
      <4>2. m < n
        BY <2>2, <1>1
      <4> QED
        BY <4>1, <4>2, <1>3
    <3>2. CASE ~(u <= mid)
      <4>1. u \in mid + 1 .. Letter(t[n - Len(s)]) - 1
        BY <3>2, <2>0, <2>2
      <4>2. PICK m \in 1 .. Len(t) : m < n - Len(s) /\ Letter(t[m]) = u
        BY <4>1, <2>2, <1>t
      <4>3. m + Len(s) \in 1 .. Len(r) /\ r[m + Len(s)] = t[m]
        BY <1>4
      <4>4. m + Len(s) < n
        BY <4>2, <1>1
      <4> QED
        BY <4>2, <4>3, <4>4
    <3> QED
      BY <3>1, <3>2
  <2> QED
    BY <1>2, <2>1, <2>2
<1>9. \A m, n \in 1 .. Len(r) : m < n /\ Ordinary(b, r[n]) => Letter(r[m]) # Letter(r[n])
  <2> SUFFICES ASSUME NEW m \in 1 .. Len(r), NEW n \in 1 .. Len(r), m < n, Ordinary(b, r[n])
               PROVE  Letter(r[m]) # Letter(r[n])
    OBVIOUS
  <2>1. ASSUME n \in 1 .. Len(s), r[n] = s[n] PROVE Letter(r[m]) # Letter(r[n])
    <3>1. m \in 1 .. Len(s)
      BY <2>1, <1>1
    <3>2. r[m] = s[m]
      BY <3>1, <1>3
    <3> QED
      BY <3>1, <3>2, <2>1, <1>s
  <2>2. ASSUME m \in 1 .. Len(s), r[m] = s[m],
               n - Len(s) \in 1 .. Len(t), r[n] = t[n - Len(s)]
        PROVE  Letter(r[m]) # Letter(r[n])
    <3>1. Letter(r[m]) <= mid /\ mid < Letter(r[n])
      BY <2>2, <1>s, <1>t
    <3> QED
      BY <3>1, <1>5
  <2>3. ASSUME m - Len(s) \in 1 .. Len(t), r[m] = t[m - Len(s)],
               n - Len(s) \in 1 .. Len(t), r[n] = t[n - Len(s)]
        PROVE  Letter(r[m]) # Letter(r[n])
    <3>1. m - Len(s) < n - Len(s)
      BY <1>1
    <3> DEFINE x == m - Len(s)
               y == n - Len(s)
    <3>2. /\ x \in 1 .. Len(t) /\ y \in 1 .. Len(t) /\ x < y
          /\ r[m] = t[x] /\ r[n] = t[y] /\ Ordinary(b, t[y])
      BY <3>1, <2>3
    <3> HIDE DEF x, y
    <3> QED
      BY <3>2, <1>t
  <2> QED
    BY <1>2, <2>1, <2>2, <2>3
<1>10. One(b, r, lo, hi)
  BY <1>1, <1>6, <1>7, <1>8, <1>9, OneIs
<1> QED
  BY <1>10 DEF r

LEMMA ManyNone ==
  ASSUME NEW b, NEW lo \in Nat
  PROVE  Many(b, << >>, lo, lo)
  BY DEF Many

LEMMA ManyOne ==
  ASSUME NEW b, NEW s \in Seq(Int), NEW lo \in Nat, NEW hi \in Nat, One(b, s, lo, hi)
  PROVE  Many(b, <<s>>, lo, hi)
<1> DEFINE cs == <<s>>
<1>1. Len(cs) = 1 /\ cs[1] = s /\ 1 .. 1 = {1}
  OBVIOUS
<1> HIDE DEF cs
<1>t. /\ \A n \in 1 .. Len(s) : Letter(s[n]) <= hi /\ (Ordinary(b, s[n]) => lo < Letter(s[n]))
      /\ \A v \in lo + 1 .. hi : \E n \in 1 .. Len(s) : Letter(s[n]) = v
      /\ \A n \in 1 .. Len(s) : \A u \in lo + 1 .. Letter(s[n]) - 1 :
           \E m \in 1 .. Len(s) : m < n /\ Letter(s[m]) = u
      /\ \A m, n \in 1 .. Len(s) : m < n /\ Ordinary(b, s[n]) => Letter(s[m]) # Letter(s[n])
  BY OneIs
<1>c. 1 \in 1 .. Len(cs) /\ \A k \in 1 .. Len(cs) : k = 1 /\ cs[k] = s /\ At(cs, k) = 1 .. Len(s)
  BY <1>1 DEF At
<1>2. Many(b, cs, lo, hi)
  <2>1. \A k \in 1 .. Len(cs) : \A n \in At(cs, k) :
          Letter(cs[k][n]) <= hi /\ (Ordinary(b, cs[k][n]) => lo < Letter(cs[k][n]))
    <3> TAKE k \in 1 .. Len(cs)
    <3>1. cs[k] = s /\ At(cs, k) = 1 .. Len(s)
      BY <1>c
    <3> QED  BY <3>1, <1>t
  <2>2. \A v \in lo + 1 .. hi : \E k \in 1 .. Len(cs) : \E n \in At(cs, k) : Letter(cs[k][n]) = v
    <3> TAKE v \in lo + 1 .. hi
    <3>1. PICK n \in 1 .. Len(s) : Letter(s[n]) = v
      BY <1>t
    <3>2. cs[1] = s /\ n \in At(cs, 1)
      BY <1>c
    <3> QED  BY <3>1, <3>2, <1>c
  <2>3. \A l \in 1 .. Len(cs) : \A n \in At(cs, l) : \A u \in lo + 1 .. Letter(cs[l][n]) - 1 :
          \E k \in 1 .. Len(cs) : \E m \in At(cs, k) :
            (k < l \/ (k = l /\ m < n)) /\ Letter(cs[k][m]) = u
    <3> TAKE l \in 1 .. Len(cs)
    <3> TAKE n \in At(cs, l)
    <3>1. l = 1 /\ cs[l] = s /\ n \in 1 .. Len(s) /\ At(cs, l) = 1 .. Len(s)
      BY <1>c
    <3> TAKE u \in lo + 1 .. Letter(cs[l][n]) - 1
    <3>2. PICK m \in 1 .. Len(s) : m < n /\ Letter(s[m]) = u
      BY <3>1, <1>t
    <3> QED
      BY <3>1, <3>2, Zenon
  <2>4. \A k, l \in 1 .. Len(cs) : \A m \in At(cs, k) : \A n \in At(cs, l) :
          (k < l \/ (k = l /\ m < n)) /\ Ordinary(b, cs[l][n])
            => Letter(cs[k][m]) # Letter(cs[l][n])
    <3> TAKE k, l \in 1 .. Len(cs)
    <3>1. /\ k = 1 /\ l = 1 /\ ~(k < l) /\ cs[k] = s /\ cs[l] = s
          /\ At(cs, k) = 1 .. Len(s) /\ At(cs, l) = 1 .. Len(s)
      BY <1>c
    <3> TAKE m \in At(cs, k)
    <3> TAKE n \in At(cs, l)
    <3>2. m \in 1 .. Len(s) /\ n \in 1 .. Len(s)
      BY <3>1
    <3>3. m < n /\ Ordinary(b, s[n]) => Letter(s[m]) # Letter(s[n])
      BY <3>2, <1>t
    <3> QED  BY <3>1, <3>3, Zenon
  <2> QED  BY <2>1, <2>2, <2>3, <2>4, Zenon DEF Many
<1> QED
  BY <1>2 DEF cs

LEMMA ManyConcat ==
  ASSUME NEW b, NEW s \in Seq(Seq(Int)), NEW t \in Seq(Seq(Int)),
         NEW lo \in Nat, NEW mid \in Nat, NEW hi \in Nat, lo <= mid, mid <= hi,
         Many(b, s, lo, mid), Many(b, t, mid, hi)
  PROVE  Many(b, s \o t, lo, hi)
<1> DEFINE r == s \o t
<1>1. /\ r \in Seq(Seq(Int)) /\ Len(r) = Len(s) + Len(t) /\ Len(s) \in Nat /\ Len(t) \in Nat
      /\ \A n \in 1 .. Len(r) : r[n] = IF n <= Len(s) THEN s[n] ELSE t[n - Len(s)]
  OBVIOUS
<1> HIDE DEF r
<1>2. \A k \in 1 .. Len(r) : \/ k \in 1 .. Len(s) /\ r[k] = s[k]
                             \/ k - Len(s) \in 1 .. Len(t) /\ r[k] = t[k - Len(s)] /\ ~(k <= Len(s))
  BY <1>1
<1>3. \A k \in 1 .. Len(s) : k \in 1 .. Len(r) /\ r[k] = s[k]
  BY <1>1
<1>4. \A k \in 1 .. Len(t) : k + Len(s) \in 1 .. Len(r) /\ r[k + Len(s)] = t[k]
  <2> TAKE k \in 1 .. Len(t)
  <2>1. k + Len(s) \in 1 .. Len(r) /\ ~(k + Len(s) <= Len(s)) /\ (k + Len(s)) - Len(s) = k
    BY <1>1
  <2> QED
    BY <2>1, <1>1
<1>5. \A k \in 1 .. Len(r) : \A n \in At(r, k) : Letter(r[k][n]) \in Nat
  <2> TAKE k \in 1 .. Len(r)
  <2>1. r[k] \in Seq(Int)
    BY <1>1
  <2> QED
    BY <2>1, LetterIn DEF At
<1>6. \A k \in 1 .. Len(r) : \A n \in At(r, k) :
        Letter(r[k][n]) <= hi /\ (Ordinary(b, r[k][n]) => lo < Letter(r[k][n]))
  <2> TAKE k \in 1 .. Len(r)
  <2> TAKE n \in At(r, k)
  <2>1. \/ Letter(r[k][n]) <= mid /\ (Ordinary(b, r[k][n]) => lo < Letter(r[k][n]))
        \/ Letter(r[k][n]) <= hi /\ (Ordinary(b, r[k][n]) => mid < Letter(r[k][n]))
    BY <1>2 DEF Many, At
  <2> QED
    BY <2>1, <1>5
<1>7. \A v \in lo + 1 .. hi : \E k \in 1 .. Len(r) : \E n \in At(r, k) : Letter(r[k][n]) = v
  <2> TAKE v \in lo + 1 .. hi
  <2> DEFINE Found == \E k \in 1 .. Len(r) : \E n \in At(r, k) : Letter(r[k][n]) = v
  <2>1. ASSUME v \in lo + 1 .. mid PROVE Found
    <3>1. PICK k \in 1 .. Len(s) : \E n \in At(s, k) : Letter(s[k][n]) = v
      BY <2>1 DEF Many
    <3> QED
      BY <3>1, <1>3 DEF At
  <2>2. ASSUME v \in mid + 1 .. hi PROVE Found
    <3>1. PICK k \in 1 .. Len(t) : \E n \in At(t, k) : Letter(t[k][n]) = v
      BY <2>2 DEF Many
    <3>2. k + Len(s) \in 1 .. Len(r) /\ r[k + Len(s)] = t[k]
      BY <1>4
    <3> QED
      BY <3>1, <3>2 DEF At
  <2>3. v \in lo + 1 .. mid \/ v \in mid + 1 .. hi
    OBVIOUS
  <2> QED
    BY <2>1, <2>2, <2>3
<1>8. \A l \in 1 .. Len(r) : \A n \in At(r, l) : \A u \in lo + 1 .. Letter(r[l][n]) - 1 :
        \E k \in 1 .. Len(r) : \E m \in At(r, k) :
          (k < l \/ (k = l /\ m < n)) /\ Letter(r[k][m]) = u
  <2> SUFFICES ASSUME NEW l \in 1 .. Len(r), NEW n \in At(r, l),
                      NEW u \in lo + 1 .. Letter(r[l][n]) - 1
               PROVE  \E k \in 1 .. Len(r) : \E m \in At(r, k) :
                        (k < l \/ (k = l /\ m < n)) /\ Letter(r[k][m]) = u
    OBVIOUS
  <2>0. Letter(r[l][n]) \in Nat /\ u \in Nat
    BY <1>5
  <2>1. CASE l \in 1 .. Len(s) /\ r[l] = s[l]
    <3>1. n \in At(s, l)
      BY <2>1 DEF At
    <3>2. PICK k \in 1 .. Len(s) : \E m \in At(s, k) :
            (k < l \/ (k = l /\ m < n)) /\ Letter(s[k][m]) = u
      BY <2>1, <3>1 DEF Many
    <3> QED
      BY <3>2, <1>3 DEF At
  <2>2. CASE l - Len(s) \in 1 .. Len(t) /\ r[l] = t[l - Len(s)] /\ ~(l <= Len(s))
    <3>1. CASE u <= mid
      <4>1. PICK k \in 1 .. Len(s) : \E m \in At(s, k) : Letter(s[k][m]) = u
        BY <3>1, <2>0 DEF Many
      <4>2. k < l
        BY <2>2, <1>1
      <4> QED
        BY <4>1, <4>2, <1>3 DEF At
    <3>2. CASE ~(u <= mid)
      <4> DEFINE y == l - Len(s)
      <4>1. y \in 1 .. Len(t) /\ r[l] = t[y] /\ l = y + Len(s) /\ n \in At(t, y)
        BY <2>2, <1>1 DEF At
      <4> HIDE DEF y
      <4>2. u \in mid + 1 .. Letter(t[y][n]) - 1
        BY <3>2, <2>0, <4>1
      <4>3. PICK k \in 1 .. Len(t) : \E m \in At(t, k) :
              (k < y \/ (k = y /\ m < n)) /\ Letter(t[k][m]) = u
        BY <4>1, <4>2 DEF Many
      <4>4. PICK m \in At(t, k) : (k < y \/ (k = y /\ m < n)) /\ Letter(t[k][m]) = u
        BY <4>3
      <4> DEFINE x == k + Len(s)
      <4>5. x \in 1 .. Len(r) /\ r[x] = t[k] /\ m \in At(r, x)
        BY <1>4 DEF At
      <4>6. x < l \/ (x = l /\ m < n)
        <5>1. k \in Int /\ y \in Int /\ Len(s) \in Int /\ (k < y \/ (k = y /\ m < n)) /\ l = y + Len(s)
          BY <4>1, <4>4, <1>1
        <5>2. CASE k < y
          BY <5>1, <5>2
        <5>3. CASE k = y /\ m < n
          BY <5>1, <5>3
        <5> QED  BY <5>1, <5>2, <5>3
      <4> HIDE DEF x
      <4> QED
        BY <4>4, <4>5, <4>6
    <3> QED
      BY <3>1, <3>2
  <2> QED
    BY <1>2, <2>1, <2>2
<1>9. \A k, l \in 1 .. Len(r) : \A m \in At(r, k) : \A n \in At(r, l) :
        (k < l \/ (k = l /\ m < n)) /\ Ordinary(b, r[l][n])
          => Letter(r[k][m]) # Letter(r[l][n])
  <2> SUFFICES ASSUME NEW k \in 1 .. Len(r), NEW l \in 1 .. Len(r),
                      NEW m \in At(r, k), NEW n \in At(r, l),
                      k < l \/ (k = l /\ m < n), Ordinary(b, r[l][n])
               PROVE  Letter(r[k][m]) # Letter(r[l][n])
    OBVIOUS
  <2>1. ASSUME l \in 1 .. Len(s), r[l] = s[l] PROVE Letter(r[k][m]) # Letter(r[l][n])
    <3>1. k \in 1 .. Len(s)
      BY <2>1
    <3>2. r[k] = s[k]
      BY <3>1, <1>3
    <3>3. m \in At(s, k) /\ n \in At(s, l) /\ Ordinary(b, s[l][n])
      BY <3>2, <2>1 DEF At
    <3>4. Letter(s[k][m]) # Letter(s[l][n])
      BY <3>1, <3>3, <2>1 DEF Many
    <3> QED
      BY <3>2, <3>4, <2>1
  <2>2. ASSUME k \in 1 .. Len(s), r[k] = s[k], l - Len(s) \in 1 .. Len(t), r[l] = t[l - Len(s)]
        PROVE  Letter(r[k][m]) # Letter(r[l][n])
    <3>1. Letter(r[k][m]) <= mid
      BY <2>2 DEF Many, At
    <3>2. mid < Letter(r[l][n])
      BY <2>2 DEF Many, At
    <3> QED
      BY <3>1, <3>2, <1>5
  <2>3. ASSUME k - Len(s) \in 1 .. Len(t), r[k] = t[k - Len(s)],
               l - Len(s) \in 1 .. Len(t), r[l] = t[l - Len(s)]
        PROVE  Letter(r[k][m]) # Letter(r[l][n])
    <3>1. k - Len(s) < l - Len(s) \/ (k - Len(s) = l - Len(s) /\ m < n)
      BY <1>1
    <3>2. m \in At(t, k - Len(s)) /\ n \in At(t, l - Len(s))
      BY <2>3 DEF At
    <3> DEFINE x == k - Len(s)
               y == l - Len(s)
    <3>3. /\ x \in 1 .. Len(t) /\ y \in 1 .. Len(t) /\ (x < y \/ (x = y /\ m < n))
          /\ m \in At(t, x) /\ n \in At(t, y)
          /\ r[k] = t[x] /\ r[l] = t[y] /\ Ordinary(b, t[y][n])
      BY <3>1, <3>2, <2>3
    <3> HIDE DEF x, y
    <3> QED
      BY <3>3 DEF Many
  <2> QED
    BY <1>2, <2>1, <2>2, <2>3
<1>10. Many(b, r, lo, hi)
  BY <1>6, <1>7, <1>8, <1>9 DEF Many
<1> QED
  BY <1>10 DEF r

\* A text cut in pieces of Limit and what is left of it.
Pieces(s, p) == [i \in 1 .. p |-> SubSeq(s, (i - 1) * Limit + 1, i * Limit)]

LEMMA Times ==
  /\ \A p \in Nat : p * Limit \in Nat
  /\ \A p \in Nat : (p + 1) * Limit = p * Limit + Limit
  /\ 0 * Limit = 0
  BY LimitAssumption, SMTT(30)

LEMMA PieceType ==
  ASSUME NEW s \in Seq(Int), NEW p \in Nat, p * Limit <= Len(s)
  PROVE  /\ Pieces(s, p) \in Seq(Seq(Int))
         /\ Len(Pieces(s, p)) = p
<1>1. \A i \in 1 .. p : SubSeq(s, (i - 1) * Limit + 1, i * Limit) \in Seq(Int)
  <2> TAKE i \in 1 .. p
  <2>1. i - 1 \in Nat /\ (i - 1) + 1 = i /\ i <= p
    OBVIOUS
  <2>2. (i - 1) * Limit \in Nat /\ i * Limit = (i - 1) * Limit + Limit
    BY <2>1, Times
  <2>3. i * Limit <= p * Limit
    BY <2>1, LimitAssumption, SMTT(30)
  <2>4. i * Limit <= Len(s) /\ i * Limit \in Nat
    BY <2>3, Times
  <2> DEFINE lo == (i - 1) * Limit
             hi == i * Limit
  <2>5. lo \in Nat /\ hi \in Nat /\ hi <= Len(s)
    BY <2>2, <2>4
  <2> HIDE DEF lo, hi
  <2>6. SubSeq(s, lo + 1, hi) \in Seq(Int)
    BY <2>5
  <2> QED
    BY <2>6 DEF lo, hi
<1>2. Pieces(s, p) \in [1 .. p -> Seq(Int)]
  BY <1>1 DEF Pieces
<1> QED
  BY <1>2

LEMMA SameChunks ==
  ASSUME NEW s \in Seq(Seq(Int)), NEW t \in Seq(Seq(Int)), Len(s) = Len(t),
         \A i \in 1 .. Len(s) : s[i] = t[i]
  PROVE  s = t
<1>1. s = [i \in 1 .. Len(s) |-> s[i]] /\ DOMAIN s = 1 .. Len(s)
  OBVIOUS
<1>2. t = [i \in 1 .. Len(t) |-> t[i]] /\ DOMAIN t = 1 .. Len(t)
  OBVIOUS
<1> QED
  BY <1>1, <1>2, Zenon

LEMMA OneMore ==
  ASSUME NEW x \in Seq(Seq(Int)), NEW y \in Seq(Int)
  PROVE  /\ x \o <<y>> \in Seq(Seq(Int)) /\ Len(x \o <<y>>) = Len(x) + 1
         /\ (x \o <<y>>)[Len(x) + 1] = y
         /\ \A i \in 1 .. Len(x) : (x \o <<y>>)[i] = x[i]
  OBVIOUS

LEMMA PiecesAnother ==
  ASSUME NEW s \in Seq(Int), NEW p \in Nat, (p + 1) * Limit <= Len(s)
  PROVE  Pieces(s, p + 1) = Pieces(s, p) \o <<SubSeq(s, p * Limit + 1, (p + 1) * Limit)>>
<1> DEFINE a == Pieces(s, p + 1)
           c == Pieces(s, p)
           e == SubSeq(s, p * Limit + 1, (p + 1) * Limit)
           d == c \o <<e>>
<1>1. p + 1 \in Nat /\ p * Limit <= Len(s)
  BY Times, LimitAssumption
<1>2. a \in Seq(Seq(Int)) /\ Len(a) = p + 1
  BY <1>1, PieceType
<1>3. c \in Seq(Seq(Int)) /\ Len(c) = p
  BY <1>1, PieceType
<1>4. \A i \in 1 .. p + 1 : a[i] = SubSeq(s, (i - 1) * Limit + 1, i * Limit)
  BY DEF Pieces
<1>5. \A i \in 1 .. p : c[i] = SubSeq(s, (i - 1) * Limit + 1, i * Limit)
  BY DEF Pieces
<1>6. a[p + 1] = e
  <2>1. p + 1 \in 1 .. p + 1 /\ (p + 1) - 1 = p
    OBVIOUS
  <2> QED
    BY <2>1, <1>4
<1>7. \A i \in 1 .. p : a[i] = c[i]
  <2> TAKE i \in 1 .. p
  <2>1. i \in 1 .. p + 1
    OBVIOUS
  <2> HIDE DEF a, c
  <2> QED
    BY <2>1, <1>4, <1>5
<1>8. e \in Seq(Int)
  <2>1. p + 1 \in 1 .. Len(a)
    BY <1>2
  <2> HIDE DEF a, e
  <2> QED
    BY <2>1, <1>6, <1>2
<1> HIDE DEF a, c, e
<1>9. /\ d \in Seq(Seq(Int)) /\ Len(d) = p + 1 /\ d[p + 1] = e
      /\ \A i \in 1 .. p : d[i] = c[i]
  <2>1. /\ d \in Seq(Seq(Int)) /\ Len(d) = Len(c) + 1 /\ d[Len(c) + 1] = e
        /\ \A i \in 1 .. Len(c) : d[i] = c[i]
    BY <1>3, <1>8, OneMore
  <2> QED  BY <2>1, <1>3
<1> HIDE DEF d
<1>10. \A i \in 1 .. p + 1 : a[i] = d[i]
  <2> TAKE i \in 1 .. p + 1
  <2>1. i \in 1 .. p \/ i = p + 1
    OBVIOUS
  <2> QED
    BY <2>1, <1>6, <1>7, <1>9
<1>11. a = d
  BY <1>2, <1>9, <1>10, SameChunks
<1> QED
  BY <1>11 DEF a, c, d, e

LEMMA PiecesHold ==
  ASSUME NEW b, NEW s \in Seq(Int), NEW lo \in Nat, NEW hi \in Nat, lo <= hi, One(b, s, lo, hi)
  PROVE  \A p \in Nat : p * Limit <= Len(s) =>
           \E mid \in lo .. hi : /\ Many(b, Pieces(s, p), lo, mid)
                                 /\ Seg(b, s, p * Limit, Len(s), mid, hi)
<1> DEFINE Shared(p) == \E mid \in lo .. hi : /\ Many(b, Pieces(s, p), lo, mid)
                                            /\ Seg(b, s, p * Limit, Len(s), mid, hi)
           Bad == {p \in Nat : p * Limit <= Len(s) /\ ~Shared(p)}
<1> SUFFICES ASSUME Bad # {} PROVE FALSE
  OBVIOUS
<1>1. PICK p \in Bad : \A y \in Bad : p <= y
  <2>1. Bad \in SUBSET Nat
    OBVIOUS
  <2> HIDE DEF Bad
  <2> QED
    BY <2>1, NatMin
<1>2. p \in Nat /\ p * Limit <= Len(s) /\ ~Shared(p)
  OBVIOUS
<1>3. Shared(0)
  <2>1. Pieces(s, 0) = << >>
    BY DEF Pieces
  <2>2. Many(b, Pieces(s, 0), lo, lo)
    BY <2>1, ManyNone
  <2>3. Seg(b, s, 0 * Limit, Len(s), lo, hi)
    BY Times DEF One
  <2>4. lo \in lo .. hi
    OBVIOUS
  <2> QED
    BY <2>2, <2>3, <2>4
<1>4. p # 0
  BY <1>2, <1>3
<1> DEFINE q == p - 1
<1>5. q \in Nat /\ p = q + 1 /\ ~(p <= q)
  BY <1>2, <1>4
<1> HIDE DEF q
<1>6. /\ p * Limit = q * Limit + Limit /\ q * Limit \in Nat /\ p * Limit \in Nat
      /\ q * Limit <= p * Limit /\ q * Limit <= Len(s)
  <2>1. p * Limit = q * Limit + Limit /\ q * Limit \in Nat
    BY <1>5, Times
  <2> QED
    BY <2>1, <1>2, LimitAssumption
<1>7. Shared(q)
  BY <1>1, <1>5, <1>6
<1>8. PICK m \in lo .. hi : Many(b, Pieces(s, q), lo, m) /\ Seg(b, s, q * Limit, Len(s), m, hi)
  BY <1>7
<1> HIDE DEF Shared, Bad
<1>9. m \in Nat /\ lo <= m /\ m <= hi /\ Len(s) \in Nat /\ Len(s) <= Len(s)
  OBVIOUS
<1>10. PICK w \in m .. hi : /\ Seg(b, s, q * Limit, p * Limit, m, w)
                            /\ Seg(b, s, p * Limit, Len(s), w, hi)
  BY <1>8, <1>9, <1>6, <1>2, SegCut
<1>11. w \in Nat /\ m <= w /\ w \in lo .. hi
  BY <1>9
<1> DEFINE e == SubSeq(s, q * Limit + 1, p * Limit)
<1>12. One(b, e, m, w)
  BY <1>10, <1>9, <1>11, <1>6, <1>2, SegSub
<1>13. Pieces(s, p) = Pieces(s, q) \o <<e>>
  <2>1. (q + 1) * Limit <= Len(s)
    BY <1>5, <1>2
  <2> QED
    BY <2>1, <1>5, PiecesAnother
<1>14. e \in Seq(Int) /\ Pieces(s, q) \in Seq(Seq(Int)) /\ <<e>> \in Seq(Seq(Int))
  <2>1. Pieces(s, q) \in Seq(Seq(Int))
    BY <1>5, <1>6, PieceType
  <2>2. e \in Seq(Int)
    BY <1>6, <1>2
  <2> HIDE DEF e
  <2> QED
    BY <2>1, <2>2
<1> HIDE DEF e
<1>15. Many(b, <<e>>, m, w)
  BY <1>12, <1>14, <1>9, <1>11, ManyOne
<1>16. Many(b, Pieces(s, p), lo, w)
  BY <1>8, <1>15, <1>13, <1>14, <1>9, <1>11, ManyConcat
<1> QED
  BY <1>16, <1>10, <1>11, <1>2 DEF Shared

LEMMA PieceCount ==
  \A n \in Nat : n \div Limit \in Nat /\ (n \div Limit) * Limit <= n
  BY LimitAssumption, SMTT(60)

\* rstrip leaves what is before the last letter, backtick or other character.
LEMMA StrippedIs ==
  ASSUME NEW s \in Seq(Int)
  PROVE  \E q \in 0 .. Len(s) : /\ Stripped(s) = SubSeq(s, 1, q)
                                /\ \A k \in q + 1 .. Len(s) : s[k] = 0
<1> DEFINE kept == {k \in 1 .. Len(s) : s[k] # Newline}
           last == CHOOSE k \in kept : \A j \in kept : j <= k
<1>1. CASE kept = {}
  <2>1. Stripped(s) = SubSeq(s, 1, 0)
    BY <1>1 DEF Stripped
  <2>2. \A k \in 0 + 1 .. Len(s) : s[k] = 0
    BY <1>1 DEF Newline
  <2>3. 0 \in 0 .. Len(s)
    OBVIOUS
  <2> QED
    BY <2>1, <2>2, <2>3
<1>2. CASE kept # {}
  <2>1. \E x \in kept : \A y \in kept : y <= x
    <3>1. kept \in SUBSET Nat /\ Len(s) \in Nat /\ \A y \in kept : y <= Len(s)
      OBVIOUS
    <3> HIDE DEF kept
    <3> QED
      BY <3>1, <1>2, NatMax
  <2>2. last \in kept /\ \A j \in kept : j <= last
    <3> HIDE DEF kept
    <3> QED
      BY <2>1
  <2>3. Stripped(s) = SubSeq(s, 1, last)
    BY <1>2 DEF Stripped
  <2> HIDE DEF last
  <2>4. last \in 0 .. Len(s)
    BY <2>2
  <2>5. \A k \in last + 1 .. Len(s) : s[k] = 0
    <3> TAKE k \in last + 1 .. Len(s)
    <3>1. k \in 1 .. Len(s) /\ ~(k <= last)
      BY <2>4
    <3> QED
      BY <3>1, <2>2 DEF Newline
  <2> QED
    BY <2>3, <2>4, <2>5
<1> QED
  BY <1>1, <1>2

LEMMA StrippedHolds ==
  ASSUME NEW s \in Seq(Int), NEW lo \in Nat, NEW hi \in Nat, One("discord", s, lo, hi)
  PROVE  Stripped(s) \in Seq(Int) /\ One("discord", Stripped(s), lo, hi)
<1>1. PICK q \in 0 .. Len(s) : /\ Stripped(s) = SubSeq(s, 1, q)
                               /\ \A k \in q + 1 .. Len(s) : s[k] = 0
  BY StrippedIs
<1>2. q \in Nat /\ q <= Len(s) /\ 0 <= q /\ 0 + 1 = 1
  OBVIOUS
<1>3. \A n \in 1 .. Len(s) : n \in 1 .. q \/ Letter(s[n]) = 0
  <2> TAKE n \in 1 .. Len(s)
  <2>1. n \in 1 .. q \/ n \in q + 1 .. Len(s)
    BY <1>2
  <2> QED
    BY <2>1, <1>1 DEF Letter
<1>4. \A n \in 1 .. q : n \in 1 .. Len(s)
  BY <1>2
<1>o. /\ \A n \in 1 .. Len(s) : /\ Letter(s[n]) <= hi
                                /\ Ordinary("discord", s[n]) => lo < Letter(s[n])
      /\ \A v \in lo + 1 .. hi : \E n \in 1 .. Len(s) : Letter(s[n]) = v
      /\ \A n \in 1 .. Len(s) : \A u \in lo + 1 .. Letter(s[n]) - 1 :
           \E m \in 1 .. Len(s) : m < n /\ Letter(s[m]) = u
      /\ \A m, n \in 1 .. Len(s) :
           m < n /\ Ordinary("discord", s[n]) => Letter(s[m]) # Letter(s[n])
  BY OneIs
<1>5. Seg("discord", s, 0, q, lo, hi)
  <2>1. \A v \in lo + 1 .. hi : \E n \in 1 .. q : Letter(s[n]) = v
    <3> TAKE v \in lo + 1 .. hi
    <3>1. PICK n \in 1 .. Len(s) : Letter(s[n]) = v
      BY <1>o
    <3>2. n \in 1 .. q
      BY <3>1, <1>3
    <3> QED
      BY <3>1, <3>2
  <2>2. \A n \in 1 .. q : \A u \in lo + 1 .. Letter(s[n]) - 1 :
          \E m \in 1 .. q : m < n /\ Letter(s[m]) = u
    <3> TAKE n \in 1 .. q
    <3> TAKE u \in lo + 1 .. Letter(s[n]) - 1
    <3>1. PICK m \in 1 .. Len(s) : m < n /\ Letter(s[m]) = u
      BY <1>4, <1>o
    <3>2. m \in 1 .. q
      BY <3>1, <1>2
    <3> QED
      BY <3>1, <3>2
  <2>3. /\ \A n \in 1 .. q : /\ Letter(s[n]) <= hi
                             /\ Ordinary("discord", s[n]) => lo < Letter(s[n])
        /\ \A m, n \in 1 .. q :
             m < n /\ Ordinary("discord", s[n]) => Letter(s[m]) # Letter(s[n])
    BY <1>4, <1>o
  <2> QED
    BY <2>1, <2>2, <2>3, <1>2 DEF Seg
<1>6. One("discord", SubSeq(s, 0 + 1, q), lo, hi)
  BY <1>5, <1>2, SegSub
<1>7. SubSeq(s, 1, q) \in Seq(Int)
  BY <1>2
<1> QED
  BY <1>1, <1>6, <1>2, <1>7

\* Newlines, backticks and the text of a fence that has been shown may come again.
LEMMA OneOfOthers ==
  ASSUME NEW s \in Seq(Int), NEW lo \in Nat,
         \A n \in 1 .. Len(s) : s[n] <= 0 /\ Letter(s[n]) <= lo
  PROVE  One("discord", s, lo, lo)
<1>1. \A n \in 1 .. Len(s) : ~Ordinary("discord", s[n]) /\ Letter(s[n]) \in Nat
  <2> TAKE n \in 1 .. Len(s)
  <2>1. s[n] \in Int /\ ~(s[n] > 0)
    OBVIOUS
  <2> QED
    BY <2>1, LetterNat DEF Ordinary
<1>2. lo + 1 .. lo = {} /\ \A n \in 1 .. Len(s) : lo + 1 .. Letter(s[n]) - 1 = {}
  BY <1>1
<1> QED
  BY <1>1, <1>2, OneIs

\* Characters that are the letters after lo, one by one.
LEMMA OneOfLetters ==
  ASSUME NEW b, NEW lo \in Nat, NEW s \in Seq(Int), \A i \in 1 .. Len(s) : Letter(s[i]) = lo + i
  PROVE  One(b, s, lo, lo + Len(s))
<1> DEFINE n == Len(s)
<1>0. n \in Nat
  OBVIOUS
<1> HIDE DEF n
<1>1. \A i \in 1 .. n : Letter(s[i]) = lo + i
  BY DEF n
<1>2. \A i \in 1 .. n : lo + i <= lo + n /\ lo < lo + i
  BY <1>0
<1>3. \A v \in lo + 1 .. lo + n : v - lo \in 1 .. n /\ lo + (v - lo) = v
  BY <1>0
<1>4. \A v \in lo + 1 .. lo + n : \E i \in 1 .. n : Letter(s[i]) = v
  BY <1>1, <1>3
<1>5. \A i \in 1 .. n : \A u \in lo + 1 .. Letter(s[i]) - 1 :
        \E m \in 1 .. n : m < i /\ Letter(s[m]) = u
  <2> TAKE i \in 1 .. n
  <2> TAKE u \in lo + 1 .. Letter(s[i]) - 1
  <2>1. u - lo \in 1 .. n /\ u - lo < i /\ lo + (u - lo) = u
    BY <1>0, <1>1
  <2> QED
    BY <2>1, <1>1
<1>6. \A i, j \in 1 .. n : i < j => Letter(s[i]) # Letter(s[j])
  BY <1>0, <1>1
<1>7. \A i \in 1 .. n : Letter(s[i]) <= lo + n /\ (Ordinary(b, s[i]) => lo < Letter(s[i]))
  BY <1>1, <1>2
<1>8. 0 + 1 .. n = 1 .. n
  OBVIOUS
<1>9. Seg(b, s, 0, n, lo, lo + n)
  BY <1>4, <1>5, <1>6, <1>7, <1>8 DEF Seg
<1> QED
  BY <1>9 DEF n, One

LEMMA OneOfLine ==
  ASSUME NEW n \in Nat, NEW lo \in Nat
  PROVE  LET s == [i \in 1 .. n |-> lo + i]
         IN s \in Seq(Int) /\ Len(s) = n /\ One("discord", s, lo, lo + n)
<1> DEFINE s == [i \in 1 .. n |-> lo + i]
<1>1. s \in Seq(Int) /\ Len(s) = n /\ \A i \in 1 .. n : s[i] = lo + i
  OBVIOUS
<1> HIDE DEF s
<1>2. \A i \in 1 .. Len(s) : Letter(s[i]) = lo + i
  BY <1>1 DEF Letter
<1>3. One("discord", s, lo, lo + n)
  BY <1>1, <1>2, OneOfLetters
<1> QED
  BY <1>1, <1>3 DEF s

LEMMA SameText ==
  ASSUME NEW s \in Seq(Int), NEW t \in Seq(Int), Len(s) = Len(t),
         \A i \in 1 .. Len(s) : s[i] = t[i]
  PROVE  s = t
<1>1. s = [i \in 1 .. Len(s) |-> s[i]] /\ DOMAIN s = 1 .. Len(s)
  OBVIOUS
<1>2. t = [i \in 1 .. Len(t) |-> t[i]] /\ DOMAIN t = 1 .. Len(t)
  OBVIOUS
<1> QED
  BY <1>1, <1>2, Zenon

LEMMA JoinedTexts ==
  ASSUME NEW s \in Seq(Int), NEW t \in Seq(Int)
  PROVE  /\ s \o t \in Seq(Int) /\ Len(s \o t) = Len(s) + Len(t)
         /\ \A i \in 1 .. Len(s) + Len(t) :
              (s \o t)[i] = IF i <= Len(s) THEN s[i] ELSE t[i - Len(s)]
  OBVIOUS

LEMMA OneOfFence ==
  ASSUME NEW n \in Nat, NEW lo \in Nat
  PROVE  LET s == FenceLine \o [i \in 1 .. n |-> Marked(lo + i)]
         IN /\ s \in Seq(Int) /\ Len(s) = n + 3 /\ IsFence(s)
            /\ \A i \in 1 .. Len(s) : s[i] <= 0
            /\ One("discord", s, lo, lo + n)
<1> DEFINE t == [i \in 1 .. n |-> Marked(lo + i)]
           s == FenceLine \o t
<1>1. t \in Seq(Int) /\ Len(t) = n /\ \A i \in 1 .. n : t[i] = -1 - (lo + i)
  BY DEF Marked
<1>2. FenceLine \in Seq(Int) /\ Len(FenceLine) = 3 /\ \A i \in 1 .. 3 : FenceLine[i] = -1
  BY DEF FenceLine
<1> HIDE DEF t
<1> DEFINE f == FenceLine
<1>a. f \in Seq(Int) /\ Len(f) = 3 /\ s = f \o t
  BY <1>2
<1> HIDE DEF f, s
<1>b. /\ f \o t \in Seq(Int) /\ Len(f \o t) = Len(f) + Len(t)
      /\ \A i \in 1 .. Len(f) + Len(t) : (f \o t)[i] = IF i <= Len(f) THEN f[i] ELSE t[i - Len(f)]
  BY <1>1, <1>a, JoinedTexts
<1>3. /\ s \in Seq(Int) /\ Len(s) = 3 + n
      /\ \A i \in 1 .. 3 + n : s[i] = IF i <= 3 THEN f[i] ELSE t[i - 3]
  BY <1>1, <1>a, <1>b
<1>4. IsFence(s)
  <2> DEFINE h == SubSeq(s, 1, 3)
  <2>1. Len(s) >= 3
    BY <1>3
  <2>2. h \in Seq(Int) /\ Len(h) = 3 /\ \A i \in 1 .. 3 : h[i] = s[i]
    BY <2>1, <1>3
  <2>3. \A i \in 1 .. 3 : s[i] = -1
    BY <1>2, <1>3 DEF f
  <2> HIDE DEF h
  <2>4. h = FenceLine
    BY <2>2, <2>3, <1>2, SameText
  <2> QED
    BY <2>1, <2>4 DEF IsFence, h
<1>5. \A i \in 1 .. Len(s) : s[i] <= 0
  <2> TAKE i \in 1 .. Len(s)
  <2>1. CASE i <= 3
    BY <2>1, <1>2, <1>3 DEF f
  <2>2. CASE ~(i <= 3)
    <3>1. i - 3 \in 1 .. n /\ s[i] = t[i - 3]
      BY <2>2, <1>3
    <3> QED
      BY <3>1, <1>1
  <2> QED
    BY <2>1, <2>2
<1>6. One("discord", t, lo, lo + n)
  <2>1. \A i \in 1 .. Len(t) : Letter(t[i]) = lo + i
    BY <1>1 DEF Letter
  <2> QED
    BY <2>1, <1>1, OneOfLetters
<1>7. One("discord", FenceLine, lo, lo)
  <2>1. \A i \in 1 .. Len(FenceLine) : FenceLine[i] <= 0 /\ Letter(FenceLine[i]) <= lo
    BY <1>2 DEF Letter
  <2> QED
    BY <2>1, <1>2, OneOfOthers
<1>8. One("discord", s, lo, lo + n)
  <2>1. lo + n \in Nat /\ lo <= lo + n /\ lo <= lo
    OBVIOUS
  <2> QED
    BY <2>1, <1>1, <1>2, <1>6, <1>7, OneConcat DEF s
<1> QED
  BY <1>3, <1>4, <1>5, <1>8 DEF s, t

LEMMA OneOfCharacter ==
  ASSUME NEW n \in Nat, NEW c \in {n + 1, Marked(n + 1)}
  PROVE  c \in Int /\ <<c>> \in Seq(Int) /\ One("telegram", <<c>>, n, n + 1)
<1>1. c \in Int /\ Letter(c) = n + 1
  BY DEF Letter, Marked
<1> DEFINE s == <<c>>
<1>2. s \in Seq(Int) /\ Len(s) = 1 /\ \A i \in 1 .. Len(s) : i = 1 /\ s[i] = c
  BY <1>1
<1> HIDE DEF s
<1>3. One("telegram", s, n, n + 1)
  BY <1>1, <1>2, OneOfLetters
<1> QED
  BY <1>1, <1>2, <1>3 DEF s

\* The units of a chunk, and of one with another character.
LEMMA UnitsNat ==
  ASSUME NEW s \in Seq(Int)
  PROVE  Units(s) \in Nat
<1>1. IsFiniteSet(1 .. Len(s))
  BY FS_Interval
<1>2. IsFiniteSet({n \in 1 .. Len(s) : s[n] < 0})
  BY <1>1, FS_Subset
<1>3. Cardinality({n \in 1 .. Len(s) : s[n] < 0}) \in Nat
  BY <1>2, FS_CardinalityType
<1> QED
  BY <1>3 DEF Units

LEMMA UnitsNone == Units(<< >>) = 0
<1>1. {n \in 1 .. Len(<< >>) : (<< >>)[n] < 0} = {}
  OBVIOUS
<1> QED
  BY <1>1, FS_EmptySet DEF Units

LEMMA UnitsAppend ==
  ASSUME NEW s \in Seq(Int), NEW c \in Int
  PROVE  Units(Append(s, c)) = Units(s) + UnitsOf(c)
<1> DEFINE t == Append(s, c)
           old == {n \in 1 .. Len(s) : s[n] < 0}
           new == {n \in 1 .. Len(t) : t[n] < 0}
<1>1. t \in Seq(Int) /\ Len(t) = Len(s) + 1 /\ t[Len(s) + 1] = c /\ Len(s) \in Nat
  OBVIOUS
<1>2. \A n \in 1 .. Len(s) : t[n] = s[n]
  OBVIOUS
<1>3. 1 .. Len(t) = 1 .. Len(s) \cup {Len(s) + 1}
  BY <1>1
<1>u. Units(s) = Len(s) + Cardinality(old) /\ Units(t) = Len(t) + Cardinality(new)
  BY DEF Units
<1> HIDE DEF t
<1>4. IsFiniteSet(old) /\ Cardinality(old) \in Nat
  <2>1. IsFiniteSet(1 .. Len(s)) /\ old \subseteq 1 .. Len(s)
    BY FS_Interval
  <2> QED
    BY <2>1, FS_Subset, FS_CardinalityType
<1>5. ASSUME c < 0 PROVE Units(t) = Units(s) + UnitsOf(c)
  <2>1. new = old \cup {Len(s) + 1}
    BY <1>1, <1>2, <1>3, <1>5
  <2>2. Len(s) + 1 \notin old
    OBVIOUS
  <2> HIDE DEF old, new
  <2>3. Cardinality(new) = Cardinality(old) + 1
    BY <2>1, <2>2, <1>4, FS_AddElement
  <2> QED
    BY <2>3, <1>u, <1>1, <1>4, <1>5 DEF UnitsOf
<1>6. ASSUME ~(c < 0) PROVE Units(t) = Units(s) + UnitsOf(c)
  <2>1. new = old
    BY <1>1, <1>2, <1>3, <1>6
  <2>2. Cardinality(new) = Cardinality(old)
    BY <2>1
  <2> HIDE DEF old, new
  <2> QED
    BY <2>2, <1>u, <1>1, <1>4, <1>6 DEF UnitsOf
<1>7. Units(t) = Units(s) + UnitsOf(c)
  BY <1>5, <1>6
<1> QED
  BY <1>7 DEF t

-----------------------------------------------------------------------------

\* What has been sent off holds the text up to some letter, the current chunk
\* what comes after it.
Cut ==
  \E mid \in 0 .. letters : Many(bot, chunks, 0, mid) /\ One(bot, current, mid, letters)

\* The width that is kept is the units of the current chunk.
Within ==
  bot = "telegram" =>
    /\ width = Units(current) /\ width <= UnitLimit
    /\ \A k \in 1 .. Len(chunks) : Units(chunks[k]) <= UnitLimit

\* The fence that is kept has been shown.
FenceShown == \A n \in 1 .. Len(lang) : lang[n] <= 0 /\ Letter(lang[n]) <= letters

ChunksInv == ChunksTypeOK /\ Cut /\ Within /\ FenceShown

LEMMA ChunksInvInit == ChunksInit => ChunksInv
<1> SUFFICES ASSUME ChunksInit PROVE ChunksInv
  OBVIOUS
<1>1. chunks = << >> /\ current = << >> /\ lang = << >> /\ letters = 0 /\ width = 0
  BY DEF ChunksInit
<1>2. ChunksTypeOK
  <2>1. bot \in {"discord", "telegram"} /\ inBlock = FALSE /\ lang = << >> /\ lines = 0 /\ total = 0
    BY DEF ChunksInit
  <2> QED
    <3>1. << >> \in Seq(Seq(Int)) /\ << >> \in Seq(Int) /\ 0 \in Nat
      OBVIOUS
    <3>2. /\ chunks \in Seq(Seq(Int)) /\ current \in Seq(Int) /\ lang \in Seq(Int)
          /\ letters \in Nat /\ width \in Nat
      BY <3>1, <1>1
    <3> QED
      BY <3>1, <3>2, <2>1 DEF ChunksTypeOK
<1>3. Cut
  <2>1. 0 \in 0 .. letters
    BY <1>1
  <2> QED
    BY <2>1, <1>1, ManyNone, OneEmpty DEF Cut
<1>4. Within
  <2>1. 1 .. Len(chunks) = {}
    BY <1>1
  <2> QED
    BY <2>1, <1>1, UnitsNone, LimitAssumption DEF Within
<1>5. FenceShown
  <2>1. 1 .. Len(lang) = {}
    BY <1>1
  <2> QED
    BY <2>1 DEF FenceShown
<1> QED
  BY <1>2, <1>3, <1>4, <1>5 DEF ChunksInv

\* The letters of a line.
LettersAfter(line) == letters + (IF IsFence(line) THEN Len(line) - 3 ELSE Len(line))

LEMMA LineIs ==
  ASSUME ChunksTypeOK, NEW line \in Lines
  PROVE  /\ line \in Seq(Int) /\ LettersAfter(line) \in Nat /\ letters <= LettersAfter(line)
         /\ One("discord", line, letters, LettersAfter(line))
         /\ IsFence(line) => \A n \in 1 .. Len(line) : line[n] <= 0
<1>1. letters \in Nat
  BY DEF ChunksTypeOK
<1>2. CASE \E n \in FenceLengths : line = FenceLine \o [i \in 1 .. n |-> Marked(letters + i)]
  <2>1. PICK n \in FenceLengths : line = FenceLine \o [i \in 1 .. n |-> Marked(letters + i)]
    BY <1>2
  <2>2. n \in Nat
    BY LengthsAssumption
  <2>3. /\ line \in Seq(Int) /\ Len(line) = n + 3 /\ IsFence(line)
        /\ \A i \in 1 .. Len(line) : line[i] <= 0
        /\ One("discord", line, letters, letters + n)
    BY <2>1, <2>2, <1>1, OneOfFence
  <2>4. LettersAfter(line) = letters + n
    BY <2>2, <2>3, <1>1 DEF LettersAfter
  <2> QED
    BY <2>2, <2>3, <2>4, <1>1
<1>3. CASE \E n \in LineLengths : line = [i \in 1 .. n |-> letters + i]
  <2>1. PICK n \in LineLengths : line = [i \in 1 .. n |-> letters + i]
    BY <1>3
  <2>2. n \in Nat
    BY LengthsAssumption
  <2>3. line \in Seq(Int) /\ Len(line) = n /\ One("discord", line, letters, letters + n)
    BY <2>1, <2>2, <1>1, OneOfLine
  <2>4. ~IsFence(line)
    <3> SUFFICES ASSUME IsFence(line) PROVE FALSE
      OBVIOUS
    <3>1. Len(line) >= 3 /\ SubSeq(line, 1, 3) = FenceLine
      BY DEF IsFence
    <3>2. SubSeq(line, 1, 3)[1] = line[1] /\ line[1] = letters + 1
      BY <3>1, <2>1, <2>2, <2>3
    <3>3. FenceLine[1] = -1
      BY DEF FenceLine
    <3> QED
      BY <3>1, <3>2, <3>3, <1>1
  <2>5. LettersAfter(line) = letters + n
    BY <2>3, <2>4 DEF LettersAfter
  <2> QED
    BY <2>2, <2>3, <2>4, <2>5, <1>1
<1> QED
  BY <1>2, <1>3 DEF Lines

LEMMA TakesLine ==
  ASSUME ChunksInv, bot = "discord", NEW line \in Lines, TakeLine(line),
         letters' = LettersAfter(line), bot' = bot
  PROVE  /\ chunks' \in Seq(Seq(Int)) /\ current' \in Seq(Int) /\ inBlock' \in BOOLEAN
         /\ lang' \in Seq(Int)
         /\ Cut' /\ FenceShown'
<1>1. /\ chunks \in Seq(Seq(Int)) /\ current \in Seq(Int) /\ inBlock \in BOOLEAN
      /\ lang \in Seq(Int) /\ letters \in Nat
  BY DEF ChunksInv, ChunksTypeOK
<1> DEFINE next == LettersAfter(line)
           block == inBlock'
           close == IF block THEN Fence ELSE << >>
           prefix == IF block THEN lang' \o <<Newline>> ELSE << >>
           tail == <<Newline>>
           candidate == current \o line \o tail
           pending == prefix \o line \o tail
           pieces == (Len(pending) - 1) \div Limit
           sent == IF current = << >> THEN << >> ELSE <<Stripped(current \o close)>>
<1>2. /\ line \in Seq(Int) /\ next \in Nat /\ letters <= next /\ One("discord", line, letters, next)
      /\ IsFence(line) => \A n \in 1 .. Len(line) : line[n] <= 0
  BY LineIs DEF ChunksInv
<1>3. letters' = next
  OBVIOUS
<1>4. Fenced(line)
  BY DEF TakeLine
<1>5. inBlock' \in BOOLEAN
  <2>1. (~inBlock) \in BOOLEAN
    BY <1>1
  <2> QED
    BY <2>1, <1>1, <1>4 DEF Fenced
<1>6. IF Len(candidate) <= Limit
        THEN current' = candidate /\ UNCHANGED chunks
        ELSE /\ chunks' = chunks \o sent \o Pieces(pending, pieces)
             /\ current' = SubSeq(pending, pieces * Limit + 1, Len(pending))
  BY DEF TakeLine, Pieces
<1> HIDE DEF next, block
\* The fence that is kept is this line, or the one there was.
<1>k. \/ lang' = line /\ IsFence(line)
      \/ lang' = lang /\ ~(IsFence(line) /\ ~inBlock)
  BY <1>4 DEF Fenced
<1>e. lang' \in Seq(Int) /\ \A n \in 1 .. Len(lang') : lang'[n] <= 0 /\ Letter(lang'[n]) <= next
  <2>1. CASE lang' = line /\ IsFence(line)
    <3>1. \A n \in 1 .. Len(line) : Letter(line[n]) <= next
      BY <1>2, OneIs
    <3> QED
      BY <2>1, <3>1, <1>2
  <2>2. CASE lang' = lang
    <3>1. \A n \in 1 .. Len(lang) : lang[n] <= 0 /\ Letter(lang[n]) <= letters
      BY DEF ChunksInv, FenceShown
    <3>2. \A n \in 1 .. Len(lang) : Letter(lang[n]) \in Nat
      BY <1>1, LetterIn
    <3> QED
      BY <2>2, <3>1, <3>2, <1>1, <1>2
  <2> QED
    BY <1>k, <2>1, <2>2
<1>g. FenceShown'
  BY <1>3, <1>e DEF FenceShown
<1>7. FenceLine \in Seq(Int) /\ \A x \in Nat : One("discord", FenceLine, x, x)
  <2>1. FenceLine \in Seq(Int) /\ \A n \in 1 .. Len(FenceLine) : FenceLine[n] <= 0 /\ Letter(FenceLine[n]) = 0
    BY DEF FenceLine, Letter
  <2> QED
    BY <2>1, OneOfOthers
<1>8. tail \in Seq(Int) /\ \A x \in Nat : One("discord", tail, x, x)
  <2>1. tail \in Seq(Int) /\ \A n \in 1 .. Len(tail) : tail[n] <= 0 /\ Letter(tail[n]) = 0
    BY DEF Newline, Letter
  <2> HIDE DEF tail
  <2> QED
    BY <2>1, OneOfOthers
<1>f. close \in Seq(Int) /\ \A x \in Nat : One("discord", close, x, x)
  <2>1. CASE block
    <3>1. close = FenceLine \o tail
      BY <2>1 DEF Fence
    <3> HIDE DEF close, tail
    <3>2. close \in Seq(Int)
      BY <3>1, <1>7, <1>8
    <3>3. ASSUME NEW x \in Nat PROVE One("discord", close, x, x)
      <4>1. One("discord", FenceLine, x, x) /\ One("discord", tail, x, x) /\ x <= x
        BY <1>7, <1>8
      <4> QED
        BY <4>1, <3>1, <1>7, <1>8, OneConcat
    <3> QED
      BY <3>2, <3>3
  <2>2. CASE ~block
    <3>1. close = << >>
      BY <2>2
    <3> HIDE DEF close
    <3>2. \A x \in Nat : One("discord", << >>, x, x)
      BY OneEmpty
    <3> QED
      BY <3>1, <3>2
  <2> QED
    BY <2>1, <2>2
<1> HIDE DEF close, tail
\* What is put before the line has been shown before, or is the line itself.
<1>p. prefix \o line \in Seq(Int) /\ One("discord", prefix \o line, letters, next)
  <2>0. letters <= letters /\ next <= next
    BY <1>1, <1>2
  <2>1. CASE ~block
    <3>1. prefix = << >> /\ << >> \o line = line
      BY <2>1, <1>2
    <3> QED
      BY <3>1, <1>2
  <2>2. CASE block /\ lang' = line /\ IsFence(line)
    <3>1. prefix = line \o tail
      BY <2>2 DEF tail
    <3>2. line \o tail \in Seq(Int) /\ One("discord", line \o tail, letters, next)
      BY <2>0, <1>1, <1>2, <1>8, OneConcat
    <3>3. One("discord", line, next, next)
      BY <2>2, <1>2, <1>e, OneOfOthers
    <3> HIDE DEF prefix
    <3>4. prefix \in Seq(Int) /\ One("discord", prefix, letters, next)
      BY <3>1, <3>2
    <3>5. prefix \o line \in Seq(Int)
      BY <3>4, <1>2
    <3> QED
      BY <2>0, <3>3, <3>4, <3>5, <1>1, <1>2, OneConcat
  <2>3. CASE block /\ lang' = lang
    <3>1. prefix = lang \o tail
      BY <2>3 DEF tail
    <3>2. One("discord", lang, letters, letters)
      <4>1. \A n \in 1 .. Len(lang) : lang[n] <= 0 /\ Letter(lang[n]) <= letters
        BY DEF ChunksInv, FenceShown
      <4> QED
        BY <4>1, <1>1, OneOfOthers
    <3>3. lang \o tail \in Seq(Int) /\ One("discord", lang \o tail, letters, letters)
      BY <2>0, <3>2, <1>1, <1>8, OneConcat
    <3> HIDE DEF prefix
    <3>4. prefix \in Seq(Int) /\ One("discord", prefix, letters, letters)
      BY <3>1, <3>3
    <3>5. prefix \o line \in Seq(Int)
      BY <3>4, <1>2
    <3> QED
      BY <2>0, <3>4, <3>5, <1>1, <1>2, OneConcat
  <2> QED
    BY <1>k, <2>1, <2>2, <2>3
<1>9. PICK mid \in 0 .. letters : Many("discord", chunks, 0, mid) /\ One("discord", current, mid, letters)
  BY DEF ChunksInv, Cut
<1>10. mid \in Nat /\ mid <= letters /\ mid <= next /\ next <= next /\ letters <= letters /\ 0 \in Nat
  BY <1>1, <1>2
<1>11. candidate \in Seq(Int) /\ One("discord", candidate, mid, next)
  <2>1. current \o line \in Seq(Int) /\ One("discord", current \o line, mid, next)
    BY <1>1, <1>2, <1>9, <1>10, OneConcat
  <2>2. One("discord", tail, next, next)
    BY <1>2, <1>8
  <2> DEFINE both == current \o line
  <2>3. both \in Seq(Int) /\ One("discord", both, mid, next)
    BY <2>1
  <2> HIDE DEF both
  <2>4. both \o tail \in Seq(Int) /\ One("discord", both \o tail, mid, next)
    BY <2>2, <2>3, <1>2, <1>8, <1>10, OneConcat
  <2> QED
    BY <2>4 DEF both
<1>12. pending \in Seq(Int) /\ One("discord", pending, letters, next) /\ Len(pending) >= 1
  <2>2. One("discord", tail, next, next)
    BY <1>2, <1>8
  <2>3. Len(tail) = 1
    BY DEF tail
  <2> DEFINE both == prefix \o line
  <2>4. both \in Seq(Int) /\ One("discord", both, letters, next)
    BY <1>p
  <2> HIDE DEF both
  <2>5. both \o tail \in Seq(Int) /\ One("discord", both \o tail, letters, next)
    BY <2>2, <2>4, <1>1, <1>2, <1>8, <1>10, OneConcat
  <2>6. Len(both \o tail) >= 1
    BY <2>3, <2>4, <1>8
  <2> QED
    BY <2>5, <2>6 DEF both
<1>13. sent \in Seq(Seq(Int)) /\ Many("discord", sent, mid, letters)
  <2>1. CASE current = << >>
    <3>1. mid = letters
      BY <2>1, <1>9, <1>10, <1>1, OneOfNone
    <3> QED
      BY <2>1, <3>1, <1>1, ManyNone
  <2>2. CASE current # << >>
    <3> DEFINE closed == Stripped(current \o close)
    <3>1. current \o close \in Seq(Int) /\ One("discord", current \o close, mid, letters)
      BY <1>1, <1>f, <1>9, <1>10, OneConcat
    <3>2. closed \in Seq(Int) /\ One("discord", closed, mid, letters)
      BY <3>1, <1>1, <1>10, StrippedHolds
    <3>3. sent = <<closed>>
      BY <2>2
    <3> HIDE DEF closed, sent
    <3>4. Many("discord", <<closed>>, mid, letters)
      BY <3>2, <1>1, <1>10, ManyOne
    <3> QED
      BY <3>2, <3>3, <3>4
  <2> QED
    BY <2>1, <2>2
<1> HIDE DEF candidate, pending, sent
<1>14. CASE Len(candidate) <= Limit
  <2>1. current' = candidate /\ chunks' = chunks
    BY <1>6, <1>14
  <2>2. mid \in 0 .. next
    BY <1>10
  <2>3. Cut'
    BY <2>1, <2>2, <1>3, <1>9, <1>11 DEF Cut
  <2> QED
    BY <2>1, <2>3, <1>1, <1>5, <1>e, <1>g, <1>11
<1>15. CASE ~(Len(candidate) <= Limit)
  <2>1. pieces \in Nat /\ pieces * Limit <= Len(pending) - 1
    <3>1. Len(pending) - 1 \in Nat
      BY <1>12
    <3> QED
      BY <3>1, PieceCount
  <2> HIDE DEF pieces
  <2>2. pieces * Limit \in Nat /\ pieces * Limit <= Len(pending) /\ Len(pending) \in Nat
        /\ Len(pending) <= Len(pending)
    <3> DEFINE x == pieces * Limit
    <3>1. x \in Nat /\ x <= Len(pending) - 1
      BY <2>1, Times
    <3>2. Len(pending) \in Nat
      BY <1>12
    <3> HIDE DEF x
    <3>3. x <= Len(pending) /\ Len(pending) <= Len(pending)
      BY <3>1, <3>2
    <3> QED
      BY <3>1, <3>2, <3>3 DEF x
  <2>3. chunks' = (chunks \o sent) \o Pieces(pending, pieces)
    BY <1>6, <1>15
  <2>4. current' = SubSeq(pending, pieces * Limit + 1, Len(pending))
    BY <1>6, <1>15
  <2>5. PICK place \in letters .. next : /\ Many("discord", Pieces(pending, pieces), letters, place)
                                       /\ Seg("discord", pending, pieces * Limit, Len(pending), place, next)
    BY <1>1, <1>2, <1>12, <2>1, <2>2, PiecesHold
  <2>6. place \in Nat /\ letters <= place /\ place <= next /\ place \in 0 .. next
    BY <1>1, <1>2
  <2>7. One("discord", current', place, next)
    BY <2>2, <2>4, <2>5, <2>6, <1>2, <1>12, SegSub
  <2>8. current' \in Seq(Int)
    BY <2>2, <2>4, <1>12
  <2>9. Pieces(pending, pieces) \in Seq(Seq(Int))
    BY <2>1, <2>2, <1>12, PieceType
  <2>10. chunks \o sent \in Seq(Seq(Int)) /\ Many("discord", chunks \o sent, 0, letters)
    <3>1. 0 <= mid
      BY <1>10
    <3> QED
      BY <3>1, <1>1, <1>9, <1>10, <1>13, ManyConcat
  <2>11. chunks' \in Seq(Seq(Int)) /\ Many("discord", chunks', 0, place)
    <3>1. 0 <= letters
      BY <1>1
    <3> QED
      <4> DEFINE a == chunks \o sent
                 c == Pieces(pending, pieces)
      <4>1. /\ a \in Seq(Seq(Int)) /\ Many("discord", a, 0, letters)
            /\ c \in Seq(Seq(Int)) /\ Many("discord", c, letters, place)
            /\ chunks' = a \o c
        BY <2>3, <2>5, <2>9, <2>10
      <4> HIDE DEF a, c
      <4>2. Many("discord", a \o c, 0, place)
        BY <4>1, <3>1, <1>1, <1>10, <2>6, ManyConcat
      <4> QED
        BY <4>1, <4>2
  <2>12. Cut'
    BY <2>6, <2>7, <2>11, <1>3 DEF Cut
  <2> QED
    BY <2>8, <2>11, <2>12, <1>5, <1>e, <1>g
<1> QED
  BY <1>14, <1>15

LEMMA TakesCharacter ==
  ASSUME ChunksInv, bot = "telegram", NEW c \in {letters + 1, Marked(letters + 1)},
         AddCharacter(c), letters' = letters + 1, bot' = bot
  PROVE  /\ chunks' \in Seq(Seq(Int)) /\ current' \in Seq(Int) /\ width' \in Nat
         /\ Cut' /\ Within'
<1>1. /\ chunks \in Seq(Seq(Int)) /\ current \in Seq(Int) /\ letters \in Nat /\ width \in Nat
      /\ letters + 1 \in Nat
  BY DEF ChunksInv, ChunksTypeOK
<1>2. c \in Int /\ <<c>> \in Seq(Int) /\ One("telegram", <<c>>, letters, letters + 1)
  BY <1>1, OneOfCharacter
<1>3. UnitsOf(c) \in Nat /\ UnitsOf(c) <= UnitLimit /\ UnitLimit \in Nat
  BY <1>2, LimitAssumption DEF UnitsOf
<1>4. PICK mid \in 0 .. letters :
        Many("telegram", chunks, 0, mid) /\ One("telegram", current, mid, letters)
  BY DEF ChunksInv, Cut
<1>5. mid \in Nat /\ mid <= letters /\ 0 \in Nat /\ 0 <= mid /\ letters <= letters + 1
  BY <1>1
<1>6. width = Units(current) /\ width <= UnitLimit
      /\ \A k \in 1 .. Len(chunks) : Units(chunks[k]) <= UnitLimit
  BY DEF ChunksInv, Within
<1>7. CASE width + UnitsOf(c) > UnitLimit
  <2>1. chunks' = Append(chunks, current) /\ current' = <<c>> /\ width' = UnitsOf(c)
    BY <1>7 DEF AddCharacter
  <2>2. Append(chunks, current) = chunks \o <<current>> /\ <<current>> \in Seq(Seq(Int))
    BY <1>1
  <2>3. Many("telegram", <<current>>, mid, letters)
    BY <1>1, <1>4, <1>5, ManyOne
  <2>4. Many("telegram", chunks', 0, letters)
    BY <2>1, <2>2, <2>3, <1>1, <1>4, <1>5, ManyConcat
  <2>5. letters \in 0 .. letters'
    BY <1>1
  <2>6. Cut'
    BY <2>1, <2>4, <2>5, <1>2 DEF Cut
  <2>7. chunks' \in Seq(Seq(Int)) /\ \A k \in 1 .. Len(chunks') : Units(chunks'[k]) <= UnitLimit
    <3>1. chunks' \in Seq(Seq(Int)) /\ Len(chunks') = Len(chunks) + 1
          /\ chunks'[Len(chunks) + 1] = current /\ \A k \in 1 .. Len(chunks) : chunks'[k] = chunks[k]
      BY <2>1, <1>1
    <3>2. \A k \in 1 .. Len(chunks') : k \in 1 .. Len(chunks) \/ k = Len(chunks) + 1
      BY <3>1, <1>1
    <3> QED
      BY <3>1, <3>2, <1>6
  <2>8. Units(<<c>>) = UnitsOf(c)
    <3>1. Append(<< >>, c) = <<c>> /\ << >> \in Seq(Int)
      OBVIOUS
    <3>2. Units(Append(<< >>, c)) = Units(<< >>) + UnitsOf(c)
      BY <3>1, <1>2, UnitsAppend
    <3> QED
      BY <3>1, <3>2, <1>3, UnitsNone
  <2>9. Within'
    BY <2>1, <2>7, <2>8, <1>3 DEF Within
  <2> QED
    BY <2>1, <2>6, <2>7, <2>9, <1>2, <1>3
<1>8. CASE ~(width + UnitsOf(c) > UnitLimit)
  <2>1. chunks' = chunks /\ current' = Append(current, c) /\ width' = width + UnitsOf(c)
    BY <1>8 DEF AddCharacter
  <2>2. Append(current, c) = current \o <<c>> /\ Append(current, c) \in Seq(Int)
    BY <1>1, <1>2
  <2>3. One("telegram", current', mid, letters + 1)
    BY <2>1, <2>2, <1>1, <1>2, <1>4, <1>5, OneConcat
  <2>4. mid \in 0 .. letters'
    BY <1>1, <1>5
  <2>5. Cut'
    BY <2>1, <2>3, <2>4, <1>4 DEF Cut
  <2>6. Within'
    <3>1. Units(current') = width'
      BY <2>1, <1>1, <1>2, <1>6, UnitsAppend
    <3>2. width' <= UnitLimit
      BY <2>1, <1>1, <1>3, <1>8
    <3> QED
      BY <3>1, <3>2, <2>1, <1>6 DEF Within
  <2> QED
    BY <2>1, <2>2, <2>5, <2>6, <1>1, <1>3
<1> QED
  BY <1>7, <1>8

LEMMA ChunksInvStep == ChunksInv /\ [ChunksNext]_chunkVars => ChunksInv'
<1> SUFFICES ASSUME ChunksInv, [ChunksNext]_chunkVars PROVE ChunksInv'
  OBVIOUS
<1>0. ChunksTypeOK
  BY DEF ChunksInv
<1>1. CASE DiscordLine
  <2>1. /\ bot = "discord" /\ bot' = bot /\ width' = width /\ lines' = lines + 1
    BY <1>1 DEF DiscordLine
  <2>2. PICK line \in Lines : /\ TakeLine(line)
                              /\ letters' = LettersAfter(line)
                              /\ total' = total + Len(line) + 1
    BY <1>1 DEF DiscordLine, LettersAfter
  <2>3. /\ chunks' \in Seq(Seq(Int)) /\ current' \in Seq(Int) /\ inBlock' \in BOOLEAN
        /\ lang' \in Seq(Int) /\ Cut' /\ FenceShown'
    BY <2>1, <2>2, TakesLine
  <2>4. letters' \in Nat /\ line \in Seq(Int)
    BY <2>2, <1>0, LineIs
  <2>5. ChunksTypeOK'
    BY <2>1, <2>2, <2>3, <2>4, <1>0 DEF ChunksTypeOK
  <2>6. Within'
    BY <2>1 DEF Within
  <2> QED
    BY <2>3, <2>5, <2>6 DEF ChunksInv
<1>2. CASE TelegramCharacter
  <2>1. /\ bot = "telegram" /\ bot' = bot /\ letters' = letters + 1
        /\ inBlock' = inBlock /\ lang' = lang /\ lines' = lines /\ total' = total
    BY <1>2 DEF TelegramCharacter
  <2>2. PICK c \in {letters + 1, Marked(letters + 1)} : AddCharacter(c)
    BY <1>2 DEF TelegramCharacter
  <2>3. /\ chunks' \in Seq(Seq(Int)) /\ current' \in Seq(Int) /\ width' \in Nat
        /\ Cut' /\ Within'
    BY <2>1, <2>2, TakesCharacter
  <2>4. ChunksTypeOK'
    BY <2>1, <2>3, <1>0 DEF ChunksTypeOK
  <2>5. FenceShown'
    <3>1. \A n \in 1 .. Len(lang) : lang[n] <= 0 /\ Letter(lang[n]) <= letters
      BY DEF ChunksInv, FenceShown
    <3>2. letters \in Nat /\ \A n \in 1 .. Len(lang) : Letter(lang[n]) \in Nat
      BY <1>0, LetterIn DEF ChunksTypeOK
    <3> QED
      BY <2>1, <3>1, <3>2 DEF FenceShown
  <2> QED
    BY <2>3, <2>4, <2>5 DEF ChunksInv
<1>3. CASE UNCHANGED chunkVars
  BY <1>3 DEF chunkVars, ChunksInv, ChunksTypeOK, Cut, Within, FenceShown
<1> QED
  BY <1>1, <1>2, <1>3 DEF ChunksNext

\* The chunks and what they are made of keep their types (MessageChunks, the
\* two bots' splitting of an answer).
THEOREM ChunksTypeCorrect == ChunksSpec => []ChunksTypeOK
<1>1. ChunksInv => ChunksTypeOK
  BY DEF ChunksInv
<1> QED
  BY <1>1, ChunksInvInit, ChunksInvStep, PTL DEF ChunksSpec

-----------------------------------------------------------------------------

LEMMA ManyKeep ==
  ASSUME NEW b, NEW cs \in Seq(Seq(Int)), NEW n \in Nat, Many(b, cs, 0, n)
  PROVE  KeepText(b, cs, n)
<1>1. \A p \in Spots(cs) : p[1] \in 1 .. Len(cs) /\ p[2] \in At(cs, p[1])
  BY DEF Spots, At
<1>2. \A k \in 1 .. Len(cs) : \A m \in At(cs, k) : <<k, m>> \in Spots(cs)
  BY DEF Spots, At
<1>3. 0 + 1 = 1
  OBVIOUS
<1>4. \A p \in Spots(cs) : LetterAt(cs, p) \in 0 .. n
  <2> TAKE p \in Spots(cs)
  <2>1. cs[p[1]] \in Seq(Int)
    BY <1>1
  <2>2. cs[p[1]][p[2]] \in Int
    BY <1>1, <2>1 DEF At
  <2>3. Letter(cs[p[1]][p[2]]) \in Nat
    BY <2>2, LetterNat
  <2>4. Letter(cs[p[1]][p[2]]) <= n
    BY <1>1 DEF Many
  <2> QED
    BY <2>3, <2>4 DEF LetterAt
<1>5. \A v \in 1 .. n : \E p \in Spots(cs) : LetterAt(cs, p) = v
  <2> TAKE v \in 1 .. n
  <2>1. PICK k \in 1 .. Len(cs) : \E m \in At(cs, k) : Letter(cs[k][m]) = v
    BY <1>3 DEF Many
  <2>2. PICK m \in At(cs, k) : Letter(cs[k][m]) = v
    BY <2>1
  <2>3. <<k, m>> \in Spots(cs) /\ LetterAt(cs, <<k, m>>) = v
    BY <2>2, <1>2 DEF LetterAt
  <2> QED
    BY <2>3
<1>6. {LetterAt(cs, p) : p \in Spots(cs)} \ {0} = 1 .. n
  <2> DEFINE all == {LetterAt(cs, p) : p \in Spots(cs)}
  <2>1. \A x \in all : x \in 0 .. n
    BY <1>4
  <2>2. \A v \in 1 .. n : v \in all
    BY <1>5
  <2> HIDE DEF all
  <2>3. all \ {0} = 1 .. n
    BY <2>1, <2>2
  <2> QED
    BY <2>3 DEF all
<1>m. /\ \A l \in 1 .. Len(cs) : \A i \in At(cs, l) : \A u \in 0 + 1 .. Letter(cs[l][i]) - 1 :
           \E k \in 1 .. Len(cs) : \E m \in At(cs, k) :
             (k < l \/ (k = l /\ m < i)) /\ Letter(cs[k][m]) = u
      /\ \A k, l \in 1 .. Len(cs) : \A m \in At(cs, k) : \A i \in At(cs, l) :
           (k < l \/ (k = l /\ m < i)) /\ Ordinary(b, cs[l][i])
             => Letter(cs[k][m]) # Letter(cs[l][i])
  BY Zenon DEF Many
<1>7. ASSUME NEW p \in Spots(cs), NEW u \in 1 .. LetterAt(cs, p) - 1
      PROVE  u \in Shown(cs, p)
  <2> DEFINE l == p[1]
             j == p[2]
  <2>1. l \in 1 .. Len(cs) /\ j \in At(cs, l) /\ u \in 0 + 1 .. Letter(cs[l][j]) - 1
    BY <1>1, <1>3, <1>7 DEF LetterAt
  <2> HIDE DEF l, j
  <2>2. PICK k \in 1 .. Len(cs) : \E m \in At(cs, k) :
          (k < l \/ (k = l /\ m < j)) /\ Letter(cs[k][m]) = u
    BY <2>1, <1>m
  <2>3. PICK m \in At(cs, k) : (k < l \/ (k = l /\ m < j)) /\ Letter(cs[k][m]) = u
    BY <2>2
  <2>4. <<k, m>> \in Spots(cs) /\ LetterAt(cs, <<k, m>>) = u
    BY <2>3, <1>2 DEF LetterAt
  <2>5. Before(<<k, m>>, p)
    BY <2>3 DEF Before, l, j
  <2> QED
    BY <2>4, <2>5 DEF Shown
<1>8. ASSUME NEW p \in Spots(cs), Ordinary(b, cs[p[1]][p[2]]), NEW q \in Spots(cs), Before(q, p)
      PROVE  LetterAt(cs, p) # LetterAt(cs, q)
  <2>1. /\ p[1] \in 1 .. Len(cs) /\ p[2] \in At(cs, p[1])
        /\ q[1] \in 1 .. Len(cs) /\ q[2] \in At(cs, q[1])
        /\ (q[1] < p[1] \/ (q[1] = p[1] /\ q[2] < p[2]))
    BY <1>1, <1>8 DEF Before
  <2>2. Letter(cs[q[1]][q[2]]) # Letter(cs[p[1]][p[2]])
    BY <2>1, <1>8, <1>m, ZenonT(60)
  <2> QED
    BY <2>2 DEF LetterAt
<1>9. \A p \in Spots(cs) : 1 .. LetterAt(cs, p) - 1 \subseteq Shown(cs, p)
  BY <1>7
<1>10. \A p \in Spots(cs) :
         Ordinary(b, cs[p[1]][p[2]]) => LetterAt(cs, p) \notin Shown(cs, p)
  BY <1>8 DEF Shown
<1> QED
  BY <1>6, <1>9, <1>10 DEF KeepText

LEMMA ChunksInvKeeps == ChunksInv => ChunksKeepText
<1> SUFFICES ASSUME ChunksInv PROVE ChunksKeepText
  OBVIOUS
<1>1. /\ chunks \in Seq(Seq(Int)) /\ current \in Seq(Int) /\ letters \in Nat
  BY DEF ChunksInv, ChunksTypeOK
<1>2. PICK mid \in 0 .. letters : Many(bot, chunks, 0, mid) /\ One(bot, current, mid, letters)
  BY DEF ChunksInv, Cut
<1>3. mid \in Nat /\ mid <= letters /\ 0 <= mid /\ 0 \in Nat /\ letters <= letters
  BY <1>1
<1>4. ASSUME bot = "discord" PROVE KeepText(bot, DiscordChunks, letters)
  <2> DEFINE rest == Stripped(current)
             last == IF rest = << >> THEN << >> ELSE <<rest>>
  <2>1. rest \in Seq(Int) /\ One("discord", rest, mid, letters)
    BY <1>1, <1>2, <1>3, <1>4, StrippedHolds
  <2> HIDE DEF rest
  <2>2. last \in Seq(Seq(Int)) /\ Many("discord", last, mid, letters)
    <3>1. CASE rest = << >>
      <4>1. mid = letters
        BY <2>1, <3>1, <1>1, <1>3, OneOfNone
      <4> QED
        BY <3>1, <4>1, <1>1, ManyNone
    <3>2. CASE rest # << >>
      <4>1. Many("discord", <<rest>>, mid, letters)
        BY <2>1, <1>1, <1>3, ManyOne
      <4> QED
        BY <3>2, <4>1, <2>1
    <3> QED
      BY <3>1, <3>2
  <2>3. DiscordChunks = chunks \o last
    BY DEF DiscordChunks, rest
  <2> HIDE DEF last
  <2>4. DiscordChunks \in Seq(Seq(Int)) /\ Many("discord", DiscordChunks, 0, letters)
    BY <2>2, <2>3, <1>1, <1>2, <1>3, <1>4, ManyConcat
  <2> QED
    BY <2>4, <1>1, <1>4, ManyKeep
<1>5. ASSUME bot = "telegram"
      PROVE  LET all == Append(chunks, current) IN
               /\ KeepText(bot, all, letters)
               /\ \A k \in 1 .. Len(all) : Units(all[k]) <= UnitLimit
  <2> DEFINE all == Append(chunks, current)
  <2>1. all = chunks \o <<current>> /\ all \in Seq(Seq(Int)) /\ <<current>> \in Seq(Seq(Int))
    BY <1>1
  <2>2. /\ Len(all) = Len(chunks) + 1 /\ all[Len(chunks) + 1] = current
        /\ \A k \in 1 .. Len(chunks) : all[k] = chunks[k]
    BY <1>1
  <2> HIDE DEF all
  <2>3. Many(bot, <<current>>, mid, letters)
    BY <1>1, <1>2, <1>3, ManyOne
  <2>4. Many(bot, all, 0, letters)
    BY <2>1, <2>3, <1>1, <1>2, <1>3, ManyConcat
  <2>5. KeepText(bot, all, letters)
    BY <2>1, <2>4, <1>1, ManyKeep
  <2>6. \A k \in 1 .. Len(all) : Units(all[k]) <= UnitLimit
    <3>1. \A k \in 1 .. Len(all) : k \in 1 .. Len(chunks) \/ k = Len(chunks) + 1
      BY <2>2, <1>1
    <3>2. Units(current) <= UnitLimit /\ \A k \in 1 .. Len(chunks) : Units(chunks[k]) <= UnitLimit
      BY <1>5 DEF ChunksInv, Within
    <3> QED
      BY <3>1, <3>2, <2>2
  <2> QED
    BY <2>5, <2>6 DEF all
<1> QED
  BY <1>4, <1>5 DEF ChunksKeepText, TooLong

\* Wherever the cuts fall, the chunks of either bot hold every letter of the
\* text in order, and once, but for the text of a fence, which Discord's may hold
\* again; and Telegram's stay within its limit (_chunk_message, and the loop over
\* characters in telegram_bot).
THEOREM ChunksKeep == ChunksSpec => []ChunksKeepText
  BY ChunksInvInit, ChunksInvStep, ChunksInvKeeps, PTL DEF ChunksSpec


-----------------------------------------------------------------------------
(* The voice and the column of a terminal.                                  *)

\* The k-th of a finite set of numbers.
UpTo(ends, m) == {j \in ends : j <= m}

LEMMA UpToSize ==
  ASSUME NEW ends \in SUBSET Nat, IsFiniteSet(ends)
  PROVE  \A m \in Nat : IsFiniteSet(UpTo(ends, m)) /\ Cardinality(UpTo(ends, m)) \in Nat
<1> TAKE m \in Nat
<1>1. UpTo(ends, m) \subseteq ends
  BY DEF UpTo
<1> QED
  BY <1>1, FS_Subset, FS_CardinalityType

LEMMA PlaceIs ==
  ASSUME NEW n \in Nat, NEW ends \in SUBSET (1 .. n), NEW k \in 1 .. Cardinality(ends)
  PROVE  Place(ends, k) \in ends /\ Cardinality(UpTo(ends, Place(ends, k))) = k
<1> DEFINE Far == {m \in Nat : Cardinality(UpTo(ends, m)) >= k}
<1>1. ends \in SUBSET Nat /\ IsFiniteSet(ends) /\ Cardinality(ends) \in Nat /\ k \in Nat /\ k >= 1
  <2>1. IsFiniteSet(1 .. n)
    BY FS_Interval
  <2>2. IsFiniteSet(ends) /\ Cardinality(ends) \in Nat
    BY <2>1, FS_Subset, FS_CardinalityType
  <2> QED
    BY <2>2
<1>2. n \in Far
  <2>1. \A j \in ends : j <= n
    OBVIOUS
  <2>2. UpTo(ends, n) = ends
    BY <2>1 DEF UpTo
  <2> QED
    BY <2>2, <1>1
<1>3. PICK m \in Far : \A y \in Far : m <= y
  <2>1. Far \in SUBSET Nat /\ Far # {}
    BY <1>2
  <2> HIDE DEF Far
  <2> QED
    BY <2>1, NatMin
<1>4. m \in Nat /\ Cardinality(UpTo(ends, m)) >= k
  OBVIOUS
<1>5. m # 0
  <2>0. \A j \in ends : ~(j <= 0)
    OBVIOUS
  <2>1. UpTo(ends, 0) = {}
    BY <2>0 DEF UpTo
  <2>2. Cardinality(UpTo(ends, 0)) = 0
    BY <2>1, FS_EmptySet
  <2> QED
    BY <2>2, <1>1, <1>4
<1> DEFINE l == m - 1
<1>6. l \in Nat /\ m = l + 1 /\ ~(m <= l)
  BY <1>4, <1>5
<1>7. Cardinality(UpTo(ends, l)) < k /\ Cardinality(UpTo(ends, l)) \in Nat
  <2>1. l \notin Far
    BY <1>3, <1>6
  <2>2. Cardinality(UpTo(ends, l)) \in Nat
    BY <1>1, <1>6, UpToSize
  <2> QED
    BY <2>1, <2>2, <1>1, <1>6
<1> HIDE DEF l, Far
<1>u. \A j \in ends : j <= m <=> j <= l \/ j = m
  BY <1>1, <1>4, <1>6
<1>8. m \in ends /\ UpTo(ends, m) = UpTo(ends, l) \cup {m}
  <2>1. ASSUME m \notin ends PROVE FALSE
    <3>1. UpTo(ends, m) = UpTo(ends, l)
      BY <2>1, <1>u DEF UpTo
    <3> QED
      BY <3>1, <1>1, <1>4, <1>7
  <2>2. ASSUME m \in ends PROVE UpTo(ends, m) = UpTo(ends, l) \cup {m}
    BY <2>2, <1>u DEF UpTo
  <2> QED
    BY <2>1, <2>2
<1>9. Cardinality(UpTo(ends, m)) = Cardinality(UpTo(ends, l)) + 1
  <2>1. m \notin UpTo(ends, l) /\ IsFiniteSet(UpTo(ends, l))
    BY <1>1, <1>4, <1>6, UpToSize DEF UpTo
  <2> QED
    BY <2>1, <1>8, FS_AddElement
<1>10. Cardinality(UpTo(ends, m)) = k
  BY <1>1, <1>4, <1>7, <1>9
<1>11. \E i \in ends : Cardinality({j \in ends : j <= i}) = k
  BY <1>8, <1>10 DEF UpTo
<1>12. Place(ends, k) \in ends /\ Cardinality({j \in ends : j <= Place(ends, k)}) = k
  BY <1>11 DEF Place
<1> QED
  BY <1>12 DEF UpTo

LEMMA PlaceOrder ==
  ASSUME NEW n \in Nat, NEW ends \in SUBSET (1 .. n)
  PROVE  /\ \A k, l \in 1 .. Cardinality(ends) : k < l => Place(ends, k) < Place(ends, l)
         /\ \A i \in ends : \E k \in 1 .. Cardinality(ends) : Place(ends, k) = i
<1>1. ends \in SUBSET Nat /\ IsFiniteSet(ends) /\ Cardinality(ends) \in Nat
  <2>1. IsFiniteSet(1 .. n)
    BY FS_Interval
  <2>2. IsFiniteSet(ends) /\ Cardinality(ends) \in Nat
    BY <2>1, FS_Subset, FS_CardinalityType
  <2> QED
    BY <2>2
\* More of them are up to a later one.
<1>2. ASSUME NEW i \in ends, NEW j \in ends, i < j
      PROVE  Cardinality(UpTo(ends, i)) < Cardinality(UpTo(ends, j))
  <2>1. i \in Nat /\ j \in Nat
    BY <1>1
  <2>0. j <= j /\ ~(j <= i) /\ \A x \in ends : x <= i => x <= j
    BY <2>1, <1>1, <1>2
  <2>2. UpTo(ends, i) \subseteq UpTo(ends, j) /\ j \in UpTo(ends, j) /\ j \notin UpTo(ends, i)
    BY <2>0 DEF UpTo
  <2>3. /\ IsFiniteSet(UpTo(ends, i)) /\ Cardinality(UpTo(ends, i)) \in Nat
        /\ IsFiniteSet(UpTo(ends, j)) /\ Cardinality(UpTo(ends, j)) \in Nat
    BY <2>1, <1>1, UpToSize
  <2>4. UpTo(ends, i) \cup {j} \subseteq UpTo(ends, j)
    BY <2>2
  <2>5. Cardinality(UpTo(ends, i) \cup {j}) = Cardinality(UpTo(ends, i)) + 1
    BY <2>2, <2>3, FS_AddElement
  <2>6. Cardinality(UpTo(ends, i) \cup {j}) <= Cardinality(UpTo(ends, j))
    BY <2>3, <2>4, FS_Subset
  <2> QED
    BY <2>3, <2>5, <2>6
<1>3. \A k, l \in 1 .. Cardinality(ends) : k < l => Place(ends, k) < Place(ends, l)
  <2> SUFFICES ASSUME NEW k \in 1 .. Cardinality(ends), NEW l \in 1 .. Cardinality(ends), k < l
               PROVE  Place(ends, k) < Place(ends, l)
    OBVIOUS
  <2> DEFINE i == Place(ends, k)
             j == Place(ends, l)
  <2>1. i \in ends /\ j \in ends
    BY PlaceIs
  <2>2. Cardinality(UpTo(ends, i)) = k /\ Cardinality(UpTo(ends, j)) = l
    BY PlaceIs
  <2> HIDE DEF i, j
  <2>3. i \in Nat /\ j \in Nat
    BY <2>1, <1>1
  <2>4. i # j
    BY <2>2
  <2>5. ASSUME j < i PROVE FALSE
    <3>1. Cardinality(UpTo(ends, j)) < Cardinality(UpTo(ends, i))
      BY <2>1, <2>5, <1>2
    <3> QED
      BY <3>1, <2>2
  <2>6. i < j
    BY <2>3, <2>4, <2>5
  <2> QED
    BY <2>6 DEF i, j
<1>4. \A i \in ends : \E k \in 1 .. Cardinality(ends) : Place(ends, k) = i
  <2> TAKE i \in ends
  <2> DEFINE k == Cardinality(UpTo(ends, i))
  <2>1. i \in Nat /\ k \in Nat /\ IsFiniteSet(UpTo(ends, i))
    BY <1>1, UpToSize
  <2>2. k <= Cardinality(ends)
    <3>1. UpTo(ends, i) \subseteq ends
      BY DEF UpTo
    <3> QED
      BY <3>1, <1>1, FS_Subset
  <2>3. k # 0
    <3>1. i \in UpTo(ends, i)
      BY <2>1 DEF UpTo
    <3> QED
      BY <3>1, <2>1, FS_EmptySet
  <2> HIDE DEF k
  <2>4. k \in 1 .. Cardinality(ends)
    BY <2>1, <2>2, <2>3, <1>1
  <2> DEFINE j == Place(ends, k)
  <2>5. j \in ends /\ Cardinality(UpTo(ends, j)) = k
    BY <2>4, PlaceIs
  <2> HIDE DEF j
  <2>6. j \in Nat
    BY <2>5, <1>1
  <2>7. ~(j < i)
    <3> SUFFICES ASSUME j < i PROVE FALSE
      OBVIOUS
    <3>1. Cardinality(UpTo(ends, j)) < Cardinality(UpTo(ends, i))
      BY <2>5, <1>2
    <3> QED
      BY <3>1, <2>1, <2>5 DEF k
  <2>8. ~(i < j)
    <3> SUFFICES ASSUME i < j PROVE FALSE
      OBVIOUS
    <3>1. Cardinality(UpTo(ends, i)) < Cardinality(UpTo(ends, j))
      BY <2>5, <1>2
    <3> QED
      BY <3>1, <2>1, <2>5 DEF k
  <2>9. j = i
    BY <2>1, <2>6, <2>7, <2>8
  <2> QED
    BY <2>4, <2>9 DEF j
<1> QED
  BY <1>3, <1>4

\* What is parsed of some data: the lines that end there whole, in the order in
\* which they end.
LEMMA ParsedIs ==
  ASSUME NEW data \in Seq(Nat)
  PROVE  /\ Parsed(data) \in Seq(Nat)
         /\ \A k \in 1 .. Len(Parsed(data)) : \E i \in WholeEnds(data) :
              Parsed(data)[k] = data[i] \div LineBytes
         /\ \A i \in WholeEnds(data) : \E k \in 1 .. Len(Parsed(data)) :
              Parsed(data)[k] = data[i] \div LineBytes
         /\ \A k, l \in 1 .. Len(Parsed(data)) : k < l =>
              \E i, j \in WholeEnds(data) : /\ i < j
                                            /\ Parsed(data)[k] = data[i] \div LineBytes
                                            /\ Parsed(data)[l] = data[j] \div LineBytes
<1> DEFINE ends == WholeEnds(data)
           c == Cardinality(ends)
           parsed == [k \in 1 .. c |-> data[Place(ends, k)] \div LineBytes]
<1>1. Parsed(data) = parsed
  BY DEF Parsed
<1>2. Len(data) \in Nat /\ ends \in SUBSET (1 .. Len(data))
  BY DEF WholeEnds, EndsAt
<1>3. c \in Nat
  <2>1. IsFiniteSet(1 .. Len(data))
    BY <1>2, FS_Interval
  <2> QED
    BY <2>1, <1>2, FS_Subset, FS_CardinalityType
<1>4. \A k \in 1 .. c : Place(ends, k) \in ends
  BY <1>2, PlaceIs
<1>5. /\ \A k, l \in 1 .. c : k < l => Place(ends, k) < Place(ends, l)
      /\ \A i \in ends : \E k \in 1 .. c : Place(ends, k) = i
  BY <1>2, PlaceOrder
<1> HIDE DEF ends, c
<1>6. \A i \in ends : data[i] \div LineBytes \in Nat
  <2> TAKE i \in ends
  <2>1. data[i] \in Nat
    BY <1>2
  <2> QED
    BY <2>1 DEF LineBytes
<1>7. \A k \in 1 .. c : data[Place(ends, k)] \div LineBytes \in Nat
  BY <1>4, <1>6
<1>8. parsed \in Seq(Nat) /\ Len(parsed) = c
  BY <1>3, <1>7
<1>9. \A k \in 1 .. c : parsed[k] = data[Place(ends, k)] \div LineBytes
  OBVIOUS
<1> HIDE DEF parsed
<1>10. \A k \in 1 .. Len(parsed) : \E i \in ends : parsed[k] = data[i] \div LineBytes
  BY <1>4, <1>8, <1>9
<1>11. \A i \in ends : \E k \in 1 .. Len(parsed) : parsed[k] = data[i] \div LineBytes
  BY <1>5, <1>8, <1>9
<1>12. \A k, l \in 1 .. Len(parsed) : k < l =>
         \E i, j \in ends : /\ i < j
                            /\ parsed[k] = data[i] \div LineBytes
                            /\ parsed[l] = data[j] \div LineBytes
  BY <1>4, <1>5, <1>8, <1>9
<1> QED
  BY <1>1, <1>8, <1>10, <1>11, <1>12 DEF ends

\* What was read is read once: what a tailer holds back lies within its offset
\* and the file, in order, and after every line that it has read.
Reads(t, h, sz) ==
  /\ t.off \in Nat
  /\ \A i \in 1 .. Len(t.pending) :
       t.pending[i] # Broken => t.pending[i] <= t.off /\ t.pending[i] <= sz
  /\ \A i, j \in 1 .. Len(t.pending) :
       i < j /\ t.pending[i] # Broken /\ t.pending[j] # Broken => t.pending[i] < t.pending[j]
  /\ \A k \in 1 .. Len(h) :
       /\ LineBytes * h[k] <= t.off /\ LineBytes * h[k] <= sz
       /\ \A i \in 1 .. Len(t.pending) :
            t.pending[i] # Broken => LineBytes * h[k] < t.pending[i]
  /\ \A i, j \in 1 .. Len(h) : i < j => h[i] < h[j]

\* Unless a character broke, the tailer holds back half a line or nothing, and
\* has read the lines from the first one that are whole by then.
Follows(t, h, fr, sz) ==
  /\ t.off <= sz /\ t.off % 2 = 0
  /\ fr <= LineFrom(t.off)
  /\ t.pending = IF t.off % LineBytes = 0 \/ fr = LineFrom(t.off) THEN << >> ELSE <<t.off - 1, t.off>>
  /\ \A v \in Int : (\E k \in 1 .. Len(h) : h[k] = v) <=> v \in fr .. t.off \div LineBytes

\* A channel has of the lines read those that its failed posts did not lose.
Carries(p, h, l) == Rising(p) /\ LinesOf(p) = LinesOf(h) \ l /\ l \subseteq LinesOf(h)

Silent(c, f) == c = "speaker" /\ ~SpokenOf(f)

VoiceInv ==
  /\ VoiceTypeOK
  /\ \A c \in Channels, f \in Transcripts :
       IF Silent(c, f) THEN posted[c][f] = << >> ELSE Carries(posted[c][f], heard[f], lost[c][f])
  /\ \A f \in Transcripts :
       /\ size[f] % 2 = 0
       /\ tailer[f] = NoTailer => heard[f] = << >>
       /\ tailer[f] # NoTailer => Reads(tailer[f], heard[f], size[f])
       /\ tailer[f] # NoTailer /\ ~torn[f] => Follows(tailer[f], heard[f], first[f], size[f])

TailerType == [off : Nat, pending : Seq(Nat)]

LEMMA HeardBytesAre ==
  ASSUME NEW off \in Nat, NEW end \in Nat, off <= end
  PROVE  /\ HeardBytes(off, end) \in Seq(Nat) /\ Len(HeardBytes(off, end)) = end - off
         /\ \A i \in 1 .. end - off : HeardBytes(off, end)[i] \in {Broken, off + i}
         /\ Halves(off, end) = {} => \A i \in 1 .. end - off : HeardBytes(off, end)[i] = off + i
         /\ Counted(off, end) \in Nat /\ Counted(off, end) >= end - off
         /\ Halves(off, end) = {} => Counted(off, end) = end - off
<1>1. \A i \in 1 .. end - off : off + i \in Nat /\ off + i \in off + 1 .. end
  OBVIOUS
<1>2. end - off \in Nat
  OBVIOUS
<1> DEFINE b == HeardBytes(off, end)
<1>3. \A i \in 1 .. end - off : b[i] = IF HalfAt(off, off + i, end) THEN Broken ELSE off + i
  BY DEF HeardBytes
<1>4. b \in Seq(Nat) /\ Len(b) = end - off
  <2>1. \A i \in 1 .. end - off : (IF HalfAt(off, off + i, end) THEN Broken ELSE off + i) \in Nat
    BY <1>1 DEF Broken
  <2>2. b \in [1 .. end - off -> Nat]
    BY <2>1 DEF HeardBytes
  <2> HIDE DEF b
  <2> QED
    BY <2>2, <1>2
<1> HIDE DEF b
<1>5. \A i \in 1 .. end - off : b[i] \in {Broken, off + i}
  BY <1>3
<1>6. Halves(off, end) = {} => \A i \in 1 .. end - off : b[i] = off + i
  BY <1>1, <1>3 DEF Halves
<1>7. /\ Counted(off, end) \in Nat /\ Counted(off, end) >= end - off
      /\ Halves(off, end) = {} => Counted(off, end) = end - off
  BY <1>2 DEF Counted
<1> QED
  BY <1>4, <1>5, <1>6, <1>7 DEF b

LEMMA JoinIs ==
  ASSUME NEW s \in Seq(Nat), NEW t \in Seq(Nat)
  PROVE  /\ s \o t \in Seq(Nat) /\ Len(s \o t) = Len(s) + Len(t)
         /\ Len(s) \in Nat /\ Len(t) \in Nat
         /\ \A i \in 1 .. Len(s \o t) : (s \o t)[i] = IF i <= Len(s) THEN s[i] ELSE t[i - Len(s)]
  OBVIOUS

LEMMA DataIs ==
  ASSUME NEW t \in TailerType, NEW h \in Seq(Nat), NEW sz \in Nat, Reads(t, h, sz), t.off <= sz
  PROVE  LET data == t.pending \o HeardBytes(t.off, sz) IN
         /\ data \in Seq(Nat)
         /\ \A i \in 1 .. Len(data) : data[i] # Broken =>
              /\ data[i] <= sz
              /\ \A k \in 1 .. Len(h) : LineBytes * h[k] < data[i]
         /\ \A i, j \in 1 .. Len(data) :
              i < j /\ data[i] # Broken /\ data[j] # Broken => data[i] < data[j]
<1> DEFINE p == t.pending
           b == HeardBytes(t.off, sz)
           data == p \o b
<1>1. t.off \in Nat /\ p \in Seq(Nat)
  BY DEF TailerType
<1>2. b \in Seq(Nat) /\ Len(b) = sz - t.off /\ \A i \in 1 .. sz - t.off : b[i] \in {Broken, t.off + i}
  BY <1>1, HeardBytesAre
<1>3. /\ \A i \in 1 .. Len(p) : p[i] # Broken => p[i] <= t.off /\ p[i] <= sz
      /\ \A i, j \in 1 .. Len(p) : i < j /\ p[i] # Broken /\ p[j] # Broken => p[i] < p[j]
      /\ \A k \in 1 .. Len(h) :
           /\ LineBytes * h[k] <= t.off
           /\ \A i \in 1 .. Len(p) : p[i] # Broken => LineBytes * h[k] < p[i]
  BY DEF Reads
<1>4. \A k \in 1 .. Len(h) : LineBytes * h[k] \in Nat
  BY DEF LineBytes
<1> HIDE DEF p, b
<1>5. /\ data \in Seq(Nat) /\ Len(data) = Len(p) + Len(b) /\ Len(p) \in Nat /\ Len(b) \in Nat
      /\ \A i \in 1 .. Len(data) : data[i] = IF i <= Len(p) THEN p[i] ELSE b[i - Len(p)]
  BY <1>1, <1>2, JoinIs
<1> HIDE DEF data
<1>6. \A i \in 1 .. Len(data) : data[i] # Broken =>
        \/ i \in 1 .. Len(p) /\ data[i] = p[i]
        \/ ~(i <= Len(p)) /\ i - Len(p) \in 1 .. sz - t.off /\ data[i] = t.off + (i - Len(p))
  <2> SUFFICES ASSUME NEW i \in 1 .. Len(data), data[i] # Broken, ~(i <= Len(p))
               PROVE  i - Len(p) \in 1 .. sz - t.off /\ data[i] = t.off + (i - Len(p))
    BY <1>5, <1>1
  <2>1. i - Len(p) \in 1 .. sz - t.off
    <3>1. Len(b) = sz - t.off
      BY <1>2
    <3>2. Len(data) = Len(p) + (sz - t.off) /\ Len(p) \in Nat /\ sz - t.off \in Nat
      BY <3>1, <1>5
    <3> QED
      BY <3>2
  <2>2. data[i] = b[i - Len(p)]
    BY <1>5
  <2> QED
    BY <2>1, <2>2, <1>2
<1>7. \A i \in 1 .. Len(data) : data[i] # Broken =>
        /\ data[i] <= sz
        /\ \A k \in 1 .. Len(h) : LineBytes * h[k] < data[i]
  <2> SUFFICES ASSUME NEW i \in 1 .. Len(data), data[i] # Broken
               PROVE  /\ data[i] <= sz
                      /\ \A k \in 1 .. Len(h) : LineBytes * h[k] < data[i]
    OBVIOUS
  <2>1. CASE i \in 1 .. Len(p) /\ data[i] = p[i]
    BY <2>1, <1>3
  <2>2. CASE i - Len(p) \in 1 .. sz - t.off /\ data[i] = t.off + (i - Len(p))
    <3>1. data[i] <= sz /\ data[i] > t.off
      BY <2>2, <1>1
    <3>2. \A k \in 1 .. Len(h) : LineBytes * h[k] <= t.off /\ LineBytes * h[k] \in Nat
      BY <1>3, <1>4
    <3>3. data[i] \in Nat
      BY <1>5
    <3> QED
      BY <3>1, <3>2, <3>3, <1>1
  <2> QED
    BY <1>6, <2>1, <2>2
<1>8. \A i, j \in 1 .. Len(data) :
        i < j /\ data[i] # Broken /\ data[j] # Broken => data[i] < data[j]
  <2> SUFFICES ASSUME NEW i \in 1 .. Len(data), NEW j \in 1 .. Len(data), i < j,
                      data[i] # Broken, data[j] # Broken
               PROVE  data[i] < data[j]
    OBVIOUS
  <2>1. CASE j \in 1 .. Len(p) /\ data[j] = p[j]
    <3>1. i \in 1 .. Len(p) /\ data[i] = p[i]
      BY <2>1, <1>6
    <3> QED
      BY <3>1, <2>1, <1>3
  <2>2. CASE ~(j <= Len(p)) /\ j - Len(p) \in 1 .. sz - t.off /\ data[j] = t.off + (j - Len(p))
    <3>1. CASE i \in 1 .. Len(p) /\ data[i] = p[i]
      <4>1. data[i] <= t.off /\ data[i] \in Nat
        BY <3>1, <1>3, <1>5
      <4> QED
        BY <4>1, <2>2, <1>1
    <3>2. CASE i - Len(p) \in 1 .. sz - t.off /\ data[i] = t.off + (i - Len(p))
      BY <3>2, <2>2, <1>1
    <3> QED
      BY <3>1, <3>2, <1>6
  <2> QED
    BY <1>6, <2>1, <2>2
<1> QED
  BY <1>5, <1>7, <1>8 DEF data, p, b

\* The last of the ends.
LEMMA LastEndIs ==
  ASSUME NEW data \in Seq(Nat)
  PROVE  /\ LastEnd(data) \in 0 .. Len(data)
         /\ \A i \in EndsAt(data) : i <= LastEnd(data)
         /\ EndsAt(data) # {} => LastEnd(data) \in EndsAt(data)
<1>1. Len(data) \in Nat /\ EndsAt(data) \in SUBSET Nat /\ \A y \in EndsAt(data) : y <= Len(data)
  BY DEF EndsAt
<1>2. CASE EndsAt(data) = {}
  BY <1>2, <1>1 DEF LastEnd
<1>3. CASE EndsAt(data) # {}
  <2>1. \E x \in EndsAt(data) : \A y \in EndsAt(data) : y <= x
    BY <1>1, <1>3, NatMax
  <2>2. LastEnd(data) \in EndsAt(data) /\ \A y \in EndsAt(data) : y <= LastEnd(data)
    BY <1>3, <2>1 DEF LastEnd
  <2> QED
    BY <1>1, <2>2
<1> QED
  BY <1>2, <1>3

LEMMA RestIs ==
  ASSUME NEW data \in Seq(Nat)
  PROVE  /\ Rest(data) \in Seq(Nat) /\ Len(Rest(data)) = Len(data) - LastEnd(data)
         /\ \A j \in 1 .. Len(data) - LastEnd(data) :
              /\ LastEnd(data) + j \in 1 .. Len(data)
              /\ Rest(data)[j] = data[LastEnd(data) + j]
<1> DEFINE e == LastEnd(data)
<1>1. e \in 0 .. Len(data)
  BY LastEndIs
<1> HIDE DEF e
<1>2. \A j \in 1 .. Len(data) - e : e + j \in 1 .. Len(data)
  BY <1>1
<1>3. /\ SubSeq(data, e + 1, Len(data)) \in Seq(Nat)
      /\ Len(SubSeq(data, e + 1, Len(data))) = Len(data) - e
  BY <1>1
<1>4. \A j \in 1 .. Len(data) - e : SubSeq(data, e + 1, Len(data))[j] = data[e + j]
  BY <1>1
<1> QED
  BY <1>2, <1>3, <1>4 DEF Rest, e

\* Four times the line that ends in a byte is that byte.
LEMMA EndIsLine ==
  ASSUME NEW n \in Nat, EndOfLine(n)
  PROVE  n \div LineBytes \in Nat /\ LineBytes * (n \div LineBytes) = n
  BY DEF EndOfLine, LineBytes

LEMMA PollReads ==
  ASSUME NEW f, NEW t \in TailerType, NEW h \in Seq(Nat), size[f] \in Nat, Reads(t, h, size[f])
  PROVE  LET q == Poll(f, t) IN
         /\ q.t \in TailerType /\ q.lines \in Seq(Nat)
         /\ Reads(q.t, h \o q.lines, size[f])
<1> DEFINE sz == size[f]
           q == Poll(f, t)
<1>1. t.off \in Nat /\ sz \in Nat
  BY DEF TailerType
<1>2. CASE sz < t.off
  <2>1. q = [t |-> [off |-> sz, pending |-> << >>], lines |-> << >>]
    BY <1>2 DEF Poll
  <2>2. q.t \in TailerType /\ q.t.off = sz /\ q.t.pending = << >> /\ q.lines = << >>
    BY <2>1, <1>1 DEF TailerType
  <2> HIDE DEF q
  <2>3. h \o q.lines = h
    BY <2>2
  <2>4. Reads(q.t, h, sz)
    BY <2>2, <1>1 DEF Reads
  <2> QED
    BY <2>2, <2>3, <2>4 DEF q
<1>3. CASE ~(sz < t.off)
  <2> DEFINE data == t.pending \o HeardBytes(t.off, sz)
             got == Parsed(data)
             all == h \o got
  <2>1. t.off <= sz
    BY <1>1, <1>3
  <2>2. /\ data \in Seq(Nat)
        /\ \A i \in 1 .. Len(data) : data[i] # Broken =>
             /\ data[i] <= sz
             /\ \A k \in 1 .. Len(h) : LineBytes * h[k] < data[i]
        /\ \A i, j \in 1 .. Len(data) :
             i < j /\ data[i] # Broken /\ data[j] # Broken => data[i] < data[j]
    BY <2>1, <1>1, DataIs
  <2>3. q.t = [off |-> t.off + Counted(t.off, sz), pending |-> Rest(data)] /\ q.lines = got
    BY <1>3 DEF Poll
  <2> HIDE DEF data, q
  <2>4. q.t \in TailerType /\ q.t.off \in Nat /\ q.t.off >= sz /\ q.t.pending = Rest(data)
    <3>1. Counted(t.off, sz) \in Nat /\ Counted(t.off, sz) >= sz - t.off
      BY <1>1, <2>1, HeardBytesAre
    <3>2. Rest(data) \in Seq(Nat)
      BY <2>2, RestIs
    <3>3. t.off + Counted(t.off, sz) \in Nat /\ t.off + Counted(t.off, sz) >= sz
      BY <1>1, <3>1
    <3> QED
      BY <2>3, <3>2, <3>3 DEF TailerType
  <2>5. /\ got \in Seq(Nat)
        /\ \A k \in 1 .. Len(got) : \E i \in WholeEnds(data) : got[k] = data[i] \div LineBytes
        /\ \A k, l \in 1 .. Len(got) : k < l =>
             \E i, j \in WholeEnds(data) : /\ i < j
                                           /\ got[k] = data[i] \div LineBytes
                                           /\ got[l] = data[j] \div LineBytes
    BY <2>2, ParsedIs
  <2> HIDE DEF got
  <2>6. \A i \in WholeEnds(data) :
          /\ i \in 1 .. Len(data) /\ data[i] # Broken /\ data[i] \in Nat
          /\ i <= LastEnd(data)
          /\ data[i] \div LineBytes \in Nat /\ LineBytes * (data[i] \div LineBytes) = data[i]
    <3> TAKE i \in WholeEnds(data)
    <3>1. i \in EndsAt(data)
      BY DEF WholeEnds
    <3>2. i \in 1 .. Len(data) /\ EndOfLine(data[i])
      BY <3>1 DEF EndsAt
    <3>3. data[i] \in Nat
      BY <3>2, <2>2
    <3> QED
      BY <3>1, <3>2, <3>3, <2>2, LastEndIs, EndIsLine DEF EndOfLine
  <2>7. /\ all \in Seq(Nat) /\ Len(all) = Len(h) + Len(got)
        /\ \A k \in 1 .. Len(all) : all[k] = IF k <= Len(h) THEN h[k] ELSE got[k - Len(h)]
    BY <2>5
  <2> HIDE DEF all
  <2>8. \A k \in 1 .. Len(all) :
          \/ k \in 1 .. Len(h) /\ all[k] = h[k]
          \/ ~(k <= Len(h)) /\ k - Len(h) \in 1 .. Len(got) /\ all[k] = got[k - Len(h)]
    BY <2>5, <2>7
  <2>9. \A k \in 1 .. Len(got) :
          \E i \in WholeEnds(data) : LineBytes * got[k] = data[i]
    BY <2>5, <2>6
  <2>10. LastEnd(data) \in 0 .. Len(data)
    BY <2>2, LastEndIs
  \* What is left comes after every line of the data, and after those before.
  <2>11. \A j \in 1 .. Len(Rest(data)) : Rest(data)[j] # Broken =>
           /\ Rest(data)[j] <= sz
           /\ \A k \in 1 .. Len(h) : LineBytes * h[k] < Rest(data)[j]
           /\ \A i \in WholeEnds(data) : data[i] < Rest(data)[j]
    <3> SUFFICES ASSUME NEW j \in 1 .. Len(Rest(data)), Rest(data)[j] # Broken
                 PROVE  /\ Rest(data)[j] <= sz
                        /\ \A k \in 1 .. Len(h) : LineBytes * h[k] < Rest(data)[j]
                        /\ \A i \in WholeEnds(data) : data[i] < Rest(data)[j]
      OBVIOUS
    <3> DEFINE r == LastEnd(data) + j
    <3>1. r \in 1 .. Len(data) /\ Rest(data)[j] = data[r]
      BY <2>2, RestIs
    <3>2. \A i \in WholeEnds(data) : i < r
      <4> TAKE i \in WholeEnds(data)
      <4>1. i \in 1 .. Len(data) /\ i <= LastEnd(data)
        BY <2>6
      <4>2. j \in Nat /\ j >= 1
        OBVIOUS
      <4> QED
        BY <4>1, <4>2, <2>10
    <3> HIDE DEF r
    <3> QED
      BY <3>1, <3>2, <2>2, <2>6
  <2>12. \A i, j \in 1 .. Len(Rest(data)) :
           i < j /\ Rest(data)[i] # Broken /\ Rest(data)[j] # Broken => Rest(data)[i] < Rest(data)[j]
    <3> SUFFICES ASSUME NEW i \in 1 .. Len(Rest(data)), NEW j \in 1 .. Len(Rest(data)), i < j,
                        Rest(data)[i] # Broken, Rest(data)[j] # Broken
                 PROVE  Rest(data)[i] < Rest(data)[j]
      OBVIOUS
    <3> DEFINE r == LastEnd(data) + i
               u == LastEnd(data) + j
    <3>1. /\ r \in 1 .. Len(data) /\ Rest(data)[i] = data[r]
          /\ u \in 1 .. Len(data) /\ Rest(data)[j] = data[u]
      BY <2>2, RestIs
    <3>2. r < u
      BY <2>10
    <3> HIDE DEF r, u
    <3> QED
      BY <3>1, <3>2, <2>2
  <2>13. \A k \in 1 .. Len(all) :
           /\ LineBytes * all[k] <= sz /\ LineBytes * all[k] \in Nat
           /\ \A j \in 1 .. Len(Rest(data)) : Rest(data)[j] # Broken => LineBytes * all[k] < Rest(data)[j]
    <3> SUFFICES ASSUME NEW k \in 1 .. Len(all)
                 PROVE  /\ LineBytes * all[k] <= sz /\ LineBytes * all[k] \in Nat
                        /\ \A j \in 1 .. Len(Rest(data)) :
                             Rest(data)[j] # Broken => LineBytes * all[k] < Rest(data)[j]
      OBVIOUS
    <3>1. ASSUME k \in 1 .. Len(h), all[k] = h[k]
          PROVE  /\ LineBytes * all[k] <= sz
                 /\ \A j \in 1 .. Len(Rest(data)) :
                      Rest(data)[j] # Broken => LineBytes * all[k] < Rest(data)[j]
      BY <3>1, <2>11 DEF Reads
    <3>2. ASSUME k - Len(h) \in 1 .. Len(got), all[k] = got[k - Len(h)]
          PROVE  /\ LineBytes * all[k] <= sz
                 /\ \A j \in 1 .. Len(Rest(data)) :
                      Rest(data)[j] # Broken => LineBytes * all[k] < Rest(data)[j]
      <4>1. PICK i \in WholeEnds(data) : LineBytes * all[k] = data[i]
        BY <3>2, <2>9
      <4> QED
        BY <4>1, <2>6, <2>2, <2>11
    <3>3. all[k] \in Nat
      BY <2>7
    <3>4. LineBytes * all[k] \in Nat
      BY <3>3 DEF LineBytes
    <3> QED
      BY <3>1, <3>2, <3>4, <2>8
  <2>14. \A k, l \in 1 .. Len(all) : k < l => all[k] < all[l]
    <3> SUFFICES ASSUME NEW k \in 1 .. Len(all), NEW l \in 1 .. Len(all), k < l
                 PROVE  all[k] < all[l]
      OBVIOUS
    <3>t. all[k] \in Nat /\ all[l] \in Nat
      BY <2>7
    <3>1. ASSUME l \in 1 .. Len(h), all[l] = h[l] PROVE all[k] < all[l]
      <4>1. k \in 1 .. Len(h)
        BY <3>1
      <4>2. all[k] = h[k]
        BY <4>1, <2>8
      <4> QED
        BY <4>1, <4>2, <3>1 DEF Reads
    <3>2. ASSUME k \in 1 .. Len(h), all[k] = h[k],
                 l - Len(h) \in 1 .. Len(got), all[l] = got[l - Len(h)]
          PROVE  all[k] < all[l]
      <4>1. PICK i \in WholeEnds(data) : LineBytes * all[l] = data[i]
        BY <3>2, <2>9
      <4>2. LineBytes * all[k] < LineBytes * all[l]
        BY <4>1, <3>2, <2>2, <2>6
      <4> QED
        BY <4>2, <3>t DEF LineBytes
    <3>3. ASSUME k - Len(h) \in 1 .. Len(got), all[k] = got[k - Len(h)],
                 l - Len(h) \in 1 .. Len(got), all[l] = got[l - Len(h)]
          PROVE  all[k] < all[l]
      <4>1. k - Len(h) < l - Len(h)
        BY <2>7
      <4>2. PICK i, j \in WholeEnds(data) : /\ i < j
                                            /\ got[k - Len(h)] = data[i] \div LineBytes
                                            /\ got[l - Len(h)] = data[j] \div LineBytes
        BY <4>1, <3>3, <2>5
      <4>3. data[i] < data[j]
        BY <4>2, <2>2, <2>6
      <4>4. LineBytes * all[k] = data[i] /\ LineBytes * all[l] = data[j]
        BY <4>2, <3>3, <2>6
      <4>5. LineBytes * all[k] < LineBytes * all[l]
        BY <4>3, <4>4
      <4> QED
        BY <4>5, <3>t DEF LineBytes
    <3> QED
      BY <2>8, <3>1, <3>2, <3>3
  <2>15. \A j \in 1 .. Len(Rest(data)) : Rest(data)[j] # Broken => Rest(data)[j] <= q.t.off
    <3> SUFFICES ASSUME NEW j \in 1 .. Len(Rest(data)), Rest(data)[j] # Broken
                 PROVE  Rest(data)[j] <= q.t.off
      OBVIOUS
    <3>1. Rest(data)[j] <= sz /\ Rest(data)[j] \in Nat
      BY <2>2, <2>11, RestIs, SMTT(60)
    <3> QED
      BY <3>1, <2>4, <1>1
  <2>16. \A k \in 1 .. Len(all) : LineBytes * all[k] <= q.t.off
    <3> TAKE k \in 1 .. Len(all)
    <3>1. LineBytes * all[k] <= sz /\ LineBytes * all[k] \in Nat
      BY <2>13
    <3> QED
      BY <3>1, <2>4, <1>1
  <2>17. Reads(q.t, all, sz)
    BY <2>4, <2>11, <2>12, <2>13, <2>14, <2>15, <2>16 DEF Reads
  <2> QED
    BY <2>3, <2>4, <2>5, <2>17 DEF q, all
<1> QED
  BY <1>2, <1>3

LEMMA Fours ==
  \A n \in Nat :
    /\ n % 2 = 0 => n % 4 = 0 \/ n % 4 = 2
    /\ n % 4 = 0 => n = 4 * (n \div 4) /\ (n + 3) \div 4 = n \div 4
    /\ n % 4 = 2 => n = 4 * (n \div 4) + 2 /\ (n + 3) \div 4 = n \div 4 + 1
    /\ n \div 4 \in Nat
  OBVIOUS

LEMMA FourTimes ==
  /\ \A x \in Int : (4 * x) % 4 = 0
  /\ \A x, y \in Nat : x % 2 = 0 /\ y % 2 = 0 /\ x <= y /\ x # y => y - x >= 2
  /\ \A x \in Nat : x % 4 = 2 => (x - 1) % 4 # 0 /\ x % 4 # 0 /\ (x - 2) % 4 = 0
  /\ \A x \in Nat, y \in Nat : y >= 1 /\ (x = 4 * (y - 1) \/ x = 4 * (y - 1) - 2) => x % 2 = 0
  OBVIOUS

\* The bytes that a tailer has in hand at a sweep: what it held back and what
\* was written since, one after another from a byte b; g is the first line that
\* begins there.
Hand(data, h, fr, sz, b, g) ==
  /\ data \in Seq(Nat) /\ b <= sz /\ Len(data) = sz - b
  /\ \A i \in 1 .. Len(data) : data[i] = b + i
  /\ b = 4 * (g - 1) \/ (b = 4 * (g - 1) - 2 /\ fr = g)
  /\ fr <= g /\ g >= 1
  /\ \A v \in Int : (\E k \in 1 .. Len(h) : h[k] = v) <=> v \in fr .. g - 1

LEMMA InHand ==
  ASSUME NEW t \in TailerType, NEW h \in Seq(Nat), NEW fr \in Nat, NEW sz \in Nat, sz % 2 = 0,
         Follows(t, h, fr, sz), Halves(t.off, sz) = {}
  PROVE  \E b, g \in Nat : Hand(t.pending \o HeardBytes(t.off, sz), h, fr, sz, b, g)
<1> DEFINE p == t.pending
           w == HeardBytes(t.off, sz)
           data == p \o w
           off == t.off
<1>1. off \in Nat /\ p \in Seq(Nat) /\ off <= sz /\ off % 2 = 0
  BY DEF TailerType, Follows
<1>2. w \in Seq(Nat) /\ Len(w) = sz - off /\ \A i \in 1 .. sz - off : w[i] = off + i
  BY <1>1, HeardBytesAre
<1>3. /\ fr <= LineFrom(off)
      /\ p = IF off % LineBytes = 0 \/ fr = LineFrom(off) THEN << >> ELSE <<off - 1, off>>
      /\ \A v \in Int : (\E k \in 1 .. Len(h) : h[k] = v) <=> v \in fr .. off \div LineBytes
  BY DEF Follows
<1>4. LineFrom(off) = (off + 3) \div 4 + 1
  BY <1>1 DEF LineFrom, LineBytes
<1> HIDE DEF p, w, off
<1>5. /\ data \in Seq(Nat) /\ Len(data) = Len(p) + (sz - off) /\ Len(p) \in Nat
      /\ \A i \in 1 .. Len(data) : data[i] = IF i <= Len(p) THEN p[i] ELSE w[i - Len(p)]
  BY <1>1, <1>2, JoinIs
<1> HIDE DEF data
<1> SUFFICES \E b, g \in Nat : Hand(data, h, fr, sz, b, g)
  BY DEF data, p, w, off
<1>6. \A i \in 1 .. sz - off : w[i] = off + i
  BY <1>2
<1>7. ASSUME p = << >>
      PROVE  Len(data) = sz - off /\ \A i \in 1 .. Len(data) : data[i] = off + i
  <2>1. Len(p) = 0
    BY <1>7
  <2>2. Len(data) = sz - off
    BY <2>1, <1>1, <1>5
  <2>3. \A i \in 1 .. Len(data) : data[i] = w[i]
    <3> TAKE i \in 1 .. Len(data)
    <3>1. ~(i <= 0) /\ i - 0 = i
      OBVIOUS
    <3> QED
      BY <3>1, <2>1, <1>5
  <2> QED
    BY <2>2, <2>3, <1>6
<1>8. CASE off % 4 = 0
  <2> DEFINE g == off \div 4 + 1
  <2>1. g \in Nat /\ off = 4 * (g - 1) /\ LineFrom(off) = g /\ g >= 1 /\ off \div 4 = g - 1
    BY <1>1, <1>4, <1>8, Fours
  <2>2. p = << >>
    BY <1>3, <1>8 DEF LineBytes
  <2>3. \A v \in Int : (\E k \in 1 .. Len(h) : h[k] = v) <=> v \in fr .. g - 1
    BY <1>3, <2>1 DEF LineBytes
  <2> HIDE DEF g
  <2>4. Hand(data, h, fr, sz, off, g)
    BY <1>1, <1>3, <1>5, <1>7, <2>1, <2>2, <2>3 DEF Hand
  <2> QED
    BY <2>4, <2>1, <1>1
<1>9. CASE off % 4 = 2 /\ fr = LineFrom(off)
  <2> DEFINE g == off \div 4 + 2
  <2>1. g \in Nat /\ off = 4 * (g - 1) - 2 /\ LineFrom(off) = g /\ g >= 1 /\ off \div 4 = g - 2
    BY <1>1, <1>4, <1>9, Fours
  <2>2. p = << >>
    BY <1>3, <1>9
  <2>3. \A v \in Int : (\E k \in 1 .. Len(h) : h[k] = v) <=> v \in fr .. g - 1
    <3>1. fr = g
      BY <1>9, <2>1
    <3>2. fr .. off \div 4 = {} /\ fr .. g - 1 = {}
      BY <2>1, <3>1, SMTT(60)
    <3> QED
      BY <3>2, <1>3 DEF LineBytes
  <2> HIDE DEF g
  <2>4. Hand(data, h, fr, sz, off, g)
    BY <1>1, <1>5, <1>7, <1>9, <2>1, <2>2, <2>3 DEF Hand
  <2> QED
    BY <2>4, <2>1, <1>1
<1>10. CASE off % 4 = 2 /\ fr # LineFrom(off)
  <2> DEFINE g == off \div 4 + 1
             b == off - 2
  <2>1. g \in Nat /\ b \in Nat /\ b = 4 * (g - 1) /\ LineFrom(off) = g + 1 /\ g >= 1 /\ off \div 4 = g - 1
    BY <1>1, <1>4, <1>10, Fours
  <2>2. p = <<off - 1, off>>
    BY <1>3, <1>10 DEF LineBytes
  <2>3. \A v \in Int : (\E k \in 1 .. Len(h) : h[k] = v) <=> v \in fr .. g - 1
    BY <1>3, <2>1 DEF LineBytes
  <2>4. fr <= g
    BY <1>3, <1>10, <2>1
  <2>5. Len(p) = 2 /\ p[1] = b + 1 /\ p[2] = b + 2
    BY <2>1, <2>2, <1>1
  <2>6. b <= sz /\ Len(data) = sz - b
    BY <2>5, <1>1, <1>5
  <2>7. \A i \in 1 .. Len(data) : data[i] = b + i
    <3> TAKE i \in 1 .. Len(data)
    <3>1. CASE i = 1 \/ i = 2
      BY <3>1, <2>5, <1>5
    <3>2. CASE ~(i <= 2)
      <4>1. i - 2 \in 1 .. sz - off /\ off + (i - 2) = b + i
        BY <3>2, <2>6, <1>1
      <4>2. data[i] = w[i - 2]
        BY <3>2, <2>5, <1>5
      <4> QED
        BY <4>1, <4>2, <1>6
    <3> QED
      BY <3>1, <3>2
  <2> HIDE DEF g, b
  <2>8. Hand(data, h, fr, sz, b, g)
    BY <1>5, <2>1, <2>3, <2>4, <2>6, <2>7 DEF Hand
  <2> QED
    BY <2>8, <2>1
<1> QED
  BY <1>1, <1>8, <1>9, <1>10, Fours

\* The lines that end whole in such bytes are those from g.
LEMMA WholeOnes ==
  ASSUME NEW data \in Seq(Nat), NEW b \in Nat, NEW g \in Nat, NEW sz \in Nat, b <= sz,
         Len(data) = sz - b, \A i \in 1 .. Len(data) : data[i] = b + i,
         g >= 1, b = 4 * (g - 1) \/ b = 4 * (g - 1) - 2
  PROVE  \A v \in Int : (\E i \in WholeEnds(data) : data[i] \div LineBytes = v)
                          <=> v \in g .. sz \div 4
<1>1. \A i \in 1 .. Len(data) : EndOfLine(data[i]) <=> (b + i) % 4 = 0
  <2> TAKE i \in 1 .. Len(data)
  <2>1. data[i] = b + i /\ b + i # 0
    OBVIOUS
  <2> QED
    BY <2>1 DEF EndOfLine, Broken, LineBytes
<1>2. ASSUME NEW v \in Int, NEW i \in WholeEnds(data), data[i] \div LineBytes = v
      PROVE  v \in g .. sz \div 4
  <2>1. i \in 1 .. Len(data) /\ EndOfLine(data[i]) /\ i >= 4
    BY <1>2 DEF WholeEnds, EndsAt, WholeLine, LineBytes
  <2>2. (b + i) % 4 = 0 /\ (b + i) \div 4 = v
    BY <2>1, <1>1, <1>2 DEF LineBytes
  <2>3. b + i = 4 * v /\ b + i <= sz
    BY <2>1, <2>2
  <2>4. v >= g
    BY <2>1, <2>3
  <2>5. v <= sz \div 4
    BY <2>3
  <2> QED
    BY <2>4, <2>5
<1>3. ASSUME NEW v \in g .. sz \div 4
      PROVE  \E i \in WholeEnds(data) : data[i] \div LineBytes = v
  <2> DEFINE i == 4 * v - b
  <2>1. i \in Int /\ b + i = 4 * v /\ i >= 4 /\ v >= 1
    OBVIOUS
  <2>2. 4 * v <= sz
    OBVIOUS
  <2> HIDE DEF i
  <2>3. i \in 1 .. Len(data) /\ data[i] = 4 * v
    BY <2>1, <2>2, SMTT(60)
  <2>4. EndOfLine(data[i]) /\ data[i] \div LineBytes = v
    BY <2>1, <2>3 DEF EndOfLine, Broken, LineBytes
  <2>5. \A k \in 1 .. 3 : data[i - k] = data[i] - k
    <3> TAKE k \in 1 .. 3
    <3>1. i - k \in 1 .. Len(data)
      BY <2>1, <2>3
    <3>2. data[i - k] = b + (i - k) /\ b + (i - k) = 4 * v - k
      BY <3>1, <2>1
    <3> QED
      BY <3>2, <2>3
  <2>6. i = 4 \/ EndOfLine(data[i - 4])
    <3>1. CASE i # 4
      <4>1. i - 4 \in 1 .. Len(data)
        BY <3>1, <2>1, <2>3
      <4>2. data[i - 4] = b + (i - 4) /\ b + (i - 4) = 4 * (v - 1) /\ b + (i - 4) >= 1
        BY <4>1, <2>1
      <4>3. (b + (i - 4)) % 4 = 0
        <5>1. v - 1 \in Int
          BY <2>1
        <5>2. (4 * (v - 1)) % 4 = 0
          BY <5>1, FourTimes
        <5> QED
          BY <5>2, <4>2
      <4> QED
        BY <4>1, <4>3, <1>1
    <3> QED
      BY <3>1
  <2>7. WholeLine(data, i)
    BY <2>1, <2>4, <2>5, <2>6 DEF WholeLine, LineBytes
  <2>8. i \in WholeEnds(data)
    BY <2>3, <2>4, <2>7 DEF WholeEnds, EndsAt
  <2> QED
    BY <2>8, <2>4
<1>4. g .. sz \div 4 \subseteq Int
  OBVIOUS
<1> QED
  BY <1>2, <1>3

\* And what is left of them is half a line or nothing.
LEMMA RestHalf ==
  ASSUME NEW data \in Seq(Nat), NEW b \in Nat, NEW sz \in Nat, b <= sz,
         Len(data) = sz - b, \A i \in 1 .. Len(data) : data[i] = b + i,
         b % 2 = 0, sz % 2 = 0
  PROVE  Rest(data) = IF sz % 4 = 0 \/ b = sz THEN << >> ELSE <<sz - 1, sz>>
<1> DEFINE e == LastEnd(data)
           r == Rest(data)
<1>1. \A i \in 1 .. Len(data) : i \in EndsAt(data) <=> (b + i) % 4 = 0
  <2> TAKE i \in 1 .. Len(data)
  <2>1. data[i] = b + i /\ b + i # 0
    OBVIOUS
  <2> QED
    BY <2>1 DEF EndsAt, EndOfLine, Broken, LineBytes
<1>2. /\ e \in 0 .. Len(data) /\ \A i \in EndsAt(data) : i <= e
      /\ EndsAt(data) # {} => e \in EndsAt(data)
  BY LastEndIs
<1>3. EndsAt(data) \subseteq 1 .. Len(data)
  BY DEF EndsAt
<1>4. /\ r \in Seq(Nat) /\ Len(r) = Len(data) - e
      /\ \A j \in 1 .. Len(data) - e : e + j \in 1 .. Len(data) /\ r[j] = data[e + j]
  BY RestIs
<1>0. Len(data) \in Nat /\ Len(data) = sz - b /\ e \in Nat /\ e <= Len(data)
  BY <1>2
<1> HIDE DEF e, r
<1>5. sz % 4 = 0 \/ sz % 4 = 2
  BY Fours
<1>6. CASE b = sz
  <2>0. Len(data) = 0
    BY <1>0, <1>6
  <2>1. Len(r) = 0
    BY <2>0, <1>0, <1>4
  <2>2. r = << >>
    BY <2>1, <1>4
  <2> QED
    BY <2>2, <1>6 DEF r
<1>7. CASE b # sz /\ sz % 4 = 0
  <2>1. Len(data) \in EndsAt(data)
    BY <1>1, <1>7
  <2>2. Len(r) = 0
    BY <2>1, <1>2, <1>4
  <2>3. r = << >>
    BY <2>2, <1>4
  <2> QED
    BY <2>3, <1>7 DEF r
<1>8. CASE b # sz /\ sz % 4 = 2
  <2>1. Len(data) >= 2
    BY <1>0, <1>8, FourTimes
  <2>2. Len(r) = 2
    <3>1. Len(data) \notin EndsAt(data) /\ Len(data) - 1 \notin EndsAt(data)
      <4>1. b + Len(data) = sz /\ b + (Len(data) - 1) = sz - 1
        OBVIOUS
      <4>2. Len(data) \in 1 .. Len(data) /\ Len(data) - 1 \in 1 .. Len(data)
        BY <2>1
      <4>3. (sz - 1) % 4 # 0 /\ sz % 4 # 0
        BY <1>8, FourTimes
      <4>4. Len(data) \notin EndsAt(data)
        BY <4>1, <4>2, <4>3, <1>1
      <4>5. Len(data) - 1 \notin EndsAt(data)
        BY <4>1, <4>2, <4>3, <1>1
      <4> QED
        BY <4>4, <4>5
    <3>2. CASE Len(data) = 2
      <4>1. EndsAt(data) = {}
        <5>1. \A i \in 1 .. Len(data) : i = Len(data) \/ i = Len(data) - 1
          <6>1. \A n \in Nat : n = 2 => \A i \in 1 .. n : i = n \/ i = n - 1
            OBVIOUS
          <6>2. Len(data) \in Nat
            BY <1>0
          <6> QED
            BY <6>1, <6>2, <3>2, Zenon
        <5> QED
          BY <5>1, <3>1, <1>3
      <4>2. e = 0
        BY <4>1 DEF e, LastEnd
      <4> QED
        BY <4>2, <3>2, <1>4
    <3>3. CASE Len(data) # 2
      <4>1. Len(data) - 2 \in 1 .. Len(data)
        BY <2>1, <3>3
      <4>2. b + (Len(data) - 2) = sz - 2 /\ (sz - 2) % 4 = 0
        BY <1>8
      <4>3. Len(data) - 2 \in EndsAt(data)
        BY <4>1, <4>2, <1>1
      <4>4. e \in EndsAt(data) /\ Len(data) - 2 <= e
        BY <4>3, <1>2
      <4>5. e # Len(data) /\ e # Len(data) - 1
        BY <4>4, <3>1
      <4>6. e = Len(data) - 2
        BY <4>4, <4>5, <1>2
      <4> QED
        BY <4>6, <1>4
    <3> QED
      BY <3>2, <3>3
  <2>3. e = Len(data) - 2
    <3>1. Len(data) - e = 2
      BY <2>2, <1>4
    <3> QED
      BY <3>1, <1>0
  <2>4. r[1] = sz - 1 /\ r[2] = sz
    <3>1. 1 \in 1 .. Len(data) - e /\ 2 \in 1 .. Len(data) - e
      BY <2>3
    <3>2. e + 1 = Len(data) - 1 /\ e + 2 = Len(data)
      BY <2>3
    <3>3. r[1] = data[Len(data) - 1] /\ r[2] = data[Len(data)]
      BY <3>1, <3>2, <1>4
    <3>4. Len(data) - 1 \in 1 .. Len(data) /\ Len(data) \in 1 .. Len(data)
      BY <2>1
    <3> QED
      BY <3>3, <3>4
  <2>5. r = <<r[1], r[2]>>
    BY <2>2, <1>4
  <2>6. r = <<sz - 1, sz>>
    BY <2>4, <2>5
  <2> QED
    BY <2>6, <1>8 DEF r
<1> QED
  BY <1>5, <1>6, <1>7, <1>8

LEMMA PollFollows ==
  ASSUME NEW f, NEW t \in TailerType, NEW h \in Seq(Nat), NEW fr \in Nat,
         size[f] \in Nat, size[f] % 2 = 0,
         Follows(t, h, fr, size[f]), Halves(t.off, size[f]) = {}
  PROVE  Follows(Poll(f, t).t, h \o Poll(f, t).lines, fr, size[f])
<1> DEFINE sz == size[f]
           data == t.pending \o HeardBytes(t.off, sz)
           q == Poll(f, t)
           got == Parsed(data)
           all == h \o got
<1>1. t.off \in Nat /\ t.off <= sz /\ sz \in Nat
  BY DEF TailerType, Follows
<1>2. q.t.off = sz /\ q.t.pending = Rest(data) /\ q.lines = got
  <2>1. Counted(t.off, sz) = sz - t.off
    BY <1>1, HeardBytesAre
  <2>2. ~(sz < t.off) /\ t.off + (sz - t.off) = sz
    BY <1>1
  <2> QED
    BY <2>1, <2>2 DEF Poll
<1>h. PICK b, g \in Nat : Hand(data, h, fr, sz, b, g)
  BY <1>1, InHand
<1>3. /\ data \in Seq(Nat) /\ b <= sz /\ Len(data) = sz - b
      /\ \A i \in 1 .. Len(data) : data[i] = b + i
      /\ b = 4 * (g - 1) \/ (b = 4 * (g - 1) - 2 /\ fr = g)
      /\ fr <= g /\ g >= 1
      /\ \A v \in Int : (\E k \in 1 .. Len(h) : h[k] = v) <=> v \in fr .. g - 1
  <2> HIDE DEF data, sz
  <2> QED
    BY <1>h DEF Hand
<1>4. sz % 2 = 0
  OBVIOUS
<1> HIDE DEF data, q, sz
<1>5. \A v \in Int : (\E i \in WholeEnds(data) : data[i] \div LineBytes = v) <=> v \in g .. sz \div 4
  BY <1>1, <1>3, WholeOnes
<1>6. Rest(data) = IF sz % 4 = 0 \/ b = sz THEN << >> ELSE <<sz - 1, sz>>
  <2>1. b % 2 = 0
    BY <1>3, FourTimes
  <2> QED
    BY <2>1, <1>1, <1>3, <1>4, RestHalf
<1>7. /\ got \in Seq(Nat)
      /\ \A k \in 1 .. Len(got) : \E i \in WholeEnds(data) : got[k] = data[i] \div LineBytes
      /\ \A i \in WholeEnds(data) : \E k \in 1 .. Len(got) : got[k] = data[i] \div LineBytes
  BY <1>3, ParsedIs
<1> HIDE DEF got
<1>8. /\ all \in Seq(Nat) /\ Len(all) = Len(h) + Len(got) /\ Len(h) \in Nat /\ Len(got) \in Nat
      /\ \A k \in 1 .. Len(all) : all[k] = IF k <= Len(h) THEN h[k] ELSE got[k - Len(h)]
  BY <1>7, JoinIs
<1> HIDE DEF all
<1>9. \A v \in Int : (\E k \in 1 .. Len(all) : all[k] = v)
                       <=> (\E k \in 1 .. Len(h) : h[k] = v) \/ (\E k \in 1 .. Len(got) : got[k] = v)
  <2> TAKE v \in Int
  <2>1. ASSUME NEW k \in 1 .. Len(all), all[k] = v
        PROVE  (\E l \in 1 .. Len(h) : h[l] = v) \/ (\E l \in 1 .. Len(got) : got[l] = v)
    <3>1. CASE k <= Len(h)
      <4>1. k \in 1 .. Len(h) /\ h[k] = v
        BY <3>1, <2>1, <1>8
      <4> QED
        BY <4>1
    <3>2. CASE ~(k <= Len(h))
      <4>1. k - Len(h) \in 1 .. Len(got)
        BY <3>2, <1>8
      <4>2. got[k - Len(h)] = v
        BY <3>2, <2>1, <1>8
      <4> QED
        BY <4>1, <4>2
    <3> QED
      BY <3>1, <3>2
  <2>2. ASSUME NEW l \in 1 .. Len(h), h[l] = v PROVE \E k \in 1 .. Len(all) : all[k] = v
    <3>1. l \in 1 .. Len(all) /\ l <= Len(h)
      BY <1>8
    <3> QED
      BY <3>1, <2>2, <1>8
  <2>3. ASSUME NEW l \in 1 .. Len(got), got[l] = v PROVE \E k \in 1 .. Len(all) : all[k] = v
    <3>1. l + Len(h) \in 1 .. Len(all) /\ ~(l + Len(h) <= Len(h)) /\ (l + Len(h)) - Len(h) = l
      BY <1>8
    <3> QED
      BY <3>1, <2>3, <1>8
  <2> QED
    BY <2>1, <2>2, <2>3
<1>10. \A v \in Int : (\E k \in 1 .. Len(got) : got[k] = v) <=> v \in g .. sz \div 4
  <2> TAKE v \in Int
  <2>1. (\E k \in 1 .. Len(got) : got[k] = v) <=> \E i \in WholeEnds(data) : data[i] \div LineBytes = v
    BY <1>7
  <2> QED
    BY <2>1, <1>5
<1>11. \A v \in Int : v \in fr .. g - 1 \/ v \in g .. sz \div 4 <=> v \in fr .. sz \div 4
  <2>1. g - 1 <= sz \div 4 \/ fr = g
    <3>1. CASE b = 4 * (g - 1)
      BY <3>1, <1>1, <1>3
    <3> QED
      BY <3>1, <1>3
  <2> QED
    BY <2>1, <1>1, <1>3
<1>12. \A v \in Int : (\E k \in 1 .. Len(all) : all[k] = v) <=> v \in fr .. sz \div LineBytes
  <2>1. LineBytes = 4
    BY DEF LineBytes
  <2> QED
    BY <2>1, <1>3, <1>9, <1>10, <1>11
<1>13. fr <= LineFrom(sz) /\ (sz % 4 # 0 => (b = sz <=> fr = LineFrom(sz)))
  <2>1. LineFrom(sz) = (sz + 3) \div 4 + 1
    BY <1>1 DEF LineFrom, LineBytes
  <2>2. CASE sz % 4 = 0
    <3>1. LineFrom(sz) = sz \div 4 + 1 /\ sz = 4 * (sz \div 4) /\ sz \div 4 \in Nat
      BY <2>1, <2>2, <1>1, Fours
    <3>2. g <= sz \div 4 + 1
      BY <3>1, <1>1, <1>3
    <3> QED
      BY <3>1, <3>2, <2>2, <1>3
  <2>3. CASE sz % 4 = 2
    <3>1. LineFrom(sz) = sz \div 4 + 2 /\ sz = 4 * (sz \div 4) + 2 /\ sz \div 4 \in Nat
      BY <2>1, <2>3, <1>1, Fours
    <3>2. CASE b = 4 * (g - 1)
      <4> DEFINE d == sz \div 4
      <4>0. d \in Nat /\ sz = 4 * d + 2 /\ b <= sz
        BY <3>1, <1>3
      <4> HIDE DEF d
      <4>2. g <= d + 1 /\ b # sz
        BY <4>0, <3>2
      <4>1. g <= sz \div 4 + 1 /\ b # sz
        BY <4>2 DEF d
      <4>3. fr < sz \div 4 + 2
        BY <4>1, <3>1, <1>3
      <4> QED
        BY <4>1, <4>3, <3>1, SMTT(60)
    <3>3. CASE b = 4 * (g - 1) - 2 /\ fr = g
      <4>1. g <= sz \div 4 + 2 /\ (b = sz <=> g = sz \div 4 + 2)
        BY <3>1, <3>3, <1>1, <1>3
      <4> QED
        BY <4>1, <3>1, <3>3
    <3> QED
      BY <3>2, <3>3, <1>3
  <2> QED
    BY <2>2, <2>3, <1>1, <1>4, Fours
<1>14. Rest(data) = IF sz % LineBytes = 0 \/ fr = LineFrom(sz) THEN << >> ELSE <<sz - 1, sz>>
  BY <1>6, <1>13 DEF LineBytes
<1>15. Follows(q.t, all, fr, sz)
  BY <1>1, <1>2, <1>4, <1>12, <1>13, <1>14 DEF Follows
<1> QED
  BY <1>2, <1>15 DEF q, sz, all

-----------------------------------------------------------------------------

LEMMA NothingCarried == Carries(<< >>, << >>, {})
<1>1. Rising(<< >>) /\ LinesOf(<< >>) = {}
  BY DEF Rising, LinesOf
<1> QED
  BY <1>1 DEF Carries

\* Of some rising lines, those whose post does not fail.
LEMMA ReachedIs ==
  ASSUME NEW seen \in Seq(Nat), Rising(seen), NEW gone
  PROVE  /\ Reached(seen, gone) \in Seq(Nat) /\ Rising(Reached(seen, gone))
         /\ LinesOf(Reached(seen, gone)) = LinesOf(seen) \ gone
<1> DEFINE at == {i \in 1 .. Len(seen) : seen[i] \notin gone}
           c == Cardinality(at)
           s == [k \in 1 .. c |-> seen[Place(at, k)]]
<1>1. Reached(seen, gone) = s
  BY DEF Reached
<1>2. Len(seen) \in Nat /\ at \in SUBSET (1 .. Len(seen))
  OBVIOUS
<1>3. c \in Nat
  <2>1. IsFiniteSet(1 .. Len(seen))
    BY <1>2, FS_Interval
  <2> QED
    BY <2>1, <1>2, FS_Subset, FS_CardinalityType
<1>4. \A k \in 1 .. c : Place(at, k) \in at
  BY <1>2, PlaceIs
<1>5. /\ \A k, l \in 1 .. c : k < l => Place(at, k) < Place(at, l)
      /\ \A i \in at : \E k \in 1 .. c : Place(at, k) = i
  BY <1>2, PlaceOrder
<1>6. \A i \in 1 .. Len(seen) : seen[i] \in Nat /\ (i \in at <=> seen[i] \notin gone)
  OBVIOUS
<1> HIDE DEF at, c
<1>7. \A k \in 1 .. c : seen[Place(at, k)] \in Nat
  BY <1>2, <1>4, <1>6
<1>8. s \in Seq(Nat) /\ Len(s) = c /\ \A k \in 1 .. c : s[k] = seen[Place(at, k)]
  BY <1>3, <1>7
<1> HIDE DEF s
<1>9. Rising(s)
  <2> SUFFICES ASSUME NEW k \in 1 .. c, NEW l \in 1 .. c, k < l PROVE s[k] < s[l]
    BY <1>8 DEF Rising
  <2>1. Place(at, k) \in 1 .. Len(seen) /\ Place(at, l) \in 1 .. Len(seen) /\ Place(at, k) < Place(at, l)
    BY <1>2, <1>4, <1>5
  <2> QED
    BY <2>1, <1>8 DEF Rising
<1>10. LinesOf(s) = LinesOf(seen) \ gone
  <2>1. ASSUME NEW k \in 1 .. c PROVE s[k] \in LinesOf(seen) \ gone
    <3>1. Place(at, k) \in 1 .. Len(seen) /\ Place(at, k) \in at
      BY <1>2, <1>4
    <3>2. seen[Place(at, k)] \notin gone
      BY <3>1, <1>6
    <3> QED
      BY <3>1, <3>2, <1>8 DEF LinesOf
  <2>2. ASSUME NEW i \in 1 .. Len(seen), seen[i] \notin gone PROVE \E k \in 1 .. c : s[k] = seen[i]
    <3>1. PICK k \in 1 .. c : Place(at, k) = i
      BY <2>2, <1>5, <1>6
    <3> QED
      BY <3>1, <1>8
  <2>3. LinesOf(s) = {s[k] : k \in 1 .. c} /\ LinesOf(seen) = {seen[i] : i \in 1 .. Len(seen)}
    BY <1>8 DEF LinesOf
  <2>4. ASSUME NEW v \in LinesOf(s) PROVE v \in LinesOf(seen) \ gone
    BY <2>1, <2>3, <2>4
  <2>5. ASSUME NEW v \in LinesOf(seen) \ gone PROVE v \in LinesOf(s)
    <3>1. PICK i \in 1 .. Len(seen) : v = seen[i]
      BY <2>3, <2>5
    <3>2. seen[i] \notin gone
      BY <3>1, <2>5
    <3>3. PICK k \in 1 .. c : s[k] = seen[i]
      BY <3>2, <2>2
    <3> QED
      BY <3>1, <3>3, <2>3
  <2> QED
    BY <2>4, <2>5
<1> QED
  BY <1>1, <1>8, <1>9, <1>10

\* What two rows of lines are together.
LEMMA Together ==
  ASSUME NEW h \in Seq(Nat), NEW seen \in Seq(Nat)
  PROVE  /\ h \o seen \in Seq(Nat) /\ LinesOf(h \o seen) = LinesOf(h) \cup LinesOf(seen)
         /\ Rising(h \o seen) <=> /\ Rising(h) /\ Rising(seen)
                                  /\ \A v \in LinesOf(h), w \in LinesOf(seen) : v < w
<1> DEFINE s == h \o seen
           n == Len(h)
           m == Len(seen)
<1>1. /\ s \in Seq(Nat) /\ Len(s) = n + m /\ n \in Nat /\ m \in Nat
      /\ \A i \in 1 .. Len(s) : s[i] = IF i <= n THEN h[i] ELSE seen[i - n]
  BY JoinIs
<1> HIDE DEF s, n, m
<1>2. \A i \in 1 .. n : i \in 1 .. Len(s) /\ s[i] = h[i]
  BY <1>1
<1>3. \A j \in 1 .. m : j + n \in 1 .. Len(s) /\ s[j + n] = seen[j]
  <2> TAKE j \in 1 .. m
  <2>1. j + n \in 1 .. Len(s) /\ ~(j + n <= n) /\ (j + n) - n = j
    BY <1>1
  <2> QED
    BY <2>1, <1>1
<1>4. \A i \in 1 .. Len(s) : i \in 1 .. n \/ \E j \in 1 .. m : i = j + n
  <2> TAKE i \in 1 .. Len(s)
  <2>1. CASE ~(i <= n)
    <3>1. i - n \in 1 .. m /\ i = (i - n) + n
      BY <2>1, <1>1
    <3> QED
      BY <3>1
  <2> QED
    BY <2>1, <1>1
<1>5. LinesOf(s) = LinesOf(h) \cup LinesOf(seen)
  <2>1. LinesOf(s) = {s[i] : i \in 1 .. Len(s)} /\ LinesOf(h) = {h[i] : i \in 1 .. n} /\ LinesOf(seen) = {seen[i] : i \in 1 .. m}
    BY DEF LinesOf, n, m
  <2>2. \A i \in 1 .. Len(s) : (\E k \in 1 .. n : s[i] = h[k]) \/ (\E j \in 1 .. m : s[i] = seen[j])
    BY <1>2, <1>3, <1>4
  <2>3. \A i \in 1 .. n : \E k \in 1 .. Len(s) : s[k] = h[i]
    BY <1>2
  <2>4. \A j \in 1 .. m : \E k \in 1 .. Len(s) : s[k] = seen[j]
    BY <1>3
  <2> QED
    BY <2>1, <2>2, <2>3, <2>4
<1>6. ASSUME Rising(s)
      PROVE  Rising(h) /\ Rising(seen) /\ \A v \in LinesOf(h), w \in LinesOf(seen) : v < w
  <2>0. \A i, j \in 1 .. Len(s) : i < j => s[i] < s[j]
    BY <1>6 DEF Rising
  <2>1. \A i, j \in 1 .. n : i < j => h[i] < h[j]
    BY <2>0, <1>2
  <2>2. \A i, j \in 1 .. m : i < j => seen[i] < seen[j]
    <3> TAKE i, j \in 1 .. m
    <3> HAVE i < j
    <3>1. i + n < j + n
      BY <1>1
    <3> QED
      BY <3>1, <2>0, <1>3
  <2>3. \A i \in 1 .. n, j \in 1 .. m : h[i] < seen[j]
    <3> TAKE i \in 1 .. n, j \in 1 .. m
    <3>1. i < j + n
      BY <1>1
    <3> QED
      BY <3>1, <2>0, <1>2, <1>3
  <2> QED
    BY <2>1, <2>2, <2>3 DEF Rising, LinesOf, n, m
<1>7. ASSUME Rising(h), Rising(seen), \A v \in LinesOf(h), w \in LinesOf(seen) : v < w
      PROVE  Rising(s)
  <2>1. /\ \A i, j \in 1 .. n : i < j => h[i] < h[j]
        /\ \A i, j \in 1 .. m : i < j => seen[i] < seen[j]
        /\ \A i \in 1 .. n, j \in 1 .. m : h[i] < seen[j]
    BY <1>7 DEF Rising, LinesOf, n, m
  <2> SUFFICES ASSUME NEW i \in 1 .. Len(s), NEW j \in 1 .. Len(s), i < j PROVE s[i] < s[j]
    BY DEF Rising
  <2>2. CASE j \in 1 .. n
    <3>1. i \in 1 .. n
      BY <2>2, <1>1
    <3> QED
      BY <3>1, <2>1, <2>2, <1>2
  <2>3. ASSUME NEW l \in 1 .. m, j = l + n PROVE s[i] < s[j]
    <3>1. CASE i \in 1 .. n
      BY <3>1, <2>1, <2>3, <1>2, <1>3
    <3>2. ASSUME NEW k \in 1 .. m, i = k + n PROVE s[i] < s[j]
      <4>1. k < l
        BY <3>2, <2>3, <1>1
      <4> QED
        BY <4>1, <3>2, <2>1, <2>3, <1>3
    <3> QED
      BY <3>1, <3>2, <1>4
  <2> QED
    BY <2>2, <2>3, <1>4
<1> QED
  BY <1>1, <1>5, <1>6, <1>7 DEF s

\* A sweep hands on to a channel what it has read.
LEMMA CarriesOn ==
  ASSUME NEW p \in Seq(Nat), NEW h \in Seq(Nat), NEW l, NEW seen \in Seq(Nat), NEW gone,
         Carries(p, h, l), Rising(h \o seen), gone \subseteq LinesOf(seen)
  PROVE  /\ p \o Reached(seen, gone) \in Seq(Nat)
         /\ Carries(p \o Reached(seen, gone), h \o seen, l \cup gone)
<1> DEFINE q == Reached(seen, gone)
<1>1. /\ Rising(h) /\ Rising(seen) /\ \A v \in LinesOf(h), w \in LinesOf(seen) : v < w
      /\ LinesOf(h \o seen) = LinesOf(h) \cup LinesOf(seen)
  BY Together
<1>2. q \in Seq(Nat) /\ Rising(q) /\ LinesOf(q) = LinesOf(seen) \ gone
  BY <1>1, ReachedIs
<1> HIDE DEF q
<1>3. Rising(p) /\ LinesOf(p) = LinesOf(h) \ l /\ l \subseteq LinesOf(h)
  BY DEF Carries
<1>4. LinesOf(h) \in SUBSET Nat
  BY DEF LinesOf
<1>5. \A v \in LinesOf(h) : v \notin LinesOf(seen)
  <2> TAKE v \in LinesOf(h)
  <2>1. v \in Nat /\ ~(v < v)
    BY <1>4
  <2> QED
    BY <2>1, <1>1
<1>6. p \o q \in Seq(Nat) /\ Rising(p \o q) /\ LinesOf(p \o q) = LinesOf(p) \cup LinesOf(q)
  <2>1. \A v \in LinesOf(p), w \in LinesOf(q) : v < w
    BY <1>1, <1>2, <1>3
  <2> QED
    BY <2>1, <1>2, <1>3, Together
<1>7. LinesOf(p \o q) = LinesOf(h \o seen) \ (l \cup gone)
  BY <1>1, <1>2, <1>3, <1>5, <1>6
<1> QED
  BY <1>1, <1>3, <1>6, <1>7 DEF Carries, q

LEMMA VoiceInvInit == VoiceInit => VoiceInv
<1> SUFFICES ASSUME VoiceInit PROVE VoiceInv
  OBVIOUS
<1>1. PICK n \in {0, LineBytes} : size = [f \in Transcripts |-> IF f = "old" THEN n ELSE 0]
  BY DEF VoiceInit
<1>2. /\ open = TRUE /\ conv = "old" /\ followed = "none"
      /\ tailer = [f \in Transcripts |-> NoTailer]
      /\ heard = [f \in Transcripts |-> << >>]
      /\ posted = [c \in Channels |-> [f \in Transcripts |-> << >>]]
      /\ lost = [c \in Channels |-> [f \in Transcripts |-> {}]]
      /\ first = [f \in Transcripts |-> 1]
      /\ torn = [f \in Transcripts |-> FALSE]
  BY DEF VoiceInit
<1>3. NoTailer \in [off : Int, pending : Seq(Nat)] /\ << >> \in Seq(Nat)
  BY DEF NoTailer
<1>4. VoiceTypeOK
  <2>1. open \in BOOLEAN /\ conv \in Main /\ followed \in Main \cup {"none"}
    BY <1>2 DEF Main
  <2>2. tailer \in [Transcripts -> [off : Int, pending : Seq(Nat)]]
    BY <1>2, <1>3
  <2>3. heard \in [Transcripts -> Seq(Nat)]
    BY <1>2, <1>3
  <2>4. first \in [Transcripts -> Nat] /\ torn \in [Transcripts -> BOOLEAN]
    BY <1>2
  <2>5. size \in [Transcripts -> 0 .. MaxVoiceLines * LineBytes]
    <3>1. n \in 0 .. MaxVoiceLines * LineBytes /\ 0 \in 0 .. MaxVoiceLines * LineBytes
      BY LinesAssumption DEF LineBytes
    <3> QED
      BY <3>1, <1>1
  <2>6. posted \in [Channels -> [Transcripts -> Seq(Nat)]] /\ lost \in [Channels -> [Transcripts -> SUBSET Nat]]
    BY <1>2, <1>3
  <2> QED
    BY <2>1, <2>2, <2>3, <2>4, <2>5, <2>6 DEF VoiceTypeOK
<1>5. \A f \in Transcripts : size[f] % 2 = 0 /\ tailer[f] = NoTailer /\ heard[f] = << >>
  BY <1>1, <1>2, SMTT(60) DEF LineBytes
<1>6. \A c \in Channels, f \in Transcripts : posted[c][f] = << >> /\ Carries(posted[c][f], heard[f], lost[c][f])
  BY <1>2, NothingCarried
<1> QED
  BY <1>4, <1>5, <1>6 DEF VoiceInv

\* The invariant of one transcript, with the line its tailer began with.
Tailed(f, t, h, fr, broken) ==
  /\ t \in [off : Int, pending : Seq(Nat)] /\ h \in Seq(Nat)
  /\ t = NoTailer => h = << >>
  /\ t # NoTailer => t \in TailerType /\ Reads(t, h, size[f])
  /\ t # NoTailer /\ ~broken => Follows(t, h, fr, size[f])

LEMMA Made ==
  ASSUME NEW sz \in Nat, sz % 2 = 0, NEW off \in {0, sz}
  PROVE  LET t == [off |-> off, pending |-> << >>] IN
         /\ t \in TailerType /\ Reads(t, << >>, sz) /\ Follows(t, << >>, LineFrom(off), sz)
<1> DEFINE t == [off |-> off, pending |-> << >>]
<1>1. t \in TailerType /\ t.off = off /\ t.pending = << >> /\ off \in Nat /\ off <= sz /\ off % 2 = 0
  BY DEF TailerType
<1> HIDE DEF t
<1>2. Reads(t, << >>, sz)
  BY <1>1 DEF Reads
<1>3. LineFrom(off) = (off + 3) \div 4 + 1 /\ LineFrom(off) \in Nat
  BY <1>1 DEF LineFrom, LineBytes
<1>4. LineFrom(off) .. off \div LineBytes = {}
  BY <1>1, <1>3, Fours DEF LineBytes
<1>5. \A v \in Int : (\E k \in 1 .. Len(<< >>) : (<< >>)[k] = v) <=> v \in LineFrom(off) .. off \div LineBytes
  BY <1>4
<1>6. Follows(t, << >>, LineFrom(off), sz)
  BY <1>1, <1>3, <1>5 DEF Follows
<1> QED
  BY <1>1, <1>2, <1>6 DEF t

LEMMA NotNone == \A t \in TailerType : t # NoTailer
  BY DEF TailerType, NoTailer

LEMMA TypedTailer ==
  ASSUME NEW t \in [off : Int, pending : Seq(Nat)], t.off \in Nat
  PROVE  t \in TailerType
  BY DEF TailerType

LEMMA NoneReached == \A gone : Reached(<< >>, gone) = << >>
<1> TAKE gone
<1>1. {i \in 1 .. Len(<< >>) : (<< >>)[i] \notin gone} = {}
  OBVIOUS
<1>2. Cardinality({}) = 0
  BY FS_EmptySet
<1> QED
  BY <1>1, <1>2 DEF Reached

LEMMA SweepOne ==
  ASSUME VoiceInv, Sweep, NEW f \in Transcripts
  PROVE  /\ first'[f] \in Nat /\ torn'[f] \in BOOLEAN
         /\ Tailed(f, tailer'[f], heard'[f], first'[f], torn'[f])
<1> DEFINE now == OpenTailers
           fresh == now[f] # NoTailer /\ (tailer[f] = NoTailer \/ followed # conv)
           q == Poll(f, now[f])
           h == IF fresh \/ now[f] = NoTailer THEN << >> ELSE heard[f]
           fr == IF fresh THEN IF followed = "none" /\ f = conv THEN LineFrom(size[f]) ELSE 1
                 ELSE first[f]
           sz == size[f]
<1>1. /\ tailer'[f] = IF now[f] = NoTailer THEN NoTailer ELSE q.t
      /\ heard'[f] = h \o (IF now[f] = NoTailer THEN << >> ELSE q.lines)
      /\ first'[f] = fr
      /\ torn'[f] = (now[f] # NoTailer /\ (\/ ~fresh /\ torn[f]
                                           \/ Halves(now[f].off, sz) # {}))
  BY DEF Sweep
<1>2. /\ sz \in Nat /\ sz % 2 = 0 /\ heard[f] \in Seq(Nat) /\ first[f] \in Nat /\ torn[f] \in BOOLEAN
      /\ tailer[f] \in [off : Int, pending : Seq(Nat)]
  BY LinesAssumption DEF VoiceInv, VoiceTypeOK, LineBytes
<1>3. now[f] = IF f = conv THEN IF followed = conv THEN tailer[f]
                                ELSE IF followed = "none" THEN NewAtEnd(f) ELSE NewAtStart
               ELSE IF f \in Delegates /\ conv = "old" /\ size[f] > 0
               THEN IF followed = conv /\ tailer[f] # NoTailer THEN tailer[f] ELSE NewAtStart
               ELSE NoTailer
  BY DEF OpenTailers
<1>4. LineFrom(sz) \in Nat
  BY <1>2 DEF LineFrom, LineBytes
<1>5. fr \in Nat
  BY <1>2, <1>4
<1>6. torn'[f] \in BOOLEAN
  BY <1>1
<1>7. CASE now[f] = NoTailer
  <2>1. tailer'[f] = NoTailer
    BY <1>1, <1>7
  <2>2. h = << >>
    BY <1>7
  <2>3. heard'[f] = << >>
    BY <1>1, <1>7, <2>2
  <2>4. NoTailer \in [off : Int, pending : Seq(Nat)] /\ << >> \in Seq(Nat)
    BY DEF NoTailer
  <2> QED
    BY <2>1, <2>3, <2>4, <1>1, <1>5, <1>6 DEF Tailed
<1>8. CASE now[f] # NoTailer
  <2> DEFINE t == now[f]
  <2>1. /\ t \in TailerType /\ h \in Seq(Nat) /\ Reads(t, h, sz)
        /\ fresh \/ ~torn[f] => Follows(t, h, fr, sz)
    <3>1. CASE fresh
      <4>1. h = << >>
        BY <3>1
      <4>2. \/ t = NewAtEnd(f) /\ fr = LineFrom(sz)
            \/ t = NewAtStart /\ fr = 1
        BY <3>1, <1>3, <1>8
      <4>3. LineFrom(0) = 1
        BY DEF LineFrom, LineBytes
      <4>4. CASE t = NewAtEnd(f) /\ fr = LineFrom(sz)
        <5>1. t = [off |-> sz, pending |-> << >>]
          BY <4>4 DEF NewAtEnd
        <5> HIDE DEF t, h, fr, sz
        <5>2. t \in TailerType /\ Reads(t, << >>, sz) /\ Follows(t, << >>, LineFrom(sz), sz)
          BY <5>1, <1>2, Made
        <5>3. << >> \in Seq(Nat)
          OBVIOUS
        <5> QED
          BY <5>2, <5>3, <4>1, <4>4
      <4>5. CASE t = NewAtStart /\ fr = 1
        <5>1. t = [off |-> 0, pending |-> << >>]
          BY <4>5 DEF NewAtStart
        <5> HIDE DEF t, h, fr, sz
        <5>2. t \in TailerType /\ Reads(t, << >>, sz) /\ Follows(t, << >>, LineFrom(0), sz)
          BY <5>1, <1>2, Made
        <5>3. << >> \in Seq(Nat)
          OBVIOUS
        <5> QED
          BY <5>2, <5>3, <4>1, <4>3, <4>5
      <4> QED
        BY <4>2, <4>4, <4>5
    <3>2. CASE ~fresh
      <4>1. t = tailer[f] /\ h = heard[f] /\ fr = first[f]
        BY <3>2, <1>3, <1>8
      <4>2. Reads(tailer[f], heard[f], sz) /\ (~torn[f] => Follows(tailer[f], heard[f], first[f], sz))
        BY <4>1, <1>8 DEF VoiceInv
      <4>3. tailer[f].off \in Nat
        BY <4>2 DEF Reads
      <4>4. tailer[f] \in TailerType
        BY <4>3, <1>2, TypedTailer
      <4> HIDE DEF t, h, fr, sz
      <4> QED
        BY <4>1, <4>2, <4>4, <3>2, <1>2
    <3> QED
      BY <3>1, <3>2
  <2>2. tailer'[f] = q.t /\ heard'[f] = h \o q.lines
    BY <1>1, <1>8
  <2>3. torn'[f] = ((~fresh /\ torn[f]) \/ Halves(t.off, sz) # {})
    BY <1>1, <1>8
  <2>4. q = Poll(f, t)
    OBVIOUS
  <2>5. size[f] = sz
    OBVIOUS
  <2> HIDE DEF t, h, fr, sz, q, fresh
  <2>6. q.t \in TailerType /\ q.lines \in Seq(Nat) /\ Reads(q.t, h \o q.lines, sz)
    BY <2>1, <2>4, <2>5, <1>2, PollReads
  <2>7. ASSUME ~torn'[f] PROVE Follows(q.t, h \o q.lines, fr, sz)
    <3>1. Halves(t.off, sz) = {} /\ Follows(t, h, fr, sz)
      BY <2>1, <2>3, <2>7
    <3> QED
      BY <3>1, <2>1, <2>4, <2>5, <1>2, <1>5, PollFollows
  <2>8. q.t # NoTailer /\ q.t \in [off : Int, pending : Seq(Nat)]
    <3>1. q.t # NoTailer
      BY <2>6, NotNone
    <3>2. q.t \in [off : Int, pending : Seq(Nat)]
      BY <2>6 DEF TailerType
    <3> QED
      BY <3>1, <3>2
  <2>9. h \o q.lines \in Seq(Nat)
    BY <2>1, <2>6
  <2> QED
    BY <2>2, <2>5, <2>6, <2>7, <2>8, <2>9, <1>1, <1>5, <1>6 DEF Tailed
<1> QED
  BY <1>7, <1>8

LEMMA LinesRead ==
  ASSUME VoiceInv, NEW f \in Transcripts, OpenTailers[f] # NoTailer
  PROVE  Poll(f, OpenTailers[f]).lines \in Seq(Nat)
<1> DEFINE t == OpenTailers[f]
           data == t.pending \o HeardBytes(t.off, size[f])
<1>1. t \in {tailer[f], NewAtEnd(f), NewAtStart}
  BY DEF OpenTailers
<1>2. size[f] \in Nat /\ tailer[f] \in [off : Int, pending : Seq(Nat)]
  BY LinesAssumption DEF VoiceInv, VoiceTypeOK, LineBytes
<1>3. t.off \in Nat /\ t.pending \in Seq(Nat)
  <2>1. CASE t = tailer[f]
    <3>1. Reads(tailer[f], heard[f], size[f])
      BY <2>1 DEF VoiceInv
    <3> QED
      BY <3>1, <2>1, <1>2 DEF Reads
  <2>2. CASE t \in {NewAtEnd(f), NewAtStart}
    <3>1. t.off \in {size[f], 0} /\ t.pending = << >>
      BY <2>2 DEF NewAtEnd, NewAtStart
    <3>2. << >> \in Seq(Nat)
      OBVIOUS
    <3> QED
      BY <3>1, <3>2, <1>2
  <2> QED
    BY <1>1, <2>1, <2>2
<1>4. Poll(f, t).lines = IF size[f] < t.off THEN << >> ELSE Parsed(data)
  BY DEF Poll
<1> HIDE DEF t
<1>5. CASE size[f] < t.off
  BY <1>4, <1>5 DEF t
<1>6. CASE ~(size[f] < t.off)
  <2>1. HeardBytes(t.off, size[f]) \in Seq(Nat)
    <3>1. t.off <= size[f]
      BY <1>2, <1>3, <1>6
    <3> QED
      BY <3>1, <1>2, <1>3, HeardBytesAre
  <2>2. data \in Seq(Nat)
    BY <2>1, <1>3
  <2> HIDE DEF data
  <2>3. Parsed(data) \in Seq(Nat)
    BY <2>2, ParsedIs
  <2> QED
    BY <2>3, <1>4, <1>6 DEF t
<1> QED
  BY <1>5, <1>6

\* What a sweep posts is what it reads.
LEMMA PostsOne ==
  ASSUME VoiceInv, Sweep, NEW c \in Channels, NEW f \in Transcripts
  PROVE  /\ posted'[c][f] \in Seq(Nat) /\ lost'[c][f] \in SUBSET Nat
         /\ IF Silent(c, f) THEN posted'[c][f] = << >>
            ELSE Carries(posted'[c][f], heard'[f], lost'[c][f])
<1> DEFINE now == OpenTailers
           fresh(g) == now[g] # NoTailer /\ (tailer[g] = NoTailer \/ followed # conv)
           anew == {g \in Transcripts : fresh(g) \/ now[g] = NoTailer}
           polled == [g \in Transcripts |->
                        IF now[g] = NoTailer THEN [t |-> NoTailer, lines |-> << >>]
                        ELSE Poll(g, now[g])]
           got == [g \in Transcripts |-> polled[g].lines]
           h == IF f \in anew THEN << >> ELSE heard[f]
<1>1. heard'[f] = h \o got[f]
  BY DEF Sweep
<1>2. Posts(got, anew)
  BY DEF Sweep
<1>3. got[f] \in Seq(Nat) /\ h \in Seq(Nat)
  <2>1. polled[f].lines \in Seq(Nat)
    <3>1. CASE now[f] = NoTailer
      BY <3>1
    <3>2. CASE now[f] # NoTailer
      <4>1. polled[f].lines = Poll(f, now[f]).lines
        BY <3>2
      <4>2. Poll(f, now[f]).lines \in Seq(Nat)
        BY <3>2, LinesRead
      <4> QED
        BY <4>1, <4>2
    <3> QED
      BY <3>1, <3>2
  <2>2. heard[f] \in Seq(Nat)
    BY DEF VoiceInv, VoiceTypeOK
  <2> QED
    BY <2>1, <2>2
<1>4. Rising(heard'[f])
  <2>1. Tailed(f, tailer'[f], heard'[f], first'[f], torn'[f])
    BY SweepOne
  <2>2. CASE tailer'[f] = NoTailer
    <3>1. heard'[f] = << >>
      BY <2>1, <2>2 DEF Tailed
    <3> QED
      BY <3>1 DEF Rising
  <2>3. CASE tailer'[f] # NoTailer
    BY <2>1, <2>3 DEF Tailed, Reads, Rising
  <2> QED
    BY <2>2, <2>3
<1> HIDE DEF got, h, anew
<1>5. PICK mute \in SUBSET LinesOf(got[conv]), dark \in BOOLEAN :
        LET gone(d, g) == CASE d = "speaker" -> IF g = conv THEN mute ELSE {}
                            [] d = "column" -> IF dark THEN LinesOf(got[g]) ELSE {}
            to(d, g) == IF d = "speaker" /\ ~SpokenOf(g) THEN << >> ELSE got[g]
        IN
        /\ posted' = [d \in Channels |-> [g \in Transcripts |->
                        (IF g \in anew THEN << >> ELSE posted[d][g]) \o Reached(to(d, g), gone(d, g))]]
        /\ lost' = [d \in Channels |-> [g \in Transcripts |->
                      (IF g \in anew THEN {} ELSE lost[d][g]) \cup gone(d, g)]]
  BY <1>2 DEF Posts
<1> DEFINE gone == CASE c = "speaker" -> IF f = conv THEN mute ELSE {}
                     [] c = "column" -> IF dark THEN LinesOf(got[f]) ELSE {}
           p == IF f \in anew THEN << >> ELSE posted[c][f]
           l == IF f \in anew THEN {} ELSE lost[c][f]
<1>6. /\ posted'[c][f] = p \o Reached(IF Silent(c, f) THEN << >> ELSE got[f], gone)
      /\ lost'[c][f] = l \cup gone
  BY <1>5 DEF Silent
<1>7. gone \subseteq LinesOf(got[f])
  BY DEF Channels
<1>8. p \in Seq(Nat) /\ l \in SUBSET Nat
  BY DEF VoiceInv, VoiceTypeOK
<1>9. LinesOf(got[f]) \in SUBSET Nat
  BY <1>3 DEF LinesOf
<1>10. CASE Silent(c, f)
  <2>1. p = << >>
    BY <1>10 DEF VoiceInv
  <2>2. << >> \in Seq(Nat) /\ Rising(<< >>) /\ LinesOf(<< >>) = {}
    BY DEF Rising, LinesOf
  <2> HIDE DEF gone
  <2>3. Reached(<< >>, gone) = << >>
    BY Zenon, NoneReached
  <2>4. posted'[c][f] = << >>
    BY <1>6, <1>10, <2>1, <2>3
  <2> QED
    BY <2>2, <2>4, <1>6, <1>7, <1>8, <1>9, <1>10
<1>11. CASE ~Silent(c, f)
  <2>1. Carries(p, h, l)
    <3>1. CASE f \in anew
      BY <3>1, NothingCarried DEF h
    <3>2. CASE f \notin anew
      BY <3>2, <1>11 DEF h, VoiceInv
    <3> QED
      BY <3>1, <3>2
  <2> HIDE DEF gone, p, l
  <2>2. /\ p \o Reached(got[f], gone) \in Seq(Nat)
        /\ Carries(p \o Reached(got[f], gone), h \o got[f], l \cup gone)
    BY <2>1, <1>1, <1>3, <1>4, <1>7, <1>8, CarriesOn
  <2> QED
    BY <2>2, <1>1, <1>6, <1>7, <1>8, <1>9, <1>11
<1> QED
  BY <1>10, <1>11

LEMMA Grown ==
  ASSUME NEW t \in TailerType, NEW h \in Seq(Nat), NEW fr \in Nat,
         NEW sz \in Nat, NEW new \in Nat, sz <= new
  PROVE  /\ Reads(t, h, sz) => Reads(t, h, new)
         /\ Follows(t, h, fr, sz) => Follows(t, h, fr, new)
<1>1. ASSUME Reads(t, h, sz) PROVE Reads(t, h, new)
  <2>1. \A i \in 1 .. Len(t.pending) : t.pending[i] \in Nat
    BY DEF TailerType
  <2>2. \A k \in 1 .. Len(h) : LineBytes * h[k] \in Nat
    BY DEF LineBytes
  <2>3. \A i \in 1 .. Len(t.pending) : t.pending[i] # Broken => t.pending[i] <= new
    BY <1>1, <2>1 DEF Reads
  <2>4. \A k \in 1 .. Len(h) : LineBytes * h[k] <= new
    <3> TAKE k \in 1 .. Len(h)
    <3>1. LineBytes * h[k] <= sz /\ LineBytes * h[k] \in Nat
      BY <1>1, <2>2 DEF Reads
    <3> QED
      BY <3>1
  <2> QED
    BY <1>1, <2>3, <2>4 DEF Reads
<1>2. ASSUME Follows(t, h, fr, sz) PROVE Follows(t, h, fr, new)
  <2>1. t.off <= new
    BY <1>2 DEF Follows, TailerType
  <2> QED
    BY <2>1, <1>2 DEF Follows
<1> QED
  BY <1>1, <1>2

LEMMA VoiceInvStep == VoiceInv /\ [VoiceNext]_voiceTailerVars => VoiceInv'
<1> SUFFICES ASSUME VoiceInv, [VoiceNext]_voiceTailerVars PROVE VoiceInv'
  OBVIOUS
<1>0. VoiceTypeOK
  BY DEF VoiceInv
<1>t. \A f \in Transcripts :
        /\ size[f] \in 0 .. MaxVoiceLines * LineBytes /\ size[f] \in Nat
        /\ tailer[f] \in [off : Int, pending : Seq(Nat)] /\ heard[f] \in Seq(Nat)
        /\ first[f] \in Nat /\ torn[f] \in BOOLEAN
  BY LinesAssumption DEF VoiceTypeOK, VoiceInv
<1>1. ASSUME NEW f \in Transcripts, Written(f) PROVE VoiceInv'
  <2>1. PICK n \in {LineBytes \div 2, LineBytes} :
          /\ (size[f] % LineBytes) + n <= LineBytes
          /\ size' = [size EXCEPT ![f] = @ + n]
    BY <1>1 DEF Written
  <2>2. size[f] < MaxVoiceLines * LineBytes /\ UNCHANGED harnessSide
    BY <1>1 DEF Written
  <2>3. n \in {2, 4}
    BY DEF LineBytes
  <2> DEFINE new == size[f] + n
  <2>4. /\ new \in 0 .. MaxVoiceLines * LineBytes /\ new \in Nat /\ size[f] <= new
        /\ new % 2 = 0
    <3>1. size[f] % 2 = 0 /\ size[f] \in Nat
      BY <1>t DEF VoiceInv
    <3>2. MaxVoiceLines \in Nat /\ size[f] < 4 * MaxVoiceLines /\ (size[f] % 4) + n <= 4
      BY <2>1, <2>2, LinesAssumption DEF LineBytes
    <3>3. new % 2 = 0 /\ new \in Nat /\ size[f] <= new
      BY <2>3, <3>1
    <3>4. size[f] + n <= 4 * MaxVoiceLines
      <4> DEFINE d == size[f] \div 4
      <4>1. d \in Nat /\ (size[f] = 4 * d \/ (size[f] = 4 * d + 2 /\ size[f] % 4 = 2))
        BY <3>1, Fours
      <4> HIDE DEF d
      <4>2. d + 1 <= MaxVoiceLines
        BY <4>1, <3>2
      <4> QED
        BY <4>1, <4>2, <2>3, <3>2
    <3> QED
      BY <3>3, <3>4, LinesAssumption DEF LineBytes
  <2>5. size' = [size EXCEPT ![f] = new]
    BY <2>1
  <2> HIDE DEF new
  <2>6. size' \in [Transcripts -> 0 .. MaxVoiceLines * LineBytes]
    BY <2>4, <2>5, <1>0 DEF VoiceTypeOK
  <2>7. /\ open' = open /\ conv' = conv /\ followed' = followed /\ tailer' = tailer
        /\ heard' = heard /\ posted' = posted /\ lost' = lost /\ first' = first /\ torn' = torn
    BY <2>2 DEF harnessSide, posts
  <2>8. VoiceTypeOK'
    BY <2>6, <2>7, <1>0 DEF VoiceTypeOK
  <2>9. \A g \in Transcripts : size'[g] \in Nat /\ size[g] <= size'[g] /\ size'[g] % 2 = 0
    <3> TAKE g \in Transcripts
    <3>1. size'[g] = IF g = f THEN new ELSE size[g]
      BY <2>5, <1>0 DEF VoiceTypeOK
    <3>2. size[g] \in Nat /\ size[g] % 2 = 0
      BY <1>t DEF VoiceInv
    <3> QED
      BY <3>1, <3>2, <2>4
  <2>10. ASSUME NEW g \in Transcripts
         PROVE  /\ size'[g] % 2 = 0
                /\ tailer'[g] = NoTailer => heard'[g] = << >>
                /\ tailer'[g] # NoTailer => Reads(tailer'[g], heard'[g], size'[g])
                /\ tailer'[g] # NoTailer /\ ~torn'[g] => Follows(tailer'[g], heard'[g], first'[g], size'[g])
    <3> DEFINE t == tailer[g]
               h == heard[g]
               was == size[g]
               is == size'[g]
    <3>1. ASSUME t # NoTailer
          PROVE  Reads(t, h, is) /\ (~torn[g] => Follows(t, h, first[g], is))
      <4>1. Reads(t, h, was) /\ (~torn[g] => Follows(t, h, first[g], was))
        BY <3>1 DEF VoiceInv
      <4>2. t \in TailerType
        <5>1. t.off \in Nat
          BY <4>1 DEF Reads
        <5> QED
          BY <5>1, <1>t, TypedTailer
      <4>3. h \in Seq(Nat) /\ first[g] \in Nat /\ was \in Nat /\ is \in Nat /\ was <= is
        BY <1>t, <2>9
      <4> HIDE DEF t, h, was, is
      <4> QED
        BY <4>1, <4>2, <4>3, Grown
    <3>2. t = NoTailer => h = << >>
      BY DEF VoiceInv
    <3> QED
      BY <3>1, <3>2, <2>7, <2>9
  <2>11. \A c \in Channels, g \in Transcripts :
           IF Silent(c, g) THEN posted'[c][g] = << >> ELSE Carries(posted'[c][g], heard'[g], lost'[c][g])
    BY <2>7 DEF VoiceInv
  <2> QED
    BY <2>8, <2>10, <2>11 DEF VoiceInv
<1>2. CASE Rotated \/ TerminalCloses \/ TerminalOpens \/ UNCHANGED voiceTailerVars
  <2>1. /\ size' = size /\ followed' = followed /\ tailer' = tailer
        /\ heard' = heard /\ posted' = posted /\ lost' = lost /\ first' = first /\ torn' = torn
    BY <1>2 DEF Rotated, TerminalCloses, TerminalOpens, tailerSide, posts, voiceTailerVars
  <2>2. open' \in BOOLEAN /\ conv' \in Main
    BY <1>2, <1>0 DEF Rotated, TerminalCloses, TerminalOpens, voiceTailerVars, VoiceTypeOK, Main
  <2>3. VoiceTypeOK'
    BY <2>1, <2>2, <1>0 DEF VoiceTypeOK
  <2> QED
    BY <2>1, <2>3 DEF VoiceInv
<1>3. CASE Sweep
  <2>1. \A f \in Transcripts : /\ first'[f] \in Nat /\ torn'[f] \in BOOLEAN
                               /\ Tailed(f, tailer'[f], heard'[f], first'[f], torn'[f])
    BY <1>3, SweepOne
  <2>2. /\ size' = size /\ open' = open /\ conv' = conv /\ followed' = conv
    BY <1>3 DEF Sweep
  <2>3. /\ DOMAIN tailer' = Transcripts /\ DOMAIN heard' = Transcripts
        /\ DOMAIN first' = Transcripts /\ DOMAIN torn' = Transcripts
        /\ tailer' = [f \in Transcripts |-> tailer'[f]] /\ heard' = [f \in Transcripts |-> heard'[f]]
        /\ first' = [f \in Transcripts |-> first'[f]] /\ torn' = [f \in Transcripts |-> torn'[f]]
    BY <1>3 DEF Sweep
  <2>4. /\ tailer' \in [Transcripts -> [off : Int, pending : Seq(Nat)]]
        /\ heard' \in [Transcripts -> Seq(Nat)]
        /\ first' \in [Transcripts -> Nat] /\ torn' \in [Transcripts -> BOOLEAN]
    BY <2>1, <2>3 DEF Tailed
  <2>5. \A c \in Channels, f \in Transcripts :
          /\ posted'[c][f] \in Seq(Nat) /\ lost'[c][f] \in SUBSET Nat
          /\ IF Silent(c, f) THEN posted'[c][f] = << >> ELSE Carries(posted'[c][f], heard'[f], lost'[c][f])
    BY <1>3, PostsOne
  <2>6. posted' \in [Channels -> [Transcripts -> Seq(Nat)]] /\ lost' \in [Channels -> [Transcripts -> SUBSET Nat]]
    <3>1. /\ posted' = [c \in Channels |-> [f \in Transcripts |-> posted'[c][f]]]
          /\ lost' = [c \in Channels |-> [f \in Transcripts |-> lost'[c][f]]]
      BY <1>3 DEF Sweep, Posts
    <3> QED
      BY <3>1, <2>5
  <2>7. VoiceTypeOK'
    BY <2>2, <2>4, <2>6, <1>0 DEF VoiceTypeOK
  <2>8. \A f \in Transcripts :
          /\ size'[f] % 2 = 0
          /\ tailer'[f] = NoTailer => heard'[f] = << >>
          /\ tailer'[f] # NoTailer => Reads(tailer'[f], heard'[f], size'[f])
          /\ tailer'[f] # NoTailer /\ ~torn'[f] => Follows(tailer'[f], heard'[f], first'[f], size'[f])
    BY <2>1, <2>2 DEF Tailed, VoiceInv
  <2> QED
    BY <2>7, <2>8, <2>5 DEF VoiceInv
<1>4. CASE ForgetsTerminal
  <2>1. /\ size' = size /\ open' = open /\ conv' = conv /\ first' = first /\ followed' = "none"
        /\ tailer' = [f \in Transcripts |-> NoTailer]
        /\ heard' = [f \in Transcripts |-> << >>]
        /\ posted' = [c \in Channels |-> [f \in Transcripts |-> << >>]]
        /\ lost' = [c \in Channels |-> [f \in Transcripts |-> {}]]
        /\ torn' = [f \in Transcripts |-> FALSE]
    BY <1>4 DEF ForgetsTerminal
  <2>2. NoTailer \in [off : Int, pending : Seq(Nat)] /\ << >> \in Seq(Nat)
    BY DEF NoTailer
  <2>3. /\ tailer' \in [Transcripts -> [off : Int, pending : Seq(Nat)]]
        /\ heard' \in [Transcripts -> Seq(Nat)] /\ torn' \in [Transcripts -> BOOLEAN]
        /\ posted' \in [Channels -> [Transcripts -> Seq(Nat)]] /\ lost' \in [Channels -> [Transcripts -> SUBSET Nat]]
    BY <2>1, <2>2
  <2>4. VoiceTypeOK'
    BY <2>1, <2>3, <1>0 DEF VoiceTypeOK
  <2>5. \A f \in Transcripts : size'[f] % 2 = 0 /\ tailer'[f] = NoTailer /\ heard'[f] = << >>
    BY <2>1 DEF VoiceInv
  <2>6. \A c \in Channels, f \in Transcripts :
          posted'[c][f] = << >> /\ Carries(posted'[c][f], heard'[f], lost'[c][f])
    BY <2>1, NothingCarried
  <2> QED
    BY <2>4, <2>5, <2>6 DEF VoiceInv
<1> QED
  BY <1>1, <1>2, <1>3, <1>4 DEF VoiceNext

\* The tailers of a terminal keep their types (pty_voice).
THEOREM VoiceTypeCorrect == VoiceSpec => []VoiceTypeOK
<1>1. VoiceInv => VoiceTypeOK
  BY DEF VoiceInv
<1> QED
  BY <1>1, VoiceInvInit, VoiceInvStep, PTL DEF VoiceSpec

-----------------------------------------------------------------------------

\* Numbers in increasing order that are those from lo to hi are those one after
\* another.
Fills(h, lo, hi) == \A v \in Int : (\E k \in 1 .. Len(h) : h[k] = v) <=> v \in lo .. hi
Row(lo, hi) == [i \in 1 .. (IF hi < lo THEN 0 ELSE hi + 1 - lo) |-> lo + i - 1]

LEMMA RowIs ==
  ASSUME NEW h \in Seq(Nat), NEW lo \in Nat, NEW hi \in Nat, Rising(h), Fills(h, lo, hi)
  PROVE  h = Row(lo, hi)
<1> DEFINE n == Len(h)
           Off == {k \in 1 .. n : h[k] # lo + k - 1}
           m == IF hi < lo THEN 0 ELSE hi + 1 - lo
<1>0. /\ \A i, j \in 1 .. Len(h) : i < j => h[i] < h[j]
      /\ \A v \in Int : (\E k \in 1 .. Len(h) : h[k] = v) <=> v \in lo .. hi
  BY DEF Rising, Fills
<1>1. n \in Nat /\ \A k \in 1 .. n : h[k] \in Nat /\ h[k] \in lo .. hi
  BY <1>0
<1>2. Off = {}
  <2> SUFFICES ASSUME Off # {} PROVE FALSE
    OBVIOUS
  <2>1. PICK k \in Off : \A j \in Off : k <= j
    <3>1. Off \in SUBSET Nat
      OBVIOUS
    <3> HIDE DEF Off
    <3> QED
      BY <3>1, NatMin
  <2>2. k \in 1 .. n /\ h[k] # lo + k - 1
    OBVIOUS
  <2>3. \A j \in 1 .. n : j < k => h[j] = lo + j - 1
    <3> TAKE j \in 1 .. n
    <3> HAVE j < k
    <3>1. j \notin Off
      BY <2>1, <2>2
    <3> QED
      BY <3>1
  <2> HIDE DEF Off
  <2>4. h[k] >= lo + k - 1
    <3>1. CASE k = 1
      <4>1. h[k] \in Nat /\ h[k] >= lo
        BY <2>2, <1>1
      <4> QED
        BY <4>1, <3>1
    <3>2. CASE k # 1
      <4>1. k - 1 \in 1 .. n /\ k - 1 < k
        BY <3>2, <2>2
      <4>2. h[k - 1] = lo + (k - 1) - 1 /\ h[k - 1] < h[k]
        BY <4>1, <2>2, <2>3, <1>0
      <4> QED
        BY <4>2, <2>2, <1>1
    <3> QED
      BY <3>1, <3>2
  <2>5. lo + k - 1 \in lo .. hi
    BY <2>2, <2>4, <1>1
  <2>6. PICK j \in 1 .. n : h[j] = lo + k - 1
    BY <2>5, <1>0
  <2>7. CASE j < k
    <3>1. h[j] = lo + j - 1
      BY <2>7, <2>3
    <3> QED
      BY <3>1, <2>6, <2>7, <2>2
  <2>8. CASE k < j
    <3>1. h[k] < h[j]
      BY <2>8, <2>2, <1>0
    <3> QED
      BY <3>1, <2>4, <2>6, <1>1, <2>2
  <2>9. CASE j = k
    BY <2>9, <2>6, <2>2
  <2> QED
    BY <2>2, <2>7, <2>8, <2>9
<1>3. \A k \in 1 .. n : h[k] = lo + k - 1
  BY <1>2
<1>4. n = m
  <2>1. CASE hi < lo
    <3>1. n = 0
      <4> SUFFICES ASSUME n # 0 PROVE FALSE
        OBVIOUS
      <4>1. 1 \in 1 .. n
        BY <1>1
      <4> QED
        BY <4>1, <1>1, <2>1
    <3> QED
      BY <3>1, <2>1
  <2>2. CASE ~(hi < lo)
    <3>1. PICK k \in 1 .. n : h[k] = hi
      <4>1. hi \in lo .. hi
        BY <2>2
      <4> QED
        BY <4>1, <1>0
    <3>2. hi = lo + k - 1
      BY <3>1, <1>3
    <3>3. n \in 1 .. n /\ h[n] = lo + n - 1 /\ h[n] <= hi
      <4>1. n \in 1 .. n
        BY <1>1
      <4> QED
        BY <4>1, <1>1, <1>3
    <3>4. n = k
      BY <3>2, <3>3, <1>1
    <3> QED
      BY <3>2, <3>4, <2>2
  <2> QED
    BY <2>1, <2>2
<1>5. h = [i \in 1 .. n |-> h[i]]
  OBVIOUS
<1> HIDE DEF m, n
<1>6. h = [i \in 1 .. n |-> lo + i - 1]
  BY <1>3, <1>5
<1> QED
  BY <1>4, <1>6 DEF m, Row

LEMMA VoiceInvTrue == VoiceInv => VoiceIsTrue
<1> SUFFICES ASSUME VoiceInv PROVE VoiceIsTrue
  OBVIOUS
<1>1. ASSUME NEW f \in Transcripts, tailer[f] # NoTailer, ~torn[f]
      PROVE  heard[f] = [i \in 1 .. (IF tailer[f].off \div LineBytes < first[f] THEN 0
                                     ELSE tailer[f].off \div LineBytes + 1 - first[f])
                           |-> first[f] + i - 1]
  <2> DEFINE h == heard[f]
             lo == first[f]
             hi == tailer[f].off \div LineBytes
  <2>1. Reads(tailer[f], h, size[f]) /\ Follows(tailer[f], h, lo, size[f])
    BY <1>1 DEF VoiceInv
  <2>2. h \in Seq(Nat) /\ lo \in Nat
    BY DEF VoiceInv, VoiceTypeOK
  <2>3. hi \in Nat
    <3>1. tailer[f].off \in Nat
      BY <2>1 DEF Reads
    <3> QED
      BY <3>1 DEF LineBytes
  <2>4. Rising(h)
    BY <2>1 DEF Reads, Rising
  <2>5. Fills(h, lo, hi)
    BY <2>1 DEF Follows, Fills
  <2> HIDE DEF h, lo, hi
  <2>6. h = Row(lo, hi)
    BY <2>2, <2>3, <2>4, <2>5, RowIs
  <2> QED
    BY <2>6 DEF h, lo, hi, Row
<1>2. ASSUME NEW f \in Transcripts
      PROVE  \A i, j \in 1 .. Len(heard[f]) : i < j => heard[f][i] < heard[f][j]
  <2>1. CASE tailer[f] = NoTailer
    <3>1. heard[f] = << >>
      BY <2>1 DEF VoiceInv
    <3> QED
      BY <3>1
  <2>2. CASE tailer[f] # NoTailer
    BY <2>2 DEF VoiceInv, Reads
  <2> QED
    BY <2>1, <2>2
<1>3. PostedAsHeard
  <2> SUFFICES ASSUME NEW c \in Channels, NEW f \in Transcripts
               PROVE  /\ Rising(posted[c][f])
                      /\ LinesOf(posted[c][f]) =
                           IF c = "speaker" /\ ~SpokenOf(f) THEN {} ELSE LinesOf(heard[f]) \ lost[c][f]
    BY DEF PostedAsHeard
  <2>1. CASE Silent(c, f)
    <3>1. posted[c][f] = << >>
      BY <2>1 DEF VoiceInv
    <3>2. Rising(<< >>) /\ LinesOf(<< >>) = {}
      BY DEF Rising, LinesOf
    <3> QED
      BY <3>1, <3>2, <2>1 DEF Silent
  <2>2. CASE ~Silent(c, f)
    <3>1. Carries(posted[c][f], heard[f], lost[c][f])
      BY <2>2 DEF VoiceInv
    <3> QED
      BY <3>1, <2>2 DEF Silent, Carries
  <2> QED
    BY <2>1, <2>2
<1> QED
  BY <1>1, <1>2, <1>3 DEF VoiceIsTrue, VoiceFollows, HeardOnce, Rising

\* Wherever the reads fall, what is read of a transcript are its lines from the
\* first that begins after the terminal is first seen, or from the top, each once
\* and in order, and none left out that its tailer is past; when a read broke a
\* character, still each once and in order; and what reaches the speaker and the
\* column is that, once and in order, without the lines whose own post failed
\* (pty_voice's poll_lines and poll_blocks, mind_server's _pty_voice_sweep).
THEOREM VoiceTrue == VoiceSpec => []VoiceIsTrue
  BY VoiceInvInit, VoiceInvStep, VoiceInvTrue, PTL DEF VoiceSpec

-----------------------------------------------------------------------------
(* All of them together, as they are run.                                   *)

\* A behaviour of the run is one of each part, which moves or stands still.
LEMMA PartsRun ==
  Spec => /\ FilesSpec /\ TextSpec /\ VoiceSpec /\ SurfacesSpec
          /\ CommandsSpec /\ AnswerSpec /\ ChunksSpec
<1>1. Init => /\ FilesInit /\ TextInit /\ VoiceInit /\ SurfacesInit
              /\ CommandsInit /\ AnswerInit /\ ChunksInit
  BY DEF Init
<1>2. [Next]_vars => [FilesNext]_filesVars
  BY DEF Next, vars
<1>3. [Next]_vars => [TextNext]_file
  BY DEF Next, vars
<1>4. [Next]_vars => [VoiceNext]_voiceTailerVars
  BY DEF Next, vars
<1>5. [Next]_vars => [SurfacesNext]_surfaceVars
  BY DEF Next, vars
<1>6. [Next]_vars => [CommandsNext]_commandVars
  BY DEF Next, vars
<1>7. [Next]_vars => [AnswerNext]_answerVars
  BY DEF Next, vars
<1>8. [Next]_vars => [ChunksNext]_chunkVars
  BY DEF Next, vars
<1> QED
  BY <1>1, <1>2, <1>3, <1>4, <1>5, <1>6, <1>7, <1>8, PTL
     DEF Spec, FilesSpec, TextSpec, VoiceSpec, SurfacesSpec, CommandsSpec, AnswerSpec, ChunksSpec

\* Every part of the run stays in its types.
THEOREM PartsTypeCorrect == Spec => []TypeOK
<1>1. /\ FilesTypeOK /\ TextTypeOK /\ VoiceTypeOK /\ SurfacesTypeOK
      /\ CommandsTypeOK /\ AnswerTypeOK /\ ChunksTypeOK
      => TypeOK
  BY DEF TypeOK
<1> QED
  BY <1>1, PartsRun, FilesTypeCorrect, TextTypeCorrect, VoiceTypeCorrect, SurfacesTypeCorrect,
     CommandsTypeCorrect, AnswerTypeCorrect, ChunksTypeCorrect, PTL

=============================================================================
