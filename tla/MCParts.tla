------------------------------- MODULE MCParts -------------------------------
(* Parts that share no state, one at a time: a behaviour is one of a       *)
(* single part, and the others stay as they begin.                         *)
EXTENDS HarnessFiles, FileText, VoiceTailer, SessionSurfaces, ChatCommands, AnswerStream,
        MessageChunks, TLC

VARIABLE part  \* the part that moves

Turns == {<<1, 0>>, <<1, 1>>, <<0, 1>>}  \* a word, a word and its newline, a newline

Symmetry == Permutations(Taps) \cup Permutations(Pickers)

Parts == {"files", "text", "voice", "surfaces", "commands", "answer", "chunks"}

\* What the others begin with, where there is a choice.
Still ==
  /\ part # "files" => tree["mind"] = None
  /\ part # "voice" => size["old"] = 0
  /\ part # "chunks" => bot = "discord"

Init ==
  /\ part \in Parts
  /\ FilesInit /\ TextInit /\ VoiceInit /\ SurfacesInit
  /\ CommandsInit /\ AnswerInit /\ ChunksInit
  /\ Still

vars == <<part, filesVars, file, voiceTailerVars, surfaceVars, commandVars, answerVars, chunkVars>>

Next ==
  /\ UNCHANGED part
  /\ \/ /\ part = "files" /\ FilesNext
        /\ UNCHANGED <<file, voiceTailerVars, surfaceVars, commandVars, answerVars, chunkVars>>
     \/ /\ part = "text" /\ TextNext
        /\ UNCHANGED <<filesVars, voiceTailerVars, surfaceVars, commandVars, answerVars, chunkVars>>
     \/ /\ part = "voice" /\ VoiceNext
        /\ UNCHANGED <<filesVars, file, surfaceVars, commandVars, answerVars, chunkVars>>
     \/ /\ part = "surfaces" /\ SurfacesNext
        /\ UNCHANGED <<filesVars, file, voiceTailerVars, commandVars, answerVars, chunkVars>>
     \/ /\ part = "commands" /\ CommandsNext
        /\ UNCHANGED <<filesVars, file, voiceTailerVars, surfaceVars, answerVars, chunkVars>>
     \/ /\ part = "answer" /\ AnswerNext
        /\ UNCHANGED <<filesVars, file, voiceTailerVars, surfaceVars, commandVars, chunkVars>>
     \/ /\ part = "chunks" /\ ChunksNext
        /\ UNCHANGED <<filesVars, file, voiceTailerVars, surfaceVars, commandVars, answerVars>>

Spec == Init /\ [][Next]_vars

\* Every part stays in its types.
TypeOK ==
  /\ FilesTypeOK /\ TextTypeOK /\ VoiceTypeOK /\ SurfacesTypeOK
  /\ CommandsTypeOK /\ AnswerTypeOK /\ ChunksTypeOK
=============================================================================
