----------------------------- MODULE MCProgress ------------------------------
(* Parts that share no state, one at a time: a behaviour is one of a       *)
(* single part, and the others stay as they begin.                         *)
EXTENDS MindIdentity, CodexTerminal, DiscordChannel

VARIABLE part  \* the part that moves

Parts == {"identity", "codex", "discord"}

\* What the others begin with, where there is a choice.
Still ==
  /\ part # "identity" => comms = "down"

Init ==
  /\ part \in Parts
  /\ IdentityInit /\ TerminalInit /\ DiscordInit
  /\ Still

vars == <<part, identityVars, terminalVars, discordVars>>

Next ==
  /\ UNCHANGED part
  /\ \/ /\ part = "identity" /\ IdentityNext
        /\ UNCHANGED <<terminalVars, discordVars>>
     \/ /\ part = "codex" /\ TerminalNext
        /\ UNCHANGED <<identityVars, discordVars>>
     \/ /\ part = "discord" /\ DiscordNext
        /\ UNCHANGED <<identityVars, terminalVars>>

\* The fairness of each part, when it is the one that moves.
Fair ==
  /\ \A p \in Procs : WF_identityVars(part = "identity" /\ ProcStep(p))
  /\ WF_identityVars(part = "identity" /\ Ages)
  /\ \A s \in Terminals :
       WF_terminalVars(part = "codex" /\ \E w \in Watched(s) : Watch(w))
  /\ \A r \in Requests : WF_discordVars(part = "discord" /\ req[r].pc # "new" /\ Speaks(r))

Spec == Init /\ [][Next]_vars /\ Fair

\* Every part stays in its types.
TypeOK ==
  /\ IdentityTypeOK
  /\ TerminalTypeOK
  /\ DiscordTypeOK
=============================================================================
