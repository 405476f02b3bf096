---------------------------- MODULE TurnService ----------------------------
(***************************************************************************)
(* What POST /sessions/<id>/message promises its callers, whatever happens *)
(* to their connections: a session streams one turn at a time, refuses a   *)
(* message only while it is busy or after it has gone, and streams a turn  *)
(* at most one result, after which nothing more is said on that turn.      *)
(***************************************************************************)
EXTENDS Sequences

CONSTANTS Turns, Lines, Results   \* the results are the lines that end a turn

VARIABLES
    phase,    \* of each turn: "new", "open", "closed" or "refused"
    said,     \* the lines streamed on each turn
    open      \* the session still takes messages

vars == <<phase, said, open>>

TypeOK == /\ phase \in [Turns -> {"new", "open", "closed", "refused"}]
          /\ said \in [Turns -> Seq(Lines)]
          /\ open \in BOOLEAN

Busy == \E t \in Turns : phase[t] = "open"

Init == /\ phase = [t \in Turns |-> "new"]
        /\ said = [t \in Turns |-> <<>>]
        /\ open = TRUE

Accept(t) == /\ phase[t] = "new" /\ open /\ ~Busy
             /\ phase' = [phase EXCEPT ![t] = "open"]
             /\ UNCHANGED <<said, open>>

\* A refusal may be the discovery that the harness process has died.
Refuse(t) == /\ phase[t] = "new"
             /\ phase' = [phase EXCEPT ![t] = "refused"]
             /\ open' \in {open, FALSE}
             /\ Busy \/ ~open'
             /\ UNCHANGED said

Finished(t) == \E n \in DOMAIN said[t] : said[t][n] \in Results

Stream(t) == /\ phase[t] = "open" /\ ~Finished(t)
             /\ \E l \in Lines : said' = [said EXCEPT ![t] = Append(@, l)]
             /\ UNCHANGED <<phase, open>>

Close(t) == /\ phase[t] = "open"
            /\ phase' = [phase EXCEPT ![t] = "closed"]
            /\ UNCHANGED <<said, open>>

Withdraw == open /\ open' = FALSE /\ UNCHANGED <<phase, said>>

Next == \/ \E t \in Turns : Accept(t) \/ Refuse(t) \/ Stream(t) \/ Close(t)
        \/ Withdraw

Spec == Init /\ [][Next]_vars

=============================================================================
