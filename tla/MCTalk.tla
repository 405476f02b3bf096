-------------------------------- MODULE MCTalk --------------------------------
(* Parts that share no state, one at a time: a behaviour is one of a       *)
(* single part, and the others stay as they begin.                         *)
EXTENDS TelegramChat, ProactiveDelivery, WakeListener

VARIABLE part  \* the part that moves

Parts == {"chat", "delivery", "listener"}

Init ==
  /\ part \in Parts
  /\ ChatInit /\ DeliveryInit /\ WakeInit

vars == <<part, chatVars, deliveryVars, wakeVars>>

Next ==
  /\ UNCHANGED part
  /\ \/ /\ part = "chat" /\ ChatNext
        /\ UNCHANGED <<deliveryVars, wakeVars>>
     \/ /\ part = "delivery" /\ DeliveryNext
        /\ UNCHANGED <<chatVars, wakeVars>>
     \/ /\ part = "listener" /\ WakeNext
        /\ UNCHANGED <<chatVars, deliveryVars>>

\* The fairness of each part, as its module states it. A part that does not move
\* has an action enabled that it never takes, so each is asked of the part that does.
Fair ==
  /\ \A h \in Handlers : WF_chatVars(part = "chat" /\ Proceeds(h))
  /\ \A t \in Texts : /\ WF_deliveryVars(part = "delivery" /\ Deliver(t))
                      /\ WF_deliveryVars(part = "delivery" /\ ComesDue(t))
  /\ WF_deliveryVars(part = "delivery" /\ Consumer)
  /\ WF_deliveryVars(part = "delivery" /\ Shutdown)
  /\ WF_wakeVars(part = "listener" /\ WorkerMoves)
  /\ WF_wakeVars(part = "listener" /\ Poll)
  /\ WF_wakeVars(part = "listener" /\ StartReports)
  /\ WF_wakeVars(part = "listener" /\ Quit)

Spec == Init /\ [][Next]_vars /\ Fair
=============================================================================
