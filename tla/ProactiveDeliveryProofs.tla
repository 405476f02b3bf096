----------------------- MODULE ProactiveDeliveryProofs -----------------------
(***************************************************************************)
(* Theorems about ProactiveDelivery, for any texts, chunks and attempts.   *)
(***************************************************************************)
EXTENDS ProactiveDelivery, SequenceTheorems, TLAPS

\* What the queue holds after an item is put in, and after one is taken out.
LEMMA AppendSet ==
    ASSUME NEW S, NEW s \in Seq(S), NEW e \in S
    PROVE  /\ ToSet(Append(s, e)) = ToSet(s) \union {e}
           /\ IsInjective(s) /\ e \notin ToSet(s) => IsInjective(Append(s, e))
<1>1. /\ Append(s, e) \in Seq(S) /\ Len(Append(s, e)) = Len(s) + 1 /\ Len(s) \in Nat
      /\ \A n \in 1 .. Len(s) : Append(s, e)[n] = s[n]
      /\ Append(s, e)[Len(s) + 1] = e
  OBVIOUS
<1>2. DOMAIN s = 1 .. Len(s) /\ DOMAIN Append(s, e) = 1 .. Len(s) + 1
  BY <1>1
<1>3. ToSet(Append(s, e)) = ToSet(s) \union {e}
  BY <1>1, <1>2 DEF ToSet
<1>4. ASSUME IsInjective(s), e \notin ToSet(s)
      PROVE  IsInjective(Append(s, e))
  BY <1>1, <1>2, <1>4 DEF IsInjective, ToSet
<1> QED  BY <1>3, <1>4

\* What is left when the item at the head is taken out.
LEMMA TailSet ==
    ASSUME NEW S, NEW s \in Seq(S), s # <<>>, IsInjective(s)
    PROVE  /\ Head(s) \in S /\ Tail(s) \in Seq(S)
           /\ Head(s) \in ToSet(s)
           /\ ToSet(Tail(s)) = ToSet(s) \ {Head(s)}
           /\ IsInjective(Tail(s))
<1>1. /\ Tail(s) \in Seq(S) /\ Len(s) \in Nat /\ Len(s) > 0 /\ Len(Tail(s)) = Len(s) - 1
      /\ \A n \in 1 .. Len(s) - 1 : Tail(s)[n] = s[n + 1]
      /\ Head(s) = s[1] /\ s[1] \in S
  OBVIOUS
<1>2. DOMAIN s = 1 .. Len(s) /\ DOMAIN Tail(s) = 1 .. Len(s) - 1
  BY <1>1
<1>3. \A n \in 1 .. Len(s) - 1 : n + 1 \in 1 .. Len(s) /\ 1 \in 1 .. Len(s) /\ n + 1 # 1
  BY <1>1
<1>4. ToSet(Tail(s)) \subseteq ToSet(s) \ {Head(s)}
  BY <1>1, <1>2, <1>3 DEF ToSet, IsInjective
<1>5. ASSUME NEW x \in ToSet(s) \ {Head(s)} PROVE x \in ToSet(Tail(s))
  <2>1. PICK n \in 1 .. Len(s) : x = s[n]
    BY <1>2, <1>5 DEF ToSet
  <2>2. n # 1
    BY <1>1, <1>5, <2>1
  <2>3. n - 1 \in 1 .. Len(s) - 1 /\ Tail(s)[n - 1] = s[n]
    BY <1>1, <2>1, <2>2
  <2> QED  BY <1>2, <2>1, <2>3 DEF ToSet
<1>6. IsInjective(Tail(s))
  BY <1>1, <1>2, <1>3 DEF IsInjective
<1>7. Head(s) \in ToSet(s)
  BY <1>1, <1>2 DEF ToSet
<1> QED  BY <1>1, <1>4, <1>5, <1>6, <1>7

\* The empty queue holds nothing.
LEMMA EmptySet == ToSet(<<>>) = {} /\ IsInjective(<<>>)
BY DEF ToSet, IsInjective

-----------------------------------------------------------------------------
(* Every text is in one place.                                             *)

\* A text is in one place from the moment it is accepted until it has landed,
\* and in none before and after; nothing is tried once it is given up.
Placed == \A t \in Texts :
              IF t \notin accepted \/ left[t] = 0 THEN \A p \in Places : ~In(t, p)
              ELSE \E p \in Places : \A q \in Places : In(t, q) <=> q = p
Unheard == \A t \in Texts \ accepted : left[t] = Chunks /\ (t \in Answers => tries[t] = 0)
Trying  == /\ \A t \in sending : tries[t] < DeliverAttempts
           /\ \A t \in Texts \ journal : attempts[t] < MaxAttempts

PlaceInv == DeliveryTypeOK /\ Placed /\ Unheard /\ Trying /\ IsInjective(ready)

\* At first no text is anywhere.
LEMMA PlaceInit == DeliveryInit => PlaceInv
<1> SUFFICES ASSUME DeliveryInit PROVE PlaceInv
  OBVIOUS
<1>1. <<>> \in Seq(Texts) /\ <<>> \in Seq(1 .. Chunks)
  BY EmptySeq
<1>2. DeliveryTypeOK
  BY <1>1, DeliveryAssumption DEF DeliveryInit, DeliveryTypeOK
<1>3. \A t \in Texts, p \in Places : ~In(t, p)
  BY EmptySet, DeliveryAssumption DEF DeliveryInit, In, Places
<1> QED
  BY <1>2, <1>3, EmptySet, DeliveryAssumption DEF DeliveryInit, PlaceInv, Placed, Unheard, Trying

\* One text moves from where it was to one place, or has landed.
LEMMA PlaceMoves ==
    ASSUME PlaceInv, NEW t \in Texts, accepted' = accepted \union {t},
           \A u \in Answers \ {t} : tries'[u] = tries[u],
           \A u \in Texts \ {t} : left'[u] = left[u] /\ \A p \in Places : In(u, p)' <=> In(u, p),
           IF left'[t] = 0 THEN \A p \in Places : ~In(t, p)'
           ELSE \E p \in Places : \A q \in Places : In(t, q)' <=> q = p
    PROVE  Placed' /\ Unheard'
BY DEF PlaceInv, Placed, Unheard

\* The text has moved, and nothing of it has landed.
LEMMA PlaceMovesTo ==
    ASSUME PlaceInv, NEW t \in Texts, NEW p \in Places, accepted' = accepted \union {t},
           left' = left, left[t] # 0, \A u \in Answers \ {t} : tries'[u] = tries[u],
           \A u \in Texts \ {t}, q \in Places : In(u, q)' <=> In(u, q),
           \A q \in Places : In(t, q)' <=> q = p
    PROVE  Placed' /\ Unheard'
<1>1. \E x \in Places : \A q \in Places : In(t, q)' <=> q = x
  OBVIOUS
<1> QED  BY <1>1, PlaceMoves

\* Where a text that is in a place is not.
LEMMA PlaceAlone ==
    ASSUME PlaceInv, NEW t \in Texts, NEW p \in Places, In(t, p)
    PROVE  /\ t \in accepted /\ left[t] \in 1 .. Chunks
           /\ \A q \in Places : In(t, q) <=> q = p
<1>1. t \in accepted /\ left[t] # 0 /\ \A q \in Places : In(t, q) <=> q = p
  BY DEF PlaceInv, Placed
<1> QED  BY <1>1, DeliveryAssumption DEF PlaceInv, DeliveryTypeOK

\* A text nobody holds is put at the end of the queue: by the idle drain, or
\* by the delivery or the retry that held it until then.
LEMMA PlaceEnqueued ==
    ASSUME PlaceInv, NEW t \in Texts, t \notin ToSet(ready), Enqueue(t)
    PROVE  /\ ready' \in Seq(Texts) /\ IsInjective(ready')
           /\ ToSet(ready') = ToSet(ready) \union {t}
BY AppendSet DEF PlaceInv, DeliveryTypeOK, Enqueue

\* A text nobody asked for arrives on the queue.
LEMMA PlaceArrives ==
    ASSUME PlaceInv, NEW t \in Texts, UnaskedArrives(t)
    PROVE  PlaceInv'
<1>1. /\ t \in Unasked /\ t \notin accepted /\ accepted' = accepted \union {t} /\ Enqueue(t)
      /\ UNCHANGED <<sending, tries, left, attempts, hand, journal, phase, landed, ahead, delayed>>
  BY DEF UnaskedArrives, bot, Enqueue
<1>2. /\ \A p \in Places : ~In(t, p)
      /\ left[t] = Chunks
  BY <1>1 DEF PlaceInv, Placed, Unheard
<1>3. t \notin ToSet(ready)
  BY <1>2 DEF In, Places
<1>4. ready' \in Seq(Texts) /\ IsInjective(ready') /\ ToSet(ready') = ToSet(ready) \union {t}
  BY <1>1, <1>3, PlaceEnqueued
<1>5. \A u \in Texts \ {t}, p \in Places : In(u, p)' <=> In(u, p)
  BY <1>1, <1>4 DEF In, Places
<1>6. \A q \in Places : In(t, q)' <=> q = "ready"
  BY <1>1, <1>2, <1>4 DEF In, Places
<1>7. Placed' /\ Unheard'
  BY <1>1, <1>2, <1>5, <1>6, PlaceMoves, DeliveryAssumption DEF Places
<1>8. DeliveryTypeOK'
  BY <1>1, <1>4 DEF PlaceInv, DeliveryTypeOK
<1> QED  BY <1>1, <1>4, <1>7, <1>8 DEF PlaceInv, Trying

\* An answer that is ready goes into the hands of its delivery.
LEMMA PlaceAnswerStarts ==
    ASSUME PlaceInv, NEW t \in Texts, AnswerStarts(t)
    PROVE  PlaceInv'
<1>1. /\ t \in Answers /\ t \notin accepted /\ accepted' = accepted \union {t}
      /\ sending' = sending \union {t}
      /\ UNCHANGED <<tries, left, ready, delayed, attempts, hand, journal, phase, landed, ahead>>
  BY DEF AnswerStarts, queueVars
<1>2. /\ \A p \in Places : ~In(t, p)
      /\ left[t] = Chunks
  BY <1>1 DEF PlaceInv, Placed, Unheard
<1>3. \A u \in Texts \ {t}, p \in Places : In(u, p)' <=> In(u, p)
  BY <1>1 DEF In, Places
<1>4. \A q \in Places : In(t, q)' <=> q = "sending"
  BY <1>1, <1>2 DEF In, Places
<1>5. Placed' /\ Unheard'
  BY <1>1, <1>2, <1>3, <1>4, PlaceMoves, DeliveryAssumption DEF Places
<1>6. DeliveryTypeOK'
  BY <1>1 DEF PlaceInv, DeliveryTypeOK
<1>7. tries[t] < DeliverAttempts
  BY <1>1, DeliveryAssumption DEF PlaceInv, Unheard
<1> QED  BY <1>1, <1>5, <1>6, <1>7 DEF PlaceInv, Trying

\* A chunk is taken: what is left shrinks, and what landed grows.
LEMMA TakenType ==
    ASSUME DeliveryTypeOK, NEW t \in Texts, left[t] \in 1 .. Chunks, Taken(t)
    PROVE  /\ left' \in [Texts -> 0 .. Chunks] /\ left'[t] = left[t] - 1
           /\ \A u \in Texts \ {t} : left'[u] = left[u]
           /\ landed' \in [Texts -> Seq(1 .. Chunks)]
<1>1. Chunk(t) \in 1 .. Chunks
  BY DeliveryAssumption DEF Chunk
<1>2. Append(landed[t], Chunk(t)) \in Seq(1 .. Chunks)
  BY <1>1 DEF DeliveryTypeOK
<1> QED  BY <1>2, DeliveryAssumption DEF Taken, DeliveryTypeOK

\* A send that raises: nothing is known to have landed.
LEMMA RaisesType ==
    ASSUME DeliveryTypeOK, NEW t \in Texts, left[t] \in 1 .. Chunks, Raises(t)
    PROVE  left' = left /\ landed' \in [Texts -> Seq(1 .. Chunks)]
<1>1. Chunk(t) \in 1 .. Chunks
  BY DeliveryAssumption DEF Chunk
<1>2. Append(landed[t], Chunk(t)) \in Seq(1 .. Chunks)
  BY <1>1 DEF DeliveryTypeOK
<1> QED  BY <1>2 DEF Raises, DeliveryTypeOK

\* A delivery that sends a chunk keeps the text, or is done with it.
LEMMA PlaceDeliverSends ==
    ASSUME PlaceInv, NEW t \in Texts, DeliverSends(t)
    PROVE  PlaceInv'
<1>1. /\ t \in sending /\ Taken(t)
      /\ sending' = IF left'[t] = 0 THEN sending \ {t} ELSE sending
      /\ UNCHANGED <<accepted, tries, ready, delayed, attempts, hand, journal, phase, ahead>>
  BY DEF DeliverSends, queueVars
<1>2. t \in accepted /\ left[t] \in 1 .. Chunks /\ \A q \in Places : In(t, q) <=> q = "sending"
  BY <1>1, PlaceAlone DEF In, Places
<1>3. /\ left' \in [Texts -> 0 .. Chunks] /\ left'[t] = left[t] - 1
      /\ \A u \in Texts \ {t} : left'[u] = left[u]
      /\ landed' \in [Texts -> Seq(1 .. Chunks)]
  BY <1>1, <1>2, TakenType DEF PlaceInv
<1>4. \A u \in Texts \ {t}, p \in Places : In(u, p)' <=> In(u, p)
  BY <1>1 DEF In, Places
<1>5. \A q \in Places : In(t, q)' <=> q = "sending" /\ left'[t] # 0
  BY <1>1, <1>2 DEF In, Places
<1>6. Placed' /\ Unheard'
  <2>1. accepted' = accepted \union {t} /\ \A u \in Answers \ {t} : tries'[u] = tries[u]
    BY <1>1, <1>2
  <2>2. IF left'[t] = 0 THEN \A p \in Places : ~In(t, p)'
        ELSE \E p \in Places : \A q \in Places : In(t, q)' <=> q = p
    BY <1>5 DEF Places
  <2> QED  BY <1>3, <1>4, <2>1, <2>2, PlaceMoves
<1>7. DeliveryTypeOK'
  BY <1>1, <1>3 DEF PlaceInv, DeliveryTypeOK
<1> QED  BY <1>1, <1>6, <1>7 DEF PlaceInv, Trying

\* A delivery that fails keeps the text, or puts it on the queue.
LEMMA PlaceDeliverFails ==
    ASSUME PlaceInv, NEW t \in Texts, DeliverFails(t)
    PROVE  PlaceInv'
<1>1. /\ t \in sending /\ Raises(t) /\ tries' = [tries EXCEPT ![t] = @ + 1]
      /\ UNCHANGED <<accepted, attempts, hand, journal, phase, ahead, delayed>>
  BY DEF DeliverFails, Enqueue
<1>2. t \in accepted /\ left[t] \in 1 .. Chunks /\ \A q \in Places : In(t, q) <=> q = "sending"
  BY <1>1, PlaceAlone DEF In, Places
<1>3. left' = left /\ landed' \in [Texts -> Seq(1 .. Chunks)]
  BY <1>1, <1>2, RaisesType DEF PlaceInv
<1>4. /\ t \in Answers /\ tries[t] \in Nat /\ tries'[t] = tries[t] + 1
      /\ tries' \in [Answers -> 0 .. DeliverAttempts]
      /\ \A u \in Answers \ {t} : tries'[u] = tries[u]
  BY <1>1, DeliveryAssumption DEF PlaceInv, Trying, DeliveryTypeOK
<1>5. accepted' = accepted \union {t}
  BY <1>1, <1>2
<1>6. CASE tries'[t] < DeliverAttempts
  <2>1. UNCHANGED <<sending, ready>>
    BY <1>6 DEF DeliverFails
  <2>2. \A u \in Texts, p \in Places : In(u, p)' <=> In(u, p)
    BY <1>1, <2>1 DEF In, Places
  <2>3. \A q \in Places : In(t, q)' <=> q = "sending"
    BY <1>2, <2>2
  <2>4. Placed' /\ Unheard'
    <3>1. /\ left' = left /\ left[t] # 0 /\ "sending" \in Places
          /\ \A u \in Answers \ {t} : tries'[u] = tries[u]
      BY <1>2, <1>3, <1>4 DEF Places
    <3> QED  BY <1>5, <2>2, <2>3, <3>1, PlaceMovesTo
  <2>5. DeliveryTypeOK'
    BY <1>1, <1>3, <1>4, <2>1 DEF PlaceInv, DeliveryTypeOK
  <2>6. Trying'
    BY <1>1, <1>4, <1>6, <2>1 DEF PlaceInv, Trying, DeliveryTypeOK
  <2> QED  BY <2>1, <2>4, <2>5, <2>6 DEF PlaceInv
<1>7. CASE ~(tries'[t] < DeliverAttempts)
  <2>1. sending' = sending \ {t} /\ Enqueue(t)
    BY <1>7 DEF DeliverFails
  <2>2. t \notin ToSet(ready)
    BY <1>2 DEF In, Places
  <2>3. ready' \in Seq(Texts) /\ IsInjective(ready') /\ ToSet(ready') = ToSet(ready) \union {t}
    BY <2>1, <2>2, PlaceEnqueued
  <2>4. \A u \in Texts \ {t}, p \in Places : In(u, p)' <=> In(u, p)
    BY <1>1, <2>1, <2>3 DEF In, Places
  <2>5. \A q \in Places : In(t, q)' <=> q = "ready"
    BY <1>1, <1>2, <2>1, <2>3 DEF In, Places
  <2>6. Placed' /\ Unheard'
    <3>1. left' = left /\ left[t] # 0 /\ "ready" \in Places
      BY <1>2, <1>3 DEF Places
    <3>2. \A u \in Answers \ {t} : tries'[u] = tries[u]
      BY <1>4
    <3>3. accepted' = accepted \union {t}
      BY <1>5
    <3> QED  BY <2>4, <2>5, <3>1, <3>2, <3>3, PlaceMovesTo
  <2>7. DeliveryTypeOK'
    BY <1>1, <1>3, <1>4, <2>1, <2>3 DEF PlaceInv, DeliveryTypeOK
  <2>8. Trying'
    BY <1>1, <1>4, <2>1 DEF PlaceInv, Trying, DeliveryTypeOK
  <2> QED  BY <2>3, <2>6, <2>7, <2>8 DEF PlaceInv
<1> QED  BY <1>6, <1>7

\* A retry that comes due puts its text at the end of the queue.
LEMMA PlaceComesDue ==
    ASSUME PlaceInv, NEW t \in Texts, ComesDue(t)
    PROVE  PlaceInv'
<1>1. /\ t \in delayed /\ delayed' = delayed \ {t} /\ ready' = Append(ready, t)
      /\ UNCHANGED <<accepted, sending, tries, left, attempts, hand, journal, phase, landed, ahead>>
  BY DEF ComesDue, bot
<1>2. t \in accepted /\ left[t] \in 1 .. Chunks /\ \A q \in Places : In(t, q) <=> q = "delayed"
  BY <1>1, PlaceAlone DEF In, Places
<1>3. t \notin ToSet(ready)
  BY <1>2 DEF In, Places
<1>4. ready' \in Seq(Texts) /\ IsInjective(ready') /\ ToSet(ready') = ToSet(ready) \union {t}
  BY <1>1, <1>3, AppendSet DEF PlaceInv, DeliveryTypeOK
<1>5. \A u \in Texts \ {t}, p \in Places : In(u, p)' <=> In(u, p)
  BY <1>1, <1>4 DEF In, Places
<1>6. \A q \in Places : In(t, q)' <=> q = "ready"
  BY <1>1, <1>2, <1>4 DEF In, Places
<1>7. Placed' /\ Unheard'
  <2>1. /\ accepted' = accepted \union {t} /\ left' = left /\ left[t] # 0 /\ tries' = tries
        /\ "ready" \in Places
    BY <1>1, <1>2 DEF Places
  <2> QED  BY <1>5, <1>6, <2>1, PlaceMovesTo
<1>8. DeliveryTypeOK'
  BY <1>1, <1>4 DEF PlaceInv, DeliveryTypeOK
<1> QED  BY <1>1, <1>4, <1>7, <1>8 DEF PlaceInv, Trying

\* The consumer takes the text at the head, and holds it.
LEMMA PlaceTakes ==
    ASSUME PlaceInv, ConsumerTakes
    PROVE  PlaceInv'
<1>1. /\ Head(ready) \in Texts /\ ready' \in Seq(Texts) /\ IsInjective(ready')
      /\ Head(ready) \in ToSet(ready) /\ ToSet(ready') = ToSet(ready) \ {Head(ready)}
  BY TailSet DEF ConsumerTakes, PlaceInv, DeliveryTypeOK
<1>2. PICK t \in Texts : t = Head(ready)
  BY <1>1
<1>3. /\ hand = NoText /\ hand' = t
      /\ t \in ToSet(ready) /\ ToSet(ready') = ToSet(ready) \ {t}
      /\ ahead' = [u \in Texts |-> ahead[u] \ {t}]
      /\ UNCHANGED <<accepted, sending, tries, left, delayed, attempts, journal, phase, landed>>
  BY <1>1, <1>2 DEF ConsumerTakes, bot
<1>4. t \in accepted /\ left[t] \in 1 .. Chunks /\ \A q \in Places : In(t, q) <=> q = "ready"
  BY <1>3, PlaceAlone DEF In, Places
<1>5. \A u \in Texts \ {t}, p \in Places : In(u, p)' <=> In(u, p)
  BY <1>3, DeliveryAssumption DEF In, Places
<1>6. \A q \in Places : In(t, q)' <=> q = "hand"
  BY <1>3, <1>4 DEF In, Places
<1>7. Placed' /\ Unheard'
  <2>1. /\ accepted' = accepted \union {t} /\ left' = left /\ left[t] # 0 /\ tries' = tries
        /\ "hand" \in Places
    BY <1>3, <1>4 DEF Places
  <2> QED  BY <1>5, <1>6, <2>1, PlaceMovesTo
<1>8. ahead' \in [Texts -> SUBSET Texts]
  BY <1>3 DEF PlaceInv, DeliveryTypeOK
<1>9. DeliveryTypeOK'
  BY <1>1, <1>3, <1>8 DEF PlaceInv, DeliveryTypeOK
<1> QED  BY <1>1, <1>3, <1>7, <1>9 DEF PlaceInv, Trying

\* A consumer that sends a chunk keeps the text, or is done with it.
LEMMA PlaceConsumerSends ==
    ASSUME PlaceInv, NEW t \in Texts, hand = t, ConsumerSends
    PROVE  PlaceInv'
<1>1. /\ Taken(t)
      /\ hand' = IF left'[t] = 0 THEN NoText ELSE t
      /\ UNCHANGED <<accepted, sending, tries, ready, delayed, attempts, journal, phase, ahead>>
  BY DEF ConsumerSends, bot, queueVars
<1>2. t \in accepted /\ left[t] \in 1 .. Chunks /\ \A q \in Places : In(t, q) <=> q = "hand"
  BY PlaceAlone DEF In, Places
<1>3. /\ left' \in [Texts -> 0 .. Chunks] /\ left'[t] = left[t] - 1
      /\ \A u \in Texts \ {t} : left'[u] = left[u]
      /\ landed' \in [Texts -> Seq(1 .. Chunks)]
  BY <1>1, <1>2, TakenType DEF PlaceInv
<1>4. \A u \in Texts \ {t}, p \in Places : In(u, p)' <=> In(u, p)
  BY <1>1, DeliveryAssumption DEF In, Places
<1>5. \A q \in Places : In(t, q)' <=> q = "hand" /\ left'[t] # 0
  BY <1>1, <1>2, DeliveryAssumption DEF In, Places
<1>6. Placed' /\ Unheard'
  <2>1. accepted' = accepted \union {t} /\ \A u \in Answers \ {t} : tries'[u] = tries[u]
    BY <1>1, <1>2
  <2>2. IF left'[t] = 0 THEN \A p \in Places : ~In(t, p)'
        ELSE \E p \in Places : \A q \in Places : In(t, q)' <=> q = p
    BY <1>5 DEF Places
  <2> QED  BY <1>3, <1>4, <2>1, <2>2, PlaceMoves
<1>7. DeliveryTypeOK'
  BY <1>1, <1>3 DEF PlaceInv, DeliveryTypeOK
<1> QED  BY <1>1, <1>6, <1>7 DEF PlaceInv, Trying

\* A consumer that fails passes its text to a retry, or logs it.
LEMMA PlaceConsumerFails ==
    ASSUME PlaceInv, NEW t \in Texts, hand = t, ConsumerFails
    PROVE  PlaceInv'
<1>1. /\ Raises(t) /\ attempts' = [attempts EXCEPT ![t] = @ + 1] /\ hand' = NoText
      /\ UNCHANGED <<accepted, sending, tries, ready, phase>>
  BY DEF ConsumerFails, bot
<1>2. t \in accepted /\ left[t] \in 1 .. Chunks /\ \A q \in Places : In(t, q) <=> q = "hand"
  BY PlaceAlone DEF In, Places
<1>3. left' = left /\ landed' \in [Texts -> Seq(1 .. Chunks)]
  BY <1>1, <1>2, RaisesType DEF PlaceInv
<1>4. /\ attempts[t] < MaxAttempts /\ attempts'[t] = attempts[t] + 1
      /\ attempts' \in [Texts -> 0 .. MaxAttempts]
      /\ \A u \in Texts \ {t} : attempts'[u] = attempts[u]
  <2>1. t \notin journal
    BY <1>2 DEF In, Places
  <2> QED  BY <1>1, <2>1, DeliveryAssumption DEF PlaceInv, Trying, DeliveryTypeOK
<1>5. /\ accepted' = accepted \union {t} /\ left' = left /\ left[t] # 0
      /\ \A u \in Answers \ {t} : tries'[u] = tries[u]
  BY <1>1, <1>2, <1>3
<1>6. CASE attempts'[t] >= MaxAttempts
  <2>1. journal' = journal \union {t} /\ UNCHANGED <<delayed, ahead>>
    BY <1>6 DEF ConsumerFails
  <2>2. \A u \in Texts \ {t}, p \in Places : In(u, p)' <=> In(u, p)
    BY <1>1, <2>1, DeliveryAssumption DEF In, Places
  <2>3. \A q \in Places : In(t, q)' <=> q = "journal"
    BY <1>1, <1>2, <2>1, DeliveryAssumption DEF In, Places
  <2>4. "journal" \in Places /\ "delayed" \in Places
    BY DEF Places
  <2>5. Placed' /\ Unheard'
    BY <1>5, <2>2, <2>3, <2>4, PlaceMovesTo
  <2>6. DeliveryTypeOK'
    BY <1>1, <1>3, <1>4, <2>1 DEF PlaceInv, DeliveryTypeOK
  <2>7. Trying'
    BY <1>1, <1>4, <2>1 DEF PlaceInv, Trying
  <2> QED  BY <1>1, <2>5, <2>6, <2>7 DEF PlaceInv
<1>7. CASE ~(attempts'[t] >= MaxAttempts)
  <2>1. /\ delayed' = delayed \union {t} /\ UNCHANGED journal
        /\ ahead' = [ahead EXCEPT ![t] = ToSet(ready)]
    BY <1>7 DEF ConsumerFails
  <2>2. \A u \in Texts \ {t}, p \in Places : In(u, p)' <=> In(u, p)
    BY <1>1, <2>1, DeliveryAssumption DEF In, Places
  <2>3. \A q \in Places : In(t, q)' <=> q = "delayed"
    BY <1>1, <1>2, <2>1, DeliveryAssumption DEF In, Places
  <2>4. "journal" \in Places /\ "delayed" \in Places
    BY DEF Places
  <2>5. Placed' /\ Unheard'
    BY <1>5, <2>2, <2>3, <2>4, PlaceMovesTo
  <2>6. ToSet(ready) \subseteq Texts
    BY DEF PlaceInv, DeliveryTypeOK, ToSet
  <2>7. DeliveryTypeOK'
    BY <1>1, <1>3, <1>4, <2>1, <2>6 DEF PlaceInv, DeliveryTypeOK
  <2>8. Trying'
    BY <1>1, <1>4, <1>7, <2>1, DeliveryAssumption DEF PlaceInv, Trying, DeliveryTypeOK
  <2> QED  BY <1>1, <2>5, <2>7, <2>8 DEF PlaceInv
<1> QED  BY <1>6, <1>7

\* A cancelled consumer puts its text back on the queue.
LEMMA PlaceStopConsumer ==
    ASSUME PlaceInv, StopConsumer
    PROVE  PlaceInv'
<1>1. /\ phase' = "stopping" /\ hand' = NoText
      /\ UNCHANGED <<accepted, sending, tries, left, delayed, attempts, journal, landed, ahead>>
  BY DEF StopConsumer, bot, Enqueue
<1>2. CASE hand = NoText
  <2>1. UNCHANGED <<ready, hand>>
    BY <1>1, <1>2 DEF StopConsumer
  <2>2. \A u \in Texts, p \in Places : In(u, p)' <=> In(u, p)
    BY <1>1, <2>1 DEF In, Places
  <2>3. Placed' /\ Unheard'
    BY <1>1, <2>2 DEF PlaceInv, Placed, Unheard
  <2>4. DeliveryTypeOK'
    BY <1>1, <2>1 DEF PlaceInv, DeliveryTypeOK
  <2> QED  BY <1>1, <2>1, <2>3, <2>4 DEF PlaceInv, Trying
<1>3. ASSUME NEW t \in Texts, hand = t PROVE PlaceInv'
  <2>1. Enqueue(t)
    BY <1>3, DeliveryAssumption DEF StopConsumer
  <2>2. t \in accepted /\ left[t] \in 1 .. Chunks /\ \A q \in Places : In(t, q) <=> q = "hand"
    BY <1>3, PlaceAlone DEF In, Places
  <2>3. t \notin ToSet(ready)
    BY <2>2 DEF In, Places
  <2>4. ready' \in Seq(Texts) /\ IsInjective(ready') /\ ToSet(ready') = ToSet(ready) \union {t}
    BY <2>1, <2>3, PlaceEnqueued
  <2>5. \A u \in Texts \ {t}, p \in Places : In(u, p)' <=> In(u, p)
    BY <1>1, <1>3, <2>4, DeliveryAssumption DEF In, Places
  <2>6. \A q \in Places : In(t, q)' <=> q = "ready"
    BY <1>1, <2>2, <2>4, DeliveryAssumption DEF In, Places
  <2>7. Placed' /\ Unheard'
    <3>1. /\ accepted' = accepted \union {t} /\ left' = left /\ left[t] # 0 /\ tries' = tries
          /\ "ready" \in Places
      BY <1>1, <2>2 DEF Places
    <3> QED  BY <2>5, <2>6, <3>1, PlaceMovesTo
  <2>8. DeliveryTypeOK'
    BY <1>1, <2>4 DEF PlaceInv, DeliveryTypeOK
  <2> QED  BY <1>1, <2>4, <2>7, <2>8 DEF PlaceInv, Trying
<1> QED  BY <1>2, <1>3 DEF PlaceInv, DeliveryTypeOK

\* The shutdown logs every text that is still queued.
LEMMA PlaceShutdown ==
    ASSUME PlaceInv, Shutdown
    PROVE  PlaceInv'
<1>1. /\ phase' = "stopped" /\ sending = {}
      /\ journal' = journal \union ToSet(ready) \union delayed
      /\ ready' = <<>> /\ delayed' = {}
      /\ UNCHANGED <<accepted, sending, tries, left, attempts, hand, landed, ahead>>
  BY DEF Shutdown, bot
<1>2. ToSet(ready) \subseteq Texts /\ ToSet(ready') = {} /\ IsInjective(ready') /\ ready' \in Seq(Texts)
  BY <1>1, EmptySet, EmptySeq DEF PlaceInv, DeliveryTypeOK, ToSet
<1>3. ASSUME NEW t \in Texts
      PROVE  /\ In(t, "journal")' <=> In(t, "journal") \/ In(t, "ready") \/ In(t, "delayed")
             /\ In(t, "hand")' <=> In(t, "hand")
             /\ ~In(t, "sending")' /\ ~In(t, "sending")
             /\ ~In(t, "ready")' /\ ~In(t, "delayed")'
  BY <1>1, <1>2 DEF In
<1>4. Placed'
  <2> SUFFICES ASSUME NEW t \in Texts
               PROVE  IF t \notin accepted \/ left[t] = 0 THEN \A p \in Places : ~In(t, p)'
                      ELSE \E p \in Places : \A q \in Places : In(t, q)' <=> q = p
    BY <1>1 DEF Placed
  <2>1. CASE t \notin accepted \/ left[t] = 0
    <3>1. \A p \in Places : ~In(t, p)
      BY <2>1 DEF PlaceInv, Placed
    <3> QED  BY <1>3, <2>1, <3>1 DEF Places
  <2>2. CASE ~(t \notin accepted \/ left[t] = 0)
    <3>1. PICK p \in Places : \A q \in Places : In(t, q) <=> q = p
      BY <2>2 DEF PlaceInv, Placed
    <3>2. CASE p = "hand"
      <4>1. \A q \in Places : In(t, q)' <=> q = "hand"
        BY <1>3, <3>1, <3>2 DEF Places
      <4> QED  BY <2>2, <4>1 DEF Places
    <3>3. CASE p # "hand"
      <4>1. \A q \in Places : In(t, q)' <=> q = "journal"
        BY <1>3, <3>1, <3>3 DEF Places
      <4> QED  BY <2>2, <4>1 DEF Places
    <3> QED  BY <3>2, <3>3
  <2> QED  BY <2>1, <2>2
<1>5. DeliveryTypeOK'
  BY <1>1, <1>2 DEF PlaceInv, DeliveryTypeOK
<1> QED  BY <1>1, <1>2, <1>4, <1>5 DEF PlaceInv, Unheard, Trying

\* No step loses a text or leaves it in two places.
LEMMA PlaceStep == PlaceInv /\ [DeliveryNext]_deliveryVars => PlaceInv'
<1> SUFFICES ASSUME PlaceInv, [DeliveryNext]_deliveryVars PROVE PlaceInv'
  OBVIOUS
<1>1. ASSUME NEW t \in Texts, AnswerStarts(t) \/ UnaskedArrives(t) \/ Deliver(t) \/ ComesDue(t)
      PROVE  PlaceInv'
  BY <1>1, PlaceAnswerStarts, PlaceArrives, PlaceDeliverSends, PlaceDeliverFails, PlaceComesDue
  DEF Deliver
<1>2. ASSUME Consumer PROVE PlaceInv'
  <2>1. CASE ConsumerTakes
    BY <2>1, PlaceTakes
  <2>2. CASE ConsumerSends
    <3>1. PICK t \in Texts : hand = t
      BY <2>2 DEF ConsumerSends, PlaceInv, DeliveryTypeOK
    <3> QED  BY <2>2, <3>1, PlaceConsumerSends
  <2>3. CASE ConsumerFails
    <3>1. PICK t \in Texts : hand = t
      BY <2>3 DEF ConsumerFails, PlaceInv, DeliveryTypeOK
    <3> QED  BY <2>3, <3>1, PlaceConsumerFails
  <2> QED  BY <1>2, <2>1, <2>2, <2>3 DEF Consumer
<1>3. CASE UNCHANGED deliveryVars
  <2>1. \A t \in Texts, p \in Places : In(t, p)' <=> In(t, p)
    BY <1>3 DEF deliveryVars, bot, queueVars, In
  <2>2. Placed'
    BY <1>3, <2>1 DEF deliveryVars, PlaceInv, Placed
  <2> QED  BY <1>3, <2>2 DEF deliveryVars, bot, queueVars, PlaceInv, DeliveryTypeOK, Unheard, Trying
<1> QED  BY <1>1, <1>2, <1>3, PlaceStopConsumer, PlaceShutdown DEF DeliveryNext

\* Every text is in one place in every state.
LEMMA PlaceAlways == DeliverySpec => []PlaceInv
BY PlaceInit, PlaceStep, PTL DEF DeliverySpec

\* The state stays in its types; no text is tried more often than it should be.
THEOREM TypeCorrect == DeliverySpec => []DeliveryTypeOK
<1>1. PlaceInv => DeliveryTypeOK
  BY DEF PlaceInv
<1> QED  BY <1>1, PlaceAlways, PTL

\* Whatever fails, and whenever the bot is stopped, an accepted text that has
\* not landed is in one place, and one only.
THEOREM NothingLostCorrect == DeliverySpec => []NothingLost
<1>1. PlaceInv => NothingLost
  <2>1. PlaceInv => accepted \subseteq Texts
    BY DEF PlaceInv, DeliveryTypeOK
  <2> QED  BY <2>1 DEF PlaceInv, Placed, NothingLost
<1> QED  BY <1>1, PlaceAlways, PTL

-----------------------------------------------------------------------------
(* What has landed.                                                        *)

\* A chunk that lands is the next one of its text.
LEMMA LandedTaken ==
    ASSUME DeliveryTypeOK, LandedOnce, NEW t \in Texts, left[t] \in 1 .. Chunks, Taken(t)
    PROVE  LandedOnce'
<1>1. left'[t] = left[t] - 1 /\ \A u \in Texts \ {t} : left'[u] = left[u]
  BY DEF Taken, DeliveryTypeOK
<1>2. landed'[t] = Append(landed[t], Chunk(t)) /\ \A u \in Texts \ {t} : landed'[u] = landed[u]
  BY DEF Taken, DeliveryTypeOK
<1>3. Chunks - left[t] \in Nat /\ Chunk(t) = Chunks - left[t] + 1 /\ Chunks - left'[t] = Chunks - left[t] + 1
  BY <1>1, DeliveryAssumption DEF Chunk
<1>4. \A k \in Nat : Append([n \in 1 .. k |-> n], k + 1) = [n \in 1 .. k + 1 |-> n]
  <2> SUFFICES ASSUME NEW k \in Nat
               PROVE  Append([n \in 1 .. k |-> n], k + 1) = [n \in 1 .. k + 1 |-> n]
    OBVIOUS
  <2>1. [n \in 1 .. k |-> n] \in Seq(Nat) /\ Len([n \in 1 .. k |-> n]) = k
    BY IsASeq
  <2> QED  BY <2>1
<1>5. landed'[t] = [n \in 1 .. Chunks - left'[t] |-> n]
  BY <1>2, <1>3, <1>4 DEF LandedOnce
<1> QED  BY <1>1, <1>2, <1>5 DEF LandedOnce

\* If no send arrives and still raises, a chat gets every chunk once, in order.
THEOREM LandedCorrect ==
    ASSUME Ambiguous = {}
    PROVE  DeliverySpec => []LandedOnce
<1>1. DeliveryInit => LandedOnce
  BY DeliveryAssumption DEF DeliveryInit, LandedOnce
<1>2. PlaceInv /\ LandedOnce /\ [DeliveryNext]_deliveryVars => LandedOnce'
  <2> SUFFICES ASSUME PlaceInv, LandedOnce, [DeliveryNext]_deliveryVars PROVE LandedOnce'
    OBVIOUS
  <2>1. \A t \in Texts : Raises(t) => UNCHANGED <<left, landed>>
    BY DEF Raises
  <2>2. ASSUME NEW t \in Texts, DeliverSends(t) PROVE LandedOnce'
    <3>1. left[t] \in 1 .. Chunks
      BY <2>2, PlaceAlone DEF DeliverSends, In, Places
    <3> QED  BY <2>2, <3>1, LandedTaken DEF DeliverSends, PlaceInv
  <2>3. ASSUME ConsumerSends PROVE LandedOnce'
    <3>1. hand \in Texts /\ In(hand, "hand") /\ "hand" \in Places
      BY <2>3 DEF ConsumerSends, PlaceInv, DeliveryTypeOK, In, Places
    <3>2. left[hand] \in 1 .. Chunks
      BY <3>1, PlaceAlone
    <3> QED  BY <2>3, <3>1, <3>2, LandedTaken DEF ConsumerSends, PlaceInv
  <2>4. ASSUME NEW t \in Texts, DeliverFails(t) PROVE LandedOnce'
    BY <2>1, <2>4 DEF DeliverFails, LandedOnce
  <2>5. ASSUME ConsumerFails PROVE LandedOnce'
    <3>1. hand \in Texts
      BY <2>5 DEF ConsumerFails, PlaceInv, DeliveryTypeOK
    <3> QED  BY <2>1, <2>5, <3>1 DEF ConsumerFails, LandedOnce
  <2>6. ASSUME NEW t \in Texts, AnswerStarts(t) \/ UnaskedArrives(t) \/ ComesDue(t)
        PROVE  LandedOnce'
    BY <2>6 DEF AnswerStarts, UnaskedArrives, ComesDue, LandedOnce
  <2>7. CASE ConsumerTakes \/ StopConsumer \/ Shutdown \/ UNCHANGED deliveryVars
    BY <2>7 DEF ConsumerTakes, StopConsumer, Shutdown, deliveryVars, LandedOnce
  <2> QED  BY <2>2, <2>3, <2>4, <2>5, <2>6, <2>7 DEF DeliveryNext, Deliver, Consumer
<1> QED  BY <1>1, <1>2, PlaceAlways, PTL DEF DeliverySpec

-----------------------------------------------------------------------------
(* What is put back waits its turn.                                        *)

\* What was due when a text failed is before it on the queue, or taken since.
DelayedBehind == \A t \in delayed : ahead[t] \subseteq ToSet(ready)
ReadyBehind   == \A n \in 1 .. Len(ready) : ahead[ready[n]] \subseteq {ready[k] : k \in 1 .. n - 1}
NothingAhead  == \A t \in Texts : t \in delayed \/ t \in ToSet(ready) \/ t \in journal \/ ahead[t] = {}

AheadInv == DelayedBehind /\ ReadyBehind /\ NothingAhead

\* A text put at the end of the queue is behind all that is due.
LEMMA AheadAppend ==
    ASSUME PlaceInv, AheadInv, NEW t \in Texts, ready' = Append(ready, t), UNCHANGED <<journal, ahead>>,
           ahead[t] \subseteq ToSet(ready), delayed' \in {delayed, delayed \ {t}}
    PROVE  AheadInv'
<1>1. ToSet(ready') = ToSet(ready) \union {t}
  BY AppendSet DEF PlaceInv, DeliveryTypeOK
<1>2. /\ Len(ready) \in Nat /\ Len(ready') = Len(ready) + 1
      /\ \A n \in 1 .. Len(ready) : ready'[n] = ready[n]
      /\ ready'[Len(ready) + 1] = t
  BY DEF PlaceInv, DeliveryTypeOK
<1>3. ToSet(ready) = {ready[k] : k \in 1 .. Len(ready)}
  BY DEF ToSet, PlaceInv, DeliveryTypeOK
<1>4. ReadyBehind'
  <2> SUFFICES ASSUME NEW n \in 1 .. Len(ready) + 1
               PROVE  ahead[ready'[n]] \subseteq {ready'[k] : k \in 1 .. n - 1}
    BY <1>2 DEF ReadyBehind
  <2>1. CASE n = Len(ready) + 1
    <3>1. {ready'[k] : k \in 1 .. n - 1} = {ready[k] : k \in 1 .. Len(ready)}
      BY <1>2, <2>1
    <3> QED  BY <1>2, <1>3, <2>1, <3>1
  <2>2. CASE n \in 1 .. Len(ready)
    <3>1. {ready'[k] : k \in 1 .. n - 1} = {ready[k] : k \in 1 .. n - 1}
      BY <1>2, <2>2
    <3> QED  BY <1>2, <2>2, <3>1 DEF AheadInv, ReadyBehind
  <2> QED  BY <1>2, <2>1, <2>2
<1>5. DelayedBehind' /\ NothingAhead'
  BY <1>1 DEF AheadInv, DelayedBehind, NothingAhead
<1> QED  BY <1>4, <1>5 DEF AheadInv

\* Taking the head shortens what is ahead of the rest.
LEMMA AheadTakes ==
    ASSUME PlaceInv, AheadInv, ConsumerTakes
    PROVE  AheadInv'
<1>1. /\ Head(ready) \in Texts /\ ToSet(ready') = ToSet(ready) \ {Head(ready)}
  BY TailSet DEF ConsumerTakes, PlaceInv, DeliveryTypeOK
<1>2. PICK t \in Texts : t = Head(ready)
  BY <1>1
<1>3. /\ UNCHANGED <<delayed, journal>>
      /\ \A u \in Texts : ahead'[u] = ahead[u] \ {t}
      /\ ToSet(ready') = ToSet(ready) \ {t}
  BY <1>1, <1>2 DEF ConsumerTakes
<1>4. /\ Len(ready) \in Nat /\ Len(ready) > 0 /\ Len(ready') = Len(ready) - 1 /\ ready[1] = t
      /\ \A n \in 1 .. Len(ready) - 1 : ready'[n] = ready[n + 1] /\ ready[n + 1] \in Texts
  BY <1>2 DEF ConsumerTakes, PlaceInv, DeliveryTypeOK
<1>5. ahead[t] = {}
  <2>1. 1 \in 1 .. Len(ready) /\ {ready[k] : k \in 1 .. 1 - 1} = {}
    BY <1>4
  <2>2. ahead[ready[1]] \subseteq {ready[k] : k \in 1 .. 1 - 1}
    BY <2>1 DEF AheadInv, ReadyBehind
  <2> QED  BY <1>4, <2>1, <2>2
<1>6. ReadyBehind'
  <2> SUFFICES ASSUME NEW n \in 1 .. Len(ready) - 1, NEW x \in ahead'[ready'[n]]
               PROVE  x \in {ready'[k] : k \in 1 .. n - 1}
    BY <1>4 DEF ReadyBehind
  <2>1. n + 1 \in 1 .. Len(ready) /\ x \in ahead[ready[n + 1]] /\ x # t
    BY <1>3, <1>4
  <2>2. PICK k \in 1 .. n : x = ready[k]
    BY <2>1 DEF AheadInv, ReadyBehind
  <2>3. k - 1 \in 1 .. n - 1 /\ ready'[k - 1] = ready[k]
    BY <1>4, <2>1, <2>2
  <2> QED  BY <2>2, <2>3
<1>7. DelayedBehind'
  BY <1>3 DEF AheadInv, DelayedBehind, PlaceInv, DeliveryTypeOK
<1>8. NothingAhead'
  BY <1>3, <1>5 DEF AheadInv, NothingAhead
<1> QED  BY <1>6, <1>7, <1>8 DEF AheadInv

\* A text that fails records what is due as being ahead of it.
LEMMA AheadConsumerFails ==
    ASSUME PlaceInv, AheadInv, NEW t \in Texts, hand = t, ConsumerFails
    PROVE  AheadInv'
<1>1. \A q \in Places : In(t, q) <=> q = "hand"
  BY PlaceAlone DEF In, Places
<1>2. t \notin ToSet(ready) /\ t \notin delayed /\ UNCHANGED ready
  BY <1>1 DEF In, Places, ConsumerFails
<1>3. CASE attempts'[t] >= MaxAttempts
  <2>1. journal' = journal \union {t} /\ UNCHANGED <<delayed, ahead>>
    BY <1>3 DEF ConsumerFails
  <2> QED  BY <1>2, <2>1 DEF AheadInv, DelayedBehind, ReadyBehind, NothingAhead
<1>4. CASE ~(attempts'[t] >= MaxAttempts)
  <2>1. /\ delayed' = delayed \union {t} /\ UNCHANGED journal
        /\ \A u \in Texts : ahead'[u] = IF u = t THEN ToSet(ready) ELSE ahead[u]
    BY <1>4 DEF ConsumerFails, PlaceInv, DeliveryTypeOK
  <2>2. \A n \in 1 .. Len(ready) : ready[n] \in Texts /\ ready[n] # t
    BY <1>2 DEF PlaceInv, DeliveryTypeOK, ToSet
  <2>3. ReadyBehind'
    <3>1. \A n \in 1 .. Len(ready) : ahead'[ready[n]] = ahead[ready[n]]
      BY <2>1, <2>2
    <3> QED  BY <1>2, <3>1 DEF AheadInv, ReadyBehind
  <2>4. DelayedBehind'
    BY <1>2, <2>1 DEF AheadInv, DelayedBehind, PlaceInv, DeliveryTypeOK
  <2>5. NothingAhead'
    BY <1>2, <2>1 DEF AheadInv, NothingAhead
  <2> QED  BY <2>3, <2>4, <2>5 DEF AheadInv
<1> QED  BY <1>3, <1>4

\* A text that is in one place only has nothing ahead of it there.
LEMMA AheadNone ==
    ASSUME PlaceInv, AheadInv, NEW t \in Texts,
           t \notin accepted \/ In(t, "sending") \/ In(t, "hand")
    PROVE  ahead[t] = {}
<1>1. ~In(t, "ready") /\ ~In(t, "delayed") /\ ~In(t, "journal")
  BY PlaceAlone DEF Places, PlaceInv, Placed
<1> QED  BY <1>1 DEF In, AheadInv, NothingAhead

\* No step puts a text before one that was due earlier.
LEMMA AheadStep == PlaceInv /\ AheadInv /\ [DeliveryNext]_deliveryVars => AheadInv'
<1> SUFFICES ASSUME PlaceInv, AheadInv, [DeliveryNext]_deliveryVars PROVE AheadInv'
  OBVIOUS
<1>1. ASSUME UNCHANGED <<ready, delayed, journal, ahead>> PROVE AheadInv'
  BY <1>1 DEF AheadInv, DelayedBehind, ReadyBehind, NothingAhead
<1>2. ASSUME NEW t \in Texts, UnaskedArrives(t) PROVE AheadInv'
  <2>1. ahead[t] = {}
    BY <1>2, AheadNone DEF UnaskedArrives
  <2> QED  BY <1>2, <2>1, AheadAppend DEF UnaskedArrives, Enqueue
<1>3. ASSUME NEW t \in Texts, DeliverFails(t) PROVE AheadInv'
  <2>1. ahead[t] = {}
    BY <1>3, AheadNone DEF DeliverFails, In
  <2>2. CASE tries'[t] < DeliverAttempts
    BY <1>1, <1>3, <2>2 DEF DeliverFails
  <2>3. CASE ~(tries'[t] < DeliverAttempts)
    BY <1>3, <2>1, <2>3, AheadAppend DEF DeliverFails, Enqueue
  <2> QED  BY <2>2, <2>3
<1>4. ASSUME NEW t \in Texts, ComesDue(t) PROVE AheadInv'
  <2>1. ahead[t] \subseteq ToSet(ready)
    BY <1>4 DEF ComesDue, AheadInv, DelayedBehind
  <2> QED  BY <1>4, <2>1, AheadAppend DEF ComesDue
<1>5. ASSUME ConsumerFails PROVE AheadInv'
  <2>1. PICK t \in Texts : hand = t
    BY <1>5 DEF ConsumerFails, PlaceInv, DeliveryTypeOK
  <2> QED  BY <1>5, <2>1, AheadConsumerFails
<1>6. CASE StopConsumer
  <2>1. CASE hand = NoText
    BY <1>1, <1>6, <2>1 DEF StopConsumer
  <2>2. ASSUME NEW t \in Texts, hand = t PROVE AheadInv'
    <3>1. ahead[t] = {}
      BY <2>2, AheadNone DEF In
    <3> QED  BY <1>6, <2>2, <3>1, AheadAppend, DeliveryAssumption DEF StopConsumer, Enqueue
  <2> QED  BY <2>1, <2>2 DEF PlaceInv, DeliveryTypeOK
<1>7. CASE Shutdown
  <2>1. /\ ready' = <<>> /\ delayed' = {} /\ UNCHANGED ahead
        /\ journal' = journal \union ToSet(ready) \union delayed
    BY <1>7 DEF Shutdown
  <2>2. Len(ready') = 0
    BY <2>1
  <2> QED  BY <2>1, <2>2 DEF AheadInv, DelayedBehind, ReadyBehind, NothingAhead
<1>8. ASSUME NEW t \in Texts, AnswerStarts(t) \/ DeliverSends(t) PROVE AheadInv'
  BY <1>1, <1>8 DEF AnswerStarts, DeliverSends, queueVars
<1>9. CASE ConsumerSends \/ UNCHANGED deliveryVars
  BY <1>1, <1>9 DEF ConsumerSends, deliveryVars, queueVars
<1> QED
  BY <1>2, <1>3, <1>4, <1>5, <1>6, <1>7, <1>8, <1>9, AheadTakes DEF DeliveryNext, Deliver, Consumer

\* A text that failed is not tried again before what was due when it failed.
THEOREM RetryCorrect == DeliverySpec => []RetryWaitsItsTurn
<1>1. DeliveryInit => AheadInv
  BY DEF DeliveryInit, AheadInv, DelayedBehind, ReadyBehind, NothingAhead
<1>2. PlaceInv /\ AheadInv => RetryWaitsItsTurn
  <2> SUFFICES ASSUME PlaceInv, AheadInv, hand # NoText PROVE ahead[hand] = {}
    BY DEF RetryWaitsItsTurn
  <2>1. hand \in Texts /\ In(hand, "hand")
    BY DEF PlaceInv, DeliveryTypeOK, In
  <2> QED  BY <2>1, AheadNone
<1> QED  BY <1>1, <1>2, AheadStep, PlaceAlways, PTL DEF DeliverySpec

-----------------------------------------------------------------------------
(* The shutdown.                                                           *)

\* A consumer that is stopped holds nothing.
HandEmpty == phase # "up" => hand = NoText

\* A bot that shuts down has delivered or logged all it was given until then.
THEOREM ShutdownCorrect == DeliverySpec => ShutdownLosesNothing
<1>1. DeliveryInit => HandEmpty
  BY DEF DeliveryInit, HandEmpty
<1>2. HandEmpty /\ [DeliveryNext]_deliveryVars => HandEmpty'
  <2> SUFFICES ASSUME HandEmpty, [DeliveryNext]_deliveryVars PROVE HandEmpty'
    OBVIOUS
  <2>1. ASSUME NEW t \in Texts, AnswerStarts(t) \/ UnaskedArrives(t) \/ ComesDue(t)
        PROVE HandEmpty'
    BY <2>1 DEF AnswerStarts, UnaskedArrives, ComesDue, queueVars, HandEmpty
  <2>2. ASSUME NEW t \in Texts, DeliverSends(t) \/ DeliverFails(t) PROVE HandEmpty'
    BY <2>2 DEF DeliverSends, DeliverFails, HandEmpty
  <2>3. CASE ConsumerTakes \/ ConsumerSends \/ ConsumerFails
    BY <2>3 DEF ConsumerTakes, ConsumerSends, ConsumerFails, HandEmpty
  <2>4. CASE StopConsumer \/ Shutdown \/ UNCHANGED deliveryVars
    BY <2>4 DEF StopConsumer, Shutdown, deliveryVars, bot, queueVars, HandEmpty
  <2> QED  BY <2>1, <2>2, <2>3, <2>4 DEF DeliveryNext, Deliver, Consumer
<1>3. ASSUME PlaceInv, PlaceInv', HandEmpty, [DeliveryNext]_deliveryVars,
             phase # "stopped", phase' = "stopped", NEW t \in accepted', left'[t] # 0
      PROVE  t \in journal'
  <2>1. Shutdown
    <3>1. ASSUME NEW u \in Texts, AnswerStarts(u) \/ UnaskedArrives(u) \/ ComesDue(u)
                                  \/ DeliverSends(u) \/ DeliverFails(u)
          PROVE FALSE
      BY <1>3, <3>1 DEF AnswerStarts, UnaskedArrives, ComesDue, DeliverSends, DeliverFails
    <3>2. CASE ConsumerTakes \/ ConsumerSends \/ ConsumerFails
      BY <1>3, <3>2 DEF ConsumerTakes, ConsumerSends, ConsumerFails
    <3>3. CASE StopConsumer \/ UNCHANGED deliveryVars
      BY <1>3, <3>3 DEF StopConsumer, deliveryVars
    <3> QED  BY <1>3, <3>1, <3>2, <3>3 DEF DeliveryNext, Deliver, Consumer
  <2>2. t \in Texts /\ \E p \in Places : In(t, p)'
    BY <1>3 DEF PlaceInv, DeliveryTypeOK, Placed
  <2>3. sending' = {} /\ ready' = <<>> /\ delayed' = {} /\ hand' = NoText
    BY <1>3, <2>1 DEF Shutdown, HandEmpty, bot
  <2>4. ToSet(ready') = {}
    BY <2>3, EmptySet
  <2> QED  BY <2>2, <2>3, <2>4, DeliveryAssumption DEF In, Places
<1>4. PlaceInv /\ PlaceInv' /\ HandEmpty /\ [DeliveryNext]_deliveryVars =>
        [phase # "stopped" /\ phase' = "stopped" =>
            \A t \in accepted' : left'[t] = 0 \/ t \in journal']_deliveryVars
  BY <1>3
<1> QED  BY <1>1, <1>2, <1>4, PlaceAlways, PTL DEF DeliverySpec, ShutdownLosesNothing

=============================================================================
