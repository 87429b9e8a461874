----------------------- MODULE ConsumerDeliveryProofs -----------------------
(***************************************************************************)
(* Proofs about the consumer's delivery, for any messages, environments,   *)
(* batch size and receive count.                                           *)
(***************************************************************************)
EXTENDS ConsumerDelivery, TLAPS

(* What an invocation's result says of its batch: what is neither failed    *)
(* nor done was lost by the handler, and is a message it was given.        *)
ResultOK ==
  \A e \in Envs :
    /\ pc[e] = "invoked" => worked[e] = {}
    /\ pc[e] \in {"invoked", "handling"} => failures[e] = {}
    /\ HasSchema => given[e] \cap Bad = {}
    /\ \A m \in worked[e] : handled[m] # 0
    /\ pc[e] = "answering" =>
         /\ cause[e] # "none"
         /\ cause[e] = "returned" => Delivered(e) \subseteq worked[e]
         /\ cause[e] = "omitted" => Delivered(e) \subseteq given[e]

(* Unless it is excused, a message is in flight to the environment that has *)
(* it in the batch it works on, and to no other.                           *)
PlaceOK ==
  \A m \in Messages \ excused, e \in Envs :
    held[m] = e <=> pc[e] # "idle" /\ m \in batch[e]

(* And a message that was handled is gone, or will be: it is with the       *)
(* environment that handled it, which does not report it.                  *)
OnceOK ==
  \A m \in Messages \ excused :
    \/ handled[m] = 0
    \/ /\ handled[m] = 1
       /\ \/ held[m] = Gone
          \/ \E e \in Envs : held[m] = e /\ m \in worked[e] \ failures[e]

IInv == TypeOK /\ ResultOK /\ InvalidNotHandled /\ PlaceOK /\ OnceOK

THEOREM InitIInv == Init => IInv
  BY DeliveryAssumption
  DEF Init, IInv, TypeOK, ResultOK, InvalidNotHandled, PlaceOK, OnceOK, Waiting, Gone

(* The queue's steps.                                                      *)
LEMMA ReceiveIInv ==
  ASSUME IInv, NEW e \in Envs, NEW B \in SUBSET Messages, Receive(e, B) PROVE IInv'
  <1> USE DEF IInv, Receive
  <1>1. TypeOK'
    <2>1. \A m \in B : receives[m] + 1 \in 0 .. MaxReceives
      BY DeliveryAssumption DEF TypeOK
    <2>2. receives' \in [Messages -> 0 .. MaxReceives]
      BY <2>1 DEF TypeOK
    <2>3. held' \in [Messages -> {Waiting, Gone} \cup Envs]
      BY DEF TypeOK
    <2>4. /\ pc' \in [Envs -> {"idle", "invoked", "handling", "answering"}]
          /\ {batch', given', worked', failures'} \subseteq [Envs -> SUBSET Messages]
          /\ cause' \in [Envs -> {"none", "unrouted", "threw", "skipped", "returned", "omitted"}]
          /\ excused' \subseteq Messages
      BY DEF TypeOK
    <2>5. \A d \in Envs : /\ worked'[d] \subseteq given'[d]
                          /\ given'[d] \subseteq batch'[d]
                          /\ failures'[d] \subseteq batch'[d]
      BY DEF TypeOK
    <2> QED
      BY <2>2, <2>3, <2>4, <2>5 DEF TypeOK
  <1>2. ResultOK'
    BY DEF TypeOK, ResultOK, Delivered
  <1>3. InvalidNotHandled'
    BY DEF InvalidNotHandled
  <1>4. PlaceOK'
    BY DeliveryAssumption DEF TypeOK, PlaceOK, Waiting
  <1>5. OnceOK'
    <2> SUFFICES ASSUME NEW m \in Messages \ excused, handled[m] # 0
                 PROVE  /\ handled[m] = 1
                        /\ \/ held'[m] = Gone
                           \/ \E d \in Envs : held'[m] = d /\ m \in worked'[d] \ failures'[d]
      BY DEF OnceOK
    <2>1. m \notin B
      BY DeliveryAssumption DEF OnceOK, Waiting, Gone
    <2>2. held[m] # e
      BY DEF PlaceOK
    <2> QED
      BY <2>1, <2>2 DEF TypeOK, OnceOK
  <1> QED
    BY <1>1, <1>2, <1>3, <1>4, <1>5

LEMMA ExpireIInv ==
  ASSUME IInv, NEW m \in Messages, Expire(m) PROVE IInv'
  <1> USE DEF IInv, Expire, invocation
  <1>1. TypeOK'
    BY DEF TypeOK
  <1>2. ResultOK'
    BY DEF TypeOK, ResultOK, Delivered
  <1>3. InvalidNotHandled'
    BY DEF InvalidNotHandled
  <1>4. PlaceOK' /\ OnceOK'
    BY DEF TypeOK, PlaceOK, OnceOK
  <1> QED
    BY <1>1, <1>2, <1>3, <1>4

LEMMA ReleaseIInv ==
  ASSUME IInv, NEW e \in Envs, Release(e) PROVE IInv'
  <1> USE DEF IInv, Release
  <1>1. TypeOK'
    BY DEF TypeOK
  <1>2. ResultOK'
    BY DEF TypeOK, ResultOK, Delivered
  <1>3. InvalidNotHandled'
    BY DEF InvalidNotHandled
  <1>4. \A m \in Messages \ excused' : held[m] # e /\ held'[m] = held[m]
    BY DEF TypeOK, PlaceOK
  <1>5. PlaceOK'
    BY <1>4 DEF TypeOK, PlaceOK
  <1>6. OnceOK'
    BY <1>4 DEF TypeOK, OnceOK
  <1> QED
    BY <1>1, <1>2, <1>3, <1>5, <1>6

LEMMA AnswerIInv ==
  ASSUME IInv, NEW e \in Envs, Answer(e) PROVE IInv'
  <1> USE DEF IInv, Answer
  <1>1. PICK stale \in SUBSET {m \in Delivered(e) : held[m] # e} :
          held' = [m \in Messages |->
                     IF m \in Delivered(e) \ stale THEN Gone
                     ELSE IF held[m] = e THEN Waiting ELSE held[m]]
    OBVIOUS
  <1>2. TypeOK'
    <2>1. held' \in [Messages -> {Waiting, Gone} \cup Envs]
      BY <1>1 DEF TypeOK
    <2> QED
      BY <2>1 DEF TypeOK
  <1>3. ResultOK'
    BY DEF TypeOK, ResultOK, Delivered
  <1>4. InvalidNotHandled'
    BY DEF InvalidNotHandled
  <1>5. ASSUME NEW m \in Messages \ excused
        PROVE  /\ held[m] = e => held'[m] = IF m \in failures[e] THEN Waiting ELSE Gone
               /\ held[m] # e => held'[m] = held[m]
    <2>1. held[m] = e => m \in batch[e] /\ m \notin stale
      BY DEF PlaceOK
    <2>2. held[m] # e => m \notin Delivered(e)
      BY DEF PlaceOK, Delivered
    <2> QED
      BY <1>1, <2>1, <2>2 DEF Delivered
  <1>6. PlaceOK'
    BY <1>5, DeliveryAssumption DEF TypeOK, PlaceOK
  <1>7. OnceOK'
    <2> SUFFICES ASSUME NEW m \in Messages \ excused, handled[m] # 0
                 PROVE  /\ handled[m] = 1
                        /\ \/ held'[m] = Gone
                           \/ \E d \in Envs : held'[m] = d /\ m \in worked[d] \ failures[d]
      BY DEF OnceOK
    <2>1. handled[m] = 1
      BY DEF OnceOK
    <2>2. CASE held[m] = Gone
      BY <1>5, <2>1, <2>2, DeliveryAssumption
    <2>3. CASE \E d \in Envs : held[m] = d /\ m \in worked[d] \ failures[d]
      BY <1>5, <2>1, <2>3
    <2> QED
      BY <2>2, <2>3 DEF OnceOK
  <1> QED
    BY <1>2, <1>3, <1>4, <1>6, <1>7

(* The pipeline's steps.                                                   *)
LEMMA RespondIInv ==
  ASSUME IInv, NEW e \in Envs, NEW reported \in SUBSET batch[e],
         NEW why \in {"unrouted", "threw", "skipped", "returned", "omitted"},
         NEW spoilt \in SUBSET Messages,
         pc[e] # "idle", Respond(e, reported, why, spoilt),
         worked[e] \cap reported \subseteq spoilt,
         why = "returned" => batch[e] \ reported \subseteq worked[e],
         why = "omitted" => batch[e] \ reported \subseteq given[e]
  PROVE IInv'
  <1> USE DEF IInv, Respond, queue
  <1>1. TypeOK'
    BY DEF TypeOK
  <1>2. ResultOK'
    BY DEF TypeOK, ResultOK, Delivered
  <1>3. InvalidNotHandled'
    BY DEF InvalidNotHandled
  <1>4. PlaceOK'
    BY DEF TypeOK, PlaceOK
  <1>5. OnceOK'
    BY DEF TypeOK, OnceOK
  <1> QED
    BY <1>1, <1>2, <1>3, <1>4, <1>5

LEMMA ValidateIInv ==
  ASSUME IInv, NEW e \in Envs, Validate(e) PROVE IInv'
  <1> USE DEF IInv, Validate, queue
  <1>1. worked[e] = {} /\ Valid(e) \subseteq batch[e] /\ (HasSchema => Valid(e) \cap Bad = {})
    BY DEF ResultOK, Valid
  <1>2. TypeOK'
    <2>1. given' \in [Envs -> SUBSET Messages]
      BY <1>1 DEF TypeOK
    <2>2. given'[e] = Valid(e) /\ \A d \in Envs \ {e} : given'[d] = given[d]
      BY DEF TypeOK
    <2>3. pc' \in [Envs -> {"idle", "invoked", "handling", "answering"}]
      BY DEF TypeOK
    <2> QED
      BY <1>1, <2>1, <2>2, <2>3 DEF TypeOK
  <1>3. ResultOK'
    BY <1>1 DEF TypeOK, ResultOK, Delivered
  <1>4. InvalidNotHandled'
    BY DEF InvalidNotHandled
  <1>5. PlaceOK' /\ OnceOK'
    BY DEF TypeOK, PlaceOK, OnceOK
  <1> QED
    BY <1>2, <1>3, <1>4, <1>5

LEMMA WorkIInv ==
  ASSUME IInv, NEW e \in Envs, NEW m \in Messages, Work(e, m) PROVE IInv'
  <1> USE DEF IInv, Work, queue
  <1>1. \A n \in Messages : handled'[n] = IF n = m THEN handled[m] + 1 ELSE handled[n]
    BY DEF TypeOK
  <1>2. \A n \in Messages : handled[n] \in Nat
    BY DEF TypeOK
  <1>3. TypeOK'
    <2>1. handled' \in [Messages -> Nat]
      BY DEF TypeOK
    <2>2. \A d \in Envs : worked'[d] \subseteq given[d]
      BY DEF TypeOK
    <2> QED
      BY <2>1, <2>2 DEF TypeOK
  <1>4. ResultOK'
    <2>1. handled'[m] # 0 /\ \A n \in Messages : handled[n] # 0 => handled'[n] # 0
      BY <1>1, <1>2
    <2>2. \A d \in Envs : \A n \in worked'[d] : n \in Messages /\ handled'[n] # 0
      BY <2>1 DEF TypeOK, ResultOK
    <2> QED
      BY <2>2 DEF TypeOK, ResultOK, Delivered
  <1>5. InvalidNotHandled'
    <2>1. HasSchema => m \notin Bad
      BY DEF ResultOK
    <2> QED
      BY <2>1, <1>1, DeliveryAssumption DEF InvalidNotHandled
  <1>6. PlaceOK'
    BY DEF PlaceOK
  <1>7. OnceOK'
    <2>1. m \in batch[e] /\ failures[e] = {}
      BY DEF TypeOK, ResultOK
    <2>2. m \notin excused => held[m] = e
      BY <2>1 DEF PlaceOK
    <2>3. m \notin excused => handled[m] = 0
      BY <2>2, DeliveryAssumption DEF OnceOK
    <2>4. /\ worked' \in [Envs -> SUBSET Messages]
          /\ m \in worked'[e]
          /\ \A d \in Envs : worked[d] \subseteq worked'[d]
      BY DEF TypeOK
    <2>5. ASSUME NEW n \in Messages \ excused, n # m
          PROVE  \/ handled'[n] = 0
                 \/ /\ handled'[n] = 1
                    /\ \/ held[n] = Gone
                       \/ \E d \in Envs : held[n] = d /\ n \in worked'[d] \ failures[d]
      BY <1>1, <2>4, <2>5 DEF OnceOK
    <2>6. m \notin excused => handled'[m] = 1 /\ held[m] = e /\ m \in worked'[e] \ failures[e]
      BY <1>1, <2>1, <2>2, <2>3, <2>4
    <2> QED
      BY <2>5, <2>6 DEF OnceOK
  <1> QED
    BY <1>3, <1>4, <1>5, <1>6, <1>7

(* The invariant is inductive.                                             *)
THEOREM IInvStep == IInv /\ [Next]_vars => IInv'
  <1> SUFFICES ASSUME IInv, [Next]_vars PROVE IInv'
    OBVIOUS
  <1>1. ASSUME NEW e \in Envs, Invocation(e) PROVE IInv'
    <2>1. CASE Unrouted(e)
      BY <2>1, RespondIInv DEF Unrouted
    <2>2. CASE Validate(e)
      BY <2>2, ValidateIInv
    <2>3. ASSUME NEW m \in Messages, Work(e, m) PROVE IInv'
      BY <2>3, WorkIInv
    <2>4. CASE Returns(e)
      <3> DEFINE reported == Merged(e, Undone(e))
      <3>1. /\ reported \in SUBSET batch[e] /\ batch[e] \ reported \subseteq worked[e]
            /\ worked[e] \cap reported = {} /\ Undone(e) \in SUBSET Messages
            /\ pc[e] # "idle"
        BY <2>4 DEF Returns, IInv, TypeOK, Merged, Invalid, Undone
      <3>2. Respond(e, reported, "returned", Undone(e))
        BY <2>4 DEF Returns
      <3> HIDE DEF reported
      <3> QED
        BY <3>1, <3>2, RespondIInv
    <2>5. CASE Answer(e)
      BY <2>5, AnswerIInv
    <2> QED
      BY <1>1, <2>1, <2>2, <2>3, <2>4, <2>5 DEF Invocation
  <1>2. ASSUME NEW e \in Envs, Misfortune(e) PROVE IInv'
    <2> batch[e] \in SUBSET Messages
      BY DEF IInv, TypeOK
    <2>1. CASE Throws(e)
      BY <2>1, RespondIInv DEF Throws
    <2>2. CASE ReturnsTooFew(e)
      <3>1. PICK reported \in SUBSET Undone(e) :
              Respond(e, Merged(e, reported), "omitted", Undone(e))
        BY <2>2 DEF ReturnsTooFew
      <3> DEFINE all == Merged(e, reported)
      <3>2. /\ all \in SUBSET batch[e] /\ batch[e] \ all \subseteq given[e]
            /\ worked[e] \cap all = {} /\ Undone(e) \in SUBSET Messages
            /\ pc[e] # "idle"
        BY <2>2 DEF ReturnsTooFew, IInv, TypeOK, Merged, Invalid, Undone
      <3>3. Respond(e, all, "omitted", Undone(e))
        BY <3>1
      <3> HIDE DEF all
      <3> QED
        BY <3>2, <3>3, RespondIInv
    <2>3. CASE ReturnsUndefined(e)
      BY <2>3, RespondIInv, ReleaseIInv DEF ReturnsUndefined
    <2>4. CASE Crash(e)
      BY <2>4, ReleaseIInv DEF Crash
    <2>5. CASE Skips(e)
      BY <2>5, RespondIInv DEF Skips
    <2> QED
      BY <1>2, <2>1, <2>2, <2>3, <2>4, <2>5 DEF Misfortune
  <1>3. ASSUME NEW e \in Envs, NEW B \in SUBSET Messages, Receive(e, B) PROVE IInv'
    BY <1>3, ReceiveIInv
  <1>4. ASSUME NEW m \in Messages, Expire(m) PROVE IInv'
    BY <1>4, ExpireIInv
  <1>5. CASE UNCHANGED vars
    BY <1>5 DEF vars, queue, invocation, IInv, TypeOK, ResultOK, InvalidNotHandled, Delivered,
                PlaceOK, OnceOK
  <1> QED
    BY <1>1, <1>2, <1>3, <1>4, <1>5 DEF Next

LEMMA Invariance == Spec => []IInv
  BY InitIInv, IInvStep, PTL DEF Spec

(* Every reachable state of the queue and its invocations has its shape.   *)
THEOREM TypeCorrect == Spec => []TypeOK
  <1>1. IInv => TypeOK
    BY DEF IInv
  <1> QED
    BY <1>1, Invariance, PTL

(* A message the schema rejects is never worked on.                        *)
THEOREM SchemaHolds == Spec => []InvalidNotHandled
  <1>1. IInv => InvalidNotHandled
    BY DEF IInv
  <1> QED
    BY <1>1, Invariance, PTL

(* A message is worked on twice only after a misfortune of its own.        *)
THEOREM OnceUnlessExcused == Spec => []HandledOnce
  <1>1. IInv => HandledOnce
    BY DEF IInv, TypeOK, OnceOK, HandledOnce
  <1> QED
    BY <1>1, Invariance, PTL

(* A step that takes a message from the queue is a response's.             *)
LEMMA OnlyAnswerDeletes ==
  ASSUME IInv, [Next]_vars, NEW m \in Messages, held[m] # Gone, held'[m] = Gone
  PROVE  \E e \in Envs : Answer(e) /\ m \in Delivered(e)
  <1> SUFFICES ASSUME \A e \in Envs : ~(Answer(e) /\ m \in Delivered(e)) PROVE FALSE
    OBVIOUS
  <1> USE DEF IInv, TypeOK
  <1>1. Waiting # Gone /\ Gone \notin Envs
    BY DeliveryAssumption DEF Waiting, Gone
  <1>2. ASSUME NEW e \in Envs, Release(e) PROVE FALSE
    BY <1>1, <1>2 DEF Release
  <1>3. ASSUME NEW e \in Envs, NEW reported, NEW why, NEW spoilt,
               Respond(e, reported, why, spoilt)
        PROVE  FALSE
    BY <1>3 DEF Respond, queue
  <1>4. ASSUME NEW e \in Envs, Invocation(e) PROVE FALSE
    <2>1. CASE Unrouted(e)
      BY <2>1, <1>3 DEF Unrouted
    <2>2. CASE Validate(e)
      BY <2>2 DEF Validate, queue
    <2>3. ASSUME NEW n \in Messages, Work(e, n) PROVE FALSE
      BY <2>3 DEF Work, queue
    <2>4. CASE Returns(e)
      BY <2>4, <1>3 DEF Returns
    <2>5. CASE Answer(e)
      <3>1. m \notin Delivered(e)
        BY <2>5
      <3> QED
        BY <1>1, <2>5, <3>1 DEF Answer
    <2> QED
      BY <1>4, <2>1, <2>2, <2>3, <2>4, <2>5 DEF Invocation
  <1>5. ASSUME NEW e \in Envs, Misfortune(e) PROVE FALSE
    <2>1. CASE Throws(e)
      BY <2>1, <1>3 DEF Throws
    <2>2. CASE ReturnsTooFew(e)
      BY <2>2, <1>3 DEF ReturnsTooFew
    <2>3. CASE ReturnsUndefined(e)
      BY <2>3, <1>2, <1>3 DEF ReturnsUndefined
    <2>4. CASE Crash(e)
      BY <2>4, <1>2 DEF Crash
    <2>5. CASE Skips(e)
      BY <2>5, <1>3 DEF Skips
    <2> QED
      BY <1>5, <2>1, <2>2, <2>3, <2>4, <2>5 DEF Misfortune
  <1>6. ASSUME NEW e \in Envs, NEW B \in SUBSET Messages, Receive(e, B) PROVE FALSE
    BY <1>1, <1>6 DEF Receive
  <1>7. ASSUME NEW n \in Messages, Expire(n) PROVE FALSE
    BY <1>1, <1>7 DEF Expire
  <1>8. CASE UNCHANGED vars
    BY <1>8 DEF vars, queue
  <1> QED
    BY <1>4, <1>5, <1>6, <1>7, <1>8 DEF Next

(* A message is deleted undone only by a throw, for want of a handler, or   *)
(* because the handler that was given it did not report it.                *)
THEOREM LossHasCause == Spec => NoSilentLoss
  <1>1. IInv /\ [Next]_vars =>
          [\A m \in Messages :
             (held[m] # Gone /\ held'[m] = Gone /\ handled[m] = 0) =>
                 \E e \in Envs :
                    /\ pc[e] = "answering" /\ m \in batch[e]
                    /\ \/ cause[e] \in {"unrouted", "threw", "skipped"}
                       \/ cause[e] = "omitted" /\ m \in given[e]]_vars
    <2> SUFFICES ASSUME IInv, [Next]_vars, NEW m \in Messages,
                        held[m] # Gone, held'[m] = Gone, handled[m] = 0
                 PROVE  \E e \in Envs :
                           /\ pc[e] = "answering" /\ m \in batch[e]
                           /\ \/ cause[e] \in {"unrouted", "threw", "skipped"}
                              \/ cause[e] = "omitted" /\ m \in given[e]
      OBVIOUS
    <2>1. PICK e \in Envs : Answer(e) /\ m \in Delivered(e)
      BY OnlyAnswerDeletes
    <2>2. pc[e] = "answering" /\ m \in batch[e] /\ cause[e] # "none"
      BY <2>1 DEF Answer, Delivered, IInv, ResultOK
    <2>3. cause[e] # "returned"
      BY <2>1, <2>2 DEF IInv, ResultOK
    <2>4. cause[e] = "omitted" => m \in given[e]
      BY <2>1, <2>2 DEF IInv, ResultOK
    <2> QED
      BY <2>2, <2>3, <2>4 DEF IInv, TypeOK
  <1> QED
    BY <1>1, Invariance, PTL DEF Spec, NoSilentLoss
=============================================================================
