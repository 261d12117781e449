---------------------- MODULE CompletionCarrier_proofs -----------------------
(***************************************************************************)
(* What the carriers of code completion promise, for any widgets, texts,    *)
(* numbers of requests and of resets.                                       *)
(***************************************************************************)
EXTENDS CompletionCarrier, TLAPS, SequenceTheorems

\* The requests not answered were made after the last reset, in the order of their numbers.
InOrder ==
  /\ \A i \in 1..Len(queue) : before < queue[i] /\ queue[i] <= requests
  /\ \A i, j \in 1..Len(queue) : i < j => queue[i] < queue[j]

\* A carrier, listening or displayed, has been created.
Created ==
  /\ \A c \in carriers : c.id <= requests
  /\ \A w \in Widget : \A x \in proposal[w] : x.carrier.id <= requests

\* NobodyWaitsInVain, in terms of positions.
StillAsked == \A c \in carriers : c.id > before => \E i \in 1..Len(queue) : queue[i] = c.id

CarrierInv ==
  TypeOK /\ InOrder /\ Created /\ StillAsked
    /\ CurrentIsAlive /\ BaseBeforeCursor /\ AnswerIsNotLater

LEMMA NobodyIsStillAsked == TypeOK => (NobodyWaitsInVain <=> StillAsked)
  BY LenProperties DEF NobodyWaitsInVain, StillAsked, Contains, TypeOK

LEMMA CarrierInit == Init => CarrierInv
<1> SUFFICES ASSUME Init PROVE CarrierInv
  OBVIOUS
<1>1. queue \in Seq(1..MaxRequests) /\ Len(queue) = 0
  BY DEF Init
<1>2. TypeOK
  BY <1>1, CompletionAssumption DEF Init, TypeOK
<1>3. InOrder /\ Created /\ StillAsked
  BY <1>1 DEF Init, InOrder, Created, StillAsked
<1>4. CurrentIsAlive /\ BaseBeforeCursor /\ AnswerIsNotLater
  BY DEF Init, CurrentIsAlive, BaseBeforeCursor, AnswerIsNotLater
<1>5. QED
  BY <1>2, <1>3, <1>4 DEF CarrierInv

-----------------------------------------------------------------------------
\* A request at position p, which the cursor is then at or behind.
LEMMA RequestKeeps ==
  ASSUME CarrierInv, NEW w \in Widget, NEW p \in 0..MaxPos, RequestProposal(w, p),
         pos' \in [Widget -> 0..MaxPos], \A v \in Widget : pos[v] <= pos'[v],
         UNCHANGED <<proposal, resets, before>>
  PROVE  CarrierInv'
<1> USE CompletionAssumption
<1>1. /\ requests \in 0..MaxRequests /\ requests' = requests + 1
      /\ requests' \in 1..MaxRequests /\ before \in 0..requests
      /\ queue \in Seq(1..MaxRequests)
  BY DEF CarrierInv, TypeOK, RequestProposal
<1>2. PICK base \in 0..p :
        carriers' = carriers \union {[id |-> requests', widget |-> w, base |-> base]}
  BY DEF RequestProposal
<1> DEFINE new == [id |-> requests', widget |-> w, base |-> base]
<1>3. new \in Carrier /\ new.id = requests' /\ new.widget = w
  BY <1>1 DEF Carrier
<1>4. carriers' = carriers \union {new}
  BY <1>2
<1> HIDE DEF new
<1>5. /\ queue' \in Seq(1..MaxRequests) /\ Len(queue') = Len(queue) + 1 /\ Len(queue) \in Nat
      /\ \A i \in 1..Len(queue) : queue'[i] = queue[i]
      /\ queue'[Len(queue) + 1] = requests'
  BY <1>1, AppendProperties, LenProperties DEF RequestProposal
<1>6. TypeOK'
  <2>1. carriers' \subseteq Carrier
    BY <1>3, <1>4 DEF CarrierInv, TypeOK
  <2>2. current' \in [Widget -> 0..MaxRequests]
    BY <1>1 DEF CarrierInv, TypeOK, RequestProposal
  <2>3. before' \in 0..requests' /\ requests' \in 0..MaxRequests
    BY <1>1
  <2>4. proposal' \in [Widget -> SUBSET Proposal] /\ resets' \in Nat
    BY DEF CarrierInv, TypeOK
  <2>5. QED
    BY <1>5, <2>1, <2>2, <2>3, <2>4 DEF TypeOK
<1>7. InOrder'
  <2>1. \A i \in 1..Len(queue) : before < queue[i] /\ queue[i] <= requests /\ queue[i] \in Nat
    <3>1. \A i \in 1..Len(queue) : queue[i] \in 1..MaxRequests
      BY <1>1, LenProperties
    <3>2. QED
      BY <3>1 DEF CarrierInv, InOrder
  <2> DEFINE n == Len(queue)
  <2>2. n \in Nat /\ Len(queue') = n + 1
    BY <1>5
  <2>3. \A i \in 1..n : queue'[i] = queue[i]
    BY <1>5
  <2>4. queue'[n + 1] = requests'
    BY <1>5
  <2>5. \A i \in 1..n : before < queue'[i] /\ queue'[i] <= requests /\ queue'[i] \in Nat
    BY <2>1, <2>3
  <2>6. \A i, j \in 1..n : i < j => queue'[i] < queue'[j]
    BY <2>3 DEF CarrierInv, InOrder
  <2> HIDE DEF n
  <2>7. before' = before /\ before \in Nat /\ before <= requests
    BY <1>1
  <2>8. requests \in Nat /\ requests' = requests + 1
    BY <1>1
  <2>9. \A i \in 1..n + 1 : i \in 1..n \/ i = n + 1
    BY <2>2
  <2>10. ASSUME NEW i \in 1..n + 1
         PROVE  before' < queue'[i] /\ queue'[i] <= requests'
    <3>1. CASE i \in 1..n
      BY <2>5, <2>7, <2>8, <3>1
    <3>2. CASE i = n + 1
      BY <2>4, <2>7, <2>8, <3>2
    <3>3. QED
      BY <2>9, <3>1, <3>2
  <2>11. ASSUME NEW i \in 1..n + 1, NEW j \in 1..n + 1, i < j
         PROVE  queue'[i] < queue'[j]
    <3>1. i \in 1..n
      BY <2>2, <2>11
    <3>2. CASE j \in 1..n
      BY <2>6, <2>11, <3>1, <3>2
    <3>3. CASE j = n + 1
      BY <2>4, <2>5, <2>8, <3>1, <3>3
    <3>4. QED
      BY <2>9, <3>2, <3>3
  <2>12. QED
    BY <2>2, <2>10, <2>11 DEF InOrder
<1>8. Created'
  <2>1. \A c \in carriers : c.id \in Nat /\ c.id <= requests
    BY DEF CarrierInv, TypeOK, Carrier, Created
  <2>2. \A v \in Widget : \A x \in proposal[v] : x.carrier.id \in Nat /\ x.carrier.id <= requests
    <3>1. \A v \in Widget : proposal[v] \subseteq Proposal
      BY DEF CarrierInv, TypeOK
    <3>2. \A x \in Proposal : x.carrier.id \in Nat
      BY DEF Proposal, Carrier
    <3>3. QED
      BY <3>1, <3>2 DEF CarrierInv, Created
  <2>3. \A n \in Nat : n <= requests => n <= requests'
    BY <1>1
  <2>4. \A c \in carriers' : c.id <= requests'
    BY <1>1, <1>3, <1>4, <2>1, <2>3
  <2>5. \A v \in Widget : \A x \in proposal'[v] : x.carrier.id <= requests'
    BY <2>2, <2>3
  <2>6. QED
    BY <2>4, <2>5 DEF Created
<1>9. StillAsked'
  <2>1. ASSUME NEW c \in carriers, c.id > before
        PROVE  \E i \in 1..Len(queue') : queue'[i] = c.id
    <3>1. PICK i \in 1..Len(queue) : queue[i] = c.id
      BY <2>1 DEF CarrierInv, StillAsked
    <3>2. i \in 1..Len(queue')
      BY <1>5
    <3>3. QED
      BY <1>5, <3>1, <3>2
  <2>2. \E i \in 1..Len(queue') : queue'[i] = new.id
    BY <1>3, <1>5
  <2>3. QED
    BY <1>4, <2>1, <2>2 DEF StillAsked
<1>10. CurrentIsAlive'
  <2>1. current' = [current EXCEPT ![w] = requests'] /\ current \in [Widget -> 0..MaxRequests]
    BY DEF CarrierInv, TypeOK, RequestProposal
  <2>2. new \in Listening(w)'
    BY <1>3, <1>4, <2>1 DEF Listening
  <2>3. ASSUME NEW v \in Widget, v # w, current'[v] # 0
        PROVE  Listening(v)' # {}
    BY <1>4, <2>1, <2>3 DEF CarrierInv, CurrentIsAlive, Listening
  <2>4. QED
    BY <2>2, <2>3 DEF CurrentIsAlive
<1>11. BaseBeforeCursor'
  <2>1. \A v \in Widget : pos[v] \in 0..MaxPos /\ pos'[v] \in 0..MaxPos
    BY DEF CarrierInv, TypeOK
  <2>2. \A v \in Widget : \A x \in proposal[v] : x.carrier.base \in 0..MaxPos
    BY DEF CarrierInv, TypeOK, Proposal, Carrier
  <2>3. QED
    BY <2>1, <2>2 DEF CarrierInv, BaseBeforeCursor
<1>12. AnswerIsNotLater'
  BY DEF CarrierInv, AnswerIsNotLater
<1>13. QED
  BY <1>6, <1>7, <1>8, <1>9, <1>10, <1>11, <1>12 DEF CarrierInv

-----------------------------------------------------------------------------
\* A proposal closed, or kept while the cursor moves to where it still fits.
LEMMA EditKeeps ==
  ASSUME CarrierInv,
         pos' \in [Widget -> 0..MaxPos], proposal' \in [Widget -> SUBSET Proposal],
         \A w \in Widget : /\ proposal'[w] \subseteq proposal[w]
                           /\ \A x \in proposal'[w] : x.carrier.base <= pos'[w],
         UNCHANGED <<current, carriers, queue, requests, resets, before>>
  PROVE  CarrierInv'
<1>1. TypeOK' /\ InOrder' /\ Created' /\ StillAsked'
  BY DEF CarrierInv, TypeOK, InOrder, Created, StillAsked
<1>2. CurrentIsAlive' /\ BaseBeforeCursor' /\ AnswerIsNotLater'
  BY DEF CarrierInv, CurrentIsAlive, Listening, BaseBeforeCursor, AnswerIsNotLater
<1>3. QED
  BY <1>1, <1>2 DEF CarrierInv

\* The oldest request has the lowest number: no listening carrier that a reset did not
\* strand has asked before it.
LEMMA HeadIsOldest ==
  ASSUME CarrierInv, queue # <<>>, NEW c \in carriers, c.id > before
  PROVE  Head(queue) <= c.id
<1>1. queue \in Seq(1..MaxRequests) /\ Len(queue) \in Nat /\ Len(queue) > 0 /\ Head(queue) = queue[1]
  BY EmptySeq, HeadTailProperties, LenProperties DEF CarrierInv, TypeOK
<1>2. PICK i \in 1..Len(queue) : queue[i] = c.id
  BY DEF CarrierInv, StillAsked
<1>3. queue[1] \in 1..MaxRequests /\ queue[i] \in 1..MaxRequests
  <2>1. \A k \in 1..Len(queue) : queue[k] \in 1..MaxRequests
    BY <1>1, LenProperties
  <2>2. 1 \in 1..Len(queue)
    BY <1>1
  <2>3. QED
    BY <2>1, <2>2
<1>4. i = 1 \/ queue[1] < queue[i]
  <2>1. 1 \in 1..Len(queue) /\ i \in 1..Len(queue) /\ (i = 1 \/ 1 < i)
    BY <1>1, <1>2
  <2>2. QED
    BY <2>1 DEF CarrierInv, InOrder
<1>5. QED
  BY <1>1, <1>2, <1>3, <1>4

LEMMA AnswerKeeps ==
  ASSUME CarrierInv, ReceiveCompletions
  PROVE  CarrierInv'
<1>1. /\ queue # <<>> /\ queue' = Tail(queue) /\ carriers' = {}
      /\ current' = [w \in Widget |-> IF Listening(w) = {} THEN current[w] ELSE 0]
      /\ proposal' \in {proposal, [w \in Widget |-> Displayed(w, Head(queue))]}
      /\ UNCHANGED <<pos, requests, resets, before>>
  BY DEF ReceiveCompletions
<1>2. /\ queue \in Seq(1..MaxRequests) /\ Head(queue) \in 1..MaxRequests
      /\ Tail(queue) \in Seq(1..MaxRequests) /\ Len(Tail(queue)) = Len(queue) - 1
      /\ \A i \in 1..Len(Tail(queue)) : Tail(queue)[i] = queue[i + 1]
      /\ Len(queue) \in Nat
  BY <1>1, HeadTailProperties, LenProperties DEF CarrierInv, TypeOK
<1>3. \A w \in Widget : \A x \in proposal'[w] :
        \/ x \in proposal[w]
        \/ \E c \in Listening(w) :
             x = [carrier |-> c, answer |-> Head(queue)] /\ pos[w] >= c.base
  BY <1>1 DEF Displayed
<1>4. \A w \in Widget : Listening(w) \subseteq carriers /\ carriers \subseteq Carrier
  BY DEF Listening, CarrierInv, TypeOK
<1>5. proposal' \in [Widget -> SUBSET Proposal]
  <2>1. proposal \in [Widget -> SUBSET Proposal]
    BY DEF CarrierInv, TypeOK
  <2>2. \A w \in Widget : Displayed(w, Head(queue)) \subseteq Proposal
    BY <1>2, <1>4, <2>1 DEF Displayed, Proposal
  <2>3. QED
    BY <1>1, <2>1, <2>2
<1>6. TypeOK'
  <2>1. current' \in [Widget -> 0..MaxRequests]
    BY <1>1, CompletionAssumption DEF CarrierInv, TypeOK
  <2>2. QED
    BY <1>1, <1>2, <1>5, <2>1 DEF CarrierInv, TypeOK
<1>7. InOrder'
  <2>1. \A i \in 1..Len(queue') : i + 1 \in 1..Len(queue) /\ queue'[i] = queue[i + 1]
    BY <1>1, <1>2
  <2>2. QED
    BY <1>1, <2>1 DEF CarrierInv, InOrder
<1>8. Created'
  BY <1>1, <1>3, <1>4 DEF CarrierInv, Created
<1>9. StillAsked'
  BY <1>1 DEF StillAsked
<1>10. CurrentIsAlive'
  BY <1>1 DEF CarrierInv, CurrentIsAlive
<1>11. BaseBeforeCursor'
  <2>1. \A w \in Widget : pos[w] \in 0..MaxPos
    BY DEF CarrierInv, TypeOK
  <2>2. \A c \in Carrier : c.base \in 0..MaxPos
    BY DEF Carrier
  <2>3. \A w \in Widget : \A x \in proposal'[w] : x.carrier.base <= pos[w]
    BY <1>3, <1>4, <2>1, <2>2 DEF CarrierInv, BaseBeforeCursor
  <2>4. QED
    BY <1>1, <2>3 DEF BaseBeforeCursor
<1>12. AnswerIsNotLater'
  <2>1. ASSUME NEW w \in Widget, NEW x \in proposal'[w], x.carrier.id > before
        PROVE  x.answer <= x.carrier.id
    <3>1. CASE x \in proposal[w]
      BY <2>1, <3>1 DEF CarrierInv, AnswerIsNotLater
    <3>2. CASE \E c \in Listening(w) : x = [carrier |-> c, answer |-> Head(queue)]
      BY <1>1, <1>4, <2>1, <3>2, HeadIsOldest
    <3>3. QED
      BY <1>3, <3>1, <3>2
  <2>2. QED
    BY <1>1, <2>1 DEF AnswerIsNotLater
<1>13. QED
  BY <1>6, <1>7, <1>8, <1>9, <1>10, <1>11, <1>12 DEF CarrierInv

LEMMA ResetKeeps ==
  ASSUME CarrierInv, Reset
  PROVE  CarrierInv'
<1>1. /\ queue' = <<>> /\ before' = requests /\ resets' = resets + 1
      /\ UNCHANGED <<pos, current, carriers, proposal, requests>>
  BY DEF Reset
<1>2. queue' \in Seq(1..MaxRequests) /\ Len(queue') = 0
  BY <1>1, EmptySeq
<1>3. requests \in Nat /\ resets' \in Nat
  BY <1>1 DEF CarrierInv, TypeOK
<1>4. TypeOK'
  BY <1>1, <1>2, <1>3 DEF CarrierInv, TypeOK
<1>5. InOrder' /\ Created' /\ CurrentIsAlive' /\ BaseBeforeCursor'
  BY <1>1, <1>2 DEF CarrierInv, InOrder, Created, CurrentIsAlive, Listening, BaseBeforeCursor
<1>6. \A c \in carriers : c.id \in Nat /\ ~(c.id > before')
  BY <1>1, <1>3 DEF CarrierInv, TypeOK, Carrier, Created
<1>7. \A w \in Widget : \A x \in proposal[w] : x.carrier.id \in Nat /\ ~(x.carrier.id > before')
  BY <1>1, <1>3 DEF CarrierInv, TypeOK, Proposal, Carrier, Created
<1>8. StillAsked' /\ AnswerIsNotLater'
  BY <1>1, <1>6, <1>7 DEF StillAsked, AnswerIsNotLater
<1>9. QED
  BY <1>4, <1>5, <1>8 DEF CarrierInv

-----------------------------------------------------------------------------
LEMMA CarrierStep ==
  ASSUME CarrierInv, [Next]_vars
  PROVE  CarrierInv'
<1>1. /\ pos \in [Widget -> 0..MaxPos] /\ proposal \in [Widget -> SUBSET Proposal]
      /\ current \in [Widget -> 0..MaxRequests] /\ MaxPos \in Nat
      /\ \A v \in Widget : \A x \in proposal[v] : x.carrier.base <= pos[v]
  BY CompletionAssumption DEF CarrierInv, TypeOK, BaseBeforeCursor
<1>2. ASSUME NEW w \in Widget, Invoke(w)
      PROVE  CarrierInv'
  <2>1. /\ pos' \in [Widget -> 0..MaxPos] /\ \A v \in Widget : pos[v] <= pos'[v]
        /\ pos[w] \in 0..MaxPos
    BY <1>1, <1>2 DEF Invoke
  <2>2. RequestProposal(w, pos[w]) /\ UNCHANGED <<proposal, resets, before>>
    BY <1>2 DEF Invoke
  <2>3. QED
    BY <2>1, <2>2, RequestKeeps
<1>3. ASSUME NEW w \in Widget, Process(w)
      PROVE  CarrierInv'
  <2>1. /\ pos' \in [Widget -> 0..MaxPos] /\ \A v \in Widget : pos[v] <= pos'[v]
        /\ pos'[w] \in 0..MaxPos
    BY <1>1, <1>3 DEF Process
  <2>2. RequestProposal(w, pos'[w]) /\ UNCHANGED <<proposal, resets, before>>
    BY <1>3 DEF Process
  <2>3. QED
    BY <2>1, <2>2, RequestKeeps
<1>4. ASSUME NEW w \in Widget, TimeoutInVain(w)
      PROVE  CarrierInv'
  <2>1. /\ current' = [current EXCEPT ![w] = 0]
        /\ UNCHANGED <<pos, carriers, queue, proposal, requests, resets, before>>
    BY <1>4 DEF TimeoutInVain
  <2>2. TypeOK' /\ InOrder' /\ Created' /\ StillAsked'
    BY <1>1, <2>1, CompletionAssumption DEF CarrierInv, TypeOK, InOrder, Created, StillAsked
  <2>3. CurrentIsAlive'
    BY <1>1, <2>1 DEF CarrierInv, CurrentIsAlive, Listening
  <2>4. BaseBeforeCursor' /\ AnswerIsNotLater'
    BY <2>1 DEF CarrierInv, BaseBeforeCursor, AnswerIsNotLater
  <2>5. QED
    BY <2>2, <2>3, <2>4 DEF CarrierInv
<1>5. ASSUME NEW w \in Widget, Edit(w)
      PROVE  CarrierInv'
  <2>1. PICK p \in 0..MaxPos : /\ pos' = [pos EXCEPT ![w] = p]
                               /\ proposal' = [proposal EXCEPT ![w] = Displayable(w, p)]
    BY <1>5 DEF Edit
  <2>2. /\ Displayable(w, p) \subseteq proposal[w]
        /\ \A x \in Displayable(w, p) : p >= x.carrier.base
    BY DEF Displayable
  <2>3. pos' \in [Widget -> 0..MaxPos] /\ proposal' \in [Widget -> SUBSET Proposal]
    BY <1>1, <2>1, <2>2
  <2>4. \A v \in Widget : /\ proposal'[v] \subseteq proposal[v]
                          /\ \A x \in proposal'[v] : x.carrier.base <= pos'[v]
    BY <1>1, <2>1, <2>2
  <2>5. QED
    BY <1>5, <2>3, <2>4, EditKeeps DEF Edit
<1>6. ASSUME NEW w \in Widget, FinalizeProposal(w)
      PROVE  CarrierInv'
  <2>1. proposal' = [proposal EXCEPT ![w] = {}] /\ pos' = pos
    BY <1>6 DEF FinalizeProposal
  <2>2. pos' \in [Widget -> 0..MaxPos] /\ proposal' \in [Widget -> SUBSET Proposal]
    BY <1>1, <2>1
  <2>3. \A v \in Widget : /\ proposal'[v] \subseteq proposal[v]
                          /\ \A x \in proposal'[v] : x.carrier.base <= pos'[v]
    BY <1>1, <2>1
  <2>4. QED
    BY <1>6, <2>2, <2>3, EditKeeps DEF FinalizeProposal
<1>7. CASE UNCHANGED vars
  BY <1>1, <1>7, EditKeeps DEF vars
<1>8. QED
  BY <1>2, <1>3, <1>4, <1>5, <1>6, <1>7, AnswerKeeps, ResetKeeps DEF Next

LEMMA CarrierAlways == Spec => []CarrierInv
<1>1. Init => CarrierInv
  BY CarrierInit
<1>2. CarrierInv /\ [Next]_vars => CarrierInv'
  BY CarrierStep
<1>3. QED
  BY <1>1, <1>2, PTL DEF Spec

\* The carriers, the pointers to them and the requests have their types.
THEOREM CarrierTypes == Spec => []TypeOK
<1>1. CarrierInv => TypeOK
  BY DEF CarrierInv
<1>2. QED
  BY <1>1, CarrierAlways, PTL

\* An assistant never keeps a pointer to a deleted carrier, with any number of editors
\* asking for completions at once.
THEOREM CarrierIsAlive == Spec => []CurrentIsAlive
<1>1. CarrierInv => CurrentIsAlive
  BY DEF CarrierInv
<1>2. QED
  BY <1>1, CarrierAlways, PTL

\* But for resets, a carrier that listens has its own request still to be answered.
THEOREM CarrierIsAnswered == Spec => []NobodyWaitsInVain
<1>1. CarrierInv => NobodyWaitsInVain
  BY NobodyIsStillAsked DEF CarrierInv
<1>2. QED
  BY <1>1, CarrierAlways, PTL

\* A proposal displayed begins at or before the cursor.
THEOREM ProposalFits == Spec => []BaseBeforeCursor
<1>1. CarrierInv => BaseBeforeCursor
  BY DEF CarrierInv
<1>2. QED
  BY <1>1, CarrierAlways, PTL

\* But for resets, no carrier offers the answer to a request made after its own.
THEOREM NoLaterAnswer == Spec => []AnswerIsNotLater
<1>1. CarrierInv => AnswerIsNotLater
  BY DEF CarrierInv
<1>2. QED
  BY <1>1, CarrierAlways, PTL
=============================================================================
