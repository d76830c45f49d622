-------------------------- MODULE SendBufferProofs --------------------------
(***************************************************************************)
(* Theorems about SendBuffer and SlotMemory, for any size of the ring, any *)
(* number of slots that a clear empties, any lengths of the messages and   *)
(* any bounds.                                                             *)
(***************************************************************************)
EXTENDS SlotMemory, TLAPS

(* Every variable of the send buffer keeps its type; in particular the     *)
(* indices never leave 0..N.                                               *)
THEOREM TypeCorrect == Spec => []TypeOK
<1> USE RingAssumption, BoundsAssumption
<1> DEFINE Flags == /\ closing \in BOOLEAN /\ want \in BOOLEAN
                    /\ broken \in BOOLEAN /\ stalled \in BOOLEAN
<1>1. Init => TypeOK
  <2> SUFFICES ASSUME Init PROVE TypeOK
    OBVIOUS
  <2>1. Flags
    BY Zenon DEF Init
  <2>2. QED
    BY <2>1 DEF Init, TypeOK, Slots, Empty
<1>2. TypeOK /\ [Next]_vars => TypeOK'
  <2> SUFFICES ASSUME TypeOK, [Next]_vars PROVE TypeOK'
    OBVIOUS
  <2>1. Flags'
    <3>1. Flags
      BY DEF TypeOK
    <3> HIDE DEF TypeOK
    <3>2. CASE Push \/ PushFails \/ Notify
      BY <3>1, <3>2, Zenon DEF Push, PushFails, Notify, connVars
    <3>3. CASE Pop
      BY <3>1, <3>3, Zenon
         DEF Pop, PopEmpty, PopWritten, PopError, PopShort, Consume, connVars
    <3>4. CASE Connect \/ ConnectionError \/ Closed \/ ClearMsg
      BY <3>1, <3>4, Zenon DEF Connect, ConnectionError, Closed, ClearMsg
    <3>5. CASE Established
      BY <3>1, <3>5, Zenon DEF Established
    <3>6. CASE UNCHANGED vars
      BY <3>1, <3>6, Zenon DEF vars, connVars
    <3>7. QED
      BY <3>2, <3>3, <3>4, <3>5, <3>6 DEF Next
  <2> USE DEF TypeOK, ringVars, connVars, Slots, Empty, Wrapped, Rindex
  <2>2. /\ wr_index' \in 0..N /\ rd_index' \in 0..N
        /\ slot' \in [Slots -> 0..MaxPush] /\ notifying' \in Nat
        /\ conn' \in {"down", "connecting", "up"}
        /\ conn_no' \in 0..MaxConns /\ pushed' \in 0..MaxPush
        /\ pushedOn' \in [1..MaxPush -> 0..MaxConns]
        /\ sentOn' \in [1..MaxPush -> 0..MaxConns]
        /\ lastSent' \in 0..MaxPush
    <3>1. CASE Push
      BY <2>1, <3>1 DEF Push
    <3>2. CASE PushFails
      BY <2>1, <3>2 DEF PushFails
    <3>3. CASE Notify
      BY <2>1, <3>3 DEF Notify
    <3>4. CASE PopEmpty
      BY <2>1, <3>4 DEF PopEmpty
    <3>5. CASE PopWritten
      BY <2>1, <3>5 DEF PopWritten, Consume
    <3>6. CASE PopError
      BY <2>1, <3>6 DEF PopError, Consume
    <3>7. CASE PopShort
      BY <2>1, <3>7 DEF PopShort
    <3>8. CASE Connect
      BY <2>1, <3>8 DEF Connect
    <3>9. CASE Established
      BY <2>1, <3>9 DEF Established
    <3>10. CASE ConnectionError \/ Closed
      BY <2>1, <3>10 DEF ConnectionError, Closed
    <3>11. CASE ClearMsg
      BY <2>1, <3>11 DEF ClearMsg
    <3>12. CASE UNCHANGED vars
      BY <2>1, <3>12 DEF vars
    <3>13. QED
      BY <3>1, <3>2, <3>3, <3>4, <3>5, <3>6, <3>7,
         <3>8, <3>9, <3>10, <3>11, <3>12 DEF Next, Pop
  <2>3. QED
    BY <2>1, <2>2 DEF Flags
<1>3. QED
  BY <1>1, <1>2, PTL DEF Spec

-----------------------------------------------------------------------------
(* The effect of each step on the ring, as long as the ring is intact.     *)

RingTyped == /\ wr_index \in 0..N /\ rd_index \in 0..N
             /\ slot \in [Slots -> 0..MaxPush] /\ pushed \in 0..MaxPush

(* A push into an empty slot appends a message.                            *)
LEMMA PushRing ==
  ASSUME RingTyped, Layout, slot[Wrapped(wr_index)] = Empty,
         slot' = [slot EXCEPT ![Wrapped(wr_index)] = pushed + 1],
         wr_index' = Wrapped(wr_index) + 1,
         rd_index' = rd_index, pushed' = pushed + 1
  PROVE  Layout' /\ Pending < N /\ Pending' = Pending + 1
<1> USE RingAssumption, BoundsAssumption
<1> DEFINE W == Wrapped(wr_index)
<1>1. /\ W \in Slots /\ Rindex \in Slots
      /\ slot[W] = Empty /\ slot' = [slot EXCEPT ![W] = pushed + 1]
      /\ wr_index' = W + 1 /\ rd_index' = rd_index /\ pushed' = pushed + 1
      /\ slot \in [Slots -> Nat] /\ pushed \in Nat
  BY DEF RingTyped, Wrapped, Rindex, Slots
<1> HIDE DEF W
<1>2. Pending \in 0..(N - 1) /\ Ahead(W) = Pending
  <2>1. pushed >= Pending
    BY <1>1 DEF Pending, Empty
  <2>2. slot[W] = IF Ahead(W) < Pending THEN pushed - Pending + 1 + Ahead(W) ELSE 0
    BY <1>1 DEF Layout, Empty
  <2>3. Pending \in 0..N /\ Ahead(W) = IF Pending = N THEN 0 ELSE Pending
    BY DEF Layout, W
  <2>4. QED
    BY <1>1, <2>1, <2>2, <2>3 DEF Empty
<1>3. Rindex' = Rindex /\ \A i \in Slots : Ahead(i)' = Ahead(i)
  BY <1>1 DEF Rindex, Wrapped, Ahead
<1>4. \A i \in Slots : Ahead(i) \in 0..(N - 1) /\ (Ahead(i) = Ahead(W) => i = W)
  BY <1>1 DEF Ahead, Slots
<1>5. Ahead(Rindex) = 0
  BY <1>1 DEF Ahead, Slots
<1>6. Pending' = Pending + 1
  BY <1>1, <1>2, <1>3, <1>4, <1>5 DEF Pending, Layout, Empty
<1>7. \A i \in Slots :
        slot'[i] = IF Ahead(i) < Pending + 1
                     THEN pushed' - (Pending + 1) + 1 + Ahead(i) ELSE Empty
  BY <1>1, <1>2, <1>4 DEF Layout, Empty
<1>8. Ahead(Wrapped(W + 1)) = IF Pending + 1 = N THEN 0 ELSE Pending + 1
  BY <1>1, <1>2 DEF Ahead, Wrapped, Slots
<1>9. Wrapped(wr_index)' = Wrapped(W + 1)
  BY <1>1 DEF Wrapped
<1>10. Ahead(Wrapped(wr_index))' = Ahead(Wrapped(W + 1))
  BY <1>3, <1>9 DEF Ahead
<1>11. QED
  BY <1>2, <1>3, <1>6, <1>7, <1>8, <1>10 DEF Layout

(* Emptying the slot to be read next takes the oldest message.             *)
LEMMA PopRing ==
  ASSUME RingTyped, Layout, slot[Rindex] # Empty,
         slot' = [slot EXCEPT ![Rindex] = Empty],
         rd_index' = Rindex + 1,
         wr_index' = wr_index, pushed' = pushed
  PROVE  /\ Layout' /\ Pending > 0 /\ Pending' = Pending - 1
         /\ slot[Rindex] = pushed - Pending + 1
<1> USE RingAssumption, BoundsAssumption
<1>1. Rindex \in Slots /\ Wrapped(wr_index) \in Slots
  BY DEF RingTyped, Wrapped, Rindex, Slots
<1>2. PICK r \in Slots : r = Rindex
  BY <1>1
<1>3. PICK w \in Slots : w = Wrapped(wr_index)
  BY <1>1
<1>4. /\ slot[r] # 0 /\ slot' = [slot EXCEPT ![r] = 0]
      /\ rd_index' = r + 1 /\ wr_index' = wr_index /\ pushed' = pushed
      /\ slot \in [Slots -> Nat] /\ pushed \in Nat
  BY <1>2 DEF RingTyped, Empty
<1>5. \A i \in Slots :
        slot[i] = IF Ahead(i) < Pending THEN pushed - Pending + 1 + Ahead(i) ELSE 0
  BY DEF Layout, Empty
<1>6. PICK q \in Slots : q = Rindex' /\ q = IF r = N - 1 THEN 0 ELSE r + 1
  BY <1>4 DEF Rindex, Wrapped, Slots
<1>7. /\ Ahead(r) = 0
      /\ \A i \in Slots : /\ Ahead(i) \in 0..(N - 1)
                          /\ i # r => Ahead(i) > 0
                          /\ Ahead(i)' = IF i = r THEN N - 1 ELSE Ahead(i) - 1
      /\ Ahead(q)' = 0
  BY <1>2, <1>6 DEF Ahead, Slots
<1>8. /\ Pending \in 1..N /\ slot[r] = pushed - Pending + 1
      /\ Pending <= pushed
  BY <1>2, <1>4, <1>5, <1>7 DEF Pending, Layout, Empty
<1>9. \A i \in Slots :
        slot'[i] = IF Ahead(i)' < Pending - 1
                     THEN pushed - (Pending - 1) + 1 + Ahead(i)' ELSE 0
  BY <1>4, <1>5, <1>7, <1>8
<1>10. slot'[q] = IF 0 < Pending - 1 THEN pushed - (Pending - 1) + 1 ELSE 0
  <2>1. slot'[q] = IF Ahead(q)' < Pending - 1
                     THEN pushed - (Pending - 1) + 1 + Ahead(q)' ELSE 0
    BY <1>9
  <2>2. QED
    BY <1>4, <1>7, <1>8, <2>1
<1>11. Pending' = Pending - 1
  BY <1>4, <1>6, <1>8, <1>10 DEF Pending, Empty
<1>12. Ahead(w) = IF Pending = N THEN 0 ELSE Pending
  BY <1>3 DEF Layout
<1>13. w = Wrapped(wr_index)'
  BY <1>3, <1>4 DEF Wrapped
<1>14. Ahead(w)' = IF Pending' = N THEN 0 ELSE Pending'
  BY <1>7, <1>8, <1>11, <1>12
<1>15. Ahead(Wrapped(wr_index))' = Ahead(w)'
  BY <1>13 DEF Ahead
<1>16. QED
  BY <1>2, <1>4, <1>8, <1>9, <1>11, <1>14, <1>15 DEF Layout, Empty

(* Steps that wrap an index or leave the ring alone.                       *)
LEMMA SameRing ==
  ASSUME RingTyped, slot' = slot, pushed' = pushed,
         wr_index' \in {wr_index, Wrapped(wr_index)},
         rd_index' \in {rd_index, Rindex}
  PROVE  /\ Rindex' = Rindex /\ Pending' = Pending
         /\ Layout => Layout'
<1> USE RingAssumption
<1>1. Rindex' = Rindex /\ Wrapped(wr_index)' = Wrapped(wr_index)
  BY DEF Rindex, Wrapped, RingTyped
<1>2. Pending' = Pending
  BY <1>1 DEF Pending
<1>3. \A i \in Slots : Ahead(i)' = Ahead(i)
  BY <1>1 DEF Ahead
<1>4. Ahead(Wrapped(wr_index))' = Ahead(Wrapped(wr_index))
  BY <1>1 DEF Ahead
<1>5. QED
  BY <1>1, <1>2, <1>3, <1>4 DEF Layout

(* What has been sent left the queue before everything still in it.        *)
SentInv ==
  /\ lastSent <= pushed
  /\ \A i \in Slots : slot[i] <= pushed
  /\ ~broken => lastSent <= pushed - Pending

RingInv == TypeOK /\ RingLayout /\ SentInv

LEMMA OnRing == TypeOK => RingTyped
  BY DEF TypeOK, RingTyped

(* The steps that store no message and take none.                          *)
LEMMA QuietSteps ==
  ASSUME [Next]_vars, ~Push, ~PopWritten, ~PopError, ~ClearMsg
  PROVE  /\ slot' = slot /\ pushed' = pushed /\ lastSent' = lastSent
         /\ broken' = broken
         /\ wr_index' \in {wr_index, Wrapped(wr_index)}
         /\ rd_index' \in {rd_index, Rindex}
<1> USE DEF ringVars, connVars
<1>1. CASE PushFails \/ Notify
  BY <1>1 DEF PushFails, Notify
<1>2. CASE PopEmpty \/ PopShort
  BY <1>2 DEF PopEmpty, PopShort
<1>3. CASE Connect \/ Established \/ ConnectionError \/ Closed
  BY <1>3 DEF Connect, Established, ConnectionError, Closed
<1>4. CASE UNCHANGED vars
  BY <1>4 DEF vars
<1>5. QED
  BY <1>1, <1>2, <1>3, <1>4 DEF Next, Pop

-----------------------------------------------------------------------------
(* Every step keeps the ring's layout and is a step of the queue.          *)

Kept == RingLayout' /\ SentInv' /\ [Fifo!FifoNext]_(Fifo!fifoVars)

LEMMA PushKeeps == RingInv /\ Push => Kept
<1> SUFFICES ASSUME RingInv, Push PROVE Kept
  OBVIOUS
<1> USE RingAssumption, BoundsAssumption
<1> USE DEF RingInv
<1>1. /\ RingTyped /\ lastSent \in Nat
      /\ slot' = [slot EXCEPT ![Wrapped(wr_index)] = pushed + 1]
      /\ wr_index' = Wrapped(wr_index) + 1
      /\ rd_index' = rd_index /\ pushed' = pushed + 1 /\ lastSent' = lastSent
  BY OnRing DEF Push, TypeOK
<1>2. \A i \in Slots : slot'[i] <= pushed'
  BY <1>1 DEF RingTyped, SentInv, Slots
<1>3. lastSent' <= pushed'
  BY <1>1 DEF RingTyped, SentInv
<1>4. CASE ~broken'
  <2>1. ~broken /\ slot[Wrapped(wr_index)] = Empty
    BY <1>4, Zenon DEF Push
  <2>2. Layout /\ lastSent <= pushed - Pending
    BY <2>1 DEF RingLayout, SentInv
  <2>3. Layout' /\ Pending < N /\ Pending' = Pending + 1 /\ Pending \in Nat
    BY <1>1, <2>1, <2>2, PushRing DEF Layout
  <2>4. RingLayout' /\ SentInv'
    BY <1>1, <1>2, <1>3, <2>2, <2>3 DEF RingLayout, SentInv, RingTyped
  <2>5. Fifo!Accept
    BY <1>1, <1>4, <2>1, <2>3 DEF Fifo!Accept, RingTyped
  <2>6. QED
    BY <2>4, <2>5 DEF Kept, Fifo!FifoNext
<1>5. CASE broken'
  <2>1. RingLayout' /\ SentInv'
    BY <1>2, <1>3, <1>5 DEF RingLayout, SentInv
  <2>2. CASE broken
    BY <1>5, <2>1, <2>2 DEF Kept, Fifo!FifoNext, Fifo!StaySpoiled
  <2>3. CASE ~broken
    <3>1. slot[Wrapped(wr_index)] # Empty
      BY <1>5, <2>3, Zenon DEF Push
    <3>2. PICK w \in Slots : w = Wrapped(wr_index)
      BY <1>1 DEF RingTyped, Wrapped, Slots
    <3>3. /\ slot[w] = IF Ahead(w) < Pending THEN pushed - Pending + 1 + Ahead(w)
                                            ELSE Empty
          /\ Ahead(w) = IF Pending = N THEN 0 ELSE Pending
          /\ Pending \in 0..N
      BY <2>3, <3>2 DEF RingLayout, Layout
    <3>4. Pending = N
      BY <3>1, <3>2, <3>3
    <3>5. Fifo!Overfill
      BY <1>1, <1>5, <2>3, <3>4 DEF Fifo!Overfill, RingTyped
    <3>6. QED
      BY <2>1, <3>5 DEF Kept, Fifo!FifoNext
  <2>4. QED
    BY <2>2, <2>3
<1>6. QED
  BY <1>4, <1>5

LEMMA PopKeeps == RingInv /\ (PopWritten \/ PopError) => Kept
<1> SUFFICES ASSUME RingInv, PopWritten \/ PopError PROVE Kept
  OBVIOUS
<1> USE RingAssumption, BoundsAssumption
<1> USE DEF RingInv
<1>1. /\ RingTyped /\ lastSent \in Nat /\ slot[Rindex] # Empty
      /\ slot' = [slot EXCEPT ![Rindex] = Empty]
      /\ wr_index' = wr_index /\ rd_index' = Rindex + 1 /\ pushed' = pushed
      /\ lastSent' \in {lastSent, slot[Rindex]} /\ broken' = broken
  BY OnRing DEF PopWritten, PopError, Consume, TypeOK
<1>2. Rindex \in Slots
  BY <1>1 DEF RingTyped, Rindex, Wrapped, Slots
<1>3. (\A i \in Slots : slot'[i] <= pushed') /\ lastSent' <= pushed'
  BY <1>1, <1>2 DEF SentInv, RingTyped, Empty
<1>4. CASE broken
  BY <1>1, <1>3, <1>4
     DEF Kept, RingLayout, SentInv, Fifo!FifoNext, Fifo!StaySpoiled
<1>5. CASE ~broken
  <2>1. Layout /\ lastSent <= pushed - Pending
    BY <1>5 DEF RingLayout, SentInv
  <2>2. /\ Layout' /\ Pending > 0 /\ Pending' = Pending - 1 /\ Pending \in Nat
        /\ slot[Rindex] = pushed - Pending + 1
    BY <1>1, <2>1, PopRing DEF Layout
  <2>3. RingLayout' /\ SentInv'
    BY <1>1, <1>3, <2>1, <2>2 DEF RingLayout, SentInv, RingTyped
  <2>4. CASE lastSent' = slot[Rindex]
    <3>1. Fifo!Send
      BY <1>1, <1>5, <2>2, <2>4 DEF Fifo!Send, RingTyped
    <3>2. QED
      BY <2>3, <3>1 DEF Kept, Fifo!FifoNext
  <2>5. CASE lastSent' = lastSent
    <3>1. Fifo!Lose
      BY <1>1, <1>5, <2>2, <2>5 DEF Fifo!Lose, RingTyped
    <3>2. QED
      BY <2>3, <3>1 DEF Kept, Fifo!FifoNext
  <2>6. QED
    BY <1>1, <2>4, <2>5
<1>6. QED
  BY <1>4, <1>5

LEMMA ClearKeeps == RingInv /\ ClearMsg => Kept
<1> SUFFICES ASSUME RingInv, ClearMsg PROVE Kept
  OBVIOUS
<1> USE RingAssumption, BoundsAssumption
<1> USE DEF RingInv
<1>1. /\ RingTyped /\ lastSent \in Nat
      /\ wr_index' = 0 /\ rd_index' = 0
      /\ slot' = [i \in Slots |-> IF i < ClearCnt THEN Empty ELSE slot[i]]
      /\ pushed' = pushed /\ lastSent' = lastSent
  BY OnRing DEF ClearMsg, TypeOK
<1>2. (\A i \in Slots : slot'[i] <= pushed') /\ lastSent' <= pushed'
  BY <1>1 DEF SentInv, RingTyped, Empty, Slots
<1>3. CASE broken'
  <2>1. RingLayout' /\ SentInv'
    BY <1>2, <1>3 DEF RingLayout, SentInv
  <2>2. CASE broken
    BY <1>3, <2>1, <2>2 DEF Kept, Fifo!FifoNext, Fifo!StaySpoiled
  <2>3. CASE ~broken
    <3>1. PICK i \in Slots : slot'[i] # Empty
      BY <1>3, Zenon DEF ClearMsg
    <3>2. slot[i] # Empty
      BY <1>1, <3>1 DEF Empty
    <3>3. Pending > 0
      BY <1>1, <2>3, <3>2 DEF RingLayout, Layout, Ahead, RingTyped, Rindex, Wrapped,
                              Slots, Empty
    <3>4. Pending \in Nat
      BY <2>3 DEF RingLayout, Layout
    <3>5. Fifo!ClearPartly
      BY <1>1, <1>3, <2>3, <3>3, <3>4 DEF Fifo!ClearPartly, RingTyped
    <3>6. QED
      BY <2>1, <3>5 DEF Kept, Fifo!FifoNext
  <2>4. QED
    BY <2>2, <2>3
<1>4. CASE ~broken'
  <2>1. \A i \in Slots : slot'[i] = Empty
    BY <1>4, Zenon DEF ClearMsg
  <2>2. Rindex' = 0 /\ Wrapped(wr_index)' = 0 /\ 0 \in Slots
    BY <1>1 DEF Rindex, Wrapped, Slots
  <2>3. Pending' = 0
    BY <2>1, <2>2 DEF Pending
  <2>4. \A i \in Slots : Ahead(i)' = i
    BY <2>2 DEF Ahead, Slots
  <2>5. Ahead(Wrapped(wr_index))' = 0
    BY <2>2 DEF Ahead
  <2>6. Layout'
    BY <2>1, <2>3, <2>4, <2>5 DEF Layout, Slots, Empty
  <2>7. RingLayout' /\ SentInv'
    BY <1>1, <1>2, <2>3, <2>6 DEF RingLayout, SentInv, RingTyped
  <2>8. CASE broken
    <3>1. Fifo!Recover
      BY <1>1, <1>4, <2>3, <2>8 DEF Fifo!Recover, RingTyped
    <3>2. QED
      BY <2>7, <3>1 DEF Kept, Fifo!FifoNext
  <2>9. CASE ~broken
    <3>1. Fifo!Clear
      BY <1>1, <1>4, <2>3, <2>9 DEF Fifo!Clear, RingTyped
    <3>2. QED
      BY <2>7, <3>1 DEF Kept, Fifo!FifoNext
  <2>10. QED
    BY <2>8, <2>9
<1>5. QED
  BY <1>3, <1>4

LEMMA QuietKeeps ==
  RingInv /\ [Next]_vars /\ ~Push /\ ~PopWritten /\ ~PopError /\ ~ClearMsg => Kept
<1> SUFFICES ASSUME RingInv, [Next]_vars,
                    ~Push, ~PopWritten, ~PopError, ~ClearMsg
             PROVE  Kept
  OBVIOUS
<1>1. /\ slot' = slot /\ pushed' = pushed /\ lastSent' = lastSent
      /\ broken' = broken
      /\ wr_index' \in {wr_index, Wrapped(wr_index)}
      /\ rd_index' \in {rd_index, Rindex}
  BY QuietSteps
<1>2. Rindex' = Rindex /\ Pending' = Pending /\ (Layout => Layout')
  BY <1>1, OnRing, SameRing DEF RingInv
<1>3. RingLayout' /\ SentInv'
  BY <1>1, <1>2 DEF RingInv, RingLayout, SentInv
<1>4. UNCHANGED Fifo!fifoVars
  BY <1>1, <1>2 DEF Fifo!fifoVars
<1>5. QED
  BY <1>3, <1>4 DEF Kept

LEMMA RingKept == RingInv /\ [Next]_vars => Kept
  BY PushKeeps, PopKeeps, ClearKeeps, QuietKeeps

LEMMA RingInit == Init => RingLayout /\ SentInv /\ Fifo!FifoInit
<1> SUFFICES ASSUME Init PROVE RingLayout /\ SentInv /\ Fifo!FifoInit
  OBVIOUS
<1> USE RingAssumption
<1>1. /\ Rindex = 0 /\ Wrapped(wr_index) = 0 /\ 0 \in Slots
      /\ \A i \in Slots : slot[i] = Empty
      /\ pushed = 0 /\ lastSent = 0 /\ ~broken
  BY DEF Init, Rindex, Wrapped, Slots
<1>2. Pending = 0 /\ (\A i \in Slots : Ahead(i) = i) /\ Ahead(Wrapped(wr_index)) = 0
  BY <1>1 DEF Pending, Ahead, Slots
<1>3. Layout
  BY <1>1, <1>2 DEF Layout, Slots, Empty
<1>4. QED
  BY <1>1, <1>2, <1>3 DEF RingLayout, SentInv, Fifo!FifoInit, Empty

LEMMA RingHolds == Spec => []RingInv
<1>1. RingInv /\ [Next]_vars => RingLayout' /\ SentInv'
  BY RingKept DEF Kept
<1>2. RingInv <=> TypeOK /\ RingLayout /\ SentInv
  BY DEF RingInv
<1>3. QED
  BY <1>1, <1>2, RingInit, TypeCorrect, PTL DEF Spec

(* The ring keeps its layout until a message is overwritten or survives a  *)
(* clear: the indices that push and pop wrap lazily never disagree.        *)
THEOREM LayoutKept == Spec => []RingLayout
<1>1. RingInv => RingLayout
  BY DEF RingInv
<1>2. QED
  BY <1>1, RingHolds, PTL

(* The send buffer implements the queue of SendFifo.                       *)
THEOREM RefinesFifo == Spec => ImplementsFifo
<1>1. RingInv /\ [Next]_vars => [Fifo!FifoNext]_(Fifo!fifoVars)
  BY RingKept DEF Kept
<1>2. Init => Fifo!FifoInit
  BY RingInit
<1>3. QED
  BY <1>1, <1>2, RingHolds, PTL DEF Spec, ImplementsFifo, Fifo!FifoSpec

(* Messages are written in the order in which they were pushed.            *)
THEOREM OrderKept == Spec => WrittenInOrder
<1>1. RingInv /\ [Next]_vars =>
        [lastSent' # lastSent => broken \/ lastSent' > lastSent]_vars
  <2> SUFFICES ASSUME RingInv, [Next]_vars, lastSent' # lastSent, ~broken
               PROVE  lastSent' > lastSent
    OBVIOUS
  <2>1. PopWritten
    <3>1. CASE Push \/ PopError \/ ClearMsg
      BY <3>1 DEF Push, PopError, ClearMsg
    <3>2. QED
      BY <3>1, QuietSteps
  <2>2. lastSent' = slot[Rindex] /\ slot[Rindex] # Empty
    BY <2>1 DEF PopWritten
  <2>3. slot[Rindex] = pushed - Pending + 1
    BY <2>2 DEF Pending, RingInv, TypeOK, Rindex, Wrapped, Slots, RingAssumption
  <2>4. lastSent <= pushed - Pending
    BY DEF RingInv, SentInv
  <2>5. Pending \in Nat /\ pushed \in Nat /\ lastSent \in Nat
    BY BoundsAssumption DEF RingInv, RingLayout, Layout, TypeOK
  <2>6. QED
    BY <2>2, <2>3, <2>4, <2>5
<1>2. QED
  BY <1>1, RingHolds, PTL DEF Spec, WrittenInOrder

(* A queued message is never left without a writable callback to come,     *)
(* unless it has stalled: no interleaving of push, notify and pop loses    *)
(* the notification.                                                       *)
THEOREM WakeupKept == Spec => []NoLostWakeup
<1>1. Init => NoLostWakeup
  BY DEF Init, NoLostWakeup
<1>2. RingInv /\ NoLostWakeup /\ [Next]_vars => NoLostWakeup'
  <2> SUFFICES ASSUME RingInv, NoLostWakeup, [Next]_vars,
                      conn' = "up", ~broken', Pending' > 0
               PROVE  want' \/ notifying' > 0 \/ stalled'
    BY DEF NoLostWakeup
  <2> USE RingAssumption DEF connVars
  <2>1. CASE Push
    BY <2>1 DEF Push, RingInv, TypeOK
  <2>2. CASE Notify
    <3>1. conn # "down"
      BY <2>2 DEF Notify
    <3>2. QED
      BY <2>2, <3>1, Zenon DEF Notify
  <2>3. CASE PopWritten \/ PopError
    BY <2>3, Zenon DEF PopWritten, PopError, Consume
  <2>4. CASE PopShort
    BY <2>4, Zenon DEF PopShort
  <2>5. CASE Connect \/ ConnectionError \/ Closed
    BY <2>5 DEF Connect, ConnectionError, Closed
  <2>6. CASE ClearMsg
    <3>1. \A i \in Slots : slot'[i] = Empty
      BY <2>6, Zenon DEF ClearMsg
    <3>2. Rindex' \in Slots
      BY <2>6 DEF ClearMsg, Rindex, Wrapped, Slots
    <3>3. Pending' = 0
      BY <3>1, <3>2 DEF Pending
    <3>4. QED
      BY <3>3
  <2>7. ASSUME ~Push, ~PopWritten, ~PopError, ~ClearMsg
        PROVE  Pending' = Pending /\ slot[Rindex] # Empty /\ ~broken
    <3>1. /\ slot' = slot /\ pushed' = pushed /\ broken' = broken
          /\ wr_index' \in {wr_index, Wrapped(wr_index)}
          /\ rd_index' \in {rd_index, Rindex}
      BY <2>7, QuietSteps
    <3>2. Pending' = Pending
      BY <3>1, OnRing, SameRing DEF RingInv
    <3>3. QED
      BY <3>1, <3>2 DEF Pending
  <2>8. CASE PopEmpty
    <3>1. ~Push /\ ~PopWritten /\ ~PopError /\ ~ClearMsg
      BY <2>8 DEF PopEmpty, Push, PopWritten, PopError, ClearMsg, Writeable,
                  RingInv, TypeOK
    <3>2. QED
      BY <2>7, <2>8, <3>1 DEF PopEmpty
  <2>9. CASE Established
    <3>1. ~Push /\ ~PopWritten /\ ~PopError /\ ~ClearMsg
      BY <2>9 DEF Established, Push, PopWritten, PopError, ClearMsg, Writeable,
                  RingInv, TypeOK
    <3>2. Rindex \in Slots
      BY DEF RingInv, TypeOK, Rindex, Wrapped, Slots
    <3>3. \E i \in Slots : slot[i] # Empty
      BY <2>7, <3>1, <3>2
    <3>4. QED
      BY <2>9, <3>3, Zenon DEF Established
  <2>10. CASE PushFails \/ UNCHANGED vars
    <3>1. UNCHANGED <<conn, want, notifying, stalled>>
      BY <2>10 DEF PushFails, vars
    <3>2. CASE ~Push /\ ~PopWritten /\ ~PopError /\ ~ClearMsg
      BY <2>7, <3>1, <3>2 DEF NoLostWakeup
    <3>3. QED
      BY <2>1, <2>3, <2>6, <3>2
  <2>11. QED
    BY <2>1, <2>2, <2>3, <2>4, <2>5, <2>6, <2>8, <2>9, <2>10 DEF Next, Pop
<1>3. QED
  BY <1>1, <1>2, RingHolds, PTL DEF Spec
-----------------------------------------------------------------------------
(* The memory of the slots.                                                *)

(* With its memory the buffer behaves as without it.                       *)
LEMMA MemoryImplementsBuffer == MemSpec => Spec
<1>1. MemInit => Init
  BY DEF MemInit
<1>2. [MemNext]_slotVars => [Next]_vars
  <2> SUFFICES ASSUME [MemNext]_slotVars PROVE Next \/ UNCHANGED vars
    OBVIOUS
  <2>1. CASE MemNext
    BY <2>1 DEF MemNext, MemPush, MemPushFails, MemPop, MemClear, Next
  <2>2. CASE UNCHANGED slotVars
    BY <2>2 DEF slotVars
  <2>3. QED
    BY <2>1, <2>2
<1>3. QED
  BY <1>1, <1>2, PTL DEF MemSpec, Spec

(* The inductive invariant: a slot that is not in use has buf_len 0, and   *)
(* no slot is ever smaller than client_buf_mgmt_init made it.              *)
MemInv ==
  /\ MemTypeOK
  /\ \A i \in Slots :
       /\ size[i] >= SingleBufSize
       /\ buf_len[i] = IF slot[i] = Empty THEN 0 ELSE length[slot[i]]
       /\ LWS_PRE + buf_len[i] <= size[i]

(* A push leaves its message within the memory of its slot.                *)
LEMMA PushFits ==
  ASSUME TypeOK, MemInv, MemPush
  PROVE  MemInv'
<1> USE RingAssumption, BoundsAssumption, MemoryAssumption
<1> DEFINE w == Wrapped(wr_index)
           n == pushed + 1
<1>1. /\ w \in Slots /\ n \in 1..MaxPush /\ pushed' = n
      /\ slot' = [slot EXCEPT ![w] = n]
      /\ size' = [size EXCEPT ![w] = SizeFor(w, n)]
      /\ buf_len' = [buf_len EXCEPT ![w] = length[n]]
      /\ length' = length /\ slot \in [Slots -> 0..MaxPush]
  BY DEF MemPush, Push, TypeOK, Wrapped, Slots
<1>2. length \in [1..MaxPush -> Nat \ {0}]
  BY DEF MemInv, MemTypeOK
<1>3. /\ SizeFor(w, n) \in Nat /\ SizeFor(w, n) >= SingleBufSize
      /\ LWS_PRE + length[n] <= SizeFor(w, n)
  BY <1>1, <1>2 DEF MemInv, MemTypeOK, SizeFor, NeedsMore
<1> HIDE DEF w, n
<1>4. MemTypeOK'
  BY <1>1, <1>2, <1>3 DEF MemInv, MemTypeOK
<1>5. ASSUME NEW i \in Slots
      PROVE  /\ size'[i] >= SingleBufSize
             /\ buf_len'[i] = IF slot'[i] = Empty THEN 0 ELSE length[slot'[i]]
             /\ LWS_PRE + buf_len'[i] <= size'[i]
  <2>1. CASE i = w
    BY <2>1, <1>1, <1>2, <1>3 DEF MemInv, MemTypeOK, Empty
  <2>2. CASE i # w
    BY <2>2, <1>1 DEF MemInv, MemTypeOK
  <2>3. QED
    BY <2>1, <2>2
<1>6. QED
  BY <1>1, <1>4, <1>5 DEF MemInv, Slots, Empty

(* Emptying slots sets their buf_len to 0.                                 *)
LEMMA EmptyingFits ==
  ASSUME TypeOK, MemInv, SlotsEmptied, UNCHANGED <<length, size>>,
         slot' \in [Slots -> 0..MaxPush],
         \A i \in Slots : slot'[i] \in {slot[i], Empty}
  PROVE  MemInv'
<1> USE MemoryAssumption
<1>1. \A i \in Slots :
        /\ buf_len'[i] = IF slot'[i] = Empty THEN 0 ELSE buf_len[i]
        /\ buf_len[i] = IF slot[i] = Empty THEN 0 ELSE length[slot[i]]
        /\ buf_len[i] \in Nat /\ size[i] \in Nat
        /\ LWS_PRE + buf_len[i] <= size[i] /\ size[i] >= SingleBufSize
        /\ slot'[i] = slot[i] \/ slot'[i] = Empty
  BY DEF SlotsEmptied, MemInv, MemTypeOK
<1>2. buf_len' \in [Slots -> Nat]
  BY <1>1 DEF SlotsEmptied
<1>3. MemTypeOK'
  BY <1>2 DEF MemInv, MemTypeOK, Slots
<1>4. \A i \in Slots :
        /\ size[i] >= SingleBufSize
        /\ buf_len'[i] = IF slot'[i] = Empty THEN 0 ELSE length[slot'[i]]
        /\ LWS_PRE + buf_len'[i] <= size[i]
  BY <1>1
<1>5. QED
  BY <1>3, <1>4 DEF MemInv, Slots, Empty

LEMMA MemoryInvariant == MemSpec => []MemInv
<1> USE RingAssumption, BoundsAssumption, MemoryAssumption
<1>1. MemInit => MemInv
  BY DEF MemInit, Init, MemInv, MemTypeOK, Slots, Empty
<1>2. TypeOK /\ TypeOK' /\ MemInv /\ [MemNext]_slotVars => MemInv'
  <2> SUFFICES ASSUME TypeOK, TypeOK', MemInv, [MemNext]_slotVars PROVE MemInv'
    OBVIOUS
  <2>0. slot' \in [Slots -> 0..MaxPush]
    BY DEF TypeOK, Slots
  <2>1. CASE MemPush
    BY <2>1, PushFits
  <2>2. ASSUME UNCHANGED <<slot, memVars>> PROVE MemInv'
    BY <2>2 DEF MemInv, MemTypeOK, memVars, Slots, Empty
  <2>3. CASE MemPushFails
    BY <2>2, <2>3 DEF MemPushFails, PushFails
  <2>4. CASE MemPop
    <3>1. \A i \in Slots : slot'[i] \in {slot[i], Empty}
      BY <2>4 DEF MemPop, Pop, PopEmpty, PopWritten, PopError, PopShort, Consume,
                  TypeOK
    <3>2. QED
      BY <2>0, <2>4, <3>1, EmptyingFits DEF MemPop
  <2>5. CASE MemClear
    <3>1. \A i \in Slots : slot'[i] \in {slot[i], Empty}
      BY <2>5 DEF MemClear, ClearMsg
    <3>2. QED
      BY <2>0, <2>5, <3>1, EmptyingFits DEF MemClear
  <2>6. CASE /\ Notify \/ Connect \/ Established \/ ConnectionError \/ Closed
             /\ UNCHANGED memVars
    BY <2>2, <2>6
       DEF Notify, Connect, Established, ConnectionError, Closed, ringVars
  <2>7. CASE UNCHANGED slotVars
    BY <2>2, <2>7 DEF slotVars, vars, ringVars
  <2>8. QED
    BY <2>1, <2>3, <2>4, <2>5, <2>6, <2>7 DEF MemNext
<1>3. QED
  BY <1>1, <1>2, MemoryImplementsBuffer, TypeCorrect, PTL DEF MemSpec

(* Whatever the lengths of the messages, in whatever order they come, the  *)
(* one that lws_write is given lies within the memory of its slot.         *)
THEOREM MessagesAlwaysFit == MemSpec => []MessagesFit
<1>1. MemInv => MessagesFit
  BY DEF MemInv, MessagesFit
<1>2. QED
  BY <1>1, MemoryInvariant, PTL

(* A push into an empty slot neither clears nor writes a byte outside the  *)
(* memory of the slot, although a push may have made the slot smaller.     *)
THEOREM PushesAlwaysStayInside == MemSpec => []PushesStayInside
<1> USE RingAssumption, BoundsAssumption, MemoryAssumption
<1>1. TypeOK /\ MemInv => PushesStayInside
  <2> SUFFICES ASSUME TypeOK, MemInv, pushed + 1 <= MaxPush,
                      slot[Wrapped(wr_index)] = Empty
               PROVE  LET i == Wrapped(wr_index)
                          n == pushed + 1
                      IN /\ buf_len[i] <= SizeFor(i, n)
                         /\ LWS_PRE + length[n] <= SizeFor(i, n)
    BY DEF PushesStayInside
  <2> DEFINE w == Wrapped(wr_index)
             n == pushed + 1
  <2>1. w \in Slots /\ n \in 1..MaxPush
    BY DEF TypeOK, Wrapped, Slots
  <2>2. length[n] \in Nat /\ size[w] \in Nat /\ size[w] >= SingleBufSize
        /\ buf_len[w] = 0
    BY <2>1 DEF MemInv, MemTypeOK
  <2>3. QED
    BY <2>1, <2>2 DEF SizeFor, NeedsMore
<1>2. QED
  BY <1>1, MemoryInvariant, MemoryImplementsBuffer, TypeCorrect, PTL
=============================================================================
