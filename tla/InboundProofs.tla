--------------------------- MODULE InboundProofs ---------------------------
(***************************************************************************)
(* Theorems about Inbound, for any number of messages, fragments, workers  *)
(* and places in the queue, and any shapes of messages.                    *)
(***************************************************************************)
EXTENDS Inbound, SequenceTheorems, TLAPS

(* Steps that leave the gateway, the text and what is parsed alone.        *)
Aside == UNCHANGED <<gatewayVars, textVars, parsed>>

LEMMA WorkerAside ==
  ASSUME NEW w \in Workers, WorkerStep(w)
  PROVE  Aside
BY DEF WorkerStep, Take, Ignore, Respond, RespondFails, Aside, gatewayVars, textVars

(* A queue after an addition, and without its first element.               *)
LEMMA Added ==
  ASSUME NEW S, NEW s \in Seq(S), NEW e \in S, e \notin Range(s), IsInjective(s)
  PROVE  /\ Range(Append(s, e)) = Range(s) \cup {e}
         /\ IsInjective(Append(s, e))
<1>1. /\ Append(s, e) \in Seq(S) /\ Len(Append(s, e)) = Len(s) + 1
      /\ \A i \in 1..Len(s) : Append(s, e)[i] = s[i]
      /\ Append(s, e)[Len(s) + 1] = e
  BY AppendProperties
<1>2. Len(s) \in Nat
  OBVIOUS
<1>7. DOMAIN Append(s, e) = 1..(Len(s) + 1) /\ DOMAIN s = 1..Len(s)
  BY <1>1, LenProperties
<1>3. \A i \in 1..(Len(s) + 1) : i \in 1..Len(s) \/ i = Len(s) + 1
  BY <1>2
<1>4. \A i \in 1..Len(s) : i \in 1..(Len(s) + 1)
  BY <1>2
<1>5. Len(s) + 1 \in 1..(Len(s) + 1)
  BY <1>2
<1>6. Range(Append(s, e)) = Range(s) \cup {e}
  <2>1. ASSUME NEW x \in Range(Append(s, e))
        PROVE  x \in Range(s) \cup {e}
    <3>1. PICK i \in 1..(Len(s) + 1) : x = Append(s, e)[i]
      BY <2>1, <1>1, <1>7 DEF Range
    <3>2. QED
      BY <3>1, <1>1, <1>3, <1>7 DEF Range
  <2>2. ASSUME NEW x \in Range(s)
        PROVE  x \in Range(Append(s, e))
    <3>1. PICK i \in 1..Len(s) : x = s[i]
      BY <2>2, <1>7 DEF Range
    <3>2. x = Append(s, e)[i] /\ i \in 1..Len(Append(s, e))
      BY <3>1, <1>1, <1>4
    <3>3. QED
      BY <3>2, <1>7 DEF Range
  <2>3. e \in Range(Append(s, e))
    BY <1>1, <1>5, <1>7 DEF Range
  <2>4. QED
    BY <2>1, <2>2, <2>3
<1>8. IsInjective(Append(s, e))
  <2>1. ASSUME NEW i \in 1..(Len(s) + 1), NEW j \in 1..(Len(s) + 1),
               Append(s, e)[i] = Append(s, e)[j]
        PROVE  i = j
    <3>1. CASE i \in 1..Len(s) /\ j \in 1..Len(s)
      BY <3>1, <2>1, <1>1, <1>7 DEF IsInjective
    <3>2. CASE i = Len(s) + 1 /\ j \in 1..Len(s)
      BY <3>2, <2>1, <1>1, <1>7 DEF Range
    <3>3. CASE j = Len(s) + 1 /\ i \in 1..Len(s)
      BY <3>3, <2>1, <1>1, <1>7 DEF Range
    <3>4. QED
      BY <3>1, <3>2, <3>3, <1>3
  <2>2. QED
    BY <2>1, <1>7 DEF IsInjective
<1>9. QED
  BY <1>6, <1>8

LEMMA Removed ==
  ASSUME NEW S, NEW s \in Seq(S), s # <<>>, IsInjective(s)
  PROVE  /\ Head(s) \in S /\ Tail(s) \in Seq(S) /\ Len(Tail(s)) = Len(s) - 1
         /\ Head(s) \in Range(s)
         /\ Range(Tail(s)) = Range(s) \ {Head(s)}
         /\ IsInjective(Tail(s))
<1>1. /\ Head(s) \in S /\ Tail(s) \in Seq(S) /\ Len(Tail(s)) = Len(s) - 1
      /\ \A i \in 1..Len(Tail(s)) : Tail(s)[i] = s[i + 1]
  BY HeadTailProperties
<1>2. Len(s) \in Nat /\ Len(s) # 0 /\ Head(s) = s[1]
  BY EmptySeq
<1>3. DOMAIN s = 1..Len(s) /\ DOMAIN Tail(s) = 1..(Len(s) - 1)
  BY <1>1, LenProperties
<1>4. Head(s) \in Range(s)
  BY <1>2, <1>3 DEF Range
<1>5. \A i \in 1..(Len(s) - 1) : i + 1 \in 1..Len(s) /\ i + 1 # 1
  BY <1>2
<1>6. \A i \in 1..Len(s) : i = 1 \/ (i - 1 \in 1..(Len(s) - 1) /\ (i - 1) + 1 = i)
  BY <1>2
<1>7. Range(Tail(s)) = Range(s) \ {Head(s)}
  <2>1. ASSUME NEW x \in Range(Tail(s))
        PROVE  x \in Range(s) \ {Head(s)}
    <3>1. PICK i \in 1..(Len(s) - 1) : x = Tail(s)[i]
      BY <2>1, <1>1, <1>3 DEF Range
    <3>2. x = s[i + 1] /\ i + 1 \in 1..Len(s) /\ i + 1 # 1
      BY <3>1, <1>1, <1>5
    <3>3. x # s[1]
      BY <3>2, <1>2, <1>3 DEF IsInjective
    <3>4. QED
      BY <3>2, <3>3, <1>2, <1>3 DEF Range
  <2>2. ASSUME NEW x \in Range(s) \ {Head(s)}
        PROVE  x \in Range(Tail(s))
    <3>1. PICK i \in 1..Len(s) : x = s[i]
      BY <2>2, <1>3 DEF Range
    <3>2. i # 1
      BY <3>1, <2>2, <1>2
    <3>3. PICK k \in 1..(Len(s) - 1) : k + 1 = i
      BY <3>2, <1>6
    <3>4. x = Tail(s)[k] /\ k \in 1..Len(Tail(s))
      BY <3>1, <3>3, <1>1
    <3>5. QED
      BY <3>4, <1>3 DEF Range
  <2>3. QED
    BY <2>1, <2>2
<1>8. IsInjective(Tail(s))
  <2>1. ASSUME NEW i \in 1..(Len(s) - 1), NEW j \in 1..(Len(s) - 1),
               Tail(s)[i] = Tail(s)[j]
        PROVE  i = j
    <3>1. s[i + 1] = s[j + 1] /\ i + 1 \in DOMAIN s /\ j + 1 \in DOMAIN s
      BY <2>1, <1>1, <1>3, <1>5
    <3>2. i + 1 = j + 1
      BY <3>1 DEF IsInjective
    <3>3. QED
      BY <3>2
  <2>2. QED
    BY <2>1, <1>3 DEF IsInjective
<1>9. QED
  BY <1>1, <1>4, <1>7, <1>8

-----------------------------------------------------------------------------
(* The messages of the gateway and their fragments.                        *)

Texts == Seq(Msgs \X (1..MaxFrags))

LEMMA NoText == NULL \notin Texts /\ NULL \notin Shapes
BY InboundAssumption DEF Texts

LEMMA OneMore == /\ \A m \in Nat : \A i \in 1..(m + 1) : i \in 1..m \/ i = m + 1
                 /\ \A m, n \in Nat : 1..m = 1..n => m = n
<1>1. ASSUME NEW m \in Nat, NEW n \in Nat, 1..m = 1..n, m < n
      PROVE  FALSE
  <2>1. n \in 1..n /\ n \notin 1..m
    BY <1>1
  <2>2. QED
    BY <2>1, <1>1
<1>2. ASSUME NEW m \in Nat, NEW n \in Nat, 1..m = 1..n
      PROVE  m = n
  <2>1. ~(m < n) /\ ~(n < m)
    BY <1>1, <1>2
  <2>2. QED
    BY <2>1
<1>3. \A m \in Nat : \A i \in 1..(m + 1) : i \in 1..m \/ i = m + 1
  OBVIOUS
<1>4. QED
  BY <1>2, <1>3

(* A text with the next fragment, and without it.                          *)
LEMMA NextText ==
  ASSUME IInv, arriving # 0, NEW fits \in BOOLEAN
  PROVE  /\ Text(appendBuffer) \in Texts
         /\ Appended(TRUE) \in Texts /\ Appended(TRUE) # NULL
         /\ Appended(fits) # NULL => Appended(fits) \in Texts
         /\ DOMAIN Text(appendBuffer) = 1..Len(Text(appendBuffer))
         /\ Len(Text(appendBuffer)) \in Nat
         /\ DOMAIN Appended(TRUE) = 1..(Len(Text(appendBuffer)) + 1)
         /\ \A i \in 1..Len(Text(appendBuffer)) :
              Appended(TRUE)[i] = Text(appendBuffer)[i]
         /\ Appended(TRUE)[Len(Text(appendBuffer)) + 1] = <<arriving, got + 1>>
<1>1. arriving \in Msgs /\ got + 1 \in 1..MaxFrags
  <2>1. /\ arriving \in 0..sent /\ sent \in 0..MaxMsgs /\ got \in 0..MaxFrags
        /\ got < size[arriving] /\ size \in [Msgs -> 0..MaxFrags]
    BY DEF IInv, TypeOK, FreshInv
  <2>2. arriving \in Msgs
    BY <2>1, InboundAssumption DEF Msgs
  <2>3. size[arriving] \in 0..MaxFrags
    BY <2>1, <2>2
  <2>4. QED
    BY <2>1, <2>2, <2>3, InboundAssumption
<1>2. Text(appendBuffer) \in Texts
  <2>1. appendBuffer # NULL => appendBuffer \in Texts
    BY DEF IInv, TypeOK, Texts
  <2>2. <<>> \in Texts
    BY EmptySeq DEF Texts
  <2>3. QED
    BY <2>1, <2>2 DEF Text
<1>3. NextFragment \in Msgs \X (1..MaxFrags)
  BY <1>1 DEF NextFragment
<1>4. Appended(TRUE) = Append(Text(appendBuffer), NextFragment)
  BY DEF Appended
<1>5. /\ Appended(TRUE) \in Texts
      /\ Len(Appended(TRUE)) = Len(Text(appendBuffer)) + 1
      /\ \A i \in 1..Len(Text(appendBuffer)) :
           Appended(TRUE)[i] = Text(appendBuffer)[i]
      /\ Appended(TRUE)[Len(Text(appendBuffer)) + 1] = NextFragment
  <2> DEFINE F == Msgs \X (1..MaxFrags)
  <2>1. Texts = Seq(F) /\ NextFragment \in F
    BY <1>3 DEF Texts
  <2> HIDE DEF F
  <2>2. \A s \in Seq(F), e \in F :
          /\ Append(s, e) \in Seq(F) /\ Len(Append(s, e)) = Len(s) + 1
          /\ \A i \in 1..Len(s) : Append(s, e)[i] = s[i]
          /\ Append(s, e)[Len(s) + 1] = e
    BY AppendProperties
  <2>3. Text(appendBuffer) \in Seq(F)
    BY <2>1, <1>2
  <2> DEFINE t == Text(appendBuffer)
             a == Append(t, NextFragment)
  <2>4. /\ a \in Seq(F) /\ Len(a) = Len(t) + 1
        /\ \A i \in 1..Len(t) : a[i] = t[i]
        /\ a[Len(t) + 1] = NextFragment
    <3> HIDE DEF t
    <3>1. t \in Seq(F)
      BY <2>3 DEF t
    <3>2. QED
      BY <3>1, <2>1, <2>2
  <2>5. Appended(TRUE) = a
    BY <1>4
  <2>6. QED
    BY <2>1, <2>4, <2>5
<1>6. Appended(TRUE) # NULL
  BY <1>5, NoText
<1>7. Appended(fits) # NULL => Appended(fits) \in Texts
  <2>1. CASE fits
    BY <2>1, <1>5 DEF Appended
  <2>2. CASE ~fits
    BY <2>2 DEF Appended, IInv, TypeOK, Texts
  <2>3. QED
    BY <2>1, <2>2
<1>8. /\ DOMAIN Text(appendBuffer) = 1..Len(Text(appendBuffer))
      /\ Len(Text(appendBuffer)) \in Nat
      /\ DOMAIN Appended(TRUE) = 1..(Len(Text(appendBuffer)) + 1)
  BY <1>2, <1>5, LenProperties DEF Texts
<1>9. QED
  BY <1>2, <1>5, <1>6, <1>7, <1>8 DEF NextFragment

(* The collected text continues as the message that is arriving.           *)
LEMMA TextContinues ==
  ASSUME IInv, arriving # 0, NEW fits \in BOOLEAN, NoteCut(fits)
  PROVE  /\ arriving \notin cut' =>
              fits /\ Appended(fits) = [k \in 1..(got + 1) |-> <<arriving, k>>]
         /\ Appended(fits) # NULL =>
              \A i \in DOMAIN Appended(fits) : Appended(fits)[i][1] = arriving
<1> DEFINE T == Text(appendBuffer)
<1>1. /\ DOMAIN T = 1..Len(T) /\ Len(T) \in Nat
      /\ Appended(TRUE) \in Texts
      /\ DOMAIN Appended(TRUE) = 1..(Len(T) + 1)
      /\ \A i \in 1..Len(T) : Appended(TRUE)[i] = T[i]
      /\ Appended(TRUE)[Len(T) + 1] = <<arriving, got + 1>>
  BY NextText
<1>2. got \in Nat
  BY InboundAssumption DEF IInv, TypeOK
<1>3. ASSUME arriving \notin cut'
      PROVE  fits /\ Appended(fits) = [k \in 1..(got + 1) |-> <<arriving, k>>]
  <2>1. fits /\ arriving \notin cut
    BY <1>3 DEF NoteCut
  <2>2. T = [k \in 1..got |-> <<arriving, k>>]
    BY <2>1 DEF IInv, TextInv
  <2>3. DOMAIN T = 1..got
    BY <2>2
  <2>4. Len(T) = got
    BY <1>1, <1>2, <2>3, OneMore
  <2>5. DOMAIN Appended(TRUE) = 1..(got + 1)
    BY <1>1, <2>4
  <2>6. \A k \in 1..(got + 1) : Appended(TRUE)[k] = <<arriving, k>>
    <3>1. TAKE k \in 1..(got + 1)
    <3>2. CASE k \in 1..got
      BY <3>2, <1>1, <2>2, <2>4
    <3>3. CASE k = got + 1
      BY <3>3, <1>1, <2>4
    <3>4. QED
      BY <3>2, <3>3, <1>2, OneMore
  <2>7. Appended(TRUE) = [k \in DOMAIN Appended(TRUE) |-> Appended(TRUE)[k]]
    BY <1>1, LenProperties DEF Texts
  <2>8. Appended(TRUE) = [k \in 1..(got + 1) |-> <<arriving, k>>]
    BY <2>5, <2>6, <2>7
  <2>9. QED
    BY <2>1, <2>8 DEF Appended
<1>4. ASSUME Appended(fits) # NULL, NEW i \in DOMAIN Appended(fits)
      PROVE  Appended(fits)[i][1] = arriving
  <2>1. appendBuffer # NULL =>
          \A k \in DOMAIN appendBuffer : appendBuffer[k][1] = arriving
    BY DEF IInv, TextIsArriving
  <2>2. \A k \in 1..Len(T) : T[k][1] = arriving
    <3>1. CASE appendBuffer = NULL
      BY <3>1, EmptySeq DEF Text
    <3>2. CASE appendBuffer # NULL
      BY <3>2, <2>1, <1>1 DEF Text
    <3>3. QED
      BY <3>1, <3>2
  <2>3. CASE fits
    <3>1. Appended(fits) = Appended(TRUE)
      BY <2>3 DEF Appended
    <3>2. CASE i \in 1..Len(T)
      BY <3>1, <3>2, <1>1, <2>2
    <3>3. CASE i = Len(T) + 1
      <4>1. Appended(fits)[i] = <<arriving, got + 1>>
        BY <3>1, <3>3, <1>1
      <4>2. QED
        BY <4>1
    <3>4. i \in 1..(Len(T) + 1)
      BY <3>1, <1>1, <1>4
    <3>5. QED
      BY <3>2, <3>3, <3>4, <1>1, OneMore
  <2>4. CASE ~fits
    BY <2>4, <1>4, <2>1 DEF Appended
  <2>5. QED
    BY <2>3, <2>4
<1>5. QED
  BY <1>3, <1>4

(* What the last fragment of a message leads to.                           *)
LEMMA Parsing ==
  ASSUME IInv, FinalFragment
  PROVE  \/ UNCHANGED <<parsed, heap, queue, refused>>
         \/ \E s \in Shapes :
              /\ arriving \notin cut' => s = shape[arriving]
              /\ parsed' = [parsed EXCEPT ![arriving] = s]
              /\ heap' = heap \cup {arriving}
              /\ \/ /\ Len(queue) < QueueSize
                    /\ queue' = Append(queue, arriving) /\ refused' = refused
                 \/ refused' = refused \cup {arriving} /\ queue' = queue
<1>1. PICK fits \in BOOLEAN :
        /\ NoteCut(fits)
        /\ \/ Appended(fits) # NULL /\ Received(Appended(fits), arriving)
           \/ Dropped
  BY DEF FinalFragment
<1>2. CASE Dropped
  BY <1>2 DEF Dropped
<1>3. CASE Received(Appended(fits), arriving)
  <2>1. PICK s \in Readings(Appended(fits), arriving) :
          /\ parsed' = [parsed EXCEPT ![arriving] = s]
          /\ heap' = heap \cup {arriving}
          /\ IF Len(queue) < QueueSize
               THEN queue' = Append(queue, arriving) /\ UNCHANGED refused
               ELSE refused' = refused \cup {arriving} /\ UNCHANGED queue
    BY <1>3 DEF Received
  <2>2. arriving # 0 /\ got + 1 = size[arriving] /\ shape[arriving] \in Shapes
    BY DEF FinalFragment, IInv, FreshInv
  <2>3. s \in Shapes
    BY <2>1, <2>2 DEF Readings
  <2>4. arriving \notin cut' => s = shape[arriving]
    <3>1. arriving \notin cut' =>
            Appended(fits) = [k \in 1..(got + 1) |-> <<arriving, k>>]
      BY <1>1, <2>2, TextContinues
    <3>2. arriving \notin cut' => IsWhole(Appended(fits), arriving)
      BY <3>1, <2>2 DEF IsWhole
    <3>3. QED
      BY <3>2, <2>1 DEF Readings
  <2>5. \/ /\ Len(queue) < QueueSize
           /\ queue' = Append(queue, arriving) /\ refused' = refused
        \/ refused' = refused \cup {arriving} /\ queue' = queue
    BY <2>1
  <2>6. QED
    BY <2>1, <2>3, <2>4, <2>5
<1>4. QED
  BY <1>1, <1>2, <1>3

(* The steps, as far as the text is concerned.                             *)
LEMMA Steps ==
  ASSUME [Next]_vars
  PROVE  \/ Connect \/ Send \/ Close \/ Fragment \/ FinalFragment
         \/ (\E w \in Workers : WorkerStep(w)) \/ UNCHANGED vars
BY DEF Next

LEMMA AsideSteps ==
  ASSUME (\E w \in Workers : WorkerStep(w)) \/ UNCHANGED vars
  PROVE  Aside /\ heap' \subseteq heap
<1>1. ASSUME NEW w \in Workers, WorkerStep(w)
      PROVE  Aside /\ heap' \subseteq heap
  <2>1. heap' \subseteq heap
    BY <1>1 DEF WorkerStep, Take, Ignore, Respond, RespondFails
  <2>2. QED
    BY <1>1, <2>1, WorkerAside
<1>2. CASE UNCHANGED vars
  BY <1>2 DEF Aside, vars, gatewayVars, textVars
<1>3. QED
  BY <1>1, <1>2

(* The types of what belongs to the gateway and to the text.               *)
TextType ==
  /\ up \in BOOLEAN /\ sent \in 0..MaxMsgs
  /\ shape \in [Msgs -> Shapes \cup {NULL}] /\ size \in [Msgs -> 0..MaxFrags]
  /\ arriving \in 0..sent /\ got \in 0..MaxFrags
  /\ appendBuffer # NULL => appendBuffer \in Texts
  /\ parsed \in [Msgs -> Shapes \cup {NULL}] /\ cut \subseteq Msgs

LEMMA Arriving ==
  ASSUME TextType, arriving # 0
  PROVE  arriving \in Msgs /\ size[arriving] \in 0..MaxFrags
<1>1. arriving \in Msgs
  BY InboundAssumption DEF TextType, Msgs
<1>2. QED
  BY <1>1 DEF TextType

LEMMA TextTypeKept ==
  ASSUME IInv, [Next]_vars
  PROVE  TextType'
<1> USE InboundAssumption
<1>0. TextType
  BY DEF IInv, TypeOK, TextType, Texts
<1>1. CASE Connect
  BY <1>0, <1>1 DEF Connect, TextType, textVars
<1>2. CASE Send
  <2>1. PICK s \in Shapes, k \in 1..MaxFrags :
          /\ shape' = [shape EXCEPT ![sent + 1] = s]
          /\ size' = [size EXCEPT ![sent + 1] = k]
    BY <1>2 DEF Send
  <2>2. /\ sent' = sent + 1 /\ arriving' = sent + 1 /\ got' = 0
        /\ sent \in Nat /\ sent < MaxMsgs
        /\ UNCHANGED <<up, appendBuffer, cut, parsed>>
    BY <1>0, <1>2 DEF Send, TextType
  <2>3. sent' \in 0..MaxMsgs /\ arriving' \in 0..sent' /\ got' \in 0..MaxFrags
    BY <2>2
  <2>4. shape' \in [Msgs -> Shapes \cup {NULL}]
    BY <1>0, <2>1 DEF TextType
  <2>5. size' \in [Msgs -> 0..MaxFrags]
    <3>1. k \in 0..MaxFrags
      OBVIOUS
    <3>2. QED
      BY <1>0, <2>1, <3>1 DEF TextType
  <2>6. QED
    BY <1>0, <2>2, <2>3, <2>4, <2>5 DEF TextType
<1>3. CASE Close
  <2>1. /\ UNCHANGED <<sent, shape, size, cut, parsed>> /\ up' = FALSE
        /\ arriving' = 0 /\ got' = 0 /\ appendBuffer' = NULL
    BY <1>3 DEF Close
  <2>2. 0 \in 0..sent /\ 0 \in 0..MaxFrags
    BY <1>0 DEF TextType
  <2>3. QED
    BY <1>0, <2>1, <2>2 DEF TextType
<1>4. CASE Fragment
  <2>1. PICK fits \in BOOLEAN : appendBuffer' = Appended(fits) /\ NoteCut(fits)
    BY <1>4 DEF Fragment
  <2>2. /\ arriving # 0 /\ got + 1 < size[arriving] /\ got' = got + 1
        /\ UNCHANGED <<up, sent, shape, size, arriving, parsed>>
    BY <1>4 DEF Fragment, gatewayVars
  <2>3. arriving \in Msgs /\ size[arriving] \in 0..MaxFrags
    BY <1>0, <2>2, Arriving
  <2>4. got \in Nat
    BY <1>0 DEF TextType
  <2>5. got' \in 0..MaxFrags
    BY <2>2, <2>3, <2>4
  <2>6. appendBuffer' # NULL => appendBuffer' \in Texts
    BY <2>1, <2>2, NextText
  <2>7. cut' \subseteq Msgs
    BY <1>0, <2>1, <2>3 DEF NoteCut, TextType
  <2>8. QED
    BY <1>0, <2>2, <2>5, <2>6, <2>7 DEF TextType
<1>5. CASE FinalFragment
  <2>1. PICK fits \in BOOLEAN : NoteCut(fits)
    BY <1>5 DEF FinalFragment
  <2>2. /\ arriving # 0 /\ UNCHANGED <<up, sent, shape, size>>
        /\ arriving' = 0 /\ got' = 0 /\ appendBuffer' = NULL
    BY <1>5 DEF FinalFragment, gatewayVars
  <2>3. arriving \in Msgs
    BY <1>0, <2>2, Arriving
  <2>4. cut' \subseteq Msgs
    BY <1>0, <2>1, <2>3 DEF NoteCut, TextType
  <2>5. parsed' \in [Msgs -> Shapes \cup {NULL}]
    BY <1>0, <1>5, Parsing DEF TextType
  <2>6. 0 \in 0..sent /\ 0 \in 0..MaxFrags
    BY <1>0 DEF TextType
  <2>7. QED
    BY <1>0, <2>2, <2>4, <2>5, <2>6 DEF TextType
<1>6. CASE (\E w \in Workers : WorkerStep(w)) \/ UNCHANGED vars
  <2>1. Aside
    BY <1>6, AsideSteps
  <2>2. QED
    BY <1>0, <2>1 DEF Aside, TextType, gatewayVars, textVars
<1>7. QED
  BY <1>1, <1>2, <1>3, <1>4, <1>5, <1>6, Steps

LEMMA FreshKept ==
  ASSUME IInv, [Next]_vars
  PROVE  FreshInv'
<1> USE InboundAssumption
<1>0. /\ TextType
      /\ arriving # 0 => /\ arriving = sent /\ got < size[arriving]
                         /\ shape[arriving] \in Shapes /\ parsed[arriving] = NULL
      /\ \A n \in Msgs : n > sent => parsed[n] = NULL
      /\ heap \subseteq Msgs /\ \A n \in heap : parsed[n] # NULL
  BY DEF IInv, TypeOK, TextType, Texts, FreshInv
<1>1. CASE Connect
  BY <1>0, <1>1 DEF Connect, FreshInv, textVars
<1>2. CASE Send
  <2>1. PICK s \in Shapes, k \in 1..MaxFrags :
          /\ shape' = [shape EXCEPT ![sent + 1] = s]
          /\ size' = [size EXCEPT ![sent + 1] = k]
    BY <1>2 DEF Send
  <2>2. /\ sent' = sent + 1 /\ arriving' = sent + 1 /\ got' = 0
        /\ sent \in Nat /\ sent < MaxMsgs /\ UNCHANGED <<parsed, heap>>
    BY <1>0, <1>2 DEF Send, TextType
  <2>3. sent + 1 \in Msgs /\ sent + 1 > sent
    BY <2>2 DEF Msgs
  <2>4. shape'[sent + 1] = s /\ size'[sent + 1] = k
    BY <1>0, <2>1, <2>3 DEF TextType
  <2>5. parsed'[sent + 1] = NULL
    BY <1>0, <2>2, <2>3
  <2>6. \A n \in Msgs : n > sent' => parsed'[n] = NULL
    BY <1>0, <2>2 DEF Msgs
  <2>7. got' < size'[arriving']
    BY <2>2, <2>4
  <2>8. QED
    BY <1>0, <2>1, <2>2, <2>4, <2>5, <2>6, <2>7 DEF FreshInv
<1>3. CASE Close
  <2>1. arriving' = 0 /\ UNCHANGED <<sent, parsed, heap>>
    BY <1>3 DEF Close
  <2>2. QED
    BY <1>0, <2>1 DEF FreshInv
<1>4. CASE Fragment
  <2>1. /\ arriving # 0 /\ got + 1 < size[arriving] /\ got' = got + 1
        /\ UNCHANGED <<sent, shape, size, arriving, parsed, heap>>
    BY <1>4 DEF Fragment, gatewayVars
  <2>2. QED
    BY <1>0, <2>1 DEF FreshInv
<1>5. CASE FinalFragment
  <2>1. arriving # 0 /\ arriving' = 0 /\ sent' = sent
    BY <1>5 DEF FinalFragment, gatewayVars
  <2>2. arriving \in Msgs /\ arriving = sent
    BY <1>0, <2>1, Arriving
  <2>3. CASE UNCHANGED <<parsed, heap, queue, refused>>
    BY <1>0, <2>1, <2>3 DEF FreshInv
  <2>4. ASSUME NEW s \in Shapes,
               parsed' = [parsed EXCEPT ![arriving] = s],
               heap' = heap \cup {arriving}
        PROVE  FreshInv'
    <3>1. \A n \in Msgs : parsed'[n] = IF n = arriving THEN s ELSE parsed[n]
      BY <1>0, <2>4 DEF TextType
    <3>2. \A n \in Msgs : n > sent' => parsed'[n] = NULL
      BY <1>0, <2>1, <2>2, <3>1 DEF Msgs
    <3>3. \A n \in heap' : parsed'[n] # NULL
      BY <1>0, <2>2, <2>4, <3>1, NoText
    <3>4. QED
      BY <2>1, <3>2, <3>3 DEF FreshInv
  <2>5. QED
    BY <2>3, <2>4, <1>5, Parsing
<1>6. CASE (\E w \in Workers : WorkerStep(w)) \/ UNCHANGED vars
  <2>1. Aside /\ heap' \subseteq heap
    BY <1>6, AsideSteps
  <2>2. QED
    BY <1>0, <2>1 DEF Aside, FreshInv, gatewayVars, textVars
<1>7. QED
  BY <1>1, <1>2, <1>3, <1>4, <1>5, <1>6, Steps

LEMMA TextKept ==
  ASSUME IInv, [Next]_vars
  PROVE  TextInv' /\ TextIsArriving'
<1> USE InboundAssumption
<1>0. /\ TextInv /\ TextIsArriving /\ TextType
  BY DEF IInv, TypeOK, TextType, Texts
<1>1. CASE Connect
  BY <1>0, <1>1 DEF Connect, TextInv, TextIsArriving, textVars, Text
<1>2. CASE Send
  <2>1. arriving = 0 /\ got' = 0 /\ arriving' = sent + 1 /\ appendBuffer' = appendBuffer
    BY <1>2 DEF Send
  <2>2. appendBuffer = NULL
    BY <1>0, <2>1 DEF TextIsArriving
  <2>3. Text(appendBuffer)' = <<>>
    BY <2>1, <2>2 DEF Text
  <2>4. [k \in 1..got' |-> <<arriving', k>>] = <<>>
    BY <2>1
  <2>5. QED
    BY <2>1, <2>2, <2>3, <2>4 DEF TextInv, TextIsArriving
<1>3. CASE Close
  BY <1>3 DEF Close, TextInv, TextIsArriving
<1>4. CASE Fragment
  <2>1. PICK fits \in BOOLEAN : appendBuffer' = Appended(fits) /\ NoteCut(fits)
    BY <1>4 DEF Fragment
  <2>2. arriving # 0 /\ got' = got + 1 /\ arriving' = arriving
    BY <1>4 DEF Fragment
  <2>3. /\ arriving \notin cut' =>
             fits /\ Appended(fits) = [k \in 1..(got + 1) |-> <<arriving, k>>]
        /\ Appended(fits) # NULL =>
             \A i \in DOMAIN Appended(fits) : Appended(fits)[i][1] = arriving
    BY <2>1, <2>2, TextContinues
  <2>4. fits => Appended(fits) # NULL
    BY <2>2, NextText
  <2>5. TextInv'
    <3>1. ASSUME arriving' # 0, arriving' \notin cut'
          PROVE  Text(appendBuffer)' = [k \in 1..got' |-> <<arriving', k>>]
      BY <2>1, <2>2, <2>3, <2>4, <3>1 DEF Text
    <3>2. QED
      BY <3>1 DEF TextInv
  <2>6. TextIsArriving'
    BY <2>1, <2>2, <2>3 DEF TextIsArriving
  <2>7. QED
    BY <2>5, <2>6
<1>5. CASE FinalFragment
  BY <1>5 DEF FinalFragment, TextInv, TextIsArriving
<1>6. CASE (\E w \in Workers : WorkerStep(w)) \/ UNCHANGED vars
  <2>1. Aside
    BY <1>6, AsideSteps
  <2>2. QED
    BY <1>0, <2>1 DEF Aside, TextInv, TextIsArriving, Text, textVars
<1>7. QED
  BY <1>1, <1>2, <1>3, <1>4, <1>5, <1>6, Steps

LEMMA SeenKept ==
  ASSUME IInv, [Next]_vars
  PROVE  SeenAsSent'
<1> USE InboundAssumption
<1>0. /\ TextType /\ SeenAsSent
      /\ \A n \in Msgs : n > sent => parsed[n] = NULL
      /\ arriving # 0 => parsed[arriving] = NULL
  BY DEF IInv, TypeOK, TextType, Texts, FreshInv
<1>1. CASE Connect \/ Close
  BY <1>0, <1>1 DEF Connect, Close, SeenAsSent, textVars
<1>2. CASE Send
  <2>1. PICK s \in Shapes : shape' = [shape EXCEPT ![sent + 1] = s]
    BY <1>2 DEF Send
  <2>2. UNCHANGED <<parsed, cut>> /\ sent \in Nat /\ sent < MaxMsgs
    BY <1>0, <1>2 DEF Send, TextType
  <2>3. parsed[sent + 1] = NULL
    BY <1>0, <2>2 DEF Msgs
  <2>4. \A n \in Msgs : n # sent + 1 => shape'[n] = shape[n]
    BY <1>0, <2>1 DEF TextType
  <2>5. QED
    BY <1>0, <2>2, <2>3, <2>4 DEF SeenAsSent
<1>4. CASE Fragment
  <2>1. UNCHANGED <<parsed, shape>> /\ \E fits \in BOOLEAN : NoteCut(fits)
    BY <1>4 DEF Fragment, gatewayVars
  <2>2. cut \subseteq cut'
    BY <2>1 DEF NoteCut
  <2>3. QED
    BY <1>0, <2>1, <2>2 DEF SeenAsSent
<1>5. CASE FinalFragment
  <2>1. arriving # 0 /\ shape' = shape /\ \E fits \in BOOLEAN : NoteCut(fits)
    BY <1>5 DEF FinalFragment, gatewayVars
  <2>2. cut \subseteq cut'
    BY <2>1 DEF NoteCut
  <2>3. CASE UNCHANGED <<parsed, heap, queue, refused>>
    BY <1>0, <2>1, <2>2, <2>3 DEF SeenAsSent
  <2>4. ASSUME NEW s \in Shapes,
               arriving \notin cut' => s = shape[arriving],
               parsed' = [parsed EXCEPT ![arriving] = s]
        PROVE  SeenAsSent'
    <3>1. \A n \in Msgs : parsed'[n] = IF n = arriving THEN s ELSE parsed[n]
      BY <1>0, <2>4 DEF TextType
    <3>2. QED
      BY <1>0, <2>1, <2>2, <2>4, <3>1 DEF SeenAsSent
  <2>5. QED
    BY <2>3, <2>4, <1>5, Parsing
<1>6. CASE (\E w \in Workers : WorkerStep(w)) \/ UNCHANGED vars
  <2>1. Aside
    BY <1>6, AsideSteps
  <2>2. QED
    BY <1>0, <2>1 DEF Aside, SeenAsSent, gatewayVars, textVars
<1>7. QED
  BY <1>1, <1>2, <1>4, <1>5, <1>6, Steps

-----------------------------------------------------------------------------
(* What is allocated, and who has it.                                      *)

PoolType ==
  /\ heap \subseteq Msgs /\ refused \subseteq Msgs
  /\ queue \in Seq(Msgs) /\ Len(queue) <= QueueSize
  /\ doing \in [Workers -> Msgs \cup {0}]

(* A worker has dealt with a message.                                      *)
Ends(w) ==
  /\ doing[w] # 0
  /\ doing' = [doing EXCEPT ![w] = 0]
  /\ heap' = heap \ {doing[w]}
  /\ UNCHANGED <<queue, refused, parsed>>

LEMMA PoolSteps ==
  ASSUME [Next]_vars
  PROVE  \/ UNCHANGED <<heap, refused, queue, doing, parsed>>
         \/ FinalFragment
         \/ \E w \in Workers : Take(w) \/ Ends(w)
<1>1. CASE Connect \/ Send \/ Close \/ Fragment \/ UNCHANGED vars
  BY <1>1 DEF Connect, Send, Close, Fragment, vars, poolVars
<1>2. ASSUME NEW w \in Workers, WorkerStep(w)
      PROVE  Take(w) \/ Ends(w)
  BY <1>2 DEF WorkerStep, Ignore, Respond, RespondFails, Ends
<1>3. QED
  BY <1>1, <1>2, Steps

LEMMA AccountedKept ==
  ASSUME IInv, [Next]_vars
  PROVE  MessagesAccounted' /\ PoolType'
<1> USE InboundAssumption
<1>0. /\ PoolType /\ TextType /\ MessagesAccounted
      /\ \A n \in heap : parsed[n] # NULL
      /\ arriving # 0 => parsed[arriving] = NULL
  BY DEF IInv, TypeOK, PoolType, TextType, Texts, FreshInv
<1>a. 0 \notin Msgs
  BY DEF Msgs
<1>b. /\ heap = Queued \cup Running \cup refused
      /\ Queued \cap Running = {} /\ refused \cap (Queued \cup Running) = {}
      /\ IsInjective(queue)
      /\ \A v, w \in Workers : v # w /\ doing[v] # 0 => doing[v] # doing[w]
  BY <1>0 DEF MessagesAccounted
<1>1. CASE UNCHANGED <<heap, refused, queue, doing, parsed>>
  BY <1>0, <1>1 DEF PoolType, MessagesAccounted, Queued, Running
<1>2. CASE FinalFragment
  <2>1. arriving # 0 /\ doing' = doing
    BY <1>2 DEF FinalFragment
  <2>2. arriving \in Msgs /\ arriving \notin heap
    BY <1>0, <2>1, Arriving
  <2>3. CASE UNCHANGED <<parsed, heap, queue, refused>>
    BY <1>0, <2>1, <2>3 DEF PoolType, MessagesAccounted, Queued, Running
  <2>4. CASE /\ heap' = heap \cup {arriving} /\ Len(queue) < QueueSize
             /\ queue' = Append(queue, arriving) /\ refused' = refused
    <3>1. arriving \notin Queued
      BY <1>b, <2>2
    <3>2. /\ Range(queue') = Range(queue) \cup {arriving}
          /\ IsInjective(queue')
      BY <1>0, <1>b, <2>2, <2>4, <3>1, Added DEF PoolType, Queued
    <3>3. Queued' = Queued \cup {arriving} /\ Running' = Running
      BY <2>1, <3>2 DEF Queued, Running
    <3>4. MessagesAccounted'
      BY <1>b, <2>1, <2>2, <2>4, <3>2, <3>3 DEF MessagesAccounted
    <3>5. queue' \in Seq(Msgs) /\ Len(queue') = Len(queue) + 1
      BY <1>0, <2>2, <2>4, AppendProperties DEF PoolType
    <3>6. Len(queue') <= QueueSize
      BY <1>0, <2>4, <3>5, LenProperties DEF PoolType
    <3>7. QED
      BY <1>0, <2>1, <2>2, <2>4, <3>4, <3>5, <3>6 DEF PoolType
  <2>5. CASE /\ heap' = heap \cup {arriving}
             /\ refused' = refused \cup {arriving} /\ queue' = queue
    <3>1. Queued' = Queued /\ Running' = Running
      BY <2>1, <2>5 DEF Queued, Running
    <3>2. MessagesAccounted'
      BY <1>b, <2>1, <2>2, <2>5, <3>1 DEF MessagesAccounted
    <3>3. QED
      BY <1>0, <2>1, <2>2, <2>5, <3>2 DEF PoolType
  <2>6. QED
    BY <2>3, <2>4, <2>5, <1>2, Parsing
<1>3. ASSUME NEW w \in Workers, Take(w)
      PROVE  MessagesAccounted' /\ PoolType'
  <2>1. /\ doing[w] = 0 /\ queue # <<>>
        /\ doing' = [doing EXCEPT ![w] = Head(queue)] /\ queue' = Tail(queue)
        /\ UNCHANGED <<heap, refused>>
    BY <1>3 DEF Take
  <2>2. /\ Head(queue) \in Msgs /\ queue' \in Seq(Msgs)
        /\ Len(queue') = Len(queue) - 1 /\ Head(queue) \in Range(queue)
        /\ Range(queue') = Range(queue) \ {Head(queue)}
        /\ IsInjective(queue')
    BY <1>0, <1>b, <2>1, Removed DEF PoolType
  <2>3. \A v \in Workers : doing'[v] = IF v = w THEN Head(queue) ELSE doing[v]
    BY <1>0, <2>1 DEF PoolType
  <2>4. Queued' = Queued \ {Head(queue)} /\ Head(queue) \in Queued
    BY <2>2 DEF Queued
  <2>5. Running' = Running \cup {Head(queue)}
    BY <2>1, <2>2, <2>3, <1>a DEF Running
  <2>6. \A v \in Workers : doing[v] # Head(queue)
    BY <1>a, <1>b, <2>2, <2>4 DEF Running
  <2>7. \A u, v \in Workers : u # v /\ doing'[u] # 0 => doing'[u] # doing'[v]
    BY <1>b, <2>3, <2>6
  <2>8. MessagesAccounted'
    BY <1>b, <2>1, <2>2, <2>4, <2>5, <2>7 DEF MessagesAccounted
  <2>9. Len(queue') <= QueueSize
    BY <1>0, <2>2, LenProperties DEF PoolType
  <2>10. doing' \in [Workers -> Msgs \cup {0}]
    BY <1>0, <2>1, <2>2 DEF PoolType
  <2>11. QED
    BY <1>0, <2>1, <2>2, <2>8, <2>9, <2>10 DEF PoolType
<1>4. ASSUME NEW w \in Workers, Ends(w)
      PROVE  MessagesAccounted' /\ PoolType'
  <2>1. /\ doing[w] # 0 /\ doing' = [doing EXCEPT ![w] = 0]
        /\ heap' = heap \ {doing[w]} /\ UNCHANGED <<queue, refused>>
    BY <1>4 DEF Ends
  <2>2. \A v \in Workers : doing'[v] = IF v = w THEN 0 ELSE doing[v]
    BY <1>0, <2>1 DEF PoolType
  <2>3. Queued' = Queued
    BY <2>1 DEF Queued
  <2>4. doing[w] \in Running
    BY <2>1 DEF Running
  <2>5. Running' = Running \ {doing[w]}
    <3>1. ASSUME NEW x \in Running'
          PROVE  x \in Running \ {doing[w]}
      <4>1. PICK v \in Workers : x = doing'[v] /\ x # 0
        BY <3>1 DEF Running
      <4>2. v # w /\ x = doing[v]
        BY <4>1, <2>2
      <4>3. QED
        BY <4>1, <4>2, <1>b DEF Running
    <3>2. ASSUME NEW x \in Running, x # doing[w]
          PROVE  x \in Running'
      <4>1. PICK v \in Workers : x = doing[v] /\ x # 0
        BY <3>2 DEF Running
      <4>2. x = doing'[v]
        BY <4>1, <3>2, <2>2
      <4>3. QED
        BY <4>1, <4>2 DEF Running
    <3>3. QED
      BY <3>1, <3>2
  <2>6. \A u, v \in Workers : u # v /\ doing'[u] # 0 => doing'[u] # doing'[v]
    BY <1>b, <2>2
  <2>7. MessagesAccounted'
    BY <1>b, <2>1, <2>3, <2>4, <2>5, <2>6 DEF MessagesAccounted
  <2>8. QED
    BY <1>0, <2>1, <2>7 DEF PoolType
<1>5. QED
  BY <1>1, <1>2, <1>3, <1>4, PoolSteps

-----------------------------------------------------------------------------
(* What the application and the gateway are given.                         *)

Call == [to : Msgs]

Response == [to : Msgs, messageId : 0..IntMax]

OutType == calls \in Seq(Call) /\ responses \in Seq(Response) /\ failed \subseteq Msgs

(* One more output.                                                        *)
LEMMA OneOut ==
  ASSUME NEW E, NEW out \in Seq(E), NEW e \in E
  PROVE  /\ Append(out, e) \in Seq(E)
         /\ Targets(Append(out, e)) = Targets(out) \cup {e.to}
         /\ Once(out) /\ e.to \notin Targets(out) => Once(Append(out, e))
         /\ \A i \in DOMAIN Append(out, e) :
              Append(out, e)[i] = e \/ (i \in DOMAIN out /\ Append(out, e)[i] = out[i])
<1> DEFINE a == Append(out, e)
<1>1. /\ a \in Seq(E) /\ Len(a) = Len(out) + 1
      /\ \A i \in 1..Len(out) : a[i] = out[i]
      /\ a[Len(out) + 1] = e
  BY AppendProperties
<1>2. /\ Len(out) \in Nat
      /\ DOMAIN out = 1..Len(out) /\ DOMAIN a = 1..(Len(out) + 1)
  BY <1>1, LenProperties
<1> HIDE DEF a
<1>3. \A i \in DOMAIN a : (i = Len(out) + 1 /\ a[i] = e) \/ (i \in DOMAIN out /\ a[i] = out[i])
  BY <1>1, <1>2, OneMore
<1>4. Len(out) + 1 \in DOMAIN a /\ \A i \in DOMAIN out : i \in DOMAIN a
  BY <1>2
<1>5. Targets(a) = Targets(out) \cup {e.to}
  <2>1. ASSUME NEW x \in Targets(a)
        PROVE  x \in Targets(out) \cup {e.to}
    <3>1. PICK i \in DOMAIN a : x = a[i].to
      BY <2>1 DEF Targets
    <3>2. QED
      BY <3>1, <1>3 DEF Targets
  <2>2. ASSUME NEW x \in Targets(out)
        PROVE  x \in Targets(a)
    <3>1. PICK i \in DOMAIN out : x = out[i].to
      BY <2>2 DEF Targets
    <3>2. a[i] = out[i] /\ i \in DOMAIN a
      BY <3>1, <1>1, <1>2, <1>4
    <3>3. QED
      BY <3>1, <3>2 DEF Targets
  <2>3. e.to \in Targets(a)
    BY <1>1, <1>4 DEF Targets
  <2>4. QED
    BY <2>1, <2>2, <2>3
<1>6. ASSUME Once(out), e.to \notin Targets(out)
      PROVE  Once(a)
  <2>1. ASSUME NEW i \in DOMAIN a, NEW j \in DOMAIN a, a[i].to = a[j].to
        PROVE  i = j
    <3>1. CASE i \in DOMAIN out /\ j \in DOMAIN out
      <4>1. a[i] = out[i] /\ a[j] = out[j]
        BY <3>1, <1>1, <1>2
      <4>2. QED
        BY <4>1, <3>1, <2>1, <1>6 DEF Once
    <3>2. CASE i \in DOMAIN out /\ j = Len(out) + 1
      <4>1. a[i] = out[i] /\ a[j] = e
        BY <3>2, <1>1, <1>2
      <4>2. QED
        BY <4>1, <3>2, <2>1, <1>6 DEF Targets
    <3>3. CASE j \in DOMAIN out /\ i = Len(out) + 1
      <4>1. a[j] = out[j] /\ a[i] = e
        BY <3>3, <1>1, <1>2
      <4>2. QED
        BY <4>1, <3>3, <2>1, <1>6 DEF Targets
    <3>4. QED
      BY <3>1, <3>2, <3>3, <1>3
  <2>2. QED
    BY <2>1 DEF Once
<1>7. QED
  BY <1>1, <1>3, <1>5, <1>6 DEF a

(* A step that handles no message and gives nothing out.                   *)
LEMMA StillDue ==
  ASSUME ResponsesAreDue, UNCHANGED outVars, Handled' = Handled,
         \A n \in Handled : parsed'[n] = parsed[n]
  PROVE  ResponsesAreDue'
<1>1. /\ Once(calls)' /\ Once(responses)'
      /\ Targets(calls)' = Targets(calls) /\ Targets(responses)' = Targets(responses)
  BY DEF ResponsesAreDue, outVars, Once, Targets
<1>2. {n \in Handled : Serves(parsed[n])}' = {n \in Handled : Serves(parsed[n])}
  BY DEF Serves
<1>3. \A i \in DOMAIN responses : responses[i].to \in Handled
  BY DEF ResponsesAreDue, Targets
<1>4. \A i \in DOMAIN responses' :
        LET n == responses'[i].to
        IN /\ parsed'[n].messageId <= IntMax =>
                responses'[i].messageId = parsed'[n].messageId
           /\ parsed'[n].method \in Hooks => n \in Targets(calls)
  BY <1>3 DEF ResponsesAreDue, outVars
<1>5. \A n \in Handled' \ failed' : Serves(parsed'[n]) => n \in Targets(responses)
  BY DEF ResponsesAreDue, outVars
<1>6. QED
  BY <1>1, <1>2, <1>4, <1>5 DEF ResponsesAreDue, outVars

(* A message that a worker is done with is handled then, and not before.   *)
LEMMA HandledNow ==
  ASSUME IInv, NEW w \in Workers, Ends(w)
  PROVE  /\ doing[w] \in Msgs /\ parsed[doing[w]] \in Shapes
         /\ doing[w] \notin Handled /\ Handled' = Handled \cup {doing[w]}
<1>1. /\ heap = Queued \cup Running \cup refused
      /\ refused \cap (Queued \cup Running) = {}
      /\ \A n \in heap : parsed[n] # NULL
      /\ doing \in [Workers -> Msgs \cup {0}]
      /\ parsed \in [Msgs -> Shapes \cup {NULL}]
  BY DEF IInv, TypeOK, MessagesAccounted, FreshInv
<1>2. doing[w] \in Msgs /\ doing[w] \in Running
  BY <1>1 DEF Ends, Running
<1>3. doing[w] \in heap /\ doing[w] \notin refused
  BY <1>1, <1>2
<1>4. parsed[doing[w]] # NULL
  BY <1>1, <1>3
<1>5. Handled' = Handled \cup {doing[w]}
  BY <1>2, <1>3, <1>4 DEF Ends, Handled
<1>6. QED
  BY <1>1, <1>2, <1>3, <1>4, <1>5 DEF Handled

(* A request that is served: the types of what is given out for it.        *)
LEMMA ServedTypes ==
  ASSUME IInv, NEW w \in Workers, Ends(w), Serves(parsed[doing[w]])
  PROVE  /\ [to |-> doing[w]] \in Call
         /\ [to |-> doing[w], messageId |-> ValueInt(parsed[doing[w]].messageId)]
              \in Response
<1>1. doing[w] \in Msgs /\ parsed[doing[w]] \in Shape
  BY HandledNow, InboundAssumption
<1>2. /\ parsed[doing[w]].method \in Methods
      /\ parsed[doing[w]].messageId \in Nat
  BY <1>1 DEF Serves, IsMethod, Shape
<1>3. ValueInt(parsed[doing[w]].messageId) \in 0..IntMax
  BY <1>2, InboundAssumption DEF ValueInt
<1>4. QED
  BY <1>1, <1>2, <1>3 DEF Call, Response

(* The calls after the call for a request, or without one.                 *)
LEMMA CalledMore ==
  ASSUME IInv, OutType, NEW w \in Workers, Ends(w), Serves(parsed[doing[w]]),
         doing[w] \notin Targets(calls)
  PROVE  /\ Called(doing[w]) \in Seq(Call) /\ Once(Called(doing[w]))
         /\ Targets(calls) \subseteq Targets(Called(doing[w]))
         /\ Targets(Called(doing[w])) \subseteq Targets(calls) \cup {doing[w]}
         /\ parsed[doing[w]].method \in Hooks =>
              doing[w] \in Targets(Called(doing[w]))
<1>1. Once(calls) /\ calls \in Seq(Call)
  BY DEF IInv, ResponsesAreDue, OutType
<1> DEFINE c == [to |-> doing[w]]
<1>2. c \in Call /\ c.to = doing[w]
  BY ServedTypes
<1>3. CASE parsed[doing[w]].method \in Hooks
  <2>1. Called(doing[w]) = Append(calls, c)
    BY <1>3 DEF Called
  <2> HIDE DEF c
  <2>2. /\ Append(calls, c) \in Seq(Call)
        /\ Targets(Append(calls, c)) = Targets(calls) \cup {c.to}
        /\ Once(Append(calls, c))
    BY <1>1, <1>2, OneOut
  <2>3. QED
    BY <1>2, <2>1, <2>2
<1>4. CASE parsed[doing[w]].method \notin Hooks
  BY <1>1, <1>4 DEF Called
<1>5. QED
  BY <1>3, <1>4

(* A message for which there is nothing to do.                             *)
LEMMA IgnoredDue ==
  ASSUME IInv, NEW w \in Workers, Ignore(w)
  PROVE  ResponsesAreDue'
<1> DEFINE n == doing[w]
<1>1. /\ Ends(w) /\ ~Serves(parsed[n]) /\ parsed' = parsed /\ UNCHANGED outVars
  BY DEF Ignore, Ends
<1>2. Handled' = Handled \cup {n} /\ n \notin Handled
  BY <1>1, HandledNow
<1> HIDE DEF n
<1>3. ResponsesAreDue
  BY DEF IInv
<1>4. /\ Once(calls)' /\ Once(responses)'
      /\ Targets(calls)' = Targets(calls) /\ Targets(responses)' = Targets(responses)
  BY <1>1, <1>3 DEF ResponsesAreDue, outVars, Once, Targets
<1>5. {m \in Handled' : Serves(parsed'[m])} = {m \in Handled : Serves(parsed[m])}
  BY <1>1, <1>2
<1>6. \A i \in DOMAIN responses' :
        LET m == responses'[i].to
        IN /\ parsed'[m].messageId <= IntMax =>
                responses'[i].messageId = parsed'[m].messageId
           /\ parsed'[m].method \in Hooks => m \in Targets(calls)
  BY <1>1, <1>3 DEF ResponsesAreDue, outVars
<1>7. \A m \in Handled' \ failed' : Serves(parsed'[m]) => m \in Targets(responses)
  BY <1>1, <1>2, <1>3 DEF ResponsesAreDue, outVars
<1>8. QED
  BY <1>3, <1>4, <1>5, <1>6, <1>7 DEF ResponsesAreDue

(* A request that is answered.                                             *)
LEMMA RespondedDue ==
  ASSUME IInv, OutType, NEW w \in Workers, Respond(w)
  PROVE  ResponsesAreDue' /\ OutType'
<1> DEFINE n == doing[w]
           r == [to |-> n, messageId |-> ValueInt(parsed[n].messageId)]
<1>1. /\ Ends(w) /\ Serves(parsed[n]) /\ parsed' = parsed /\ failed' = failed
      /\ calls' = Called(n) /\ responses' = Append(responses, r)
  BY DEF Respond, Ends
<1>2. Handled' = Handled \cup {n} /\ n \notin Handled /\ n \in Msgs
  BY <1>1, HandledNow
<1>3. ResponsesAreDue
  BY DEF IInv
<1>4. n \notin Targets(calls) /\ n \notin Targets(responses)
  BY <1>2, <1>3 DEF ResponsesAreDue
<1>5. /\ calls' \in Seq(Call) /\ Once(calls')
      /\ Targets(calls) \subseteq Targets(calls')
      /\ Targets(calls') \subseteq Targets(calls) \cup {n}
      /\ parsed[n].method \in Hooks => n \in Targets(calls')
  BY <1>1, <1>4, CalledMore
<1>6. /\ r \in Response /\ r.to = n
      /\ parsed[n].messageId <= IntMax => r.messageId = parsed[n].messageId
  <2>1. parsed[n].messageId \in Nat
    BY <1>1, HandledNow, InboundAssumption DEF Serves, IsMethod, Shape
  <2>2. parsed[n].messageId <= IntMax =>
          ValueInt(parsed[n].messageId) = parsed[n].messageId
    BY <2>1, InboundAssumption DEF ValueInt
  <2>3. r \in Response
    BY <1>1, ServedTypes
  <2>4. QED
    BY <2>2, <2>3
<1> HIDE DEF n, r
<1>7. /\ responses' \in Seq(Response) /\ Once(responses')
      /\ Targets(responses') = Targets(responses) \cup {n}
      /\ \A i \in DOMAIN responses' :
           responses'[i] = r \/ (i \in DOMAIN responses /\ responses'[i] = responses[i])
  <2>1. responses \in Seq(Response) /\ Once(responses)
    BY <1>3 DEF OutType, ResponsesAreDue
  <2>2. QED
    BY <2>1, <1>1, <1>4, <1>6, OneOut
<1>8. Targets(calls') \cup Targets(responses') \subseteq
        {m \in Handled' : Serves(parsed'[m])}
  BY <1>1, <1>2, <1>3, <1>5, <1>7 DEF ResponsesAreDue, n
<1>9. ASSUME NEW i \in DOMAIN responses'
      PROVE  LET m == responses'[i].to
             IN /\ parsed'[m].messageId <= IntMax =>
                     responses'[i].messageId = parsed'[m].messageId
                /\ parsed'[m].method \in Hooks => m \in Targets(calls')
  <2>1. CASE responses'[i] = r
    BY <2>1, <1>1, <1>5, <1>6
  <2>2. CASE i \in DOMAIN responses /\ responses'[i] = responses[i]
    BY <2>2, <1>1, <1>3, <1>5 DEF ResponsesAreDue
  <2>3. QED
    BY <2>1, <2>2, <1>7
<1>10. \A m \in Handled' \ failed' : Serves(parsed'[m]) => m \in Targets(responses')
  BY <1>1, <1>2, <1>3, <1>7 DEF ResponsesAreDue
<1>11. OutType'
  BY <1>1, <1>5, <1>7 DEF OutType
<1>12. Once(calls)' /\ Once(responses)'
  BY <1>5, <1>7 DEF Once
<1>13. ResponsesAreDue'
  <2>1. Targets(calls)' = Targets(calls') /\ Targets(responses)' = Targets(responses')
    BY DEF Targets
  <2>2. QED
    BY <1>5, <1>8, <1>9, <1>10, <1>12, <2>1 DEF ResponsesAreDue
<1>14. QED
  BY <1>11, <1>13

(* A request whose response cannot be made.                                *)
LEMMA FailedDue ==
  ASSUME IInv, OutType, NEW w \in Workers, RespondFails(w)
  PROVE  ResponsesAreDue' /\ OutType'
<1> DEFINE n == doing[w]
<1>1. /\ Ends(w) /\ Serves(parsed[n]) /\ parsed' = parsed
      /\ calls' = Called(n) \/ calls' = calls
      /\ responses' = responses /\ failed' = failed \cup {n}
  BY DEF RespondFails, Ends
<1>2. Handled' = Handled \cup {n} /\ n \notin Handled /\ n \in Msgs
  BY <1>1, HandledNow
<1>3. ResponsesAreDue
  BY DEF IInv
<1>4. n \notin Targets(calls)
  BY <1>2, <1>3 DEF ResponsesAreDue
<1>5. /\ calls' \in Seq(Call) /\ Once(calls')
      /\ Targets(calls) \subseteq Targets(calls')
      /\ Targets(calls') \subseteq Targets(calls) \cup {n}
  <2>1. CASE calls' = Called(n)
    BY <2>1, <1>1, <1>4, CalledMore
  <2>2. CASE calls' = calls
    BY <2>2, <1>1, <1>3 DEF OutType, ResponsesAreDue
  <2>3. QED
    BY <2>1, <2>2, <1>1
<1> HIDE DEF n
<1>6. Once(calls)' /\ Once(responses)'
  BY <1>1, <1>3, <1>5 DEF ResponsesAreDue, Once
<1>7. Targets(calls)' = Targets(calls') /\ Targets(responses)' = Targets(responses)
  BY <1>1 DEF Targets
<1>8. Targets(calls') \cup Targets(responses) \subseteq
        {m \in Handled' : Serves(parsed'[m])}
  BY <1>1, <1>2, <1>3, <1>5 DEF ResponsesAreDue, n
<1>9. \A i \in DOMAIN responses' :
        LET m == responses'[i].to
        IN /\ parsed'[m].messageId <= IntMax =>
                responses'[i].messageId = parsed'[m].messageId
           /\ parsed'[m].method \in Hooks => m \in Targets(calls')
  BY <1>1, <1>3, <1>5 DEF ResponsesAreDue
<1>10. \A m \in Handled' \ failed' : Serves(parsed'[m]) => m \in Targets(responses)
  BY <1>1, <1>2, <1>3 DEF ResponsesAreDue
<1>11. ResponsesAreDue'
  BY <1>5, <1>6, <1>7, <1>8, <1>9, <1>10 DEF ResponsesAreDue
<1>12. OutType'
  BY <1>1, <1>2, <1>5 DEF OutType
<1>13. QED
  BY <1>11, <1>12

LEMMA DueKept ==
  ASSUME IInv, [Next]_vars
  PROVE  ResponsesAreDue' /\ OutType'
<1>0. OutType /\ ResponsesAreDue
  BY DEF IInv, TypeOK, OutType, Call, Response
<1>1. ASSUME UNCHANGED <<parsed, heap, refused, outVars>>
      PROVE  ResponsesAreDue' /\ OutType'
  <2>1. Handled' = Handled
    BY <1>1 DEF Handled
  <2>2. ResponsesAreDue'
    BY <1>0, <1>1, <2>1, StillDue
  <2>3. QED
    BY <1>0, <1>1, <2>2 DEF OutType, outVars
<1>2. CASE Connect \/ Send \/ Close \/ Fragment \/ UNCHANGED vars
  <2>1. UNCHANGED <<parsed, heap, refused, outVars>>
    BY <1>2 DEF Connect, Send, Close, Fragment, vars, outVars
  <2>2. QED
    BY <1>1, <2>1
<1>3. CASE FinalFragment
  <2>1. UNCHANGED outVars /\ arriving # 0
    BY <1>3 DEF FinalFragment
  <2>2. /\ parsed \in [Msgs -> Shapes \cup {NULL}]
        /\ parsed[arriving] = NULL /\ heap \subseteq Msgs
    BY <2>1 DEF IInv, TypeOK, FreshInv
  <2>3. CASE UNCHANGED <<parsed, heap, queue, refused>>
    BY <1>1, <2>1, <2>3
  <2>4. ASSUME NEW s \in Shapes,
               parsed' = [parsed EXCEPT ![arriving] = s],
               heap' = heap \cup {arriving},
               refused' = refused \/ refused' = refused \cup {arriving}
        PROVE  ResponsesAreDue' /\ OutType'
    <3>1. \A n \in Msgs : parsed'[n] = IF n = arriving THEN s ELSE parsed[n]
      BY <2>2, <2>4
    <3>2. Handled' = Handled
      BY <2>2, <2>4, <3>1 DEF Handled
    <3>3. \A n \in Handled : parsed'[n] = parsed[n]
      BY <2>2, <3>1 DEF Handled
    <3>4. ResponsesAreDue'
      BY <1>0, <2>1, <3>2, <3>3, StillDue
    <3>5. QED
      BY <1>0, <2>1, <3>4 DEF OutType, outVars
  <2>5. QED
    BY <2>3, <2>4, <1>3, Parsing
<1>4. ASSUME NEW w \in Workers, WorkerStep(w)
      PROVE  ResponsesAreDue' /\ OutType'
  <2>1. CASE Take(w)
    BY <1>1, <2>1 DEF Take
  <2>2. CASE Ignore(w)
    <3>1. ResponsesAreDue' /\ UNCHANGED outVars
      BY <2>2, IgnoredDue DEF Ignore
    <3>2. QED
      BY <1>0, <3>1 DEF OutType, outVars
  <2>3. CASE Respond(w)
    BY <1>0, <2>3, RespondedDue
  <2>4. CASE RespondFails(w)
    BY <1>0, <2>4, FailedDue
  <2>5. QED
    BY <1>4, <2>1, <2>2, <2>3, <2>4 DEF WorkerStep
<1>5. QED
  BY <1>2, <1>3, <1>4, Steps

-----------------------------------------------------------------------------
(* The theorems.                                                           *)

LEMMA InitInv ==
  ASSUME Init
  PROVE  IInv
<1> USE InboundAssumption DEF Init
<1>1. TypeOK
  <2>1. TextType
    <3>1. up \in BOOLEAN
      OBVIOUS
    <3>2. sent \in 0..MaxMsgs /\ arriving \in 0..sent /\ got \in 0..MaxFrags
      OBVIOUS
    <3>3. /\ shape \in [Msgs -> Shapes \cup {NULL}]
          /\ parsed \in [Msgs -> Shapes \cup {NULL}]
      OBVIOUS
    <3>4. size \in [Msgs -> 0..MaxFrags]
      OBVIOUS
    <3>5. QED
      BY <3>1, <3>2, <3>3, <3>4 DEF TextType
  <2>2. \A S : <<>> \in Seq(S)
    BY EmptySeq
  <2>3. Len(queue) = 0
    BY EmptySeq
  <2>4. PoolType
    BY <2>2, <2>3 DEF PoolType
  <2>5. OutType
    BY <2>2 DEF OutType
  <2>6. QED
    BY <2>1, <2>4, <2>5 DEF TypeOK, TextType, PoolType, OutType, Texts, Call, Response
<1>2. FreshInv /\ TextInv /\ TextIsArriving /\ SeenAsSent
  BY DEF FreshInv, TextInv, TextIsArriving, SeenAsSent
<1>3. MessagesAccounted
  <2>1. Range(queue) = {} /\ IsInjective(queue)
    BY DEF Range, IsInjective
  <2>2. QED
    BY <2>1 DEF MessagesAccounted, Queued, Running
<1>4. ResponsesAreDue
  BY DEF ResponsesAreDue, Once, Targets, Handled
<1>5. QED
  BY <1>1, <1>2, <1>3, <1>4 DEF IInv

LEMMA NextInv ==
  ASSUME IInv, [Next]_vars
  PROVE  IInv'
<1>1. TextType' /\ PoolType' /\ OutType'
  BY TextTypeKept, AccountedKept, DueKept
<1>2. TypeOK'
  BY <1>1 DEF TypeOK, TextType, PoolType, OutType, Texts, Call, Response
<1>3. FreshInv' /\ TextInv' /\ TextIsArriving' /\ SeenAsSent'
  BY FreshKept, TextKept, SeenKept
<1>4. MessagesAccounted' /\ ResponsesAreDue'
  BY AccountedKept, DueKept
<1>5. QED
  BY <1>2, <1>3, <1>4 DEF IInv

(* Everything the proofs carry from state to state holds in every state of *)
(* leda.c's handling of messages.                                          *)
THEOREM InvariantHolds == Spec => []IInv
<1>1. Init => IInv
  BY InitInv
<1>2. IInv /\ [Next]_vars => IInv'
  BY NextInv
<1>3. QED
  BY <1>1, <1>2, PTL DEF Spec

(* The variables of the network thread's text, the pool and the answers    *)
(* keep their types.                                                       *)
THEOREM TypeCorrect == Spec => []TypeOK
<1>1. IInv => TypeOK
  BY DEF IInv
<1>2. QED
  BY <1>1, InvariantHolds, PTL

(* recvframeAppend never joins fragments of two messages, whatever         *)
(* connections were closed in the middle of one.                           *)
THEOREM TextKeptApart == Spec => []TextIsArriving
<1>1. IInv => TextIsArriving
  BY DEF IInv
<1>2. QED
  BY <1>1, InvariantHolds, PTL

(* What threadpool_recv_proc is given is what the gateway sent, unless a   *)
(* fragment found no memory.                                               *)
THEOREM SeenCorrectly == Spec => []SeenAsSent
<1>1. IInv => SeenAsSent
  BY DEF IInv
<1>2. QED
  BY <1>1, InvariantHolds, PTL

(* A parsed_msg_t is in the queue, with one worker, or refused, and is     *)
(* freed once.                                                             *)
THEOREM NoMessageLost == Spec => []MessagesAccounted
<1>1. IInv => MessagesAccounted
  BY DEF IInv
<1>2. QED
  BY <1>1, InvariantHolds, PTL

(* Every request that can be served has one call and one response with its *)
(* id, and nothing else has any, in whatever order the workers end.        *)
THEOREM ResponsesDue == Spec => []ResponsesAreDue
<1>1. IInv => ResponsesAreDue
  BY DEF IInv
<1>2. QED
  BY <1>1, InvariantHolds, PTL
=============================================================================
