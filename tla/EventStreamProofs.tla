-------------------------- MODULE EventStreamProofs --------------------------
(***************************************************************************)
(* What the stream means to its user, for every file and every set of      *)
(* regions: with AbstractReaderProofs, what ev::AbstractReader_ means.     *)
(***************************************************************************)
EXTENDS EventStream, SequenceTheorems, TLAPS

Both == StreamTypeOK /\ InFileOrder

\* A stream at its beginning holds nothing.
LEMMA BothInit == Init => Both
<1> SUFFICES ASSUME Init PROVE Both
  OBVIOUS
<1>1. <<>> \in Seq(Event) /\ Len(<<>>) = 0 /\ <<>> \o <<>> = <<>>
  BY EmptySeq, ConcatEmptySeq
<1>2. Known = <<>> /\ Len(Known) = 0
  BY <1>1 DEF Init, Known
<1>3. StreamTypeOK
  BY <1>1, FileAssumption, TransformAssumption DEF Init, StreamTypeOK
<1>4. InFileOrder
  BY <1>2 DEF InFileOrder
<1> QED BY <1>3, <1>4 DEF Both

\* A sequence is its head, then its tail.
LEMMA HeadThenTail ==
    ASSUME NEW S, NEW s \in Seq(S), s # <<>>
    PROVE  <<Head(s)>> \o Tail(s) = s
<1>1. /\ Len(s) \in Nat \ {0} /\ Head(s) \in S
      /\ Tail(s) \in Seq(S) /\ Len(Tail(s)) = Len(s) - 1
      /\ \A i \in 1..(Len(s) - 1) : Tail(s)[i] = s[i + 1]
  BY EmptySeq, LenProperties, HeadTailProperties
<1> DEFINE h == <<Head(s)>>
<1>2. h \in Seq(S) /\ Len(h) = 1 /\ h[1] = s[1]
  <2>1. Head(s) = s[1]
    OBVIOUS
  <2> QED BY <1>1, <2>1
<1> HIDE DEF h
<1>3. /\ h \o Tail(s) \in Seq(S)
      /\ Len(h \o Tail(s)) = Len(s)
      /\ \A i \in 1..Len(s) : (h \o Tail(s))[i] =
           IF i <= 1 THEN h[i] ELSE Tail(s)[i - 1]
  <2>1. /\ h \o Tail(s) \in Seq(S)
        /\ Len(h \o Tail(s)) = Len(h) + Len(Tail(s))
        /\ \A i \in 1..(Len(h) + Len(Tail(s))) : (h \o Tail(s))[i] =
             IF i <= Len(h) THEN h[i] ELSE Tail(s)[i - Len(h)]
    BY <1>1, <1>2, ConcatProperties
  <2>2. Len(h) + Len(Tail(s)) = Len(s)
    BY <1>1, <1>2
  <2> QED BY <1>2, <2>1, <2>2
<1>4. \A i \in 1..Len(s) : (h \o Tail(s))[i] = s[i]
  <2> TAKE i \in 1..Len(s)
  <2>1. CASE i = 1
    BY <2>1, <1>2, <1>3
  <2>2. CASE i # 1
    <3>1. i - 1 \in 1..(Len(s) - 1) /\ (i - 1) + 1 = i /\ ~(i <= 1)
      BY <2>2, <1>1
    <3>2. Tail(s)[i - 1] = s[(i - 1) + 1]
      BY <3>1, <1>1
    <3> QED BY <3>1, <3>2, <1>3
  <2> QED BY <2>1, <2>2
<1>5. h \o Tail(s) = s
  BY <1>3, <1>4, SeqEqual
<1> QED BY <1>5 DEF h

\* Taking an event leaves known what was known.
LEMMA TakeKnown ==
    ASSUME StreamTypeOK, Take
    PROVE  Known' = Known
<1> DEFINE h == <<Head(pending)>>
<1>1. /\ delivered \in Seq(Event) /\ pending \in Seq(Event) /\ pending # <<>>
      /\ Head(pending) \in Event /\ Tail(pending) \in Seq(Event)
  BY HeadTailProperties DEF StreamTypeOK, Take
<1>2. h \in Seq(Event)
  BY <1>1
<1>3. delivered' = delivered \o h /\ pending' = Tail(pending)
  BY <1>1, AppendIsConcat DEF Take
<1>4. h \o Tail(pending) = pending
  BY <1>1, HeadThenTail
<1> HIDE DEF h
<1>5. (delivered \o h) \o Tail(pending) = delivered \o (h \o Tail(pending))
  BY <1>1, <1>2, ConcatAssociative
<1> QED BY <1>3, <1>4, <1>5 DEF Known

\* Reading an event the region keeps makes it the last known; reading one it
\* leaves out changes nothing known.
LEMMA ReadKnown ==
    ASSUME StreamTypeOK, Read
    PROVE  /\ cursor + 1 \in 1..FileLen
           /\ Known \in Seq(Event)
           /\ Known' = IF Kept
                         THEN Append(Known, [id |-> cursor + 1, by |-> transform])
                         ELSE Known
<1> DEFINE e == [id |-> cursor + 1, by |-> transform]
<1>1. cursor + 1 \in 1..FileLen
  BY FileAssumption DEF StreamTypeOK, Read, More
<1>2. e \in Event /\ <<e>> \in Seq(Event)
  BY <1>1 DEF Event, StreamTypeOK
<1>3. /\ pending \in Seq(Event) /\ delivered \in Seq(Event)
      /\ pending' = IF Kept THEN Append(pending, e) ELSE pending
      /\ delivered' = delivered
  BY DEF StreamTypeOK, Read
<1> HIDE DEF e
<1>4. Known \in Seq(Event)
  BY <1>3, ConcatProperties DEF Known
<1>5. /\ Append(pending, e) = pending \o <<e>>
      /\ Append(Known, e) = Known \o <<e>>
      /\ delivered \o (pending \o <<e>>) = (delivered \o pending) \o <<e>>
  BY <1>2, <1>3, <1>4, AppendIsConcat, ConcatAssociative
<1>6. Known' = IF Kept THEN Append(Known, e) ELSE Known
  BY <1>3, <1>5 DEF Known
<1> QED BY <1>1, <1>4, <1>6 DEF e

\* Every step keeps what is known in the order of the file.
LEMMA BothNext == Both /\ [Next]_streamVars => Both'
<1> SUFFICES ASSUME Both, [Next]_streamVars PROVE Both'
  OBVIOUS
<1>1. CASE Read
  <2> DEFINE e == [id |-> cursor + 1, by |-> transform]
  <2>1. /\ cursor + 1 \in 1..FileLen /\ Known \in Seq(Event)
        /\ Known' = IF Kept THEN Append(Known, e) ELSE Known
        /\ cursor' = cursor + 1
    BY <1>1, ReadKnown DEF Both, Read
  <2>2. e.id = cursor + 1 /\ e \in Event
    BY <2>1 DEF Event, Both, StreamTypeOK
  <2> HIDE DEF e
  <2>3. /\ Len(Append(Known, e)) = Len(Known) + 1 /\ Len(Known) \in Nat
        /\ \A i \in 1..Len(Known) : Append(Known, e)[i] = Known[i]
        /\ Append(Known, e)[Len(Known) + 1] = e
    BY <2>1, <2>2, AppendProperties, LenProperties
  <2>4. \A i \in 1..Len(Known) : Known[i].id \in 1..cursor
    <3>1. \A i \in 1..Len(Known) : Known[i] \in Event
      BY <2>1, ElementOfSeq
    <3> QED BY <3>1 DEF Both, InFileOrder, Event, StreamTypeOK
  <2>5. InFileOrder'
    <3>1. CASE Kept
      <4>1. /\ Len(Known') = Len(Known) + 1
            /\ \A i \in 1..Len(Known) : Known'[i].id = Known[i].id
            /\ Known'[Len(Known) + 1].id = cursor + 1
        BY <3>1, <2>1, <2>2, <2>3
      <4>2. \A i, j \in 1..Len(Known) : i < j => Known[i].id < Known[j].id
        BY DEF Both, InFileOrder
      <4>3. \A i \in 1..(Len(Known) + 1) :
               i \in 1..Len(Known) \/ i = Len(Known) + 1
        BY <2>3
      <4> HIDE DEF Known
      <4>c. cursor \in Nat
        BY FileAssumption DEF Both, StreamTypeOK
      <4>4. ASSUME NEW i \in 1..Len(Known'), NEW j \in 1..Len(Known'), i < j
            PROVE  Known'[i].id < Known'[j].id
        <5>1. i \in 1..Len(Known)
          BY <4>1, <4>3, <4>4, <2>3
        <5>2. CASE j \in 1..Len(Known)
          BY <5>1, <5>2, <4>1, <4>2, <4>4
        <5>3. CASE j = Len(Known) + 1
          <6>1. Known[i].id \in 1..cursor
            BY <5>1, <2>4
          <6>2. Known'[i].id = Known[i].id /\ Known'[j].id = cursor + 1
            BY <5>1, <5>3, <4>1
          <6> QED BY <6>1, <6>2, <4>c
        <5> QED BY <5>2, <5>3, <4>1, <4>3
      <4>5. ASSUME NEW i \in 1..Len(Known') PROVE Known'[i].id <= cursor'
        <5>1. CASE i \in 1..Len(Known)
          <6>1. Known[i].id \in 1..cursor /\ Known'[i].id = Known[i].id
            BY <5>1, <2>4, <4>1
          <6> QED BY <6>1, <2>1, <4>c
        <5>2. CASE i = Len(Known) + 1
          BY <5>2, <4>1, <2>1, <4>c
        <5> QED BY <5>1, <5>2, <4>1, <4>3
      <4> QED BY <4>4, <4>5 DEF InFileOrder
    <3>2. CASE ~Kept
      <4>1. Known' = Known /\ cursor \in Nat
        BY <3>2, <2>1, FileAssumption DEF Both, StreamTypeOK
      <4>2. \A i \in 1..Len(Known) : Known[i].id <= cursor'
        BY <4>1, <2>1, <2>4
      <4> QED BY <4>1, <4>2 DEF Both, InFileOrder
    <3> QED BY <3>1, <3>2
  <2>6. StreamTypeOK'
    <3>1. pending' \in Seq(Event)
      BY <1>1, <2>1, <2>2, AppendProperties DEF Read, Both, StreamTypeOK, e
    <3>2. cursor' \in 0..FileLen
      BY <2>1, FileAssumption
    <3> QED BY <1>1, <3>1, <3>2 DEF Read, Both, StreamTypeOK
  <2> QED BY <2>5, <2>6 DEF Both
<1>2. CASE Take
  <2>1. Known' = Known /\ cursor' = cursor
    BY <1>2, TakeKnown DEF Both, Take
  <2>2. /\ Head(pending) \in Event /\ Tail(pending) \in Seq(Event)
        /\ Append(delivered, Head(pending)) \in Seq(Event)
    BY <1>2, HeadTailProperties, AppendProperties DEF Both, StreamTypeOK, Take
  <2> QED BY <1>2, <2>1, <2>2 DEF Both, StreamTypeOK, InFileOrder, Take
<1>3. CASE Rewind
  <2>1. <<>> \in Seq(Event) /\ Len(<<>>) = 0 /\ <<>> \o <<>> = <<>>
    BY EmptySeq, ConcatEmptySeq
  <2>2. Known' = <<>> /\ 0 \in 0..FileLen
    BY <1>3, <2>1, FileAssumption DEF Known, Rewind
  <2>3. InFileOrder'
    BY <2>1, <2>2 DEF InFileOrder
  <2>4. StreamTypeOK'
    BY <1>3, <2>1, <2>2 DEF Both, StreamTypeOK, Rewind
  <2> QED BY <2>3, <2>4 DEF Both
<1>4. ASSUME NEW r \in Rois, ChooseRoi(r) PROVE Both'
  BY <1>4, RoiAssumption DEF ChooseRoi, Both, StreamTypeOK, InFileOrder, Known
<1>5. ASSUME NEW x \in Transforms, ChooseTransform(x) PROVE Both'
  BY <1>5 DEF ChooseTransform, Both, StreamTypeOK, InFileOrder, Known
<1>6. CASE UNCHANGED streamVars
  BY <1>6 DEF streamVars, Both, StreamTypeOK, InFileOrder, Known
<1> QED BY <1>1, <1>2, <1>3, <1>4, <1>5, <1>6 DEF Next

\* What a stream has delivered, and what waits, is in the order of the file.
THEOREM StreamInOrder == Spec => []InFileOrder
<1>1. Both => InFileOrder
  BY DEF Both
<1> QED BY BothInit, BothNext, <1>1, PTL DEF Spec

-------------------------------------------------------------------------------
(* Nothing that every region contains is lost.                             *)

\* The region in force is one of those the user may set, or filters nothing.
RegionKnown == roi \in Rois \cup {1..FileLen}

KeepsAll == Both /\ RegionKnown /\ NothingLost

\* Reading an event loses none: it is known from then on if the region keeps it,
\* and a region that leaves it out is one that does not contain it.
LEMMA ReadLosesNothing == KeepsAll /\ Read => NothingLost'
<1> SUFFICES ASSUME KeepsAll, Read,
                    NEW e \in 1..cursor', \A r \in Rois : e \in r
             PROVE  \E i \in 1..Len(Known') : Known'[i].id = e
  BY DEF NothingLost
<1> DEFINE new == [id |-> cursor + 1, by |-> transform]
<1>1. /\ cursor + 1 \in 1..FileLen /\ Known \in Seq(Event)
      /\ Known' = IF Kept THEN Append(Known, new) ELSE Known
      /\ cursor' = cursor + 1 /\ cursor \in Nat
  BY ReadKnown, FileAssumption DEF KeepsAll, Both, StreamTypeOK, Read
<1>2. new.id = cursor + 1 /\ new \in Event
  BY <1>1 DEF Event, KeepsAll, Both, StreamTypeOK
<1> HIDE DEF new
<1>3. /\ Len(Append(Known, new)) = Len(Known) + 1 /\ Len(Known) \in Nat
      /\ \A i \in 1..Len(Known) : Append(Known, new)[i] = Known[i]
      /\ Append(Known, new)[Len(Known) + 1] = new
  BY <1>1, <1>2, AppendProperties, LenProperties
<1>4. CASE e \in 1..cursor
  <2>1. PICK i \in 1..Len(Known) : Known[i].id = e
    BY <1>4 DEF KeepsAll, NothingLost
  <2>2. i \in 1..Len(Known') /\ Known'[i] = Known[i]
    BY <1>1, <1>3
  <2> QED BY <2>1, <2>2
<1>5. CASE e = cursor + 1
  <2>1. Kept
    BY <1>1, <1>5 DEF Kept, KeepsAll, RegionKnown
  <2>2. Known' = Append(Known, new) /\ Len(Known) + 1 \in 1..Len(Known')
    BY <2>1, <1>1, <1>3
  <2> QED BY <2>2, <1>2, <1>3, <1>5
<1> QED BY <1>1, <1>4, <1>5

\* Every step keeps what has been read known.
LEMMA KeepsAllNext == KeepsAll /\ [Next]_streamVars => KeepsAll'
<1> SUFFICES ASSUME KeepsAll, [Next]_streamVars PROVE RegionKnown' /\ NothingLost'
  BY BothNext DEF KeepsAll
<1>1. CASE Read
  BY <1>1, ReadLosesNothing DEF Read, KeepsAll, RegionKnown
<1>2. CASE Take
  <2>1. Known' = Known
    BY <1>2, TakeKnown DEF KeepsAll, Both
  <2> QED BY <1>2, <2>1 DEF Take, KeepsAll, RegionKnown, NothingLost
<1>3. CASE Rewind
  BY <1>3 DEF Rewind, KeepsAll, RegionKnown, NothingLost
<1>4. ASSUME NEW r \in Rois, ChooseRoi(r) PROVE RegionKnown' /\ NothingLost'
  BY <1>4 DEF ChooseRoi, KeepsAll, RegionKnown, NothingLost, Known
<1>5. ASSUME NEW x \in Transforms, ChooseTransform(x)
      PROVE  RegionKnown' /\ NothingLost'
  BY <1>5 DEF ChooseTransform, KeepsAll, RegionKnown, NothingLost, Known
<1>6. CASE UNCHANGED streamVars
  BY <1>6 DEF streamVars, KeepsAll, RegionKnown, NothingLost, Known
<1> QED BY <1>1, <1>2, <1>3, <1>4, <1>5, <1>6 DEF Next

\* An event that every region contains, once read, has been taken or waits to be,
\* however often the region changes.
THEOREM StreamLosesNothing == Spec => []NothingLost
<1>1. Init => KeepsAll
  BY BothInit DEF Init, KeepsAll, RegionKnown, NothingLost
<1>2. KeepsAll => NothingLost
  BY DEF KeepsAll
<1> QED BY <1>1, <1>2, KeepsAllNext, PTL DEF Spec
===============================================================================
