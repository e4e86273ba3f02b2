-------------------------- MODULE KeyEventsProofs --------------------------
(***************************************************************************)
(* Proofs about KeyEvents for every set of the keys of the table, any      *)
(* number of foreign bytes and every size of the keyboard's buffer: the    *)
(* events come in the order they were sent, the registers follow the keys, *)
(* and the controller finds the boundaries of the codes again.             *)
(***************************************************************************)
EXTENDS KeyEvents, TLAPS, SequenceTheorems

\* While only keys send bytes, the bytes in ScanBytes and those to be sent are
\* the codes of the events that are owed; code i ends at byte ends[i].
Cut(ends) ==
    /\ ends[0] + ScanByteCntr = 0
    /\ ends[Len(owed)] = Len(sending)
    /\ \A i \in 1..Len(owed) :
         /\ ends[i] = ends[i - 1] + Len(Code(owed[i]))
         /\ ends[i] \in 0..Len(sending)
         /\ \A j \in 1..Len(Code(owed[i])) :
              ends[i - 1] + j >= 1 => sending[ends[i - 1] + j] = Code(owed[i])[j]

Gathered ==
    \A n \in 1..8 :
      ScanBytes[n] = IF n <= ScanByteCntr THEN Code(Head(owed))[n] ELSE 0

StreamInv ==
    IF OnlyKeys
    THEN /\ IF owed = << >> THEN ScanByteCntr = 0
            ELSE ScanByteCntr <= Len(Code(Head(owed)))
         /\ Gathered
         /\ \E ends \in [0..Len(owed) -> Int] : Cut(ends)
    ELSE owed = << >>

\* The last event about a key that is under way says whether the key is down;
\* when none is under way its register does, as far as KEY[0] lets it.
About(k) == {i \in 1..Len(owed) : owed[i].key = k}
KeyInv(k) ==
    /\ \A i \in About(k) : (\A j \in About(k) : j <= i) => (owed[i].kind = "make" <=> k \in down)
    /\ About(k) = {} /\ oEventType.key = k => (oEventType.kind = "make" <=> k \in down)
    /\ About(k) = {} /\ oEventType.key # k =>
         /\ k \in HOLDING => k \in down
         /\ k \in Used /\ k \in down /\ k \notin forgotten => k \in HOLDING

HoldingInv == OnlyKeys => \A k \in KnownKeys : KeyInv(k)

\* Behind the last foreign byte, the bytes to be sent end with a code, if
\* perhaps they begin inside one, and every code is of a key in Closing.
SyncBytes == ExtendedBytes \cap PlainKeys
Follows(s, i) ==
    /\ s[i] \in {Prefix, BreakPrefix} \cup PlainKeys
    /\ s[i] = BreakPrefix => i + 1 <= Len(s) /\ s[i + 1] \in PlainKeys
    /\ s[i] = Prefix =>
         \/ i + 1 <= Len(s) /\ s[i + 1] \in SyncBytes
         \/ i + 2 <= Len(s) /\ s[i + 1] = BreakPrefix /\ s[i + 2] \in SyncBytes
Whole(s, m) == \A i \in 1..Len(s) : i > m => Follows(s, i)

\* Up to seven bytes behind a foreign byte, the counter may run on to its wrap.
OutOfStep == ScanByteCntr >= noise + 1

\* Otherwise the bytes gathered are a code, by chance perhaps before its end,
\* or the beginning of one whose rest is to be sent.
Comes(s, S) == Len(s) >= 1 /\ s[1] \in S
ComeTwo(s, b, S) == Len(s) >= 2 /\ s[1] = b /\ s[2] \in S
InStep ==
    \/ ScanByteCntr = 0
    \/ EventReady
    \/ /\ ScanByteCntr = 1 /\ ScanBytes[1] = Prefix
       /\ Comes(sending, SyncBytes) \/ ComeTwo(sending, BreakPrefix, SyncBytes)
    \/ /\ ScanByteCntr = 1 /\ ScanBytes[1] = BreakPrefix
       /\ Comes(sending, PlainKeys)
    \/ /\ ScanByteCntr = 2 /\ ScanBytes[1] = Prefix /\ ScanBytes[2] = BreakPrefix
       /\ Comes(sending, SyncBytes)

StepInv == Whole(sending, -noise) /\ (OutOfStep \/ InStep)

Types ==
    /\ TypeOK
    /\ owed \in Seq(KeyEvent) /\ sending \in Seq(1..255)

IInv == Types /\ StreamInv /\ HoldingInv /\ StepInv


-----------------------------------------------------------------------------
(* The codes *)

LEMMA Joined ==
  ASSUME NEW a, NEW b
  PROVE  <<a>> \o <<b>> = <<a, b>>
<1> DEFINE c == <<a>> \o <<b>>
<1>1. /\ <<a>> \in Seq({a, b}) /\ Len(<<a>>) = 1 /\ <<a>>[1] = a
      /\ <<b>> \in Seq({a, b}) /\ Len(<<b>>) = 1 /\ <<b>>[1] = b
      /\ <<a, b>> \in Seq({a, b}) /\ Len(<<a, b>>) = 2
      /\ <<a, b>>[1] = a /\ <<a, b>>[2] = b
  OBVIOUS
<1>2. /\ c \in Seq({a, b}) /\ Len(c) = 1 + 1
      /\ \A i \in 1..1 + 1 : c[i] = IF i <= 1 THEN <<a>>[i] ELSE <<b>>[i - 1]
  BY <1>1, ConcatProperties
<1> HIDE DEF c
<1>3. c = <<a, b>>
  BY <1>1, <1>2, SeqEqual
<1> QED
  BY <1>3 DEF c

LEMMA JoinedThree ==
  ASSUME NEW a, NEW b, NEW d
  PROVE  <<a, b>> \o <<d>> = <<a, b, d>>
<1> DEFINE c == <<a, b>> \o <<d>>
           S == {a, b, d}
<1>1. /\ <<a, b>> \in Seq(S) /\ Len(<<a, b>>) = 2 /\ <<a, b>>[1] = a /\ <<a, b>>[2] = b
      /\ <<d>> \in Seq(S) /\ Len(<<d>>) = 1 /\ <<d>>[1] = d
      /\ <<a, b, d>> \in Seq(S) /\ Len(<<a, b, d>>) = 3
      /\ <<a, b, d>>[1] = a /\ <<a, b, d>>[2] = b /\ <<a, b, d>>[3] = d
  OBVIOUS
<1> HIDE DEF S
<1>2. /\ c \in Seq(S) /\ Len(c) = 2 + 1
      /\ \A i \in 1..2 + 1 : c[i] = IF i <= 2 THEN <<a, b>>[i] ELSE <<d>>[i - 2]
  BY <1>1, ConcatProperties
<1> HIDE DEF c
<1>3. c = <<a, b, d>>
  BY <1>1, <1>2, SeqEqual
<1> QED
  BY <1>3 DEF c

LEMMA JoinedNone ==
  ASSUME NEW a
  PROVE  << >> \o << >> = << >> /\ << >> \o <<a>> = <<a>> /\ <<a>> \o << >> = <<a>>
PROOF OBVIOUS

\* No last byte is a prefix, and the code of PrtScr begins like no other.
LEMMA Bytes ==
  /\ PlainKeys \subseteq 1..255 \ {224, 225, 240}
  /\ ExtendedBytes \subseteq 1..255 \ {18, 124, 224, 225, 240}
PROOF
<1>1. PlainKeys \subseteq 1..255 \ {224, 225, 240}
  BY DEF PlainKeys
<1>2. ExtendedBytes \subseteq 1..255 \ {18, 124, 224, 225, 240}
  BY DEF ExtendedBytes
<1> QED
  BY <1>1, <1>2

\* The key whose code is a prefix and the byte b.
Ext(b) == 57344 + b

\* The number of a key tells which kind of code it has.
LEMMA Numbers ==
  /\ \A b \in PlainKeys :
       b \notin ExtendedKeys /\ b # PrtScr /\ b # Pause /\ LastByte(b) = b
  /\ \A b \in ExtendedBytes :
       /\ Ext(b) \in ExtendedKeys /\ Ext(b) # PrtScr /\ Ext(b) # Pause
       /\ LastByte(Ext(b)) = b
  /\ PrtScr # Pause /\ PrtScr \notin ExtendedKeys
  /\ 0 \notin KnownKeys /\ KnownKeys \subseteq Nat /\ Pause \notin KnownKeys
PROOF
<1>1. /\ PrtScr = 57362 /\ Pause = 57620
      /\ ExtendedKeys = {57344 + b : b \in ExtendedBytes}
  BY DEF PrtScr, Pause, ExtendedKeys
<1>2. ASSUME NEW b \in PlainKeys
      PROVE  b \notin ExtendedKeys /\ b # PrtScr /\ b # Pause /\ LastByte(b) = b
  <2>1. b \in 1..255
    BY Bytes
  <2>2. b % 256 = b
    BY <2>1
  <2> QED
    BY <1>1, <2>1, <2>2, Bytes DEF LastByte
<1>3. ASSUME NEW b \in ExtendedBytes
      PROVE  /\ Ext(b) \in ExtendedKeys /\ Ext(b) # PrtScr /\ Ext(b) # Pause
             /\ LastByte(Ext(b)) = b
  <2>1. b \in 1..255 /\ b # 18
    BY Bytes
  <2>2. (57344 + b) % 256 = b
    BY <2>1
  <2> QED
    BY <1>1, <2>1, <2>2 DEF LastByte, Ext
<1>4. PrtScr # Pause /\ PrtScr \notin ExtendedKeys
  BY <1>1, Bytes
<1>5. 0 \notin KnownKeys /\ KnownKeys \subseteq Nat /\ Pause \notin KnownKeys
  <2>1. ASSUME NEW k \in ExtendedKeys PROVE k \in Nat /\ k # 0 /\ k # 57620
    <3>1. PICK b \in ExtendedBytes : k = 57344 + b
      BY <1>1
    <3>2. b \in 1..255
      BY Bytes
    <3> QED
      BY <3>1, <3>2
  <2>2. ASSUME NEW k \in PlainKeys PROVE k \in Nat /\ k # 0 /\ k # 57620
    <3>1. k \in 1..255
      BY Bytes
    <3> QED
      BY <3>1
  <2> QED
    BY <1>1, <2>1, <2>2 DEF KnownKeys
<1> QED
  BY <1>2, <1>3, <1>4, <1>5

Event(kind, key) == [kind |-> kind, key |-> key]

LEMMA Fields ==
  \A kind, key : Event(kind, key).kind = kind /\ Event(kind, key).key = key
BY DEF Event

\* The codes of all events.
LEMMA CodesOf ==
  /\ \A b \in PlainKeys : /\ Event("make", b) \in Events /\ Event("break", b) \in Events
                          /\ Code(Event("make", b)) = <<b>>
                          /\ Code(Event("break", b)) = <<240, b>>
  /\ \A b \in ExtendedBytes :
       /\ Event("make", Ext(b)) \in Events /\ Event("break", Ext(b)) \in Events
       /\ Code(Event("make", Ext(b))) = <<224, b>>
       /\ Code(Event("break", Ext(b))) = <<224, 240, b>>
  /\ Code(Event("make", PrtScr)) = <<224, 18, 224, 124>>
  /\ Code(Event("break", PrtScr)) = <<224, 240, 124, 224, 240, 18>>
  /\ Code(Event("make", Pause)) = <<225, 20, 119, 225, 240, 20, 224, 119>>
PROOF
<1>1. \A k \in KnownKeys : Event("make", k) \in Events /\ Event("break", k) \in Events
  BY DEF Event, Events, KeyEvent
<1>2. PlainKeys \subseteq KnownKeys /\ ExtendedKeys \subseteq KnownKeys
  BY DEF KnownKeys
<1>3. ASSUME NEW kind, NEW k, k # PrtScr, k # Pause
      PROVE  Code(Event(kind, k)) = (IF k \in ExtendedKeys THEN <<224>> ELSE << >>)
                                    \o (IF kind = "break" THEN <<240>> ELSE << >>)
                                    \o <<LastByte(k)>>
  <2> DEFINE e == Event(kind, k)
  <2>1. e.kind = kind /\ e.key = k
    BY Fields
  <2> HIDE DEF e
  <2>2. Code(e) = (IF k \in ExtendedKeys THEN <<224>> ELSE << >>)
                  \o (IF kind = "break" THEN <<240>> ELSE << >>)
                  \o <<LastByte(k)>>
    BY <1>3, <2>1 DEF Code, Prefix, BreakPrefix
  <2> QED
    BY <2>2 DEF e
<1>4. ASSUME NEW b \in PlainKeys
      PROVE  Code(Event("make", b)) = <<b>> /\ Code(Event("break", b)) = <<240, b>>
  <2>1. b \notin ExtendedKeys /\ b # PrtScr /\ b # Pause /\ LastByte(b) = b
    BY Numbers
  <2>2. Code(Event("make", b)) = << >> \o << >> \o <<b>>
    <3>1. /\ (IF b \in ExtendedKeys THEN <<224>> ELSE << >>) = << >>
          /\ (IF "make" = "break" THEN <<240>> ELSE << >>) = << >>
      BY <2>1
    <3>2. Code(Event("make", b)) = (IF b \in ExtendedKeys THEN <<224>> ELSE << >>)
             \o (IF "make" = "break" THEN <<240>> ELSE << >>) \o <<LastByte(b)>>
      BY <1>3, <2>1
    <3> QED
      BY <2>1, <3>1, <3>2, Zenon
  <2>3. Code(Event("break", b)) = << >> \o <<240>> \o <<b>>
    BY <1>3, <2>1
  <2> QED
    BY <2>2, <2>3, JoinedNone, Joined
<1>5. ASSUME NEW b \in ExtendedBytes
      PROVE  /\ Code(Event("make", Ext(b))) = <<224, b>>
             /\ Code(Event("break", Ext(b))) = <<224, 240, b>>
  <2>1. Ext(b) \in ExtendedKeys /\ Ext(b) # PrtScr /\ Ext(b) # Pause /\ LastByte(Ext(b)) = b
    BY Numbers
  <2>2. Code(Event("make", Ext(b))) = <<224>> \o << >> \o <<b>>
    <3>1. /\ (IF Ext(b) \in ExtendedKeys THEN <<224>> ELSE << >>) = <<224>>
          /\ (IF "make" = "break" THEN <<240>> ELSE << >>) = << >>
      BY <2>1
    <3>2. Code(Event("make", Ext(b))) = (IF Ext(b) \in ExtendedKeys THEN <<224>> ELSE << >>)
             \o (IF "make" = "break" THEN <<240>> ELSE << >>) \o <<LastByte(Ext(b))>>
      BY <1>3, <2>1
    <3> QED
      BY <2>1, <3>1, <3>2, Zenon
  <2>3. Code(Event("break", Ext(b))) = <<224>> \o <<240>> \o <<b>>
    <3>1. /\ (IF Ext(b) \in ExtendedKeys THEN <<224>> ELSE << >>) = <<224>>
          /\ (IF "break" = "break" THEN <<240>> ELSE << >>) = <<240>>
      BY <2>1
    <3>2. Code(Event("break", Ext(b))) = (IF Ext(b) \in ExtendedKeys THEN <<224>> ELSE << >>)
             \o (IF "break" = "break" THEN <<240>> ELSE << >>) \o <<LastByte(Ext(b))>>
      BY <1>3, <2>1
    <3> QED
      BY <2>1, <3>1, <3>2, Zenon
  <2>4. Code(Event("make", Ext(b))) = <<224, b>>
    <3>1. <<224>> \o << >> = <<224>> /\ <<224>> \o <<b>> = <<224, b>>
      BY JoinedNone, Joined
    <3> QED
      BY <2>2, <3>1, Zenon
  <2>5. Code(Event("break", Ext(b))) = <<224, 240, b>>
    <3>1. <<224>> \o <<240>> = <<224, 240>>
      BY Joined
    <3>2. <<224, 240>> \o <<b>> = <<224, 240, b>>
      BY JoinedThree
    <3> QED
      BY <2>3, <3>1, <3>2, Zenon
  <2> QED
    BY <2>4, <2>5
<1>6. /\ Code(Event("make", PrtScr)) = <<224, 18, 224, 124>>
      /\ Code(Event("break", PrtScr)) = <<224, 240, 124, 224, 240, 18>>
  <2>1. ASSUME NEW e, e.key = PrtScr, e.kind = "make"
        PROVE  Code(e) = <<224, 18, 224, 124>>
    BY <2>1, Numbers DEF Code
  <2>2. ASSUME NEW e, e.key = PrtScr, e.kind = "break"
        PROVE  Code(e) = <<224, 240, 124, 224, 240, 18>>
    BY <2>2, Numbers DEF Code
  <2> QED
    BY <2>1, <2>2, Fields, Zenon
<1>7. Code(Event("make", Pause)) = <<225, 20, 119, 225, 240, 20, 224, 119>>
  <2>1. ASSUME NEW e, e.key = Pause
        PROVE  Code(e) = <<225, 20, 119, 225, 240, 20, 224, 119>>
    BY <2>1, Numbers DEF Code
  <2> QED
    BY <2>1, Fields, Zenon
<1>8. \A b \in PlainKeys : Event("make", b) \in Events /\ Event("break", b) \in Events
  BY <1>1, <1>2
<1>10. \A b \in PlainKeys : /\ Event("make", b) \in Events /\ Event("break", b) \in Events
                             /\ Code(Event("make", b)) = <<b>>
                             /\ Code(Event("break", b)) = <<240, b>>
  BY <1>4, <1>8, Zenon
<1>11. ASSUME NEW b \in ExtendedBytes
       PROVE  /\ Event("make", Ext(b)) \in Events /\ Event("break", Ext(b)) \in Events
              /\ Code(Event("make", Ext(b))) = <<224, b>>
              /\ Code(Event("break", Ext(b))) = <<224, 240, b>>
  <2>1. Ext(b) \in KnownKeys
    BY <1>2, Numbers, Zenon
  <2>2. Event("make", Ext(b)) \in Events /\ Event("break", Ext(b)) \in Events
    BY <1>1, <2>1, Zenon
  <2> QED
    BY <1>5, <2>2, Zenon
<1>12. \A b \in ExtendedBytes :
         /\ Event("make", Ext(b)) \in Events /\ Event("break", Ext(b)) \in Events
         /\ Code(Event("make", Ext(b))) = <<224, b>>
         /\ Code(Event("break", Ext(b))) = <<224, 240, b>>
  BY <1>11
<1> QED
  BY <1>6, <1>7, <1>10, <1>12, ZenonT(60)

\* What the code c of the event e looks like.
Shape(e, c) ==
    \/ \E b \in PlainKeys : e = Event("make", b) /\ Len(c) = 1 /\ c[1] = b
    \/ \E b \in PlainKeys : e = Event("break", b) /\ Len(c) = 2 /\ c[1] = 240 /\ c[2] = b
    \/ \E b \in ExtendedBytes :
         e = Event("make", Ext(b)) /\ Len(c) = 2 /\ c[1] = 224 /\ c[2] = b
    \/ \E b \in ExtendedBytes :
         /\ e = Event("break", Ext(b)) /\ Len(c) = 3
         /\ c[1] = 224 /\ c[2] = 240 /\ c[3] = b
    \/ /\ e = Event("make", PrtScr) /\ Len(c) = 4
       /\ c[1] = 224 /\ c[2] = 18 /\ c[3] = 224 /\ c[4] = 124
    \/ /\ e = Event("break", PrtScr) /\ Len(c) = 6
       /\ c[1] = 224 /\ c[2] = 240 /\ c[3] = 124 /\ c[4] = 224 /\ c[5] = 240 /\ c[6] = 18
    \/ /\ e = Event("make", Pause) /\ Len(c) = 8
       /\ c[1] = 225 /\ c[2] = 20 /\ c[3] = 119 /\ c[4] = 225
       /\ c[5] = 240 /\ c[6] = 20 /\ c[7] = 224 /\ c[8] = 119

LEMMA Shapes ==
  ASSUME NEW e \in Events
  PROVE  Shape(e, Code(e)) /\ Code(e) \in Seq(1..255)
PROOF
<1>1. PICK kind \in {"make", "break"}, key \in KnownKeys \cup {Pause} :
        e = Event(kind, key) /\ (key = Pause => kind = "make")
  <2>1. CASE e \in KeyEvent
    <3>1. PICK kind \in {"make", "break"}, key \in KnownKeys : e = Event(kind, key)
      BY <2>1 DEF KeyEvent, Event
    <3> QED
      BY <3>1, Numbers
  <2>2. CASE e = Event("make", Pause)
    BY <2>2
  <2> QED
    BY <2>1, <2>2 DEF Events, Event
<1>2. ASSUME NEW b \in PlainKeys, e = Event("make", b)
      PROVE  Shape(e, Code(e)) /\ Code(e) \in Seq(1..255)
  <2>1. Code(e) = <<b>> /\ b \in 1..255
    BY <1>2, CodesOf, Bytes
  <2> DEFINE c == Code(e)
  <2>2. c \in Seq(1..255) /\ Len(c) = 1
    BY <2>1
  <2>3. c[1] = b
    BY <2>1
  <2> HIDE DEF c
  <2>4. Shape(e, c)
    BY <1>2, <2>2, <2>3 DEF Shape
  <2> QED
    BY <2>2, <2>4 DEF c
<1>3. ASSUME NEW b \in PlainKeys, e = Event("break", b)
      PROVE  Shape(e, Code(e)) /\ Code(e) \in Seq(1..255)
  <2>1. Code(e) = <<240, b>> /\ b \in 1..255
    BY <1>3, CodesOf, Bytes
  <2> DEFINE c == Code(e)
  <2>2. c \in Seq(1..255) /\ Len(c) = 2
    BY <2>1
  <2>3. c[1] = 240 /\ c[2] = b
    BY <2>1
  <2> HIDE DEF c
  <2>4. Shape(e, c)
    BY <1>3, <2>2, <2>3 DEF Shape
  <2> QED
    BY <2>2, <2>4 DEF c
<1>4. ASSUME NEW b \in ExtendedBytes, e = Event("make", Ext(b))
      PROVE  Shape(e, Code(e)) /\ Code(e) \in Seq(1..255)
  <2>1. Code(e) = <<224, b>> /\ b \in 1..255
    BY <1>4, CodesOf, Bytes
  <2> DEFINE c == Code(e)
  <2>2. c \in Seq(1..255) /\ Len(c) = 2
    BY <2>1
  <2>3. c[1] = 224 /\ c[2] = b
    BY <2>1
  <2> HIDE DEF c
  <2>4. Shape(e, c)
    BY <1>4, <2>2, <2>3 DEF Shape
  <2> QED
    BY <2>2, <2>4 DEF c
<1>5. ASSUME NEW b \in ExtendedBytes, e = Event("break", Ext(b))
      PROVE  Shape(e, Code(e)) /\ Code(e) \in Seq(1..255)
  <2>1. Code(e) = <<224, 240, b>> /\ b \in 1..255
    BY <1>5, CodesOf, Bytes
  <2> DEFINE c == Code(e)
  <2>2. c \in Seq(1..255) /\ Len(c) = 3
    BY <2>1
  <2>3. c[1] = 224 /\ c[2] = 240 /\ c[3] = b
    BY <2>1
  <2> HIDE DEF c
  <2>4. Shape(e, c)
    BY <1>5, <2>2, <2>3 DEF Shape
  <2> QED
    BY <2>2, <2>4 DEF c
<1>6. ASSUME e = Event("make", PrtScr)
      PROVE  Shape(e, Code(e)) /\ Code(e) \in Seq(1..255)
  <2>1. Code(e) = <<224, 18, 224, 124>>
    BY <1>6, CodesOf
  <2> DEFINE c == Code(e)
  <2>2. c \in Seq(1..255) /\ Len(c) = 4
    BY <2>1
  <2>3. c[1] = 224 /\ c[2] = 18 /\ c[3] = 224 /\ c[4] = 124
    BY <2>1
  <2> HIDE DEF c
  <2>4. Shape(e, c)
    BY <1>6, <2>2, <2>3 DEF Shape
  <2> QED
    BY <2>2, <2>4 DEF c
<1>7. ASSUME e = Event("break", PrtScr)
      PROVE  Shape(e, Code(e)) /\ Code(e) \in Seq(1..255)
  <2>1. Code(e) = <<224, 240, 124, 224, 240, 18>>
    BY <1>7, CodesOf
  <2> DEFINE c == Code(e)
  <2>2. c \in Seq(1..255) /\ Len(c) = 6
    BY <2>1
  <2>3. c[1] = 224 /\ c[2] = 240 /\ c[3] = 124 /\ c[4] = 224 /\ c[5] = 240 /\ c[6] = 18
    BY <2>1
  <2> HIDE DEF c
  <2>4. Shape(e, c)
    BY <1>7, <2>2, <2>3 DEF Shape
  <2> QED
    BY <2>2, <2>4 DEF c
<1>8. ASSUME e = Event("make", Pause)
      PROVE  Shape(e, Code(e)) /\ Code(e) \in Seq(1..255)
  <2>1. Code(e) = <<225, 20, 119, 225, 240, 20, 224, 119>>
    BY <1>8, CodesOf
  <2> DEFINE c == Code(e)
  <2>2. c \in Seq(1..255) /\ Len(c) = 8
    BY <2>1
  <2>3. c[1] = 225 /\ c[2] = 20 /\ c[3] = 119 /\ c[4] = 225 /\ c[5] = 240 /\ c[6] = 20 /\ c[7] = 224 /\ c[8] = 119
    BY <2>1
  <2> HIDE DEF c
  <2>4. Shape(e, c)
    BY <1>8, <2>2, <2>3 DEF Shape
  <2> QED
    BY <2>2, <2>4 DEF c
<1>9. key \in PlainKeys \/ (\E b \in ExtendedBytes : key = Ext(b)) \/ key = PrtScr \/ key = Pause
  BY DEF KnownKeys, ExtendedKeys, Ext
<1> QED
  BY <1>1, <1>2, <1>3, <1>4, <1>5, <1>6, <1>7, <1>8, <1>9

LEMMA CodeBytes ==
  ASSUME NEW e \in Events
  PROVE  /\ Code(e) \in Seq(1..255) /\ Code(e) \in Seq(0..255) /\ Len(Code(e)) \in 1..8
         /\ \A i \in 1..Len(Code(e)) : Code(e)[i] \in 1..255
         /\ e \in KeyEvent => Len(Code(e)) \in 1..6
PROOF
<1> DEFINE c == Code(e)
<1>1. c \in Seq(1..255) /\ Shape(e, c)
  BY Shapes
<1> HIDE DEF c
<1>2. Len(c) \in 1..8 /\ (e.key # Pause => Len(c) \in 1..6)
  BY <1>1, Fields DEF Shape
<1>3. e \in KeyEvent => e.key # Pause
  BY Numbers DEF KeyEvent
<1>4. c \in Seq(0..255) /\ \A i \in 1..Len(c) : c[i] \in 1..255
  <2>1. 1..255 \subseteq 0..255
    OBVIOUS
  <2> QED
    BY <1>1, <2>1, SeqMonotonic, ElementOfSeq
<1> QED
  BY <1>1, <1>2, <1>3, <1>4 DEF c

\* No code of the table in ScanCodeToEvent is the beginning of another, so its
\* casex has one match, and a code is complete at its last byte.
THEOREM PrefixFree ==
  ASSUME NEW e \in Events, NEW f \in Events, Len(Code(e)) <= Len(Code(f)),
         \A i \in 1..Len(Code(e)) : Code(e)[i] = Code(f)[i]
  PROVE  e = f
<1> DEFINE c == Code(e)
           d == Code(f)
<1>1. /\ Len(c) \in 1..8 /\ Len(d) \in 1..8 /\ Len(c) <= Len(d)
      /\ \A i \in 1..8 : i <= Len(c) => c[i] = d[i]
  BY CodeBytes
<1>2. Shape(e, c) /\ Shape(f, d)
  BY Shapes
<1> HIDE DEF c, d
<1>3. /\ c[1] = d[1] /\ (Len(c) >= 2 => c[2] = d[2]) /\ (Len(c) >= 3 => c[3] = d[3])
      /\ Len(c) >= 4 => c[4] = d[4]
  BY <1>1
<1>4. e = f
  <2>1. ASSUME NEW b \in PlainKeys, e = Event("make", b), Len(c) = 1, c[1] = b
        PROVE  e = f
    BY <1>1, <1>2, <1>3, <2>1, Bytes DEF Shape
  <2>2. ASSUME NEW b \in PlainKeys, e = Event("break", b), Len(c) = 2, c[1] = 240, c[2] = b
        PROVE  e = f
    BY <1>1, <1>2, <1>3, <2>2, Bytes DEF Shape
  <2>3. ASSUME NEW b \in ExtendedBytes, e = Event("make", Ext(b)),
               Len(c) = 2, c[1] = 224, c[2] = b
        PROVE  e = f
    BY <1>1, <1>2, <1>3, <2>3, Bytes DEF Shape
  <2>4. ASSUME NEW b \in ExtendedBytes, e = Event("break", Ext(b)),
               Len(c) = 3, c[1] = 224, c[2] = 240, c[3] = b
        PROVE  e = f
    BY <1>1, <1>2, <1>3, <2>4, Bytes DEF Shape
  <2>5. ASSUME e = Event("make", PrtScr), Len(c) = 4, c[1] = 224, c[2] = 18
        PROVE  e = f
    BY <1>1, <1>2, <1>3, <2>5, Bytes DEF Shape
  <2>6. ASSUME e = Event("break", PrtScr), Len(c) = 6, c[1] = 224, c[2] = 240, c[3] = 124
        PROVE  e = f
    BY <1>1, <1>2, <1>3, <2>6, Bytes DEF Shape
  <2>7. ASSUME e = Event("make", Pause), Len(c) = 8, c[1] = 225
        PROVE  e = f
    BY <1>1, <1>2, <1>3, <2>7, Bytes DEF Shape
  <2> QED
    BY <1>2, <2>1, <2>2, <2>3, <2>4, <2>5, <2>6, <2>7 DEF Shape
<1> QED
  BY <1>4

\* The bytes b begin with the code of the event e.
Begins(b, e) == \A i \in 1..Len(Code(e)) : b[i] = Code(e)[i]

LEMMA BeginsWith ==
  ASSUME NEW b \in [1..8 -> 0..255], NEW e \in Events
  PROVE  (\E n \in 1..8 : SubSeq(b, 1, n) = Code(e)) <=> Begins(b, e)
PROOF
<1>1. PICK m \in 1..8 : m = Len(Code(e))
  BY CodeBytes
<1>2. ASSUME NEW n \in 1..8
      PROVE  /\ SubSeq(b, 1, n) \in Seq(0..255) /\ Len(SubSeq(b, 1, n)) = n
             /\ \A i \in 1..n : SubSeq(b, 1, n)[i] = b[i]
  <2>1. \A i \in 1..n : b[i] \in 0..255
    OBVIOUS
  <2>2. /\ SubSeq(b, 1, n) \in Seq(0..255)
        /\ Len(SubSeq(b, 1, n)) = IF 1 <= n THEN n - 1 + 1 ELSE 0
        /\ \A i \in 1..n - 1 + 1 : SubSeq(b, 1, n)[i] = b[1 + i - 1]
    BY <2>1, SubSeqProperties
  <2> DEFINE q == SubSeq(b, 1, n)
  <2> HIDE DEF q
  <2>3. q \in Seq(0..255) /\ Len(q) = n /\ \A i \in 1..n : q[i] = b[i]
    BY <2>2 DEF q
  <2> QED
    BY <2>3 DEF q
<1>3. ASSUME NEW n \in 1..8, SubSeq(b, 1, n) = Code(e) PROVE Begins(b, e)
  BY <1>2, <1>3 DEF Begins
<1>4. ASSUME Begins(b, e) PROVE SubSeq(b, 1, m) = Code(e)
  <2> DEFINE q == SubSeq(b, 1, m)
             c == Code(e)
  <2>1. /\ q \in Seq(0..255) /\ Len(q) = m /\ \A i \in 1..m : q[i] = b[i]
        /\ c \in Seq(0..255) /\ Len(c) = m /\ \A i \in 1..m : c[i] = b[i]
    BY <1>1, <1>2, <1>4, CodeBytes DEF Begins
  <2> HIDE DEF q, c
  <2>2. q = c
    BY <2>1, SeqEqual
  <2> QED
    BY <2>2 DEF q, c
<1> QED
  BY <1>3, <1>4

LEMMA ReadyWith ==
  ASSUME NEW b \in [1..8 -> 0..255]
  PROVE  (\E n \in 1..8 : SubSeq(b, 1, n) \in Codes) <=> \E e \in Events : Begins(b, e)
BY BeginsWith DEF Codes

LEMMA ReadyNow ==
  ASSUME ScanBytes \in [1..8 -> 0..255]
  PROVE  /\ EventReady <=> \E e \in Events : Begins(ScanBytes, e)
         /\ EventReady => EventType \in Events /\ Begins(ScanBytes, EventType)
PROOF
<1>1. EventReady <=> \E e \in Events : Begins(ScanBytes, e)
  BY ReadyWith DEF EventReady, First
<1>2. \A e \in Events : (\E n \in 1..8 : First(n) = Code(e)) <=> Begins(ScanBytes, e)
  BY BeginsWith DEF First
<1>3. ASSUME EventReady PROVE EventType \in Events /\ Begins(ScanBytes, EventType)
  <2> DEFINE Firsts == {First(n) : n \in 1..8}
  <2>1. \E e \in Events : Code(e) \in Firsts
    BY <1>1, <1>2, <1>3
  <2>2. EventType = CHOOSE e \in Events : Code(e) \in Firsts
    BY <1>3 DEF EventType
  <2>3. EventType \in Events /\ Code(EventType) \in Firsts
    <3> HIDE DEF Firsts
    <3> QED
      BY <2>1, <2>2
  <2>4. \E n \in 1..8 : First(n) = Code(EventType)
    BY <2>3
  <2> QED
    BY <1>2, <2>3, <2>4
<1> QED
  BY <1>1, <1>3

\* What the decoder recognizes.
LEMMA Recognized ==
  ASSUME NEW b \in [1..8 -> 0..255],
         \/ b[1] \in PlainKeys
         \/ b[1] = BreakPrefix /\ b[2] \in PlainKeys
         \/ b[1] = Prefix /\ b[2] \in ExtendedBytes
         \/ b[1] = Prefix /\ b[2] = BreakPrefix /\ b[3] \in ExtendedBytes
  PROVE  \E n \in 1..8 : SubSeq(b, 1, n) \in Codes
<1> DEFINE Starts(c) == \A i \in 1..Len(c) : b[i] = c[i]
<1>1. /\ Starts(<<b[1]>>)
      /\ b[1] = 240 => Starts(<<240, b[2]>>)
      /\ b[1] = 224 => Starts(<<224, b[2]>>)
      /\ b[1] = 224 /\ b[2] = 240 => Starts(<<224, 240, b[3]>>)
  OBVIOUS
<1>2. \A e \in Events : Starts(Code(e)) => Begins(b, e)
  BY DEF Begins
<1> HIDE DEF Starts
<1>3. \E e \in Events : Begins(b, e)
  BY <1>1, <1>2, CodesOf DEF BreakPrefix, Prefix
<1> QED
  BY <1>3, ReadyWith
-----------------------------------------------------------------------------
(* The stream of codes *)

LEMMA KeyCodes ==
  ASSUME NEW e \in KeyEvent
  PROVE  /\ e \in Events
         /\ Code(e) \in Seq(1..255) /\ Len(Code(e)) \in 1..6
         /\ \A i \in 1..Len(Code(e)) : Code(e)[i] \in 1..255
<1>1. e \in Events
  BY DEF Events
<1> QED
  BY <1>1, CodeBytes

\* The decoder recognizes the code it has gathered, when it is complete.
LEMMA ParsedOwed ==
  ASSUME IInv, OnlyKeys
  PROVE  /\ EventReady <=> owed # << >> /\ ScanByteCntr = Len(Code(Head(owed)))
         /\ EventReady => EventType = Head(owed)
PROOF
<1>1. /\ ScanBytes \in [1..8 -> 0..255] /\ ScanByteCntr \in 0..7
      /\ owed \in Seq(KeyEvent) /\ Gathered
      /\ IF owed = << >> THEN ScanByteCntr = 0
         ELSE ScanByteCntr <= Len(Code(Head(owed)))
  BY DEF IInv, Types, TypeOK, StreamInv
<1>2. CASE owed = << >>
  <2>1. ScanBytes[1] = 0
    BY <1>1, <1>2 DEF Gathered
  <2>2. ASSUME NEW e \in Events, Begins(ScanBytes, e) PROVE FALSE
    <3>1. PICK m \in 1..8 : m = Len(Code(e))
      BY CodeBytes
    <3>2. 1 \in 1..m
      OBVIOUS
    <3>3. Code(e)[1] \in 1..255
      BY <3>1, <3>2, CodeBytes
    <3>4. ScanBytes[1] = Code(e)[1]
      BY <2>2, <3>1, <3>2 DEF Begins
    <3> QED
      BY <2>1, <3>3, <3>4
  <2> QED
    BY <1>1, <1>2, <2>2, ReadyNow
<1>3. CASE owed # << >>
  <2> DEFINE f == Head(owed)
  <2>1. f \in KeyEvent /\ f \in Events
    BY <1>1, <1>3 DEF Events
  <2> HIDE DEF f
  <2>2. PICK n \in 1..6 : n = Len(Code(f))
    BY <2>1, CodeBytes
  <2>3. ScanByteCntr \in 0..6 /\ ScanByteCntr <= n
    <3>1. ScanByteCntr \in 0..7 /\ ScanByteCntr <= Len(Code(f))
      BY <1>1, <1>3 DEF f
    <3> QED
      BY <2>2, <3>1
  <2>4. \A i \in 1..8 : ScanBytes[i] = IF i <= ScanByteCntr THEN Code(f)[i] ELSE 0
    BY <1>1 DEF Gathered, f
  <2>5. ASSUME NEW e \in Events, Begins(ScanBytes, e)
        PROVE  e = f /\ ScanByteCntr = n
    <3>1. PICK m \in 1..8 : m = Len(Code(e))
      BY CodeBytes
    <3>2. \A i \in 1..m : ScanBytes[i] = Code(e)[i] /\ Code(e)[i] # 0
      <4>1. \A i \in 1..m : ScanBytes[i] = Code(e)[i]
        BY <2>5, <3>1 DEF Begins
      <4>2. \A i \in 1..m : Code(e)[i] \in 1..255
        BY <3>1, CodeBytes
      <4> QED
        BY <4>1, <4>2
    <3>3. \A i \in 1..m : i <= ScanByteCntr /\ Code(e)[i] = Code(f)[i]
      BY <2>3, <2>4, <3>1, <3>2
    <3>4. m <= ScanByteCntr /\ m <= n
      BY <2>3, <3>3
    <3>5. e = f
      BY <2>1, <2>2, <3>1, <3>3, <3>4, PrefixFree
    <3> QED
      BY <2>2, <2>3, <3>1, <3>4, <3>5
  <2>6. ScanByteCntr = n => Begins(ScanBytes, f)
    BY <2>2, <2>4 DEF Begins
  <2>7. EventReady <=> ScanByteCntr = n
    BY <1>1, <2>1, <2>5, <2>6, ReadyNow
  <2>8. EventReady => EventType = f
    BY <1>1, <2>5, ReadyNow
  <2> QED
    BY <1>3, <2>2, <2>7, <2>8 DEF f
<1> QED
  BY <1>2, <1>3

\* The byte that comes is the next one of the code that is owed.
LEMMA NextOwed ==
  ASSUME IInv, OnlyKeys, sending # << >>, ~EventReady
  PROVE  /\ owed # << >> /\ ScanByteCntr < Len(Code(Head(owed)))
         /\ Head(sending) = Code(Head(owed))[ScanByteCntr + 1]
PROOF
<1>1. PICK ends \in [0..Len(owed) -> Int] : Cut(ends)
  BY DEF IInv, StreamInv
<1>2. /\ ScanByteCntr \in 0..7 /\ owed \in Seq(KeyEvent) /\ sending \in Seq(1..255)
      /\ IF owed = << >> THEN ScanByteCntr = 0
         ELSE ScanByteCntr <= Len(Code(Head(owed)))
  BY DEF IInv, Types, TypeOK, StreamInv
<1>3. Len(sending) \in Nat \ {0} /\ Head(sending) = sending[1]
  BY <1>2
<1>4. owed # << >>
  <2>1. SUFFICES ASSUME owed = << >> PROVE FALSE
    OBVIOUS
  <2>2. Len(owed) = 0 /\ ends[0] = 0
    BY <1>1, <1>2, <2>1 DEF Cut
  <2> QED
    BY <1>1, <1>3, <2>2 DEF Cut
<1>5. Len(owed) \in Nat \ {0} /\ Head(owed) = owed[1] /\ owed[1] \in KeyEvent
  BY <1>2, <1>4
<1>6. PICK n \in 1..6 : n = Len(Code(owed[1]))
  BY <1>5, KeyCodes
<1>7. ScanByteCntr < n
  BY <1>2, <1>4, <1>5, <1>6, ParsedOwed
<1>8. ends[0] + ScanByteCntr = 0 /\ ScanByteCntr + 1 \in 1..n
  BY <1>1, <1>2, <1>7 DEF Cut
<1>9. sending[ends[0] + (ScanByteCntr + 1)] = Code(owed[1])[ScanByteCntr + 1]
  <2>1. 1 \in 1..Len(owed) /\ 1 - 1 = 0
    BY <1>5
  <2>2. \A j \in 1..n : ends[0] + j >= 1 => sending[ends[0] + j] = Code(owed[1])[j]
    BY <1>1, <1>6, <2>1 DEF Cut
  <2>3. ends[0] + (ScanByteCntr + 1) >= 1
    BY <1>2, <1>8
  <2> QED
    BY <1>8, <2>2, <2>3
<1>10. ends[0] + (ScanByteCntr + 1) = 1
  BY <1>2, <1>8
<1> QED
  BY <1>3, <1>4, <1>5, <1>6, <1>7, <1>9, <1>10

\* Nothing is owed when nothing is under way.
LEMMA AllHandled ==
  ASSUME IInv, OnlyKeys, AtRest
  PROVE  owed = << >> /\ ScanByteCntr = 0 /\ oEventType = None
PROOF
<1>1. PICK ends \in [0..Len(owed) -> Int] : Cut(ends)
  BY DEF IInv, StreamInv
<1>2. /\ ScanByteCntr \in 0..7 /\ owed \in Seq(KeyEvent)
      /\ IF owed = << >> THEN ScanByteCntr = 0
         ELSE ScanByteCntr <= Len(Code(Head(owed)))
  BY DEF IInv, Types, TypeOK, StreamInv
<1>3. sending = << >> /\ ~EventReady /\ oEventType = None
  BY DEF AtRest, Busy
<1>4. ASSUME owed # << >> PROVE FALSE
  <2>1. Len(owed) \in Nat \ {0} /\ Head(owed) = owed[1] /\ owed[1] \in KeyEvent
    BY <1>2, <1>4
  <2>2. PICK n \in 1..6 : n = Len(Code(owed[1]))
    BY <2>1, KeyCodes
  <2>3. ScanByteCntr < n
    BY <1>2, <1>3, <1>4, <2>1, <2>2, ParsedOwed
  <2>4. 1 \in 1..Len(owed) /\ 1 - 1 = 0
    BY <2>1
  <2>5. ends[0] + ScanByteCntr = 0 /\ ends[1] = ends[0] + n /\ ends[1] \in 0..0
    BY <1>1, <1>3, <2>2, <2>4 DEF Cut
  <2> QED
    BY <1>2, <2>3, <2>5
<1> QED
  BY <1>2, <1>3, <1>4

-----------------------------------------------------------------------------
(* The steps keep the stream *)

\* A byte moves from the keyboard into the code that is owed.
LEMMA ByteStream ==
  ASSUME IInv, OnlyKeys, Byte
  PROVE  StreamInv'
PROOF
<1>1. PICK ends \in [0..Len(owed) -> Int] : Cut(ends)
  BY DEF IInv, StreamInv
<1>2. /\ ScanByteCntr \in 0..7 /\ ScanBytes \in [1..8 -> 0..255]
      /\ owed \in Seq(KeyEvent) /\ sending \in Seq(1..255) /\ Gathered
  BY DEF IInv, Types, TypeOK, StreamInv
<1>3. sending # << >> /\ ~EventReady /\ owed' = owed /\ sending' = Tail(sending)
      /\ plugs' = plugs /\ pauses' = pauses /\ Gather(Head(sending))
  BY DEF Byte, Busy, Clock
<1>4. Len(owed) \in Nat \ {0} /\ Head(owed) = owed[1] /\ owed[1] \in KeyEvent
  BY <1>2, <1>3, NextOwed
<1> DEFINE f == owed[1]
           b == Head(sending)
<1>5. PICK n \in 1..6 : n = Len(Code(f))
  BY <1>4, KeyCodes
<1>6. ScanByteCntr \in 0..5 /\ ScanByteCntr < n /\ b = Code(f)[ScanByteCntr + 1]
  <2>1. ScanByteCntr < n /\ b = Code(f)[ScanByteCntr + 1]
    BY <1>3, <1>4, <1>5, NextOwed
  <2> QED
    BY <1>2, <2>1
<1>7. b # 0
  <2>1. ScanByteCntr + 1 \in 1..n
    BY <1>6
  <2>2. \A i \in 1..n : Code(f)[i] \in 1..255
    BY <1>4, <1>5, KeyCodes
  <2>3. Code(f)[ScanByteCntr + 1] \in 1..255
    BY <2>1, <2>2
  <2>4. b \in 1..255
    BY <1>6, <2>3
  <2> HIDE DEF b
  <2> QED
    BY <2>4
<1> HIDE DEF f, b
<1>8. /\ ScanByteCntr' = ScanByteCntr + 1
      /\ ScanBytes' = [ScanBytes EXCEPT ![ScanByteCntr + 1] = b]
  BY <1>3, <1>6, <1>7 DEF Gather, NextCntr, b
<1>9. Gathered'
  <2>1. \A i \in 1..8 : ScanBytes[i] = IF i <= ScanByteCntr THEN Code(f)[i] ELSE 0
    BY <1>2, <1>4 DEF Gathered, f
  <2>2. \A i \in 1..8 : ScanBytes'[i] = IF i <= ScanByteCntr + 1 THEN Code(f)[i] ELSE 0
    BY <1>2, <1>6, <1>8, <2>1
  <2>3. Head(owed') = f
    BY <1>3, <1>4 DEF f
  <2> QED
    BY <1>8, <2>2, <2>3 DEF Gathered
<1>10. Len(sending) \in Nat \ {0} /\ Len(sending') = Len(sending) - 1
       /\ \A i \in 1..Len(sending) - 1 : sending'[i] = sending[i + 1]
  BY <1>2, <1>3
<1>11. PICK ends2 \in [0..Len(owed) -> Int] : \A i \in 0..Len(owed) : ends2[i] = ends[i] - 1
  <2> DEFINE moved == [i \in 0..Len(owed) |-> ends[i] - 1]
  <2>1. moved \in [0..Len(owed) -> Int] /\ \A i \in 0..Len(owed) : moved[i] = ends[i] - 1
    OBVIOUS
  <2> HIDE DEF moved
  <2> QED
    BY <2>1
<1>12. /\ ends2[0] + (ScanByteCntr + 1) = 0
       /\ ends2[Len(owed)] = Len(sending')
  <2>1. 0 \in 0..Len(owed) /\ Len(owed) \in 0..Len(owed)
    BY <1>4
  <2>2. ends2[0] = ends[0] - 1 /\ ends2[Len(owed)] = ends[Len(owed)] - 1
    BY <1>11, <2>1
  <2>3. ends[0] + ScanByteCntr = 0 /\ ends[Len(owed)] = Len(sending)
    BY <1>1 DEF Cut
  <2>4. (ends[0] - 1) + (ScanByteCntr + 1) = 0
    <3>1. PICK u \in Int, v \in Int : u = ends[0] /\ v = ScanByteCntr
      BY <1>1, <1>6, <2>1
    <3>2. u + v = 0
      BY <2>3, <3>1
    <3>3. (u - 1) + (v + 1) = 0
      BY <3>2
    <3> QED
      BY <3>1, <3>3
  <2>5. ends2[0] + (ScanByteCntr + 1) = 0
    BY <2>2, <2>4
  <2>6. ends2[Len(owed)] = Len(sending')
    BY <1>10, <2>2, <2>3
  <2> QED
    BY <2>5, <2>6
<1>13. ASSUME NEW i \in 1..Len(owed)
       PROVE  /\ ends2[i] = ends2[i - 1] + Len(Code(owed[i]))
              /\ ends2[i] \in 0..Len(sending')
              /\ \A j \in 1..Len(Code(owed[i])) :
                   ends2[i - 1] + j >= 1 =>
                     sending'[ends2[i - 1] + j] = Code(owed[i])[j]
  <2>1. i \in 0..Len(owed) /\ i - 1 \in 0..Len(owed)
    BY <1>4
  <2>2. PICK m \in 1..6 : m = Len(Code(owed[i]))
    <3>1. owed[i] \in KeyEvent
      BY <1>2
    <3> QED
      BY <3>1, KeyCodes
  <2>3. /\ ends[i] = ends[i - 1] + m
        /\ ends[i] \in 0..Len(sending)
        /\ \A j \in 1..m : ends[i - 1] + j >= 1 => sending[ends[i - 1] + j] = Code(owed[i])[j]
    BY <1>1, <2>2 DEF Cut
  <2>4. ends[i] # 0
    <3>1. CASE i = 1
      <4>1. ends[0] + ScanByteCntr = 0 /\ m = n
        BY <1>1, <1>5, <2>2, <3>1 DEF Cut, f
      <4> QED
        BY <1>6, <2>3, <3>1, <4>1
    <3>2. CASE i # 1
      <4>1. i - 1 \in 1..Len(owed)
        BY <3>2
      <4>2. ends[i - 1] \in 0..Len(sending)
        BY <1>1, <4>1 DEF Cut
      <4> QED
        BY <1>10, <2>3, <4>2
    <3> QED
      BY <3>1, <3>2
  <2>5. /\ ends2[i] = ends[i] - 1 /\ ends2[i - 1] = ends[i - 1] - 1
        /\ ends[i] \in Int /\ ends[i - 1] \in Int
    BY <1>1, <1>11, <2>1
  <2>6. ends2[i] = ends2[i - 1] + m /\ ends2[i] \in 0..Len(sending')
    <3>1. PICK u \in Int, v \in Int, l \in Nat : u = ends[i] /\ v = ends[i - 1] /\ l = Len(sending)
      BY <1>10, <2>5
    <3>2. u = v + m /\ u \in 1..l
      BY <2>3, <2>4, <3>1
    <3>3. ends2[i] = u - 1 /\ ends2[i - 1] = v - 1 /\ Len(sending') = l - 1
      BY <1>10, <2>5, <3>1
    <3>4. u - 1 = v - 1 + m /\ u - 1 \in 0..l - 1
      BY <3>2
    <3> QED
      BY <3>3, <3>4
  <2>7. ASSUME NEW j \in 1..m, ends2[i - 1] + j >= 1
        PROVE  sending'[ends2[i - 1] + j] = Code(owed[i])[j]
    <3>1. PICK p \in Int : p = ends2[i - 1] + j
      BY <2>5
    <3>2. p \in 1..Len(sending) - 1 /\ ends[i - 1] + j = p + 1
      <4>1. PICK u \in Int, v \in Int, l \in Nat : u = ends[i] /\ v = ends[i - 1] /\ l = Len(sending)
        BY <1>10, <2>5
      <4>2. u = v + m /\ u \in 0..l /\ p = v - 1 + j /\ p >= 1
        BY <2>3, <2>5, <2>7, <3>1, <4>1
      <4>3. p \in 1..l - 1 /\ v + j = p + 1
        BY <4>2
      <4> QED
        BY <4>1, <4>3
    <3>3. sending[p + 1] = Code(owed[i])[j]
      <4>1. ends[i - 1] + j >= 1
        BY <3>2
      <4> QED
        BY <2>3, <3>2, <4>1
    <3> QED
      BY <1>10, <3>1, <3>2, <3>3
  <2> QED
    BY <2>2, <2>6, <2>7
<1>14. Cut(ends2)'
  BY <1>3, <1>8, <1>12, <1>13 DEF Cut
<1>15. ScanByteCntr' <= Len(Code(Head(owed')))
  BY <1>2, <1>3, <1>4, <1>5, <1>6, <1>8 DEF f
<1> QED
  BY <1>3, <1>4, <1>9, <1>11, <1>14, <1>15 DEF StreamInv, OnlyKeys

\* The decoder has recognized a code: the next one is owed from its first byte.
LEMMA EventStream ==
  ASSUME IInv, OnlyKeys, NoByte, EventReady
  PROVE  StreamInv'
PROOF
<1>1. PICK ends \in [0..Len(owed) -> Int] : Cut(ends)
  BY DEF IInv, StreamInv
<1>2. /\ ScanByteCntr \in 0..7
      /\ owed \in Seq(KeyEvent) /\ sending \in Seq(1..255)
  BY DEF IInv, Types, TypeOK
<1>3. /\ owed # << >> /\ owed' = Tail(owed) /\ sending' = sending
      /\ plugs' = plugs /\ pauses' = pauses
      /\ ScanBytes' = Empty /\ ScanByteCntr' = 0
  BY ParsedOwed DEF NoByte, Clock, Gather
<1>4. /\ Len(owed) \in Nat \ {0} /\ Len(owed') = Len(owed) - 1
      /\ \A i \in 1..Len(owed) - 1 : owed'[i] = owed[i + 1]
      /\ Head(owed) = owed[1] /\ owed[1] \in KeyEvent
      /\ owed' \in Seq(KeyEvent)
  BY <1>2, <1>3
<1>5. Gathered'
  BY <1>3 DEF Gathered, Empty
<1>6. PICK ends2 \in [0..Len(owed') -> Int] : \A i \in 0..Len(owed') : ends2[i] = ends[i + 1]
  <2> DEFINE moved == [i \in 0..Len(owed') |-> ends[i + 1]]
  <2>1. \A i \in 0..Len(owed') : i + 1 \in 0..Len(owed)
    BY <1>4
  <2>2. moved \in [0..Len(owed') -> Int] /\ \A i \in 0..Len(owed') : moved[i] = ends[i + 1]
    BY <1>1, <2>1
  <2> HIDE DEF moved
  <2> QED
    BY <2>2
<1>7. ends2[0] = 0
  <2>1. PICK n \in 1..6 : n = Len(Code(owed[1]))
    BY <1>4, KeyCodes
  <2>2. ScanByteCntr = n
    BY <1>4, <2>1, ParsedOwed
  <2>3. 1 \in 1..Len(owed) /\ 1 - 1 = 0 /\ 0 \in 0..Len(owed')
    BY <1>4
  <2>4. ends[0] + ScanByteCntr = 0 /\ ends[1] = ends[0] + n
    BY <1>1, <2>1, <2>3 DEF Cut
  <2> QED
    BY <1>2, <1>6, <2>2, <2>3, <2>4
<1>8. ends2[Len(owed')] = Len(sending)
  <2>1. Len(owed') \in 0..Len(owed') /\ Len(owed') + 1 = Len(owed)
    BY <1>4
  <2> QED
    BY <1>1, <1>6, <2>1 DEF Cut
<1>9. ASSUME NEW i \in 1..Len(owed')
      PROVE  /\ ends2[i] = ends2[i - 1] + Len(Code(owed'[i]))
             /\ ends2[i] \in 0..Len(sending)
             /\ \A j \in 1..Len(Code(owed'[i])) :
                  ends2[i - 1] + j >= 1 =>
                    sending[ends2[i - 1] + j] = Code(owed'[i])[j]
  <2>1. i + 1 \in 1..Len(owed) /\ (i + 1) - 1 = i /\ owed'[i] = owed[i + 1]
    BY <1>4
  <2>2. ends2[i] = ends[i + 1] /\ ends2[i - 1] = ends[i]
    BY <1>4, <1>6
  <2>3. /\ ends[i + 1] = ends[i] + Len(Code(owed[i + 1]))
        /\ ends[i + 1] \in 0..Len(sending)
        /\ \A j \in 1..Len(Code(owed[i + 1])) :
             ends[i] + j >= 1 => sending[ends[i] + j] = Code(owed[i + 1])[j]
    BY <1>1, <2>1 DEF Cut
  <2> QED
    BY <2>1, <2>2, <2>3
<1>10. Cut(ends2)'
  <2>1. ends2[0] + ScanByteCntr' = 0
    BY <1>3, <1>7
  <2>2. ends2[Len(owed')] = Len(sending')
    BY <1>3, <1>8
  <2>3. ASSUME NEW i \in 1..Len(owed')
        PROVE  /\ ends2[i] = ends2[i - 1] + Len(Code(owed'[i]))
               /\ ends2[i] \in 0..Len(sending')
               /\ \A j \in 1..Len(Code(owed'[i])) :
                    ends2[i - 1] + j >= 1 =>
                      sending'[ends2[i - 1] + j] = Code(owed'[i])[j]
    BY <1>3, <1>9
  <2> QED
    BY <2>1, <2>2, <2>3 DEF Cut
<1>11. owed' # << >> => ScanByteCntr' <= Len(Code(Head(owed')))
  <2>1. ASSUME owed' # << >> PROVE Head(owed') \in KeyEvent
    BY <1>4, <2>1
  <2>2. ASSUME NEW e \in KeyEvent PROVE 0 <= Len(Code(e))
    <3>1. PICK n \in 1..6 : n = Len(Code(e))
      BY KeyCodes
    <3> QED
      BY <3>1
  <2> QED
    BY <1>3, <2>1, <2>2
<1> QED
  BY <1>3, <1>5, <1>6, <1>10, <1>11 DEF StreamInv, OnlyKeys

\* The keyboard appends the code of the event it appends.
LEMMA SendStream ==
  ASSUME IInv, OnlyKeys, NEW e \in KeyEvent, Send(e)
  PROVE  StreamInv'
PROOF
<1>1. PICK ends \in [0..Len(owed) -> Int] : Cut(ends)
  BY DEF IInv, StreamInv
<1>2. /\ ScanByteCntr \in 0..7 /\ Gathered
      /\ owed \in Seq(KeyEvent) /\ sending \in Seq(1..255)
      /\ IF owed = << >> THEN ScanByteCntr = 0
         ELSE ScanByteCntr <= Len(Code(Head(owed)))
  BY DEF IInv, Types, TypeOK, StreamInv
<1>3. /\ owed' = Append(owed, e) /\ sending' = sending \o Code(e)
      /\ plugs' = plugs /\ pauses' = pauses
      /\ ScanBytes' = ScanBytes /\ ScanByteCntr' = ScanByteCntr
  BY DEF Send
<1>4. PICK n \in 1..6, c \in Seq(1..255) : c = Code(e) /\ n = Len(c)
  BY KeyCodes
<1>5. PICK l \in Nat, k \in Nat : l = Len(sending) /\ k = Len(owed)
  BY <1>2
<1>6. /\ Len(sending') = l + n
      /\ \A i \in 1..l : sending'[i] = sending[i]
      /\ \A i \in 1..n : sending'[l + i] = c[i]
  <2>1. /\ Len(sending') = l + n
        /\ \A i \in 1..l + n : sending'[i] = IF i <= l THEN sending[i] ELSE c[i - l]
    BY <1>2, <1>3, <1>4, <1>5, ConcatProperties
  <2>2. \A i \in 1..n : l + i \in 1..l + n /\ ~(l + i <= l) /\ l + i - l = i
    OBVIOUS
  <2>3. ASSUME NEW i \in 1..n PROVE sending'[l + i] = c[i]
    BY <2>1, <2>2
  <2> QED
    BY <2>1, <2>3
<1>7. /\ Len(owed') = k + 1 /\ owed'[k + 1] = e
      /\ \A i \in 1..k : owed'[i] = owed[i]
      /\ owed' # << >> /\ Head(owed') = owed'[1]
  BY <1>2, <1>3, <1>5
<1>8. ScanByteCntr' <= Len(Code(Head(owed'))) /\ Gathered'
  <2>1. CASE k = 0
    <3>1. owed = << >> /\ ScanByteCntr = 0
      BY <1>2, <1>5, <2>1, EmptySeq
    <3>2. \A i \in 1..8 : ScanBytes[i] = 0
      BY <1>2, <3>1 DEF Gathered
    <3>3. Head(owed') = e
      BY <1>7, <2>1
    <3>4. 0 <= Len(Code(e))
      BY <1>4
    <3> QED
      BY <1>3, <3>1, <3>2, <3>3, <3>4 DEF Gathered
  <2>2. CASE k # 0
    <3>1. owed # << >> /\ Head(owed') = Head(owed)
      BY <1>2, <1>5, <1>7, <2>2
    <3> QED
      BY <1>2, <1>3, <3>1 DEF Gathered
  <2> QED
    BY <2>1, <2>2
<1>9. PICK ends2 \in [0..k + 1 -> Int] :
        ends2[k + 1] = l + n /\ \A i \in 0..k : ends2[i] = ends[i]
  <2> DEFINE more == [i \in 0..k + 1 |-> IF i = k + 1 THEN l + n ELSE ends[i]]
  <2>1. more \in [0..k + 1 -> Int]
    BY <1>1, <1>5
  <2>2. more[k + 1] = l + n /\ \A i \in 0..k : more[i] = ends[i]
    OBVIOUS
  <2> HIDE DEF more
  <2> QED
    BY <2>1, <2>2
<1>10. ends[k] = l /\ ends2[k] = l /\ ends2[0] + ScanByteCntr = 0
  <2>1. 0 \in 0..k /\ k \in 0..k
    OBVIOUS
  <2>2. ends[k] = l /\ ends[0] + ScanByteCntr = 0
    BY <1>1, <1>5 DEF Cut
  <2> QED
    BY <1>9, <2>1, <2>2
<1> DEFINE Fits(i) ==
             /\ ends2[i] = ends2[i - 1] + Len(Code(owed'[i]))
             /\ ends2[i] \in 0..l + n
             /\ \A j \in 1..Len(Code(owed'[i])) :
                  ends2[i - 1] + j >= 1 =>
                    sending'[ends2[i - 1] + j] = Code(owed'[i])[j]
<1>11. ASSUME NEW i \in 1..k + 1
       PROVE  Fits(i)
  <2>1. CASE i = k + 1
    <3>1. i - 1 = k /\ owed'[i] = e /\ Code(owed'[i]) = c
      BY <1>4, <1>7, <2>1
    <3> QED
      <4>1. ends2[i] = l + n /\ ends2[i - 1] = l /\ Len(Code(owed'[i])) = n
        BY <1>4, <1>9, <1>10, <2>1, <3>1
      <4>2. l + n \in 0..l + n
        OBVIOUS
      <4>3. \A j \in 1..n : sending'[l + j] = Code(owed'[i])[j]
        BY <1>6, <3>1
      <4> QED
        BY <4>1, <4>2, <4>3
  <2>2. CASE i \in 1..k
    <3>1. owed'[i] = owed[i] /\ ends2[i] = ends[i] /\ ends2[i - 1] = ends[i - 1]
      BY <1>7, <1>9, <2>2
    <3>2. PICK m \in 1..6 : m = Len(Code(owed[i]))
      <4>1. owed[i] \in KeyEvent
        BY <1>2, <1>5, <2>2
      <4> QED
        BY <4>1, KeyCodes
    <3>3. /\ ends[i] = ends[i - 1] + m
          /\ ends[i] \in 0..l
          /\ \A j \in 1..m : ends[i - 1] + j >= 1 => sending[ends[i - 1] + j] = Code(owed[i])[j]
      BY <1>1, <1>5, <2>2, <3>2 DEF Cut
    <3>4. PICK u \in Int, v \in Int : u = ends[i] /\ v = ends[i - 1]
      <4>1. i \in 0..k /\ i - 1 \in 0..k
        BY <2>2
      <4>2. ends[i] \in Int /\ ends[i - 1] \in Int
        BY <1>1, <1>5, <4>1
      <4> QED
        BY <4>2
    <3>5. u = v + m /\ u \in 0..l /\ u \in 0..l + n
      <4>1. u = v + m /\ u \in 0..l
        BY <3>3, <3>4
      <4> QED
        BY <4>1
    <3>6. ASSUME NEW j \in 1..m, v + j >= 1
          PROVE  sending'[v + j] = Code(owed[i])[j]
      <4>1. v + j \in 1..l
        BY <3>5, <3>6
      <4>2. sending[v + j] = Code(owed[i])[j]
        BY <3>3, <3>4, <3>6
      <4> QED
        BY <1>6, <4>1, <4>2
    <3> QED
      BY <3>1, <3>2, <3>4, <3>5, <3>6
  <2> HIDE DEF Fits
  <2> QED
    BY <2>1, <2>2
<1>12. Cut(ends2)'
  <2>1. ends2[0] + ScanByteCntr' = 0 /\ ends2[Len(owed')] = Len(sending')
    BY <1>3, <1>6, <1>7, <1>9, <1>10
  <2>2. ASSUME NEW i \in 1..Len(owed')
        PROVE  /\ ends2[i] = ends2[i - 1] + Len(Code(owed'[i]))
               /\ ends2[i] \in 0..Len(sending')
               /\ \A j \in 1..Len(Code(owed'[i])) :
                    ends2[i - 1] + j >= 1 =>
                      sending'[ends2[i - 1] + j] = Code(owed'[i])[j]
    BY <1>6, <1>7, <1>11
  <2> QED
    BY <2>1, <2>2 DEF Cut
<1>13. ends2 \in [0..Len(owed') -> Int]
  BY <1>7, <1>9
<1> QED
  BY <1>3, <1>7, <1>8, <1>12, <1>13 DEF StreamInv, OnlyKeys

\* Foreign bytes end the time in which only keys send bytes.
LEMMA Foreign ==
  ASSUME TypeOK, Plug \/ PressPause
  PROVE  owed' = << >> /\ ~OnlyKeys'
PROOF
<1>1. plugs \in Nat /\ pauses \in Nat
  BY KeysAssumption DEF TypeOK, KeysAssumption
<1> QED
  BY <1>1 DEF Plug, PressPause, SendForeign, OnlyKeys

LEMMA Sent ==
  ASSUME NEW k \in Keys, Press(k) \/ Release(k)
  PROVE  \E e \in KeyEvent : Send(e)
PROOF
<1>1. k \in KnownKeys
  BY KeysAssumption DEF KeysAssumption
<1> QED
  BY <1>1 DEF Press, Release, KeyEvent

\* It does not come back.
LEMMA Foreigns ==
  ASSUME TypeOK, Next, ~OnlyKeys
  PROVE  ~OnlyKeys'
PROOF
<1>1. CASE Plug \/ PressPause
  BY <1>1, Foreign
<1>2. CASE Byte \/ NoByte \/ Button \/ \E k \in Keys : Press(k) \/ Release(k)
  <2>1. plugs' = plugs /\ pauses' = pauses
    BY <1>2 DEF Byte, NoByte, Clock, Button, Press, Release, Send
  <2> QED
    BY <2>1 DEF OnlyKeys
<1> QED
  BY <1>1, <1>2 DEF Next, Keyboard

\* All steps.
LEMMA StreamStep ==
  ASSUME IInv, Next
  PROVE  StreamInv'
PROOF
<1>1. CASE OnlyKeys
  <2>1. CASE Byte
    BY <1>1, <2>1, ByteStream
  <2>2. CASE NoByte /\ EventReady
    BY <1>1, <2>2, EventStream
  <2>3. ASSUME UNCHANGED <<ScanBytes, ScanByteCntr, owed, sending, plugs, pauses>>
        PROVE  StreamInv'
    <3>1. PICK ends \in [0..Len(owed) -> Int] : Cut(ends)
      BY <1>1 DEF IInv, StreamInv
    <3>2. Cut(ends)'
      BY <2>3, <3>1 DEF Cut
    <3>3. Gathered'
      BY <1>1, <2>3 DEF IInv, StreamInv, Gathered
    <3>4. OnlyKeys'
      BY <1>1, <2>3 DEF OnlyKeys
    <3> QED
      BY <1>1, <2>3, <3>2, <3>3, <3>4 DEF IInv, StreamInv
  <2>4. CASE NoByte /\ ~EventReady
    <3>1. UNCHANGED <<ScanBytes, ScanByteCntr, owed, sending, plugs, pauses>>
      BY <2>4 DEF NoByte, Clock, Gather
    <3> QED
      BY <2>3, <3>1
  <2>5. CASE Button
    BY <2>3, <2>5 DEF Button
  <2>6. CASE Plug \/ PressPause
    BY <2>6, Foreign DEF IInv, Types, StreamInv
  <2>7. ASSUME NEW k \in Keys, Press(k) \/ Release(k) PROVE StreamInv'
    BY <1>1, <2>7, Sent, SendStream
  <2> QED
    BY <2>1, <2>2, <2>4, <2>5, <2>6, <2>7 DEF Next, Keyboard
<1>2. CASE ~OnlyKeys
  <2>1. owed = << >> /\ TypeOK
    BY <1>2 DEF IInv, StreamInv, Types
  <2>2. owed' = << >>
    <3>1. CASE Byte \/ NoByte
      BY <2>1, <3>1 DEF Byte, NoByte, Clock
    <3>2. CASE Plug \/ PressPause \/ Button
      BY <2>1, <3>2 DEF Plug, PressPause, SendForeign, Button
    <3>3. ASSUME NEW k \in Keys, Press(k) \/ Release(k)
          PROVE  owed' = << >>
      BY <1>2, <3>3 DEF Press, Release, Send
    <3> QED
      BY <3>1, <3>2, <3>3 DEF Next, Keyboard
  <2> QED
    BY <1>2, <2>1, <2>2, Foreigns DEF StreamInv
<1> QED
  BY <1>1, <1>2

-----------------------------------------------------------------------------
(* The steps keep the registers behind the keys *)

\* A register takes its event, and KEY[0] hides the keys that are down.
LEMMA Registers ==
  ASSUME Types, NEW k \in KnownKeys, KeyInv(k), About(k) = {},
         HOLDING' = IF reset THEN {} ELSE Held,
         forgotten' = IF reset THEN down ELSE forgotten
  PROVE  /\ k \in HOLDING' => k \in down
         /\ k \in Used /\ k \in down /\ k \notin forgotten' => k \in HOLDING'
PROOF
<1>1. CASE reset
  BY <1>1
<1>2. CASE ~reset /\ oEventType.key = k
  <2>1. oEventType \in KeyEvent
    BY <1>2, Numbers DEF Types, TypeOK, None, Events
  <2>2. oEventType.kind = "make" \/ oEventType.kind = "break"
    BY <2>1 DEF KeyEvent
  <2>3. oEventType.kind = "make" <=> k \in down
    BY <1>2 DEF KeyInv
  <2>4. CASE oEventType.kind = "make"
    BY <1>2, <2>3, <2>4 DEF Held
  <2>5. CASE oEventType.kind = "break"
    BY <1>2, <2>3, <2>5 DEF Held
  <2> QED
    BY <2>2, <2>4, <2>5
<1>3. CASE ~reset /\ oEventType.key # k
  <2>1. /\ k \in HOLDING => k \in down
        /\ k \in Used /\ k \in down /\ k \notin forgotten => k \in HOLDING
    BY <1>3 DEF KeyInv
  <2>2. k \in Held <=> k \in HOLDING
    BY <1>3 DEF Held
  <2> QED
    BY <1>3, <2>1, <2>2
<1> QED
  BY <1>1, <1>2, <1>3

\* A cycle without an event.
LEMMA QuietKeys ==
  ASSUME IInv, NEW byte, Clock(byte), ~EventReady, NEW k \in KnownKeys, KeyInv(k)
  PROVE  KeyInv(k)'
PROOF
<1>1. /\ owed' = owed /\ down' = down /\ oEventType' = None
      /\ HOLDING' = IF reset THEN {} ELSE Held
      /\ forgotten' = IF reset THEN down ELSE forgotten
  BY DEF Clock, EventType
<1>2. None.key # k
  BY Numbers DEF None
<1>3. About(k)' = About(k)
  BY <1>1 DEF About
<1>4. About(k) = {} =>
        /\ k \in HOLDING' => k \in down
        /\ k \in Used /\ k \in down /\ k \notin forgotten' => k \in HOLDING'
  BY <1>1, Registers DEF IInv
<1>6. \A i \in About(k) : (\A j \in About(k) : j <= i) => (owed[i].kind = "make" <=> k \in down)
  BY DEF KeyInv
<1>7. \A i \in About(k)' : (\A j \in About(k)' : j <= i) => (owed'[i].kind = "make" <=> k \in down')
  BY <1>1, <1>3, <1>6
<1> QED
  BY <1>1, <1>2, <1>3, <1>4, <1>7 DEF KeyInv

\* A cycle with an event: the next one owed enters oEventType.
LEMMA EventKeys ==
  ASSUME IInv, OnlyKeys, NEW byte, Clock(byte), EventReady,
         NEW k \in KnownKeys, KeyInv(k)
  PROVE  KeyInv(k)'
PROOF
<1>1. /\ owed # << >> /\ owed' = Tail(owed) /\ down' = down
      /\ oEventType' = Head(owed)
      /\ HOLDING' = IF reset THEN {} ELSE Held
      /\ forgotten' = IF reset THEN down ELSE forgotten
  BY ParsedOwed DEF Clock
<1>2. PICK l \in Nat : Len(owed) = l + 1
  <2>1. Len(owed) \in Nat \ {0}
    BY <1>1, EmptySeq DEF IInv, Types
  <2>2. Len(owed) - 1 \in Nat /\ Len(owed) = (Len(owed) - 1) + 1
    BY <2>1
  <2> QED
    BY <2>2
<1>3. /\ Len(owed') = l /\ Head(owed) = owed[1]
      /\ \A i \in 1..l : owed'[i] = owed[i + 1]
  BY <1>1, <1>2 DEF IInv, Types
<1>4. \A i \in 1..l : i \in About(k)' <=> i + 1 \in About(k)
  BY <1>2, <1>3 DEF About
<1>5. 1 \in About(k) <=> owed[1].key = k
  BY <1>2 DEF About
<1>6. About(k) \subseteq 1..l + 1 /\ About(k)' \subseteq 1..l
  BY <1>2, <1>3 DEF About
<1>8. \A i \in About(k) : (\A j \in About(k) : j <= i) => (owed[i].kind = "make" <=> k \in down)
  BY DEF KeyInv
<1>9. ASSUME NEW i \in About(k)', \A j \in About(k)' : j <= i
      PROVE  (owed'[i].kind = "make" <=> k \in down')
  <2>1. i \in 1..l /\ i + 1 \in About(k)
    BY <1>4, <1>6
  <2>2. ASSUME NEW j \in About(k) PROVE j <= i + 1
    <3>1. j \in 1..l + 1
      BY <1>6
    <3>2. CASE j = 1
      BY <2>1, <3>2
    <3>3. CASE j # 1
      <4>1. j - 1 \in 1..l /\ (j - 1) + 1 = j
        BY <3>1, <3>3
      <4>2. j - 1 \in About(k)'
        BY <1>4, <4>1
      <4> QED
        BY <1>9, <2>1, <3>1, <4>2
    <3> QED
      BY <3>2, <3>3
  <2>3. (owed[i + 1].kind = "make" <=> k \in down)
    BY <1>8, <2>1, <2>2
  <2> QED
    BY <1>1, <1>3, <2>1, <2>3
<1>10. ASSUME About(k)' = {}, owed[1].key = k
       PROVE  (owed[1].kind = "make" <=> k \in down')
  <2>1. \A j \in About(k) : j <= 1
    <3>1. ASSUME NEW j \in About(k), j # 1 PROVE FALSE
      <4>1. j - 1 \in 1..l /\ (j - 1) + 1 = j
        BY <1>6, <3>1
      <4> QED
        BY <1>4, <1>10, <4>1
    <3> QED
      BY <3>1
  <2>2. (owed[1].kind = "make" <=> k \in down)
    BY <1>5, <1>8, <1>10, <2>1
  <2> QED
    BY <1>1, <2>2
<1>11. ASSUME About(k)' = {}, owed[1].key # k
       PROVE  About(k) = {}
  <2>1. ASSUME NEW j \in About(k) PROVE FALSE
    <3>1. j # 1
      BY <1>5, <1>11
    <3>2. j - 1 \in 1..l /\ (j - 1) + 1 = j
      BY <1>6, <3>1
    <3> QED
      BY <1>4, <1>11, <3>2
  <2> QED
    BY <2>1
<1>12. About(k) = {} =>
         /\ k \in HOLDING' => k \in down
         /\ k \in Used /\ k \in down /\ k \notin forgotten' => k \in HOLDING'
  BY <1>1, Registers DEF IInv
<1> QED
  BY <1>1, <1>3, <1>9, <1>10, <1>11, <1>12 DEF KeyInv

\* The keyboard's latest event about a key tells how the key is.
LEMMA SendKeys ==
  ASSUME IInv, OnlyKeys, NEW e \in KeyEvent, Send(e), NEW k \in KnownKeys, KeyInv(k),
         e.key # k => (k \in down' <=> k \in down),
         e.key = k => (e.kind = "make" <=> k \in down')
  PROVE  KeyInv(k)'
PROOF
<1>1. /\ owed' = Append(owed, e) /\ forgotten' = forgotten \ {e.key}
      /\ oEventType' = oEventType /\ HOLDING' = HOLDING
  BY DEF Send
<1>2. PICK l \in Nat : l = Len(owed)
  BY DEF IInv, Types
<1>3. /\ Len(owed') = l + 1 /\ owed'[l + 1] = e
      /\ \A i \in 1..l : owed'[i] = owed[i]
  BY <1>1, <1>2 DEF IInv, Types
<1>4. About(k) \subseteq 1..l /\ About(k)' \subseteq 1..l + 1
  BY <1>2, <1>3 DEF About
<1>5. \A i \in 1..l : i \in About(k)' <=> i \in About(k)
  BY <1>2, <1>3 DEF About
<1>6. CASE e.key = k
  <2>1. l + 1 \in About(k)'
    BY <1>3, <1>6 DEF About
  <2>2. ASSUME NEW i \in About(k)', \A j \in About(k)' : j <= i
        PROVE  (owed'[i].kind = "make" <=> k \in down')
    <3>1. i = l + 1
      BY <1>4, <2>1, <2>2
    <3> QED
      BY <1>3, <1>6, <3>1
  <2> QED
    BY <2>1, <2>2 DEF KeyInv
<1>7. CASE e.key # k
  <2>1. l + 1 \notin About(k)'
    BY <1>3, <1>7 DEF About
  <2>2. About(k)' = About(k)
    <3>1. \A i \in 1..l + 1 : i = l + 1 \/ i \in 1..l
      OBVIOUS
    <3>2. \A i : i \in About(k)' <=> i \in About(k)
      BY <1>4, <1>5, <2>1, <3>1
    <3> QED
      BY <3>2, Zenon
  <2>3. k \in down' <=> k \in down
    BY <1>7
  <2>4. k \in forgotten' <=> k \in forgotten
    BY <1>1, <1>7
  <2>5. \A i \in About(k) : owed'[i] = owed[i]
    BY <1>3, <1>4
  <2> QED
    BY <1>1, <1>7, <2>2, <2>3, <2>4, <2>5 DEF KeyInv
<1> QED
  BY <1>6, <1>7

LEMMA HoldingStep ==
  ASSUME IInv, Next
  PROVE  HoldingInv'
PROOF
<1>1. SUFFICES ASSUME OnlyKeys', NEW k \in KnownKeys
               PROVE  KeyInv(k)'
  BY DEF HoldingInv
<1>2. OnlyKeys
  BY <1>1, Foreigns DEF IInv, Types
<1>3. KeyInv(k)
  BY <1>2 DEF IInv, HoldingInv
<1>4. CASE Byte
  BY <1>3, <1>4, QuietKeys DEF Byte, Busy
<1>5. CASE NoByte
  BY <1>2, <1>3, <1>5, QuietKeys, EventKeys DEF NoByte
<1>6. CASE Plug \/ PressPause
  BY <1>1, <1>6, Foreign DEF IInv, Types
<1>7. CASE Button
  BY <1>3, <1>7 DEF Button, KeyInv, About
<1>8. ASSUME NEW key \in Keys, Press(key) PROVE KeyInv(k)'
  <2> DEFINE e == [kind |-> "make", key |-> key]
  <2>1. e \in KeyEvent /\ e.key = key /\ e.kind = "make"
    BY KeysAssumption DEF KeyEvent, KeysAssumption
  <2>2. Send(e) /\ down' = down \cup {key}
    BY <1>8 DEF Press
  <2> HIDE DEF e
  <2> QED
    BY <1>2, <1>3, <2>1, <2>2, SendKeys
<1>9. ASSUME NEW key \in Keys, Release(key) PROVE KeyInv(k)'
  <2> DEFINE e == [kind |-> "break", key |-> key]
  <2>1. e \in KeyEvent /\ e.key = key /\ e.kind # "make"
    BY KeysAssumption DEF KeyEvent, KeysAssumption
  <2>2. Send(e) /\ down' = down \ {key}
    BY <1>9 DEF Release
  <2> HIDE DEF e
  <2> QED
    BY <1>2, <1>3, <2>1, <2>2, SendKeys
<1> QED
  BY <1>4, <1>5, <1>6, <1>7, <1>8, <1>9 DEF Next, Keyboard

-----------------------------------------------------------------------------
(* The steps keep in step, or lead back to it *)

LEMMA WholeTail ==
  ASSUME NEW s \in Seq(1..255), s # << >>, NEW m \in Int, Whole(s, m)
  PROVE  Whole(Tail(s), m - 1)
PROOF
<1>1. PICK l \in Nat : Len(s) = l + 1
  <2>1. Len(s) \in Nat \ {0}
    BY EmptySeq
  <2>2. Len(s) - 1 \in Nat /\ Len(s) = (Len(s) - 1) + 1
    BY <2>1
  <2> QED
    BY <2>2
<1> DEFINE t == Tail(s)
<1>2. Len(t) = l /\ \A i \in 1..l : t[i] = s[i + 1]
  BY <1>1, HeadTailProperties
<1> HIDE DEF t
<1>3. ASSUME NEW i \in 1..Len(t), i > m - 1 PROVE Follows(t, i)
  <2>1. i \in 1..l /\ i + 1 \in 1..l + 1 /\ i + 1 > m
    BY <1>2, <1>3
  <2>2. Follows(s, i + 1)
    BY <1>1, <2>1 DEF Whole
  <2>3. /\ s[i + 1] \in {Prefix, BreakPrefix} \cup PlainKeys
        /\ s[i + 1] = BreakPrefix => i + 2 <= l + 1 /\ s[i + 2] \in PlainKeys
        /\ s[i + 1] = Prefix =>
             \/ i + 2 <= l + 1 /\ s[i + 2] \in SyncBytes
             \/ i + 3 <= l + 1 /\ s[i + 2] = BreakPrefix /\ s[i + 3] \in SyncBytes
    BY <1>1, <2>1, <2>2 DEF Follows
  <2>4. /\ t[i] = s[i + 1]
        /\ i + 2 <= l + 1 => i + 1 \in 1..l /\ t[i + 1] = s[i + 2]
        /\ i + 3 <= l + 1 => i + 2 \in 1..l /\ t[i + 2] = s[i + 3]
    BY <1>2, <2>1
  <2> QED
    BY <1>2, <2>1, <2>3, <2>4 DEF Follows
<1> QED
  BY <1>3 DEF Whole, t

LEMMA WholeConcat ==
  ASSUME NEW s \in Seq(1..255), NEW c \in Seq(1..255), NEW m \in Int,
         Whole(s, m), Whole(c, 0)
  PROVE  Whole(s \o c, m)
PROOF
<1> DEFINE t == s \o c
<1>1. PICK l \in Nat, n \in Nat : l = Len(s) /\ n = Len(c)
  OBVIOUS
<1>2. /\ Len(t) = l + n
      /\ \A i \in 1..l + n : t[i] = IF i <= l THEN s[i] ELSE c[i - l]
  BY <1>1, ConcatProperties
<1> HIDE DEF t
<1>3. ASSUME NEW i \in 1..l, i > m PROVE Follows(t, i)
  <2>1. Follows(s, i)
    BY <1>1, <1>3 DEF Whole
  <2>2. /\ t[i] = s[i]
        /\ i + 1 <= l => t[i + 1] = s[i + 1] /\ i + 1 <= l + n
        /\ i + 2 <= l => t[i + 2] = s[i + 2] /\ i + 2 <= l + n
    BY <1>2
  <2> QED
    BY <1>1, <1>2, <2>1, <2>2 DEF Follows
<1>4. ASSUME NEW j \in 1..n PROVE Follows(t, l + j)
  <2>1. Follows(c, j)
    BY <1>1 DEF Whole
  <2>2. ASSUME NEW d \in 0..2, j + d <= n
        PROVE  t[l + j + d] = c[j + d] /\ l + j + d <= l + n
    <3>1. l + j + d \in 1..l + n /\ ~(l + j + d <= l) /\ l + j + d - l = j + d
      BY <2>2
    <3> QED
      BY <1>2, <3>1
  <2>3. /\ t[l + j] = c[j]
        /\ j + 1 <= n => t[l + j + 1] = c[j + 1] /\ l + j + 1 <= l + n
        /\ j + 2 <= n => t[l + j + 2] = c[j + 2] /\ l + j + 2 <= l + n
    <3>1. t[l + j + 0] = c[j + 0] /\ l + j + 0 = l + j /\ j + 0 = j
      BY <2>2
    <3> QED
      BY <2>2, <3>1
  <2> QED
    BY <1>1, <1>2, <2>1, <2>3 DEF Follows
<1>5. ASSUME NEW i \in 1..Len(t), i > m PROVE Follows(t, i)
  <2>1. CASE i \in 1..l
    BY <1>3, <1>5, <2>1
  <2>2. CASE i \notin 1..l
    <3>1. i - l \in 1..n /\ l + (i - l) = i
      BY <1>2, <2>2
    <3> QED
      BY <1>4, <3>1
  <2> QED
    BY <2>1, <2>2
<1> QED
  BY <1>5 DEF Whole, t

\* The codes of the keys in Closing.
LEMMA WholeCode ==
  ASSUME NEW e \in KeyEvent, e.key \in Closing
  PROVE  Whole(Code(e), 0)
PROOF
<1> DEFINE c == Code(e)
<1>1. Shape(e, c)
  BY Shapes DEF Events
<1>2. e.key # PrtScr /\ e.key # Pause
  <2>1. e.key # Pause
    BY Numbers DEF KeyEvent
  <2>2. e.key \in PlainKeys \/ e.key \in ExtendedKeys
    BY DEF Closing
  <2> QED
    BY <2>1, <2>2, Numbers
<1> HIDE DEF c
<1>3. \A b \in ExtendedBytes : e.key = Ext(b) => b \in SyncBytes
  BY Numbers DEF Closing, SyncBytes, ExtendedKeys
<1>4. \/ \E b \in PlainKeys : Len(c) = 1 /\ c[1] = b
      \/ \E b \in PlainKeys : Len(c) = 2 /\ c[1] = 240 /\ c[2] = b
      \/ \E b \in SyncBytes : Len(c) = 2 /\ c[1] = 224 /\ c[2] = b
      \/ \E b \in SyncBytes : Len(c) = 3 /\ c[1] = 224 /\ c[2] = 240 /\ c[3] = b
  BY <1>1, <1>2, <1>3, Fields DEF Shape
<1>5. /\ \A b \in PlainKeys : b # 224 /\ b # 240
      /\ SyncBytes \subseteq PlainKeys
  BY Bytes DEF SyncBytes
<1>6. ASSUME NEW i \in 1..Len(c) PROVE Follows(c, i)
  <2>1. i \in 1..3
    <3>1. PICK m \in 1..3 : m = Len(c)
      BY <1>4
    <3>2. i \in 1..m
      BY <3>1
    <3> QED
      BY <3>2
  <2> QED
    BY <1>4, <1>5, <1>6, <2>1 DEF Follows, Prefix, BreakPrefix
<1> QED
  BY <1>6 DEF Whole, c

\* What a byte does to the controller.
LEMMA ByteMoves ==
  ASSUME IInv, Byte
  PROVE  /\ ScanBytes \in [1..8 -> 0..255] /\ ScanByteCntr \in 0..7 /\ noise \in Int /\ noise <= 7
         /\ Len(sending) \in Nat \ {0} /\ sending[1] \in 1..255
         /\ ScanBytes' = [ScanBytes EXCEPT ![ScanByteCntr + 1] = sending[1]]
         /\ ScanBytes' \in [1..8 -> 0..255]
         /\ ScanByteCntr' = (ScanByteCntr + 1) % 8
         /\ noise' = IF noise < 7 THEN noise + 1 ELSE 7
         /\ sending' = Tail(sending) /\ ~EventReady
         /\ Len(sending') = Len(sending) - 1
         /\ \A i \in 1..Len(sending) - 1 : sending'[i] = sending[i + 1]
PROOF
<1> DEFINE b == Head(sending)
<1>1. /\ ScanBytes \in [1..8 -> 0..255] /\ ScanByteCntr \in 0..7
      /\ sending \in Seq(1..255) /\ sending # << >> /\ noise \in -Len(sending)..7
  BY DEF IInv, Types, TypeOK, Byte
<1>2. Len(sending) \in Nat \ {0} /\ b = sending[1] /\ sending[1] \in 1..255
  <2>1. Len(sending) \in Nat \ {0} /\ b = sending[1]
    BY <1>1, EmptySeq
  <2>2. 1 \in 1..Len(sending)
    BY <2>1
  <2> QED
    BY <1>1, <2>1, <2>2, ElementOfSeq
<1>3. noise \in Int /\ noise <= 7
  BY <1>1, <1>2
<1>4. /\ Len(Tail(sending)) = Len(sending) - 1
      /\ \A i \in 1..Len(sending) - 1 : Tail(sending)[i] = sending[i + 1]
  BY <1>1, HeadTailProperties
<1> HIDE DEF b
<1>5. b # 0
  <2>1. PICK d \in 1..255 : d = b
    BY <1>2
  <2> QED
    BY <2>1
<1>6. /\ ScanBytes' = [ScanBytes EXCEPT ![ScanByteCntr + 1] = b]
      /\ ScanByteCntr' = (ScanByteCntr + 1) % 8
      /\ noise' = IF noise < 7 THEN noise + 1 ELSE 7
      /\ sending' = Tail(sending) /\ ~EventReady
  BY <1>5 DEF Byte, Busy, Clock, Gather, NextCntr, b
<1>7. ScanBytes' \in [1..8 -> 0..255]
  <2>1. b \in 0..255
    BY <1>2
  <2> QED
    BY <1>1, <1>6, <2>1
<1> QED
  BY <1>1, <1>2, <1>3, <1>4, <1>6, <1>7

\* A byte out of step: the counter runs on, or wraps.
LEMMA ByteOutOfStep ==
  ASSUME IInv, Byte, OutOfStep
  PROVE  OutOfStep' \/ InStep'
PROOF
<1>1. /\ ScanByteCntr \in 1..7 \/ ScanByteCntr = 0
      /\ noise \in Int /\ noise <= 6 /\ ScanByteCntr >= noise + 1
      /\ ScanByteCntr' = (ScanByteCntr + 1) % 8 /\ noise' = noise + 1
  BY ByteMoves DEF OutOfStep
<1>2. CASE ScanByteCntr = 7
  <2>1. ScanByteCntr' = 0
    BY <1>1, <1>2
  <2> QED
    BY <2>1 DEF InStep
<1>3. CASE ScanByteCntr # 7
  <2>1. ScanByteCntr' = ScanByteCntr + 1
    BY <1>1, <1>3
  <2> QED
    BY <1>1, <2>1 DEF OutOfStep
<1> QED
  BY <1>2, <1>3

\* A byte in step: the code gathered grows, or foreign bytes begin.
LEMMA ByteInStep ==
  ASSUME IInv, Byte, InStep
  PROVE  OutOfStep' \/ InStep'
PROOF
<1> DEFINE b == sending[1]
<1>1. /\ ScanBytes \in [1..8 -> 0..255] /\ ScanByteCntr \in 0..7 /\ noise \in Int
      /\ ScanBytes' = [ScanBytes EXCEPT ![ScanByteCntr + 1] = b]
      /\ ScanBytes' \in [1..8 -> 0..255]
      /\ ScanByteCntr' = (ScanByteCntr + 1) % 8
      /\ noise' = IF noise < 7 THEN noise + 1 ELSE 7
      /\ ~EventReady
  BY ByteMoves
<1>2. /\ Len(sending) \in Nat \ {0} /\ Len(sending') = Len(sending) - 1
      /\ \A i \in 1..Len(sending) - 1 : sending'[i] = sending[i + 1]
  BY ByteMoves
<1>3. \/ ScanBytes'[1] \in PlainKeys
      \/ ScanBytes'[1] = BreakPrefix /\ ScanBytes'[2] \in PlainKeys
      \/ ScanBytes'[1] = Prefix /\ ScanBytes'[2] \in SyncBytes
      \/ ScanBytes'[1] = Prefix /\ ScanBytes'[2] = BreakPrefix /\ ScanBytes'[3] \in SyncBytes
      => InStep'
  <2>1. SyncBytes \subseteq ExtendedBytes
    BY DEF SyncBytes
  <2>2. (\E n \in 1..8 : SubSeq(ScanBytes', 1, n) \in Codes) => EventReady'
    BY DEF EventReady, First
  <2> QED
    BY <1>1, <2>1, <2>2, Recognized DEF InStep
<1>4. CASE noise < 0
  <2>1. ScanByteCntr' \in 0..7 /\ noise' <= 0 /\ noise' \in Int
    BY <1>1, <1>4
  <2>2. ScanByteCntr' = 0 \/ ScanByteCntr' >= noise' + 1
    <3>1. PICK u \in 0..7, v \in Int : u = ScanByteCntr' /\ v = noise' /\ v <= 0
      BY <2>1
    <3>2. v <= 0
      BY <3>1
    <3>3. u = 0 \/ u >= v + 1
      BY <3>2
    <3> QED
      BY <3>1, <3>3
  <2> QED
    BY <2>2 DEF OutOfStep, InStep
<1>5. CASE noise >= 0 /\ ScanByteCntr = 0
  <2>1. ScanBytes'[1] = b /\ ScanByteCntr' = 1
    BY <1>1, <1>5
  <2>2. Follows(sending, 1)
    <3>1. 1 \in 1..Len(sending) /\ 1 > -noise
      BY <1>1, <1>2, <1>5
    <3> QED
      BY <3>1 DEF IInv, StepInv, Whole
  <2>3. CASE b \in PlainKeys
    BY <1>3, <2>1, <2>3
  <2>4. CASE b = BreakPrefix
    <3>1. Len(sending) >= 2 /\ sending[2] \in PlainKeys
      BY <1>2, <2>2, <2>4 DEF Follows
    <3>2. Comes(sending', PlainKeys)
      BY <1>2, <3>1 DEF Comes
    <3> QED
      BY <2>1, <2>4, <3>2 DEF InStep
  <2>5. CASE b = Prefix
    <3>1. \/ Len(sending) >= 2 /\ sending[2] \in SyncBytes
          \/ Len(sending) >= 3 /\ sending[2] = BreakPrefix /\ sending[3] \in SyncBytes
      BY <1>2, <2>2, <2>5 DEF Follows
    <3>2. Comes(sending', SyncBytes) \/ ComeTwo(sending', BreakPrefix, SyncBytes)
      BY <1>2, <3>1 DEF Comes, ComeTwo
    <3> QED
      BY <2>1, <2>5, <3>2 DEF InStep
  <2> QED
    BY <2>2, <2>3, <2>4, <2>5 DEF Follows
<1>6. CASE ScanByteCntr = 1
  <2>1. ScanBytes'[1] = ScanBytes[1] /\ ScanBytes'[2] = b /\ ScanByteCntr' = 2
    BY <1>1, <1>6
  <2>2. CASE ScanBytes[1] = BreakPrefix /\ Comes(sending, PlainKeys)
    BY <1>3, <2>1, <2>2 DEF Comes
  <2>3. CASE ScanBytes[1] = Prefix /\ Comes(sending, SyncBytes)
    BY <1>3, <2>1, <2>3 DEF Comes
  <2>4. CASE ScanBytes[1] = Prefix /\ ComeTwo(sending, BreakPrefix, SyncBytes)
    <3>1. b = BreakPrefix /\ Comes(sending', SyncBytes)
      BY <1>2, <2>4 DEF Comes, ComeTwo
    <3> QED
      BY <2>1, <2>4, <3>1 DEF InStep
  <2> QED
    BY <1>1, <1>6, <2>2, <2>3, <2>4 DEF InStep
<1>7. CASE ScanByteCntr = 2
  <2>1. /\ ScanBytes'[1] = ScanBytes[1] /\ ScanBytes'[2] = ScanBytes[2]
        /\ ScanBytes'[3] = b
    BY <1>1, <1>7
  <2>2. ScanBytes[1] = Prefix /\ ScanBytes[2] = BreakPrefix /\ b \in SyncBytes
    BY <1>1, <1>7 DEF InStep, Comes
  <2> QED
    BY <1>3, <2>1, <2>2
<1> QED
  BY <1>1, <1>4, <1>5, <1>6, <1>7 DEF InStep

\* What is sent behind the bytes that wait, of a key in Closing or foreign.
LEMMA ForeignStep ==
  ASSUME TypeOK, NEW n \in Nat \ {0}, Len(sending') = n, noise' = -n,
         UNCHANGED ScanByteCntr
  PROVE  StepInv'
PROOF
<1>1. Whole(sending', n)
  BY DEF Whole
<1>2. -noise' = n /\ ScanByteCntr' >= noise' + 1
  BY DEF TypeOK
<1> QED
  BY <1>1, <1>2 DEF StepInv, OutOfStep

LEMMA SendStep ==
  ASSUME IInv, NEW e \in KeyEvent, Send(e)
  PROVE  StepInv'
PROOF
<1>1. /\ UNCHANGED <<ScanBytes, ScanByteCntr>> /\ sending' = sending \o Code(e)
      /\ noise' = IF e.key \in Closing THEN noise ELSE -Len(sending')
  BY DEF Send
<1>2. sending \in Seq(1..255) /\ Whole(sending, -noise) /\ (OutOfStep \/ InStep)
  BY DEF IInv, Types, StepInv
<1>3. PICK c \in Seq(1..255), l \in Nat, n \in 1..6 :
        c = Code(e) /\ l = Len(sending) /\ n = Len(c)
  BY <1>2, KeyCodes
<1>4. noise \in Int
  BY <1>3 DEF IInv, Types, TypeOK
<1>5. /\ Len(sending') = l + n
      /\ \A i \in 1..l + n : sending'[i] = IF i <= l THEN sending[i] ELSE c[i - l]
  BY <1>1, <1>2, <1>3, ConcatProperties
<1>6. CASE e.key \in Closing
  <2>1. Whole(sending', -noise)
    BY <1>1, <1>2, <1>3, <1>4, <1>6, WholeCode, WholeConcat
  <2>2. EventReady' <=> EventReady
    BY <1>1 DEF EventReady, First
  <2>3. /\ l >= 1 => l + n >= 1 /\ sending'[1] = sending[1]
        /\ l >= 2 => l + n >= 2 /\ sending'[2] = sending[2]
    <3>1. /\ l >= 1 => 1 \in 1..l + n /\ l + n >= 1
          /\ l >= 2 => 2 \in 1..l + n /\ l + n >= 2
      OBVIOUS
    <3> QED
      BY <1>5, <3>1
  <2>4. /\ \A S : Comes(sending, S) => Comes(sending', S)
        /\ \A b, S : ComeTwo(sending, b, S) => ComeTwo(sending', b, S)
    BY <1>3, <1>5, <2>3 DEF Comes, ComeTwo
  <2> QED
    BY <1>1, <1>2, <1>6, <2>1, <2>2, <2>4 DEF StepInv, OutOfStep, InStep
<1>7. CASE e.key \notin Closing
  <2>1. l + n \in Nat \ {0} /\ noise' = -(l + n)
    BY <1>1, <1>5, <1>7
  <2> QED
    BY <1>1, <1>5, <2>1, ForeignStep DEF IInv, Types
<1> QED
  BY <1>6, <1>7

\* The foreign bytes put behind the bytes that wait.
LEMMA ForeignBytes ==
  ASSUME sending \in Seq(1..255), Len(sending) <= MaxWaiting, MaxWaiting \in Nat,
         NEW bytes \in {SelfTestPassed, PauseBytes}, sending' = sending \o bytes
  PROVE  /\ sending' \in Seq(1..255) /\ Len(sending') \in Nat \ {0}
         /\ Len(sending') <= MaxWaiting + 8
PROOF
<1>1. bytes \in Seq(1..255) /\ Len(bytes) \in 1..8
  <2>1. <<170>> \in Seq(1..255) /\ Len(<<170>>) \in 1..8
    OBVIOUS
  <2>2. /\ <<225, 20, 119, 225, 240, 20, 240, 119>> \in Seq(1..255)
        /\ Len(<<225, 20, 119, 225, 240, 20, 240, 119>>) \in 1..8
    OBVIOUS
  <2> QED
    BY <2>1, <2>2 DEF SelfTestPassed, PauseBytes
<1>2. PICK l \in Nat, n \in 1..8 : l = Len(sending) /\ n = Len(bytes)
  BY <1>1
<1>3. sending' \in Seq(1..255) /\ Len(sending') = l + n
  BY <1>1, <1>2, ConcatProperties
<1>4. l + n \in Nat \ {0} /\ l + n <= MaxWaiting + 8
  <2>1. l <= MaxWaiting
    BY <1>2
  <2> QED
    BY <2>1
<1> QED
  BY <1>3, <1>4

LEMMA StepStep ==
  ASSUME IInv, Next
  PROVE  StepInv'
PROOF
<1>1. sending \in Seq(1..255) /\ Whole(sending, -noise) /\ (OutOfStep \/ InStep)
  BY DEF IInv, Types, StepInv
<1>2. CASE Byte
  <2>1. noise \in Int /\ noise <= 7 /\ -noise \in Int
    BY <1>2, ByteMoves
  <2>2. Whole(sending', -noise - 1)
    BY <1>1, <1>2, <2>1, WholeTail DEF Byte
  <2>3. Whole(sending', -noise')
    <3>1. CASE noise < 7
      <4>1. -noise' = -noise - 1
        BY <1>2, <2>1, <3>1, ByteMoves
      <4> QED
        BY <2>2, <4>1
    <3>2. CASE ~(noise < 7)
      <4>1. -noise - 1 = -8 /\ -noise' = -7
        BY <1>2, <2>1, <3>2, ByteMoves
      <4>2. Len(sending') \in Nat
        BY <1>2, ByteMoves
      <4> QED
        BY <2>2, <4>1, <4>2 DEF Whole
    <3> QED
      BY <3>1, <3>2
  <2> QED
    BY <1>1, <1>2, <2>3, ByteOutOfStep, ByteInStep DEF StepInv
<1>3. CASE NoByte /\ EventReady
  <2>1. ScanByteCntr' = 0 /\ sending' = sending /\ noise' = noise
    BY <1>3 DEF NoByte, Clock, Gather
  <2> QED
    BY <1>1, <2>1 DEF StepInv, InStep
<1>4. ASSUME UNCHANGED <<ScanBytes, ScanByteCntr, noise, sending>>
      PROVE  StepInv'
  <2>1. EventReady' <=> EventReady
    BY <1>4 DEF EventReady, First
  <2> QED
    BY <1>1, <1>4, <2>1 DEF StepInv, OutOfStep, InStep
<1>5. CASE NoByte /\ ~EventReady
  <2>1. UNCHANGED <<ScanBytes, ScanByteCntr, noise, sending>>
    BY <1>5 DEF NoByte, Clock, Gather
  <2> QED
    BY <1>4, <2>1
<1>6. CASE Button
  BY <1>4, <1>6 DEF Button
<1>7. ASSUME NEW bytes \in {SelfTestPassed, PauseBytes}, SendForeign(bytes) PROVE StepInv'
  <2>1. /\ Len(sending) <= MaxWaiting /\ sending' = sending \o bytes
        /\ noise' = -Len(sending') /\ UNCHANGED ScanByteCntr
    BY <1>7 DEF SendForeign
  <2>2. Len(sending') \in Nat \ {0}
    BY <1>1, <2>1, ForeignBytes, KeysAssumption DEF KeysAssumption
  <2> QED
    BY <2>1, <2>2, ForeignStep DEF IInv, Types
<1>8. CASE Plug \/ PressPause
  BY <1>7, <1>8 DEF Plug, PressPause
<1>9. ASSUME NEW k \in Keys, Press(k) \/ Release(k) PROVE StepInv'
  BY <1>9, Sent, SendStep
<1> QED
  BY <1>2, <1>3, <1>5, <1>6, <1>8, <1>9 DEF Next, Keyboard

-----------------------------------------------------------------------------
(* The invariant *)

LEMMA Initially ==
  ASSUME Init
  PROVE  IInv
PROOF
<1>1. Types
  <2>1. /\ ScanBytes \in [1..8 -> 0..255] /\ ScanByteCntr \in 0..7
        /\ oEventType \in Events \cup {None}
        /\ HOLDING \subseteq Used /\ down \subseteq Keys /\ forgotten \subseteq Keys
        /\ reset \in BOOLEAN
    BY DEF Init, Empty
  <2>2. plugs \in 0..MaxPlugs /\ pauses \in 0..MaxPauses
    BY KeysAssumption DEF KeysAssumption, Init
  <2>3. Len(sending) = 0 /\ noise = 7
    BY DEF Init
  <2>4. Len(sending) <= MaxWaiting + 8 /\ noise \in -Len(sending)..7
    BY <2>3, KeysAssumption DEF KeysAssumption
  <2>5. owed \in Seq(KeyEvent) /\ sending \in Seq(1..255)
    BY DEF Init
  <2> QED
    BY <2>1, <2>2, <2>4, <2>5 DEF Types, TypeOK
<1>2. StreamInv
  <2>1. Len(owed) = 0 /\ Len(sending) = 0 /\ ScanByteCntr = 0
    BY DEF Init
  <2>2. PICK ends \in [0..0 -> Int] : ends[0] = 0
    <3> DEFINE zero == [i \in 0..0 |-> 0]
    <3>1. zero \in [0..0 -> Int] /\ zero[0] = 0
      OBVIOUS
    <3> HIDE DEF zero
    <3> QED
      BY <3>1
  <2>3. ends[0] + ScanByteCntr = 0
    BY <2>1, <2>2
  <2>4. 1..0 = {}
    OBVIOUS
  <2>5. Cut(ends)
    BY <2>1, <2>2, <2>3, <2>4 DEF Cut
  <2> QED
    BY <2>1, <2>5 DEF Init, StreamInv, Gathered, Empty
<1>3. HoldingInv
  BY Numbers DEF Init, HoldingInv, KeyInv, About, None
<1>4. StepInv
  <2>1. Len(sending) = 0 /\ ScanByteCntr = 0
    BY DEF Init
  <2> QED
    BY <2>1 DEF StepInv, Whole, InStep
<1> QED
  BY <1>1, <1>2, <1>3, <1>4 DEF IInv

LEMMA TypesStep ==
  ASSUME Types, Next
  PROVE  Types'
PROOF
<1>1. ASSUME NEW byte \in 0..255, Clock(byte)
      PROVE  /\ ScanBytes' \in [1..8 -> 0..255] /\ ScanByteCntr' \in 0..7
             /\ oEventType' \in Events \cup {None}
             /\ HOLDING' \subseteq Used /\ down' \subseteq Keys /\ forgotten' \subseteq Keys
             /\ reset' \in BOOLEAN /\ plugs' \in 0..MaxPlugs /\ pauses' \in 0..MaxPauses
             /\ owed' \in Seq(KeyEvent)
  <2>1. ScanBytes' \in [1..8 -> 0..255] /\ ScanByteCntr' \in 0..7
    <3>1. ScanBytes \in [1..8 -> 0..255] /\ ScanByteCntr \in 0..7 /\ Gather(byte)
      BY <1>1 DEF Types, TypeOK, Clock
    <3>2. (ScanByteCntr + 1) % 8 \in 0..7
      BY <3>1
    <3>3. Empty \in [1..8 -> 0..255] /\ 0 \in 0..7
      BY DEF Empty
    <3>4. [ScanBytes EXCEPT ![ScanByteCntr + 1] = byte] \in [1..8 -> 0..255]
      BY <3>1
    <3> QED
      BY <3>1, <3>2, <3>3, <3>4, Zenon DEF Gather, NextCntr
  <2>2. oEventType' \in Events \cup {None}
    <3>1. EventReady => EventType \in Events
      BY ReadyNow DEF Types, TypeOK
    <3> QED
      BY <1>1, <3>1 DEF Clock, EventType
  <2>3. HOLDING' \subseteq Used
    BY <1>1 DEF Types, TypeOK, Clock, Held
  <2>4. owed' \in Seq(KeyEvent)
    BY <1>1 DEF Types, Clock
  <2> QED
    BY <1>1, <2>1, <2>2, <2>3, <2>4 DEF Types, TypeOK, Clock
<1>2. CASE Byte
  <2>1. /\ Head(sending) \in 1..255 /\ Tail(sending) \in Seq(1..255)
        /\ Len(Tail(sending)) = Len(sending) - 1 /\ Len(sending) \in Nat
    <3>1. sending \in Seq(1..255) /\ sending # << >>
      BY <1>2 DEF Byte, Types
    <3>2. Len(sending) \in Nat
      BY <3>1
    <3> QED
      BY <3>1, <3>2, HeadTailProperties, Zenon
  <2>2. Clock(Head(sending)) /\ sending' = Tail(sending) /\ Head(sending) \in 0..255
    BY <1>2, <2>1 DEF Byte
  <2>3. noise' \in -Len(sending')..7
    BY <1>2, <2>1 DEF Byte, Types, TypeOK
  <2>4. sending' \in Seq(1..255) /\ Len(sending') <= MaxWaiting + 8
    BY <2>1, <2>2, KeysAssumption DEF Types, TypeOK, KeysAssumption
  <2> QED
    BY <1>1, <2>2, <2>3, <2>4 DEF Types, TypeOK
<1>3. CASE NoByte
  <2>1. 0 \in 0..255
    OBVIOUS
  <2> QED
    BY <1>1, <1>3, <2>1 DEF NoByte, Types, TypeOK
<1>4. ASSUME NEW bytes \in {SelfTestPassed, PauseBytes}, SendForeign(bytes)
      PROVE  /\ sending' \in Seq(1..255) /\ Len(sending') <= MaxWaiting + 8
             /\ noise' \in -Len(sending')..7 /\ owed' \in Seq(KeyEvent)
  <2>1. /\ Len(sending) <= MaxWaiting /\ sending' = sending \o bytes
        /\ noise' = -Len(sending') /\ owed' = << >>
    BY <1>4 DEF SendForeign
  <2>2. /\ sending' \in Seq(1..255) /\ Len(sending') \in Nat \ {0}
        /\ Len(sending') <= MaxWaiting + 8
    BY <2>1, ForeignBytes, KeysAssumption DEF KeysAssumption, Types
  <2> QED
    BY <2>1, <2>2
<1>5. CASE Plug \/ PressPause
  <2>1. /\ sending' \in Seq(1..255) /\ Len(sending') <= MaxWaiting + 8
        /\ noise' \in -Len(sending')..7 /\ owed' \in Seq(KeyEvent)
    BY <1>4, <1>5 DEF Plug, PressPause
  <2>2. plugs' \in 0..MaxPlugs /\ pauses' \in 0..MaxPauses
    <3>1. /\ plugs \in 0..MaxPlugs /\ pauses \in 0..MaxPauses
          /\ MaxPlugs \in Nat /\ MaxPauses \in Nat
      BY KeysAssumption DEF Types, TypeOK, KeysAssumption
    <3>2. CASE Plug
      <4>1. plugs < MaxPlugs /\ plugs' = plugs + 1 /\ pauses' = pauses
        BY <3>2 DEF Plug
      <4> QED
        BY <3>1, <4>1
    <3>3. CASE PressPause
      <4>1. pauses < MaxPauses /\ pauses' = pauses + 1 /\ plugs' = plugs
        BY <3>3 DEF PressPause
      <4> QED
        BY <3>1, <4>1
    <3> QED
      BY <1>5, <3>2, <3>3
  <2> QED
    BY <1>5, <2>1, <2>2 DEF Plug, PressPause, SendForeign, Types, TypeOK
<1>6. CASE Button
  BY <1>6 DEF Button, Types, TypeOK
<1>7. ASSUME NEW k \in Keys, Press(k) \/ Release(k) PROVE Types'
  <2>1. PICK e \in KeyEvent : Send(e)
    BY <1>7, Sent
  <2>2. PICK c \in Seq(1..255), l \in Nat, n \in 1..6 :
          c = Code(e) /\ l = Len(sending) /\ n = Len(c)
    BY KeyCodes DEF Types
  <2>3. sending' \in Seq(1..255) /\ Len(sending') = l + n /\ l <= MaxWaiting
    BY <2>1, <2>2, ConcatProperties DEF Send, Types
  <2>4. Len(sending') <= MaxWaiting + 8 /\ noise' \in -Len(sending')..7
    <3>1. noise \in -l..7 /\ MaxWaiting \in Nat
      BY <2>2, KeysAssumption DEF Types, TypeOK, KeysAssumption
    <3>2. noise' = noise \/ noise' = -(l + n)
      BY <2>1, <2>3 DEF Send
    <3> QED
      BY <2>3, <3>1, <3>2
  <2>5. owed' \in Seq(KeyEvent)
    BY <2>1 DEF Send, Types
  <2>6. down' \subseteq Keys
    BY <1>7 DEF Press, Release, Types, TypeOK
  <2> QED
    BY <2>1, <2>3, <2>4, <2>5, <2>6 DEF Send, Types, TypeOK
<1> QED
  BY <1>2, <1>3, <1>5, <1>6, <1>7 DEF Next, Keyboard

LEMMA Inductive ==
  ASSUME IInv, [Next]_vars
  PROVE  IInv'
PROOF
<1>1. CASE Next
  BY <1>1, TypesStep, StreamStep, HoldingStep, StepStep DEF IInv
<1>2. CASE UNCHANGED vars
  <2>1. Types'
    BY <1>2 DEF vars, IInv, Types, TypeOK
  <2>2. StreamInv'
    <3>1. \A ends : Cut(ends)' <=> Cut(ends)
      BY <1>2 DEF vars, Cut
    <3>2. (Gathered' <=> Gathered) /\ (OnlyKeys' <=> OnlyKeys)
      BY <1>2 DEF vars, Gathered, OnlyKeys
    <3> QED
      BY <1>2, <3>1, <3>2 DEF vars, IInv, StreamInv
  <2>3. HoldingInv'
    <3>1. \A k : KeyInv(k)' <=> KeyInv(k)
      BY <1>2 DEF vars, KeyInv, About
    <3> QED
      BY <1>2, <3>1 DEF vars, IInv, HoldingInv, OnlyKeys
  <2>4. StepInv'
    <3>1. EventReady' <=> EventReady
      BY <1>2 DEF vars, EventReady, First
    <3> QED
      BY <1>2, <3>1 DEF vars, IInv, StepInv, OutOfStep, InStep
  <2> QED
    BY <2>1, <2>2, <2>3, <2>4 DEF IInv
<1> QED
  BY <1>1, <1>2

THEOREM Invariant == Spec => []IInv
BY Initially, Inductive, PTL DEF Spec

\* The registers of the controller and the keys keep their types: the counter
\* of bytes stays in ScanBytes, and only keys of the table are held.
THEOREM TypeCorrect == Spec => []TypeOK
BY Invariant, PTL DEF IInv, Types

\* While only keys send bytes, the decoder reports the event that was sent
\* next: codes are neither split nor joined, and no key is taken for another.
THEOREM InOrder == Spec => EventsInOrder
<1>1. IInv /\ [Next]_vars =>
        [oEventType' # oEventType /\ oEventType' # None /\ OnlyKeys
           => owed # << >> /\ oEventType' = Head(owed)]_vars
  <2>1. SUFFICES ASSUME IInv, Next, oEventType' # oEventType, oEventType' # None,
                        OnlyKeys
                 PROVE  owed # << >> /\ oEventType' = Head(owed)
    BY DEF vars
  <2>2. oEventType' = EventType
    BY <2>1 DEF Next, Keyboard, Byte, NoByte, Clock, Press, Release, Send,
                Plug, PressPause, SendForeign, Button
  <2>3. EventReady
    BY <2>1, <2>2 DEF EventType
  <2> QED
    BY <2>1, <2>2, <2>3, ParsedOwed
<1> QED
  BY <1>1, Invariant, PTL DEF Spec, EventsInOrder

\* While only keys send bytes, the registers tell which keys are down as soon
\* as nothing is under way, except for those that KEY[0] has hidden.
THEOREM Follow == Spec => []HoldingFollows
<1>1. IInv => HoldingFollows
  <2>1. SUFFICES ASSUME IInv, AtRest, OnlyKeys
                 PROVE  /\ HOLDING \subseteq down
                        /\ (down \ forgotten) \cap Used \subseteq HOLDING
    BY DEF HoldingFollows
  <2>2. owed = << >> /\ oEventType = None
    BY <2>1, AllHandled
  <2>3. \A k \in KnownKeys : About(k) = {} /\ oEventType.key # k
    BY <2>2, Numbers DEF About, None
  <2>4. \A k \in KnownKeys :
          /\ k \in HOLDING => k \in down
          /\ k \in Used /\ k \in down /\ k \notin forgotten => k \in HOLDING
    BY <2>1, <2>3 DEF IInv, HoldingInv, KeyInv
  <2>5. HOLDING \subseteq Used
    BY <2>1 DEF IInv, Types, TypeOK
  <2>6. Used \subseteq KnownKeys
    BY DEF Used, KnownKeys, PlainKeys, ExtendedKeys, ExtendedBytes
  <2> QED
    BY <2>4, <2>5, <2>6
<1> QED
  BY <1>1, Invariant, PTL

\* When the keyboard rests, seven bytes or more after foreign ones, the
\* controller rests between two codes, however often they were sent and for
\* every key of the table whose last byte is a code by itself.
THEOREM Back == Spec => []BackInStep
<1>1. IInv => BackInStep
  <2>1. SUFFICES ASSUME IInv, AtRest, noise >= 7
                 PROVE  ScanByteCntr = 0
    BY DEF BackInStep
  <2>2. Len(sending) = 0 /\ ~EventReady
    BY <2>1 DEF AtRest, Busy
  <2>3. ~OutOfStep
    BY <2>1, <2>2 DEF OutOfStep, IInv, Types, TypeOK
  <2> QED
    BY <2>1, <2>2, <2>3 DEF IInv, StepInv, InStep, Comes, ComeTwo
<1> QED
  BY <1>1, Invariant, PTL

=============================================================================
