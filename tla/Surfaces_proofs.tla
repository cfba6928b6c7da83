---------------------------- MODULE Surfaces_proofs ----------------------------
(***************************************************************************)
(* What the surfaces promise, for every value of the constants.  The       *)
(* surface stays, so the invariant of each (Guards_proofs for those of     *)
(* Guards, the sections below for the others) is one of them all.          *)
(***************************************************************************)
EXTENDS Surfaces, Guards_proofs, SequenceTheorems

-----------------------------------------------------------------------------
(***************************************************************************)
(* McpFraming: the bytes that are gone are read, and what is left of the line *)
(* is in the buffer, or is being discarded.                                *)
(***************************************************************************)
\* Induction up to a bound, for the set of numbers at which a fact holds.
Line == Seq(Framing!Bytes \cup {Framing!Newline})
First == [told |-> << >>, line |-> << >>]

\* The recursion of Read is well founded: there is such a function.
LEMMA ReadDefined ==
  ASSUME NEW bytes \in Line
  PROVE  Framing!Read(bytes) = [n \in 0..Len(bytes) |->
           IF n = 0 THEN First ELSE Framing!ReadByte(Framing!Read(bytes)[n - 1], bytes[n])]
<1> DEFINE N == Len(bytes)
           Is(g, n) == g = [k \in 0..n |-> IF k = 0 THEN First ELSE Framing!ReadByte(g[k - 1], bytes[k])]
           T == {n \in 0..N : \E g : Is(g, n)}
<1>1. N \in Nat
  OBVIOUS
<1>2. 0 \in T
  <2> DEFINE g == [k \in 0..0 |-> First]
  <2>1. Is(g, 0) /\ 0 \in 0..N
    BY <1>1
  <2> HIDE DEF Is, g
  <2> QED
    BY <2>1
<1>3. ASSUME NEW n \in 0..(N - 1), n \in T PROVE n + 1 \in T
  <2>1. PICK g : Is(g, n)
    BY <1>3
  <2> DEFINE h == [k \in 0..(n + 1) |-> IF k = n + 1 THEN Framing!ReadByte(g[n], bytes[n + 1]) ELSE g[k]]
             r == [k \in 0..(n + 1) |-> IF k = 0 THEN First ELSE Framing!ReadByte(h[k - 1], bytes[k])]
  <2>2. ASSUME NEW k \in 0..(n + 1) PROVE h[k] = r[k]
    <3>1. CASE k = n + 1
      <4>1. h[k - 1] = g[n]
        BY <3>1
      <4> QED
        BY <3>1, <4>1
    <3>2. CASE k # n + 1
      <4>1. k \in 0..n
        BY <3>2
      <4>2. h[k] = g[k]
        BY <3>2
      <4>3. g[k] = IF k = 0 THEN First ELSE Framing!ReadByte(g[k - 1], bytes[k])
        BY <2>1, <4>1
      <4>4. k # 0 => h[k - 1] = g[k - 1]
        BY <4>1
      <4> QED
        BY <4>2, <4>3, <4>4
    <3> QED
      BY <3>1, <3>2
  <2>3. Is(h, n + 1)
    <3> HIDE DEF r, First
    <3>1. h = r
      <4> SUFFICES [k \in 0..(n + 1) |-> h[k]] = [k \in 0..(n + 1) |-> r[k]]
        BY DEF r
      <4> HIDE DEF h
      <4> QED
        BY <2>2
    <3> QED
      BY <3>1 DEF r
  <2>4. n + 1 \in 0..N
    OBVIOUS
  <2> HIDE DEF Is, h
  <2> QED
    BY <2>3, <2>4
<1>4. N \in T
  <2> HIDE DEF T
  <2>1. 0..N \subseteq T
    BY <1>1, <1>2, <1>3, UpTo
  <2> QED
    BY <1>1, <2>1
<1>5. \E g : Is(g, N)
  BY <1>4
<1> QED
  BY <1>5 DEF Framing!Read, First
LEMMA ReadSteps ==
  ASSUME NEW bytes \in Line
  PROVE  /\ Framing!Read(bytes)[0] = First
         /\ \A n \in 1..Len(bytes) : Framing!Read(bytes)[n] = Framing!ReadByte(Framing!Read(bytes)[n - 1], bytes[n])
<1> DEFINE Def(n) == IF n = 0 THEN First ELSE Framing!ReadByte(Framing!Read(bytes)[n - 1], bytes[n])
<1>1. Len(bytes) \in Nat
  BY DEF Line
<1>2. \A n \in 0..Len(bytes) : Framing!Read(bytes)[n] = Def(n)
  <2>1. Framing!Read(bytes) = [n \in 0..Len(bytes) |-> Def(n)]
    BY ReadDefined
  <2> HIDE DEF Def
  <2> QED
    BY <2>1
<1> QED
  BY <1>1, <1>2

\* A line that is being read, and what was told before it.
Lines == [told : Seq(Line \cup {Framing!Overflow}), line : Line]

LEMMA ReadByteType ==
  ASSUME NEW s \in Lines, NEW b \in Framing!Bytes \cup {Framing!Newline}
  PROVE  Framing!ReadByte(s, b) \in Lines
<1>1. s.told \in Seq(Line \cup {Framing!Overflow}) /\ s.line \in Line
  BY DEF Lines
<1>2. Framing!Told(s) \in Seq(Line \cup {Framing!Overflow})
  BY <1>1 DEF Framing!Told
<1>3. Append(s.line, b) \in Line /\ << >> \in Line
  BY <1>1 DEF Line
<1>4. [s EXCEPT !.line = Append(@, b)] \in Lines
  BY <1>3 DEF Lines
<1>5. [told |-> Framing!Told(s), line |-> << >>] \in Lines
  BY <1>2, <1>3 DEF Lines
<1> QED
  BY <1>4, <1>5 DEF Framing!ReadByte

LEMMA ReadType ==
  ASSUME NEW bytes \in Line
  PROVE  \A n \in 0..Len(bytes) : Framing!Read(bytes)[n] \in Lines
<1> DEFINE T == {n \in Nat : n <= Len(bytes) => Framing!Read(bytes)[n] \in Lines}
<1>1. Len(bytes) \in Nat
  BY DEF Line
<1>2. 0 \in T
  <2>1. First \in Lines
    BY DEF First, Lines, Line
  <2> QED
    BY <2>1, ReadSteps
<1>3. ASSUME NEW n \in 0..(Len(bytes) - 1), n \in T PROVE n + 1 \in T
  <2>1. Framing!Read(bytes)[n] \in Lines
    BY <1>1, <1>3
  <2>2. bytes[n + 1] \in Framing!Bytes \cup {Framing!Newline}
    BY <1>1 DEF Line
  <2>3. Framing!Read(bytes)[n + 1] = Framing!ReadByte(Framing!Read(bytes)[n], bytes[n + 1])
    <3>1. n + 1 \in 1..Len(bytes) /\ (n + 1) - 1 = n
      BY <1>1
    <3> QED
      BY <3>1, ReadSteps
  <2>4. Framing!Read(bytes)[n + 1] \in Lines
    BY <2>1, <2>2, <2>3, ReadByteType
  <2> QED
    BY <2>4
<1>4. 0..Len(bytes) \subseteq T
  <2> HIDE DEF T
  <2> QED
    BY <1>1, <1>2, <1>3, UpTo
<1> QED
  BY <1>1, <1>4

\* What comes later changes nothing of what was read.
LEMMA ReadPrefix ==
  ASSUME NEW bytes \in Line, NEW more \in Line
  PROVE  \A n \in 0..Len(bytes) : Framing!Read(bytes \o more)[n] = Framing!Read(bytes)[n]
<1> DEFINE all == bytes \o more
           T == {n \in Nat : n <= Len(bytes) => Framing!Read(all)[n] = Framing!Read(bytes)[n]}
<1>1. /\ all \in Line /\ Len(bytes) \in Nat /\ Len(all) \in Nat /\ Len(bytes) <= Len(all)
      /\ \A n \in 1..Len(bytes) : all[n] = bytes[n]
  BY DEF Line
<1> HIDE DEF all
<1>2. 0 \in T
  BY <1>1, ReadSteps
<1>3. ASSUME NEW n \in 0..(Len(bytes) - 1), n \in T PROVE n + 1 \in T
  <2>1. n + 1 \in 1..Len(bytes) /\ n + 1 \in 1..Len(all) /\ (n + 1) - 1 = n
    BY <1>1
  <2>2. Framing!Read(all)[n + 1] = Framing!ReadByte(Framing!Read(all)[n], all[n + 1])
    BY <1>1, <2>1, ReadSteps
  <2>3. Framing!Read(bytes)[n + 1] = Framing!ReadByte(Framing!Read(bytes)[n], bytes[n + 1])
    BY <2>1, ReadSteps
  <2>4. Framing!Read(all)[n] = Framing!Read(bytes)[n]
    BY <1>1, <1>3
  <2> QED
    BY <1>1, <2>1, <2>2, <2>3, <2>4
<1>4. 0..Len(bytes) \subseteq T
  <2> HIDE DEF T
  <2> QED
    BY <1>1, <1>2, <1>3, UpTo
<1> QED
  BY <1>1, <1>4 DEF all

\* Bytes that are no newlines lengthen the line.
LEMMA ReadOn ==
  ASSUME NEW bytes \in Line, NEW k \in 0..Len(bytes), NEW j \in 0..(Len(bytes) - k),
         \A i \in 1..j : bytes[k + i] # Framing!Newline
  PROVE  /\ Framing!Read(bytes)[k + j].told = Framing!Read(bytes)[k].told
         /\ Framing!Read(bytes)[k + j].line = Framing!Read(bytes)[k].line \o SubSeq(bytes, k + 1, k + j)
<1> DEFINE On(n) == /\ Framing!Read(bytes)[k + n].told = Framing!Read(bytes)[k].told
                    /\ Framing!Read(bytes)[k + n].line = Framing!Read(bytes)[k].line \o SubSeq(bytes, k + 1, k + n)
           T == {n \in Nat : n <= j => On(n)}
<1>1. Len(bytes) \in Nat /\ k \in Nat /\ j \in Nat /\ k + j <= Len(bytes) /\ bytes \in Seq(Framing!Bytes \cup {Framing!Newline})
  BY DEF Line
<1>2. \A n \in 0..Len(bytes) : Framing!Read(bytes)[n] \in Lines
  BY ReadType
<1>3. 0 \in T
  <2>1. Framing!Read(bytes)[k].line \in Seq(Framing!Bytes \cup {Framing!Newline})
    BY <1>1, <1>2 DEF Lines, Line
  <2>2. SubSeq(bytes, k + 1, k) = << >>
    BY <1>1, SubSeqEmpty
  <2>3. k + 0 = k /\ Framing!Read(bytes)[k].line \o << >> = Framing!Read(bytes)[k].line
    BY <1>1, <2>1
  <2> QED
    BY <2>2, <2>3
<1>4. ASSUME NEW n \in 0..(j - 1), n \in T PROVE n + 1 \in T
  <2> DEFINE s == Framing!Read(bytes)[k + n]
             b == bytes[k + n + 1]
  <2>1. /\ n \in Nat /\ n + 1 \in 1..j /\ n <= j
        /\ k + n + 1 \in 1..Len(bytes) /\ (k + n + 1) - 1 = k + n /\ k + (n + 1) = k + n + 1
        /\ k + n \in 0..Len(bytes)
    BY <1>1
  <2>2. b # Framing!Newline /\ b \in Framing!Bytes \cup {Framing!Newline}
    <3>1. bytes[k + (n + 1)] # Framing!Newline
      BY <2>1
    <3>2. bytes[k + n + 1] \in Framing!Bytes \cup {Framing!Newline}
      BY <1>1, <2>1
    <3> QED
      BY <2>1, <3>1, <3>2
  <2>3. Framing!Read(bytes)[k + n + 1] = Framing!ReadByte(s, b)
    BY <2>1, ReadSteps
  <2>4. s \in Lines
    BY <1>2, <2>1
  <2>5. s.told = Framing!Read(bytes)[k].told /\ s.line = Framing!Read(bytes)[k].line \o SubSeq(bytes, k + 1, k + n)
    BY <1>4, <2>1
  <2>6. Framing!Read(bytes)[k + n + 1].told = s.told /\ Framing!Read(bytes)[k + n + 1].line = Append(s.line, b)
    BY <2>2, <2>3, <2>4 DEF Framing!ReadByte, Lines
  <2>7. Framing!Read(bytes)[k].line \in Seq(Framing!Bytes \cup {Framing!Newline})
    BY <1>1, <1>2 DEF Lines, Line
  <2>8. SubSeq(bytes, k + 1, k + n + 1) = Append(SubSeq(bytes, k + 1, k + n), b)
    BY <1>1, <2>1
  <2>9. SubSeq(bytes, k + 1, k + n) \in Seq(Framing!Bytes \cup {Framing!Newline})
    BY <1>1, <2>1
  <2>10. Append(Framing!Read(bytes)[k].line \o SubSeq(bytes, k + 1, k + n), b)
         = Framing!Read(bytes)[k].line \o Append(SubSeq(bytes, k + 1, k + n), b)
    <3> DEFINE Byte == Framing!Bytes \cup {Framing!Newline}
               u == Framing!Read(bytes)[k].line
               v == SubSeq(bytes, k + 1, k + n)
    <3>1. b \in Byte /\ u \in Seq(Byte) /\ v \in Seq(Byte)
      BY <2>2, <2>7, <2>9
    <3> HIDE DEF s, b, Byte, u, v
    <3>2. Append(u \o v, b) = u \o Append(v, b)
      BY <3>1
    <3> USE DEF u, v
    <3> QED
      BY <3>2
  <2>11. On(n + 1)
    <3> HIDE DEF s, b
    <3> QED
      BY <2>1, <2>5, <2>6, <2>8, <2>10
  <2>12. n + 1 \in Nat
    BY <2>1
  <2> HIDE DEF On
  <2> QED
    BY <2>11, <2>12
<1>5. 0..j \subseteq T
  <2> HIDE DEF T
  <2> QED
    BY <1>1, <1>3, <1>4, UpTo
<1>6. j \in T
  <2> HIDE DEF T
  <2> QED
    BY <1>1, <1>5
<1>7. j <= j
  BY <1>1
<1> QED
  BY <1>6, <1>7

-----------------------------------------------------------------------------
\* How much of what arrived push has taken.
Taken == Len(arrived) - Len(data)

FrameInv ==
  /\ arrived \in Line /\ data \in Line /\ buf \in Line /\ Len(data) <= Len(arrived)
  /\ data = SubSeq(arrived, Taken + 1, Len(arrived))
  /\ discarding \in BOOLEAN /\ overflowEmitted = discarding
  /\ LET s == Framing!Read(arrived)[Taken]
     IN  IF discarding THEN buf = << >> /\ Len(s.line) > MaxBytes /\ out = Append(s.told, Framing!Overflow)
         ELSE buf = s.line /\ Len(buf) <= MaxBytes /\ out = s.told

LEMMA FirstNewline ==
  ASSUME NEW s \in Line, Framing!Newlines(s) # {}
  PROVE  /\ Framing!FirstNl(s) \in 1..Len(s) /\ s[Framing!FirstNl(s)] = Framing!Newline
         /\ \A i \in 1..(Framing!FirstNl(s) - 1) : s[i] # Framing!Newline
<1>1. Len(s) \in Nat /\ DOMAIN s = 1..Len(s)
  BY DEF Line
<1>2. Framing!Newlines(s) \in SUBSET Nat
  BY <1>1 DEF Framing!Newlines
<1>3. \E n \in Framing!Newlines(s) : \A m \in Framing!Newlines(s) : n <= m
  BY <1>2, LeastExists
<1>4. Framing!FirstNl(s) \in Framing!Newlines(s) /\ \A m \in Framing!Newlines(s) : Framing!FirstNl(s) <= m
  BY <1>3 DEF Framing!FirstNl
<1> QED
  BY <1>1, <1>4 DEF Framing!Newlines

LEMMA NoNewline ==
  ASSUME NEW s \in Line, Framing!Newlines(s) = {}
  PROVE  \A i \in 1..Len(s) : s[i] # Framing!Newline
<1>1. Len(s) \in Nat /\ DOMAIN s = 1..Len(s)
  BY DEF Line
<1> QED
  BY <1>1 DEF Framing!Newlines

\* What is left after n of the bytes are taken.
LEMMA Advance ==
  ASSUME FrameInv, NEW n \in 0..Len(data)
  PROVE  LET rest == Framing!After(data, n)
         IN  /\ rest \in Line /\ Len(rest) <= Len(arrived)
             /\ Len(arrived) - Len(rest) = Taken + n
             /\ rest = SubSeq(arrived, Taken + n + 1, Len(arrived))
<1> DEFINE rest == Framing!After(data, n)
<1>1. /\ Len(arrived) \in Nat /\ Len(data) \in Nat /\ n \in Nat /\ Taken \in Nat /\ Taken + n <= Len(arrived)
      /\ Taken + Len(data) = Len(arrived) /\ n <= Len(data)
      /\ arrived \in Seq(Framing!Bytes \cup {Framing!Newline}) /\ data \in Seq(Framing!Bytes \cup {Framing!Newline})
  BY DEF FrameInv, Line, Taken
<1>2. data = SubSeq(arrived, Taken + 1, Len(arrived))
  BY DEF FrameInv
<1>3. rest \in Line /\ Len(rest) = Len(data) - n
  BY <1>1 DEF Framing!After, Line
<1>4. rest = SubSeq(arrived, Taken + n + 1, Len(arrived))
  <2> DEFINE want == SubSeq(arrived, Taken + n + 1, Len(arrived))
  <2>1. want \in Seq(Framing!Bytes \cup {Framing!Newline}) /\ Len(want) = Len(data) - n
    BY <1>1
  <2>2. \A i \in 1..(Len(data) - n) : want[i] = arrived[Taken + n + i]
    BY <1>1
  <2>3. \A i \in 1..Len(data) : data[i] = arrived[Taken + i]
    BY <1>1, <1>2
  <2>4. \A i \in 1..(Len(data) - n) : rest[i] = data[n + i]
    BY <1>1 DEF Framing!After
  <2>5. \A i \in 1..(Len(data) - n) : rest[i] = want[i]
    <3> SUFFICES ASSUME NEW i \in 1..(Len(data) - n) PROVE rest[i] = want[i]
      OBVIOUS
    <3>1. n + i \in 1..Len(data) /\ Taken + (n + i) = Taken + n + i
      BY <1>1
    <3> HIDE DEF rest, want
    <3> QED
      BY <2>2, <2>3, <2>4, <3>1
  <2>6. rest \in Seq(Framing!Bytes \cup {Framing!Newline})
    BY <1>3 DEF Line
  <2> HIDE DEF rest, want
  <2>7. rest = want
    BY <1>3, <2>1, <2>5, <2>6
  <2> QED
    BY <2>7 DEF want
<1>5. Len(rest) <= Len(arrived) /\ Len(arrived) - Len(rest) = Taken + n
  <2> HIDE DEF rest
  <2> QED
    BY <1>1, <1>3
<1> QED
  BY <1>3, <1>4, <1>5

\* Reading on to n, and over the newline that follows.
LEMMA Gone ==
  ASSUME FrameInv, NEW n \in 0..Len(data), \A i \in 1..n : data[i] # Framing!Newline
  PROVE  /\ Framing!Read(arrived)[Taken + n].told = Framing!Read(arrived)[Taken].told
         /\ Framing!Read(arrived)[Taken + n].line = Framing!Read(arrived)[Taken].line \o SubSeq(data, 1, n)
         /\ Framing!Read(arrived)[Taken].line \in Line /\ SubSeq(data, 1, n) \in Line
         /\ Len(SubSeq(data, 1, n)) = n
<1>1. /\ Len(arrived) \in Nat /\ Len(data) \in Nat /\ n \in Nat /\ Taken \in Nat /\ Taken + n <= Len(arrived)
      /\ Taken + Len(data) = Len(arrived) /\ n <= Len(data)
      /\ arrived \in Seq(Framing!Bytes \cup {Framing!Newline}) /\ data \in Seq(Framing!Bytes \cup {Framing!Newline})
  BY DEF FrameInv, Line, Taken
<1>2. data = SubSeq(arrived, Taken + 1, Len(arrived))
  BY DEF FrameInv
<1>3. \A i \in 1..Len(data) : data[i] = arrived[Taken + i]
  BY <1>1, <1>2
<1>4. \A i \in 1..n : arrived[Taken + i] # Framing!Newline
  BY <1>1, <1>3
<1>5. SubSeq(data, 1, n) = SubSeq(arrived, Taken + 1, Taken + n)
  <2> DEFINE a == SubSeq(data, 1, n)
             b == SubSeq(arrived, Taken + 1, Taken + n)
  <2>1. a \in Seq(Framing!Bytes \cup {Framing!Newline}) /\ Len(a) = n /\ \A i \in 1..n : a[i] = data[i]
    BY <1>1
  <2>0. Taken + 1 \in Nat /\ (Taken + n) - (Taken + 1) + 1 = n /\ \A i \in 1..n : (Taken + 1) + i - 1 = Taken + i
    BY <1>1
  <2>2. b \in Seq(Framing!Bytes \cup {Framing!Newline}) /\ Len(b) = n /\ \A i \in 1..n : b[i] = arrived[Taken + i]
    <3>1. b \in Seq(Framing!Bytes \cup {Framing!Newline}) /\ Len(b) = n
      BY <1>1, <2>0
    <3>2. \A i \in 1..n : b[i] = arrived[Taken + i]
      <4> HIDE DEF Taken
      <4> QED
        BY <1>1, <2>0
    <3> QED
      BY <3>1, <3>2
  <2>3. \A i \in 1..n : a[i] = b[i]
    <3> HIDE DEF a, b
    <3> QED
      BY <1>1, <1>3, <2>1, <2>2
  <2> HIDE DEF a, b
  <2>4. a = b
    BY <2>1, <2>2, <2>3
  <2> QED
    BY <2>4 DEF a, b
<1>6. arrived \in Line /\ Taken \in 0..Len(arrived) /\ n \in 0..(Len(arrived) - Taken)
  BY <1>1 DEF FrameInv
<1>7. /\ Framing!Read(arrived)[Taken + n].told = Framing!Read(arrived)[Taken].told
      /\ Framing!Read(arrived)[Taken + n].line = Framing!Read(arrived)[Taken].line \o SubSeq(arrived, Taken + 1, Taken + n)
  BY <1>4, <1>6, ReadOn
<1>8. Framing!Read(arrived)[Taken].line \in Line
  BY <1>6, ReadType DEF Lines
<1>9. SubSeq(data, 1, n) \in Line /\ Len(SubSeq(data, 1, n)) = n
  BY <1>1 DEF Line
<1> QED
  BY <1>5, <1>7, <1>8, <1>9

\* Over the newline: the line is told, and a new one begins.
LEMMA GoneOver ==
  ASSUME FrameInv, NEW n \in 1..Len(data), \A i \in 1..(n - 1) : data[i] # Framing!Newline, data[n] = Framing!Newline
  PROVE  LET s == Framing!Read(arrived)[Taken]
             line == s.line \o SubSeq(data, 1, n - 1)
         IN  /\ Framing!Read(arrived)[Taken + n].told =
                   IF Len(line) > MaxBytes THEN Append(s.told, Framing!Overflow)
                   ELSE IF line = << >> THEN s.told ELSE Append(s.told, line)
             /\ Framing!Read(arrived)[Taken + n].line = << >>
             /\ Len(line) = Len(s.line) + (n - 1) /\ line \in Line
<1> DEFINE s == Framing!Read(arrived)[Taken]
           line == s.line \o SubSeq(data, 1, n - 1)
           t == Framing!Read(arrived)[Taken + (n - 1)]
<1>1. /\ Len(arrived) \in Nat /\ Len(data) \in Nat /\ n \in Nat /\ Taken \in Nat
      /\ n - 1 \in 0..Len(data) /\ Taken + n \in 1..Len(arrived) /\ (Taken + n) - 1 = Taken + (n - 1)
      /\ arrived \in Line /\ arrived \in Seq(Framing!Bytes \cup {Framing!Newline})
  <2>1. arrived \in Line /\ data \in Line /\ Len(data) <= Len(arrived)
    BY DEF FrameInv
  <2>2. Len(arrived) \in Nat /\ Len(data) \in Nat
    BY <2>1 DEF Line
  <2>3. Taken = Len(arrived) - Len(data)
    BY DEF Taken
  <2> QED
    BY <2>1, <2>2, <2>3 DEF Line
<1>2. arrived[Taken + n] = Framing!Newline
  <2>1. data = SubSeq(arrived, Taken + 1, Len(arrived))
    BY DEF FrameInv
  <2>2. data[n] = arrived[Taken + n]
    BY <1>1, <2>1
  <2> QED
    BY <2>2
<1>3. /\ t.told = s.told /\ t.line = line
      /\ s.line \in Line /\ SubSeq(data, 1, n - 1) \in Line /\ Len(SubSeq(data, 1, n - 1)) = n - 1
  BY <1>1, Gone
<1>4. Len(line) = Len(s.line) + (n - 1) /\ line \in Line
  <2> DEFINE a == s.line
             b == SubSeq(data, 1, n - 1)
  <2>1. a \in Seq(Framing!Bytes \cup {Framing!Newline}) /\ b \in Seq(Framing!Bytes \cup {Framing!Newline}) /\ Len(b) = n - 1
    BY <1>3 DEF Line
  <2> HIDE DEF a, b
  <2>2. Len(a \o b) = Len(a) + (n - 1) /\ a \o b \in Seq(Framing!Bytes \cup {Framing!Newline})
    BY <2>1
  <2> QED
    BY <2>2 DEF a, b, Line
<1>5. Framing!Read(arrived)[Taken + n] = Framing!ReadByte(t, arrived[Taken + n])
  BY <1>1, ReadSteps
<1>6. Framing!Read(arrived)[Taken + n] = [told |-> Framing!Told(t), line |-> << >>]
  BY <1>2, <1>5 DEF Framing!ReadByte
<1>7. Framing!Told(t) = IF Len(line) > MaxBytes THEN Append(s.told, Framing!Overflow)
                ELSE IF line = << >> THEN s.told ELSE Append(s.told, line)
  BY <1>3 DEF Framing!Told
<1>8. /\ Framing!Read(arrived)[Taken + n].told =
             IF Len(line) > MaxBytes THEN Append(s.told, Framing!Overflow)
             ELSE IF line = << >> THEN s.told ELSE Append(s.told, line)
      /\ Framing!Read(arrived)[Taken + n].line = << >>
  <2> HIDE DEF line, s, t
  <2> QED
    BY <1>6, <1>7
<1> QED
  BY <1>4, <1>8

-----------------------------------------------------------------------------
LEMMA FrameInit ==
  ASSUME Framing!SoundFrames, Framing!Init PROVE FrameInv
<1>1. << >> \in Line /\ Len(<< >>) = 0
  BY DEF Line
<1>2. Framing!Read(<< >>)[0] = First
  BY <1>1, ReadSteps
<1>3. arrived = << >> /\ data = << >> /\ Taken = 0 /\ buf = << >> /\ out = << >> /\ ~discarding /\ ~overflowEmitted
  BY <1>1 DEF Framing!Init, Taken
<1>4. data = SubSeq(arrived, Taken + 1, Len(arrived))
  BY <1>3
<1>5. discarding \in BOOLEAN /\ overflowEmitted = discarding
  BY DEF Framing!Init
<1> QED
  BY <1>1, <1>2, <1>3, <1>4, <1>5 DEF FrameInv, Framing!SoundFrames, First

LEMMA StepChunk ==
  ASSUME FrameInv, Framing!Chunk PROVE FrameInv'
<1>1. /\ arrived \in Line /\ arrived \in Seq(Framing!Bytes \cup {Framing!Newline}) /\ Len(arrived) \in Nat
      /\ data = << >> /\ Taken = Len(arrived)
  BY DEF Framing!Chunk, FrameInv, Taken, Line
<1>2. PICK n \in 1..(MaxInput - Len(arrived)) : data' \in [1..n -> Framing!Bytes \cup {Framing!Newline}]
  BY DEF Framing!Chunk
<1>3. n \in Nat /\ data' \in Seq(Framing!Bytes \cup {Framing!Newline}) /\ data' \in Line /\ Len(data') = n
  BY <1>2 DEF Line
<1>4. arrived' = arrived \o data'
  BY DEF Framing!Chunk
<1>5. /\ arrived' \in Seq(Framing!Bytes \cup {Framing!Newline}) /\ arrived' \in Line
      /\ Len(arrived') = Len(arrived) + n /\ \A i \in 1..n : arrived'[Len(arrived) + i] = data'[i]
  <2> DEFINE Byte == Framing!Bytes \cup {Framing!Newline}
  <2>1. arrived \in Seq(Byte) /\ data' \in Seq(Byte)
    BY <1>1, <1>3
  <2> HIDE DEF Byte
  <2>2. arrived' \in Seq(Byte) /\ Len(arrived') = Len(arrived) + n
    <3>1. arrived \o data' \in Seq(Byte) /\ Len(arrived \o data') = Len(arrived) + Len(data')
      BY <2>1, ConcatProperties
    <3> QED
      BY <1>3, <1>4, <3>1
  <2>3. \A i \in 1..n : arrived'[Len(arrived) + i] = data'[i]
    BY <1>1, <1>3, <1>4, <2>1
  <2> QED
    BY <2>2, <2>3 DEF Line, Byte
<1>6. Taken' = Len(arrived)
  BY <1>1, <1>3, <1>5 DEF Taken
<1>7. data' = SubSeq(arrived', Taken' + 1, Len(arrived'))
  <2> DEFINE a == SubSeq(arrived', Len(arrived) + 1, Len(arrived) + n)
  <2>1. a \in Seq(Framing!Bytes \cup {Framing!Newline}) /\ Len(a) = n
    BY <1>1, <1>3, <1>5
  <2>2. \A i \in 1..n : a[i] = arrived'[Len(arrived) + i]
    BY <1>1, <1>3, <1>5
  <2> HIDE DEF a
  <2>3. data' = a
    BY <1>3, <1>5, <2>1, <2>2
  <2> QED
    BY <1>5, <1>6, <2>3 DEF a
<1>8. Framing!Read(arrived')[Taken'] = Framing!Read(arrived)[Taken]
  BY <1>1, <1>3, <1>4, <1>6, ReadPrefix
<1>9. UNCHANGED << buf, discarding, overflowEmitted, out >>
  BY DEF Framing!Chunk
<1>10. Len(data') <= Len(arrived')
  BY <1>1, <1>3, <1>5
<1> QED
  BY <1>3, <1>5, <1>7, <1>8, <1>9, <1>10 DEF FrameInv

\* What a step that takes n bytes of the chunk leaves.
LEMMA Taking ==
  ASSUME FrameInv, arrived' = arrived, NEW n \in 0..Len(data), data' = Framing!After(data, n)
  PROVE  /\ arrived' \in Line /\ data' \in Line /\ Len(data') <= Len(arrived')
         /\ data' = SubSeq(arrived', Taken' + 1, Len(arrived'))
         /\ Framing!Read(arrived')[Taken'] = Framing!Read(arrived)[Taken + n]
<1>1. /\ data' \in Line /\ Len(data') <= Len(arrived) /\ Len(arrived) - Len(data') = Taken + n
      /\ data' = SubSeq(arrived, Taken + n + 1, Len(arrived))
  BY Advance
<1>2. Taken' = Taken + n
  BY <1>1 DEF Taken
<1> QED
  BY <1>1, <1>2 DEF FrameInv

\* The facts of a chunk that has something left.
LEMMA Left ==
  ASSUME FrameInv, data # << >>
  PROVE  /\ Len(data) \in Nat /\ Len(data) >= 1 /\ data \in Seq(Framing!Bytes \cup {Framing!Newline}) /\ data \in Line
         /\ Head(data) = data[1] /\ Tail(data) = Framing!After(data, 1) /\ Framing!After(data, Len(data)) = << >>
         /\ Framing!Read(arrived)[Taken].line \in Line /\ Len(Framing!Read(arrived)[Taken].line) \in Nat
<1>0. data \in Line /\ data \in Seq(Framing!Bytes \cup {Framing!Newline}) /\ Len(data) \in Nat
  BY DEF FrameInv, Line
<1>1. data \in Line /\ data \in Seq(Framing!Bytes \cup {Framing!Newline}) /\ Len(data) \in Nat /\ Len(data) >= 1
  BY <1>0, EmptySeq
<1>2. Head(data) = data[1] /\ Tail(data) = Framing!After(data, 1) /\ Framing!After(data, Len(data)) = << >>
  BY <1>1 DEF Framing!After
<1>3. Framing!Read(arrived)[Taken].line \in Line
  <2>1. 0 \in 0..Len(data) /\ \A i \in 1..0 : data[i] # Framing!Newline
    BY <1>1
  <2> QED
    BY <2>1, Gone
<1>4. Len(Framing!Read(arrived)[Taken].line) \in Nat
  BY <1>3 DEF Line
<1> QED
  BY <1>1, <1>2, <1>3, <1>4

LEMMA StepDiscard ==
  ASSUME Framing!SoundFrames, FrameInv, Framing!Discard PROVE FrameInv'
<1> DEFINE s == Framing!Read(arrived)[Taken]
           t == Framing!Read(arrived')[Taken']
<1>1. data # << >> /\ discarding /\ arrived' = arrived /\ out' = out
  BY DEF Framing!Discard
<1>2. /\ Len(data) \in Nat /\ Len(data) >= 1 /\ data \in Line /\ Framing!After(data, Len(data)) = << >>
      /\ s.line \in Line /\ Len(s.line) \in Nat
  BY <1>1, Left
<1>3. buf = << >> /\ Len(s.line) > MaxBytes /\ out = Append(s.told, Framing!Overflow) /\ MaxBytes \in Nat /\ overflowEmitted = discarding /\ discarding \in BOOLEAN
  BY <1>1 DEF FrameInv, Framing!SoundFrames
<1>4. << >> \in Line
  BY DEF Line
<1>5. CASE Framing!Newlines(data) = {}
  <2>1. data' = Framing!After(data, Len(data)) /\ UNCHANGED << buf, discarding, overflowEmitted >>
    BY <1>2, <1>5 DEF Framing!Discard
  <2>2. Len(data) \in 0..Len(data) /\ \A i \in 1..Len(data) : data[i] # Framing!Newline
    BY <1>2, <1>5, NoNewline
  <2>3. /\ arrived' \in Line /\ data' \in Line /\ Len(data') <= Len(arrived')
        /\ data' = SubSeq(arrived', Taken' + 1, Len(arrived'))
        /\ t = Framing!Read(arrived)[Taken + Len(data)]
    BY <1>1, <2>1, <2>2, Taking
  <2>4. t.told = s.told /\ t.line = s.line \o SubSeq(data, 1, Len(data)) /\ SubSeq(data, 1, Len(data)) \in Line
        /\ Len(SubSeq(data, 1, Len(data))) = Len(data)
    BY <2>2, <2>3, Gone
  <2>5. Len(t.line) > MaxBytes
    <3> DEFINE a == s.line
               b == SubSeq(data, 1, Len(data))
    <3>1. a \in Seq(Framing!Bytes \cup {Framing!Newline}) /\ b \in Seq(Framing!Bytes \cup {Framing!Newline}) /\ Len(b) = Len(data)
      BY <1>2, <2>4 DEF Line
    <3> HIDE DEF a, b
    <3>2. Len(a \o b) = Len(a) + Len(data) /\ Len(a) \in Nat
      BY <3>1
    <3>3. Len(a) > MaxBytes
      BY <1>3 DEF a
    <3>4. Len(a \o b) > MaxBytes
      BY <1>2, <1>3, <3>2, <3>3
    <3> QED
      BY <2>4, <3>4 DEF a, b
  <2> HIDE DEF s, t
  <2> QED
    BY <1>1, <1>3, <1>4, <2>1, <2>3, <2>4, <2>5 DEF FrameInv, t
<1>6. CASE Framing!Newlines(data) # {}
  <2> DEFINE m == Framing!FirstNl(data)
  <2>1. data' = Framing!After(data, m) /\ discarding' = FALSE /\ overflowEmitted' = FALSE /\ buf' = << >>
    BY <1>6 DEF Framing!Discard
  <2>2. m \in 1..Len(data) /\ data[m] = Framing!Newline /\ \A i \in 1..(m - 1) : data[i] # Framing!Newline
    BY <1>2, <1>6, FirstNewline
  <2> HIDE DEF m
  <2>3. m \in 0..Len(data)
    BY <1>2, <2>2
  <2>4. /\ arrived' \in Line /\ data' \in Line /\ Len(data') <= Len(arrived')
        /\ data' = SubSeq(arrived', Taken' + 1, Len(arrived'))
        /\ t = Framing!Read(arrived)[Taken + m]
    BY <1>1, <2>1, <2>3, Taking
  <2> DEFINE line == s.line \o SubSeq(data, 1, m - 1)
  <2>5. /\ t.told = IF Len(line) > MaxBytes THEN Append(s.told, Framing!Overflow)
                    ELSE IF line = << >> THEN s.told ELSE Append(s.told, line)
        /\ t.line = << >> /\ Len(line) = Len(s.line) + (m - 1)
    BY <2>2, <2>4, GoneOver
  <2> HIDE DEF line, s, t
  <2>6. Len(line) > MaxBytes
    BY <1>2, <1>3, <2>2, <2>5
  <2>7. t.line = << >> /\ t.told = out'
    BY <1>1, <1>3, <2>5, <2>6
  <2>8. Len(<< >>) <= MaxBytes
    BY <1>3
  <2> QED
    BY <1>4, <2>1, <2>4, <2>7, <2>8 DEF FrameInv, t
<1> QED
  BY <1>5, <1>6

LEMMA StepFullFrame ==
  ASSUME Framing!SoundFrames, FrameInv, Framing!FullFrame PROVE FrameInv'
<1> DEFINE s == Framing!Read(arrived)[Taken]
           t == Framing!Read(arrived')[Taken']
<1>1. /\ data # << >> /\ ~discarding /\ Len(buf) = MaxBytes /\ Head(data) = Framing!Newline
      /\ buf' = << >> /\ data' = Tail(data) /\ arrived' = arrived
      /\ UNCHANGED << discarding, overflowEmitted >>
  BY DEF Framing!FullFrame
<1>2. out' = IF buf = << >> THEN out ELSE Append(out, buf)
  BY DEF Framing!FullFrame, Framing!Deliver
<1>3. /\ Len(data) \in Nat /\ Len(data) >= 1 /\ data[1] = Framing!Newline /\ data' = Framing!After(data, 1)
      /\ s.line \in Line /\ Len(s.line) \in Nat
  BY <1>1, Left
<1>4. buf = s.line /\ out = s.told /\ MaxBytes \in Nat /\ overflowEmitted = discarding /\ discarding \in BOOLEAN
  BY <1>1 DEF FrameInv, Framing!SoundFrames
<1>5. 1 \in 0..Len(data) /\ 1 \in 1..Len(data) /\ \A i \in 1..(1 - 1) : data[i] # Framing!Newline
  BY <1>3
<1>6. /\ arrived' \in Line /\ data' \in Line /\ Len(data') <= Len(arrived')
      /\ data' = SubSeq(arrived', Taken' + 1, Len(arrived'))
      /\ t = Framing!Read(arrived)[Taken + 1]
  BY <1>1, <1>3, <1>5, Taking
<1> DEFINE line == s.line \o SubSeq(data, 1, 1 - 1)
<1>7. /\ t.told = IF Len(line) > MaxBytes THEN Append(s.told, Framing!Overflow)
                  ELSE IF line = << >> THEN s.told ELSE Append(s.told, line)
      /\ t.line = << >> /\ Len(line) = Len(s.line) + (1 - 1)
  BY <1>3, <1>5, <1>6, GoneOver
<1>8. line = s.line
  <2>1. SubSeq(data, 1, 1 - 1) = << >>
    BY <1>3, <1>5, SubSeqEmpty
  <2> DEFINE a == s.line
  <2>2. a \in Seq(Framing!Bytes \cup {Framing!Newline})
    BY <1>3 DEF Line
  <2> HIDE DEF a
  <2>3. a \o << >> = a
    BY <2>2
  <2> QED
    BY <2>1, <2>3 DEF a
<1> HIDE DEF line, s, t
<1>9. Len(line) <= MaxBytes
  BY <1>1, <1>4, <1>8
<1>10. t.line = << >> /\ t.told = out'
  BY <1>2, <1>3, <1>4, <1>7, <1>8, <1>9
<1>11. << >> \in Line /\ Len(<< >>) <= MaxBytes
  BY <1>4 DEF Line
<1> QED
  BY <1>1, <1>4, <1>6, <1>10, <1>11 DEF FrameInv, t

LEMMA StepEmitOverflow ==
  ASSUME Framing!SoundFrames, FrameInv, Framing!EmitOverflow PROVE FrameInv'
<1> DEFINE s == Framing!Read(arrived)[Taken]
           t == Framing!Read(arrived')[Taken']
<1>1. /\ data # << >> /\ ~discarding /\ Len(buf) = MaxBytes /\ Head(data) # Framing!Newline
      /\ out' = IF overflowEmitted THEN out ELSE Append(out, Framing!Overflow)
      /\ buf' = << >> /\ arrived' = arrived
  BY DEF Framing!EmitOverflow
<1>2. /\ Len(data) \in Nat /\ Len(data) >= 1 /\ data[1] # Framing!Newline /\ data \in Line
      /\ Framing!After(data, Len(data)) = << >> /\ s.line \in Line /\ Len(s.line) \in Nat
  BY <1>1, Left
<1>3. /\ buf = s.line /\ out' = Append(s.told, Framing!Overflow) /\ MaxBytes \in Nat
      /\ Len(s.line) = MaxBytes
  BY <1>1 DEF FrameInv, Framing!SoundFrames
<1>4. << >> \in Line /\ Len(<< >>) <= MaxBytes
  BY <1>3 DEF Line
<1>5. CASE Framing!Newlines(data) = {}
  <2>1. data' = Framing!After(data, Len(data)) /\ discarding' = TRUE /\ overflowEmitted' = TRUE
    BY <1>2, <1>5 DEF Framing!EmitOverflow
  <2>2. Len(data) \in 0..Len(data) /\ \A i \in 1..Len(data) : data[i] # Framing!Newline
    BY <1>2, <1>5, NoNewline
  <2>3. /\ arrived' \in Line /\ data' \in Line /\ Len(data') <= Len(arrived')
        /\ data' = SubSeq(arrived', Taken' + 1, Len(arrived'))
        /\ t = Framing!Read(arrived)[Taken + Len(data)]
    BY <1>1, <2>1, <2>2, Taking
  <2>4. t.told = s.told /\ t.line = s.line \o SubSeq(data, 1, Len(data)) /\ SubSeq(data, 1, Len(data)) \in Line
        /\ Len(SubSeq(data, 1, Len(data))) = Len(data)
    BY <2>2, <2>3, Gone
  <2>5. Len(t.line) > MaxBytes
    <3> DEFINE a == s.line
               b == SubSeq(data, 1, Len(data))
    <3>1. a \in Seq(Framing!Bytes \cup {Framing!Newline}) /\ b \in Seq(Framing!Bytes \cup {Framing!Newline}) /\ Len(b) = Len(data)
      BY <1>2, <2>4 DEF Line
    <3>2. Len(a) = MaxBytes
      BY <1>3
    <3> HIDE DEF a, b
    <3>3. Len(a \o b) = Len(a) + Len(data)
      BY <3>1
    <3>4. Len(a \o b) > MaxBytes
      BY <1>2, <1>3, <3>2, <3>3
    <3> QED
      BY <2>4, <3>4 DEF a, b
  <2> HIDE DEF s, t
  <2> QED
    BY <1>1, <1>3, <1>4, <2>1, <2>3, <2>4, <2>5 DEF FrameInv, t
<1>6. CASE Framing!Newlines(data) # {}
  <2> DEFINE m == Framing!FirstNl(data)
  <2>1. data' = Framing!After(data, m) /\ discarding' = FALSE /\ overflowEmitted' = FALSE
    BY <1>6 DEF Framing!EmitOverflow
  <2>2. m \in 1..Len(data) /\ data[m] = Framing!Newline /\ \A i \in 1..(m - 1) : data[i] # Framing!Newline
    BY <1>2, <1>6, FirstNewline
  <2> HIDE DEF m
  <2>3. m \in 0..Len(data) /\ m > 1
    BY <1>2, <2>2
  <2>4. /\ arrived' \in Line /\ data' \in Line /\ Len(data') <= Len(arrived')
        /\ data' = SubSeq(arrived', Taken' + 1, Len(arrived'))
        /\ t = Framing!Read(arrived)[Taken + m]
    BY <1>1, <2>1, <2>3, Taking
  <2> DEFINE line == s.line \o SubSeq(data, 1, m - 1)
  <2>5. /\ t.told = IF Len(line) > MaxBytes THEN Append(s.told, Framing!Overflow)
                    ELSE IF line = << >> THEN s.told ELSE Append(s.told, line)
        /\ t.line = << >> /\ Len(line) = Len(s.line) + (m - 1)
    BY <2>2, <2>4, GoneOver
  <2> HIDE DEF line, s, t
  <2>6. Len(line) > MaxBytes
    BY <1>2, <1>3, <2>2, <2>3, <2>5
  <2>7. t.line = << >> /\ t.told = out'
    BY <1>3, <2>5, <2>6
  <2> QED
    BY <1>1, <1>4, <2>1, <2>4, <2>7 DEF FrameInv, t
<1> QED
  BY <1>5, <1>6

LEMMA StepTake ==
  ASSUME Framing!SoundFrames, FrameInv, Framing!Take PROVE FrameInv'
<1> DEFINE s == Framing!Read(arrived)[Taken]
           t == Framing!Read(arrived')[Taken']
           room  == MaxBytes - Len(buf)
           slice == IF Len(data) <= room THEN data ELSE SubSeq(data, 1, room)
<1>1. /\ data # << >> /\ ~discarding /\ room > 0 /\ arrived' = arrived
      /\ UNCHANGED << discarding, overflowEmitted >>
  BY DEF Framing!Take
<1>2. /\ Len(data) \in Nat /\ Len(data) >= 1 /\ data \in Line /\ data \in Seq(Framing!Bytes \cup {Framing!Newline})
      /\ s.line \in Line /\ s.line \in Seq(Framing!Bytes \cup {Framing!Newline}) /\ Len(s.line) \in Nat
  BY <1>1, Left DEF Line
<1>3. /\ buf = s.line /\ out = s.told /\ MaxBytes \in Nat /\ Len(s.line) <= MaxBytes /\ room = MaxBytes - Len(s.line)
      /\ overflowEmitted = discarding /\ discarding \in BOOLEAN
  BY <1>1 DEF FrameInv, Framing!SoundFrames
<1>4. PICK k \in 1..Len(data) : k <= room /\ slice = SubSeq(data, 1, k) /\ Len(slice) = k
  <2>1. CASE Len(data) <= room
    BY <1>2, <2>1
  <2>2. CASE ~(Len(data) <= room)
    <3> DEFINE a == SubSeq(data, 1, room)
    <3>1. room \in Nat /\ room \in 1..Len(data) /\ slice = a
      BY <1>1, <1>2, <1>3, <2>2
    <3> HIDE DEF room
    <3>2. Len(a) = room
      BY <1>2, <3>1
    <3> QED
      BY <3>1, <3>2
  <2> QED
    BY <2>1, <2>2
<1>5. k \in Nat /\ slice \in Line /\ \A i \in 1..k : slice[i] = data[i]
  <2> HIDE DEF slice
  <2> QED
    BY <1>2, <1>4 DEF Line
<1>6. CASE Framing!Newlines(slice) # {}
  <2> DEFINE m == Framing!FirstNl(slice)
  <2>1. data' = Framing!After(data, m) /\ buf' = << >> /\ Framing!Deliver(buf \o SubSeq(slice, 1, m - 1))
    BY <1>6 DEF Framing!Take
  <2>2. m \in 1..k /\ data[m] = Framing!Newline /\ \A i \in 1..(m - 1) : data[i] # Framing!Newline
    <3>1. m \in 1..Len(slice) /\ slice[m] = Framing!Newline /\ \A i \in 1..(m - 1) : slice[i] # Framing!Newline
      BY <1>5, <1>6, FirstNewline
    <3> HIDE DEF m, slice
    <3> QED
      BY <1>4, <1>5, <3>1
  <2> HIDE DEF m
  <2>3. m \in 0..Len(data) /\ m \in 1..Len(data)
    BY <1>2, <1>4, <2>2
  <2>4. SubSeq(slice, 1, m - 1) = SubSeq(data, 1, m - 1)
    <3> DEFINE a == SubSeq(slice, 1, m - 1)
               b == SubSeq(data, 1, m - 1)
    <3>1. slice \in Seq(Framing!Bytes \cup {Framing!Newline})
      BY <1>5 DEF Line
    <3>2. a \in Seq(Framing!Bytes \cup {Framing!Newline}) /\ Len(a) = m - 1 /\ \A i \in 1..(m - 1) : a[i] = slice[i]
      <4> HIDE DEF slice
      <4> QED
        BY <1>4, <1>5, <2>2, <3>1
    <3>3. b \in Seq(Framing!Bytes \cup {Framing!Newline}) /\ Len(b) = m - 1 /\ \A i \in 1..(m - 1) : b[i] = data[i]
      BY <1>2, <2>3
    <3>4. \A i \in 1..(m - 1) : a[i] = b[i]
      <4> HIDE DEF a, b, slice
      <4> QED
        BY <1>5, <2>2, <3>2, <3>3
    <3> HIDE DEF a, b
    <3>5. a = b
      BY <2>2, <3>2, <3>3, <3>4
    <3> QED
      BY <3>5 DEF a, b
  <2>5. /\ arrived' \in Line /\ data' \in Line /\ Len(data') <= Len(arrived')
        /\ data' = SubSeq(arrived', Taken' + 1, Len(arrived'))
        /\ t = Framing!Read(arrived)[Taken + m]
    BY <1>1, <2>1, <2>3, Taking
  <2> DEFINE line == s.line \o SubSeq(data, 1, m - 1)
  <2>6. /\ t.told = IF Len(line) > MaxBytes THEN Append(s.told, Framing!Overflow)
                    ELSE IF line = << >> THEN s.told ELSE Append(s.told, line)
        /\ t.line = << >> /\ Len(line) = Len(s.line) + (m - 1)
    BY <2>2, <2>3, <2>5, GoneOver
  <2>7. out' = IF line = << >> THEN s.told ELSE Append(s.told, line)
    BY <1>3, <2>1, <2>4 DEF Framing!Deliver
  <2> HIDE DEF line, s, t, slice
  <2>8. Len(line) <= MaxBytes
    BY <1>2, <1>3, <1>4, <2>2, <2>6
  <2>9. t.line = << >> /\ t.told = out'
    BY <1>2, <1>3, <2>2, <2>6, <2>7, <2>8
  <2>10. << >> \in Line /\ Len(<< >>) <= MaxBytes
    BY <1>3 DEF Line
  <2> QED
    BY <1>1, <1>3, <2>1, <2>5, <2>9, <2>10 DEF FrameInv, t
<1>7. CASE Framing!Newlines(slice) = {}
  <2>1. data' = Framing!After(data, k) /\ buf' = buf \o slice /\ out' = out
    <3>1. data' = Framing!After(data, Len(slice)) /\ buf' = buf \o slice /\ out' = out
      BY <1>7 DEF Framing!Take
    <3> QED
      BY <1>4, <3>1
  <2>2. k \in 0..Len(data) /\ \A i \in 1..k : data[i] # Framing!Newline
    <3>1. \A i \in 1..Len(slice) : slice[i] # Framing!Newline
      BY <1>5, <1>7, NoNewline
    <3> HIDE DEF slice
    <3> QED
      BY <1>2, <1>4, <1>5, <3>1
  <2>3. /\ arrived' \in Line /\ data' \in Line /\ Len(data') <= Len(arrived')
        /\ data' = SubSeq(arrived', Taken' + 1, Len(arrived'))
        /\ t = Framing!Read(arrived)[Taken + k]
    BY <1>1, <2>1, <2>2, Taking
  <2>4. t.told = s.told /\ t.line = s.line \o SubSeq(data, 1, k)
    BY <2>2, <2>3, Gone
  <2>5. buf' = t.line /\ out' = t.told
    BY <1>3, <1>4, <2>1, <2>4
  <2>6. buf' \in Line /\ Len(buf') <= MaxBytes
    <3> DEFINE a == s.line
    <3>1. a \in Seq(Framing!Bytes \cup {Framing!Newline}) /\ Len(a) <= MaxBytes - k /\ buf' = a \o slice
      BY <1>2, <1>3, <1>4, <2>1
    <3>2. slice \in Seq(Framing!Bytes \cup {Framing!Newline}) /\ Len(slice) = k
      BY <1>4, <1>5 DEF Line
    <3> HIDE DEF a, slice
    <3>3. a \o slice \in Seq(Framing!Bytes \cup {Framing!Newline}) /\ Len(a \o slice) = Len(a) + k
      BY <3>1, <3>2, ConcatProperties
    <3> QED
      BY <1>3, <1>5, <3>1, <3>3 DEF Line
  <2> HIDE DEF s, t
  <2> QED
    BY <1>1, <1>3, <2>3, <2>5, <2>6 DEF FrameInv, t
<1> QED
  BY <1>6, <1>7

LEMMA FrameStep ==
  ASSUME Framing!SoundFrames, FrameInv, [Framing!Next]_(Framing!vars) PROVE FrameInv'
<1>1. CASE UNCHANGED Framing!vars
  BY <1>1 DEF Framing!vars, FrameInv, Taken
<1> QED
  BY <1>1, StepChunk, StepDiscard, StepFullFrame, StepEmitOverflow, StepTake DEF Framing!Next

LEMMA FrameFollows ==
  ASSUME Framing!SoundFrames, FrameInv PROVE Framing!FramingExact /\ Framing!RetainedBounded
<1> DEFINE s == Framing!Read(arrived)[Taken]
<1>0. MaxBytes \in Nat /\ Len(buf) \in Nat /\ Len(<< >>) <= MaxBytes
  BY DEF FrameInv, Framing!SoundFrames, Line
<1>1. ASSUME data = << >> PROVE out = Framing!Meaning(arrived)
  <2>1. Taken = Len(arrived)
    BY <1>1 DEF FrameInv, Taken, Line
  <2>2. s = Framing!Read(arrived)[Len(arrived)]
    BY <2>1
  <2>3. Framing!Meaning(arrived) = IF Len(s.line) > MaxBytes THEN Append(s.told, Framing!Overflow) ELSE s.told
    BY <2>2 DEF Framing!Meaning
  <2>4. IF discarding THEN Len(s.line) > MaxBytes /\ out = Append(s.told, Framing!Overflow)
        ELSE buf = s.line /\ Len(buf) <= MaxBytes /\ out = s.told
    BY DEF FrameInv
  <2> HIDE DEF s
  <2> QED
    BY <1>0, <2>3, <2>4
<1>2. Len(buf) <= MaxBytes /\ (discarding => buf = << >>)
  BY <1>0 DEF FrameInv
<1> QED
  BY <1>1, <1>2 DEF Framing!FramingExact, Framing!RetainedBounded

-----------------------------------------------------------------------------
(***************************************************************************)
(* McpTools: the two tables agree, tool by tool.                           *)
(***************************************************************************)
LEMMA AnalysisAgrees ==
  ASSUME NEW t \in Mcp!AnalysisTools
  PROVE  /\ Mcp!AnalysisHandler(t).needed = Mcp!AnalysisSchema(t).required
         /\ Mcp!AnalysisHandler(t).allowed = Mcp!AnalysisSchema(t).required \cup Mcp!AnalysisSchema(t).optional
<1> USE DEF Mcp!AnalysisHandler, Mcp!AnalysisSchema, Mcp!Handler, Mcp!Schema
<1>1. CASE t = "diagnose" BY <1>1
<1>2. CASE t = "impact" BY <1>2
<1>3. CASE t = "analyze_page" BY <1>3
<1>4. CASE t = "upstream_preview" BY <1>4
<1> QED BY <1>1, <1>2, <1>3, <1>4 DEF Mcp!AnalysisTools

LEMMA ActionAgrees ==
  ASSUME NEW t \in Mcp!ActionTools
  PROVE  /\ Mcp!ActionHandler(t).needed = Mcp!ActionSchema(t).required
         /\ Mcp!ActionHandler(t).allowed = Mcp!ActionSchema(t).required \cup Mcp!ActionSchema(t).optional
<1> USE DEF Mcp!ActionHandler, Mcp!ActionSchema, Mcp!Handler, Mcp!Schema
<1>1. CASE t = "upstream_action_preview" BY <1>1
<1>2. CASE t = "upstream_action_confirm" BY <1>2
<1> QED BY <1>1, <1>2 DEF Mcp!ActionTools

LEMMA LocalAgrees ==
  ASSUME NEW t \in Mcp!LocalTools
  PROVE  /\ Mcp!LocalHandler(t).needed = Mcp!LocalSchema(t).required
         /\ Mcp!LocalHandler(t).allowed = Mcp!LocalSchema(t).required \cup Mcp!LocalSchema(t).optional
<1> USE DEF Mcp!LocalHandler, Mcp!LocalSchema, Mcp!Handler, Mcp!Schema
<1>1. CASE t = "repair_apply" BY <1>1
<1>2. CASE t = "scan_system" BY <1>2
<1>3. CASE t = "session_start" BY <1>3
<1>4. CASE t \notin {"repair_apply", "scan_system", "session_start"} BY <1>4
<1> QED BY <1>1, <1>2, <1>3, <1>4

LEMMA PlatformAgrees ==
  ASSUME NEW t \in Mcp!PlatformTools
  PROVE  /\ Mcp!PlatformHandler(t).needed = Mcp!PlatformSchema(t).required
         /\ Mcp!PlatformHandler(t).allowed = Mcp!PlatformSchema(t).required \cup Mcp!PlatformSchema(t).optional
<1> USE DEF Mcp!PlatformHandler, Mcp!PlatformSchema, Mcp!Handler, Mcp!Schema
<1>1. CASE t = "platform_status" BY <1>1
<1>2. CASE t = "platform_receipt_validate" BY <1>2
<1>3. CASE t = "demo" BY <1>3
<1>4. CASE t = "compare_local_update" BY <1>4
<1> QED BY <1>1, <1>2, <1>3, <1>4 DEF Mcp!PlatformTools

LEMMA LifecycleAgrees ==
  /\ Mcp!LifecycleHandler.needed = Mcp!LifecycleSchema.required
  /\ Mcp!LifecycleHandler.allowed = Mcp!LifecycleSchema.required \cup Mcp!LifecycleSchema.optional
BY DEF Mcp!LifecycleHandler, Mcp!LifecycleSchema, Mcp!Handler, Mcp!Schema

LEMMA FollowupAgrees ==
  /\ Mcp!FollowupHandler.needed = Mcp!FollowupSchema.required
  /\ Mcp!FollowupHandler.allowed = {"target", "operation"} \cup UNION {Mcp!WireFields(o) : o \in Mcp!FollowupOperations}
  /\ \A o : Mcp!WireFields(o) \subseteq Mcp!FollowupSchema.optional \cup (IF o = "refresh" THEN {Mcp!Decision} ELSE {})
  /\ Mcp!FollowupSchema.optional \subseteq UNION {Mcp!WireFields(o) : o \in Mcp!FollowupOperations}
  /\ Mcp!FollowupSchema.required = {"target", "operation"}
<1>1. /\ Mcp!FollowupHandler.needed = Mcp!FollowupSchema.required
      /\ Mcp!FollowupHandler.allowed = {"target", "operation"} \cup UNION {Mcp!WireFields(o) : o \in Mcp!FollowupOperations}
      /\ Mcp!FollowupSchema.required = {"target", "operation"}
  BY DEF Mcp!FollowupHandler, Mcp!FollowupSchema, Mcp!Handler, Mcp!Schema
<1>2. ASSUME NEW o
      PROVE Mcp!WireFields(o) \subseteq Mcp!FollowupSchema.optional \cup (IF o = "refresh" THEN {Mcp!Decision} ELSE {})
  <2>1. CASE o \in {"subscribe", "unsubscribe"} BY <2>1 DEF Mcp!WireFields, Mcp!FollowupSchema, Mcp!Schema
  <2>2. CASE o = "refresh" BY <2>2 DEF Mcp!WireFields, Mcp!FollowupSchema, Mcp!Schema
  <2>3. CASE o = "process_event" BY <2>3 DEF Mcp!WireFields, Mcp!FollowupSchema, Mcp!Schema
  <2>4. CASE o = "validate_candidate" BY <2>4 DEF Mcp!WireFields, Mcp!FollowupSchema, Mcp!Schema
  <2>5. CASE o \notin {"subscribe", "unsubscribe", "refresh", "process_event", "validate_candidate"}
    BY <2>5 DEF Mcp!WireFields, Mcp!FollowupSchema, Mcp!Schema
  <2> QED BY <2>1, <2>2, <2>3, <2>4, <2>5
<1>3. Mcp!FollowupSchema.optional \subseteq Mcp!WireFields("validate_candidate") \cup Mcp!WireFields("process_event")
  BY DEF Mcp!WireFields, Mcp!FollowupSchema, Mcp!Schema
<1>4. {"validate_candidate", "process_event"} \subseteq Mcp!FollowupOperations
  BY DEF Mcp!FollowupOperations
<1>5. Mcp!FollowupSchema.optional \subseteq UNION {Mcp!WireFields(o) : o \in Mcp!FollowupOperations}
  BY <1>3, <1>4
<1> QED BY <1>1, <1>2, <1>5

LEMMA TablesAgree ==
  ASSUME NEW t \in Mcp!Tools
  PROVE  /\ Mcp!HandlerOf(t).needed = Mcp!Required(t)
         /\ Mcp!Advertised(t) \subseteq Mcp!Allowed(t)
         /\ t # "followup" => Mcp!Allowed(t) = Mcp!Advertised(t)
<1> USE DEF Mcp!Tools, Mcp!AnalysisTools, Mcp!ActionTools, Mcp!LocalTools, Mcp!PlatformTools
<1> USE DEF Mcp!Required, Mcp!Advertised, Mcp!Allowed
<1>1. CASE t \in Mcp!AnalysisTools
  <2>1. Mcp!SchemaOf(t) = Mcp!AnalysisSchema(t) /\ Mcp!HandlerOf(t) = Mcp!AnalysisHandler(t)
    BY <1>1 DEF Mcp!SchemaOf, Mcp!HandlerOf
  <2> QED BY <1>1, <2>1, AnalysisAgrees
<1>2. CASE t \in Mcp!ActionTools
  <2>1. Mcp!SchemaOf(t) = Mcp!ActionSchema(t) /\ Mcp!HandlerOf(t) = Mcp!ActionHandler(t)
    BY <1>2 DEF Mcp!SchemaOf, Mcp!HandlerOf
  <2> QED BY <1>2, <2>1, ActionAgrees
<1>3. CASE t \in Mcp!LocalTools
  <2>1. Mcp!SchemaOf(t) = Mcp!LocalSchema(t) /\ Mcp!HandlerOf(t) = Mcp!LocalHandler(t)
    BY <1>3 DEF Mcp!SchemaOf, Mcp!HandlerOf
  <2> QED BY <1>3, <2>1, LocalAgrees
<1>4. CASE t \in Mcp!PlatformTools
  <2>1. Mcp!SchemaOf(t) = Mcp!PlatformSchema(t) /\ Mcp!HandlerOf(t) = Mcp!PlatformHandler(t)
    BY <1>4 DEF Mcp!SchemaOf, Mcp!HandlerOf
  <2> QED BY <1>4, <2>1, PlatformAgrees
<1>5. CASE t = "lifecycle"
  <2>1. Mcp!SchemaOf(t) = Mcp!LifecycleSchema /\ Mcp!HandlerOf(t) = Mcp!LifecycleHandler
    BY <1>5 DEF Mcp!SchemaOf, Mcp!HandlerOf
  <2> QED BY <1>5, <2>1, LifecycleAgrees
<1>6. CASE t = "followup"
  <2>1. Mcp!SchemaOf(t) = Mcp!FollowupSchema /\ Mcp!HandlerOf(t) = Mcp!FollowupHandler
    BY <1>6 DEF Mcp!SchemaOf, Mcp!HandlerOf
  <2> QED BY <1>6, <2>1, FollowupAgrees
<1> QED BY <1>1, <1>2, <1>3, <1>4, <1>5, <1>6

McpInv ==
  /\ request \in Mcp!Messages
  /\ result # None => result = Mcp!Answer(request)

LEMMA McpInit == Mcp!Init => McpInv
  BY DEF Mcp!Init, McpInv

LEMMA McpStep == McpInv /\ [Mcp!Next]_(Mcp!vars) => McpInv'
<1> SUFFICES ASSUME McpInv, [Mcp!Next]_(Mcp!vars) PROVE McpInv'
  OBVIOUS
<1> HIDE DEF Mcp!Messages
<1> QED
  BY DEF McpInv, Mcp!Next, Mcp!HandleMessage, Mcp!vars

LEMMA ToolCalls ==
  ASSUME NEW m \in Mcp!Messages
  PROVE  /\ m.method = "tools/call" => Mcp!Answer(m).dispatched = Mcp!Dispatched(m.call)
         /\ Mcp!Answer(m).dispatched => m.method = "tools/call"
<1>1. m.method = "tools/call" => m.shape = "message"
  BY DEF Mcp!Messages, Mcp!Methods
<1>2. CASE m.method = "tools/call"
  <2>1. Mcp!Answer(m) = IF Mcp!Dispatched(m.call) THEN [Mcp!Reply("result", m.id) EXCEPT !.dispatched = TRUE]
                    ELSE Mcp!Reply("error", m.id)
    BY <1>1, <1>2 DEF Mcp!Answer
  <2>2. /\ [Mcp!Reply("result", m.id) EXCEPT !.dispatched = TRUE].dispatched = TRUE
        /\ Mcp!Reply("error", m.id).dispatched = FALSE
    BY DEF Mcp!Reply
  <2>3. Mcp!Dispatched(m.call) \in BOOLEAN
    BY DEF Mcp!Dispatched
  <2> QED
    BY <1>2, <2>1, <2>2, <2>3
<1>3. CASE m.method # "tools/call"
  BY <1>3 DEF Mcp!Answer, Mcp!Reply, Mcp!Crashed
<1> QED
  BY <1>2, <1>3

LEMMA McpServes == McpInv => Mcp!AdvertisedIsServed
<1> SUFFICES ASSUME McpInv, result # None, request.method = "tools/call", Mcp!Conforms(request.call),
                    ~(/\ request.call.tool = "followup"
                      /\ ~(request.call.args \subseteq {"target", "operation"} \cup Mcp!WireFields(request.call.operation)))
             PROVE  result.dispatched
  BY DEF Mcp!AdvertisedIsServed
<1> DEFINE call == request.call
<1>1. result.dispatched = Mcp!Dispatched(call)
  BY ToolCalls DEF McpInv
<1>2. /\ call.tool \in Mcp!Tools /\ call.top = {"name", "arguments"} /\ Mcp!Required(call.tool) \subseteq call.args
      /\ call.args \subseteq Mcp!Advertised(call.tool) /\ call.wrong \cap call.args = {}
  BY DEF Mcp!Conforms
<1>3. Mcp!HandlerOf(call.tool).needed = Mcp!Required(call.tool) /\ Mcp!Advertised(call.tool) \subseteq Mcp!Allowed(call.tool)
  BY <1>2, TablesAgree
<1>4. ~(call.tool = "followup" /\ ~(call.args \subseteq {"target", "operation"} \cup Mcp!WireFields(call.operation)))
  OBVIOUS
<1> HIDE DEF call
<1>5. ~Mcp!Extra(call)
  BY <1>2, <1>3, <1>4 DEF Mcp!Extra
<1>6. ~Mcp!Missing(call) /\ ~Mcp!Malformed(call)
  BY <1>2, <1>3 DEF Mcp!Missing, Mcp!Malformed
<1> QED
  BY <1>1, <1>2, <1>5, <1>6 DEF Mcp!Dispatched

\* What reaches a core was asked as its tool is advertised.
LEMMA DispatchedFits ==
  ASSUME NEW call, Mcp!Dispatched(call)
  PROVE  /\ Mcp!Required(call.tool) \subseteq call.args
         /\ call.args \subseteq Mcp!Advertised(call.tool) \cup
              (IF call.tool = "followup" /\ call.operation = "refresh" THEN {Mcp!Decision} ELSE {})
<1>1. call.tool \in Mcp!Tools /\ ~Mcp!Extra(call) /\ ~Mcp!Missing(call)
  BY DEF Mcp!Dispatched
<1>2. Mcp!HandlerOf(call.tool).needed = Mcp!Required(call.tool)
  BY <1>1, TablesAgree
<1>3. Mcp!Required(call.tool) \subseteq call.args /\ call.args \subseteq Mcp!Allowed(call.tool)
  BY <1>1, <1>2 DEF Mcp!Missing, Mcp!Extra
<1>4. CASE call.tool # "followup"
  BY <1>1, <1>3, <1>4, TablesAgree
<1>5. CASE call.tool = "followup"
  <2>1. Mcp!SchemaOf(call.tool) = Mcp!FollowupSchema
    BY <1>5 DEF Mcp!SchemaOf, Mcp!AnalysisTools, Mcp!ActionTools, Mcp!LocalTools, Mcp!PlatformTools
  <2>2. {"target", "operation"} \subseteq call.args
    BY <1>3, <2>1, FollowupAgrees DEF Mcp!Required
  <2>3. call.args \subseteq {"target", "operation"} \cup Mcp!WireFields(call.operation)
    BY <1>1, <1>5, <2>2 DEF Mcp!Extra
  <2>4. call.args \subseteq Mcp!Advertised(call.tool) \cup (IF call.operation = "refresh" THEN {Mcp!Decision} ELSE {})
    BY <2>1, <2>3, FollowupAgrees DEF Mcp!Required, Mcp!Advertised
  <2> QED
    BY <1>3, <1>5, <2>4
<1> QED
  BY <1>4, <1>5

LEMMA McpAdvertises == McpInv => Mcp!ServedIsAdvertised
<1> SUFFICES ASSUME McpInv, result # None, result.dispatched
             PROVE  LET call == request.call
                    IN  /\ Mcp!Required(call.tool) \subseteq call.args
                        /\ call.args \subseteq Mcp!Advertised(call.tool) \cup
                             (IF call.tool = "followup" /\ call.operation = "refresh" THEN {Mcp!Decision} ELSE {})
  BY DEF Mcp!ServedIsAdvertised
<1>1. Mcp!Dispatched(request.call)
  BY ToolCalls DEF McpInv
<1> QED
  BY <1>1, DispatchedFits

-----------------------------------------------------------------------------
(***************************************************************************)
(* RescueCli: the words of a command are those the handler allows, and a line *)
(* is answered by what they say.                                           *)
(***************************************************************************)
LEMMA CliCounts == \A S : Cli!Cardinality(S) = Cardinality(S)
BY Zenon DEF Cardinality, IsFiniteSet, Cli!Cardinality, Cli!IsFiniteSet

Place(t) == Cli!Texts(Cli!Positionals(t))
Wire     == UNION {Cli!Mcp!WireFields(o) : o \in Cli!Mcp!FollowupOperations}
Rest(t)  == IF t = "followup" THEN (Wire \ {Cli!Mcp!Decision}) \cup {"request"} ELSE Cli!Mcp!Allowed(t) \ Place(t)

\* A word is one of a flag, and names an argument that has no place.
WordsNamed(words, rest, place) ==
  /\ \A w \in words :
       /\ w = [flag |-> w.flag, arg |-> w.arg, kind |-> w.kind]
       /\ w.flag \notin {"positional", "unknown"}
       /\ w.arg \in rest \cup {None}
       /\ w.arg # None => w.arg \notin place
  /\ \A w \in words, v \in words : w.flag = v.flag => w = v
  /\ \A a \in rest : \E w \in words : w.arg = a /\ w.kind # "refused"

WordKinds == {"text", "choice", "json", "finite", "free", "boolean", "number", "skipped", "switch", "approved", "refused"}

\* What the kinds have to be
WordsKind(words) ==
  \A w \in words :
    /\ w.kind \in WordKinds
    /\ (w.arg # None /\ w.arg = Cli!Mcp!Decision) =>
         /\ w.kind \in {"approved", "refused"}
         /\ w.flag = IF w.kind = "approved" THEN "disclose-approved" ELSE "disclose-refused"
    /\ w.flag \in {"disclose-approved", "disclose-refused"} => w.arg = Cli!Mcp!Decision
    /\ (w.arg # None /\ w.arg \in {"hook_trust", "adapter", "probe_host", "budget_ms"}) => w.kind = "choice"
    /\ w.flag = "hook-trust" => w.arg = "hook_trust"

WordsFit(t) ==
  /\ WordsNamed(Cli!WordsOf(t), Rest(t), Place(t)) /\ WordsKind(Cli!WordsOf(t))
  /\ Cli!Digest \in Rest(t) => t = "followup"
  /\ "decision" \in Rest(t) => t = "upstream_action_confirm"

LEMMA NoWordsFit ==
  ASSUME NEW t, Cli!WordsOf(t) = {}, Rest(t) = {}
  PROVE  WordsFit(t)
BY DEF WordsFit, WordsNamed, WordsKind

LEMMA AnalysisWordsFit ==
  ASSUME NEW t \in Cli!Mcp!AnalysisTools
  PROVE  WordsFit(t)
<1> USE DEF Cli!Mcp!AnalysisTools, Cli!Mcp!ActionTools, Cli!Mcp!LocalTools, Cli!Mcp!PlatformTools
<1>w. Cli!WordsOf(t) = Cli!AnalysisWords(t) /\ Cli!Mcp!Allowed(t) = Cli!Mcp!AnalysisHandler(t).allowed
  BY DEF Cli!WordsOf, Cli!Mcp!Allowed, Cli!Mcp!HandlerOf
<1>r. Rest(t) = Cli!Mcp!Allowed(t) \ Place(t)
  BY DEF Rest
<1> USE DEF Cli!AnalysisWords, Cli!Mcp!AnalysisHandler, Cli!Mcp!Handler
<1>1. CASE t = "diagnose"
  <2>1. Place(t) = {"target"}
    BY <1>1 DEF Place, Cli!Positionals, Cli!Texts
  <2>2. Rest(t) = {}
    BY <1>1, <1>w, <1>r, <2>1 DEF Cli!Mcp!Decision
  <2>3. Cli!WordsOf(t) = {}
    BY <1>1, <1>w
  <2> QED
    BY <2>2, <2>3, NoWordsFit
<1>2. CASE t = "impact"
  <2>1. Place(t) = {"target"}
    BY <1>2 DEF Place, Cli!Positionals, Cli!Texts
  <2>2. Rest(t) = {Cli!Mcp!Decision}
    BY <1>2, <1>w, <1>r, <2>1 DEF Cli!Mcp!Decision
  <2>3. Cli!WordsOf(t) = {[flag |-> "disclose-approved", arg |-> Cli!Mcp!Decision, kind |-> "approved"],
                      [flag |-> "disclose-refused", arg |-> Cli!Mcp!Decision, kind |-> "refused"]}
    BY <1>2, <1>w DEF Cli!Disclose, Cli!Takes
  <2> HIDE DEF Cli!Mcp!AnalysisTools, Cli!Mcp!ActionTools, Cli!Mcp!LocalTools, Cli!Mcp!PlatformTools
  <2>4. WordsNamed(Cli!WordsOf(t), Rest(t), Place(t))
    BY <2>1, <2>2, <2>3 DEF WordsNamed, Cli!Mcp!Decision
  <2>5. WordsKind(Cli!WordsOf(t))
    BY <2>3 DEF WordsKind, WordKinds, Cli!Mcp!Decision
  <2> QED
    BY <1>2, <2>2, <2>4, <2>5 DEF WordsFit, Cli!Digest, Cli!Mcp!Decision
<1>3. CASE t = "analyze_page"
  <2>1. Place(t) = {"target"}
    BY <1>3 DEF Place, Cli!Positionals, Cli!Texts
  <2>2. Rest(t) = {Cli!Mcp!Decision, "envelope"}
    BY <1>3, <1>w, <1>r, <2>1 DEF Cli!Mcp!Decision
  <2>3. Cli!WordsOf(t) = {[flag |-> "disclose-approved", arg |-> Cli!Mcp!Decision, kind |-> "approved"],
                      [flag |-> "disclose-refused", arg |-> Cli!Mcp!Decision, kind |-> "refused"],
                      [flag |-> "envelope", arg |-> "envelope", kind |-> "text"]}
    BY <1>3, <1>w DEF Cli!Disclose, Cli!Takes
  <2> HIDE DEF Cli!Mcp!AnalysisTools, Cli!Mcp!ActionTools, Cli!Mcp!LocalTools, Cli!Mcp!PlatformTools
  <2>4. WordsNamed(Cli!WordsOf(t), Rest(t), Place(t))
    BY <2>1, <2>2, <2>3 DEF WordsNamed, Cli!Mcp!Decision
  <2>5. WordsKind(Cli!WordsOf(t))
    BY <2>3 DEF WordsKind, WordKinds, Cli!Mcp!Decision
  <2> QED
    BY <1>3, <2>2, <2>4, <2>5 DEF WordsFit, Cli!Digest, Cli!Mcp!Decision
<1>4. CASE t = "upstream_preview"
  <2>1. Place(t) = {"target"}
    BY <1>4 DEF Place, Cli!Positionals, Cli!Texts
  <2>2. Rest(t) = {Cli!Mcp!Decision, "request"}
    BY <1>4, <1>w, <1>r, <2>1 DEF Cli!Mcp!Decision
  <2>3. Cli!WordsOf(t) = {[flag |-> "disclose-approved", arg |-> Cli!Mcp!Decision, kind |-> "approved"],
                      [flag |-> "disclose-refused", arg |-> Cli!Mcp!Decision, kind |-> "refused"],
                      [flag |-> "request", arg |-> "request", kind |-> "text"]}
    BY <1>4, <1>w DEF Cli!Disclose, Cli!Takes
  <2> HIDE DEF Cli!Mcp!AnalysisTools, Cli!Mcp!ActionTools, Cli!Mcp!LocalTools, Cli!Mcp!PlatformTools
  <2>4. WordsNamed(Cli!WordsOf(t), Rest(t), Place(t))
    BY <2>1, <2>2, <2>3 DEF WordsNamed, Cli!Mcp!Decision
  <2>5. WordsKind(Cli!WordsOf(t))
    BY <2>3 DEF WordsKind, WordKinds, Cli!Mcp!Decision
  <2> QED
    BY <1>4, <2>2, <2>4, <2>5 DEF WordsFit, Cli!Digest, Cli!Mcp!Decision
<1> QED
  BY <1>1, <1>2, <1>3, <1>4

LEMMA ActionWordsFit ==
  ASSUME NEW t \in Cli!Mcp!ActionTools
  PROVE  WordsFit(t)
<1> USE DEF Cli!Mcp!AnalysisTools, Cli!Mcp!ActionTools, Cli!Mcp!LocalTools, Cli!Mcp!PlatformTools
<1>w. Cli!WordsOf(t) = Cli!ActionWords(t) /\ Cli!Mcp!Allowed(t) = Cli!Mcp!ActionHandler(t).allowed
  BY DEF Cli!WordsOf, Cli!Mcp!Allowed, Cli!Mcp!HandlerOf
<1>r. Rest(t) = Cli!Mcp!Allowed(t) \ Place(t)
  BY DEF Rest
<1> USE DEF Cli!ActionWords, Cli!Mcp!ActionHandler, Cli!Mcp!Handler
<1>1. CASE t = "upstream_action_preview"
  <2>1. Place(t) = {"target"}
    BY <1>1 DEF Place, Cli!Positionals, Cli!Texts
  <2>2. Rest(t) = {"action", "attachment_manifest", "capsule"}
    BY <1>1, <1>w, <1>r, <2>1 DEF Cli!Mcp!Decision
  <2>3. Cli!WordsOf(t) = {[flag |-> "capsule", arg |-> "capsule", kind |-> "text"],
                      [flag |-> "action", arg |-> "action", kind |-> "text"],
                      [flag |-> "attachments", arg |-> "attachment_manifest", kind |-> "text"]}
    BY <1>1, <1>w DEF Cli!Disclose, Cli!Takes
  <2> HIDE DEF Cli!Mcp!AnalysisTools, Cli!Mcp!ActionTools, Cli!Mcp!LocalTools, Cli!Mcp!PlatformTools
  <2>4. WordsNamed(Cli!WordsOf(t), Rest(t), Place(t))
    BY <2>1, <2>2, <2>3 DEF WordsNamed, Cli!Mcp!Decision
  <2>5. WordsKind(Cli!WordsOf(t))
    BY <2>3 DEF WordsKind, WordKinds, Cli!Mcp!Decision
  <2> QED
    BY <1>1, <2>2, <2>4, <2>5 DEF WordsFit, Cli!Digest, Cli!Mcp!Decision
<1>2. CASE t = "upstream_action_confirm"
  <2>1. Place(t) = {"target"}
    BY <1>2 DEF Place, Cli!Positionals, Cli!Texts
  <2>2. Rest(t) = {"confirmation_token", "decision"}
    BY <1>2, <1>w, <1>r, <2>1 DEF Cli!Mcp!Decision
  <2>3. Cli!WordsOf(t) = {[flag |-> "confirmation", arg |-> "confirmation_token", kind |-> "text"],
                      [flag |-> "decision", arg |-> "decision", kind |-> "text"]}
    BY <1>2, <1>w DEF Cli!Disclose, Cli!Takes
  <2> HIDE DEF Cli!Mcp!AnalysisTools, Cli!Mcp!ActionTools, Cli!Mcp!LocalTools, Cli!Mcp!PlatformTools
  <2>4. WordsNamed(Cli!WordsOf(t), Rest(t), Place(t))
    BY <2>1, <2>2, <2>3 DEF WordsNamed, Cli!Mcp!Decision
  <2>5. WordsKind(Cli!WordsOf(t))
    BY <2>3 DEF WordsKind, WordKinds, Cli!Mcp!Decision
  <2> QED
    BY <1>2, <2>2, <2>4, <2>5 DEF WordsFit, Cli!Digest, Cli!Mcp!Decision
<1> QED
  BY <1>1, <1>2

LEMMA LocalWordsFit ==
  ASSUME NEW t \in Cli!Mcp!LocalTools
  PROVE  WordsFit(t)
<1> USE DEF Cli!Mcp!AnalysisTools, Cli!Mcp!ActionTools, Cli!Mcp!LocalTools, Cli!Mcp!PlatformTools
<1>w. Cli!WordsOf(t) = Cli!LocalWords(t) /\ Cli!Mcp!Allowed(t) = Cli!Mcp!LocalHandler(t).allowed
  BY DEF Cli!WordsOf, Cli!Mcp!Allowed, Cli!Mcp!HandlerOf
<1>r. Rest(t) = Cli!Mcp!Allowed(t) \ Place(t)
  BY DEF Rest
<1> USE DEF Cli!LocalWords, Cli!Mcp!LocalHandler, Cli!Mcp!Handler
<1>1. CASE t = "repair_apply"
  <2>1. Place(t) = {"target", "authorization"}
    BY <1>1 DEF Place, Cli!Positionals, Cli!Texts
  <2>2. Rest(t) = {}
    BY <1>1, <1>w, <1>r, <2>1 DEF Cli!Mcp!Decision
  <2>3. Cli!WordsOf(t) = {}
    BY <1>1, <1>w
  <2> QED
    BY <2>2, <2>3, NoWordsFit
<1>2. CASE t = "scan_system"
  <2>1. Place(t) = {}
    BY <1>2 DEF Place, Cli!Positionals, Cli!Texts
  <2>2. Rest(t) = {"state_dir"}
    BY <1>2, <1>w, <1>r, <2>1 DEF Cli!Mcp!Decision
  <2>3. Cli!WordsOf(t) = {[flag |-> "state-dir", arg |-> "state_dir", kind |-> "skipped"]}
    BY <1>2, <1>w DEF Cli!Disclose, Cli!Takes
  <2> HIDE DEF Cli!Mcp!AnalysisTools, Cli!Mcp!ActionTools, Cli!Mcp!LocalTools, Cli!Mcp!PlatformTools
  <2>4. WordsNamed(Cli!WordsOf(t), Rest(t), Place(t))
    BY <2>1, <2>2, <2>3 DEF WordsNamed, Cli!Mcp!Decision
  <2>5. WordsKind(Cli!WordsOf(t))
    BY <2>3 DEF WordsKind, WordKinds, Cli!Mcp!Decision
  <2> QED
    BY <1>2, <2>2, <2>4, <2>5 DEF WordsFit, Cli!Digest, Cli!Mcp!Decision
<1>3. CASE t = "session_start"
  <2>1. Place(t) = {"target"}
    BY <1>3 DEF Place, Cli!Positionals, Cli!Texts
  <2>2. Rest(t) = {"hook_trust"}
    BY <1>3, <1>w, <1>r, <2>1 DEF Cli!Mcp!Decision
  <2>3. Cli!WordsOf(t) = {[flag |-> "hook-trust", arg |-> "hook_trust", kind |-> "choice"]}
    BY <1>3, <1>w DEF Cli!Disclose, Cli!Takes
  <2> HIDE DEF Cli!Mcp!AnalysisTools, Cli!Mcp!ActionTools, Cli!Mcp!LocalTools, Cli!Mcp!PlatformTools
  <2>4. WordsNamed(Cli!WordsOf(t), Rest(t), Place(t))
    BY <2>1, <2>2, <2>3 DEF WordsNamed, Cli!Mcp!Decision
  <2>5. WordsKind(Cli!WordsOf(t))
    BY <2>3 DEF WordsKind, WordKinds, Cli!Mcp!Decision
  <2> QED
    BY <1>3, <2>2, <2>4, <2>5 DEF WordsFit, Cli!Digest, Cli!Mcp!Decision
<1>4. CASE t \notin {"repair_apply", "scan_system", "session_start"}
  <2>1. Place(t) = {"target"}
    BY <1>4 DEF Place, Cli!Positionals, Cli!Texts
  <2>2. Rest(t) = {}
    BY <1>4, <1>w, <1>r, <2>1 DEF Cli!Mcp!Decision
  <2>3. Cli!WordsOf(t) = {}
    BY <1>4, <1>w
  <2> QED
    BY <2>2, <2>3, NoWordsFit
<1> QED
  BY <1>1, <1>2, <1>3, <1>4

LEMMA PlatformWordsFit ==
  ASSUME NEW t \in Cli!Mcp!PlatformTools
  PROVE  WordsFit(t)
<1> USE DEF Cli!Mcp!AnalysisTools, Cli!Mcp!ActionTools, Cli!Mcp!LocalTools, Cli!Mcp!PlatformTools
<1>w. Cli!WordsOf(t) = Cli!PlatformWords(t) /\ Cli!Mcp!Allowed(t) = Cli!Mcp!PlatformHandler(t).allowed
  BY DEF Cli!WordsOf, Cli!Mcp!Allowed, Cli!Mcp!HandlerOf
<1>r. Rest(t) = Cli!Mcp!Allowed(t) \ Place(t)
  BY DEF Rest
<1> USE DEF Cli!PlatformWords, Cli!Mcp!PlatformHandler, Cli!Mcp!Handler
<1>1. CASE t = "platform_status"
  <2>1. Place(t) = {}
    BY <1>1 DEF Place, Cli!Positionals, Cli!Texts
  <2>2. Rest(t) = {"adapter", "plan", "probe_host", "receipt"}
    BY <1>1, <1>w, <1>r, <2>1 DEF Cli!Mcp!Decision
  <2>3. Cli!WordsOf(t) = {[flag |-> "probe-host", arg |-> "probe_host", kind |-> "choice"],
                      [flag |-> "adapter", arg |-> "adapter", kind |-> "choice"],
                      [flag |-> "receipt", arg |-> "receipt", kind |-> "text"],
                      [flag |-> "plan", arg |-> "plan", kind |-> "switch"]}
    BY <1>1, <1>w DEF Cli!Disclose, Cli!Takes
  <2> HIDE DEF Cli!Mcp!AnalysisTools, Cli!Mcp!ActionTools, Cli!Mcp!LocalTools, Cli!Mcp!PlatformTools
  <2>4. WordsNamed(Cli!WordsOf(t), Rest(t), Place(t))
    BY <2>1, <2>2, <2>3 DEF WordsNamed, Cli!Mcp!Decision
  <2>5. WordsKind(Cli!WordsOf(t))
    BY <2>3 DEF WordsKind, WordKinds, Cli!Mcp!Decision
  <2> QED
    BY <1>1, <2>2, <2>4, <2>5 DEF WordsFit, Cli!Digest, Cli!Mcp!Decision
<1>2. CASE t = "platform_receipt_validate"
  <2>1. Place(t) = {"receipt"}
    BY <1>2 DEF Place, Cli!Positionals, Cli!Texts
  <2>2. Rest(t) = {}
    BY <1>2, <1>w, <1>r, <2>1 DEF Cli!Mcp!Decision
  <2>3. Cli!WordsOf(t) = {}
    BY <1>2, <1>w
  <2> QED
    BY <2>2, <2>3, NoWordsFit
<1>3. CASE t = "demo"
  <2>1. Place(t) = {}
    BY <1>3 DEF Place, Cli!Positionals, Cli!Texts
  <2>2. Rest(t) = {"budget_ms"}
    BY <1>3, <1>w, <1>r, <2>1 DEF Cli!Mcp!Decision
  <2>3. Cli!WordsOf(t) = {[flag |-> "budget-ms", arg |-> "budget_ms", kind |-> "choice"]}
    BY <1>3, <1>w DEF Cli!Disclose, Cli!Takes
  <2> HIDE DEF Cli!Mcp!AnalysisTools, Cli!Mcp!ActionTools, Cli!Mcp!LocalTools, Cli!Mcp!PlatformTools
  <2>4. WordsNamed(Cli!WordsOf(t), Rest(t), Place(t))
    BY <2>1, <2>2, <2>3 DEF WordsNamed, Cli!Mcp!Decision
  <2>5. WordsKind(Cli!WordsOf(t))
    BY <2>3 DEF WordsKind, WordKinds, Cli!Mcp!Decision
  <2> QED
    BY <1>3, <2>2, <2>4, <2>5 DEF WordsFit, Cli!Digest, Cli!Mcp!Decision
<1>4. CASE t = "compare_local_update"
  <2>1. Place(t) = {}
    BY <1>4 DEF Place, Cli!Positionals, Cli!Texts
  <2>2. Rest(t) = {}
    BY <1>4, <1>w, <1>r, <2>1 DEF Cli!Mcp!Decision
  <2>3. Cli!WordsOf(t) = {[flag |-> "format", arg |-> None, kind |-> "choice"],
                      [flag |-> "json", arg |-> None, kind |-> "switch"],
                      [flag |-> "markdown", arg |-> None, kind |-> "switch"],
                      [flag |-> "md", arg |-> None, kind |-> "switch"]}
    BY <1>4, <1>w DEF Cli!Disclose, Cli!Takes
  <2> HIDE DEF Cli!Mcp!AnalysisTools, Cli!Mcp!ActionTools, Cli!Mcp!LocalTools, Cli!Mcp!PlatformTools
  <2>4. WordsNamed(Cli!WordsOf(t), Rest(t), Place(t))
    BY <2>1, <2>2, <2>3 DEF WordsNamed, Cli!Mcp!Decision
  <2>5. WordsKind(Cli!WordsOf(t))
    BY <2>3 DEF WordsKind, WordKinds, Cli!Mcp!Decision
  <2> QED
    BY <1>4, <2>2, <2>4, <2>5 DEF WordsFit, Cli!Digest, Cli!Mcp!Decision
<1> QED
  BY <1>1, <1>2, <1>3, <1>4

LEMMA LifecycleWordsFit == WordsFit("lifecycle")
<1>1. Place("lifecycle") = {"operation", "target"}
  BY DEF Place, Cli!Positionals, Cli!Texts
<1>2. Rest("lifecycle") = {"canary_executed", "candidate_version", "checkpoint_id", "control", "core_regressions_passed", "instance_id", "lawful_media_available", "now_ms", "official_source", "original_fault_absent", "provenance", "recipe_id", "signed_history_available", "source_rel", "surface", "timestamp_only", "treatment", "upstream_evidence_digest", "upstream_ref", "upstream_verified", "version_pin"}
  <2>1. Cli!Mcp!Allowed("lifecycle") = Cli!Mcp!LifecycleHandler.allowed
    BY DEF Cli!Mcp!Allowed, Cli!Mcp!HandlerOf, Cli!Mcp!AnalysisTools, Cli!Mcp!ActionTools, Cli!Mcp!LocalTools, Cli!Mcp!PlatformTools
  <2> QED
    BY <1>1, <2>1 DEF Rest, Cli!Mcp!LifecycleHandler, Cli!Mcp!Handler
<1>3. Cli!WordsOf("lifecycle") = {[flag |-> "instance-id", arg |-> "instance_id", kind |-> "free"],
                      [flag |-> "surface", arg |-> "surface", kind |-> "free"],
                      [flag |-> "source-rel", arg |-> "source_rel", kind |-> "free"],
                      [flag |-> "checkpoint-id", arg |-> "checkpoint_id", kind |-> "free"],
                      [flag |-> "official-source", arg |-> "official_source", kind |-> "free"],
                      [flag |-> "version-pin", arg |-> "version_pin", kind |-> "free"],
                      [flag |-> "provenance", arg |-> "provenance", kind |-> "free"],
                      [flag |-> "candidate-version", arg |-> "candidate_version", kind |-> "free"],
                      [flag |-> "recipe-id", arg |-> "recipe_id", kind |-> "free"],
                      [flag |-> "upstream-ref", arg |-> "upstream_ref", kind |-> "free"],
                      [flag |-> "upstream-evidence-digest", arg |-> "upstream_evidence_digest", kind |-> "free"],
                      [flag |-> "timestamp-only", arg |-> "timestamp_only", kind |-> "boolean"],
                      [flag |-> "signed-history", arg |-> "signed_history_available", kind |-> "boolean"],
                      [flag |-> "lawful-media", arg |-> "lawful_media_available", kind |-> "boolean"],
                      [flag |-> "original-fault-absent", arg |-> "original_fault_absent", kind |-> "boolean"],
                      [flag |-> "core-regressions-passed", arg |-> "core_regressions_passed", kind |-> "boolean"],
                      [flag |-> "canary-executed", arg |-> "canary_executed", kind |-> "boolean"],
                      [flag |-> "upstream-verified", arg |-> "upstream_verified", kind |-> "boolean"],
                      [flag |-> "control-json", arg |-> "control", kind |-> "json"],
                      [flag |-> "treatment-json", arg |-> "treatment", kind |-> "json"],
                      [flag |-> "now-ms", arg |-> "now_ms", kind |-> "number"]}
  <2>1. Cli!WordsOf("lifecycle") = Cli!LifecycleWords
    BY DEF Cli!WordsOf, Cli!Mcp!AnalysisTools, Cli!Mcp!ActionTools, Cli!Mcp!LocalTools, Cli!Mcp!PlatformTools
  <2> QED
    BY <2>1 DEF Cli!LifecycleWords, Cli!Takes
<1>4. WordsNamed(Cli!WordsOf("lifecycle"), Rest("lifecycle"), Place("lifecycle"))
  <2>1. \A w \in Cli!WordsOf("lifecycle") :
          /\ w = [flag |-> w.flag, arg |-> w.arg, kind |-> w.kind]
          /\ w.flag \notin {"positional", "unknown"}
          /\ w.arg \in Rest("lifecycle") /\ w.arg \notin Place("lifecycle")
    BY <1>1, <1>2, <1>3
  <2>2. \A w \in Cli!WordsOf("lifecycle"), v \in Cli!WordsOf("lifecycle") : w.flag = v.flag => w = v
    BY <1>3
  <2>3. \A a \in Rest("lifecycle") : \E w \in Cli!WordsOf("lifecycle") : w.arg = a /\ w.kind # "refused"
    <3>1. /\ [flag |-> "instance-id", arg |-> "instance_id", kind |-> "free"] \in Cli!WordsOf("lifecycle")
          /\ [flag |-> "surface", arg |-> "surface", kind |-> "free"] \in Cli!WordsOf("lifecycle")
          /\ [flag |-> "source-rel", arg |-> "source_rel", kind |-> "free"] \in Cli!WordsOf("lifecycle")
          /\ [flag |-> "checkpoint-id", arg |-> "checkpoint_id", kind |-> "free"] \in Cli!WordsOf("lifecycle")
          /\ [flag |-> "official-source", arg |-> "official_source", kind |-> "free"] \in Cli!WordsOf("lifecycle")
          /\ [flag |-> "version-pin", arg |-> "version_pin", kind |-> "free"] \in Cli!WordsOf("lifecycle")
          /\ [flag |-> "provenance", arg |-> "provenance", kind |-> "free"] \in Cli!WordsOf("lifecycle")
          /\ [flag |-> "candidate-version", arg |-> "candidate_version", kind |-> "free"] \in Cli!WordsOf("lifecycle")
          /\ [flag |-> "recipe-id", arg |-> "recipe_id", kind |-> "free"] \in Cli!WordsOf("lifecycle")
          /\ [flag |-> "upstream-ref", arg |-> "upstream_ref", kind |-> "free"] \in Cli!WordsOf("lifecycle")
          /\ [flag |-> "upstream-evidence-digest", arg |-> "upstream_evidence_digest", kind |-> "free"] \in Cli!WordsOf("lifecycle")
          /\ [flag |-> "timestamp-only", arg |-> "timestamp_only", kind |-> "boolean"] \in Cli!WordsOf("lifecycle")
          /\ [flag |-> "signed-history", arg |-> "signed_history_available", kind |-> "boolean"] \in Cli!WordsOf("lifecycle")
          /\ [flag |-> "lawful-media", arg |-> "lawful_media_available", kind |-> "boolean"] \in Cli!WordsOf("lifecycle")
          /\ [flag |-> "original-fault-absent", arg |-> "original_fault_absent", kind |-> "boolean"] \in Cli!WordsOf("lifecycle")
          /\ [flag |-> "core-regressions-passed", arg |-> "core_regressions_passed", kind |-> "boolean"] \in Cli!WordsOf("lifecycle")
          /\ [flag |-> "canary-executed", arg |-> "canary_executed", kind |-> "boolean"] \in Cli!WordsOf("lifecycle")
          /\ [flag |-> "upstream-verified", arg |-> "upstream_verified", kind |-> "boolean"] \in Cli!WordsOf("lifecycle")
          /\ [flag |-> "control-json", arg |-> "control", kind |-> "json"] \in Cli!WordsOf("lifecycle")
          /\ [flag |-> "treatment-json", arg |-> "treatment", kind |-> "json"] \in Cli!WordsOf("lifecycle")
          /\ [flag |-> "now-ms", arg |-> "now_ms", kind |-> "number"] \in Cli!WordsOf("lifecycle")
      BY <1>3
    <3> QED
      BY <1>2, <3>1
  <2> QED
    BY <2>1, <2>2, <2>3 DEF WordsNamed
<1>5. WordsKind(Cli!WordsOf("lifecycle"))
  BY <1>3 DEF WordsKind, WordKinds, Cli!Mcp!Decision
<1> QED
  BY <1>2, <1>4, <1>5 DEF WordsFit, Cli!Digest

LEMMA FollowupWordsFit == WordsFit("followup")
<1>1. Place("followup") = {"operation", "target"}
  BY DEF Place, Cli!Positionals, Cli!Texts
<1>2. Rest("followup") = {"baseline_target", "candidate_version", "event", "issue", "measurement_profile_id", "now_ms", "official_evidence_item_digest", "official_evidence_ref", "recipe_id", "request"}
  <2>1. Rest("followup") = (Wire \ {Cli!Mcp!Decision}) \cup {"request"}
    BY DEF Rest
  <2>2. /\ Cli!Mcp!WireFields("subscribe") = {"now_ms", "issue"}
        /\ Cli!Mcp!WireFields("refresh") = {"now_ms", "event", Cli!Mcp!Decision}
        /\ Cli!Mcp!WireFields("validate_candidate") =
             {"now_ms", "issue", "candidate_version", "recipe_id", "official_evidence_item_digest",
              "official_evidence_ref", "baseline_target", "measurement_profile_id"}
        /\ \A o \in Cli!Mcp!FollowupOperations :
             Cli!Mcp!WireFields(o) \subseteq Cli!Mcp!WireFields("refresh") \cup Cli!Mcp!WireFields("validate_candidate")
        /\ {"refresh", "validate_candidate"} \subseteq Cli!Mcp!FollowupOperations
    BY DEF Cli!Mcp!WireFields, Cli!Mcp!FollowupOperations
  <2>3. Wire = Cli!Mcp!WireFields("refresh") \cup Cli!Mcp!WireFields("validate_candidate")
    BY <2>2 DEF Wire
  <2> QED
    <3>1. Rest("followup") = ((Cli!Mcp!WireFields("refresh") \cup Cli!Mcp!WireFields("validate_candidate")) \ {Cli!Mcp!Decision}) \cup {"request"}
      BY <2>1, <2>3
    <3>2. Cli!Mcp!Decision \notin Cli!Mcp!WireFields("validate_candidate") /\ Cli!Mcp!Decision \notin {"now_ms", "event"}
      BY <2>2 DEF Cli!Mcp!Decision
    <3> QED
      BY <2>2, <3>1, <3>2
<1>3. Cli!WordsOf("followup") = {[flag |-> "request", arg |-> "request", kind |-> "text"],
                      [flag |-> "issue", arg |-> "issue", kind |-> "text"],
                      [flag |-> "candidate-version", arg |-> "candidate_version", kind |-> "text"],
                      [flag |-> "recipe-id", arg |-> "recipe_id", kind |-> "text"],
                      [flag |-> "official-evidence-item-digest", arg |-> "official_evidence_item_digest", kind |-> "text"],
                      [flag |-> "official-evidence-ref", arg |-> "official_evidence_ref", kind |-> "text"],
                      [flag |-> "baseline-target", arg |-> "baseline_target", kind |-> "text"],
                      [flag |-> "measurement-profile-id", arg |-> "measurement_profile_id", kind |-> "text"],
                      [flag |-> "event-json", arg |-> "event", kind |-> "json"],
                      [flag |-> "now-ms", arg |-> "now_ms", kind |-> "finite"]}
  <2>1. Cli!WordsOf("followup") = Cli!FollowupWords
    BY DEF Cli!WordsOf, Cli!Mcp!AnalysisTools, Cli!Mcp!ActionTools, Cli!Mcp!LocalTools, Cli!Mcp!PlatformTools
  <2> QED
    BY <2>1 DEF Cli!FollowupWords, Cli!Takes
<1>4. WordsNamed(Cli!WordsOf("followup"), Rest("followup"), Place("followup"))
  <2>1. \A w \in Cli!WordsOf("followup") :
          /\ w = [flag |-> w.flag, arg |-> w.arg, kind |-> w.kind]
          /\ w.flag \notin {"positional", "unknown"}
          /\ w.arg \in Rest("followup") /\ w.arg \notin Place("followup")
    BY <1>1, <1>2, <1>3
  <2>2. \A w \in Cli!WordsOf("followup"), v \in Cli!WordsOf("followup") : w.flag = v.flag => w = v
    BY <1>3
  <2>3. \A a \in Rest("followup") : \E w \in Cli!WordsOf("followup") : w.arg = a /\ w.kind # "refused"
    <3>1. /\ [flag |-> "request", arg |-> "request", kind |-> "text"] \in Cli!WordsOf("followup")
          /\ [flag |-> "issue", arg |-> "issue", kind |-> "text"] \in Cli!WordsOf("followup")
          /\ [flag |-> "candidate-version", arg |-> "candidate_version", kind |-> "text"] \in Cli!WordsOf("followup")
          /\ [flag |-> "recipe-id", arg |-> "recipe_id", kind |-> "text"] \in Cli!WordsOf("followup")
          /\ [flag |-> "official-evidence-item-digest", arg |-> "official_evidence_item_digest", kind |-> "text"] \in Cli!WordsOf("followup")
          /\ [flag |-> "official-evidence-ref", arg |-> "official_evidence_ref", kind |-> "text"] \in Cli!WordsOf("followup")
          /\ [flag |-> "baseline-target", arg |-> "baseline_target", kind |-> "text"] \in Cli!WordsOf("followup")
          /\ [flag |-> "measurement-profile-id", arg |-> "measurement_profile_id", kind |-> "text"] \in Cli!WordsOf("followup")
          /\ [flag |-> "event-json", arg |-> "event", kind |-> "json"] \in Cli!WordsOf("followup")
          /\ [flag |-> "now-ms", arg |-> "now_ms", kind |-> "finite"] \in Cli!WordsOf("followup")
      BY <1>3
    <3> QED
      BY <1>2, <3>1
  <2> QED
    BY <2>1, <2>2, <2>3 DEF WordsNamed
<1>5. WordsKind(Cli!WordsOf("followup"))
  BY <1>3 DEF WordsKind, WordKinds, Cli!Mcp!Decision
<1> QED
  BY <1>2, <1>4, <1>5 DEF WordsFit, Cli!Digest

LEMMA AllWordsFit ==
  ASSUME NEW t \in Cli!Mcp!Tools
  PROVE  WordsFit(t)
BY AnalysisWordsFit, ActionWordsFit, LocalWordsFit, PlatformWordsFit, LifecycleWordsFit, FollowupWordsFit
   DEF Cli!Mcp!Tools

\* What a handler needs is placed, or needs its flag, or is a state directory.
NeedsFit(t) ==
  /\ Cli!Mcp!HandlerOf(t).needed = Place(t) \cup Cli!Needed(t) \cup (IF t = "scan_system" THEN {"state_dir"} ELSE {})
  /\ t = "followup" => Cli!Mcp!HandlerOf(t).needed = {"target", "operation"}
  /\ Cli!Mcp!HandlerOf(t).needed \subseteq Cli!Mcp!Allowed(t)
  /\ \A a \in Cli!Needed(t) : \E w \in Cli!WordsOf(t) : w.arg = a /\ w.kind = "text"
  /\ \A w \in Cli!WordsOf(t) : w.arg # None /\ w.arg \in Cli!Needed(t) => w.kind = "text"

LEMMA AnalysisNeedsFit ==
  ASSUME NEW t \in Cli!Mcp!AnalysisTools
  PROVE  NeedsFit(t)
<1> USE DEF Cli!Mcp!AnalysisTools, Cli!Mcp!ActionTools, Cli!Mcp!LocalTools, Cli!Mcp!PlatformTools
<1>1. Cli!WordsOf(t) = Cli!AnalysisWords(t) /\ Cli!Mcp!HandlerOf(t) = Cli!Mcp!AnalysisHandler(t)
  BY DEF Cli!WordsOf, Cli!Mcp!HandlerOf
<1>2. Place(t) = {"target"}
  BY DEF Place, Cli!Positionals, Cli!Texts
<1> USE DEF NeedsFit, Cli!AnalysisWords, Cli!Mcp!AnalysisHandler, Cli!Mcp!Handler, Cli!Needed, Cli!Mcp!Allowed, Cli!Takes
<1>3. CASE t = "diagnose"
  BY <1>1, <1>2, <1>3
<1>4. CASE t = "impact"
  BY <1>1, <1>2, <1>4
<1>5. CASE t = "analyze_page"
  <2>1. Cli!WordsOf(t) = {[flag |-> "disclose-approved", arg |-> Cli!Mcp!Decision, kind |-> "approved"],
                      [flag |-> "disclose-refused", arg |-> Cli!Mcp!Decision, kind |-> "refused"],
                      [flag |-> "envelope", arg |-> "envelope", kind |-> "text"]}
    BY <1>1, <1>5 DEF Cli!Disclose
  <2>2. Cli!Mcp!HandlerOf(t).needed = {"target", "envelope"} /\ Cli!Mcp!HandlerOf(t).allowed = {"target", "envelope", Cli!Mcp!Decision}
    BY <1>1, <1>5
  <2>3. Cli!Needed(t) = {"envelope"}
    BY <1>5
  <2>4. \A a \in Cli!Needed(t) : \E w \in Cli!WordsOf(t) : w.arg = a /\ w.kind = "text"
    BY <2>1, <2>3
  <2>5. \A w \in Cli!WordsOf(t) : w.arg # None /\ w.arg \in Cli!Needed(t) => w.kind = "text"
    BY <2>1, <2>3 DEF Cli!Mcp!Decision
  <2> QED
    BY <1>2, <1>5, <2>2, <2>3, <2>4, <2>5 DEF Cli!Mcp!Decision
<1>6. CASE t = "upstream_preview"
  <2>1. Cli!WordsOf(t) = {[flag |-> "disclose-approved", arg |-> Cli!Mcp!Decision, kind |-> "approved"],
                      [flag |-> "disclose-refused", arg |-> Cli!Mcp!Decision, kind |-> "refused"],
                      [flag |-> "request", arg |-> "request", kind |-> "text"]}
    BY <1>1, <1>6 DEF Cli!Disclose
  <2>2. Cli!Mcp!HandlerOf(t).needed = {"target", "request"} /\ Cli!Mcp!HandlerOf(t).allowed = {"target", "request", Cli!Mcp!Decision}
    BY <1>1, <1>6
  <2>3. Cli!Needed(t) = {"request"}
    BY <1>6
  <2>4. \A a \in Cli!Needed(t) : \E w \in Cli!WordsOf(t) : w.arg = a /\ w.kind = "text"
    BY <2>1, <2>3
  <2>5. \A w \in Cli!WordsOf(t) : w.arg # None /\ w.arg \in Cli!Needed(t) => w.kind = "text"
    BY <2>1, <2>3 DEF Cli!Mcp!Decision
  <2> QED
    BY <1>2, <1>6, <2>2, <2>3, <2>4, <2>5 DEF Cli!Mcp!Decision
<1> QED
  BY <1>3, <1>4, <1>5, <1>6

LEMMA ActionNeedsFit ==
  ASSUME NEW t \in Cli!Mcp!ActionTools
  PROVE  NeedsFit(t)
<1> USE DEF Cli!Mcp!AnalysisTools, Cli!Mcp!ActionTools, Cli!Mcp!LocalTools, Cli!Mcp!PlatformTools
<1>1. Cli!WordsOf(t) = Cli!ActionWords(t) /\ Cli!Mcp!HandlerOf(t) = Cli!Mcp!ActionHandler(t)
  BY DEF Cli!WordsOf, Cli!Mcp!HandlerOf
<1>2. Place(t) = {"target"}
  BY DEF Place, Cli!Positionals, Cli!Texts
<1> USE DEF NeedsFit, Cli!ActionWords, Cli!Mcp!ActionHandler, Cli!Mcp!Handler, Cli!Needed, Cli!Mcp!Allowed, Cli!Takes
<1>3. CASE t = "upstream_action_preview"
  <2>1. Cli!WordsOf(t) = {[flag |-> "capsule", arg |-> "capsule", kind |-> "text"],
                      [flag |-> "action", arg |-> "action", kind |-> "text"],
                      [flag |-> "attachments", arg |-> "attachment_manifest", kind |-> "text"]}
    BY <1>1, <1>3
  <2>2. Cli!Mcp!HandlerOf(t).needed = {"target", "capsule", "action"} /\ Cli!Mcp!HandlerOf(t).allowed = {"target", "capsule", "action", "attachment_manifest"}
    BY <1>1, <1>3
  <2>3. Cli!Needed(t) = {"capsule", "action"}
    BY <1>3
  <2>4. \A a \in Cli!Needed(t) : \E w \in Cli!WordsOf(t) : w.arg = a /\ w.kind = "text"
    BY <2>1, <2>3
  <2>5. \A w \in Cli!WordsOf(t) : w.arg # None /\ w.arg \in Cli!Needed(t) => w.kind = "text"
    BY <2>1, <2>3 DEF Cli!Mcp!Decision
  <2> QED
    BY <1>2, <1>3, <2>2, <2>3, <2>4, <2>5 DEF Cli!Mcp!Decision
<1>4. CASE t = "upstream_action_confirm"
  <2>1. Cli!WordsOf(t) = {[flag |-> "confirmation", arg |-> "confirmation_token", kind |-> "text"],
                      [flag |-> "decision", arg |-> "decision", kind |-> "text"]}
    BY <1>1, <1>4
  <2>2. Cli!Mcp!HandlerOf(t).needed = {"target", "confirmation_token", "decision"} /\ Cli!Mcp!HandlerOf(t).allowed = {"target", "confirmation_token", "decision"}
    BY <1>1, <1>4
  <2>3. Cli!Needed(t) = {"confirmation_token", "decision"}
    BY <1>4
  <2>4. \A a \in Cli!Needed(t) : \E w \in Cli!WordsOf(t) : w.arg = a /\ w.kind = "text"
    BY <2>1, <2>3
  <2>5. \A w \in Cli!WordsOf(t) : w.arg # None /\ w.arg \in Cli!Needed(t) => w.kind = "text"
    BY <2>1, <2>3 DEF Cli!Mcp!Decision
  <2> QED
    BY <1>2, <1>4, <2>2, <2>3, <2>4, <2>5 DEF Cli!Mcp!Decision
<1> QED
  BY <1>3, <1>4

LEMMA OtherNeedsFit ==
  ASSUME NEW t \in Cli!Mcp!LocalTools \cup Cli!Mcp!PlatformTools \cup {"lifecycle", "followup"}
  PROVE  NeedsFit(t)
<1> USE DEF Cli!Mcp!AnalysisTools, Cli!Mcp!ActionTools, Cli!Mcp!LocalTools, Cli!Mcp!PlatformTools
<1>1. Cli!Needed(t) = {}
  BY DEF Cli!Needed
<1> USE DEF NeedsFit, Place, Cli!Positionals, Cli!Texts, Cli!Mcp!Handler, Cli!Mcp!HandlerOf, Cli!Mcp!Allowed
<1>2. CASE t \in Cli!Mcp!LocalTools
  <2>1. Cli!Mcp!HandlerOf(t) = Cli!Mcp!LocalHandler(t)
    BY <1>2 DEF Cli!Mcp!HandlerOf
  <2>2. CASE t \in {"repair_apply", "scan_system", "session_start"}
    BY <1>1, <2>1, <2>2 DEF Cli!Mcp!LocalHandler
  <2>3. CASE t \notin {"repair_apply", "scan_system", "session_start"}
    BY <1>1, <1>2, <2>1, <2>3 DEF Cli!Mcp!LocalHandler
  <2> QED
    BY <2>2, <2>3
<1>3. CASE t \in Cli!Mcp!PlatformTools
  <2>1. Cli!Mcp!HandlerOf(t) = Cli!Mcp!PlatformHandler(t)
    BY <1>3 DEF Cli!Mcp!HandlerOf
  <2> QED
    BY <1>1, <1>3, <2>1 DEF Cli!Mcp!PlatformHandler
<1>4. CASE t = "lifecycle"
  BY <1>1, <1>4 DEF Cli!Mcp!LifecycleHandler
<1>5. CASE t = "followup"
  BY <1>1, <1>5 DEF Cli!Mcp!FollowupHandler
<1> QED
  BY <1>2, <1>3, <1>4, <1>5

LEMMA AllNeedsFit ==
  ASSUME NEW t \in Cli!Mcp!Tools
  PROVE  NeedsFit(t)
BY AnalysisNeedsFit, ActionNeedsFit, OtherNeedsFit DEF Cli!Mcp!Tools

Words == Seq([flag : STRING, value : STRING])

\* The words of a line, taken where they stand
LEMMA ChosenSays ==
  ASSUME NEW line, line.words \in Words, NEW W, NEW a, Cli!Saying(line, W, a) # {}
  PROVE  /\ Cli!Chosen(line, a, Cli!Saying(line, W, a)) \in Cli!Saying(line, W, a)
         /\ a \in {"hook_trust", "state_dir"} =>
              \A m \in Cli!Saying(line, W, a) : Cli!Chosen(line, a, Cli!Saying(line, W, a)) <= m
         /\ a \notin {"hook_trust", "state_dir"} =>
              \A m \in Cli!Saying(line, W, a) : m <= Cli!Chosen(line, a, Cli!Saying(line, W, a))
<1> DEFINE all == Cli!Saying(line, W, a)
<1>0. Len(line.words) \in Nat /\ DOMAIN line.words = 1..Len(line.words)
  BY DEF Words
<1>1. all \subseteq 1..Len(line.words)
  BY <1>0 DEF Cli!Saying, Cli!Flags
<1> DEFINE N == Len(line.words)
<1> HIDE DEF all, N
<1>a. all # {} /\ N \in Nat /\ all \subseteq 1..N
  BY <1>0, <1>1 DEF all, N
<1>2. \E n \in all : \A m \in all : n <= m
  BY <1>a, LeastExists
<1>3. \E n \in all : \A m \in all : m <= n
  <2> DEFINE back == {N - n : n \in all}
  <2>0. \A n \in all : N - n \in Nat
    BY <1>a
  <2>1. back \in SUBSET Nat /\ back # {}
    BY <1>a, <2>0
  <2>2. PICK b \in back : \A k \in back : b <= k
    <3> HIDE DEF back
    <3> QED BY <2>1, LeastExists
  <2>3. PICK n \in all : b = N - n
    OBVIOUS
  <2>4. \A m \in all : N - n <= N - m
    BY <2>2, <2>3
  <2> QED
    BY <1>a, <2>4
<1>4. a \in {"hook_trust", "state_dir"} =>
        /\ Cli!Chosen(line, a, all) \in all
        /\ \A m \in all : Cli!Chosen(line, a, all) <= m
  BY <1>2 DEF Cli!Chosen
<1>5. a \notin {"hook_trust", "state_dir"} =>
        /\ Cli!Chosen(line, a, all) \in all
        /\ \A m \in all : m <= Cli!Chosen(line, a, all)
  BY <1>3 DEF Cli!Chosen
<1> QED
  BY <1>4, <1>5 DEF all

LEMMA MeaningFits ==
  ASSUME NEW t \in Cli!Mcp!Tools, NEW w \in Cli!WordsOf(t), NEW x, x.flag = w.flag
  PROVE  Cli!MeaningOf(x, Cli!WordsOf(t)) = Cli!Meaning(w.kind, x.value)
<1>1. \A v \in Cli!WordsOf(t) : v.flag = x.flag => v = w
  BY AllWordsFit DEF WordsFit, WordsNamed
<1>2. (CHOOSE v \in Cli!WordsOf(t) : v.flag = x.flag) = w
  BY <1>1
<1> QED
  BY <1>2 DEF Cli!MeaningOf

\* What a flag says is said of an argument that the handler allows.
LEMMA InlineFits ==
  ASSUME NEW line, line.tool \in Cli!Mcp!Tools, line.words \in Words,
         NEW a \in DOMAIN Cli!Inline(line, Cli!WordsOf(line.tool))
  PROVE  /\ a \in Rest(line.tool) /\ a # None
         /\ \E w \in Cli!WordsOf(line.tool), n \in Cli!Saying(line, Cli!WordsOf(line.tool), a) :
              /\ n = Cli!Chosen(line, a, Cli!Saying(line, Cli!WordsOf(line.tool), a))
              /\ w.arg = a /\ w.flag = line.words[n].flag
              /\ Cli!Inline(line, Cli!WordsOf(line.tool))[a] = Cli!Meaning(w.kind, line.words[n].value)
<1> DEFINE W == Cli!WordsOf(line.tool)
           all == Cli!Saying(line, W, a)
           n == Cli!Chosen(line, a, all)
<1>1. a # None /\ all # {} /\ \E w \in W : w.arg = a
  BY DEF Cli!Inline
<1>2. a \in Rest(line.tool)
  BY <1>1, AllWordsFit DEF WordsFit, WordsNamed
<1>3. n \in all
  BY <1>1, ChosenSays
<1>4. PICK w \in W : w.flag = line.words[n].flag /\ w.arg = a
  BY <1>3 DEF Cli!Saying
<1>5. Cli!Inline(line, W)[a] = Cli!MeaningOf(line.words[n], W)
  BY DEF Cli!Inline
<1>6. Cli!MeaningOf(line.words[n], W) = Cli!Meaning(w.kind, line.words[n].value)
  BY <1>4, MeaningFits
<1> QED
  BY <1>1, <1>2, <1>3, <1>4, <1>5, <1>6

CliInv ==
  /\ request \in CliRequests
  /\ result # None =>
       \E well \in BOOLEAN :
         result = Cli!Answer(request, Cli!WordsOf(request.tool), Cli!Inline(request, Cli!WordsOf(request.tool)),
                         Cli!Body(request, Cli!Inline(request, Cli!WordsOf(request.tool))), well)

LEMMA CliInit == Cli!Init => CliInv
  BY DEF Cli!Init, CliInv

LEMMA CliStep == CliInv /\ [Cli!Next]_(Cli!vars) => CliInv'
<1> SUFFICES ASSUME CliInv, [Cli!Next]_(Cli!vars) PROVE CliInv'
  OBVIOUS
<1>1. CASE UNCHANGED Cli!vars
  BY <1>1 DEF CliInv, Cli!vars
<1>2. ASSUME NEW well \in BOOLEAN, Cli!RunCli(well) PROVE CliInv'
  BY <1>2 DEF CliInv, Cli!RunCli
<1> QED
  BY <1>1, <1>2 DEF Cli!Next

\* The line that ran, and what its core was given
LEMMA RanLine ==
  ASSUME CliInv, Cli!SoundLines, Cli!Ran
  PROVE  LET line   == request
             W      == Cli!WordsOf(line.tool)
             inline == Cli!Inline(line, W)
             body   == Cli!Body(line, inline)
         IN  /\ line.tool \in Cli!Mcp!Tools /\ line.words \in Words
             /\ Cli!Understood(line, W)
             /\ line.tool = "scan_system" => "state_dir" \in DOMAIN inline \cup Cli!StateDir(line, inline)
             /\ ~Cli!Conflict(line, inline) /\ ~Cli!WireRefuses(line, body)
             /\ result.args = Cli!ArgsOf(line, inline, body)
<1> DEFINE W == Cli!WordsOf(request.tool)
           inline == Cli!Inline(request, W)
           body == Cli!Body(request, inline)
<1>1. request.tool \in Cli!Mcp!Tools /\ request.words \in Words
  BY DEF CliInv, Cli!SoundLines, Words
<1>2. PICK well \in BOOLEAN : result = Cli!Answer(request, W, inline, body, well)
  BY DEF CliInv, Cli!Ran
<1>3. ~Cli!NotRun(1).core /\ ~Cli!NotRun(2).core
  BY DEF Cli!NotRun
<1> HIDE DEF W, inline, body
<1>4. Cli!Understood(request, W)
  BY <1>2, <1>3 DEF Cli!Answer, Cli!Ran
<1>5. ~(request.tool = "scan_system" /\ "state_dir" \notin DOMAIN inline \cup Cli!StateDir(request, inline))
  BY <1>2, <1>3, <1>4 DEF Cli!Answer, Cli!Ran
<1>6. ~(Cli!Conflict(request, inline) \/ Cli!Unparsable(request, inline) \/ Cli!WireRefuses(request, body))
  BY <1>2, <1>3, <1>4, <1>5 DEF Cli!Answer, Cli!Ran
<1>7. result.args = Cli!ArgsOf(request, inline, body)
  BY <1>2, <1>4, <1>5, <1>6 DEF Cli!Answer
<1> QED
  BY <1>1, <1>4, <1>5, <1>6, <1>7 DEF W, inline, body

\* The arguments that flags must give are arguments of the server.
LEMMA NeededNamed ==
  /\ "request" \in Cli!Mcp!AllArgs
  /\ \A t : Cli!Needed(t) \subseteq Cli!Mcp!AllArgs
<1> USE DEF Cli!Mcp!AnalysisTools, Cli!Mcp!ActionTools, Cli!Mcp!LocalTools, Cli!Mcp!PlatformTools
<1>1. /\ Cli!Mcp!SchemaOf("analyze_page") = Cli!Mcp!AnalysisSchema("analyze_page")
      /\ Cli!Mcp!SchemaOf("upstream_preview") = Cli!Mcp!AnalysisSchema("upstream_preview")
      /\ Cli!Mcp!SchemaOf("upstream_action_preview") = Cli!Mcp!ActionSchema("upstream_action_preview")
      /\ Cli!Mcp!SchemaOf("upstream_action_confirm") = Cli!Mcp!ActionSchema("upstream_action_confirm")
  BY DEF Cli!Mcp!SchemaOf
<1>2. {"analyze_page", "upstream_preview", "upstream_action_preview", "upstream_action_confirm"} \subseteq Cli!Mcp!Tools
  BY DEF Cli!Mcp!Tools
<1>3. /\ "envelope" \in Cli!Mcp!Advertised("analyze_page") /\ "request" \in Cli!Mcp!Advertised("upstream_preview")
      /\ {"capsule", "action"} \subseteq Cli!Mcp!Advertised("upstream_action_preview")
      /\ {"confirmation_token", "decision"} \subseteq Cli!Mcp!Advertised("upstream_action_confirm")
  BY <1>1 DEF Cli!Mcp!Advertised, Cli!Mcp!Required, Cli!Mcp!AnalysisSchema, Cli!Mcp!ActionSchema, Cli!Mcp!Schema
<1>4. {"envelope", "request", "capsule", "action", "confirmation_token", "decision"} \subseteq Cli!Mcp!AllArgs
  <2> HIDE DEF Cli!Mcp!AnalysisTools, Cli!Mcp!ActionTools, Cli!Mcp!LocalTools, Cli!Mcp!PlatformTools
  <2>1. \A t \in Cli!Mcp!Tools : Cli!Mcp!Advertised(t) \subseteq Cli!Mcp!AllArgs
    BY DEF Cli!Mcp!AllArgs
  <2> QED
    BY <1>2, <1>3, <2>1
<1> QED
  BY <1>4 DEF Cli!Needed

LEMMA OneSourceHolds == CliInv /\ Cli!SoundLines => Cli!OneSource
<1> SUFFICES ASSUME CliInv, Cli!SoundLines, Cli!Ran, request.tool = "followup",
                    NEW n \in DOMAIN request.words, request.words[n].flag = "request"
             PROVE  DOMAIN result.args = (request.body \ {Cli!Mcp!Decision}) \cup {"operation", "target"}
  BY DEF Cli!OneSource
<1> DEFINE W == Cli!WordsOf("followup")
           inline == Cli!Inline(request, W)
           body == Cli!Body(request, inline)
<1>1. [flag |-> "request", arg |-> "request", kind |-> "text"] \in W
  <2>1. W = Cli!FollowupWords
    BY DEF Cli!WordsOf, Cli!Mcp!AnalysisTools, Cli!Mcp!ActionTools, Cli!Mcp!LocalTools, Cli!Mcp!PlatformTools
  <2> QED
    BY <2>1 DEF Cli!FollowupWords, Cli!Takes
<1>2. "request" # None
  BY NeededNamed DEF Cli!SoundLines
<1>3. n \in Cli!Saying(request, W, "request")
  BY <1>1 DEF Cli!Saying, Cli!Flags, Cli!Given
<1>4. "request" \in DOMAIN inline
  BY <1>1, <1>2, <1>3 DEF Cli!Inline
<1>5. DOMAIN inline = {"request"}
  BY <1>4, RanLine DEF Cli!Conflict
<1>6. DOMAIN body = request.body
  BY <1>5 DEF Cli!Body
<1>7. result.args = Cli!ArgsOf(request, inline, body)
  BY RanLine
<1>8. Cli!Texts(Cli!Positionals("followup")) = {"operation", "target"} /\ Cli!StateDir(request, inline) = {}
  BY DEF Cli!Texts, Cli!Positionals, Cli!StateDir
<1> HIDE DEF inline, body
<1> QED
  BY <1>6, <1>7, <1>8 DEF Cli!ArgsOf

LEMMA ConsentHolds == CliInv /\ Cli!SoundLines => Cli!ConsentIsTheLast
<1> SUFFICES ASSUME CliInv, Cli!SoundLines, Cli!Ran, Cli!Mcp!Decision \in DOMAIN result.args,
                    result.args[Cli!Mcp!Decision] = "approved"
             PROVE  \E n \in DOMAIN request.words :
                      /\ request.words[n].flag = "disclose-approved"
                      /\ \A m \in DOMAIN request.words : request.words[m].flag = "disclose-refused" => m < n
  BY DEF Cli!ConsentIsTheLast
<1> DEFINE t == request.tool
           W == Cli!WordsOf(t)
           inline == Cli!Inline(request, W)
           body == Cli!Body(request, inline)
<1>1. /\ t \in Cli!Mcp!Tools /\ request.words \in Words
      /\ result.args = Cli!ArgsOf(request, inline, body)
      /\ Cli!Understood(request, W)
  BY RanLine
<1>2. Cli!Mcp!Decision \notin Place(t) /\ Cli!Mcp!Decision \notin Cli!StateDir(request, inline)
  BY <1>1 DEF Place, Cli!Texts, Cli!Positionals, Cli!StateDir, Cli!Mcp!Decision
<1>3. t # "followup" /\ Cli!Mcp!Decision \in DOMAIN inline /\ inline[Cli!Mcp!Decision] = "approved"
  <2> HIDE DEF inline, body, t
  <2> QED BY <1>1, <1>2 DEF Cli!ArgsOf, Place, t
<1> DEFINE all == Cli!Saying(request, W, Cli!Mcp!Decision)
<1>4. PICK w \in W, n \in all :
        /\ n = Cli!Chosen(request, Cli!Mcp!Decision, all)
        /\ w.arg = Cli!Mcp!Decision /\ w.flag = request.words[n].flag
        /\ inline[Cli!Mcp!Decision] = Cli!Meaning(w.kind, request.words[n].value)
  BY <1>1, <1>3, InlineFits
<1>5. Cli!Mcp!Decision # None
  BY <1>1, <1>3, InlineFits
<1>6. w.kind = "approved" /\ request.words[n].flag = "disclose-approved"
  <2>1. w.kind \in {"approved", "refused"}
    BY <1>1, <1>4, <1>5, AllWordsFit DEF WordsFit, WordsKind
  <2>2. Cli!Meaning(w.kind, request.words[n].value) = w.kind
    BY <2>1 DEF Cli!Meaning
  <2> QED
    BY <2>1, <2>2, <1>1, <1>3, <1>4, <1>5, AllWordsFit DEF WordsFit, WordsKind
<1>7. \A m \in all : m <= n
  <2>1. Cli!Mcp!Decision \notin {"hook_trust", "state_dir"}
    BY DEF Cli!Mcp!Decision
  <2> QED
    BY <1>1, <1>4, <2>1, ChosenSays
<1>8. ASSUME NEW m \in DOMAIN request.words, request.words[m].flag = "disclose-refused"
      PROVE  m < n
  <2>1. m \in Cli!Flags(request)
    BY <1>8 DEF Cli!Flags, Cli!Given
  <2>2. PICK v \in W : v.flag = request.words[m].flag
    BY <1>1, <2>1 DEF Cli!Understood
  <2>3. v.arg = Cli!Mcp!Decision
    BY <1>1, <2>2, <1>8, AllWordsFit DEF WordsFit, WordsKind
  <2>4. Cli!Mcp!Decision # "state_dir"
    BY DEF Cli!Mcp!Decision
  <2>5. m \in all
    BY <2>1, <2>2, <2>3, <2>4 DEF Cli!Saying
  <2>6. m <= n /\ m # n
    BY <1>6, <1>7, <1>8, <2>5
  <2>7. m \in Nat /\ n \in Nat
    <3>1. n \in DOMAIN request.words
      BY <1>4 DEF Cli!Saying, Cli!Flags
    <3>2. Len(request.words) \in Nat /\ DOMAIN request.words = 1..Len(request.words)
      BY <1>1 DEF Words
    <3> QED
      BY <3>1, <3>2, <1>8
  <2> QED
    BY <2>6, <2>7
<1>9. n \in DOMAIN request.words
  BY <1>4 DEF Cli!Saying, Cli!Flags
<1> QED
  BY <1>6, <1>8, <1>9

\* The values the server looks at are none it refuses.
LEMMA NoOddValue ==
  ASSUME CliInv, Cli!SoundLines, Cli!Ran, NEW a \in DOMAIN result.args, a \in Cli!Enumerated, result.args[a] = "odd"
  PROVE  request.tool = "upstream_action_confirm" /\ a = "decision"
<1> DEFINE t == request.tool
           W == Cli!WordsOf(t)
           inline == Cli!Inline(request, W)
           body == Cli!Body(request, inline)
<1>1. /\ t \in Cli!Mcp!Tools /\ request.words \in Words
      /\ result.args = Cli!ArgsOf(request, inline, body)
      /\ Cli!Understood(request, W)
      /\ ~Cli!WireRefuses(request, body)
  BY RanLine
<1>2. a \notin Place(t) /\ a \notin Cli!StateDir(request, inline)
  BY <1>1 DEF Place, Cli!Texts, Cli!Positionals, Cli!StateDir, Cli!Enumerated, Cli!Digest, Cli!Mcp!Decision
<1>3. CASE t = "followup"
  <2>1. a \in DOMAIN body /\ a # Cli!Mcp!Decision /\ body[a] = "odd"
    <3> HIDE DEF inline, body, t
    <3> QED BY <1>1, <1>2, <1>3 DEF Cli!ArgsOf, Place, t
  <2>2. a # Cli!Digest /\ a \in Cli!Mcp!WireFields(request.operation)
    BY <1>1, <1>3, <2>1 DEF Cli!WireRefuses
  <2>3. \A o : Cli!Mcp!WireFields(o) \cap Cli!Enumerated \subseteq {Cli!Digest, Cli!Mcp!Decision}
    BY DEF Cli!Mcp!WireFields, Cli!Enumerated, Cli!Digest, Cli!Mcp!Decision
  <2> QED
    BY <2>1, <2>2, <2>3
<1>4. CASE t # "followup"
  <2>1. a \in DOMAIN inline /\ inline[a] = "odd"
    <3> HIDE DEF inline, body, t
    <3> QED BY <1>1, <1>2, <1>4 DEF Cli!ArgsOf, Place, t
  <2> DEFINE all == Cli!Saying(request, W, a)
  <2>2. a # None /\ a \in Rest(t)
    BY <1>1, <2>1, InlineFits
  <2>3. PICK w \in W, n \in all :
          /\ n = Cli!Chosen(request, a, all)
          /\ w.arg = a /\ w.flag = request.words[n].flag
          /\ inline[a] = Cli!Meaning(w.kind, request.words[n].value)
    BY <1>1, <2>1, InlineFits
  <2>4. a # Cli!Digest
    BY <1>1, <1>4, <2>2, AllWordsFit DEF WordsFit
  <2>5. CASE a = Cli!Mcp!Decision
    <3>1. w.kind \in {"approved", "refused"}
      BY <1>1, <2>2, <2>3, <2>5, AllWordsFit DEF WordsFit, WordsKind
    <3> QED
      BY <2>1, <2>3, <3>1 DEF Cli!Meaning
  <2>6. CASE a \in {"hook_trust", "adapter", "probe_host", "budget_ms"}
    <3>1. w.kind = "choice"
      BY <1>1, <2>2, <2>3, <2>6, AllWordsFit DEF WordsFit, WordsKind
    <3>2. request.words[n].value = "odd"
      BY <2>1, <2>3, <3>1 DEF Cli!Meaning
    <3>3. n \in Cli!Flags(request)
      BY DEF Cli!Saying
    <3>4. PICK v \in W : /\ v.flag = request.words[n].flag
                         /\ \/ request.words[n].value \in Cli!Lets(v.kind)
                            \/ ~Cli!Looked(request, n) /\ request.words[n].value # "bare"
      BY <1>1, <3>3 DEF Cli!Understood
    <3>5. v = w
      BY <1>1, <2>3, <3>4, AllWordsFit DEF WordsFit, WordsNamed
    <3>6. ~Cli!Looked(request, n)
      BY <3>1, <3>2, <3>4, <3>5 DEF Cli!Lets
    <3>7. PICK m \in 1..(n - 1) : request.words[n].flag = "hook-trust" /\ request.words[m].flag = "hook-trust"
      BY <3>6 DEF Cli!Looked
    <3>8. a = "hook_trust"
      BY <1>1, <2>3, <3>7, AllWordsFit DEF WordsFit, WordsKind
    <3>9. m \in DOMAIN request.words /\ m \in Nat /\ n \in Nat /\ m < n
      <4>1. n \in DOMAIN request.words /\ DOMAIN request.words = 1..Len(request.words) /\ Len(request.words) \in Nat
        BY <1>1, <3>3 DEF Cli!Flags, Words
      <4> QED
        BY <4>1, <3>7
    <3>10. m \in all
      BY <2>3, <3>5, <3>7, <3>8, <3>9 DEF Cli!Saying, Cli!Flags, Cli!Given
    <3>11. n <= m
      BY <1>1, <2>3, <3>8, <3>10, ChosenSays
    <3> QED
      BY <3>9, <3>11
  <2>7. CASE a = "decision"
    BY <1>1, <2>2, <2>7, AllWordsFit DEF WordsFit
  <2> QED
    BY <2>4, <2>5, <2>6, <2>7 DEF Cli!Enumerated
<1> QED
  BY <1>3, <1>4

LEMMA ServedHolds == CliInv /\ Cli!SoundLines => Cli!ServedByBoth
<1> SUFFICES ASSUME CliInv, Cli!SoundLines, Cli!Ran
             PROVE  Cli!Mcp!Dispatched([Cli!AsCall(request, result.args) EXCEPT !.wrong = @ \ Cli!LeftToTheCore])
  BY DEF Cli!ServedByBoth
<1> DEFINE t == request.tool
           W == Cli!WordsOf(t)
           inline == Cli!Inline(request, W)
           body == Cli!Body(request, inline)
           call == [Cli!AsCall(request, result.args) EXCEPT !.wrong = @ \ Cli!LeftToTheCore]
<1>1. /\ t \in Cli!Mcp!Tools /\ request.words \in Words
      /\ result.args = Cli!ArgsOf(request, inline, body)
      /\ Cli!Understood(request, W)
      /\ t = "scan_system" => "state_dir" \in DOMAIN inline \cup Cli!StateDir(request, inline)
      /\ ~Cli!WireRefuses(request, body)
  BY RanLine
<1>2. /\ call.tool = t /\ call.args = DOMAIN result.args /\ call.operation = request.operation
      /\ call.top = {"name", "arguments"}
      /\ call.wrong \subseteq {a \in DOMAIN result.args \cap Cli!Enumerated : result.args[a] = "odd"} \ Cli!LeftToTheCore
  BY DEF Cli!AsCall, Cli!LeftToTheCore
<1>3. call.wrong = {}
  BY <1>2, NoOddValue DEF Cli!LeftToTheCore
<1>4. NeedsFit(t)
  BY <1>1, AllNeedsFit
<1>5. \A a \in Cli!Needed(t) : a \in DOMAIN inline
  <2> SUFFICES ASSUME NEW a \in Cli!Needed(t) PROVE a \in DOMAIN inline
    OBVIOUS
  <2>1. PICK n \in Cli!Flags(request) : [flag |-> request.words[n].flag, arg |-> a, kind |-> "text"] \in W
    BY <1>1 DEF Cli!Understood
  <2>2. a # "state_dir"
    BY DEF Cli!Needed
  <2>3. n \in Cli!Saying(request, W, a)
    BY <2>1, <2>2 DEF Cli!Saying
  <2>4. a # None
    BY NeededNamed DEF Cli!SoundLines
  <2> QED
    BY <2>1, <2>3, <2>4 DEF Cli!Inline
<1>8. ~Cli!Mcp!Malformed(call)
  <2> HIDE DEF call
  <2> QED BY <1>3 DEF Cli!Mcp!Malformed
<1> SUFFICES Cli!Mcp!Dispatched(call)
  OBVIOUS
<1> HIDE DEF call
<1>6. CASE t = "followup"
  <2>1. DOMAIN result.args = (DOMAIN body \ {Cli!Mcp!Decision}) \cup Place(t)
    BY <1>1, <1>6 DEF Cli!ArgsOf, Cli!StateDir, Place
  <2>2. Place(t) = {"operation", "target"}
    BY <1>6 DEF Place, Cli!Positionals, Cli!Texts
  <2>3. DOMAIN body \subseteq Cli!Mcp!WireFields(request.operation) /\ request.operation \in Cli!Mcp!FollowupOperations
    BY <1>1, <1>6 DEF Cli!WireRefuses, Cli!Understood
  <2>4. Cli!Mcp!Allowed(t) = {"target", "operation"} \cup Wire
    BY <1>6 DEF Cli!Mcp!Allowed, Cli!Mcp!HandlerOf, Cli!Mcp!FollowupHandler, Cli!Mcp!Handler, Wire, Cli!Mcp!AnalysisTools, Cli!Mcp!ActionTools, Cli!Mcp!LocalTools, Cli!Mcp!PlatformTools
  <2>5. Cli!Mcp!WireFields(request.operation) \subseteq Wire
    BY <2>3 DEF Wire
  <2>6. ~Cli!Mcp!Extra(call)
    BY <1>2, <2>1, <2>2, <2>3, <2>4, <2>5 DEF Cli!Mcp!Extra
  <2>7. ~Cli!Mcp!Missing(call)
    BY <1>2, <1>4, <1>6, <2>1, <2>2 DEF Cli!Mcp!Missing, NeedsFit
  <2> QED
    BY <1>1, <1>2, <1>3, <1>8, <2>6, <2>7 DEF Cli!Mcp!Dispatched
<1>7. CASE t # "followup"
  <2>1. DOMAIN result.args = DOMAIN inline \cup Place(t) \cup Cli!StateDir(request, inline)
    BY <1>1, <1>7 DEF Cli!ArgsOf, Place
  <2>2. DOMAIN inline \subseteq Cli!Mcp!Allowed(t)
    BY <1>1, <1>7, InlineFits DEF Rest
  <2>3. Place(t) \subseteq Cli!Mcp!Allowed(t) /\ Cli!StateDir(request, inline) \subseteq Cli!Mcp!Allowed(t)
    BY <1>4 DEF NeedsFit, Cli!StateDir
  <2>4. ~Cli!Mcp!Extra(call)
    BY <1>2, <1>7, <2>1, <2>2, <2>3 DEF Cli!Mcp!Extra
  <2>5. ~Cli!Mcp!Missing(call)
    BY <1>1, <1>2, <1>4, <1>5, <2>1 DEF Cli!Mcp!Missing, NeedsFit
  <2> QED
    BY <1>1, <1>2, <1>3, <1>8, <2>4, <2>5 DEF Cli!Mcp!Dispatched
<1> QED
  BY <1>6, <1>7

\* The word of an argument of the handler is one the parser lets through.
LEMMA WordForFits ==
  ASSUME NEW t \in Cli!Mcp!Tools, NEW a \in Rest(t)
  PROVE  \E w \in Cli!WordsOf(t) :
           /\ w.arg = a /\ Cli!WordFor(t, a).flag = w.flag /\ Cli!WordFor(t, a).value \in Cli!Lets(w.kind)
           /\ Cli!WordFor(t, a).value \in {"good", "bare"}
<1> DEFINE by == {w \in Cli!WordsOf(t) : w.arg = a /\ w.kind # "refused"}
           w == CHOOSE w \in by : TRUE
           value == IF Cli!Lets(w.kind) = {"bare"} THEN "bare" ELSE "good"
<1>1. by # {}
  BY AllWordsFit DEF WordsFit, WordsNamed
<1>2. w \in by
  BY <1>1
<1>3. Cli!WordFor(t, a) = [flag |-> w.flag, value |-> value]
  BY <1>1 DEF Cli!WordFor, Cli!Word
<1>4. w.kind \in WordKinds
  BY <1>2, AllWordsFit DEF WordsFit, WordsKind
<1> HIDE DEF w
<1>5. value \in Cli!Lets(w.kind)
  BY <1>4 DEF Cli!Lets, WordKinds
<1> QED
  BY <1>2, <1>3, <1>5

LEMMA SaidHolds == CliInv /\ Cli!SoundLines => Cli!SaidEitherWay
<1> SUFFICES ASSUME CliInv, Cli!SoundLines, result # None, request.call # None,
                    Cli!Mcp!Dispatched(request.call),
                    ~(request.call.tool = "followup" /\ Cli!Mcp!Decision \in request.call.args)
             PROVE  result.core /\ DOMAIN result.args = request.call.args
  BY DEF Cli!SaidEitherWay
<1> DEFINE t == request.tool
           W == Cli!WordsOf(t)
           inline == Cli!Inline(request, W)
           body == Cli!Body(request, inline)
           call == request.call
           more == call.args \ Place(t)
<1>1. /\ t \in Cli!Mcp!Tools /\ request.words \in Words
      /\ call.tool = t /\ call.operation = request.operation
      /\ t = "followup" => request.operation \in Cli!Mcp!FollowupOperations
      /\ None \notin call.args
      /\ Cli!Given(request) = DOMAIN Cli!Positionals(t)
      /\ \A n \in Cli!Given(request) : request.words[n].value = "good"
      /\ {request.words[n] : n \in Cli!Flags(request)} = {Cli!WordFor(t, a) : a \in more}
      /\ request.file = "good" /\ request.attachments = "good" /\ request.body = {} /\ ~request.plugin_data
  BY DEF CliInv, Cli!SoundLines, Cli!Says, Words, Place
<1>2. PICK well \in BOOLEAN : result = Cli!Answer(request, W, inline, body, well)
  BY DEF CliInv
<1>3. /\ ~Cli!Mcp!Extra(call) /\ ~Cli!Mcp!Missing(call)
  BY DEF Cli!Mcp!Dispatched
<1>4. NeedsFit(t)
  BY <1>1, AllNeedsFit
<1>5. Place(t) \cup Cli!Needed(t) \subseteq call.args /\ (t = "scan_system" => "state_dir" \in call.args)
  BY <1>1, <1>3, <1>4 DEF Cli!Mcp!Missing, NeedsFit
<1>6. /\ more \subseteq Rest(t)
      /\ t = "followup" => /\ more \subseteq Cli!Mcp!WireFields(request.operation) \ {Cli!Mcp!Decision}
                           /\ request.operation \in Cli!Mcp!FollowupOperations
  <2>1. CASE t # "followup"
    BY <1>1, <1>3, <2>1 DEF Cli!Mcp!Extra, Rest
  <2>2. CASE t = "followup"
    <3>1. Place(t) = {"operation", "target"}
      BY <2>2 DEF Place, Cli!Positionals, Cli!Texts
    <3>2. call.args \subseteq {"target", "operation"} \cup Cli!Mcp!WireFields(request.operation)
      BY <1>1, <1>3, <1>5, <2>2, <3>1 DEF Cli!Mcp!Extra
    <3>3. Cli!Mcp!WireFields(request.operation) \subseteq Wire
      BY <1>1, <2>2 DEF Wire
    <3>4. Cli!Mcp!Decision \notin call.args
      BY <1>1, <2>2
    <3> QED
      BY <1>1, <2>2, <3>1, <3>2, <3>3, <3>4 DEF Rest
  <2> QED
    BY <2>1, <2>2
<1>7. \A a \in more : \E n \in Cli!Flags(request) : request.words[n] = Cli!WordFor(t, a)
  BY <1>1
<1>8. ASSUME NEW n \in Cli!Flags(request)
      PROVE  \E a \in more, w \in W :
               /\ request.words[n] = Cli!WordFor(t, a) /\ w.arg = a /\ w.flag = request.words[n].flag
               /\ request.words[n].value \in Cli!Lets(w.kind) /\ request.words[n].value \in {"good", "bare"}
  <2>1. PICK a \in more : request.words[n] = Cli!WordFor(t, a)
    BY <1>1
  <2> QED
    BY <1>1, <1>6, <2>1, WordForFits
<1>9. DOMAIN inline = more
  <2>1. ASSUME NEW a \in DOMAIN inline PROVE a \in more
    <3>1. PICK w \in W, n \in Cli!Saying(request, W, a) : w.arg = a /\ w.flag = request.words[n].flag
      BY <1>1, <2>1, InlineFits
    <3>2. n \in Cli!Flags(request)
      BY DEF Cli!Saying
    <3>3. PICK b \in more, v \in W : v.arg = b /\ v.flag = request.words[n].flag
      BY <1>8, <3>2
    <3>4. v = w
      BY <1>1, <3>1, <3>3, AllWordsFit DEF WordsFit, WordsNamed
    <3> QED
      BY <3>1, <3>3, <3>4
  <2>2. ASSUME NEW a \in more PROVE a \in DOMAIN inline
    <3>1. PICK n \in Cli!Flags(request) : request.words[n] = Cli!WordFor(t, a)
      BY <1>7
    <3>2. PICK w \in W : w.arg = a /\ Cli!WordFor(t, a).flag = w.flag /\ Cli!WordFor(t, a).value \in {"good", "bare"}
      BY <1>1, <1>6, WordForFits
    <3>3. n \in Cli!Saying(request, W, a)
      BY <3>1, <3>2 DEF Cli!Saying
    <3>4. a # None
      BY <1>1
    <3> QED
      BY <3>2, <3>3, <3>4 DEF Cli!Inline
  <2> QED
    BY <2>1, <2>2
<1>10. Cli!Understood(request, W)
  <2>1. Cli!Cardinality(Cli!Given(request)) = Len(Cli!Positionals(t))
    <3>1. Len(Cli!Positionals(t)) \in Nat /\ DOMAIN Cli!Positionals(t) = 1..Len(Cli!Positionals(t))
      <4>1. Cli!Positionals(t) \in {<< >>, << "target" >>, << "receipt" >>, << "target", "authorization" >>, << "operation", "target" >>}
        BY DEF Cli!Positionals
      <4> QED
        BY <4>1
    <3> DEFINE N == Len(Cli!Positionals(t))
    <3> HIDE DEF N
    <3>2. Cli!Cardinality(1..N) = N
      <4>1. N \in Nat
        BY <3>1 DEF N
      <4> QED
        BY <4>1, FS_Interval, CliCounts
    <3> QED
      BY <1>1, <3>1, <3>2 DEF N
  <2>2. \A n \in Cli!Flags(request) :
          \E w \in W :
            /\ w.flag = request.words[n].flag
            /\ \/ request.words[n].value \in Cli!Lets(w.kind)
               \/ ~Cli!Looked(request, n) /\ request.words[n].value # "bare"
    BY <1>8
  <2>3. ASSUME NEW a \in Cli!Needed(t)
        PROVE  \E n \in Cli!Flags(request) : [flag |-> request.words[n].flag, arg |-> a, kind |-> "text"] \in W
    <3>1. a # None
      BY NeededNamed DEF Cli!SoundLines
    <3>2. PICK u \in W : u.arg = a
      BY <1>4 DEF NeedsFit
    <3>3. a \in more
      BY <1>1, <1>5, <3>1, <3>2, AllWordsFit DEF WordsFit, WordsNamed
    <3>4. PICK n \in Cli!Flags(request) : request.words[n] = Cli!WordFor(t, a)
      BY <1>7, <3>3
    <3>5. PICK w \in W : w.arg = a /\ Cli!WordFor(t, a).flag = w.flag
      BY <1>1, <1>6, <3>3, WordForFits
    <3>6. w.kind = "text"
      BY <1>4, <3>1, <3>5 DEF NeedsFit
    <3>7. w = [flag |-> w.flag, arg |-> w.arg, kind |-> w.kind]
      BY <1>1, AllWordsFit DEF WordsFit, WordsNamed
    <3> QED
      BY <3>4, <3>5, <3>6, <3>7
  <2>4. t = "followup" => request.operation \in Cli!Mcp!FollowupOperations /\ \A n \in Cli!Given(request) : request.words[n].value # "empty"
    BY <1>1
  <2> HIDE DEF W
  <2>5. \A a \in Cli!Needed(t) :
          \E n \in Cli!Flags(request) : [flag |-> request.words[n].flag, arg |-> a, kind |-> "text"] \in W
    BY <2>3
  <2> QED
    BY <2>1, <2>2, <2>4, <2>5 DEF Cli!Understood
<1>11. t = "scan_system" => "state_dir" \in DOMAIN inline \cup Cli!StateDir(request, inline)
  BY <1>5, <1>9 DEF Place, Cli!Positionals, Cli!Texts
<1>a. \A o : "request" \notin Cli!Mcp!WireFields(o)
  BY DEF Cli!Mcp!WireFields, Cli!Mcp!Decision
<1>12. ~Cli!Conflict(request, inline)
  BY <1>6, <1>9, <1>a DEF Cli!Conflict
<1>13. ~Cli!Unparsable(request, inline)
  <2>1. request.file \notin Cli!Refuses(t)
    BY <1>1 DEF Cli!Refuses
  <2>2. t = "platform_receipt_validate" => Cli!Nth(request, 1) = "good"
    <3> SUFFICES ASSUME t = "platform_receipt_validate" PROVE Cli!Nth(request, 1) = "good"
      OBVIOUS
    <3>1. Cli!Given(request) = {1}
      BY <1>1 DEF Cli!Positionals
    <3>2. Cli!Cardinality({m \in Cli!Given(request) : m <= 1}) = 1
      <4>1. {m \in Cli!Given(request) : m <= 1} = {1}
        BY <3>1
      <4> QED
        BY <4>1, FS_Singleton, CliCounts
    <3> DEFINE first == CHOOSE k \in Cli!Given(request) : Cli!Cardinality({m \in Cli!Given(request) : m <= k}) = 1
    <3>3. first = 1
      BY <3>1, <3>2
    <3>4. request.words[1].value = "good"
      BY <1>1, <3>1
    <3>5. Cli!Nth(request, 1) = request.words[first].value
      BY DEF Cli!Nth
    <3> HIDE DEF first
    <3> QED
      BY <3>3, <3>4, <3>5
  <2> HIDE DEF inline
  <2> QED
    BY <1>1, <2>1, <2>2 DEF Cli!Unparsable
<1>b. DOMAIN body = more \ {"request"} /\ \A a \in DOMAIN body : body[a] = inline[a]
  <2> HIDE DEF inline
  <2> QED
    BY <1>1, <1>9 DEF Cli!Body
<1>14. ~Cli!WireRefuses(request, body)
  <2> SUFFICES ASSUME t = "followup" PROVE ~Cli!WireRefuses(request, body)
    BY DEF Cli!WireRefuses
  <2>1. DOMAIN body \subseteq Cli!Mcp!WireFields(request.operation)
    BY <1>6, <1>b
  <2>2. ASSUME Cli!Digest \in DOMAIN body PROVE body[Cli!Digest] # "odd"
    <3>1. Cli!Digest \in DOMAIN inline /\ body[Cli!Digest] = inline[Cli!Digest]
      BY <1>9, <1>b, <2>2
    <3>2. PICK w \in W, n \in Cli!Saying(request, W, Cli!Digest) :
            w.flag = request.words[n].flag /\ inline[Cli!Digest] = Cli!Meaning(w.kind, request.words[n].value)
      BY <1>1, <3>1, InlineFits
    <3>3. n \in Cli!Flags(request)
      BY DEF Cli!Saying
    <3>4. request.words[n].value \in {"good", "bare"}
      BY <1>8, <3>3
    <3>5. w.kind \in WordKinds
      BY <1>1, AllWordsFit DEF WordsFit, WordsKind
    <3> QED
      BY <3>1, <3>2, <3>4, <3>5 DEF Cli!Meaning, WordKinds
  <2> HIDE DEF body
  <2> QED
    BY <2>1, <2>2 DEF Cli!WireRefuses
<1>15. result.core /\ result.args = Cli!ArgsOf(request, inline, body)
  <2> HIDE DEF inline, body, W
  <2> QED BY <1>2, <1>10, <1>11, <1>12, <1>13, <1>14 DEF Cli!Answer
<1>16. DOMAIN result.args = more \cup Place(t)
  <2>1. Cli!StateDir(request, inline) = {}
    BY <1>1 DEF Cli!StateDir
  <2>2. t = "followup" => DOMAIN body = more /\ Cli!Mcp!Decision \notin more
    BY <1>6, <1>a, <1>b
  <2> HIDE DEF inline, body, more
  <2> QED
    BY <1>9, <1>15, <2>1, <2>2 DEF Cli!ArgsOf, Place
<1> QED
  BY <1>5, <1>15, <1>16

-----------------------------------------------------------------------------
\* The invariants of the surfaces the proofs are about, each while it runs.
ScanRuns     == surface = "scan" => ScanInv
EvidenceRuns == surface = "evidence" => EvidenceInv
GateRuns     == surface = "gate" => GateInv
ReceiptsRun  == surface = "receipts" => ReceiptInv
DemoIsRun    == surface = "demo" => DemoInv
CapsulesRun  == surface = "upstream" => CapsuleInv
RepliesRun   == surface = "followup" => ReplyInv
DiagnosisRuns == surface = "diagnosis" => DiagInv
PageRuns      == surface = "page" => PageInv
FramingRuns   == surface = "framing" => FrameInv
McpRuns       == surface = "mcp" => McpInv
CliRuns       == surface = "cli" => CliInv
ConfigRuns    == surface = "config" => ConfigInv

LEMMA ScanAlways == Spec => []ScanRuns
<1>1. Init => ScanRuns
  BY ScanInit DEF Init, ScanRuns
<1>2. ScanRuns /\ [Next]_vars => ScanRuns'
  <2> SUFFICES ASSUME ScanRuns, [Next]_vars, surface' = "scan" PROVE ScanInv'
    BY DEF ScanRuns
  <2>1. surface = "scan" /\ [Scan!Next]_(Scan!vars)
    BY DEF Next, vars, scanVars, Scan!vars
  <2> QED
    BY <2>1, ScanStep DEF ScanRuns
<1> QED
  BY <1>1, <1>2, PTL DEF Spec

(***************************************************************************)
(* Every variable of the scan keeps its type.                              *)
(***************************************************************************)
THEOREM ScanTypeCorrect == Spec => [](surface = "scan" => ScanTypeOK)
<1>1. ScanRuns => (surface = "scan" => ScanTypeOK)
  BY DEF ScanRuns, ScanInv
<1> QED
  BY <1>1, ScanAlways, PTL

(***************************************************************************)
(* A saved baseline is told of before its scan ends, unless a hook was     *)
(* killed; the headline claims a change of version or of artifacts only    *)
(* where the comparison found one, and says when a measurement was cut     *)
(* short.                                                                  *)
(***************************************************************************)
THEOREM ScanTellsTruly == Spec => []ScanIsHonest
<1>1. ScanRuns => ScanIsHonest
  BY DEF ScanRuns, ScanInv, ScanIsHonest, Scan!ScanIsHonest
<1> QED
  BY <1>1, ScanAlways, PTL

(***************************************************************************)
(* A scan that ends without a notice, over an installation that did not    *)
(* change meanwhile, leaves a baseline that is exactly what is installed.  *)
(***************************************************************************)
THEOREM SilenceMeansStored == Spec => NoSilentChange
<1>1. ScanRuns /\ [Next]_vars => [(Scan!Quiet /\ job.quiet) => Scan!AsStored]_(Scan!vars)
  <2> SUFFICES ASSUME ScanRuns, [Next]_vars, Scan!Quiet, job.quiet, Scan!vars' # Scan!vars
               PROVE  Scan!AsStored
    OBVIOUS
  <2>1. surface = "scan"
    BY DEF Next, vars, scanVars, Scan!vars
  <2> QED
    BY <2>1, QuietIsAsStored DEF ScanRuns
<1> QED
  BY <1>1, ScanAlways, PTL DEF Spec, NoSilentChange, Scan!NoSilentChange

(***************************************************************************)
(* Whatever is asked, on whatever file systems: what the public surfaces   *)
(* write is a disposable directory of the user's own, nothing is written   *)
(* without a capability and the switch, on Windows only what is the        *)
(* user's, and a policy is answered with the way to the administrator.     *)
(***************************************************************************)
THEOREM NothingUngatedIsWritten == Spec => []WritesAreGated
<1>1. Init => GateRuns
  BY DEF Init, GateRuns, Gate!Init, GateInv, Gate!PolicyGoesToTheAdministrator
<1>2. GateRuns /\ [Next]_vars => GateRuns'
  <2> SUFFICES ASSUME GateRuns, [Next]_vars, surface' = "gate" PROVE GateInv'
    BY DEF GateRuns
  <2>1. surface = "gate" /\ [Gate!Next]_(Gate!vars)
    BY DEF Next, vars, Gate!vars
  <2> QED
    BY <2>1, GuardsAssumption, GateStep DEF GateRuns, GuardsAssumption
<1>3. GateRuns => WritesAreGated
  BY GuardsAssumption, GateInvGates DEF GateRuns, GuardsAssumption, WritesAreGated
<1> QED
  BY <1>1, <1>2, <1>3, PTL DEF Spec

(***************************************************************************)
(* Whatever lists, times and thresholds: nothing is sent but what was      *)
(* approved, announced and sendable, an intact bundle answers whatever     *)
(* fails, only what was just fetched is fresh, and only an unchanged       *)
(* bundled item stands for a fix.                                          *)
(***************************************************************************)
THEOREM OfficialEvidenceIsSound == Spec => []EvidenceIsSound
<1>1. Init => EvidenceRuns
  BY GuardsAssumption, EvidenceInit DEF Init, EvidenceRuns, GuardsAssumption
<1>2. EvidenceRuns /\ [Next]_vars => EvidenceRuns'
  <2> SUFFICES ASSUME EvidenceRuns, [Next]_vars, surface' = "evidence" PROVE EvidenceInv'
    BY DEF EvidenceRuns
  <2>1. surface = "evidence" /\ [Evidence!Next]_(Evidence!vars)
    BY DEF Next, vars, Evidence!vars
  <2> QED
    BY <2>1, GuardsAssumption, EvidenceStep DEF EvidenceRuns, GuardsAssumption
<1>3. EvidenceRuns => EvidenceIsSound
  BY GuardsAssumption, EvidenceInvSound DEF EvidenceRuns, GuardsAssumption, EvidenceIsSound
<1> QED
  BY <1>1, <1>2, <1>3, PTL DEF Spec

(***************************************************************************)
(* Whatever the scenarios and however often the profile is changed, the    *)
(* receipt edited and the process ended: full, and exit code 0, is for the *)
(* unedited receipt of the run of this very process with every scenario    *)
(* passed; a lesser claim travels; no receipt lowers a platform or lets it *)
(* write.                                                                  *)
(***************************************************************************)
THEOREM SupportClaimsAreEarned == Spec => []SupportIsEarned
<1>1. Init => ReceiptsRun
  BY ReceiptInit DEF Init, ReceiptsRun
<1>2. ReceiptsRun /\ [Next]_vars => ReceiptsRun'
  <2> SUFFICES ASSUME ReceiptsRun, [Next]_vars, surface' = "receipts" PROVE ReceiptInv'
    BY DEF ReceiptsRun
  <2>1. surface = "receipts" /\ [Receipts!Next]_(Receipts!vars)
    BY DEF Next, vars, Receipts!vars
  <2> QED
    BY <2>1, GuardsAssumption, ReceiptStep DEF ReceiptsRun, GuardsAssumption
<1>3. ReceiptsRun => SupportIsEarned
  BY GuardsAssumption, SupportFollows DEF ReceiptsRun, GuardsAssumption, SupportIsEarned
<1> QED
  BY <1>1, <1>2, <1>3, PTL DEF Spec

(***************************************************************************)
(* However the demo goes: a receipt that says ok describes a run in which  *)
(* no core used the network, no step failed or was left out but those an   *)
(* induced failure makes needless, and the original is in place; the       *)
(* clean-up is told as it went; a run that ends repaired does not say that *)
(* it was taken back, and ends so after a rollback that did not restore or *)
(* in one of the three ends that call none; and a write that the demo      *)
(* means leaves its root only if a swap fell between its proofs and it,    *)
(* which is the one case in which a receipt may be wrong of the artifact.  *)
(* The best-effort rollbacks, made without a proof, are not in this.       *)
(***************************************************************************)
THEOREM DemoTellsTruly == Spec => []DemoIsHonest
<1>1. Init => DemoIsRun
  BY DemoInit DEF Init, DemoIsRun
<1>2. DemoIsRun /\ [Next]_vars => DemoIsRun'
  <2> SUFFICES ASSUME DemoIsRun, [Next]_vars, surface' = "demo" PROVE DemoInv'
    BY DEF DemoIsRun
  <2>1. surface = "demo" /\ [DemoRun!Next]_(DemoRun!vars)
    BY DEF Next, vars, DemoRun!vars
  <2> QED
    BY <2>1, DemoStep DEF DemoIsRun
<1>3. DemoIsRun => DemoIsHonest
  BY DEF DemoIsRun, DemoInv, Straight, DemoIsHonest, DemoRun!WritesToItsOwn
<1> QED
  BY <1>1, <1>2, <1>3, PTL DEF Spec

(***************************************************************************)
(* Whatever is requested and whatever the host does with it: what can be   *)
(* submitted is worth it and carries no instruction and no sensitive key,  *)
(* the form is one of the official ones, a token is for what was           *)
(* previewed and does what its recommendation allows, a ready capsule is   *)
(* of use, and what is confirmed takes effect once, however many tokens    *)
(* are minted for it and however the remote answers.                       *)
(***************************************************************************)
THEOREM WhatIsSubmittedIsEarned == Spec => []SubmissionsAreEarned
<1>1. Init => CapsulesRun
  BY CapsuleInit DEF Init, CapsulesRun
<1>2. CapsulesRun /\ [Next]_vars => CapsulesRun'
  <2> SUFFICES ASSUME CapsulesRun, [Next]_vars, surface' = "upstream" PROVE CapsuleInv'
    BY DEF CapsulesRun
  <2>1. surface = "upstream" /\ [Capsules!Next]_(Capsules!vars)
    BY DEF Next, vars, Capsules!vars
  <2> QED
    BY <2>1, GuardsAssumption, CapsuleStep DEF CapsulesRun, GuardsAssumption
<1>3. CapsulesRun => SubmissionsAreEarned
  BY GuardsAssumption, CapsuleFollows DEF CapsulesRun, GuardsAssumption, SubmissionsAreEarned
<1> QED
  BY <1>1, <1>2, <1>3, PTL DEF Spec

(***************************************************************************)
(* Whatever is asked of a follow-up, in whatever order: an answer to an    *)
(* event draws nothing from prose but what its words ask for, a draft has  *)
(* only what was measured, an event is answered once, an upgrade is        *)
(* recommended only where a measurement earned it, and the evidence first  *)
(* measured for a recipe stays.                                            *)
(***************************************************************************)
THEOREM RepliesTellWhatWasMeasured == Spec => []RepliesAreMeasured
<1>1. Init => RepliesRun
  BY GuardsAssumption, ReplyInit DEF Init, RepliesRun, GuardsAssumption
<1>2. RepliesRun /\ [Next]_vars => RepliesRun'
  <2> SUFFICES ASSUME RepliesRun, [Next]_vars, surface' = "followup" PROVE ReplyInv'
    BY DEF RepliesRun
  <2>1. surface = "followup" /\ [Replies!Next]_(Replies!vars)
    BY DEF Next, vars, Replies!vars
  <2> QED
    BY <2>1, GuardsAssumption, ReplyStep DEF RepliesRun, GuardsAssumption
<1>3. RepliesRun => RepliesAreMeasured
  BY DEF RepliesRun, ReplyInv, RepliesAreMeasured
<1> QED
  BY <1>1, <1>2, <1>3, PTL DEF Spec

\* What a preference adds to the score of a candidate and of a sure one.
LEMMA DiagHelped == Diag!SoundIncidents /\ DiagInv => Diag!PreferenceAddsThree
<1> DEFINE fp == request.incident
           p == request.preferred
           r == Diag!Ranked(fp, p)
           Own(n) == Diag!Score(CHOOSE x \in Diag!Catalog : x.issue = result.candidates[n], fp, {})
           With(n) == Own(n) + Diag!Helped(result.candidates[n])
<1> SUFFICES ASSUME Diag!SoundIncidents, result \in Diag!Diagnoses, result.by = None
             PROVE  /\ \A n \in DOMAIN result.candidates : With(n) >= Diag!CandidateThreshold
                    /\ result.state = "HIGH_CONFIDENCE_MATCH" => With(1) >= Diag!HighThreshold
  BY DEF DiagInv, Diag!PreferenceAddsThree
<1>1. ASSUME result.candidates = [k \in DOMAIN r |-> r[k].issue], NEW n \in DOMAIN r
      PROVE  /\ With(n) \in Nat /\ Diag!Score(r[n], fp, p) \in Nat
             /\ With(n) >= Diag!Score(r[n], fp, p)
             /\ Diag!Score(r[n], fp, p) >= Diag!CandidateThreshold
  <2>1. result.candidates[n] = r[n].issue
    BY <1>1
  <2>2. /\ r[n] \in Surviving(fp, p) /\ r[n] \in Diag!Catalog
        /\ (CHOOSE x \in Diag!Catalog : x.issue = r[n].issue) = r[n]
    BY <1>1, CandidateIs
  <2> HIDE DEF r
  <2>3. Own(n) = Diag!Score(r[n], fp, {})
    BY <2>1, <2>2
  <2> HIDE DEF Own
  <2>4. /\ Diag!Score(r[n], fp, p) \in Nat /\ Diag!Score(r[n], fp, {}) \in Nat
        /\ r[n].issue \notin p => Diag!Score(r[n], fp, p) = Diag!Score(r[n], fp, {})
        /\ Diag!Score(r[n], fp, p) <= Diag!Score(r[n], fp, {}) + 3
    BY <2>2, Scores
  <2>5. With(n) \in Nat /\ With(n) >= Diag!Score(r[n], fp, p)
    BY <2>1, <2>3, <2>4 DEF Diag!Helped
  <2>6. Diag!Score(r[n], fp, p) >= Diag!CandidateThreshold
    BY <2>2 DEF Surviving, Diag!Survives
  <2> QED
    BY <2>4, <2>5, <2>6
<1>2. CASE result.candidates = << >> /\ result.state = "INCONCLUSIVE"
  BY <1>2
<1>3. ASSUME NEW c \in Diag!Classifications(fp, p), result.state = c.state, result.candidates = c.candidates
      PROVE  /\ \A n \in DOMAIN result.candidates : With(n) >= Diag!CandidateThreshold
             /\ result.state = "HIGH_CONFIDENCE_MATCH" => With(1) >= Diag!HighThreshold
  <2> DEFINE names == [k \in DOMAIN r |-> r[k].issue]
  <2>1. /\ c.candidates = << >> \/ c.candidates = names
        /\ c.state # "INCONCLUSIVE" <=> c.family # None
        /\ c.family # None => r # << >> /\ c.candidates = names
        /\ c.state = "HIGH_CONFIDENCE_MATCH" => Diag!Score(r[1], fp, p) >= Diag!HighThreshold
    BY ClassifiedIs
  <2>2. r \in Seq(Surviving(fp, p))
    BY InOrder
  <2>3. r # << >> => 1 \in DOMAIN r
    BY <2>2
  <2> HIDE DEF With, Own, r
  <2>4. ASSUME NEW n \in DOMAIN result.candidates PROVE With(n) >= Diag!CandidateThreshold
    <3>1. c.candidates = names
      BY <1>3, <2>1, <2>4
    <3>2. result.candidates = [k \in DOMAIN r |-> r[k].issue] /\ n \in DOMAIN r
      BY <1>3, <3>1, <2>4
    <3> QED
      BY <3>2, <1>1 DEF Diag!CandidateThreshold
  <2>5. ASSUME result.state = "HIGH_CONFIDENCE_MATCH" PROVE With(1) >= Diag!HighThreshold
    <3>1. c.state = "HIGH_CONFIDENCE_MATCH" /\ c.candidates = names /\ 1 \in DOMAIN r
      BY <1>3, <2>1, <2>3, <2>5
    <3>2. result.candidates = [k \in DOMAIN r |-> r[k].issue]
      BY <1>3, <3>1
    <3> QED
      BY <3>1, <3>2, <2>1, <1>1 DEF Diag!HighThreshold
  <2> QED
    BY <2>4, <2>5
<1> QED
  BY <1>2, <1>3, Unlocated

(***************************************************************************)
(* Whatever an incident declares and a model prefers: what is located was  *)
(* measured, a refusal claims nothing, a candidate has a mark no other     *)
(* family shares, and confidence has two or a mark and the preference.     *)
(* The preference moves no candidate past one it trails by more than three *)
(* hundredths, and lifts none that lacks more over a threshold; that it    *)
(* lifts any is against what the code says of it.                          *)
(* Whatever a page says: it is about this problem, and leads to a repair,  *)
(* only by what is measured here, and is fetched only as approved.         *)
(***************************************************************************)
THEOREM DiagnosisTellsWhatWasMeasured == Spec => []DiagnosisIsMeasured
<1>1. Init => DiagnosisRuns /\ PageRuns
  BY DiagInit, PageInit DEF Init, DiagnosisRuns, PageRuns
<1>2. DiagnosisRuns /\ [Next]_vars => DiagnosisRuns'
  <2> SUFFICES ASSUME DiagnosisRuns, [Next]_vars, surface' = "diagnosis" PROVE DiagInv'
    BY DEF DiagnosisRuns
  <2>1. surface = "diagnosis" /\ [Diag!Next]_(Diag!vars)
    BY DEF Next, vars, Diag!vars
  <2> QED
    BY <2>1, DiagStep DEF DiagnosisRuns
<1>3. PageRuns /\ [Next]_vars => PageRuns'
  <2> SUFFICES ASSUME PageRuns, [Next]_vars, surface' = "page" PROVE PageInv'
    BY DEF PageRuns
  <2>1. surface = "page" /\ [Page!Next]_(Page!vars)
    BY DEF Next, vars, Page!vars
  <2> QED
    BY <2>1, PageStep DEF PageRuns
<1>4. DiagnosisRuns /\ PageRuns => DiagnosisIsMeasured
  BY GuardsAssumption, DiagLocated, DiagRefused, DiagMechanism, DiagConfident, DiagNudged, DiagHelped,
     PageEarned, PageProse, PageClean, PageFetched
     DEF GuardsAssumption, DiagnosisRuns, PageRuns, DiagnosisIsMeasured
<1> QED
  BY <1>1, <1>2, <1>3, <1>4, PTL DEF Spec

(***************************************************************************)
(* However the bytes are cut into chunks, whatever the limit: once a chunk *)
(* is pushed the server has told the frames and overflows that the bytes   *)
(* mean, and it never retains more than the limit.  Whatever is asked: a   *)
(* call that follows the advertised schema of its tool reaches its core,   *)
(* and no other call does.  Whatever the command line: it reaches a core   *)
(* with what the server would have let through, says all that a call can   *)
(* say, takes the consent said last, and has one source for a follow-up.   *)
(***************************************************************************)
THEOREM McpServesExactly == Spec => []McpIsExact
<1>1. Init => FramingRuns /\ McpRuns /\ CliRuns
  BY SurfacesAssumption, FrameInit, McpInit, CliInit DEF Init, FramingRuns, McpRuns, CliRuns, SurfacesAssumption
<1>2. FramingRuns /\ [Next]_vars => FramingRuns'
  <2> SUFFICES ASSUME FramingRuns, [Next]_vars, surface' = "framing" PROVE FrameInv'
    BY DEF FramingRuns
  <2>1. surface = "framing" /\ [Framing!Next]_(Framing!vars)
    BY DEF Next, vars, frameVars, Framing!vars
  <2> QED
    BY <2>1, SurfacesAssumption, FrameStep DEF FramingRuns, SurfacesAssumption
<1>3. McpRuns /\ [Next]_vars => McpRuns'
  <2> SUFFICES ASSUME McpRuns, [Next]_vars, surface' = "mcp" PROVE McpInv'
    BY DEF McpRuns
  <2>1. surface = "mcp" /\ [Mcp!Next]_(Mcp!vars)
    BY DEF Next, vars, Mcp!vars
  <2> QED
    BY <2>1, McpStep DEF McpRuns
<1>4. CliRuns /\ [Next]_vars => CliRuns'
  <2> SUFFICES ASSUME CliRuns, [Next]_vars, surface' = "cli" PROVE CliInv'
    BY DEF CliRuns
  <2>1. surface = "cli" /\ [Cli!Next]_(Cli!vars)
    BY DEF Next, vars, Cli!vars
  <2> QED
    BY <2>1, CliStep DEF CliRuns
<1>5. FramingRuns /\ McpRuns /\ CliRuns => McpIsExact
  BY SurfacesAssumption, FrameFollows, McpServes, McpAdvertises, ServedHolds, SaidHolds, ConsentHolds, OneSourceHolds
     DEF SurfacesAssumption, FramingRuns, McpRuns, CliRuns, McpIsExact
<1> QED
  BY <1>1, <1>2, <1>3, <1>4, <1>5, PTL DEF Spec

\* Where nothing else ends in the name, what goes by the name is the key.
LEMMA ConfigExact == ASSUME Config!RepairByName PROVE Config!RepairIsExact
<1> DEFINE key == result.capsule.plan.key
           Was(f) == Config!Scalars(result.before[f])
           Is(f) == Config!Scalars(result.after[f])
<1> SUFFICES ASSUME Config!Resolved, NEW file \in {"primary", "override"}
             PROVE  IF file # result.capsule.plan.file THEN Is(file) = Was(file)
                    ELSE (\A p \in DOMAIN Was(file) : Config!IsSuffix(key, p) => p = key) =>
                           /\ DOMAIN Is(file) \subseteq (DOMAIN Was(file)) \ {key}
                           /\ \A p \in DOMAIN Was(file) :
                                ~Config!IsPrefix(key, p) => p \in DOMAIN Is(file) /\ Is(file)[p] = Was(file)[p]
  BY DEF Config!RepairIsExact
<1>1. Config!TakesOut(Was(file), Is(file), key, file = result.capsule.plan.file)
  BY DEF Config!RepairByName
<1>a. ASSUME NEW lines PROVE \E values : Config!Scalars(lines) = [p \in DOMAIN values |-> values[p]]
  <2>1. CASE lines = None
    <3>1. Config!Scalars(lines) = [p \in {} |-> p]
      BY <2>1 DEF Config!Scalars
    <3> QED
      BY <3>1
  <2>2. CASE lines # None
    <3> DEFINE set == Config!Parse(lines).value
               own == {q \in DOMAIN set : set[q].type # "table"}
    <3>1. Config!Scalars(lines) = [p \in own |-> set[p]]
      BY <2>2 DEF Config!Scalars
    <3> HIDE DEF set, own
    <3>2. [p \in own |-> set[p]] = [p \in DOMAIN [q \in own |-> set[q]] |-> [q \in own |-> set[q]][p]]
      OBVIOUS
    <3> QED
      BY <3>1, <3>2
  <2> QED
    BY <2>1, <2>2
<1>b. PICK was : Was(file) = [p \in DOMAIN was |-> was[p]]
  BY <1>a
<1>c. PICK is : Is(file) = [p \in DOMAIN is |-> is[p]]
  BY <1>a
<1> HIDE DEF Was, Is
<1>2. CASE file = result.capsule.plan.file
  BY <1>1, <1>2 DEF Config!TakesOut, Config!IsPrefix
<1>3. CASE file # result.capsule.plan.file
  <2>1. DOMAIN Is(file) = DOMAIN Was(file) /\ \A p \in DOMAIN Was(file) : Is(file)[p] = Was(file)[p]
    BY <1>1, <1>3 DEF Config!TakesOut
  <2> QED
    BY <1>3, <1>b, <1>c, <2>1
<1> QED
  BY <1>2, <1>3

(***************************************************************************)
(* Whatever the control files hold: a repair that worked took out the key  *)
(* it named and no other, but for keys that end in its name, which may go  *)
(* with it; every file that is said to be resolved starts, and a capsule   *)
(* is only applied to the files it was previewed on.                       *)
(***************************************************************************)
THEOREM ConfigRepairsExactly == Spec => []ConfigRepairsAreExact
<1>1. Init => ConfigRuns
  BY GuardsAssumption, ConfigInit DEF Init, ConfigRuns, GuardsAssumption
<1>2. ConfigRuns /\ [Next]_vars => ConfigRuns'
  <2> SUFFICES ASSUME ConfigRuns, [Next]_vars, surface' = "config" PROVE ConfigInv'
    BY DEF ConfigRuns
  <2>1. surface = "config" /\ (Config!Next \/ UNCHANGED << request, run, result >>)
    BY DEF Next, vars
  <2> QED
    BY <2>1, GuardsAssumption, ConfigStep, ConfigStutter DEF ConfigRuns, GuardsAssumption
<1>3. ConfigRuns => ConfigRepairsAreExact
  BY ConfigHolds, ConfigExact DEF ConfigRuns, ConfigRepairsAreExact
<1> QED
  BY <1>1, <1>2, <1>3, PTL DEF Spec

================================================================================
