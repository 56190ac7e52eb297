------------------------- MODULE BackendProxyProofs -------------------------
(***************************************************************************)
(* Proofs about Framing and BackendProxy, for any base of the bytes, any   *)
(* limit on frames and any packets, phones and workers: however the stream *)
(* of a phone is cut up, its packets come out whole, in order and once.    *)
(***************************************************************************)
EXTENDS BackendProxy, SequenceTheorems, WellFoundedInduction, TLAPS

-----------------------------------------------------------------------------
(* Recursive definitions.                                                  *)
(*                                                                         *)
(* Feed, Frames and RequestsIn are recursive functions on sequences, so it *)
(* has to be shown that functions with their equations exist.  Induction   *)
(* is on sets of numbers, as the choice of a least counterexample.         *)

\* Every set of natural numbers that is not empty has a least element.
LEMMA LeastNumber ==
    ASSUME NEW N, N \subseteq Nat, N # {}
    PROVE  \E n \in N : \A k \in N : n <= k
  <1>1. PICK n \in N : \A k \in N : ~(<<k, n>> \in OpToRel(<, Nat))
    BY NatLessThanWellFounded, WFMin
  <1>2. \A k \in N : ~(k < n)
    BY <1>1 DEF OpToRel
  <1> QED
    BY <1>2

\* The recursion that ends in Z and goes on with next elsewhere, and an argument
\* that gets smaller on the way.
Recursion(f, D, Z, next, leaf, op) ==
    \A x \in D : f[x] = IF x \in Z THEN leaf[x] ELSE op[<<x, f[next[x]]>>]

Descends(D, Z, next, size) == \A x \in D \ Z : size[next[x]] < size[x]

\* A recursion whose argument gets smaller defines a function.
LEMMA RecursionDefines ==
    ASSUME NEW D, NEW T, NEW size \in [D -> Nat], NEW Z, NEW next \in [D -> D],
           NEW leaf \in [D -> T], NEW op \in [D \X T -> T],
           Descends(D, Z, next, size)
    PROVE  \E f \in [D -> T] : Recursion(f, D, Z, next, leaf, op)
  <1> DEFINE Rhs(f, x) == IF x \in Z THEN leaf[x] ELSE op[<<x, f[next[x]]>>]
             Good(n, g) == g \in [D -> T] /\ \A x \in D : size[x] < n => g[x] = Rhs(g, x)
             Bad == {n \in Nat : ~\E g : Good(n, g)}
  <1>0. \A x \in D \ Z : size[next[x]] < size[x]
    BY DEF Descends
  <1>1. ASSUME NEW g \in [D -> T], NEW x \in D PROVE Rhs(g, x) \in T
    BY <1>1
  <1>2. Good(0, leaf)
    <2> HIDE DEF Rhs
    <2> QED
      OBVIOUS
  \* One more round of the recursion.
  <1>3. ASSUME NEW n \in Nat, NEW g, Good(n, g)
        PROVE  \E h : Good(n + 1, h)
    <2> DEFINE h == [x \in D |-> Rhs(g, x)]
    <2>1. h \in [D -> T]
      BY <1>1, <1>3
    <2>2. ASSUME NEW x \in D, size[x] < n + 1 PROVE h[x] = Rhs(h, x)
      <3>1. CASE x \in Z
        BY <3>1
      <3>2. CASE x \notin Z
        <4>1. next[x] \in D /\ size[next[x]] < n
          BY <1>0, <2>2, <3>2
        <4>2. g[next[x]] = Rhs(g, next[x])
          <5> HIDE DEF Rhs
          <5> QED
            BY <1>3, <4>1
        <4>3. h[next[x]] = g[next[x]]
          <5> HIDE DEF Rhs
          <5> QED
            BY <4>1, <4>2
        <4> QED
          BY <3>2, <4>3
      <3> QED
        BY <3>1, <3>2
    <2> HIDE DEF h, Rhs
    <2>3. Good(n + 1, h)
      BY <2>1, <2>2
    <2> QED
      BY <2>3
  <1> HIDE DEF Good
  <1>4. \A n \in Nat : \E g : Good(n, g)
    <2> SUFFICES ASSUME Bad # {} PROVE FALSE
      OBVIOUS
    <2>1. PICK n \in Bad : \A k \in Bad : n <= k
      BY LeastNumber
    <2>2. n # 0
      BY <1>2, <2>1
    <2>3. n - 1 \in Nat /\ n - 1 \notin Bad
      BY <2>1, <2>2
    <2>4. \E g : Good(n - 1, g)
      BY <2>3
    <2>5. \E h : Good((n - 1) + 1, h)
      BY <1>3, <2>3, <2>4
    <2> QED
      BY <2>1, <2>5
  \* Two rounds agree as far as both go.
  <1>5. ASSUME NEW n \in Nat, NEW m \in Nat, NEW g, NEW h, Good(n, g), Good(m, h)
        PROVE  \A x \in D : size[x] < n /\ size[x] < m => g[x] = h[x]
    <2> DEFINE Diff == {k \in Nat : \E x \in D : /\ size[x] = k /\ k < n /\ k < m
                                                 /\ g[x] # h[x]}
    <2> SUFFICES ASSUME Diff # {} PROVE FALSE
      OBVIOUS
    <2>1. PICK k \in Diff : \A j \in Diff : k <= j
      BY LeastNumber
    <2>2. PICK x \in D : size[x] = k /\ k < n /\ k < m /\ g[x] # h[x]
      BY <2>1
    <2>3. g[x] = Rhs(g, x) /\ h[x] = Rhs(h, x)
      <3> HIDE DEF Rhs
      <3> QED
        BY <1>5, <2>2 DEF Good
    <2>4. x \notin Z
      BY <2>2, <2>3
    <2>5. next[x] \in D /\ size[next[x]] \in Nat /\ size[next[x]] < k
      BY <1>0, <2>2, <2>4
    <2>6. g[next[x]] = h[next[x]]
      BY <2>1, <2>2, <2>5
    <2> QED
      BY <2>2, <2>3, <2>4, <2>6
  <1> DEFINE G(n) == CHOOSE g : Good(n, g)
             f == [x \in D |-> G(size[x] + 1)[x]]
  <1>6. \A n \in Nat : Good(n, G(n))
    BY <1>4
  <1> HIDE DEF G
  <1>7. f \in [D -> T]
    <2> SUFFICES ASSUME NEW x \in D PROVE G(size[x] + 1)[x] \in T
      OBVIOUS
    <2>1. G(size[x] + 1) \in [D -> T]
      BY <1>6 DEF Good
    <2> QED
      BY <2>1
  <1>8. ASSUME NEW x \in D PROVE f[x] = Rhs(f, x)
    <2> DEFINE g == G(size[x] + 1)
    <2>1. Good(size[x] + 1, g)
      BY <1>6
    <2>2. f[x] = g[x] /\ g[x] = Rhs(g, x)
      <3> HIDE DEF Rhs
      <3> QED
        BY <2>1 DEF Good
    <2>3. CASE x \in Z
      BY <2>2, <2>3
    <2>4. CASE x \notin Z
      <3> DEFINE y == next[x]
      <3>1. y \in D /\ size[y] \in Nat /\ size[y] < size[x] /\ size[x] \in Nat
        BY <1>0, <2>4
      <3>2. Good(size[y] + 1, G(size[y] + 1))
        BY <1>6, <3>1
      <3>3. G(size[y] + 1)[y] = g[y]
        <4> HIDE DEF y, g
        <4> QED
          BY <1>5, <2>1, <3>1, <3>2
      <3>4. f[y] = g[y]
        BY <3>1, <3>3
      <3> QED
        BY <2>2, <2>4, <3>4
    <2> QED
      BY <2>3, <2>4
  <1> QED
    BY <1>7, <1>8 DEF Recursion

-----------------------------------------------------------------------------
(* What the recursive functions of the model are. *)

\* A packet as a sender may have it, and a stream of bytes.
Packet == Seq(Bytes)
Fed == [packets : Seq(Packet), buf : Seq(Bytes), corrupt : BOOLEAN]

\* Taking off the first element makes a sequence shorter.
LEMMA TailShortens ==
    ASSUME NEW S
    PROVE  \A s \in Seq(S) \ {<<>>} :
              /\ Len(s) \in Nat /\ Head(s) \in S /\ Tail(s) \in Seq(S)
              /\ Len(Tail(s)) = Len(s) - 1 /\ Len(Tail(s)) < Len(s)
              /\ s = <<Head(s)>> \o Tail(s)
  OBVIOUS

\* Every set of sequences that is not empty has a shortest element.
LEMMA Shortest ==
    ASSUME NEW S, NEW W, W \subseteq Seq(S), W # {}
    PROVE  \E s \in W : \A t \in W : Len(s) <= Len(t)
  <1> DEFINE N == {Len(s) : s \in W}
  <1>1. \A s \in W : Len(s) \in Nat
    OBVIOUS
  <1>2. PICK n \in N : \A k \in N : n <= k
    <2>1. N \subseteq Nat /\ N # {}
      BY <1>1
    <2> HIDE DEF N
    <2> QED
      BY <2>1, LeastNumber
  <1> QED
    BY <1>2

\* A frame is its packet behind two numbers.
LEMMA FrameType ==
    ASSUME NEW p \in Packet
    PROVE  /\ Frame(p) \in Seq(Nat)
           /\ Len(p) \div Base \in Nat /\ Len(p) % Base \in 0 .. Base - 1
           /\ Base * (Len(p) \div Base) + (Len(p) % Base) = Len(p)
  <1>1. Len(p) \in Nat /\ Base \in Nat /\ Base > 0
    BY FramingAssumption DEF Packet
  <1>2. Len(p) \div Base \in Nat /\ Len(p) % Base \in 0 .. Base - 1
    BY <1>1
  <1>3. Base * (Len(p) \div Base) + (Len(p) % Base) = Len(p)
    BY <1>1
  <1>4. p \in Seq(Nat)
    BY FramingAssumption, SeqMonotonic DEF Packet, Bytes
  <1>5. <<Len(p) \div Base, Len(p) % Base>> \in Seq(Nat)
    BY <1>2
  <1>6. Frame(p) \in Seq(Nat)
    BY <1>4, <1>5 DEF Frame
  <1> QED
    BY <1>2, <1>3, <1>6

\* The recursion down the tail of a sequence.
TailRecursion(f, S, e, op) ==
    \A s \in Seq(S) : f[s] = IF s = <<>> THEN e ELSE op[<<Head(s), f[Tail(s)]>>]

\* It defines a function.
LEMMA TailRecursionDefines ==
    ASSUME NEW S, NEW T, NEW e \in T, NEW op \in [S \X T -> T]
    PROVE  \E f \in [Seq(S) -> T] : TailRecursion(f, S, e, op)
  <1> DEFINE D == Seq(S)
             Z == {<<>>}
             size == [s \in D |-> Len(s)]
             next == [s \in D |-> IF s = <<>> THEN <<>> ELSE Tail(s)]
             leaf == [s \in D |-> e]
             op2 == [x \in D \X T |-> IF x[1] = <<>> THEN e ELSE op[<<Head(x[1]), x[2]>>]]
  <1>1. size \in [D -> Nat] /\ leaf \in [D -> T]
    OBVIOUS
  <1>2. next \in [D -> D]
    <2>1. \A s \in D : (IF s = <<>> THEN <<>> ELSE Tail(s)) \in D
      BY TailShortens
    <2> QED
      BY <2>1
  <1>3. op2 \in [D \X T -> T]
    <2>1. \A s \in D, t \in T : (IF s = <<>> THEN e ELSE op[<<Head(s), t>>]) \in T
      BY TailShortens
    <2> QED
      BY <2>1
  <1>4. Descends(D, Z, next, size)
    <2> SUFFICES ASSUME NEW s \in D \ {<<>>} PROVE size[next[s]] < size[s]
      BY DEF Descends
    <2>1. next[s] = Tail(s) /\ Tail(s) \in D
      BY TailShortens
    <2> QED
      BY <2>1, TailShortens
  <1>5. \E f \in [D -> T] : Recursion(f, D, Z, next, leaf, op2)
    <2> HIDE DEF D, Z, size, next, leaf, op2
    <2> QED
      BY <1>1, <1>2, <1>3, <1>4, RecursionDefines
  <1>6. PICK f \in [D -> T] : \A s \in D :
            f[s] = IF s \in Z THEN leaf[s] ELSE op2[<<s, f[next[s]]>>]
    <2> HIDE DEF D, Z, next, leaf, op2
    <2> QED
      BY <1>5 DEF Recursion
  <1>7. ASSUME NEW s \in D, s # <<>>
        PROVE  f[s] = op[<<Head(s), f[Tail(s)]>>]
    <2>1. Tail(s) \in D /\ next[s] = Tail(s)
      BY <1>7, TailShortens
    <2>2. f[Tail(s)] \in T
      BY <1>6, <2>1
    <2>3. f[s] = op2[<<s, f[Tail(s)]>>]
      <3> HIDE DEF op2, leaf, next
      <3> QED
        BY <1>6, <1>7, <2>1
    <2>4. op2[<<s, f[Tail(s)]>>] = op[<<Head(s), f[Tail(s)]>>]
      BY <1>7, <2>2
    <2> QED
      BY <2>3, <2>4
  <1>8. <<>> \in D /\ f[<<>>] = e
    <2>1. <<>> \in D /\ <<>> \in Z
      OBVIOUS
    <2>2. f[<<>>] = leaf[<<>>]
      <3> HIDE DEF Z, D, leaf, op2, next
      <3> QED
        BY <1>6, <2>1
    <2> QED
      BY <2>1, <2>2
  <1> QED
    BY <1>7, <1>8 DEF TailRecursion

\* Frames does what its definition says.
LEMMA FramesUnfolds ==
    \A ps \in Seq(Packet) :
        /\ Frames[ps] \in Seq(Nat)
        /\ Frames[ps] = IF ps = <<>> THEN <<>> ELSE Frame(Head(ps)) \o Frames[Tail(ps)]
  <1> DEFINE T == Seq(Nat)
             op == [x \in Packet \X T |-> Frame(x[1]) \o x[2]]
             Is(h) == h = [packets \in Seq(Packet) |->
                              IF packets = <<>> THEN <<>>
                              ELSE Frame(Head(packets)) \o h[Tail(packets)]]
  <1>1. op \in [Packet \X T -> T]
    <2>1. \A p \in Packet, t \in T : Frame(p) \o t \in T
      BY FrameType
    <2> QED
      BY <2>1
  <1>2. \E f \in [Seq(Packet) -> T] : TailRecursion(f, Packet, <<>>, op)
    <2>1. <<>> \in T
      OBVIOUS
    <2> HIDE DEF T, op
    <2> QED
      BY <1>1, <2>1, TailRecursionDefines
  <1>3. PICK f \in [Seq(Packet) -> T] : \A s \in Seq(Packet) :
            f[s] = IF s = <<>> THEN <<>> ELSE op[<<Head(s), f[Tail(s)]>>]
    <2> HIDE DEF T, op
    <2> QED
      BY <1>2 DEF TailRecursion
  <1>4. ASSUME NEW s \in Seq(Packet), s # <<>>
        PROVE  f[s] = Frame(Head(s)) \o f[Tail(s)]
    <2>1. Head(s) \in Packet /\ Tail(s) \in Seq(Packet)
      BY <1>4, TailShortens
    <2>2. f[Tail(s)] \in T
      BY <1>3, <2>1
    <2>3. op[<<Head(s), f[Tail(s)]>>] = Frame(Head(s)) \o f[Tail(s)]
      BY <2>1, <2>2
    <2> HIDE DEF op
    <2> QED
      BY <1>3, <1>4, <2>3
  <1>5. Is(f)
    <2> HIDE DEF op
    <2>1. \A s \in Seq(Packet) :
             f[s] = IF s = <<>> THEN <<>> ELSE Frame(Head(s)) \o f[Tail(s)]
      BY <1>3, <1>4
    <2> QED
      BY <1>3, <2>1
  <1>6. Frames = CHOOSE h : Is(h)
    BY DEF Frames, Packet
  <1>7. Is(Frames)
    <2> HIDE DEF Is
    <2> QED
      BY <1>5, <1>6
  <1>8. \A ps \in Seq(Packet) :
           Frames[ps] = IF ps = <<>> THEN <<>> ELSE Frame(Head(ps)) \o Frames[Tail(ps)]
    BY <1>7
  <1> DEFINE Wrong == {ps \in Seq(Packet) : Frames[ps] \notin T}
  <1>9. Wrong = {}
    <2> SUFFICES ASSUME Wrong # {} PROVE FALSE
      OBVIOUS
    <2>1. PICK ps \in Wrong : \A qs \in Wrong : Len(ps) <= Len(qs)
      BY Shortest
    <2>2. ps # <<>>
      BY <1>8, <2>1
    <2>3. Tail(ps) \in Seq(Packet) /\ Head(ps) \in Packet
      BY <2>2, TailShortens
    <2>4. Tail(ps) \notin Wrong
      <3>1. ps \in Seq(Packet) \ {<<>>}
        BY <2>2
      <3>2. ~(Len(ps) <= Len(Tail(ps)))
        BY <3>1, TailShortens
      <3> HIDE DEF Wrong
      <3> QED
        BY <2>1, <3>2
    <2>5. Frame(Head(ps)) \in T /\ Frames[Tail(ps)] \in T
      BY <2>3, <2>4, FrameType
    <2>6. Frame(Head(ps)) \o Frames[Tail(ps)] \in T
      BY <2>5
    <2> QED
      BY <1>8, <2>1, <2>2, <2>6
  <1> QED
    BY <1>8, <1>9

\* The demux passes on requests only.
LEMMA RequestsInType == \A ps \in Seq(Packet) : RequestsIn[ps] \in Seq(Requests)
  <1> DEFINE T == Seq(Requests)
             Kept(p) == IF p \in Requests THEN <<p>> ELSE <<>>
             op == [x \in Packet \X T |-> Kept(x[1]) \o x[2]]
             Is(h) == h = [packets \in Seq(Packet) |->
                              IF packets = <<>> THEN <<>>
                              ELSE Kept(Head(packets)) \o h[Tail(packets)]]
  <1>1. op \in [Packet \X T -> T]
    <2>1. \A p \in Packet, t \in T : Kept(p) \o t \in T
      OBVIOUS
    <2> QED
      BY <2>1
  <1>2. \E f \in [Seq(Packet) -> T] : TailRecursion(f, Packet, <<>>, op)
    <2>1. <<>> \in T
      OBVIOUS
    <2> HIDE DEF T, op
    <2> QED
      BY <1>1, <2>1, TailRecursionDefines
  <1>3. PICK f \in [Seq(Packet) -> T] : \A s \in Seq(Packet) :
            f[s] = IF s = <<>> THEN <<>> ELSE op[<<Head(s), f[Tail(s)]>>]
    <2> HIDE DEF T, op
    <2> QED
      BY <1>2 DEF TailRecursion
  <1>4. ASSUME NEW s \in Seq(Packet), s # <<>>
        PROVE  f[s] = Kept(Head(s)) \o f[Tail(s)]
    <2>1. Head(s) \in Packet /\ Tail(s) \in Seq(Packet)
      BY <1>4, TailShortens
    <2>2. f[Tail(s)] \in T
      BY <1>3, <2>1
    <2>3. op[<<Head(s), f[Tail(s)]>>] = Kept(Head(s)) \o f[Tail(s)]
      BY <2>1, <2>2
    <2> HIDE DEF op, Kept
    <2> QED
      BY <1>3, <1>4, <2>3
  <1>5. Is(f)
    <2> HIDE DEF op, Kept
    <2>1. \A s \in Seq(Packet) : f[s] = IF s = <<>> THEN <<>> ELSE Kept(Head(s)) \o f[Tail(s)]
      BY <1>3, <1>4
    <2> QED
      BY <1>3, <2>1
  <1>6. RequestsIn = CHOOSE h : Is(h)
    BY DEF RequestsIn, Packet
  <1>7. Is(RequestsIn)
    <2> HIDE DEF Is
    <2> QED
      BY <1>5, <1>6
  <1>8. \A ps \in Seq(Packet) : RequestsIn[ps] =
           IF ps = <<>> THEN <<>> ELSE Kept(Head(ps)) \o RequestsIn[Tail(ps)]
    <2> HIDE DEF Kept
    <2> QED
      BY <1>7
  <1> DEFINE Wrong == {ps \in Seq(Packet) : RequestsIn[ps] \notin T}
  <1>9. Wrong = {}
    <2> SUFFICES ASSUME Wrong # {} PROVE FALSE
      OBVIOUS
    <2>1. PICK ps \in Wrong : \A qs \in Wrong : Len(ps) <= Len(qs)
      BY Shortest
    <2>2. ps # <<>>
      <3>1. <<>> \in Seq(Packet) /\ <<>> \in T
        OBVIOUS
      <3>2. RequestsIn[<<>>] = <<>>
        BY <1>8, <3>1
      <3> QED
        BY <2>1, <3>1, <3>2
    <2>3. Tail(ps) \in Seq(Packet) /\ Head(ps) \in Packet
      BY <2>2, TailShortens
    <2>4. Tail(ps) \notin Wrong
      <3>1. ps \in Seq(Packet) \ {<<>>}
        BY <2>2
      <3>2. ~(Len(ps) <= Len(Tail(ps)))
        BY <3>1, TailShortens
      <3> HIDE DEF Wrong
      <3> QED
        BY <2>1, <3>2
    <2>5. Kept(Head(ps)) \in T /\ RequestsIn[Tail(ps)] \in T
      BY <2>3, <2>4
    <2>6. Kept(Head(ps)) \o RequestsIn[Tail(ps)] \in T
      BY <2>5
    <2> QED
      BY <1>8, <2>1, <2>2, <2>6
  <1> QED
    BY <1>9

\* Buffers that Feed decodes nothing of, what it says of them, and otherwise the
\* first packet in the buffer and the bytes behind it.
Stuck == {s \in Seq(Bytes) : Len(s) < 2 \/ Length(s) > MaxFrame \/ ~Complete(s)}

FeedStuck(s) ==
    IF Len(s) < 2 THEN [packets |-> <<>>, buf |-> s, corrupt |-> FALSE]
    ELSE IF Length(s) > MaxFrame THEN [packets |-> <<>>, buf |-> <<>>, corrupt |-> TRUE]
    ELSE [packets |-> <<>>, buf |-> s, corrupt |-> FALSE]

First(s) == SubSeq(s, 3, 2 + Length(s))
Behind(s) == SubSeq(s, 3 + Length(s), Len(s))

FeedMore(s, rest) ==
    [rest EXCEPT !.packets = IF rest.corrupt THEN <<>> ELSE <<First(s)>> \o @]

LEMMA FeedPieces ==
    /\ \A s \in Seq(Bytes) : FeedStuck(s) \in Fed
    /\ \A s \in Seq(Bytes) \ Stuck :
          /\ Len(s) \in Nat /\ Length(s) \in Nat /\ Len(s) >= 2 + Length(s)
          /\ Length(s) <= MaxFrame /\ s[1] \in Bytes /\ s[2] \in Bytes
          /\ First(s) \in Packet /\ Len(First(s)) = Length(s)
          /\ Behind(s) \in Seq(Bytes) /\ Len(Behind(s)) = Len(s) - (2 + Length(s))
          /\ s = (<<s[1], s[2]>> \o First(s)) \o Behind(s)
          /\ \A rest \in Fed : FeedMore(s, rest) \in Fed
  <1>1. \A s \in Seq(Bytes) : FeedStuck(s) \in Fed
    BY DEF FeedStuck, Fed
  <1>2. ASSUME NEW s \in Seq(Bytes) \ Stuck
        PROVE  /\ Len(s) \in Nat /\ Length(s) \in Nat /\ Len(s) >= 2 + Length(s)
               /\ Length(s) <= MaxFrame /\ s[1] \in Bytes /\ s[2] \in Bytes
    <2>1. Len(s) \in Nat /\ Len(s) >= 2 /\ ~(Length(s) > MaxFrame) /\ Complete(s)
      BY DEF Stuck
    <2>2. s[1] \in Bytes /\ s[2] \in Bytes
      BY <2>1
    <2>3. Length(s) \in Nat
      <3>1. Base \in Nat /\ s[1] \in Nat /\ s[2] \in Nat
        BY <2>2, FramingAssumption DEF Bytes
      <3>2. Base * s[1] \in Nat
        BY <3>1
      <3> QED
        BY <3>1, <3>2 DEF Length
    <2> QED
      BY <2>1, <2>2, <2>3, FramingAssumption DEF Complete
  <1>3. ASSUME NEW s \in Seq(Bytes) \ Stuck
        PROVE  /\ First(s) \in Packet /\ Len(First(s)) = Length(s)
               /\ Behind(s) \in Seq(Bytes) /\ Len(Behind(s)) = Len(s) - (2 + Length(s))
               /\ s = (<<s[1], s[2]>> \o First(s)) \o Behind(s)
    <2> HIDE DEF Stuck
    <2>1. Len(s) \in Nat /\ Length(s) \in Nat /\ Len(s) >= 2 + Length(s)
      BY <1>2
    <2> DEFINE n == Length(s)
    <2> HIDE DEF n
    <2>2. n \in Nat /\ Len(s) >= 2 + n /\ n = Length(s)
      BY <2>1 DEF n
    <2>3. /\ SubSeq(s, 3, 2 + n) \in Seq(Bytes) /\ Len(SubSeq(s, 3, 2 + n)) = n
          /\ \A i \in 1 .. n : SubSeq(s, 3, 2 + n)[i] = s[i + 2]
      BY <2>1, <2>2
    <2>4. /\ SubSeq(s, 3 + n, Len(s)) \in Seq(Bytes)
          /\ Len(SubSeq(s, 3 + n, Len(s))) = Len(s) - (2 + n)
          /\ \A i \in 1 .. Len(s) - (2 + n) : SubSeq(s, 3 + n, Len(s))[i] = s[i + 2 + n]
      BY <2>1, <2>2
    <2>5. s = (<<s[1], s[2]>> \o SubSeq(s, 3, 2 + n)) \o SubSeq(s, 3 + n, Len(s))
      <3>1. <<s[1], s[2]>> \in Seq(Bytes)
        BY <1>2
      <3> DEFINE h == <<s[1], s[2]>> \o SubSeq(s, 3, 2 + n)
      <3>2. /\ h \in Seq(Bytes) /\ Len(h) = 2 + n
            /\ \A i \in 1 .. 2 + n : h[i] = s[i]
        BY <2>1, <2>2, <2>3, <3>1
      <3> DEFINE t == SubSeq(s, 3 + n, Len(s))
      <3>3. /\ t \in Seq(Bytes) /\ Len(t) = Len(s) - (2 + n)
            /\ \A i \in 1 .. Len(s) - (2 + n) : t[i] = s[i + 2 + n]
        BY <2>4
      <3> HIDE DEF h, t
      <3>4. h \o t \in Seq(Bytes) /\ Len(h \o t) = Len(s)
        BY <2>1, <2>2, <3>2, <3>3
      <3>5. ASSUME NEW i \in 1 .. Len(s) PROVE (h \o t)[i] = s[i]
        <4>1. CASE i <= 2 + n
          BY <2>1, <2>2, <3>2, <3>3, <4>1
        <4>2. CASE i > 2 + n
          <5>1. (h \o t)[i] = t[i - (2 + n)] /\ i - (2 + n) \in 1 .. Len(s) - (2 + n)
            BY <2>1, <2>2, <3>2, <3>3, <4>2
          <5>2. t[i - (2 + n)] = s[(i - (2 + n)) + 2 + n] /\ (i - (2 + n)) + 2 + n = i
            BY <2>1, <2>2, <3>3, <5>1
          <5> QED
            BY <5>1, <5>2
        <4>3. i \in Nat
          BY <2>1
        <4>4. i <= 2 + n \/ i > 2 + n
          BY <2>2, <4>3
        <4> QED
          BY <4>1, <4>2, <4>4
      <3> QED
        BY <3>4, <3>5, SeqEqual DEF h, t
    <2> QED
      BY <2>2, <2>3, <2>4, <2>5 DEF First, Behind, Packet
  <1>4. ASSUME NEW s \in Seq(Bytes) \ Stuck, NEW rest \in Fed
        PROVE  FeedMore(s, rest) \in Fed
    <2>1. First(s) \in Packet /\ rest.packets \in Seq(Packet)
      BY <1>3 DEF Fed
    <2>2. <<First(s)>> \o rest.packets \in Seq(Packet)
      BY <2>1
    <2> DEFINE ps == IF rest.corrupt THEN <<>> ELSE <<First(s)>> \o rest.packets
    <2>3. ps \in Seq(Packet)
      BY <2>2
    <2>4. FeedMore(s, rest) = [rest EXCEPT !.packets = ps]
      BY DEF FeedMore
    <2> HIDE DEF ps
    <2> QED
      BY <2>3, <2>4 DEF Fed
  <1> HIDE DEF Stuck, FeedMore
  <1> QED
    BY <1>1, <1>2, <1>3, <1>4

\* Feed does what its definition says.
LEMMA FeedUnfolds ==
    \A s \in Seq(Bytes) :
        /\ Feed[s] \in Fed
        /\ Feed[s] = IF s \in Stuck THEN FeedStuck(s) ELSE FeedMore(s, Feed[Behind(s)])
  <1> DEFINE D == Seq(Bytes)
             size == [s \in D |-> Len(s)]
             next == [s \in D |-> IF s \in Stuck THEN s ELSE Behind(s)]
             leaf == [s \in D |-> FeedStuck(s)]
             op == [x \in D \X Fed |-> IF x[1] \in Stuck THEN FeedStuck(x[1])
                                       ELSE FeedMore(x[1], x[2])]
             Is(h) == h = [s \in D |-> IF s \in Stuck THEN FeedStuck(s)
                                       ELSE FeedMore(s, h[Behind(s)])]
  <1>1. size \in [D -> Nat] /\ leaf \in [D -> Fed]
    BY FeedPieces
  <1>2. next \in [D -> D]
    <2>1. \A s \in D : (IF s \in Stuck THEN s ELSE Behind(s)) \in D
      BY FeedPieces
    <2> QED
      BY <2>1
  <1>3. op \in [D \X Fed -> Fed]
    <2>1. \A s \in D, rest \in Fed :
             (IF s \in Stuck THEN FeedStuck(s) ELSE FeedMore(s, rest)) \in Fed
      BY FeedPieces
    <2> QED
      BY <2>1
  <1>4. Descends(D, Stuck, next, size)
    <2> SUFFICES ASSUME NEW s \in D \ Stuck PROVE size[next[s]] < size[s]
      BY DEF Descends
    <2>1. next[s] = Behind(s) /\ Behind(s) \in D
      BY FeedPieces
    <2>2. size[next[s]] = Len(Behind(s)) /\ size[s] = Len(s)
      BY <2>1
    <2>3. /\ Len(s) \in Nat /\ Length(s) \in Nat
          /\ Len(Behind(s)) = Len(s) - (2 + Length(s))
      BY FeedPieces
    <2>4. Len(Behind(s)) < Len(s)
      BY <2>3
    <2> QED
      BY <2>2, <2>4
  <1>5. \E f \in [D -> Fed] : Recursion(f, D, Stuck, next, leaf, op)
    <2> HIDE DEF D, size, next, leaf, op
    <2> QED
      BY <1>1, <1>2, <1>3, <1>4, RecursionDefines
  <1>6. PICK f \in [D -> Fed] : \A s \in D :
            f[s] = IF s \in Stuck THEN leaf[s] ELSE op[<<s, f[next[s]]>>]
    <2> HIDE DEF D, next, leaf, op
    <2> QED
      BY <1>5 DEF Recursion
  <1>7. ASSUME NEW s \in D
        PROVE  f[s] = IF s \in Stuck THEN FeedStuck(s) ELSE FeedMore(s, f[Behind(s)])
    <2>1. CASE s \in Stuck
      BY <1>6, <2>1
    <2>2. CASE s \notin Stuck
      <3>1. next[s] = Behind(s) /\ Behind(s) \in D
        BY <2>2, FeedPieces
      <3>2. f[Behind(s)] \in Fed
        BY <1>6, <3>1
      <3>3. f[s] = op[<<s, f[Behind(s)]>>]
        <4> HIDE DEF op, leaf, next
        <4> QED
          BY <1>6, <2>2, <3>1
      <3>4. op[<<s, f[Behind(s)]>>] = FeedMore(s, f[Behind(s)])
        BY <2>2, <3>2
      <3> QED
        BY <2>2, <3>3, <3>4
    <2> QED
      BY <2>1, <2>2
  <1>8. Is(f)
    <2> HIDE DEF op, leaf, next
    <2> QED
      BY <1>6, <1>7
  <1>9. Feed = CHOOSE h : Is(h)
    <2> DEFINE Def(h, s) ==
          IF Len(s) < 2 THEN [packets |-> <<>>, buf |-> s, corrupt |-> FALSE]
          ELSE IF Length(s) > MaxFrame THEN [packets |-> <<>>, buf |-> <<>>, corrupt |-> TRUE]
          ELSE IF ~Complete(s) THEN [packets |-> <<>>, buf |-> s, corrupt |-> FALSE]
          ELSE FeedMore(s, h[Behind(s)])
    <2>1. Feed = CHOOSE h : h = [s \in D |-> Def(h, s)]
      BY DEF Feed, FeedMore, First, Behind
    <2>2. ASSUME NEW h
          PROVE  [s \in D |-> Def(h, s)] =
                 [s \in D |-> IF s \in Stuck THEN FeedStuck(s) ELSE FeedMore(s, h[Behind(s)])]
      <3>1. \A s \in D : Def(h, s) = IF s \in Stuck THEN FeedStuck(s)
                                     ELSE FeedMore(s, h[Behind(s)])
        BY DEF Stuck, FeedStuck
      <3> HIDE DEF Def
      <3> QED
        BY <3>1
    <2> HIDE DEF Def
    <2> QED
      BY <2>1, <2>2
  <1>10. Is(Feed)
    <2> HIDE DEF Is
    <2> QED
      BY <1>8, <1>9
  <1>11. \A s \in D :
            Feed[s] = IF s \in Stuck THEN FeedStuck(s) ELSE FeedMore(s, Feed[Behind(s)])
    BY <1>10
  <1> DEFINE Wrong == {s \in D : Feed[s] \notin Fed}
  <1>12. Wrong = {}
    <2> SUFFICES ASSUME Wrong # {} PROVE FALSE
      OBVIOUS
    <2>1. PICK s \in Wrong : \A t \in Wrong : Len(s) <= Len(t)
      BY Shortest
    <2>2. s \in D \ Stuck
      BY <1>11, <2>1, FeedPieces
    <2>3. Behind(s) \in D /\ ~(Len(s) <= Len(Behind(s)))
      <3>1. /\ Behind(s) \in D /\ Len(s) \in Nat /\ Length(s) \in Nat
            /\ Len(Behind(s)) = Len(s) - (2 + Length(s))
        BY <2>2, FeedPieces
      <3> QED
        BY <3>1
    <2>4. Behind(s) \notin Wrong
      <3> HIDE DEF Wrong
      <3> QED
        BY <2>1, <2>3
    <2>5. Feed[Behind(s)] \in Fed
      BY <2>3, <2>4
    <2>6. FeedMore(s, Feed[Behind(s)]) \in Fed
      BY <2>2, <2>5, FeedPieces
    <2> QED
      BY <1>11, <2>1, <2>2, <2>6
  <1> QED
    BY <1>11, <1>12

-----------------------------------------------------------------------------
(* Framing and reassembly. *)

\* Where the first parts of two concatenations are of the same length, both
\* parts are equal.
LEMMA ConcatSplits ==
    ASSUME NEW S, NEW a \in Seq(S), NEW b \in Seq(S), NEW c \in Seq(S), NEW d \in Seq(S),
           Len(a) = Len(c), a \o b = c \o d
    PROVE  a = c /\ b = d
  <1>1. a = c
    <2>1. ASSUME NEW i \in 1 .. Len(a) PROVE a[i] = c[i]
      <3>1. (a \o b)[i] = a[i] /\ (c \o d)[i] = c[i]
        BY ConcatProperties
      <3> QED
        BY <3>1
    <2> QED
      BY <2>1, SeqEqual
  <1>2. c \o b = c \o d
    BY <1>1
  <1>3. b = d
    BY <1>2, ConcatSimplifications
  <1> QED
    BY <1>1, <1>3

\* The frame of a packet whose length has a two-byte form is made of bytes.
LEMMA FrameIsBytes ==
    ASSUME NEW p \in Packet, Frameable(Len(p))
    PROVE  Frame(p) \in Seq(Bytes)
  <1> DEFINE q == Len(p) \div Base
             m == Len(p) % Base
  <1>1. /\ q \in Nat /\ m \in 0 .. Base - 1 /\ Base * q + m = Len(p)
        /\ Base \in Nat /\ Len(p) \in Nat /\ Len(p) < Base * Base
    BY FrameType, FramingAssumption DEF Packet, Frameable
  <1> HIDE DEF q, m
  <1>2. q < Base
    <2> SUFFICES ASSUME q >= Base PROVE FALSE
      BY <1>1
    <2>1. PICK k \in Nat : q = Base + k
      BY <1>1
    <2>2. Base * q = Base * Base + Base * k /\ Base * k \in Nat
      BY <1>1, <2>1
    <2> QED
      BY <1>1, <2>2
  <1>3. q \in Bytes /\ m \in Bytes
    BY <1>1, <1>2 DEF Bytes
  <1>4. <<q, m>> \o p \in Seq(Bytes)
    BY <1>3 DEF Packet
  <1> QED
    BY <1>4 DEF Frame, q, m

\* What a phone writes next goes to the end of its stream.
LEMMA FramesAppend ==
    ASSUME NEW p \in Packet
    PROVE  \A ps \in Seq(Packet) : Frames[Append(ps, p)] = Frames[ps] \o Frame(p)
  <1> DEFINE Wrong == {ps \in Seq(Packet) : Frames[Append(ps, p)] # Frames[ps] \o Frame(p)}
  <1> SUFFICES ASSUME Wrong # {} PROVE FALSE
    OBVIOUS
  <1>1. PICK ps \in Wrong : \A qs \in Wrong : Len(ps) <= Len(qs)
    BY Shortest
  <1>2. ps \in Seq(Packet) /\ Frames[Append(ps, p)] # Frames[ps] \o Frame(p)
    BY <1>1
  <1>3. Append(ps, p) \in Seq(Packet) /\ Append(ps, p) # <<>>
    BY <1>2, AppendProperties
  <1>4. Frames[Append(ps, p)] = Frame(Head(Append(ps, p))) \o Frames[Tail(Append(ps, p))]
    BY <1>3, FramesUnfolds
  <1>5. Frame(p) \in Seq(Nat)
    BY FrameType
  <1>6. CASE ps = <<>>
    <2>1. Head(Append(ps, p)) = p /\ Tail(Append(ps, p)) = <<>>
      BY <1>2, <1>6, HeadTailAppend
    <2>2. Frames[<<>>] = <<>>
      BY <1>2, <1>6, FramesUnfolds
    <2>3. Frame(p) \o <<>> = Frame(p) /\ <<>> \o Frame(p) = Frame(p)
      BY <1>5, ConcatEmptySeq
    <2> QED
      BY <1>2, <1>4, <1>6, <2>1, <2>2, <2>3
  <1>7. CASE ps # <<>>
    <2>1. Head(Append(ps, p)) = Head(ps) /\ Tail(Append(ps, p)) = Append(Tail(ps), p)
      BY <1>2, <1>7, HeadTailAppend
    <2>2. Head(ps) \in Packet /\ Tail(ps) \in Seq(Packet) /\ ~(Len(ps) <= Len(Tail(ps)))
      BY <1>2, <1>7, TailShortens
    <2>3. Tail(ps) \notin Wrong
      <3> HIDE DEF Wrong
      <3> QED
        BY <1>1, <2>2
    <2>4. Frames[Append(Tail(ps), p)] = Frames[Tail(ps)] \o Frame(p)
      BY <2>2, <2>3
    <2>5. Frames[ps] = Frame(Head(ps)) \o Frames[Tail(ps)]
      BY <1>2, <1>7, FramesUnfolds
    <2>6. Frame(Head(ps)) \in Seq(Nat) /\ Frames[Tail(ps)] \in Seq(Nat)
      BY <2>2, FrameType, FramesUnfolds
    <2>7. (Frame(Head(ps)) \o Frames[Tail(ps)]) \o Frame(p)
            = Frame(Head(ps)) \o (Frames[Tail(ps)] \o Frame(p))
      <3> DEFINE x == Frame(Head(ps))
                 y == Frames[Tail(ps)]
                 z == Frame(p)
      <3>1. x \in Seq(Nat) /\ y \in Seq(Nat) /\ z \in Seq(Nat)
        BY <1>5, <2>6
      <3> HIDE DEF x, y, z, Wrong
      <3>2. (x \o y) \o z = x \o (y \o z)
        BY <3>1, ConcatAssociative
      <3> QED
        BY <3>2 DEF x, y, z
    <2> QED
      BY <1>2, <1>4, <2>1, <2>4, <2>5, <2>7
  <1> QED
    BY <1>6, <1>7

\* Packets that a frame may carry.
Short(ps) == \A i \in 1 .. Len(ps) : Len(ps[i]) <= MaxFrame

\* Fed with s, the assembler hands over the first of the packets ps, and what it
\* keeps is, with the bytes r still to come, the stream of the others.
Decodes(s, r, ps) ==
    /\ ~Feed[s].corrupt
    /\ \E others \in Seq(Packet) :
          ps = Feed[s].packets \o others /\ Feed[s].buf \o r = Frames[others]

\* A stream that begins with a frame, cut off somewhere behind its length.
LEMMA FirstFrame ==
    ASSUME NEW s \in Seq(Bytes), NEW r \in Seq(Bytes), NEW ps \in Seq(Packet),
           Frames[ps] = s \o r, Len(s) >= 2
    PROVE  /\ ps # <<>> /\ Head(ps) \in Packet /\ Tail(ps) \in Seq(Packet)
           /\ s[1] = Len(Head(ps)) \div Base /\ s[2] = Len(Head(ps)) % Base
           /\ Length(s) = Len(Head(ps))
           /\ s \o r = (<<s[1], s[2]>> \o Head(ps)) \o Frames[Tail(ps)]
  <1>1. Len(s) \in Nat /\ Len(r) \in Nat /\ Len(s \o r) = Len(s) + Len(r)
    OBVIOUS
  <1>2. ps # <<>>
    <2>1. Len(Frames[ps]) >= 2
      BY <1>1
    <2> QED
      BY <2>1, FramesUnfolds
  <1>3. Head(ps) \in Packet /\ Tail(ps) \in Seq(Packet)
    BY <1>2, TailShortens
  <1> DEFINE p == Head(ps)
             q == Len(p) \div Base
             m == Len(p) % Base
             t == Frames[Tail(ps)]
  <1>4. s \o r = (<<q, m>> \o p) \o t
    BY <1>2, FramesUnfolds DEF Frame
  <1>5. /\ p \in Seq(Nat) /\ q \in Nat /\ m \in Nat /\ t \in Seq(Nat)
        /\ Base * q + m = Len(p)
    <2>1. p \in Seq(Nat)
      BY <1>3, FramingAssumption, SeqMonotonic DEF Packet, Bytes
    <2>2. q \in Nat /\ m \in 0 .. Base - 1 /\ Base * q + m = Len(p)
      BY <1>3, FrameType
    <2>3. m \in Nat
      <3> HIDE DEF m
      <3> QED
        BY <2>2, FramingAssumption
    <2>4. t \in Seq(Nat)
      BY <1>3, FramesUnfolds
    <2> QED
      BY <2>1, <2>2, <2>3, <2>4
  <1> HIDE DEF p, q, m, t
  <1>6. ((<<q, m>> \o p) \o t)[1] = q /\ ((<<q, m>> \o p) \o t)[2] = m
    BY <1>5
  <1>7. (s \o r)[1] = s[1] /\ (s \o r)[2] = s[2]
    BY <1>1, ConcatProperties
  <1>8. s[1] = q /\ s[2] = m
    BY <1>4, <1>6, <1>7
  <1> QED
    BY <1>2, <1>3, <1>4, <1>5, <1>8 DEF p, q, m, t, Length

LEMMA NatConcatAssociative ==
    ASSUME NEW x \in Seq(Nat), NEW y \in Seq(Nat), NEW z \in Seq(Nat)
    PROVE  (x \o y) \o z = x \o (y \o z)
  OBVIOUS

\* Two ways to see a stream: with a known head, a part of the length of packet p
\* and the rest in two parts; and with p behind the head.
Aligned(h, f, b, r, p, t) == Len(f) = Len(p) /\ ((h \o f) \o b) \o r = (h \o p) \o t

LEMMA PartsAlign ==
    ASSUME NEW h \in Seq(Nat), NEW f \in Seq(Nat), NEW b \in Seq(Nat), NEW r \in Seq(Nat),
           NEW p \in Seq(Nat), NEW t \in Seq(Nat)
    PROVE  Aligned(h, f, b, r, p, t) => f = p /\ b \o r = t
  <1> DEFINE a == h \o f
             c == h \o p
             e == b \o r
  <1>1. a \in Seq(Nat) /\ c \in Seq(Nat) /\ e \in Seq(Nat)
    OBVIOUS
  <1>2. Len(a) = Len(h) + Len(f) /\ Len(c) = Len(h) + Len(p)
    OBVIOUS
  <1>3. ((h \o f) \o b) \o r = a \o e
    <2>1. (a \o b) \o r = a \o (b \o r)
      <3>1. a \in Seq(Nat)
        BY <1>1
      <3> HIDE DEF a
      <3> QED
        BY <3>1, NatConcatAssociative
    <2> QED
      BY <2>1
  <1>4. Len(a) = Len(c) /\ a \o e = c \o t => a = c /\ e = t
    <2> HIDE DEF a, c, e
    <2> QED
      BY <1>1, ConcatSplits
  <1>5. a = c => f = p
    BY ConcatSimplifications
  <1>6. HAVE Aligned(h, f, b, r, p, t)
  <1>7. Len(f) = Len(p) /\ ((h \o f) \o b) \o r = (h \o p) \o t
    BY <1>6 DEF Aligned
  <1>8. a = c /\ e = t
    <2>1. a \o e = c \o t
      BY <1>3, <1>7
    <2>2. Len(a) = Len(c)
      <3> HIDE DEF a, c
      <3> QED
        BY <1>2, <1>7
    <2> QED
      BY <1>4, <2>1, <2>2
  <1> QED
    BY <1>5, <1>8

\* If the stream of short packets is cut in two, the assembler decodes the first
\* part, wherever the cut is.
LEMMA FeedReadsFrames ==
    \A s \in Seq(Bytes) : \A r \in Seq(Bytes), ps \in Seq(Packet) :
        Short(ps) /\ Frames[ps] = s \o r => Decodes(s, r, ps)
  <1> DEFINE Ok(s) == \A r \in Seq(Bytes), ps \in Seq(Packet) :
                         Short(ps) /\ Frames[ps] = s \o r => Decodes(s, r, ps)
             Wrong == {s \in Seq(Bytes) : ~Ok(s)}
  <1> SUFFICES ASSUME Wrong # {} PROVE FALSE
    OBVIOUS
  <1>1. PICK s \in Wrong : \A t \in Wrong : Len(s) <= Len(t)
    <2> HIDE DEF Ok
    <2> QED
      BY Shortest
  <1>2. s \in Seq(Bytes) /\ ~Ok(s)
    BY <1>1
  <1>3. \A t \in Seq(Bytes) : ~(Len(s) <= Len(t)) => Ok(t)
    <2> HIDE DEF Ok
    <2> QED
      BY <1>1
  <1>4. PICK r \in Seq(Bytes), ps \in Seq(Packet) :
            Short(ps) /\ Frames[ps] = s \o r /\ ~Decodes(s, r, ps)
    BY <1>2
  <1> HIDE DEF Wrong, Ok
  \* Nothing is decoded yet.
  <1>5. Feed[s] # [packets |-> <<>>, buf |-> s, corrupt |-> FALSE]
    <2> SUFFICES ASSUME Feed[s] = [packets |-> <<>>, buf |-> s, corrupt |-> FALSE]
                 PROVE  Decodes(s, r, ps)
      BY <1>4
    <2>1. Feed[s].packets = <<>> /\ Feed[s].buf = s /\ Feed[s].corrupt = FALSE
      OBVIOUS
    <2>2. ps = <<>> \o ps
      BY ConcatEmptySeq
    <2> QED
      BY <1>4, <2>1, <2>2 DEF Decodes
  <1>6. Len(s) >= 2
    BY <1>2, <1>5, FeedUnfolds DEF Stuck, FeedStuck
  <1> DEFINE p == Head(ps)
             others == Tail(ps)
  <1>7. /\ ps # <<>> /\ p \in Packet /\ others \in Seq(Packet)
        /\ s[1] = Len(p) \div Base /\ s[2] = Len(p) % Base /\ Length(s) = Len(p)
        /\ s \o r = (<<s[1], s[2]>> \o p) \o Frames[others]
    BY <1>2, <1>4, <1>6, FirstFrame
  <1>8. ps = <<p>> \o others
    BY <1>7, TailShortens
  <1>9. Length(s) <= MaxFrame
    BY <1>4, <1>7 DEF Short
  <1> HIDE DEF p, others
  <1>10. s \in Seq(Bytes) \ Stuck
    BY <1>2, <1>5, <1>6, <1>7, <1>9, FeedUnfolds, FramingAssumption DEF Stuck, FeedStuck, Packet
  <1>11. First(s) = p /\ Behind(s) \o r = Frames[others]
    <2> DEFINE h == <<s[1], s[2]>>
               f == First(s)
               b == Behind(s)
               t == Frames[others]
    <2>1. /\ s[1] \in Nat /\ s[2] \in Nat /\ First(s) \in Seq(Nat) /\ p \in Seq(Nat)
          /\ Behind(s) \in Seq(Nat) /\ r \in Seq(Nat) /\ Frames[others] \in Seq(Nat)
          /\ Len(First(s)) = Len(p)
      <3>1. /\ s[1] \in Bytes /\ s[2] \in Bytes /\ First(s) \in Seq(Bytes)
            /\ Behind(s) \in Seq(Bytes) /\ Len(First(s)) = Length(s)
        BY <1>10, FeedPieces DEF Packet
      <3>2. Bytes \subseteq Nat
        BY FramingAssumption DEF Bytes
      <3>3. \A x \in Seq(Bytes) : x \in Seq(Nat)
        BY <3>2, SeqMonotonic
      <3>4. Frames[others] \in Seq(Nat)
        BY <1>7, FramesUnfolds
      <3> QED
        BY <1>4, <1>7, <3>1, <3>2, <3>3, <3>4 DEF Packet
    <2>2. /\ h \in Seq(Nat) /\ f \in Seq(Nat) /\ b \in Seq(Nat) /\ r \in Seq(Nat)
          /\ p \in Seq(Nat) /\ t \in Seq(Nat) /\ Len(f) = Len(p)
      BY <2>1
    <2>3. s = (h \o f) \o b
      BY <1>10, FeedPieces
    <2>4. ((h \o f) \o b) \o r = (h \o p) \o t
      BY <1>7, <2>3
    <2> HIDE DEF h, f, b, t
    <2>5. Aligned(h, f, b, r, p, t)
      BY <2>2, <2>4 DEF Aligned
    <2>6. f = p /\ b \o r = t
      BY <2>2, <2>5, PartsAlign
    <2> QED
      BY <2>6 DEF f, b, t
  <1>12. Decodes(Behind(s), r, others)
    <2>1. /\ Behind(s) \in Seq(Bytes) /\ Len(s) \in Nat /\ Length(s) \in Nat
          /\ Len(Behind(s)) = Len(s) - (2 + Length(s))
      BY <1>10, FeedPieces
    <2>2. Ok(Behind(s))
      BY <1>3, <2>1
    <2>3. Short(others)
      <3> SUFFICES ASSUME NEW i \in 1 .. Len(others) PROVE Len(others[i]) <= MaxFrame
        BY DEF Short
      <3>1. others[i] = ps[i + 1] /\ i + 1 \in 1 .. Len(ps)
        BY <1>7 DEF others
      <3> QED
        BY <1>4, <3>1 DEF Short
    <2> QED
      BY <1>4, <1>7, <1>11, <2>2, <2>3 DEF Ok
  <1>13. PICK tl \in Seq(Packet) :
            others = Feed[Behind(s)].packets \o tl /\ Feed[Behind(s)].buf \o r = Frames[tl]
    BY <1>12 DEF Decodes
  <1>14. /\ Feed[s].corrupt = FALSE /\ Feed[s].buf = Feed[Behind(s)].buf
         /\ Feed[s].packets = <<p>> \o Feed[Behind(s)].packets
         /\ Feed[Behind(s)].packets \in Seq(Packet)
    <2>1. Behind(s) \in Seq(Bytes)
      BY <1>10, FeedPieces
    <2>2. Feed[Behind(s)] \in Fed
      BY <2>1, FeedUnfolds
    <2>3. Feed[s] = FeedMore(s, Feed[Behind(s)])
      BY <1>10, FeedUnfolds
    <2>4. Feed[Behind(s)].corrupt = FALSE
      BY <1>12, <2>2 DEF Decodes, Fed
    <2> QED
      BY <1>11, <2>2, <2>3, <2>4 DEF FeedMore, Fed
  <1>15. ps = Feed[s].packets \o tl
    <2> DEFINE x == <<p>>
               y == Feed[Behind(s)].packets
    <2>1. x \in Seq(Packet) /\ y \in Seq(Packet)
      BY <1>7, <1>14
    <2>2. ps = x \o (y \o tl)
      BY <1>8, <1>13
    <2>3. Feed[s].packets = x \o y
      BY <1>14
    <2> HIDE DEF x, y
    <2>4. x \o (y \o tl) = (x \o y) \o tl
      BY <2>1, ConcatAssociative
    <2> QED
      BY <2>2, <2>3, <2>4
  <1>16. Decodes(s, r, ps)
    BY <1>13, <1>14, <1>15 DEF Decodes
  <1> QED
    BY <1>4, <1>16

-----------------------------------------------------------------------------
(* Type correctness.  The link a task names is one that was made, because  *)
(* only a phone that has a link can have written something.                *)

LinksFit ==
    \A ph \in Phones : /\ link[ph] = "down" => wire[ph] = <<>> /\ due[ph] = <<>>
                       /\ link[ph] # "down" => on[ph] # 0

LEMMA MessagesArePackets == Messages \subseteq Packet
  BY MessagesAssumption DEF Packet

\* What one read gets out of the stream of phone ph.
LEMMA ReadTypes ==
    ASSUME TypeOK, NEW ph \in Phones, NEW n \in 1 .. Len(wire[ph])
    PROVE  /\ buf[ph] \o SubSeq(wire[ph], 1, n) \in Seq(Bytes)
           /\ SubSeq(wire[ph], n + 1, Len(wire[ph])) \in Seq(Bytes)
           /\ Feed[buf[ph] \o SubSeq(wire[ph], 1, n)] \in Fed
           /\ RequestsIn[Feed[buf[ph] \o SubSeq(wire[ph], 1, n)].packets] \in Seq(Requests)
  <1> DEFINE w == wire[ph]
             b == buf[ph]
  <1>1. w \in Seq(Bytes) /\ b \in Seq(Bytes) /\ n \in 1 .. Len(w)
    BY DEF TypeOK
  <1> HIDE DEF w, b
  <1>2. SubSeq(w, 1, n) \in Seq(Bytes) /\ SubSeq(w, n + 1, Len(w)) \in Seq(Bytes)
    BY <1>1
  <1> DEFINE s == b \o SubSeq(w, 1, n)
  <1>3. s \in Seq(Bytes)
    BY <1>1, <1>2
  <1> HIDE DEF s
  <1>4. Feed[s] \in Fed
    BY <1>3, FeedUnfolds
  <1>5. RequestsIn[Feed[s].packets] \in Seq(Requests)
    BY <1>4, RequestsInType DEF Fed
  <1> QED
    BY <1>2, <1>3, <1>4, <1>5 DEF s, w, b

LEMMA InitTypes == Init => TypeOK /\ LinksFit
  <1> SUFFICES ASSUME Init PROVE TypeOK /\ LinksFit
    OBVIOUS
  <1>1. /\ wire \in [Phones -> Seq(Bytes)] /\ buf \in [Phones -> Seq(Bytes)]
        /\ due \in [Phones -> Seq(Messages)] /\ queue \in Seq(Task)
    BY DEF Init
  <1>2. /\ on \in [Phones -> 0 .. MaxLinks] /\ links \in 0 .. MaxLinks /\ sent \in 0 .. MaxSent
    BY BoundsAssumption DEF Init
  <1>3. /\ link \in [Phones -> {"down", "mute", "up"}] /\ job \in [Workers -> Job \cup {Idle}]
        /\ stopped \in {"no", "proxy", "transport"} /\ owed \in [Phones -> SUBSET Requests]
        /\ astray \subseteq Phones /\ missed \subseteq Phones
    BY DEF Init
  <1>4. LinksFit
    BY DEF Init, LinksFit
  <1> QED
    BY <1>1, <1>2, <1>3, <1>4 DEF TypeOK

\* A link that ends leaves nothing behind.
LEMMA EndLinksTypes ==
    ASSUME TypeOK, LinksFit, NEW S \in SUBSET Phones, EndLinks(S)
    PROVE  /\ link' \in [Phones -> {"down", "mute", "up"}]
           /\ wire' \in [Phones -> Seq(Bytes)] /\ due' \in [Phones -> Seq(Messages)]
           /\ owed' \in [Phones -> SUBSET Requests] /\ missed' \subseteq Phones
           /\ on' = on /\ links' = links /\ sent' = sent
           /\ LinksFit'
  <1>1. link' \in [Phones -> {"down", "mute", "up"}]
    BY DEF EndLinks, TypeOK
  <1>2. wire' \in [Phones -> Seq(Bytes)] /\ due' \in [Phones -> Seq(Messages)]
    BY DEF EndLinks, TypeOK
  <1>3. owed' \in [Phones -> SUBSET Requests] /\ missed' \subseteq Phones
    BY DEF EndLinks, TypeOK
  <1>4. on' = on /\ links' = links /\ sent' = sent
    BY DEF EndLinks
  <1>5. LinksFit'
    BY <1>4 DEF EndLinks, LinksFit
  <1> QED
    BY <1>1, <1>2, <1>3, <1>4, <1>5

LEMMA NextTypes == TypeOK /\ LinksFit /\ [Next]_vars => TypeOK' /\ LinksFit'
  <1> SUFFICES ASSUME TypeOK, LinksFit, [Next]_vars PROVE TypeOK' /\ LinksFit'
    OBVIOUS
  <1>1. ASSUME NEW ph \in Phones, Connect(ph) PROVE TypeOK' /\ LinksFit'
    <2>1. /\ links' \in 0 .. MaxLinks /\ links' # 0 /\ on' \in [Phones -> 0 .. MaxLinks]
          /\ on' = [on EXCEPT ![ph] = links']
      BY <1>1, BoundsAssumption DEF Connect, TypeOK
    <2>2. link' \in [Phones -> {"down", "mute", "up"}]
      BY <1>1 DEF Connect, TypeOK
    <2>3. buf' \in [Phones -> Seq(Bytes)]
      BY <1>1 DEF Connect, TypeOK
    <2>4. /\ UNCHANGED <<sent, wire, due, astray, queue, job, stopped, owed, missed>>
      BY <1>1 DEF Connect, poolVars, replyVars
    <2>5. TypeOK'
      BY <2>1, <2>2, <2>3, <2>4 DEF TypeOK
    <2>6. LinksFit'
      BY <1>1, <2>1, <2>4 DEF Connect, LinksFit, TypeOK
    <2> QED
      BY <2>5, <2>6
  <1>2. ASSUME NEW ph \in Phones, Subscribe(ph) PROVE TypeOK' /\ LinksFit'
    <2>1. /\ UNCHANGED <<on, links, sent, wire, buf, due, astray, queue, job, stopped, owed, missed>>
      BY <1>2 DEF Subscribe, streamVars, poolVars, replyVars
    <2>2. link' \in [Phones -> {"down", "mute", "up"}]
      BY <1>2 DEF Subscribe, TypeOK
    <2>3. TypeOK'
      BY <2>1, <2>2 DEF TypeOK
    <2>4. LinksFit'
      BY <1>2, <2>1 DEF Subscribe, LinksFit, TypeOK
    <2> QED
      BY <2>3, <2>4
  <1>3. ASSUME NEW ph \in Phones, LoseLink(ph) PROVE TypeOK' /\ LinksFit'
    <2>1. EndLinks({ph})
      BY <1>3 DEF LoseLink
    <2>2. buf' \in [Phones -> Seq(Bytes)] /\ astray' \subseteq Phones
      <3>1. CASE buf' = [buf EXCEPT ![ph] = <<>>] /\ astray' = astray \ {ph}
        BY <3>1 DEF TypeOK
      <3>2. CASE /\ UNCHANGED buf
                 /\ astray' = IF buf[ph] # <<>> THEN astray \cup {ph} ELSE astray \ {ph}
        BY <3>2 DEF TypeOK
      <3> QED
        BY <1>3, <3>1, <3>2 DEF LoseLink
    <2>3. UNCHANGED <<queue, job, stopped>>
      BY <1>3 DEF LoseLink, poolVars
    <2> QED
      BY <2>1, <2>2, <2>3, EndLinksTypes DEF TypeOK
  <1>4. ASSUME NEW ph \in Phones, NEW n \in 1 .. Len(wire[ph]), Read(ph, n)
        PROVE  TypeOK' /\ LinksFit'
    <2> DEFINE fed == Feed[buf[ph] \o SubSeq(wire[ph], 1, n)]
               reqs == RequestsIn[fed.packets]
    <2>1. fed \in Fed /\ reqs \in Seq(Requests)
      BY ReadTypes
    <2>2. wire' \in [Phones -> Seq(Bytes)]
      <3>1. SubSeq(wire[ph], n + 1, Len(wire[ph])) \in Seq(Bytes)
        BY ReadTypes
      <3> QED
        BY <1>4, <3>1 DEF Read, TypeOK
    <2>3. buf' \in [Phones -> Seq(Bytes)]
      <3>1. fed.buf \in Seq(Bytes) /\ buf' = [buf EXCEPT ![ph] = fed.buf]
        BY <1>4, <2>1 DEF Read, Fed
      <3> HIDE DEF fed
      <3> QED
        BY <3>1 DEF TypeOK
    <2>4. due' \in [Phones -> Seq(Messages)]
      <3> DEFINE d == due[ph]
                 k == Len(fed.packets)
                 e == IF IsPrefix(fed.packets, d) THEN SubSeq(d, k + 1, Len(d)) ELSE d
      <3>1. d \in Seq(Messages) /\ k \in Nat
        BY <2>1 DEF TypeOK, Fed
      <3>2. due' = [due EXCEPT ![ph] = e]
        BY <1>4 DEF Read
      <3> HIDE DEF fed, d, k
      <3>3. e \in Seq(Messages)
        BY <3>1
      <3> HIDE DEF e
      <3> QED
        BY <3>2, <3>3 DEF TypeOK
    <2> HIDE DEF fed, reqs
    <2>5. on[ph] \in 1 .. MaxLinks
      <3>1. wire[ph] # <<>>
        BY DEF TypeOK
      <3> QED
        BY <3>1, BoundsAssumption DEF LinksFit, TypeOK
    <2>6. queue' \in Seq(Task) /\ owed' \in [Phones -> SUBSET Requests]
      <3>1. Submit(ph, reqs)
        BY <1>4 DEF Read, reqs, fed
      <3>2. Tasks(ph, reqs) \in Seq(Task)
        <4>1. \A i \in DOMAIN reqs : [peer |-> ph, on |-> on[ph], req |-> reqs[i]] \in Task
          BY <2>1, <2>5 DEF Task
        <4>2. Len(reqs) \in Nat /\ DOMAIN reqs = 1 .. Len(reqs)
          BY <2>1
        <4> QED
          BY <4>1, <4>2 DEF Tasks
      <3>3. ToSet(reqs) \subseteq Requests
        BY <2>1 DEF ToSet
      <3>4. queue \o Tasks(ph, reqs) \in Seq(Task)
        BY <3>2 DEF TypeOK
      <3>5. CASE stopped = "no"
        BY <3>1, <3>3, <3>4, <3>5 DEF Submit, TypeOK
      <3>6. CASE stopped # "no"
        BY <3>1, <3>6 DEF Submit, TypeOK
      <3> QED
        BY <3>5, <3>6
    <2>7. UNCHANGED <<sent, astray, job, stopped, missed, link, on, links>>
      BY <1>4 DEF Read, linkVars
    <2>8. TypeOK'
      BY <2>2, <2>3, <2>4, <2>6, <2>7 DEF TypeOK
    <2>9. LinksFit'
      <3>1. link[ph] # "down"
        BY DEF LinksFit, TypeOK
      <3>2. \A k \in Phones \ {ph} : wire'[k] = wire[k] /\ due'[k] = due[k]
        BY <1>4 DEF Read, TypeOK
      <3> QED
        BY <2>7, <3>1, <3>2 DEF LinksFit
    <2> QED
      BY <2>8, <2>9
  <1>5. ASSUME NEW ph \in Phones, NEW n \in 1 .. Len(wire[ph]), ReadCorrupt(ph, n)
        PROVE  TypeOK' /\ LinksFit'
    <2>1. EndLinks({ph})
      BY <1>5 DEF ReadCorrupt
    <2>2. buf' \in [Phones -> Seq(Bytes)] /\ astray' \subseteq Phones
      BY <1>5 DEF ReadCorrupt, TypeOK
    <2>3. UNCHANGED <<queue, job, stopped>>
      BY <1>5 DEF ReadCorrupt, poolVars
    <2> QED
      BY <2>1, <2>2, <2>3, EndLinksTypes DEF TypeOK
  <1>6. ASSUME NEW ph \in Phones, NEW m \in Messages, PhoneWrites(ph, m)
        PROVE  TypeOK' /\ LinksFit'
    <2>1. Frame(m) \in Seq(Bytes)
      BY MessagesArePackets, MessagesAssumption, FrameIsBytes
    <2>2. wire' \in [Phones -> Seq(Bytes)]
      <3> DEFINE f == Frame(m)
                 w == wire[ph] \o f
      <3>1. wire' = [wire EXCEPT ![ph] = w]
        BY <1>6 DEF PhoneWrites
      <3>2. w \in Seq(Bytes)
        <4>1. f \in Seq(Bytes)
          BY <2>1
        <4> HIDE DEF f
        <4> QED
          BY <4>1 DEF TypeOK
      <3> HIDE DEF w
      <3> QED
        BY <3>1, <3>2 DEF TypeOK
    <2>3. due' \in [Phones -> Seq(Messages)]
      <3>1. Append(due[ph], m) \in Seq(Messages)
        BY DEF TypeOK
      <3> QED
        BY <1>6, <3>1 DEF PhoneWrites, TypeOK
    <2>4. sent' \in 0 .. MaxSent
      BY <1>6, BoundsAssumption DEF PhoneWrites, TypeOK
    <2>5. astray' \subseteq Phones
      BY <1>6 DEF PhoneWrites, TypeOK
    <2>6. UNCHANGED <<buf, link, on, links, queue, job, stopped, owed, missed>>
      BY <1>6 DEF PhoneWrites, linkVars, poolVars, replyVars
    <2>7. TypeOK'
      BY <2>2, <2>3, <2>4, <2>5, <2>6 DEF TypeOK
    <2>8. LinksFit'
      <3>1. link[ph] # "down" /\ \A k \in Phones \ {ph} : wire'[k] = wire[k] /\ due'[k] = due[k]
        BY <1>6 DEF PhoneWrites, TypeOK
      <3> QED
        BY <2>6, <3>1 DEF LinksFit
    <2> QED
      BY <2>7, <2>8
  <1>7. ASSUME UNCHANGED <<link, on, links, sent, wire, buf, due, astray>>,
               queue' \in Seq(Task), job' \in [Workers -> Job \cup {Idle}],
               stopped' \in {"no", "proxy", "transport"},
               owed' \in [Phones -> SUBSET Requests], missed' \subseteq Phones
        PROVE  TypeOK' /\ LinksFit'
    BY <1>7 DEF TypeOK, LinksFit
  <1>8. ASSUME NEW w \in Workers, Take(w) PROVE TypeOK' /\ LinksFit'
    <2>1. Head(queue) \in Task /\ Tail(queue) \in Seq(Task)
      BY <1>8 DEF Take, TypeOK
    <2>2. job' \in [Workers -> Job \cup {Idle}]
      BY <1>8, <2>1 DEF Take, TypeOK, Job
    <2> QED
      BY <1>7, <1>8, <2>1, <2>2 DEF Take, TypeOK, linkVars, streamVars, replyVars
  <1>9. ASSUME NEW w \in Workers, NEW body \in Bodies, Answer(w, body)
        PROVE  TypeOK' /\ LinksFit'
    <2>1. job[w] \in Job /\ (IF body > MaxResponse THEN Note ELSE body) \in {NoReply, Note} \cup Bodies
      BY <1>9 DEF Answer, Calling, TypeOK
    <2>2. job' \in [Workers -> Job \cup {Idle}]
      BY <1>9, <2>1 DEF Answer, TypeOK, Job
    <2> QED
      BY <1>7, <1>9, <2>2 DEF Answer, TypeOK, linkVars, streamVars, replyVars
  <1>10. ASSUME NEW w \in Workers, CallFails(w) PROVE TypeOK' /\ LinksFit'
    <2>1. job[w] \in Job
      BY <1>10 DEF CallFails, Calling, TypeOK
    <2>2. job' \in [Workers -> Job \cup {Idle}]
      BY <1>10, <2>1 DEF CallFails, TypeOK, Job
    <2> QED
      BY <1>7, <1>10, <2>2 DEF CallFails, TypeOK, linkVars, streamVars, replyVars
  <1>11. ASSUME NEW w \in Workers, job[w] # Idle
         PROVE  /\ Miss(w) => owed' \in [Phones -> SUBSET Requests] /\ missed' \subseteq Phones
                /\ Reply(w) => owed' \in [Phones -> SUBSET Requests] /\ missed' \subseteq Phones
    <2>1. job[w].task.peer \in Phones
      BY <1>11 DEF TypeOK, Job, Task
    <2>2. ASSUME Miss(w) PROVE owed' \in [Phones -> SUBSET Requests] /\ missed' \subseteq Phones
      BY <2>1, <2>2 DEF Miss, TypeOK
    <2>3. ASSUME Reply(w), ~Miss(w)
          PROVE  owed' \in [Phones -> SUBSET Requests] /\ missed' \subseteq Phones
      <3> DEFINE ph == job[w].task.peer
                 rest == owed[ph] \ {job[w].task.req}
      <3>1. owed' = [owed EXCEPT ![ph] = rest] /\ missed' = missed
        BY <2>3 DEF Reply
      <3>2. ph \in Phones /\ rest \subseteq Requests
        BY <2>1 DEF TypeOK
      <3> HIDE DEF ph, rest
      <3> QED
        BY <3>1, <3>2 DEF TypeOK
    <2> QED
      BY <2>2, <2>3
  <1>12. ASSUME NEW w \in Workers, RejectionCutOff(w) PROVE TypeOK' /\ LinksFit'
    <2>1. job' \in [Workers -> Job \cup {Idle}] /\ job[w] # Idle
      BY <1>12 DEF RejectionCutOff, Calling, TypeOK
    <2>2. owed' \in [Phones -> SUBSET Requests] /\ missed' \subseteq Phones
      BY <1>11, <1>12, <2>1 DEF RejectionCutOff
    <2> QED
      BY <1>7, <1>12, <2>1, <2>2 DEF RejectionCutOff, TypeOK, linkVars, streamVars
  <1>13. ASSUME NEW w \in Workers, Send(w) PROVE TypeOK' /\ LinksFit'
    <2>1. job' \in [Workers -> Job \cup {Idle}] /\ job[w] # Idle
      BY <1>13 DEF Send, TypeOK
    <2>2. owed' \in [Phones -> SUBSET Requests] /\ missed' \subseteq Phones
      BY <1>11, <1>13, <2>1 DEF Send
    <2> QED
      BY <1>7, <1>13, <2>1, <2>2 DEF Send, TypeOK, linkVars, streamVars
  <1>14. ASSUME StopProxy PROVE TypeOK' /\ LinksFit'
    <2>1. queue' \in Seq(Task) /\ stopped' \in {"no", "proxy", "transport"}
      BY <1>14 DEF StopProxy
    <2> QED
      BY <1>7, <1>14, <2>1 DEF StopProxy, TypeOK, linkVars, streamVars, replyVars
  <1>15. ASSUME StopTransport PROVE TypeOK' /\ LinksFit'
    <2>1. EndLinks(Phones) /\ UNCHANGED <<queue, job>> /\ stopped' = "transport"
      BY <1>15 DEF StopTransport
    <2>2. buf' \in [Phones -> Seq(Bytes)] /\ astray' \subseteq Phones
      BY <1>15 DEF StopTransport
    <2> QED
      BY <2>1, <2>2, EndLinksTypes DEF TypeOK
  <1>16. ASSUME UNCHANGED vars PROVE TypeOK' /\ LinksFit'
    BY <1>7, <1>16 DEF TypeOK, vars, linkVars, streamVars, poolVars, replyVars
  <1> QED
    BY <1>1, <1>2, <1>3, <1>4, <1>5, <1>6, <1>8, <1>9, <1>10, <1>12, <1>13, <1>14, <1>15, <1>16
       DEF Next, ReadSome, Stopped

\* Type correctness: the streams stay streams of bytes whatever is written, and
\* no task names a link that never was (BackendProxyService, framing.py).
THEOREM TypeCorrect == Spec => []TypeOK
  <1>1. Init => TypeOK /\ LinksFit
    BY InitTypes
  <1>2. TypeOK /\ LinksFit /\ [Next]_vars => (TypeOK /\ LinksFit)'
    BY NextTypes
  <1> QED
    BY <1>1, <1>2, PTL DEF Spec

-----------------------------------------------------------------------------
(* The streams.  Beside the bytes, the invariant has to say that a packet  *)
(* which is still under way is one the assembler accepts.                  *)

DueAreShort == \A ph \in Phones \ astray : Short(due[ph])

StreamInv == TypeOK /\ LinksFit /\ DueAreShort /\ StreamIsWhole

\* The bytes b and w are the frames of the packets d, all of which fit.
InStep(b, w, d) == Short(d) /\ b \o w = Frames[d]

LEMMA InStepEach ==
    DueAreShort /\ StreamIsWhole <=> \A ph \in Phones \ astray : InStep(buf[ph], wire[ph], due[ph])
  BY DEF DueAreShort, StreamIsWhole, InStep

LEMMA EmptyInStep == Frames[<<>>] = <<>> /\ InStep(<<>>, <<>>, <<>>)
  <1>1. Frames[<<>>] = <<>>
    <2>1. <<>> \in Seq(Packet)
      OBVIOUS
    <2> QED
      BY <2>1, FramesUnfolds
  <1>2. Short(<<>>)
    BY DEF Short
  <1>3. <<>> \o <<>> = <<>>
    OBVIOUS
  <1> QED
    BY <1>1, <1>2, <1>3 DEF InStep

\* A phone that writes a packet which fits a frame.
LEMMA WritingKeepsStep ==
    ASSUME NEW b \in Seq(Nat), NEW w \in Seq(Nat), NEW d \in Seq(Packet), NEW m \in Packet,
           InStep(b, w, d), Len(m) <= MaxFrame
    PROVE  InStep(b, w \o Frame(m), Append(d, m))
  <1>1. Short(Append(d, m))
    BY DEF InStep, Short
  <1>2. Frames[Append(d, m)] = Frames[d] \o Frame(m)
    BY FramesAppend
  <1> DEFINE f == Frame(m)
  <1>3. f \in Seq(Nat)
    BY FrameType
  <1> HIDE DEF f
  <1>4. (b \o w) \o f = b \o (w \o f)
    BY <1>3, NatConcatAssociative
  <1> QED
    BY <1>1, <1>2, <1>4 DEF f, InStep

\* The assembler reads n bytes of a stream that is in step.
LEMMA ReadingKeepsStep ==
    ASSUME NEW b \in Seq(Bytes), NEW w \in Seq(Bytes), NEW d \in Seq(Packet),
           NEW n \in 1 .. Len(w), InStep(b, w, d)
    PROVE  LET fed == Feed[b \o SubSeq(w, 1, n)]
               others == SubSeq(d, Len(fed.packets) + 1, Len(d))
           IN  /\ ~fed.corrupt /\ IsPrefix(fed.packets, d)
               /\ InStep(fed.buf, SubSeq(w, n + 1, Len(w)), others)
  <1> DEFINE s == b \o SubSeq(w, 1, n)
             r == SubSeq(w, n + 1, Len(w))
             fed == Feed[s]
  <1>1. /\ SubSeq(w, 1, n) \in Seq(Bytes) /\ r \in Seq(Bytes)
        /\ SubSeq(w, 1, n) \o r = w
    OBVIOUS
  <1>2. s \in Seq(Bytes)
    BY <1>1
  <1>3. s \o r = b \o w
    <2> DEFINE a == SubSeq(w, 1, n)
    <2>1. \A x \in Seq(Bytes) : x \in Seq(Nat)
      BY FramingAssumption DEF Bytes
    <2> HIDE DEF r
    <2>2. a \in Seq(Nat) /\ r \in Seq(Nat) /\ b \in Seq(Nat) /\ a \o r = w
      BY <1>1, <2>1
    <2> HIDE DEF a
    <2>3. (b \o a) \o r = b \o (a \o r)
      BY <2>2, NatConcatAssociative
    <2> QED
      BY <2>2, <2>3 DEF a
  <1> HIDE DEF s, r
  <1>4. Frames[d] = s \o r
    BY <1>3 DEF InStep
  <1>5. Decodes(s, r, d)
    BY <1>1, <1>2, <1>4, FeedReadsFrames DEF InStep
  <1>6. fed \in Fed
    BY <1>2, FeedUnfolds
  <1>7. PICK others \in Seq(Packet) : d = fed.packets \o others /\ fed.buf \o r = Frames[others]
    BY <1>5 DEF Decodes
  <1>8. ~fed.corrupt
    BY <1>5 DEF Decodes
  <1> DEFINE ps == fed.packets
  <1>9. ps \in Seq(Packet)
    BY <1>6 DEF Fed
  <1>10. d = ps \o others
    BY <1>7
  <1> HIDE DEF ps, fed
  <1>11. others = SubSeq(d, Len(ps) + 1, Len(d)) /\ IsPrefix(ps, d)
    <2>1. Len(d) = Len(ps) + Len(others) /\ Len(ps) \in Nat /\ Len(others) \in Nat
      BY <1>9, <1>10
    <2>2. others = SubSeq(d, Len(ps) + 1, Len(d))
      BY <1>9, <1>10, <2>1
    <2>3. SubSeq(d, 1, Len(ps)) = ps
      BY <1>9, <1>10, <2>1
    <2> QED
      BY <1>9, <2>1, <2>2, <2>3 DEF IsPrefix
  <1>12. Short(others)
    BY <1>9, <1>10 DEF InStep, Short
  <1> QED
    BY <1>7, <1>8, <1>11, <1>12 DEF ps, fed, s, r, InStep

\* Where a link ends, or there is none, nothing is under way.
LEMMA NextInStep ==
    ASSUME StreamInv, [Next]_vars, NEW k \in Phones, k \notin astray'
    PROVE  InStep(buf'[k], wire'[k], due'[k])
  <1>0. TypeOK /\ LinksFit
    BY DEF StreamInv
  <1>1. k \notin astray => InStep(buf[k], wire[k], due[k])
    BY InStepEach DEF StreamInv
  <1>2. buf[k] \in Seq(Bytes) /\ wire[k] \in Seq(Bytes) /\ due[k] \in Seq(Packet)
    BY <1>0, MessagesArePackets DEF TypeOK
  <1>3. ASSUME k \notin astray, buf'[k] = buf[k], wire'[k] = wire[k], due'[k] = due[k]
        PROVE  InStep(buf'[k], wire'[k], due'[k])
    BY <1>1, <1>3
  <1>4. ASSUME buf'[k] = <<>>, wire'[k] = <<>>, due'[k] = <<>>
        PROVE  InStep(buf'[k], wire'[k], due'[k])
    BY <1>4, EmptyInStep
  <1>5. ASSUME NEW ph \in Phones, Connect(ph) PROVE InStep(buf'[k], wire'[k], due'[k])
    <2>1. UNCHANGED <<wire, due, astray>>
      BY <1>5 DEF Connect
    <2>2. CASE k = ph
      <3>1. wire[k] = <<>> /\ due[k] = <<>>
        BY <1>0, <1>5, <2>2 DEF Connect, LinksFit
      <3>2. buf[k] \o <<>> = <<>>
        BY <1>1, <2>1, <3>1, EmptyInStep DEF InStep
      <3>3. buf[k] = <<>>
        BY <1>2, <3>2
      <3>4. buf'[k] = <<>>
        BY <1>0, <1>5, <2>2, <3>3 DEF Connect, TypeOK
      <3> QED
        BY <1>4, <2>1, <3>1, <3>4
    <2>3. CASE k # ph
      <3>1. buf'[k] = buf[k]
        BY <1>0, <1>5, <2>3 DEF Connect, TypeOK
      <3> QED
        BY <1>3, <2>1, <3>1
    <2> QED
      BY <2>2, <2>3
  <1>6. ASSUME NEW ph \in Phones, LoseLink(ph) PROVE InStep(buf'[k], wire'[k], due'[k])
    <2>1. CASE k = ph
      <3>1. wire'[k] = <<>> /\ due'[k] = <<>>
        BY <1>6, <2>1 DEF LoseLink, EndLinks
      <3>2. buf'[k] = <<>>
        BY <1>0, <1>6, <2>1 DEF LoseLink, TypeOK
      <3> QED
        BY <1>4, <3>1, <3>2
    <2>2. CASE k # ph
      <3>1. wire'[k] = wire[k] /\ due'[k] = due[k]
        BY <1>6, <2>2 DEF LoseLink, EndLinks
      <3>2. buf'[k] = buf[k] /\ k \notin astray
        BY <1>0, <1>6, <2>2 DEF LoseLink, TypeOK
      <3> QED
        BY <1>3, <3>1, <3>2
    <2> QED
      BY <2>1, <2>2
  <1>7. ASSUME NEW ph \in Phones, NEW m \in Messages, PhoneWrites(ph, m)
        PROVE  InStep(buf'[k], wire'[k], due'[k])
    <2>1. k \notin astray /\ buf'[k] = buf[k]
      BY <1>7 DEF PhoneWrites
    <2>2. CASE k = ph
      <3>1. m \in Packet /\ Len(m) <= MaxFrame
        <4>1. m \in Packet /\ Len(m) \in Nat
          BY MessagesArePackets DEF Packet
        <4>2. ~(Len(m) > MaxFrame)
          BY <1>7, <2>2 DEF PhoneWrites
        <4> QED
          BY <4>1, <4>2, FramingAssumption
      <3>2. wire'[k] = wire[k] \o Frame(m) /\ due'[k] = Append(due[k], m)
        BY <1>0, <1>7, <2>2 DEF PhoneWrites, TypeOK
      <3>3. buf[k] \in Seq(Nat) /\ wire[k] \in Seq(Nat)
        <4>1. \A x \in Seq(Bytes) : x \in Seq(Nat)
          BY FramingAssumption DEF Bytes
        <4> QED
          BY <1>2, <4>1
      <3>4. InStep(buf[k], wire[k] \o Frame(m), Append(due[k], m))
        BY <1>1, <1>2, <2>1, <3>1, <3>3, WritingKeepsStep
      <3> QED
        BY <2>1, <3>2, <3>4
    <2>3. CASE k # ph
      <3>1. wire'[k] = wire[k] /\ due'[k] = due[k]
        BY <1>0, <1>7, <2>3 DEF PhoneWrites, TypeOK
      <3> QED
        BY <1>3, <2>1, <3>1
    <2> QED
      BY <2>2, <2>3
  <1>8. ASSUME NEW ph \in Phones, NEW n \in 1 .. Len(wire[ph]), Read(ph, n)
        PROVE  InStep(buf'[k], wire'[k], due'[k])
    <2>1. k \notin astray
      BY <1>8 DEF Read
    <2>2. CASE k = ph
      <3> DEFINE fed == Feed[buf[k] \o SubSeq(wire[k], 1, n)]
                 others == SubSeq(due[k], Len(fed.packets) + 1, Len(due[k]))
      <3>1. IsPrefix(fed.packets, due[k]) /\ InStep(fed.buf, SubSeq(wire[k], n + 1, Len(wire[k])), others)
        BY <1>1, <1>2, <2>1, <2>2, ReadingKeepsStep
      <3>2. buf'[k] = fed.buf /\ wire'[k] = SubSeq(wire[k], n + 1, Len(wire[k]))
        BY <1>0, <1>8, <2>2 DEF Read, TypeOK
      <3>3. due'[k] = others
        BY <1>0, <1>8, <2>2, <3>1 DEF Read, TypeOK
      <3> QED
        BY <3>1, <3>2, <3>3
    <2>3. CASE k # ph
      <3>1. buf'[k] = buf[k] /\ wire'[k] = wire[k] /\ due'[k] = due[k]
        BY <1>0, <1>8, <2>3 DEF Read, TypeOK
      <3> QED
        BY <1>3, <2>1, <3>1
    <2> QED
      BY <2>2, <2>3
  <1>9. ASSUME NEW ph \in Phones, NEW n \in 1 .. Len(wire[ph]), ReadCorrupt(ph, n)
        PROVE  InStep(buf'[k], wire'[k], due'[k])
    <2>1. CASE k = ph
      <3>1. buf'[k] = <<>> /\ wire'[k] = <<>> /\ due'[k] = <<>>
        BY <1>0, <1>9, <2>1 DEF ReadCorrupt, EndLinks, TypeOK
      <3> QED
        BY <1>4, <3>1
    <2>2. CASE k # ph
      <3>1. /\ buf'[k] = buf[k] /\ wire'[k] = wire[k] /\ due'[k] = due[k]
            /\ k \notin astray
        BY <1>0, <1>9, <2>2 DEF ReadCorrupt, EndLinks, TypeOK
      <3> QED
        BY <1>3, <3>1
    <2> QED
      BY <2>1, <2>2
  <1>10. ASSUME StopTransport PROVE InStep(buf'[k], wire'[k], due'[k])
    <2>1. buf'[k] = <<>> /\ wire'[k] = <<>> /\ due'[k] = <<>>
      BY <1>10 DEF StopTransport, EndLinks
    <2> QED
      BY <1>4, <2>1
  <1>11. ASSUME UNCHANGED streamVars PROVE InStep(buf'[k], wire'[k], due'[k])
    BY <1>3, <1>11 DEF streamVars
  <1>12. CASE Next
    <2>1. ASSUME NEW ph \in Phones, Subscribe(ph) PROVE UNCHANGED streamVars
      BY <2>1 DEF Subscribe
    <2>2. ASSUME NEW w \in Workers, Take(w) \/ Send(w) \/ CallFails(w) \/ RejectionCutOff(w)
          PROVE  UNCHANGED streamVars
      BY <2>2 DEF Take, Send, CallFails, RejectionCutOff
    <2>3. ASSUME NEW w \in Workers, NEW body \in Bodies, Answer(w, body) PROVE UNCHANGED streamVars
      BY <2>3 DEF Answer
    <2>4. ASSUME StopProxy \/ Stopped PROVE UNCHANGED streamVars
      BY <2>4 DEF StopProxy, Stopped, vars, streamVars
    <2> QED
      BY <1>5, <1>6, <1>7, <1>8, <1>9, <1>10, <1>11, <1>12, <2>1, <2>2, <2>3, <2>4 DEF Next, ReadSome
  <1>13. CASE UNCHANGED vars
    BY <1>11, <1>13 DEF vars
  <1> QED
    BY <1>12, <1>13

\* Chunk boundaries carry no meaning: for every number of phones, every set of
\* packets, every size of a byte and of a frame, and every way to cut the streams
\* up, the node hands over what the phones sent, whole, in order and once
\* (FrameAssembler.feed, _peer_connected, _peer_disconnected, _read_loop).
THEOREM StreamsAreWhole == Spec => []StreamIsWhole
  <1>1. Init => StreamInv
    <2> SUFFICES ASSUME Init PROVE StreamInv
      OBVIOUS
    <2>1. \A ph \in Phones : InStep(buf[ph], wire[ph], due[ph])
      BY EmptyInStep DEF Init
    <2> QED
      BY <2>1, InitTypes, InStepEach DEF StreamInv
  <1>2. StreamInv /\ [Next]_vars => StreamInv'
    <2> SUFFICES ASSUME StreamInv, [Next]_vars PROVE StreamInv'
      OBVIOUS
    <2>1. TypeOK' /\ LinksFit'
      BY NextTypes DEF StreamInv
    <2>2. \A k \in Phones \ astray' : InStep(buf'[k], wire'[k], due'[k])
      BY NextInStep
    <2>3. DueAreShort' /\ StreamIsWhole'
      BY <2>2 DEF DueAreShort, StreamIsWhole, InStep
    <2> QED
      BY <2>1, <2>3 DEF StreamInv
  <1>3. StreamInv => StreamIsWhole
    BY DEF StreamInv
  <1> QED
    BY <1>1, <1>2, <1>3, PTL DEF Spec

-----------------------------------------------------------------------------
(* Shutdown.  The queue of a pool that is shut down is empty and stays so. *)

QueueIsCancelled == stopped # "no" => queue = <<>>

LEMMA NextCancelled == QueueIsCancelled /\ [Next]_vars => QueueIsCancelled'
  <1> SUFFICES ASSUME QueueIsCancelled, [Next]_vars PROVE QueueIsCancelled'
    OBVIOUS
  <1>1. ASSUME UNCHANGED <<queue, stopped>> PROVE QueueIsCancelled'
    BY <1>1 DEF QueueIsCancelled
  <1>2. ASSUME NEW ph \in Phones, Connect(ph) \/ Subscribe(ph) \/ LoseLink(ph)
        PROVE  UNCHANGED <<queue, stopped>>
    BY <1>2 DEF Connect, Subscribe, LoseLink, poolVars
  <1>3. ASSUME NEW ph \in Phones, NEW n \in 1 .. Len(wire[ph]), ReadCorrupt(ph, n)
        PROVE  UNCHANGED <<queue, stopped>>
    BY <1>3 DEF ReadCorrupt, poolVars
  <1>4. ASSUME NEW ph \in Phones, NEW m \in Messages, PhoneWrites(ph, m)
        PROVE  UNCHANGED <<queue, stopped>>
    BY <1>4 DEF PhoneWrites, poolVars
  <1>5. ASSUME NEW w \in Workers, Send(w) \/ CallFails(w) \/ RejectionCutOff(w)
        PROVE  UNCHANGED <<queue, stopped>>
    BY <1>5 DEF Send, CallFails, RejectionCutOff
  <1>6. ASSUME NEW w \in Workers, NEW body \in Bodies, Answer(w, body)
        PROVE  UNCHANGED <<queue, stopped>>
    BY <1>6 DEF Answer
  <1>7. ASSUME NEW ph \in Phones, NEW n \in 1 .. Len(wire[ph]), Read(ph, n)
        PROVE  QueueIsCancelled'
    BY <1>7 DEF Read, Submit, QueueIsCancelled
  <1>8. ASSUME NEW w \in Workers, Take(w) PROVE QueueIsCancelled'
    BY <1>8 DEF Take, QueueIsCancelled
  <1>9. ASSUME StopProxy PROVE QueueIsCancelled'
    BY <1>9 DEF StopProxy, QueueIsCancelled
  <1>10. ASSUME StopTransport PROVE QueueIsCancelled'
    BY <1>10 DEF StopTransport, QueueIsCancelled
  <1>11. ASSUME UNCHANGED vars PROVE UNCHANGED <<queue, stopped>>
    BY <1>11 DEF vars, poolVars
  <1> QED
    BY <1>1, <1>2, <1>3, <1>4, <1>5, <1>6, <1>7, <1>8, <1>9, <1>10, <1>11
       DEF Next, ReadSome, Stopped

\* A step after stop() begins no call: only Take does, and it finds the queue empty.
LEMMA NoCallBegins ==
    ASSUME TypeOK, QueueIsCancelled, [Next]_vars, stopped # "no", NEW w \in Workers, Calling(w)'
    PROVE  Calling(w)
  <1>1. CASE job' = job
    BY <1>1 DEF Calling
  <1>2. ASSUME NEW v \in Workers, job' = [job EXCEPT ![v] = Idle] PROVE Calling(w)
    BY <1>2 DEF Calling, TypeOK
  <1>3. ASSUME NEW v \in Workers, NEW r, Calling(v), job' = [job EXCEPT ![v].reply = r]
        PROVE  Calling(w)
    BY <1>3 DEF Calling, TypeOK
  <1>4. ASSUME NEW v \in Workers, Take(v) PROVE Calling(w)
    BY <1>4 DEF Take, QueueIsCancelled
  <1>5. ASSUME NEW v \in Workers, Send(v) \/ RejectionCutOff(v) PROVE Calling(w)
    BY <1>2, <1>5 DEF Send, RejectionCutOff
  <1>6. ASSUME NEW v \in Workers, CallFails(v) PROVE Calling(w)
    BY <1>3, <1>6 DEF CallFails
  <1>7. ASSUME NEW v \in Workers, NEW body \in Bodies, Answer(v, body) PROVE Calling(w)
    BY <1>3, <1>7 DEF Answer
  <1>8. ASSUME NEW ph \in Phones, Connect(ph) \/ Subscribe(ph) \/ LoseLink(ph) PROVE job' = job
    BY <1>8 DEF Connect, Subscribe, LoseLink, poolVars
  <1>9. ASSUME NEW ph \in Phones, NEW n \in 1 .. Len(wire[ph]), Read(ph, n) \/ ReadCorrupt(ph, n)
        PROVE  job' = job
    BY <1>9 DEF Read, ReadCorrupt, poolVars
  <1>10. ASSUME NEW ph \in Phones, NEW m \in Messages, PhoneWrites(ph, m) PROVE job' = job
    BY <1>10 DEF PhoneWrites, poolVars
  <1>11. ASSUME StopProxy \/ StopTransport PROVE job' = job
    BY <1>11 DEF StopProxy, StopTransport
  <1>12. ASSUME UNCHANGED vars PROVE job' = job
    BY <1>12 DEF vars, poolVars
  <1> QED
    BY <1>1, <1>4, <1>5, <1>6, <1>7, <1>8, <1>9, <1>10, <1>11, <1>12 DEF Next, ReadSome, Stopped

\* After BackendProxyService.stop no call to the backend begins, for any number
\* of workers, whatever was queued and whatever the transports still bring in.
THEOREM NoCallOnceStopped == Spec => NoCallAfterStop
  <1>1. Init => QueueIsCancelled
    BY DEF Init, QueueIsCancelled
  <1>2. QueueIsCancelled /\ [Next]_vars => QueueIsCancelled'
    BY NextCancelled
  <1>3. TypeOK /\ QueueIsCancelled /\ [Next]_vars
            => [stopped # "no" => \A w \in Workers : Calling(w)' => Calling(w)]_vars
    BY NoCallBegins
  <1> QED
    BY <1>1, <1>2, <1>3, TypeCorrect, PTL DEF Spec, NoCallAfterStop
=============================================================================
