-------------------------- MODULE W3CActionsProofs --------------------------
(***************************************************************************)
(* The times of the events made of a source, what a source of keys types,   *)
(* and the contacts a source of a pointer makes, for any number of items.   *)
(***************************************************************************)
EXTENDS W3CActionsProperties, FiniteSetTheorems, WellFoundedInduction,
        SequenceTheorems, TLAPS

Items == PointerItems \cup KeyItems

-----------------------------------------------------------------------------
(* The loops over the items are functions on the number of items read: that    *)
(* they exist, and what they keep, goes by induction, which is proved here     *)
(* from the least element of a set of numbers.                                 *)

LEMMA Least ==
    ASSUME NEW T, T \subseteq Nat, T # {}
    PROVE  \E x \in T : \A y \in T : x <= y
<1> DEFINE R == OpToRel(<, Nat)
<1>1. IsWellFoundedOn(R, Nat)
  BY NatLessThanWellFounded
<1>2. \A x, y \in Nat : y < x => <<y, x>> \in R
  BY DEF OpToRel
<1> HIDE DEF R
<1>3. PICK x \in T : \A y \in T : <<y, x>> \notin R
  BY <1>1, WFMin
<1>4. ASSUME NEW y \in T PROVE x <= y
  <2>1. ~(y < x)
    BY <1>2, <1>3
  <2>2. x \in Nat /\ y \in Nat
    BY <1>3
  <2> QED
    BY <2>1, <2>2
<1> QED
  BY <1>3, <1>4

LEMMA Induction ==
    ASSUME NEW S, 0 \in S, \A n \in Nat : n \in S => n + 1 \in S
    PROVE  Nat \subseteq S
<1> SUFFICES ASSUME Nat \ S # {} PROVE FALSE
  OBVIOUS
<1>1. PICK x \in Nat \ S : \A y \in Nat \ S : x <= y
  BY Least
<1>2. x # 0 /\ x - 1 \in Nat /\ (x - 1) + 1 = x
  BY <1>1
<1>3. x - 1 \notin S
  BY <1>1, <1>2
<1> QED
  BY <1>1, <1>2, <1>3

LEMMA KeepingDef ==
    ASSUME NEW all, Len(all) \in Nat
    PROVE  Keeping(all) =
             [n \in 0 .. Len(all) |->
                IF n = 0 THEN [kept |-> <<>>, cancel |-> FALSE]
                ELSE Keep(Keeping(all)[n - 1], all[Len(all) + 1 - n])]
<1> DEFINE First == [kept |-> <<>>, cancel |-> FALSE]
           Step(x, n) == Keep(x, all[Len(all) + 1 - n])
           IsPart(f, m) ==
               f = [n \in 0 .. m |-> IF n = 0 THEN First ELSE Step(f[n - 1], n)]
           S == {m \in Nat : \E f : IsPart(f, m)}
<1>1. 0 \in S
  <2> HIDE DEF First, Step
  <2>1. IsPart([n \in 0 .. 0 |-> First], 0)
    OBVIOUS
  <2> QED
    BY <2>1
<1>2. ASSUME NEW m \in Nat, m \in S PROVE m + 1 \in S
  <2>1. PICK f : IsPart(f, m)
    BY <1>2
  <2> DEFINE g == [n \in 0 .. m + 1 |->
                     IF n = 0 THEN First ELSE Step(f[n - 1], n)]
  <2> HIDE DEF First, Step
  <2>2. \A n \in 0 .. m : g[n] = f[n]
    BY <2>1
  <2>3. \A n \in 0 .. m + 1 : n # 0 => n - 1 \in 0 .. m
    OBVIOUS
  <2>4. IsPart(g, m + 1)
    BY <2>2, <2>3
  <2> HIDE DEF IsPart, g
  <2>5. \E h : IsPart(h, m + 1)
    BY <2>4
  <2> QED
    BY <2>5
<1>3. Len(all) \in S
  <2> HIDE DEF S
  <2> QED
    BY <1>1, <1>2, Induction
<1>4. \E f : IsPart(f, Len(all))
  BY <1>3
<1> QED
  BY <1>4, Zenon DEF Keeping

LEMMA ChainingDef ==
    ASSUME NEW kind, NEW all, Len(all) \in Nat
    PROVE  Chaining(kind, all) =
             [n \in 0 .. Len(all) |->
                IF n = 0 THEN <<>>
                ELSE IF kind = "pointer"
                     THEN AddGestureItem(Chaining(kind, all)[n - 1], all[n])
                     ELSE AddKeyItem(Chaining(kind, all)[n - 1], all[n])]
<1> DEFINE First == <<>>
           Step(x, n) == IF kind = "pointer" THEN AddGestureItem(x, all[n])
                         ELSE AddKeyItem(x, all[n])
           IsPart(f, m) ==
               f = [n \in 0 .. m |-> IF n = 0 THEN First ELSE Step(f[n - 1], n)]
           S == {m \in Nat : \E f : IsPart(f, m)}
<1>1. 0 \in S
  <2> HIDE DEF First, Step
  <2>1. IsPart([n \in 0 .. 0 |-> First], 0)
    OBVIOUS
  <2> QED
    BY <2>1
<1>2. ASSUME NEW m \in Nat, m \in S PROVE m + 1 \in S
  <2>1. PICK f : IsPart(f, m)
    BY <1>2
  <2> DEFINE g == [n \in 0 .. m + 1 |->
                     IF n = 0 THEN First ELSE Step(f[n - 1], n)]
  <2> HIDE DEF First, Step
  <2>2. \A n \in 0 .. m : g[n] = f[n]
    BY <2>1
  <2>3. \A n \in 0 .. m + 1 : n # 0 => n - 1 \in 0 .. m
    OBVIOUS
  <2>4. IsPart(g, m + 1)
    BY <2>2, <2>3
  <2> HIDE DEF IsPart, g
  <2>5. \E h : IsPart(h, m + 1)
    BY <2>4
  <2> QED
    BY <2>5
<1>3. Len(all) \in S
  <2> HIDE DEF S
  <2> QED
    BY <1>1, <1>2, Induction
<1>4. \E f : IsPart(f, Len(all))
  BY <1>3
<1> QED
  BY <1>4, Zenon DEF Chaining

LEMMA PathingDef ==
    ASSUME NEW chain, Len(chain) \in Nat
    PROVE  Pathing(chain) =
             [k \in 0 .. Len(chain) |->
                IF k = 0 THEN <<>>
                ELSE IF Pathing(chain)[k - 1] = Refused THEN Refused
                     ELSE AddToEventPath(Pathing(chain)[k - 1], chain, k)]
<1> DEFINE First == <<>>
           Step(x, n) == IF x = Refused THEN Refused
                         ELSE AddToEventPath(x, chain, n)
           IsPart(f, m) ==
               f = [n \in 0 .. m |-> IF n = 0 THEN First ELSE Step(f[n - 1], n)]
           S == {m \in Nat : \E f : IsPart(f, m)}
<1>1. 0 \in S
  <2> HIDE DEF First, Step
  <2>1. IsPart([n \in 0 .. 0 |-> First], 0)
    OBVIOUS
  <2> QED
    BY <2>1
<1>2. ASSUME NEW m \in Nat, m \in S PROVE m + 1 \in S
  <2>1. PICK f : IsPart(f, m)
    BY <1>2
  <2> DEFINE g == [n \in 0 .. m + 1 |->
                     IF n = 0 THEN First ELSE Step(f[n - 1], n)]
  <2> HIDE DEF First, Step
  <2>2. \A n \in 0 .. m : g[n] = f[n]
    BY <2>1
  <2>3. \A n \in 0 .. m + 1 : n # 0 => n - 1 \in 0 .. m
    OBVIOUS
  <2>4. IsPart(g, m + 1)
    BY <2>2, <2>3
  <2> HIDE DEF IsPart, g
  <2>5. \E h : IsPart(h, m + 1)
    BY <2>4
  <2> QED
    BY <2>5
<1>3. Len(chain) \in S
  <2> HIDE DEF S
  <2> QED
    BY <1>1, <1>2, Induction
<1>4. \E f : IsPart(f, Len(chain))
  BY <1>3
<1> QED
  BY <1>4, Zenon DEF Pathing

LEMMA TypedDef ==
    ASSUME NEW chain, NEW places, Len(chain) \in Nat
    PROVE  /\ Typed(chain, places)[0] = <<>>
           /\ \A k \in 1 .. Len(chain) :
                 Typed(chain, places)[k] =
                    IF k \in places /\ chain[k].type = "keyUp"
                    THEN Typed(chain, places)[k - 1]
                           \o MapIfSpecialCharacter(chain[k].value)
                    ELSE Typed(chain, places)[k - 1]
<1> DEFINE First == <<>>
           Step(x, n) == IF n \in places /\ chain[n].type = "keyUp"
                         THEN x \o MapIfSpecialCharacter(chain[n].value)
                         ELSE x
           IsPart(f, m) ==
               f = [n \in 0 .. m |-> IF n = 0 THEN First ELSE Step(f[n - 1], n)]
           S == {m \in Nat : \E f : IsPart(f, m)}
<1>1. 0 \in S
  <2> HIDE DEF First, Step
  <2>1. IsPart([n \in 0 .. 0 |-> First], 0)
    OBVIOUS
  <2> QED
    BY <2>1
<1>2. ASSUME NEW m \in Nat, m \in S PROVE m + 1 \in S
  <2>1. PICK f : IsPart(f, m)
    BY <1>2
  <2> DEFINE g == [n \in 0 .. m + 1 |->
                     IF n = 0 THEN First ELSE Step(f[n - 1], n)]
  <2> HIDE DEF First, Step
  <2>2. \A n \in 0 .. m : g[n] = f[n]
    BY <2>1
  <2>3. \A n \in 0 .. m + 1 : n # 0 => n - 1 \in 0 .. m
    OBVIOUS
  <2>4. IsPart(g, m + 1)
    BY <2>2, <2>3
  <2> HIDE DEF IsPart, g
  <2>5. \E h : IsPart(h, m + 1)
    BY <2>4
  <2> QED
    BY <2>5
<1>3. Len(chain) \in S
  <2> HIDE DEF S
  <2> QED
    BY <1>1, <1>2, Induction
<1>4. \E f : IsPart(f, Len(chain))
  BY <1>3
<1> DEFINE f == Typed(chain, places)
<1>5. f = [n \in 0 .. Len(chain) |-> IF n = 0 THEN First ELSE Step(f[n - 1], n)]
  BY <1>4, Zenon DEF Typed
<1> HIDE DEF f, First, Step
<1>6. f[0] = First /\ \A k \in 1 .. Len(chain) : f[k] = Step(f[k - 1], k)
  BY <1>5
<1> QED
  BY <1>6 DEF f, First, Step

LEMMA CountingDef ==
    ASSUME NEW all, Len(all) \in Nat
    PROVE  Counting(all) =
             [n \in 0 .. Len(all) |->
                IF n = 0 THEN <<>>
                ELSE IF IsCancel(all, n) \/ CancelsAfter(all, n) % 2 = 1
                     THEN Counting(all)[n - 1]
                     ELSE Append(Counting(all)[n - 1], all[n])]
<1> DEFINE First == <<>>
           Step(x, n) == IF IsCancel(all, n) \/ CancelsAfter(all, n) % 2 = 1 THEN x
                         ELSE Append(x, all[n])
           IsPart(f, m) ==
               f = [n \in 0 .. m |-> IF n = 0 THEN First ELSE Step(f[n - 1], n)]
           S == {m \in Nat : \E f : IsPart(f, m)}
<1>1. 0 \in S
  <2> HIDE DEF First, Step
  <2>1. IsPart([n \in 0 .. 0 |-> First], 0)
    OBVIOUS
  <2> QED
    BY <2>1
<1>2. ASSUME NEW m \in Nat, m \in S PROVE m + 1 \in S
  <2>1. PICK f : IsPart(f, m)
    BY <1>2
  <2> DEFINE g == [n \in 0 .. m + 1 |->
                     IF n = 0 THEN First ELSE Step(f[n - 1], n)]
  <2> HIDE DEF First, Step
  <2>2. \A n \in 0 .. m : g[n] = f[n]
    BY <2>1
  <2>3. \A n \in 0 .. m + 1 : n # 0 => n - 1 \in 0 .. m
    OBVIOUS
  <2>4. IsPart(g, m + 1)
    BY <2>2, <2>3
  <2> HIDE DEF IsPart, g
  <2>5. \E h : IsPart(h, m + 1)
    BY <2>4
  <2> QED
    BY <2>5
<1>3. Len(all) \in S
  <2> HIDE DEF S
  <2> QED
    BY <1>1, <1>2, Induction
<1>4. \E f : IsPart(f, Len(all))
  BY <1>3
<1> QED
  BY <1>4, Zenon DEF Counting

LEMMA TextsDef ==
    ASSUME NEW paths, Len(paths) \in Nat
    PROVE  /\ Texts(paths)[0] = <<>>
           /\ \A k \in 1 .. Len(paths) :
                 Texts(paths)[k] = Texts(paths)[k - 1] \o paths[k][1].text
<1> DEFINE First == <<>>
           Step(x, n) == x \o paths[n][1].text
           IsPart(f, m) ==
               f = [n \in 0 .. m |-> IF n = 0 THEN First ELSE Step(f[n - 1], n)]
           S == {m \in Nat : \E f : IsPart(f, m)}
<1>1. 0 \in S
  <2> HIDE DEF First, Step
  <2>1. IsPart([n \in 0 .. 0 |-> First], 0)
    OBVIOUS
  <2> QED
    BY <2>1
<1>2. ASSUME NEW m \in Nat, m \in S PROVE m + 1 \in S
  <2>1. PICK f : IsPart(f, m)
    BY <1>2
  <2> DEFINE g == [n \in 0 .. m + 1 |->
                     IF n = 0 THEN First ELSE Step(f[n - 1], n)]
  <2> HIDE DEF First, Step
  <2>2. \A n \in 0 .. m : g[n] = f[n]
    BY <2>1
  <2>3. \A n \in 0 .. m + 1 : n # 0 => n - 1 \in 0 .. m
    OBVIOUS
  <2>4. IsPart(g, m + 1)
    BY <2>2, <2>3
  <2> HIDE DEF IsPart, g
  <2>5. \E h : IsPart(h, m + 1)
    BY <2>4
  <2> QED
    BY <2>5
<1>3. Len(paths) \in S
  <2> HIDE DEF S
  <2> QED
    BY <1>1, <1>2, Induction
<1>4. \E f : IsPart(f, Len(paths))
  BY <1>3
<1> DEFINE f == Texts(paths)
<1>5. f = [n \in 0 .. Len(paths) |-> IF n = 0 THEN First ELSE Step(f[n - 1], n)]
  BY <1>4, Zenon DEF Texts
<1> HIDE DEF f, First, Step
<1>6. f[0] = First /\ \A k \in 1 .. Len(paths) : f[k] = Step(f[k - 1], k)
  BY <1>5
<1> QED
  BY <1>6 DEF f, First, Step

-----------------------------------------------------------------------------
(* Sequences of whatever.                                                    *)

IsSeq(s) == \E S : s \in Seq(S)

LEMMA LenNat ==
    ASSUME NEW s, IsSeq(s)
    PROVE  /\ Len(s) \in Nat /\ DOMAIN s = 1 .. Len(s)
           /\ s # <<>> => Len(s) \in 1 .. Len(s)
BY LenProperties, EmptySeq DEF IsSeq

LEMMA AppendSeq ==
    ASSUME NEW s, IsSeq(s), NEW x
    PROVE  /\ IsSeq(Append(s, x))
           /\ Len(Append(s, x)) = Len(s) + 1
           /\ \A i \in 1 .. Len(s) : Append(s, x)[i] = s[i]
           /\ Append(s, x)[Len(s) + 1] = x
<1>1. PICK S : s \in Seq(S)
  BY DEF IsSeq
<1>2. s \in Seq(S \cup {x})
  BY <1>1
<1>3. Append(s, x) \in Seq(S \cup {x})
  BY <1>2
<1> QED
  BY <1>2, <1>3, AppendProperties DEF IsSeq

LEMMA Grouped ==
    ASSUME NEW S, NEW s \in Seq(S), NEW t \in Seq(S), NEW u \in Seq(S)
    PROVE  s \o (t \o u) = (s \o t) \o u
BY ConcatAssociative

LEMMA ReplaceSeq ==
    ASSUME NEW s, IsSeq(s), NEW k \in 1 .. Len(s), NEW x
    PROVE  /\ IsSeq(ReplaceAt(s, k, x))
           /\ Len(ReplaceAt(s, k, x)) = Len(s)
           /\ \A i \in 1 .. Len(s) :
                 ReplaceAt(s, k, x)[i] = IF i = k THEN x ELSE s[i]
<1>1. PICK S : s \in Seq(S)
  BY DEF IsSeq
<1>2. s \in Seq(S \cup {x})
  BY <1>1
<1> QED
  BY <1>2, ExceptSeq DEF IsSeq, ReplaceAt

-----------------------------------------------------------------------------
(* The items that are kept and their chain.                                  *)

\* Those of S that are not cancels.
NoCancels(S) == {item \in S : item.type # "pointerCancel"}

LEMMA KeepingType ==
    ASSUME NEW S, NEW all \in Seq(S)
    PROVE  \A n \in 0 .. Len(all) :
              Keeping(all)[n] \in [kept : Seq(NoCancels(S)), cancel : BOOLEAN]
<1> DEFINE state == Keeping(all)
           States == [kept : Seq(NoCancels(S)), cancel : BOOLEAN]
           T == {n \in Nat : n <= Len(all) => state[n] \in States}
<1>1. Len(all) \in Nat
  OBVIOUS
<1>2. state = [n \in 0 .. Len(all) |->
                 IF n = 0 THEN [kept |-> <<>>, cancel |-> FALSE]
                 ELSE Keep(state[n - 1], all[Len(all) + 1 - n])]
  BY <1>1, KeepingDef
<1> HIDE DEF state
<1>3. 0 \in T
  BY <1>1, <1>2
<1>4. ASSUME NEW n \in Nat, n \in T, n + 1 <= Len(all)
      PROVE  state[n + 1] \in States
  <2> DEFINE item == all[Len(all) - n]
  <2>1. state[n] \in States
    BY <1>1, <1>4
  <2>2. state[n + 1] = Keep(state[n], item)
    <3>1. n + 1 \in 0 .. Len(all) /\ n + 1 # 0 /\ (n + 1) - 1 = n
          /\ Len(all) + 1 - (n + 1) = Len(all) - n
      BY <1>1, <1>4
    <3> QED
      BY <1>2, <3>1
  <2>3. item \in S
    BY <1>4
  <2> HIDE DEF item
  <2>4. CASE state[n].cancel \/ item.type = "pointerCancel"
    BY <2>1, <2>2, <2>4 DEF Keep
  <2>5. CASE ~state[n].cancel /\ item.type # "pointerCancel"
    <3>1. item \in NoCancels(S)
      BY <2>3, <2>5 DEF NoCancels
    <3>2. <<item>> \o state[n].kept \in Seq(NoCancels(S))
      BY <2>1, <3>1
    <3> QED
      BY <2>2, <2>5, <3>2 DEF Keep
  <2> QED
    BY <2>4, <2>5
<1>5. Nat \subseteq T
  <2>1. \A n \in Nat : n \in T => n + 1 \in T
    BY <1>1, <1>4
  <2> HIDE DEF T
  <2> QED
    BY <1>3, <2>1, Induction
<1> QED
  BY <1>1, <1>5 DEF state

LEMMA KeptItems ==
    ASSUME NEW S, NEW all \in Seq(S)
    PROVE  /\ Preprocess(all) \in Seq(NoCancels(S))
           /\ Preprocess(all) \in Seq(S)
<1>1. Keeping(all)[Len(all)] \in [kept : Seq(NoCancels(S)), cancel : BOOLEAN]
  BY KeepingType
<1>2. Preprocess(all) \in Seq(NoCancels(S))
  BY <1>1 DEF Preprocess
<1>3. NoCancels(S) \subseteq S
  BY DEF NoCancels
<1> HIDE DEF NoCancels
<1> QED
  BY <1>2, <1>3

\* A run of cancels gets longer by every cancel before it.
LEMMA CancelRun ==
    ASSUME NEW all, Len(all) \in Nat
    PROVE  /\ \A i \in 0 .. Len(all) : CancelsAfter(all, i) \in Nat
           /\ CancelsAfter(all, Len(all)) = 0
           /\ \A i \in 1 .. Len(all) :
                 CancelsAfter(all, i - 1) =
                    IF IsCancel(all, i) THEN CancelsAfter(all, i) + 1 ELSE 0
<1> DEFINE N == Len(all)
           C(k) == IsCancel(all, k)
           R(i) == {j \in i + 1 .. N : \A k \in i + 1 .. j : C(k)}
<1>1. \A i : CancelsAfter(all, i) = Cardinality(R(i))
  BY DEF CancelsAfter
<1> HIDE DEF C
<1>2. ASSUME NEW i \in 0 .. N
      PROVE  IsFiniteSet(R(i)) /\ Cardinality(R(i)) \in Nat
  <2>1. IsFiniteSet(1 .. N)
    BY FS_Interval
  <2>2. R(i) \in SUBSET (1 .. N)
    OBVIOUS
  <2> QED
    BY <2>1, <2>2, FS_Subset, FS_CardinalityType
<1>3. R(N) = {}
  OBVIOUS
<1>4. ASSUME NEW i \in 1 .. N
      PROVE  /\ i \notin R(i)
             /\ R(i - 1) = IF C(i) THEN R(i) \cup {i} ELSE {}
  <2>1. ASSUME C(i), NEW j PROVE j \in R(i - 1) <=> j \in R(i) \/ j = i
    BY <2>1
  <2>2. ASSUME ~C(i) PROVE R(i - 1) = {}
    BY <2>2
  <2> QED
    BY <2>1, <2>2
<1>5. ASSUME NEW i \in 1 .. N
      PROVE  Cardinality(R(i - 1)) = IF C(i) THEN Cardinality(R(i)) + 1 ELSE 0
  <2>1. CASE C(i)
    <3>1. i \in 0 .. N
      OBVIOUS
    <3>2. IsFiniteSet(R(i))
      BY <1>2, <3>1
    <3> HIDE DEF R
    <3>3. R(i - 1) = R(i) \cup {i} /\ i \notin R(i)
      BY <1>4, <2>1
    <3>4. Cardinality(R(i) \cup {i}) = Cardinality(R(i)) + 1
      BY <3>2, <3>3, FS_AddElement
    <3> QED
      BY <2>1, <3>3, <3>4
  <2>2. CASE ~C(i)
    BY <1>4, <2>2, FS_EmptySet
  <2> QED
    BY <2>1, <2>2
<1>6. Cardinality(R(N)) = 0
  BY <1>3, FS_EmptySet
<1> HIDE DEF R
<1> QED
  BY <1>1, <1>2, <1>5, <1>6 DEF C

Parity(all, i) == CancelsAfter(all, i) % 2

LEMMA CancelParity ==
    ASSUME NEW all, Len(all) \in Nat
    PROVE  /\ Parity(all, Len(all)) = 0
           /\ \A i \in 1 .. Len(all) :
                 /\ Parity(all, i) \in {0, 1}
                 /\ Parity(all, i - 1) =
                       IF IsCancel(all, i) /\ Parity(all, i) = 0 THEN 1 ELSE 0
<1>1. Parity(all, Len(all)) = 0
  BY CancelRun DEF Parity
<1>2. ASSUME NEW i \in 1 .. Len(all)
      PROVE  /\ Parity(all, i) \in {0, 1}
             /\ Parity(all, i - 1) =
                   IF IsCancel(all, i) /\ Parity(all, i) = 0 THEN 1 ELSE 0
  <2> DEFINE c == CancelsAfter(all, i)
             d == CancelsAfter(all, i - 1)
  <2>1. c \in Nat /\ d = IF IsCancel(all, i) THEN c + 1 ELSE 0
    BY CancelRun
  <2> HIDE DEF c, d
  <2>2. /\ c % 2 \in {0, 1}
        /\ d % 2 = IF IsCancel(all, i) /\ c % 2 = 0 THEN 1 ELSE 0
    BY <2>1
  <2> QED
    BY <2>2 DEF Parity, c, d
<1> QED
  BY <1>1, <1>2

\* Reading backwards with a flag keeps the items that count.
LEMMA KeptCounts ==
    ASSUME NEW S, NEW all \in Seq(S)
    PROVE  Preprocess(all) = Counted(all)
<1> DEFINE N == Len(all)
           state == Keeping(all)
           count == Counting(all)
           Meet(n) == /\ Parity(all, N - n) = IF state[n].cancel THEN 1 ELSE 0
                      /\ count[N - n] \o state[n].kept = count[N]
           T == {n \in Nat : n <= N => Meet(n)}
<1>1. N \in Nat
  OBVIOUS
<1>2. state = [n \in 0 .. N |->
                 IF n = 0 THEN [kept |-> <<>>, cancel |-> FALSE]
                 ELSE Keep(state[n - 1], all[N + 1 - n])]
  BY <1>1, KeepingDef
<1>3. count = [n \in 0 .. N |->
                 IF n = 0 THEN <<>>
                 ELSE IF IsCancel(all, n) \/ Parity(all, n) = 1 THEN count[n - 1]
                      ELSE Append(count[n - 1], all[n])]
  BY <1>1, CountingDef DEF Parity
<1>4. \A n \in 0 .. N : /\ state[n].kept \in Seq(NoCancels(S))
                        /\ state[n].cancel \in BOOLEAN
  BY KeepingType
<1>5. /\ Parity(all, N) = 0
      /\ \A i \in 1 .. N :
            /\ Parity(all, i) \in {0, 1}
            /\ Parity(all, i - 1) =
                  IF IsCancel(all, i) /\ Parity(all, i) = 0 THEN 1 ELSE 0
  BY <1>1, CancelParity
<1>6. /\ NoCancels(S) \subseteq S
      /\ \A i \in 1 .. N : all[i] \in S
  BY DEF NoCancels
<1> HIDE DEF state, count, N
<1>7. \A n \in 0 .. N : count[n] \in Seq(S)
  <2> DEFINE U == {n \in Nat : n <= N => count[n] \in Seq(S)}
  <2>1. 0 \in U
    BY <1>1, <1>3
  <2>2. ASSUME NEW n \in Nat, n \in U PROVE n + 1 \in U
    <3> SUFFICES ASSUME n + 1 <= N PROVE count[n + 1] \in Seq(S)
      OBVIOUS
    <3>1. count[n] \in Seq(S)
      BY <1>1, <2>2
    <3>2. n + 1 \in 0 .. N /\ n + 1 # 0 /\ (n + 1) - 1 = n /\ all[n + 1] \in S
      BY <1>1, <1>6
    <3>3. count[n + 1] = IF IsCancel(all, n + 1) \/ Parity(all, n + 1) = 1
                         THEN count[n] ELSE Append(count[n], all[n + 1])
      BY <1>3, <3>2
    <3> QED
      BY <3>1, <3>2, <3>3
  <2>3. Nat \subseteq U
    <3> HIDE DEF U
    <3> QED
      BY <2>1, <2>2, Induction
  <2> QED
    BY <1>1, <2>3
<1>8. Meet(0)
  <2>1. state[0] = [kept |-> <<>>, cancel |-> FALSE]
    BY <1>1, <1>2
  <2>2. count[N] \o <<>> = count[N]
    BY <1>1, <1>7, ConcatEmptySeq
  <2> QED
    BY <1>1, <1>5, <2>1, <2>2
<1>9. ASSUME NEW n \in Nat, n + 1 <= N, Meet(n) PROVE Meet(n + 1)
  <2> DEFINE i == N - n
             item == all[i]
  <2>1. /\ i \in 1 .. N /\ i \in 0 .. N /\ i - 1 \in 0 .. N /\ i # 0
        /\ N - (n + 1) = i - 1 /\ n \in 0 .. N /\ n + 1 \in 0 .. N
        /\ n + 1 # 0 /\ (n + 1) - 1 = n /\ N + 1 - (n + 1) = i
    BY <1>1, <1>9
  <2>2. /\ Parity(all, i) = IF state[n].cancel THEN 1 ELSE 0
        /\ count[i] \o state[n].kept = count[N]
    BY <1>9
  <2> HIDE DEF i
  <2>3. state[n + 1] = Keep(state[n], item)
    BY <1>2, <2>1
  <2>4. count[i] = IF IsCancel(all, i) \/ Parity(all, i) = 1 THEN count[i - 1]
                   ELSE Append(count[i - 1], item)
    BY <1>3, <2>1
  <2>5. item \in S
    BY <1>6, <2>1
  <2>6. IsCancel(all, i) <=> item.type = "pointerCancel"
    BY DEF IsCancel
  <2>7. /\ Parity(all, i) \in {0, 1}
        /\ Parity(all, i - 1) =
              IF IsCancel(all, i) /\ Parity(all, i) = 0 THEN 1 ELSE 0
    BY <1>5, <2>1
  <2> HIDE DEF item
  <2>8. SUFFICES /\ Parity(all, i - 1) = IF state[n + 1].cancel THEN 1 ELSE 0
                 /\ count[i - 1] \o state[n + 1].kept = count[N]
    BY <2>1
  <2>9. CASE state[n].cancel
    <3>1. state[n + 1].kept = state[n].kept /\ state[n + 1].cancel = FALSE
      BY <2>3, <2>9 DEF Keep
    <3>2. Parity(all, i) = 1
      BY <2>2, <2>9
    <3>3. count[i] = count[i - 1]
      BY <2>4, <3>2
    <3>4. Parity(all, i - 1) = 0
      BY <2>7, <3>2
    <3>5. count[i - 1] \o state[n + 1].kept = count[N]
      BY <2>2, <3>1, <3>3, Zenon
    <3> QED
      BY <3>1, <3>4, <3>5, Zenon
  <2>10. CASE ~state[n].cancel /\ IsCancel(all, i)
    <3>1. state[n + 1].kept = state[n].kept /\ state[n + 1].cancel = TRUE
      BY <2>3, <2>6, <2>10 DEF Keep
    <3>2. Parity(all, i) = 0
      BY <2>2, <2>10
    <3>3. count[i] = count[i - 1]
      BY <2>4, <2>10
    <3>4. Parity(all, i - 1) = 1
      BY <2>7, <2>10, <3>2
    <3>5. count[i - 1] \o state[n + 1].kept = count[N]
      BY <2>2, <3>1, <3>3, Zenon
    <3> QED
      BY <3>1, <3>4, <3>5, Zenon
  <2>11. CASE ~state[n].cancel /\ ~IsCancel(all, i)
    <3>1. /\ state[n + 1].kept = <<item>> \o state[n].kept
          /\ state[n + 1].cancel = FALSE
      BY <2>3, <2>6, <2>11 DEF Keep
    <3>2. count[i] = Append(count[i - 1], item)
      BY <2>2, <2>4, <2>11
    <3>3. count[i - 1] \in Seq(S) /\ state[n].kept \in Seq(S)
      BY <1>4, <1>6, <1>7, <2>1
    <3>4. Append(count[i - 1], item) = count[i - 1] \o <<item>>
      BY <2>5, <3>3, AppendIsConcat
    <3>5. <<item>> \in Seq(S)
      BY <2>5
    <3>6. count[i - 1] \o (<<item>> \o state[n].kept)
             = (count[i - 1] \o <<item>>) \o state[n].kept
      <4> DEFINE c == count[i - 1]
                 one == <<item>>
                 k == state[n].kept
      <4>1. c \in Seq(S) /\ one \in Seq(S) /\ k \in Seq(S)
        BY <3>3, <3>5
      <4> HIDE DEF c, one, k
      <4>2. c \o (one \o k) = (c \o one) \o k
        BY <4>1, Grouped
      <4> QED
        BY <4>2 DEF c, one, k
    <3>7. count[i - 1] \o state[n + 1].kept = count[N]
      BY <2>2, <3>1, <3>2, <3>4, <3>6, Zenon
    <3>8. Parity(all, i - 1) = 0
      BY <2>7, <2>11
    <3> QED
      BY <3>1, <3>7, <3>8, Zenon
  <2> QED
    BY <2>9, <2>10, <2>11
<1> HIDE DEF Meet
<1>10. 0 \in T /\ \A n \in Nat : n \in T => n + 1 \in T
  BY <1>1, <1>8, <1>9
<1>11. Nat \subseteq T
  <2> HIDE DEF T
  <2> QED
    BY <1>10, Induction
<1>12. Meet(N)
  BY <1>1, <1>11
<1>13. N - N = 0 /\ count[0] = <<>> /\ N \in 0 .. N
  BY <1>1, <1>3
<1>14. count[0] \o state[N].kept = count[N]
  BY <1>12, <1>13 DEF Meet
<1>15. <<>> \o state[N].kept = state[N].kept
  BY <1>4, <1>13, ConcatEmptySeq
<1> QED
  BY <1>13, <1>14, <1>15 DEF Preprocess, Counted, state, count, N

\* When the first k items of a chain are over.
End(chain, k) == IF k = 0 THEN 0 ELSE chain[k].offset + chain[k].duration

\* Each item of a chain begins when the one before it is over.
InTime(chain) ==
    /\ IsSeq(chain)
    /\ \A k \in 1 .. Len(chain) :
          /\ chain[k].duration \in Nat
          /\ chain[k].offset \in Nat
          /\ chain[k].offset = End(chain, k - 1)

LEMMA AppendInTime ==
    ASSUME NEW chain, InTime(chain), NEW link,
           link.offset = DurationOffset(chain), link.duration \in Nat
    PROVE  InTime(Append(chain, link))
<1> DEFINE new == Append(chain, link)
           n == Len(chain)
<1>1. /\ n \in Nat
      /\ chain # <<>> => n \in 1 .. n
      /\ chain = <<>> => n = 0
  BY LenNat, EmptySeq DEF InTime
<1>2. /\ IsSeq(new) /\ Len(new) = n + 1
      /\ \A k \in 1 .. n : new[k] = chain[k]
      /\ new[n + 1] = link
  BY AppendSeq DEF InTime
<1>3. link.offset = End(chain, n) /\ link.offset \in Nat
  BY <1>1 DEF InTime, End, DurationOffset, Last
<1> HIDE DEF new, n
<1>4. ASSUME NEW k \in 1 .. n + 1
      PROVE  /\ new[k].duration \in Nat
             /\ new[k].offset \in Nat
             /\ new[k].offset = End(new, k - 1)
  <2>1. End(new, k - 1) = End(chain, k - 1)
    BY <1>1, <1>2 DEF End
  <2>2. CASE k = n + 1
    BY <1>1, <1>2, <1>3, <2>1, <2>2
  <2>3. CASE k \in 1 .. n
    BY <1>2, <2>1, <2>3 DEF InTime, n
  <2> QED
    BY <1>1, <2>2, <2>3
<1> QED
  BY <1>2, <1>4 DEF InTime, new

LEMMA ChainInTime ==
    ASSUME NEW kind, NEW all \in Seq(Items)
    PROVE  LET chain == Chaining(kind, all)[Len(all)]
           IN  chain = Refused \/ InTime(chain)
<1> DEFINE chain == Chaining(kind, all)
           Good(c) == c = Refused \/ InTime(c)
           T == {n \in Nat : n <= Len(all) => Good(chain[n])}
<1>1. Len(all) \in Nat
  OBVIOUS
<1>2. chain = [n \in 0 .. Len(all) |->
                 IF n = 0 THEN <<>>
                 ELSE IF kind = "pointer"
                      THEN AddGestureItem(chain[n - 1], all[n])
                      ELSE AddKeyItem(chain[n - 1], all[n])]
  BY <1>1, ChainingDef
<1> HIDE DEF chain
<1>3. 0 \in T
  <2>1. InTime(<<>>)
    BY EmptySeq DEF InTime, IsSeq
  <2> QED
    BY <1>1, <1>2, <2>1
<1>4. ASSUME NEW n \in Nat, n \in T, n + 1 <= Len(all)
      PROVE  Good(chain[n + 1])
  <2>1. Good(chain[n])
    BY <1>1, <1>4
  <2>2. chain[n + 1] = IF kind = "pointer"
                       THEN AddGestureItem(chain[n], all[n + 1])
                       ELSE AddKeyItem(chain[n], all[n + 1])
    <3>1. n + 1 \in 0 .. Len(all) /\ n + 1 # 0 /\ (n + 1) - 1 = n
      BY <1>1, <1>4
    <3> QED
      BY <1>2, <3>1
  <2>3. all[n + 1].duration \in Nat
    <3>1. all[n + 1] \in Items
      BY <1>1, <1>4
    <3> QED
      BY <3>1, ItemsAssumption DEF Items
  <2>4. CASE chain[n + 1] = Refused
    BY <2>4
  <2>5. ASSUME chain[n + 1] # Refused
        PROVE  \E link : /\ chain[n + 1] = Append(chain[n], link)
                         /\ link.offset = DurationOffset(chain[n])
                         /\ link.duration \in Nat
    BY <2>2, <2>3, <2>5 DEF AddGestureItem, AddKeyItem
  <2>6. chain[n + 1] # Refused => chain[n] # Refused
    BY <2>2 DEF AddGestureItem, AddKeyItem
  <2> QED
    BY <2>1, <2>4, <2>5, <2>6, AppendInTime
<1>5. Nat \subseteq T
  <2>1. \A n \in Nat : n \in T => n + 1 \in T
    BY <1>1, <1>4
  <2> HIDE DEF T
  <2> QED
    BY <1>3, <2>1, Induction
<1> QED
  BY <1>1, <1>5 DEF chain

-----------------------------------------------------------------------------
(* The event paths.                                                          *)

\* The events of the paths go forward in time and none is later than t.
Until(paths, t) ==
    /\ IsSeq(paths) /\ \A m \in 1 .. Len(paths) : IsSeq(paths[m])
    /\ \A m \in 1 .. Len(paths) : \A i \in 1 .. Len(paths[m]) :
          paths[m][i].at \in Nat /\ paths[m][i].at <= t
    /\ \A m, n \in 1 .. Len(paths) :
          \A i \in 1 .. Len(paths[m]), j \in 1 .. Len(paths[n]) :
             m < n \/ (m = n /\ i < j) => paths[m][i].at <= paths[n][j].at

LEMMA UntilLater ==
    ASSUME NEW paths, NEW t \in Nat, NEW u \in Nat, t <= u, Until(paths, t)
    PROVE  Until(paths, u)
BY LenNat DEF Until

LEMMA NewPathUntil ==
    ASSUME NEW paths, NEW t \in Nat, NEW u \in Nat, Until(paths, t),
           NEW event, event.at \in Nat, t <= event.at, event.at <= u
    PROVE  Until(NewPath(paths, event), u)
<1> DEFINE new == NewPath(paths, event)
           N == Len(paths)
<1>1. N \in Nat /\ \A m \in 1 .. N : IsSeq(paths[m]) /\ Len(paths[m]) \in Nat
  BY LenNat DEF Until
<1>2. /\ IsSeq(new) /\ Len(new) = N + 1
      /\ \A m \in 1 .. N : new[m] = paths[m]
      /\ new[N + 1] = <<event>>
  BY AppendSeq DEF Until, NewPath
<1>3. IsSeq(<<event>>) /\ Len(<<event>>) = 1 /\ <<event>>[1] = event
  <2>1. <<event>> \in Seq({event})
    OBVIOUS
  <2> QED
    BY <2>1 DEF IsSeq
<1>4. \A m \in 1 .. N : \A i \in 1 .. Len(paths[m]) :
         paths[m][i].at \in Nat /\ paths[m][i].at <= t
  BY DEF Until
<1>5. \A m, n \in 1 .. N :
         \A i \in 1 .. Len(paths[m]), j \in 1 .. Len(paths[n]) :
            m < n \/ (m = n /\ i < j) => paths[m][i].at <= paths[n][j].at
  BY DEF Until
<1> HIDE DEF new, N
<1>6. \A m \in 1 .. N + 1 : m \in 1 .. N \/ m = N + 1
  BY <1>1
<1>7. \A i \in 1 .. Len(<<event>>) : i = 1
  BY <1>3
<1>8. ASSUME NEW m \in 1 .. N + 1
      PROVE  /\ IsSeq(new[m])
             /\ \A i \in 1 .. Len(new[m]) :
                   new[m][i].at \in Nat /\ new[m][i].at <= u
  <2>1. CASE m \in 1 .. N
    BY <1>1, <1>2, <1>4, <2>1
  <2>2. CASE m = N + 1
    BY <1>2, <1>3, <1>7, <2>2
  <2> QED
    BY <1>6, <2>1, <2>2
<1>9. ASSUME NEW m \in 1 .. N + 1, NEW n \in 1 .. N + 1,
             NEW i \in 1 .. Len(new[m]), NEW j \in 1 .. Len(new[n]),
             m < n \/ (m = n /\ i < j)
      PROVE  new[m][i].at <= new[n][j].at
  <2>1. CASE m \in 1 .. N /\ n \in 1 .. N
    BY <1>2, <1>5, <1>9, <2>1
  <2>2. CASE m \in 1 .. N /\ n = N + 1
    <3>1. new[m][i].at <= t /\ new[m][i].at \in Nat
      BY <1>2, <1>4, <2>2
    <3>2. new[n][j] = event
      BY <1>2, <1>3, <1>7, <2>2
    <3> QED
      BY <3>1, <3>2
  <2>3. CASE m = N + 1 /\ n = N + 1
    BY <1>1, <1>2, <1>7, <1>9, <2>3
  <2>4. CASE m = N + 1 /\ n \in 1 .. N
    BY <1>1, <1>9, <2>4
  <2> QED
    BY <1>6, <2>1, <2>2, <2>3, <2>4
<1> QED
  BY <1>2, <1>8, <1>9 DEF Until, new

LEMMA OnLastPathUntil ==
    ASSUME NEW paths, NEW t \in Nat, NEW u \in Nat, Until(paths, t), paths # <<>>,
           NEW event, event.at \in Nat, t <= event.at, event.at <= u
    PROVE  Until(OnLastPath(paths, event), u)
<1> DEFINE new == OnLastPath(paths, event)
           N == Len(paths)
           last == paths[N]
<1>1. N \in Nat /\ N \in 1 .. N
      /\ \A m \in 1 .. N : IsSeq(paths[m]) /\ Len(paths[m]) \in Nat
  BY LenNat DEF Until
<1>2. /\ IsSeq(new) /\ Len(new) = N
      /\ \A m \in 1 .. N : new[m] = IF m = N THEN Append(last, event) ELSE paths[m]
  BY <1>1, ReplaceSeq DEF Until, OnLastPath, Last
<1>3. /\ IsSeq(Append(last, event)) /\ Len(Append(last, event)) = Len(last) + 1
      /\ \A i \in 1 .. Len(last) : Append(last, event)[i] = last[i]
      /\ Append(last, event)[Len(last) + 1] = event
  BY <1>1, AppendSeq
<1>4. \A m \in 1 .. N : \A i \in 1 .. Len(paths[m]) :
         paths[m][i].at \in Nat /\ paths[m][i].at <= t
  BY DEF Until
<1>5. \A m, n \in 1 .. N :
         \A i \in 1 .. Len(paths[m]), j \in 1 .. Len(paths[n]) :
            m < n \/ (m = n /\ i < j) => paths[m][i].at <= paths[n][j].at
  BY DEF Until
<1> DEFINE Old(m, i) == /\ i \in 1 .. Len(paths[m])
                        /\ new[m][i] = paths[m][i]
           Added(m, i) == m = N /\ i = Len(last) + 1 /\ new[m][i] = event
<1>6. ASSUME NEW m \in 1 .. N
      PROVE  /\ IsSeq(new[m])
             /\ \A i \in 1 .. Len(new[m]) : Old(m, i) \/ Added(m, i)
  <2>1. CASE m = N
    <3>1. new[m] = Append(last, event) /\ Len(new[m]) = Len(last) + 1
      BY <1>2, <1>3, <2>1
    <3>2. \A i \in 1 .. Len(last) + 1 : i \in 1 .. Len(last) \/ i = Len(last) + 1
      BY <1>1
    <3> HIDE DEF new
    <3> QED
      BY <1>3, <2>1, <3>1, <3>2
  <2>2. CASE m # N
    BY <1>1, <1>2, <2>2
  <2> QED
    BY <2>1, <2>2
<1> HIDE DEF new, N
<1>7. ASSUME NEW m \in 1 .. N, NEW i \in 1 .. Len(new[m])
      PROVE  new[m][i].at \in Nat /\ new[m][i].at <= u
  <2>1. CASE Old(m, i)
    <3>1. new[m][i].at \in Nat /\ new[m][i].at <= t
      BY <1>4, <2>1
    <3> QED
      BY <3>1
  <2>2. CASE Added(m, i)
    BY <2>2
  <2> QED
    BY <1>6, <2>1, <2>2
<1>8. ASSUME NEW m \in 1 .. N, NEW n \in 1 .. N,
             NEW i \in 1 .. Len(new[m]), NEW j \in 1 .. Len(new[n]),
             m < n \/ (m = n /\ i < j)
      PROVE  new[m][i].at <= new[n][j].at
  <2>1. CASE Old(m, i) /\ Old(n, j)
    BY <1>5, <1>8, <2>1
  <2>2. CASE Old(m, i) /\ Added(n, j)
    <3>1. new[m][i].at <= t /\ new[m][i].at \in Nat
      BY <1>4, <2>2
    <3> QED
      BY <2>2, <3>1
  <2>3. CASE Added(m, i)
    <3>1. m = n /\ i < j
      BY <1>1, <1>8, <2>3
    <3>2. j \in 1 .. Len(last) + 1
      BY <1>2, <1>3, <2>3, <3>1
    <3> QED
      BY <1>1, <2>3, <3>1, <3>2
  <2> QED
    BY <1>6, <2>1, <2>2, <2>3
<1> QED
  BY <1>2, <1>6, <1>7, <1>8 DEF Until, new, N

\* Item k adds only events between its beginning and its end.
LEMMA ItemUntil ==
    ASSUME NEW chain, InTime(chain), NEW k \in 1 .. Len(chain),
           NEW paths, Until(paths, End(chain, k - 1)),
           AddToEventPath(paths, chain, k) # Refused
    PROVE  Until(AddToEventPath(paths, chain, k), End(chain, k))
<1> DEFINE t == End(chain, k - 1)
           u == End(chain, k)
<1>1. /\ chain[k].offset = t /\ t \in Nat
      /\ u = chain[k].offset + chain[k].duration /\ chain[k].duration \in Nat
  BY LenNat DEF InTime, End
<1>2. u \in Nat /\ t <= u
  BY <1>1
<1> HIDE DEF t, u
<1>3. Until(paths, t)
  BY DEF t
<1>4. Until(paths, u)
  BY <1>1, <1>2, <1>3, UntilLater
<1>5. ASSUME NEW event, event.at = t \/ event.at = u
      PROVE  /\ Until(NewPath(paths, event), u)
             /\ paths # <<>> => Until(OnLastPath(paths, event), u)
  BY <1>1, <1>2, <1>3, <1>5, NewPathUntil, OnLastPathUntil
<1>6. \A kind, place, time : Event(kind, time, place).at = time
  BY DEF Event
<1>7. PointerDown(paths, chain, k) \in {paths, Refused}
      \/ Until(PointerDown(paths, chain, k), u)
  BY <1>1, <1>5, <1>6 DEF PointerDown
<1>8. Until(PointerMove(paths, chain, k), u)
  BY <1>1, <1>5, <1>6 DEF PointerMove
<1>9. PointerUp(paths, chain, k) = Refused \/ Until(PointerUp(paths, chain, k), u)
  BY <1>1, <1>5, <1>6 DEF PointerUp
<1>10. KeyDown(paths, chain, k) \in {paths, Refused}
  BY DEF KeyDown
<1>11. KeyUp(paths, chain, k) \in {paths, Refused}
       \/ Until(KeyUp(paths, chain, k), u)
  <2> DEFINE event == [kind |-> "text", at |-> chain[k].offset,
                       text |-> CollectText(chain, k)]
  <2>1. event.at = t
    BY <1>1
  <2> HIDE DEF event
  <2>2. Until(NewPath(paths, event), u)
    BY <1>5, <2>1
  <2> QED
    BY <2>2 DEF KeyUp, event
<1>12. AddToEventPath(paths, chain, k) = paths
       \/ Until(AddToEventPath(paths, chain, k), u)
  BY <1>7, <1>8, <1>9, <1>10, <1>11 DEF AddToEventPath
<1> QED
  BY <1>4, <1>12 DEF u

LEMMA PathsUntil ==
    ASSUME NEW chain, InTime(chain)
    PROVE  LET paths == Pathing(chain)[Len(chain)]
           IN  paths = Refused \/ Until(paths, End(chain, Len(chain)))
<1> DEFINE paths == Pathing(chain)
           Good(k) == paths[k] = Refused \/ Until(paths[k], End(chain, k))
           T == {k \in Nat : k <= Len(chain) => Good(k)}
<1>1. Len(chain) \in Nat
  BY LenNat DEF InTime
<1>2. paths = [k \in 0 .. Len(chain) |->
                 IF k = 0 THEN <<>>
                 ELSE IF paths[k - 1] = Refused THEN Refused
                      ELSE AddToEventPath(paths[k - 1], chain, k)]
  BY <1>1, PathingDef
<1> HIDE DEF paths
<1>3. 0 \in T
  <2>1. Until(<<>>, 0)
    BY EmptySeq DEF Until, IsSeq
  <2> QED
    BY <1>1, <1>2, <2>1 DEF End
<1>4. ASSUME NEW k \in Nat, k \in T, k + 1 <= Len(chain)
      PROVE  Good(k + 1)
  <2>1. Good(k)
    BY <1>1, <1>4
  <2>2. k + 1 \in 1 .. Len(chain) /\ (k + 1) - 1 = k
    BY <1>1, <1>4
  <2>3. paths[k + 1] = IF paths[k] = Refused THEN Refused
                       ELSE AddToEventPath(paths[k], chain, k + 1)
    <3>1. k + 1 \in 0 .. Len(chain) /\ k + 1 # 0
      BY <2>2
    <3> QED
      BY <1>2, <2>2, <3>1
  <2>4. CASE paths[k] # Refused /\ paths[k + 1] # Refused
    <3>1. Until(paths[k], End(chain, (k + 1) - 1))
      BY <2>1, <2>2, <2>4
    <3> QED
      BY <2>2, <2>3, <2>4, <3>1, ItemUntil
  <2> QED
    BY <2>3, <2>4
<1>5. Nat \subseteq T
  <2>1. \A k \in Nat : k \in T => k + 1 \in T
    BY <1>1, <1>4
  <2> HIDE DEF T
  <2> QED
    BY <1>3, <2>1, Induction
<1> QED
  BY <1>1, <1>5 DEF paths

LEMMA UntilInTime ==
    ASSUME NEW paths, NEW t, Until(paths, t)
    PROVE  \A m, n \in DOMAIN paths :
              \A i \in DOMAIN paths[m], j \in DOMAIN paths[n] :
                 m < n \/ (m = n /\ i < j) => paths[m][i].at <= paths[n][j].at
<1>1. /\ DOMAIN paths = 1 .. Len(paths)
      /\ \A m \in 1 .. Len(paths) : DOMAIN paths[m] = 1 .. Len(paths[m])
  BY LenNat DEF Until
<1> QED
  BY <1>1 DEF Until

-----------------------------------------------------------------------------
(* Keys that are down, in a group and in all.                                *)

\* A chain of keys with values in V that has no unusable item.
KeyChain(chain, V) ==
    /\ IsSeq(chain)
    /\ \A k \in 1 .. Len(chain) : /\ chain[k].type \in {"keyDown", "keyUp", "pause"}
                                  /\ chain[k].value \in V

\* How many more times v is pressed than released at these places.
Net(chain, places, v) ==
    Of(chain, places, "keyDown", v) - Of(chain, places, "keyUp", v)

Change(chain, k, v) ==
    IF chain[k].value # v THEN 0
    ELSE IF chain[k].type = "keyDown" THEN 1
    ELSE IF chain[k].type = "keyUp" THEN 0 - 1 ELSE 0

LEMMA OfAdd ==
    ASSUME NEW chain, NEW places, IsFiniteSet(places), NEW k, k \notin places,
           NEW type, NEW v
    PROVE  /\ Of(chain, places, type, v) \in Nat
           /\ Of(chain, places \cup {k}, type, v) =
                 IF chain[k].type = type /\ chain[k].value = v
                 THEN Of(chain, places, type, v) + 1
                 ELSE Of(chain, places, type, v)
<1> DEFINE Fits(i) == chain[i].type = type /\ chain[i].value = v
           P == {i \in places : Fits(i)}
           Q == {i \in places \cup {k} : Fits(i)}
<1>1. IsFiniteSet(P) /\ Cardinality(P) \in Nat
  <2>1. P \subseteq places
    OBVIOUS
  <2> QED
    BY <2>1, FS_Subset, FS_CardinalityType
<1>2. k \notin P
  OBVIOUS
<1>3. CASE Fits(k)
  <2>1. Q = P \cup {k}
    BY <1>3
  <2> HIDE DEF P, Q
  <2>2. Cardinality(Q) = Cardinality(P) + 1
    BY <1>1, <1>2, <2>1, FS_AddElement
  <2> QED
    BY <1>1, <1>3, <2>2 DEF Of, P, Q
<1>4. CASE ~Fits(k)
  <2>1. Q = P
    BY <1>4
  <2> HIDE DEF P, Q
  <2> QED
    BY <1>1, <1>4, <2>1 DEF Of, P, Q
<1> QED
  BY <1>3, <1>4

LEMMA NetAdd ==
    ASSUME NEW chain, NEW places, IsFiniteSet(places), NEW k, k \notin places, NEW v
    PROVE  /\ Net(chain, places, v) \in Int
           /\ Net(chain, places \cup {k}, v)
                 = Net(chain, places, v) + Change(chain, k, v)
<1>1. \A type : /\ Of(chain, places, type, v) \in Nat
                /\ Of(chain, places \cup {k}, type, v) =
                      IF chain[k].type = type /\ chain[k].value = v
                      THEN Of(chain, places, type, v) + 1
                      ELSE Of(chain, places, type, v)
  BY OfAdd
<1> DEFINE d == Of(chain, places, "keyDown", v)
           u == Of(chain, places, "keyUp", v)
<1>2. d \in Nat /\ u \in Nat
  BY <1>1
<1> HIDE DEF d, u
<1>3. Of(chain, places \cup {k}, "keyDown", v) =
         IF chain[k].type = "keyDown" /\ chain[k].value = v THEN d + 1 ELSE d
  BY <1>1 DEF d
<1>4. Of(chain, places \cup {k}, "keyUp", v) =
         IF chain[k].type = "keyUp" /\ chain[k].value = v THEN u + 1 ELSE u
  BY <1>1 DEF u
<1>5. Net(chain, places, v) = d - u
  BY DEF Net, d, u
<1> QED
  BY <1>2, <1>3, <1>4, <1>5 DEF Net, Change

LEMMA NetNone ==
    ASSUME NEW chain, NEW v
    PROVE  Net(chain, {}, v) = 0
<1>1. \A type : Of(chain, {}, type, v) = 0
  <2>1. \A type : {i \in {} : chain[i].type = type /\ chain[i].value = v} = {}
    OBVIOUS
  <2> QED
    BY <2>1, FS_EmptySet DEF Of
<1> QED
  BY <1>1 DEF Net

Rests(chain, k) == chain[k].type = "pause"

LEMMA Groups ==
    ASSUME NEW chain, Len(chain) \in Nat
    PROVE  /\ Earlier(chain, 1) = {}
           /\ Later(chain, Len(chain)) = {}
           /\ \A k \in 1 .. Len(chain) :
                 /\ IsFiniteSet(Earlier(chain, k)) /\ k \notin Earlier(chain, k)
                 /\ IsFiniteSet(Later(chain, k)) /\ k \notin Later(chain, k)
                 /\ Rests(chain, k) => Earlier(chain, k) = {} /\ Later(chain, k) = {}
           /\ \A k \in 1 .. Len(chain) : k # Len(chain) =>
                 /\ Earlier(chain, k + 1) =
                       IF Rests(chain, k) \/ Rests(chain, k + 1) THEN {}
                       ELSE Earlier(chain, k) \cup {k}
                 /\ Later(chain, k) =
                       IF Rests(chain, k) \/ Rests(chain, k + 1) THEN {}
                       ELSE Later(chain, k + 1) \cup {k + 1}
<1> DEFINE N == Len(chain)
<1>1. Earlier(chain, 1) = {}
  BY DEF Earlier
<1>2. Later(chain, N) = {}
  BY DEF Later
<1>3. ASSUME NEW k \in 1 .. N
      PROVE  /\ IsFiniteSet(Earlier(chain, k)) /\ k \notin Earlier(chain, k)
             /\ IsFiniteSet(Later(chain, k)) /\ k \notin Later(chain, k)
             /\ Rests(chain, k) => Earlier(chain, k) = {} /\ Later(chain, k) = {}
  <2>1. IsFiniteSet(1 .. N)
    BY FS_Interval
  <2>2. Earlier(chain, k) \in SUBSET (1 .. N) /\ k \notin Earlier(chain, k)
    BY DEF Earlier
  <2>3. Later(chain, k) \in SUBSET (1 .. N) /\ k \notin Later(chain, k)
    BY DEF Later
  <2>4. Rests(chain, k) => Earlier(chain, k) = {}
    BY DEF Earlier, Rests
  <2>5. Rests(chain, k) => Later(chain, k) = {}
    BY DEF Later, Rests
  <2> QED
    BY <2>1, <2>2, <2>3, <2>4, <2>5, FS_Subset
<1>4. ASSUME NEW k \in 1 .. N, k # N
      PROVE  /\ Earlier(chain, k + 1) =
                   IF Rests(chain, k) \/ Rests(chain, k + 1) THEN {}
                   ELSE Earlier(chain, k) \cup {k}
             /\ Later(chain, k) =
                   IF Rests(chain, k) \/ Rests(chain, k + 1) THEN {}
                   ELSE Later(chain, k + 1) \cup {k + 1}
  <2>1. CASE Rests(chain, k) \/ Rests(chain, k + 1)
    <3>1. Earlier(chain, k + 1) = {}
      <4>1. ASSUME NEW i \in 1 .. (k + 1) - 1 PROVE k \in i .. k + 1 /\ k + 1 \in i .. k + 1
        BY <1>4
      <4> QED
        BY <2>1, <4>1 DEF Earlier, Rests
    <3>2. Later(chain, k) = {}
      <4>1. ASSUME NEW i \in k + 1 .. N PROVE k \in k .. i /\ k + 1 \in k .. i
        BY <1>4
      <4> QED
        BY <2>1, <4>1 DEF Later, Rests
    <3> QED
      BY <2>1, <3>1, <3>2
  <2>2. CASE ~Rests(chain, k) /\ ~Rests(chain, k + 1)
    <3>1. ASSUME NEW i
          PROVE  i \in Earlier(chain, k + 1) <=> i \in Earlier(chain, k) \/ i = k
      <4>1. i \in Earlier(chain, k + 1) => i \in Earlier(chain, k) \/ i = k
        BY <1>4 DEF Earlier
      <4>2. i \in Earlier(chain, k) => i \in Earlier(chain, k + 1)
        BY <1>4, <2>2 DEF Earlier, Rests
      <4>3. k \in Earlier(chain, k + 1)
        BY <1>4, <2>2 DEF Earlier, Rests
      <4> QED
        BY <4>1, <4>2, <4>3
    <3>2. ASSUME NEW i
          PROVE  i \in Later(chain, k) <=> i \in Later(chain, k + 1) \/ i = k + 1
      <4>1. i \in Later(chain, k) => i \in Later(chain, k + 1) \/ i = k + 1
        BY <1>4 DEF Later
      <4>2. i \in Later(chain, k + 1) => i \in Later(chain, k)
        BY <1>4, <2>2 DEF Later, Rests
      <4>3. k + 1 \in Later(chain, k)
        BY <1>4, <2>2 DEF Later, Rests
      <4> QED
        BY <4>1, <4>2, <4>3
    <3> QED
      BY <2>2, <3>1, <3>2
  <2> QED
    BY <2>1, <2>2
<1> QED
  BY <1>1, <1>2, <1>3, <1>4

\* How often v is down by the items before k in its group, and up by those after.
Before(chain, k, v) == Net(chain, Earlier(chain, k), v)
After(chain, k, v) == 0 - Net(chain, Later(chain, k), v)

LEMMA Balances ==
    ASSUME NEW chain, Len(chain) \in Nat, NEW v
    PROVE  /\ Len(chain) # 0 => Before(chain, 1, v) = 0 /\ After(chain, Len(chain), v) = 0
           /\ Held(chain, 0, v) = 0
           /\ \A k \in 1 .. Len(chain) :
                 /\ Before(chain, k, v) \in Int /\ After(chain, k, v) \in Int
                 /\ Held(chain, k - 1, v) \in Int
                 /\ Held(chain, k, v) = Held(chain, k - 1, v) + Change(chain, k, v)
                 /\ Rests(chain, k) =>
                       /\ Before(chain, k, v) = 0 /\ After(chain, k, v) = 0
                       /\ Change(chain, k, v) = 0
                 /\ k # Len(chain) =>
                    /\ Before(chain, k + 1, v) =
                          IF Rests(chain, k) \/ Rests(chain, k + 1) THEN 0
                          ELSE Before(chain, k, v) + Change(chain, k, v)
                    /\ After(chain, k, v) =
                          IF Rests(chain, k) \/ Rests(chain, k + 1) THEN 0
                          ELSE After(chain, k + 1, v) - Change(chain, k + 1, v)
<1> DEFINE N == Len(chain)
<1>1. Net(chain, {}, v) = 0
  BY NetNone
<1>2. N # 0 => Before(chain, 1, v) = 0 /\ After(chain, N, v) = 0
  <2> SUFFICES ASSUME N # 0 PROVE Before(chain, 1, v) = 0 /\ After(chain, N, v) = 0
    OBVIOUS
  <2>1. Before(chain, 1, v) = Net(chain, {}, v)
    BY Groups DEF Before
  <2>2. After(chain, N, v) = 0 - Net(chain, {}, v)
    BY Groups DEF After
  <2> QED
    BY <1>1, <2>1, <2>2
<1>3. \A k : Held(chain, k, v) = Net(chain, 1 .. k, v)
  BY DEF Held, Net, Of
<1>4. Held(chain, 0, v) = 0
  <2>1. 1 .. 0 = {}
    OBVIOUS
  <2> QED
    BY <1>1, <1>3, <2>1
<1>5. ASSUME NEW k \in 1 .. N
      PROVE  /\ Held(chain, k - 1, v) \in Int
             /\ Held(chain, k, v) = Held(chain, k - 1, v) + Change(chain, k, v)
  <2>1. 1 .. k = (1 .. k - 1) \cup {k} /\ k \notin 1 .. k - 1
    OBVIOUS
  <2>2. IsFiniteSet(1 .. k - 1)
    BY FS_Interval
  <2> DEFINE P == 1 .. k - 1
  <2>3. IsFiniteSet(P) /\ k \notin P /\ 1 .. k = P \cup {k}
    BY <2>1, <2>2
  <2> HIDE DEF P
  <2>4. Net(chain, P, v) \in Int
        /\ Net(chain, P \cup {k}, v) = Net(chain, P, v) + Change(chain, k, v)
    BY <2>3, NetAdd
  <2>5. Held(chain, k - 1, v) = Net(chain, P, v)
    BY <1>3 DEF P
  <2>6. Held(chain, k, v) = Net(chain, P \cup {k}, v)
    BY <1>3, <2>3
  <2> QED
    BY <2>4, <2>5, <2>6
<1>6. ASSUME NEW k \in 1 .. N
      PROVE  /\ Net(chain, Earlier(chain, k), v) \in Int
             /\ Net(chain, Later(chain, k), v) \in Int
             /\ Net(chain, Earlier(chain, k) \cup {k}, v)
                   = Net(chain, Earlier(chain, k), v) + Change(chain, k, v)
             /\ Net(chain, Later(chain, k) \cup {k}, v)
                   = Net(chain, Later(chain, k), v) + Change(chain, k, v)
  <2>1. /\ IsFiniteSet(Earlier(chain, k)) /\ k \notin Earlier(chain, k)
        /\ IsFiniteSet(Later(chain, k)) /\ k \notin Later(chain, k)
    BY Groups
  <2> QED
    BY <2>1, NetAdd
<1>7. ASSUME NEW k \in 1 .. N, Rests(chain, k)
      PROVE  /\ Before(chain, k, v) = 0 /\ After(chain, k, v) = 0
             /\ Change(chain, k, v) = 0
  <2>1. Earlier(chain, k) = {} /\ Later(chain, k) = {}
    BY <1>7, Groups
  <2>2. Change(chain, k, v) = 0
    BY <1>7 DEF Change, Rests
  <2> QED
    BY <1>1, <2>1, <2>2 DEF Before, After
<1>8. ASSUME NEW k \in 1 .. N, k # N
      PROVE  /\ Before(chain, k + 1, v) =
                   IF Rests(chain, k) \/ Rests(chain, k + 1) THEN 0
                   ELSE Before(chain, k, v) + Change(chain, k, v)
             /\ After(chain, k, v) =
                   IF Rests(chain, k) \/ Rests(chain, k + 1) THEN 0
                   ELSE After(chain, k + 1, v) - Change(chain, k + 1, v)
  <2> DEFINE apart == Rests(chain, k) \/ Rests(chain, k + 1)
  <2>1. /\ Earlier(chain, k + 1) = IF apart THEN {} ELSE Earlier(chain, k) \cup {k}
        /\ Later(chain, k) = IF apart THEN {} ELSE Later(chain, k + 1) \cup {k + 1}
    BY <1>8, Groups
  <2>2. k + 1 \in 1 .. N
    BY <1>8
  <2> HIDE DEF apart
  <2>3. Before(chain, k + 1, v) =
           IF apart THEN 0 ELSE Before(chain, k, v) + Change(chain, k, v)
    BY <1>1, <1>6, <2>1 DEF Before
  <2>4. After(chain, k, v) =
           IF apart THEN 0 ELSE After(chain, k + 1, v) - Change(chain, k + 1, v)
    <3>1. CASE apart
      BY <1>1, <2>1, <3>1 DEF After
    <3>2. CASE ~apart
      <4> DEFINE a == Net(chain, Later(chain, k + 1), v)
                 d == Change(chain, k + 1, v)
      <4>1. a \in Int /\ Net(chain, Later(chain, k), v) = a + d
        BY <1>6, <2>1, <2>2, <3>2
      <4>2. d \in Int
        BY DEF Change
      <4> HIDE DEF a, d
      <4>3. 0 - (a + d) = (0 - a) - d
        BY <4>1, <4>2
      <4> QED
        BY <3>2, <4>1, <4>3 DEF After, a, d
    <3> QED
      BY <3>1, <3>2
  <2> QED
    BY <2>3, <2>4 DEF apart
<1>9. ASSUME NEW k \in 1 .. N
      PROVE  Before(chain, k, v) \in Int /\ After(chain, k, v) \in Int
  <2> DEFINE a == Net(chain, Later(chain, k), v)
  <2>1. a \in Int /\ Net(chain, Earlier(chain, k), v) \in Int
    BY <1>6
  <2> HIDE DEF a
  <2>2. 0 - a \in Int
    BY <2>1
  <2> QED
    BY <2>1, <2>2 DEF Before, After, a
<1> QED
  BY <1>2, <1>4, <1>5, <1>7, <1>8, <1>9

LEMMA Pairs ==
    ASSUME NEW chain, Len(chain) \in Nat, NEW k \in 1 .. Len(chain)
    PROVE  /\ HasDownPair(chain, k) <=> Before(chain, k, chain[k].value) = 1
           /\ HasUpPair(chain, k) <=> After(chain, k, chain[k].value) = 1
<1>1. /\ IsFiniteSet(Earlier(chain, k)) /\ k \notin Earlier(chain, k)
      /\ IsFiniteSet(Later(chain, k)) /\ k \notin Later(chain, k)
  BY Groups
<1>2. \A type, v : /\ Of(chain, Earlier(chain, k), type, v) \in Nat
                   /\ Of(chain, Later(chain, k), type, v) \in Nat
  BY <1>1, OfAdd
<1> QED
  BY <1>2 DEF HasDownPair, HasUpPair, Before, After, Net

\* Every press has its release in the group and the other way round.
Paired(chain) ==
    \A k \in 1 .. Len(chain) :
       /\ chain[k].type = "keyDown" => HasUpPair(chain, k)
       /\ chain[k].type = "keyUp" => HasDownPair(chain, k)

\* IsTyping, of a chain that has no unusable item.
Balanced(chain, V) ==
    \A k \in 1 .. Len(chain), v \in V :
       IF Rests(chain, k) \/ k = Len(chain) THEN Held(chain, k, v) = 0
       ELSE Held(chain, k, v) \in {0, 1}

\* What Before becomes with item k.
Reached(chain, k, v) ==
    IF k = 0 THEN 0 ELSE Before(chain, k, v) + Change(chain, k, v)

LEMMA ReachedNext ==
    ASSUME NEW chain, Len(chain) \in Nat, NEW v
    PROVE  /\ Reached(chain, 0, v) = 0
           /\ \A k \in 1 .. Len(chain) :
                 /\ Reached(chain, k - 1, v) \in Int
                 /\ Change(chain, k, v) \in Int
                 /\ Before(chain, k, v) =
                       IF Rests(chain, k) THEN 0 ELSE Reached(chain, k - 1, v)
                 /\ Reached(chain, k, v) =
                       IF Rests(chain, k) THEN 0
                       ELSE Reached(chain, k - 1, v) + Change(chain, k, v)
<1> DEFINE N == Len(chain)
           F(k) == Before(chain, k, v)
           D(k) == Change(chain, k, v)
<1>1. /\ N # 0 => F(1) = 0
      /\ \A k \in 1 .. N :
            /\ F(k) \in Int
            /\ Rests(chain, k) => F(k) = 0 /\ D(k) = 0
            /\ k # N => F(k + 1) = IF Rests(chain, k) \/ Rests(chain, k + 1) THEN 0
                                   ELSE F(k) + D(k)
  BY Balances
<1>2. \A k : D(k) \in Int
  BY DEF Change
<1>3. \A k \in 1 .. N : Reached(chain, k, v) = F(k) + D(k)
  BY DEF Reached
<1>4. Reached(chain, 0, v) = 0
  BY DEF Reached
<1> HIDE DEF F, D
<1>5. ASSUME NEW k \in 1 .. N
      PROVE  /\ Reached(chain, k - 1, v) \in Int
             /\ F(k) = IF Rests(chain, k) THEN 0 ELSE Reached(chain, k - 1, v)
  <2>1. CASE k = 1
    BY <1>1, <1>4, <2>1
  <2>2. CASE k # 1
    <3>1. k - 1 \in 1 .. N /\ k - 1 # N /\ (k - 1) + 1 = k
      BY <2>2
    <3>2. F(k) = IF Rests(chain, k - 1) \/ Rests(chain, k) THEN 0
                 ELSE F(k - 1) + D(k - 1)
      BY <1>1, <3>1
    <3>3. F(k - 1) \in Int /\ (Rests(chain, k - 1) => F(k - 1) = 0 /\ D(k - 1) = 0)
      BY <1>1, <3>1
    <3>4. Reached(chain, k - 1, v) = F(k - 1) + D(k - 1)
      BY <1>3, <3>1
    <3> QED
      BY <1>2, <3>2, <3>3, <3>4
  <2> QED
    BY <2>1, <2>2
<1>6. ASSUME NEW k \in 1 .. N
      PROVE  Reached(chain, k, v) =
                IF Rests(chain, k) THEN 0 ELSE Reached(chain, k - 1, v) + D(k)
  BY <1>1, <1>3, <1>5
<1> QED
  BY <1>2, <1>4, <1>5, <1>6 DEF F, D

\* Keys that are pressed once at a time and not held over a pause are paired.
LEMMA BalancedPaired ==
    ASSUME NEW V, NEW chain, KeyChain(chain, V), Balanced(chain, V)
    PROVE  Paired(chain)
<1> DEFINE N == Len(chain)
<1>1. N \in Nat
  BY LenNat DEF KeyChain
<1>2. ASSUME NEW v \in V PROVE \A k \in 0 .. N : Reached(chain, k, v) = Held(chain, k, v)
  <2> DEFINE T == {k \in Nat : k <= N => Reached(chain, k, v) = Held(chain, k, v)}
  <2>1. 0 \in T
    BY <1>1, Balances, ReachedNext
  <2>2. ASSUME NEW k \in Nat, k \in T, k + 1 <= N
        PROVE  Reached(chain, k + 1, v) = Held(chain, k + 1, v)
    <3>1. k + 1 \in 1 .. N /\ (k + 1) - 1 = k
      BY <1>1, <2>2
    <3>2. Reached(chain, k, v) = Held(chain, k, v)
      BY <1>1, <2>2
    <3>3. Reached(chain, k + 1, v) =
             IF Rests(chain, k + 1) THEN 0
             ELSE Reached(chain, k, v) + Change(chain, k + 1, v)
      BY <1>1, <3>1, ReachedNext
    <3>4. Held(chain, k + 1, v) = Held(chain, k, v) + Change(chain, k + 1, v)
      BY <1>1, <3>1, Balances
    <3>5. Rests(chain, k + 1) => Held(chain, k + 1, v) = 0
      BY <3>1 DEF Balanced
    <3> QED
      BY <3>2, <3>3, <3>4, <3>5
  <2>3. Nat \subseteq T
    <3>1. \A k \in Nat : k \in T => k + 1 \in T
      BY <1>1, <2>2
    <3> HIDE DEF T
    <3> QED
      BY <2>1, <3>1, Induction
  <2> QED
    BY <1>1, <2>3
<1>3. ASSUME NEW v \in V PROVE \A k \in 1 .. N : After(chain, k, v) = Held(chain, k, v)
  <2> DEFINE Meet(k) == After(chain, k, v) = Held(chain, k, v)
             T == {m \in Nat : m < N => Meet(N - m)}
  <2>1. 0 \in T
    <3> SUFFICES ASSUME N # 0 PROVE After(chain, N, v) = Held(chain, N, v)
      BY <1>1
    <3>1. N \in 1 .. N
      BY <1>1
    <3> QED
      BY <1>1, <3>1, Balances DEF Balanced
  <2>2. ASSUME NEW m \in Nat, m \in T, m + 1 < N
        PROVE  Meet(N - (m + 1))
    <3> DEFINE k == N - (m + 1)
    <3>1. /\ k \in 1 .. N /\ k # N /\ N - m = k + 1
          /\ k + 1 \in 1 .. N /\ (k + 1) - 1 = k
      BY <1>1, <2>2
    <3>2. Meet(k + 1)
      <4>1. m < N
        BY <1>1, <2>2
      <4>2. Meet(N - m)
        BY <2>2, <4>1
      <4> HIDE DEF Meet, k
      <4> QED
        BY <3>1, <4>2
    <3> HIDE DEF k
    <3>3. After(chain, k, v) =
             IF Rests(chain, k) \/ Rests(chain, k + 1) THEN 0
             ELSE After(chain, k + 1, v) - Change(chain, k + 1, v)
      BY <1>1, <3>1, Balances
    <3>4. /\ Held(chain, k, v) \in Int
          /\ Held(chain, k + 1, v) = Held(chain, k, v) + Change(chain, k + 1, v)
      BY <1>1, <3>1, Balances
    <3>5. Rests(chain, k) => Held(chain, k, v) = 0
      BY <3>1 DEF Balanced
    <3>6. Rests(chain, k + 1) =>
             Held(chain, k + 1, v) = 0 /\ Change(chain, k + 1, v) = 0
      BY <1>1, <3>1, Balances DEF Balanced
    <3>7. Change(chain, k + 1, v) \in Int
      BY DEF Change
    <3>8. After(chain, k, v) = Held(chain, k, v)
      BY <3>2, <3>3, <3>4, <3>5, <3>6, <3>7
    <3> QED
      BY <3>8 DEF k
  <2>3. Nat \subseteq T
    <3>1. ASSUME NEW m \in Nat, m \in T PROVE m + 1 \in T
      <4> HIDE DEF Meet
      <4>1. m + 1 < N => Meet(N - (m + 1))
        BY <2>2, <3>1, Zenon
      <4>2. m + 1 \in Nat
        OBVIOUS
      <4> QED
        BY <4>1, <4>2
    <3> HIDE DEF T
    <3> QED
      BY <2>1, <3>1, Induction
  <2>4. ASSUME NEW k \in 1 .. N PROVE After(chain, k, v) = Held(chain, k, v)
    <3>1. N - k \in Nat /\ N - k < N /\ N - (N - k) = k
      BY <1>1
    <3> QED
      BY <2>3, <3>1
  <2> QED
    BY <2>4
<1>4. ASSUME NEW k \in 1 .. N, chain[k].type = "keyDown"
      PROVE  HasUpPair(chain, k)
  <2> DEFINE v == chain[k].value
  <2>1. v \in V
    BY DEF KeyChain
  <2>2. Change(chain, k, v) = 1
    BY <1>4 DEF Change
  <2> HIDE DEF v
  <2>3. Held(chain, k, v) = Held(chain, k - 1, v) + 1 /\ Held(chain, k - 1, v) \in Int
    BY <1>1, <2>2, Balances
  <2>4. Held(chain, k, v) \in {0, 1}
    BY <2>1 DEF Balanced
  <2>5. k - 1 = 0 => Held(chain, k - 1, v) = 0
    BY <1>1, Balances
  <2>6. k - 1 # 0 => Held(chain, k - 1, v) \in {0, 1}
    <3>1. k - 1 # 0 => k - 1 \in 1 .. N
      OBVIOUS
    <3> QED
      BY <2>1, <3>1 DEF Balanced
  <2>7. Held(chain, k, v) = 1
    BY <2>3, <2>4, <2>5, <2>6
  <2>8. After(chain, k, v) = 1
    BY <1>3, <2>1, <2>7
  <2> QED
    BY <1>1, <2>8, Pairs DEF v
<1>5. ASSUME NEW k \in 1 .. N, chain[k].type = "keyUp"
      PROVE  HasDownPair(chain, k)
  <2> DEFINE v == chain[k].value
  <2>1. v \in V
    BY DEF KeyChain
  <2>2. Change(chain, k, v) = 0 - 1 /\ ~Rests(chain, k)
    BY <1>5 DEF Change, Rests
  <2> HIDE DEF v
  <2>3. Held(chain, k, v) = Held(chain, k - 1, v) - 1 /\ Held(chain, k - 1, v) \in Int
    BY <1>1, <2>2, Balances
  <2>4. Held(chain, k, v) \in {0, 1}
    BY <2>1 DEF Balanced
  <2>5. k - 1 = 0 => Held(chain, k - 1, v) = 0
    BY <1>1, Balances
  <2>6. k - 1 # 0 => Held(chain, k - 1, v) \in {0, 1}
    <3>1. k - 1 # 0 => k - 1 \in 1 .. N
      OBVIOUS
    <3> QED
      BY <2>1, <3>1 DEF Balanced
  <2>7. Held(chain, k - 1, v) = 1
    BY <2>3, <2>4, <2>5, <2>6
  <2>8. Reached(chain, k - 1, v) = 1
    <3>1. k - 1 \in 0 .. N
      OBVIOUS
    <3> QED
      BY <1>2, <2>1, <2>7, <3>1
  <2>9. Before(chain, k, v) = 1
    BY <1>1, <2>2, <2>8, ReachedNext
  <2> QED
    BY <1>1, <2>9, Pairs DEF v
<1> QED
  BY <1>4, <1>5 DEF Paired

\* And keys that are paired are pressed once at a time and held over no pause:
\* a key that is down has its release ahead, and no press before it.
LEMMA PairedBalanced ==
    ASSUME NEW V, NEW chain, KeyChain(chain, V), Paired(chain)
    PROVE  Balanced(chain, V)
<1> DEFINE N == Len(chain)
<1>1. N \in Nat
  BY LenNat DEF KeyChain
<1>2. SUFFICES ASSUME NEW v \in V, NEW k \in 1 .. N
               PROVE  /\ Held(chain, k, v) \in {0, 1}
                      /\ Rests(chain, k) \/ k = N => Held(chain, k, v) = 0
  BY DEF Balanced
<1> DEFINE A(m) == Reached(chain, m, v)
           B(m) == After(chain, m, v)
           D(m) == Change(chain, m, v)
           H(m) == Held(chain, m, v)
           P(m) == Rests(chain, m)
<1>3. /\ A(0) = 0
      /\ \A m \in 1 .. N :
            /\ A(m - 1) \in Int /\ D(m) \in Int
            /\ Before(chain, m, v) = IF P(m) THEN 0 ELSE A(m - 1)
            /\ A(m) = IF P(m) THEN 0 ELSE A(m - 1) + D(m)
  BY <1>1, ReachedNext
<1>4. /\ N # 0 => B(N) = 0
      /\ H(0) = 0
      /\ \A m \in 1 .. N :
            /\ B(m) \in Int /\ H(m - 1) \in Int
            /\ H(m) = H(m - 1) + D(m)
            /\ P(m) => B(m) = 0 /\ D(m) = 0
            /\ m # N => B(m) = IF P(m) \/ P(m + 1) THEN 0 ELSE B(m + 1) - D(m + 1)
  BY <1>1, Balances
<1>5. ASSUME NEW m \in 1 .. N
      PROVE  \/ D(m) = 0
             \/ D(m) = 1 /\ B(m) = 1 /\ ~P(m)
             \/ D(m) = 0 - 1 /\ Before(chain, m, v) = 1 /\ ~P(m)
  <2>1. CASE chain[m].value # v
    BY <2>1 DEF Change
  <2>2. CASE chain[m].value = v /\ chain[m].type = "keyDown"
    <3>1. D(m) = 1 /\ ~P(m)
      BY <2>2 DEF Change, Rests
    <3>2. HasUpPair(chain, m)
      BY <2>2 DEF Paired
    <3> QED
      BY <1>1, <2>2, <3>1, <3>2, Pairs
  <2>3. CASE chain[m].value = v /\ chain[m].type = "keyUp"
    <3>1. D(m) = 0 - 1 /\ ~P(m)
      BY <2>3 DEF Change, Rests
    <3>2. HasDownPair(chain, m)
      BY <2>3 DEF Paired
    <3> QED
      BY <1>1, <2>3, <3>1, <3>2, Pairs
  <2>4. CASE chain[m].type = "pause"
    BY <2>4 DEF Change
  <2> QED
    BY <2>1, <2>2, <2>3, <2>4 DEF KeyChain
<1> HIDE DEF A, B, D, H, P
<1> DEFINE Good(m) == /\ A(m) \in {0, 1}
                      /\ A(m) = 1 => m # 0 /\ B(m) = 1
                      /\ H(m) = A(m)
           T == {m \in Nat : m <= N => Good(m)}
\* No key is left down where B says that nothing is to be released.
<1>6. ASSUME NEW m \in Nat, m < N, Good(m), P(m + 1) PROVE A(m) = 0
  <2> SUFFICES ASSUME A(m) = 1 PROVE FALSE
    BY <1>6
  <2>1. m \in 1 .. N /\ m # N /\ B(m) = 1
    BY <1>1, <1>6
  <2> QED
    BY <1>4, <1>6, <2>1
<1>7. ASSUME NEW m \in Nat, m + 1 <= N, Good(m) PROVE Good(m + 1)
  <2>1. /\ m + 1 \in 1 .. N /\ (m + 1) - 1 = m /\ m + 1 # 0
        /\ m # 0 => m \in 1 .. N /\ m # N
    BY <1>1, <1>7
  <2>2. /\ D(m + 1) \in Int
        /\ Before(chain, m + 1, v) = IF P(m + 1) THEN 0 ELSE A(m)
        /\ A(m + 1) = IF P(m + 1) THEN 0 ELSE A(m) + D(m + 1)
    BY <1>3, <2>1
  <2>3. H(m + 1) = H(m) + D(m + 1) /\ (P(m + 1) => D(m + 1) = 0)
    BY <1>4, <2>1
  <2>4. CASE P(m + 1)
    <3>1. A(m) = 0
      BY <1>1, <1>6, <1>7, <2>4
    <3> QED
      BY <1>7, <2>2, <2>3, <2>4, <3>1
  <2>5. CASE ~P(m + 1)
    <3>1. H(m + 1) = A(m + 1)
      BY <1>7, <2>2, <2>3, <2>5
    <3>2. A(m) = 1 => B(m) = 1 /\ B(m) = B(m + 1) - D(m + 1) /\ B(m + 1) \in Int
      <4> SUFFICES ASSUME A(m) = 1
                   PROVE  B(m) = 1 /\ B(m) = B(m + 1) - D(m + 1) /\ B(m + 1) \in Int
        OBVIOUS
      <4>1. B(m) = 1 /\ m # 0
        BY <1>7
      <4>2. B(m) = IF P(m) \/ P(m + 1) THEN 0 ELSE B(m + 1) - D(m + 1)
        BY <1>4, <2>1, <4>1
      <4>3. B(m + 1) \in Int
        BY <1>4, <2>1
      <4> QED
        BY <4>1, <4>2, <4>3
    <3>3. CASE D(m + 1) = 0
      BY <1>7, <2>1, <2>2, <2>5, <3>1, <3>2, <3>3
    <3>4. CASE D(m + 1) = 1 /\ B(m + 1) = 1
      <4>1. A(m) = 0
        BY <1>7, <3>2, <3>4
      <4> QED
        BY <2>1, <2>2, <2>5, <3>1, <3>4, <4>1
    <3>5. CASE D(m + 1) = 0 - 1 /\ Before(chain, m + 1, v) = 1
      <4>1. A(m) = 1
        BY <2>2, <2>5, <3>5
      <4>2. A(m + 1) = 0
        BY <2>2, <2>5, <3>5, <4>1
      <4> QED
        BY <3>1, <4>2
    <3> QED
      BY <1>5, <2>1, <3>3, <3>4, <3>5
  <2> QED
    BY <2>4, <2>5
<1>8. Good(0)
  BY <1>3, <1>4
<1>9. Nat \subseteq T
  <2>1. 0 \in T /\ \A m \in Nat : m \in T => m + 1 \in T
    BY <1>1, <1>7, <1>8
  <2> HIDE DEF T
  <2> QED
    BY <2>1, Induction
<1>10. Good(k) /\ k \in Nat
  BY <1>1, <1>9
<1>11. P(k) => A(k) = 0
  BY <1>3
<1>12. k = N => A(k) = 0
  BY <1>4, <1>10
<1> QED
  BY <1>10, <1>11, <1>12 DEF H, P

-----------------------------------------------------------------------------
(* What is typed.                                                            *)

\* It depends on the releases there only.
LEMMA TypedSame ==
    ASSUME NEW c, Len(c) \in Nat, NEW d, Len(d) \in Nat, NEW P, NEW Q,
           NEW m \in Nat, m <= Len(c), m <= Len(d),
           \A i \in 1 .. m : /\ i \in P <=> i \in Q
                             /\ c[i].type = d[i].type /\ c[i].value = d[i].value
    PROVE  Typed(c, P)[m] = Typed(d, Q)[m]
<1> DEFINE s == Typed(c, P)
           t == Typed(d, Q)
           T == {n \in Nat : n <= m => s[n] = t[n]}
<1>1. /\ s[0] = <<>>
      /\ \A k \in 1 .. Len(c) :
            s[k] = IF k \in P /\ c[k].type = "keyUp"
                   THEN s[k - 1] \o MapIfSpecialCharacter(c[k].value) ELSE s[k - 1]
  BY TypedDef
<1>2. /\ t[0] = <<>>
      /\ \A k \in 1 .. Len(d) :
            t[k] = IF k \in Q /\ d[k].type = "keyUp"
                   THEN t[k - 1] \o MapIfSpecialCharacter(d[k].value) ELSE t[k - 1]
  BY TypedDef
<1> HIDE DEF s, t
<1>3. s[0] = t[0]
  BY <1>1, <1>2
<1>4. ASSUME NEW n \in Nat, n \in T, n + 1 <= m PROVE s[n + 1] = t[n + 1]
  <2>1. /\ n + 1 \in 1 .. Len(c) /\ n + 1 \in 1 .. Len(d)
        /\ (n + 1) - 1 = n /\ n + 1 \in 1 .. m
    BY <1>4
  <2>2. s[n] = t[n]
    BY <1>4
  <2>3. s[n + 1] = IF n + 1 \in P /\ c[n + 1].type = "keyUp"
                   THEN s[n] \o MapIfSpecialCharacter(c[n + 1].value) ELSE s[n]
    BY <1>1, <2>1
  <2>4. t[n + 1] = IF n + 1 \in Q /\ d[n + 1].type = "keyUp"
                   THEN t[n] \o MapIfSpecialCharacter(d[n + 1].value) ELSE t[n]
    BY <1>2, <2>1
  <2> QED
    BY <2>1, <2>2, <2>3, <2>4
<1>5. Nat \subseteq T
  <2>1. 0 \in T /\ \A n \in Nat : n \in T => n + 1 \in T
    BY <1>3, <1>4
  <2> HIDE DEF T
  <2> QED
    BY <2>1, Induction
<1> QED
  BY <1>5 DEF s, t

\* Items that are not among the places add nothing.
LEMMA TypedKept ==
    ASSUME NEW c, Len(c) \in Nat, NEW P, NEW m \in Nat, NEW n \in Nat,
           m <= n, n <= Len(c), \A i \in m + 1 .. n : i \notin P
    PROVE  Typed(c, P)[n] = Typed(c, P)[m]
<1> DEFINE s == Typed(c, P)
           T == {l \in Nat : m + l <= n => s[m + l] = s[m]}
<1>1. \A k \in 1 .. Len(c) : k \notin P => s[k] = s[k - 1]
  BY TypedDef
<1> HIDE DEF s
<1>2. 0 \in T
  OBVIOUS
<1>3. ASSUME NEW l \in Nat, l \in T, m + (l + 1) <= n PROVE s[m + (l + 1)] = s[m]
  <2>1. /\ m + (l + 1) \in 1 .. Len(c) /\ m + (l + 1) \notin P
        /\ (m + (l + 1)) - 1 = m + l
    BY <1>3
  <2>2. s[m + l] = s[m]
    BY <1>3
  <2> QED
    BY <1>1, <2>1, <2>2
<1>4. Nat \subseteq T
  <2>1. \A l \in Nat : l \in T => l + 1 \in T
    BY <1>3
  <2> HIDE DEF T
  <2> QED
    BY <1>2, <2>1, Induction
<1>5. n - m \in Nat /\ m + (n - m) = n
  OBVIOUS
<1> QED
  BY <1>4, <1>5 DEF s

LEMMA TypedSeq ==
    ASSUME NEW c, Len(c) \in Nat, NEW P, NEW V,
           \A i \in 1 .. Len(c) : c[i].value \in V
    PROVE  \A n \in 0 .. Len(c) : Typed(c, P)[n] \in Seq(V)
<1> DEFINE s == Typed(c, P)
           T == {n \in Nat : n <= Len(c) => s[n] \in Seq(V)}
<1>1. s[0] \in Seq(V)
  BY TypedDef, EmptySeq
<1>2. \A k \in 1 .. Len(c) :
         s[k] = IF k \in P /\ c[k].type = "keyUp"
                THEN s[k - 1] \o MapIfSpecialCharacter(c[k].value) ELSE s[k - 1]
  BY TypedDef
<1> HIDE DEF s
<1>3. ASSUME NEW n \in Nat, n \in T, n + 1 <= Len(c) PROVE s[n + 1] \in Seq(V)
  <2>1. n + 1 \in 1 .. Len(c) /\ (n + 1) - 1 = n
    BY <1>3
  <2>2. s[n] \in Seq(V)
    BY <1>3
  <2> DEFINE more == MapIfSpecialCharacter(c[n + 1].value)
  <2>3. more \in Seq(V)
    BY <2>1 DEF MapIfSpecialCharacter
  <2> HIDE DEF more
  <2>4. s[n + 1] = s[n] \/ s[n + 1] = s[n] \o more
    BY <1>2, <2>1 DEF more
  <2>5. s[n] \o more \in Seq(V)
    BY <2>2, <2>3
  <2> QED
    BY <2>2, <2>4, <2>5
<1>4. Nat \subseteq T
  <2>1. 0 \in T /\ \A n \in Nat : n \in T => n + 1 \in T
    BY <1>1, <1>3
  <2> HIDE DEF T
  <2> QED
    BY <2>1, Induction
<1> QED
  BY <1>4 DEF s

LEMMA TextsAppend ==
    ASSUME NEW paths, IsSeq(paths), NEW event
    PROVE  LET more == NewPath(paths, event)
           IN  /\ IsSeq(more)
               /\ Texts(more)[Len(more)] = Texts(paths)[Len(paths)] \o event.text
<1> DEFINE more == NewPath(paths, event)
           N == Len(paths)
           s == Texts(more)
           t == Texts(paths)
           T == {n \in Nat : n <= N => s[n] = t[n]}
<1>1. N \in Nat
  BY LenNat
<1>2. /\ IsSeq(more) /\ Len(more) = N + 1
      /\ \A i \in 1 .. N : more[i] = paths[i]
      /\ more[N + 1] = <<event>>
  BY AppendSeq DEF NewPath
<1> HIDE DEF more
<1>3. s[0] = <<>> /\ \A k \in 1 .. N + 1 : s[k] = s[k - 1] \o more[k][1].text
  <2>1. Len(more) \in Nat
    BY <1>1, <1>2
  <2>2. s[0] = <<>> /\ \A k \in 1 .. Len(more) : s[k] = s[k - 1] \o more[k][1].text
    BY <2>1, TextsDef
  <2> HIDE DEF s
  <2> QED
    BY <1>2, <2>2
<1>4. t[0] = <<>> /\ \A k \in 1 .. N : t[k] = t[k - 1] \o paths[k][1].text
  BY <1>1, TextsDef
<1> HIDE DEF s, t, N
<1>5. 0 \in T
  BY <1>1, <1>3, <1>4
<1>6. ASSUME NEW n \in Nat, n \in T, n + 1 <= N PROVE s[n + 1] = t[n + 1]
  <2>1. n + 1 \in 1 .. N /\ n + 1 \in 1 .. N + 1 /\ (n + 1) - 1 = n
    BY <1>1, <1>6
  <2>2. s[n] = t[n]
    BY <1>1, <1>6
  <2>3. s[n + 1] = s[n] \o more[n + 1][1].text
    BY <1>3, <2>1
  <2>4. t[n + 1] = t[n] \o paths[n + 1][1].text
    BY <1>4, <2>1
  <2> QED
    BY <1>2, <2>1, <2>2, <2>3, <2>4
<1>7. Nat \subseteq T
  <2>1. \A n \in Nat : n \in T => n + 1 \in T
    BY <1>6
  <2> HIDE DEF T
  <2> QED
    BY <1>5, <2>1, Induction
<1>8. s[N] = t[N]
  BY <1>1, <1>7
<1>9. s[N + 1] = s[N] \o more[N + 1][1].text
  <2>1. N + 1 \in 1 .. N + 1 /\ (N + 1) - 1 = N
    BY <1>1
  <2> QED
    BY <1>3, <2>1
<1>10. more[N + 1][1] = event
  BY <1>2
<1> QED
  BY <1>2, <1>8, <1>9, <1>10 DEF s, t, N, more

\* What an item types, what its group has typed with it, and what of that the next
\* item finds: a group begins anew behind a pause.
Gained(chain, k) ==
    IF chain[k].type = "keyUp" THEN MapIfSpecialCharacter(chain[k].value) ELSE <<>>

GroupText(chain, k) == Typed(chain, Earlier(chain, k) \cup {k})[k]

Carried(chain, k) == IF k = 0 \/ Rests(chain, k) THEN <<>> ELSE GroupText(chain, k)

GroupEnds(chain, k) == k = Len(chain) \/ Rests(chain, k + 1)

LEMMA TextsOfGroups ==
    ASSUME NEW V, NEW chain, KeyChain(chain, V)
    PROVE  /\ \A k \in 1 .. Len(chain) :
                 /\ Gained(chain, k) \in Seq(V)
                 /\ Carried(chain, k - 1) \in Seq(V)
                 /\ CollectText(chain, k) = GroupText(chain, k)
                 /\ Rests(chain, k) => Gained(chain, k) = <<>>
                 /\ ~Rests(chain, k) =>
                       GroupText(chain, k) = Carried(chain, k - 1) \o Gained(chain, k)
                 /\ Typed(chain, 1 .. Len(chain))[k - 1] \in Seq(V)
                 /\ Typed(chain, 1 .. Len(chain))[k]
                       = Typed(chain, 1 .. Len(chain))[k - 1] \o Gained(chain, k)
           /\ Typed(chain, 1 .. Len(chain))[0] = <<>>
<1> DEFINE N == Len(chain)
<1>1. N \in Nat
  BY LenNat DEF KeyChain
<1>2. \A P : \A n \in 0 .. N : Typed(chain, P)[n] \in Seq(V)
  BY <1>1, TypedSeq DEF KeyChain
<1>3. ASSUME NEW k \in 1 .. N
      PROVE  Gained(chain, k) \in Seq(V) /\ (Rests(chain, k) => Gained(chain, k) = <<>>)
  BY DEF Gained, MapIfSpecialCharacter, KeyChain, Rests
<1>4. ASSUME NEW P, NEW k \in 1 .. N
      PROVE  /\ k \in P => Typed(chain, P)[k] = Typed(chain, P)[k - 1] \o Gained(chain, k)
             /\ k \notin P => Typed(chain, P)[k] = Typed(chain, P)[k - 1]
  <2> DEFINE s == Typed(chain, P)
             m == MapIfSpecialCharacter(chain[k].value)
  <2>1. s[k] = IF k \in P /\ chain[k].type = "keyUp" THEN s[k - 1] \o m ELSE s[k - 1]
    BY <1>1, TypedDef
  <2>2. s[k - 1] \in Seq(V)
    <3>1. k - 1 \in 0 .. N
      OBVIOUS
    <3> QED
      BY <1>2, <3>1
  <2> DEFINE t == s[k - 1]
  <2> HIDE DEF s, m, t
  <2>3. t \o <<>> = t
    BY <2>2, ConcatEmptySeq DEF t
  <2> QED
    BY <2>1, <2>3 DEF s, m, t, Gained
<1>5. ASSUME NEW k \in 1 .. N PROVE CollectText(chain, k) = GroupText(chain, k)
  <2>1. Earlier(chain, k) \subseteq 1 .. k - 1
    BY DEF Earlier
  <2>2. \A i \in k + 1 .. N : i \notin Earlier(chain, k) \cup {k}
    BY <2>1
  <2> DEFINE P == Earlier(chain, k) \cup {k}
  <2>3. \A i \in k + 1 .. N : i \notin P
    BY <2>2
  <2> HIDE DEF P
  <2>4. k \in Nat /\ k <= N
    OBVIOUS
  <2>5. Typed(chain, P)[N] = Typed(chain, P)[k]
    BY <1>1, <2>3, <2>4, TypedKept
  <2> QED
    BY <2>5 DEF CollectText, GroupText, P
<1>6. ASSUME NEW k \in 1 .. N, ~Rests(chain, k)
      PROVE  GroupText(chain, k) = Carried(chain, k - 1) \o Gained(chain, k)
  <2> DEFINE P == Earlier(chain, k) \cup {k}
  <2>1. GroupText(chain, k) = Typed(chain, P)[k - 1] \o Gained(chain, k)
    <3>1. k \in P
      OBVIOUS
    <3> HIDE DEF P
    <3>2. Typed(chain, P)[k] = Typed(chain, P)[k - 1] \o Gained(chain, k)
      BY <1>4, <3>1
    <3> QED
      BY <3>2 DEF GroupText, P
  <2>2. Typed(chain, P)[k - 1] = Carried(chain, k - 1)
    <3>1. CASE k = 1 \/ Rests(chain, k - 1)
      <4>1. Earlier(chain, k) = {}
        <5>1. k # 1 => k - 1 \in 1 .. N /\ k - 1 # N /\ (k - 1) + 1 = k
          OBVIOUS
        <5> QED
          BY <1>1, <3>1, <5>1, Groups
      <4>2. \A i \in 0 + 1 .. k - 1 : i \notin P
        BY <4>1
      <4> HIDE DEF P
      <4>3. 0 \in Nat /\ k - 1 \in Nat /\ 0 <= k - 1 /\ k - 1 <= N
        OBVIOUS
      <4>4. Typed(chain, P)[k - 1] = Typed(chain, P)[0]
        BY <1>1, <4>2, <4>3, TypedKept
      <4>5. Typed(chain, P)[0] = <<>>
        BY <1>1, TypedDef
      <4>6. Carried(chain, k - 1) = <<>>
        BY <3>1 DEF Carried
      <4> QED
        BY <4>4, <4>5, <4>6
    <3>2. CASE ~(k = 1 \/ Rests(chain, k - 1))
      <4> DEFINE j == k - 1
                 Q == Earlier(chain, j) \cup {j}
      <4>1. j \in 1 .. N /\ j # N /\ j + 1 = k
        BY <3>2
      <4> HIDE DEF j
      <4>2. Earlier(chain, k) = Q
        <5>1. ~Rests(chain, j) /\ ~Rests(chain, j + 1)
          BY <1>6, <3>2, <4>1 DEF j
        <5>2. Earlier(chain, j + 1) = Q
          BY <1>1, <4>1, <5>1, Groups
        <5> QED
          BY <4>1, <5>2
      <4>3. \A i \in 1 .. j : /\ i \in P <=> i \in Q
                              /\ chain[i].type = chain[i].type
                              /\ chain[i].value = chain[i].value
        BY <4>1, <4>2
      <4> HIDE DEF P, Q
      <4>4. j \in Nat /\ j <= N
        BY <4>1
      <4>5. Typed(chain, P)[j] = Typed(chain, Q)[j]
        BY <1>1, <4>3, <4>4, TypedSame
      <4>6. Carried(chain, j) = Typed(chain, Q)[j]
        BY <3>2, <4>1 DEF Carried, GroupText, Q, j
      <4> QED
        BY <4>5, <4>6 DEF j
    <3> QED
      BY <3>1, <3>2
  <2> QED
    BY <2>1, <2>2
<1>7. ASSUME NEW k \in 0 .. N PROVE Carried(chain, k) \in Seq(V)
  <2>1. GroupText(chain, k) \in Seq(V)
    BY <1>2 DEF GroupText
  <2> QED
    BY <2>1, EmptySeq DEF Carried
<1>8. ASSUME NEW k \in 1 .. N
      PROVE  /\ Carried(chain, k - 1) \in Seq(V)
             /\ Typed(chain, 1 .. N)[k - 1] \in Seq(V)
             /\ Typed(chain, 1 .. N)[k]
                   = Typed(chain, 1 .. N)[k - 1] \o Gained(chain, k)
  <2> DEFINE P == 1 .. N
  <2>1. k \in P /\ k - 1 \in 0 .. N
    OBVIOUS
  <2> HIDE DEF P
  <2>2. /\ Typed(chain, P)[k - 1] \in Seq(V)
        /\ Typed(chain, P)[k] = Typed(chain, P)[k - 1] \o Gained(chain, k)
    BY <1>2, <1>4, <2>1
  <2> QED
    BY <1>7, <2>1, <2>2 DEF P
<1>9. Typed(chain, 1 .. N)[0] = <<>>
  BY <1>1, TypedDef
<1> QED
  BY <1>3, <1>5, <1>6, <1>8, <1>9

\* The text of paths, and what of the group with item k is still to come.
TextOf(paths) == Texts(paths)[Len(paths)]

Pending(chain, k) == IF k = 0 \/ GroupEnds(chain, k) THEN <<>> ELSE Carried(chain, k)

\* Paths are in step with a chain if they type what it has released before.
InStep(paths, chain, k, V) ==
    /\ IsSeq(paths)
    /\ TextOf(paths) \in Seq(V)
    /\ TextOf(paths) \o Pending(chain, k) = Typed(chain, 1 .. Len(chain))[k]

Pairing(chain, k) ==
    /\ chain[k].type = "keyDown" => HasUpPair(chain, k)
    /\ chain[k].type = "keyUp" => HasDownPair(chain, k)

LEMMA KeyItem ==
    ASSUME NEW V, NEW chain, KeyChain(chain, V), NEW k \in 1 .. Len(chain), NEW paths
    PROVE  AddToEventPath(paths, chain, k) =
              IF chain[k].type = "keyDown" THEN KeyDown(paths, chain, k)
              ELSE IF chain[k].type = "keyUp" THEN KeyUp(paths, chain, k)
              ELSE paths
BY DEF AddToEventPath, KeyChain

LEMMA StayInStep ==
    ASSUME NEW V, NEW chain, KeyChain(chain, V), NEW k \in 1 .. Len(chain),
           NEW paths, InStep(paths, chain, k - 1, V), Pairing(chain, k)
    PROVE  InStep(AddToEventPath(paths, chain, k), chain, k, V)
<1> DEFINE N == Len(chain)
           new == AddToEventPath(paths, chain, k)
           o == TextOf(paths)
           c == Carried(chain, k - 1)
           g == Gained(chain, k)
           full == Typed(chain, 1 .. N)[k - 1]
<1>1. N \in Nat
  BY LenNat DEF KeyChain
<1>2. /\ g \in Seq(V) /\ c \in Seq(V)
      /\ Rests(chain, k) => g = <<>>
      /\ ~Rests(chain, k) => GroupText(chain, k) = c \o g
      /\ Typed(chain, 1 .. N)[k] = full \o g
      /\ CollectText(chain, k) = GroupText(chain, k)
      /\ full \in Seq(V)
  BY TextsOfGroups
<1>3. /\ IsSeq(paths) /\ o \in Seq(V)
      /\ o \o Pending(chain, k - 1) = full
  BY DEF InStep
<1>4. Pending(chain, k - 1) = IF Rests(chain, k) THEN <<>> ELSE c
  <2>1. (k - 1) + 1 = k /\ k - 1 # N
    BY <1>1
  <2>2. GroupEnds(chain, k - 1) <=> Rests(chain, k)
    BY <2>1 DEF GroupEnds
  <2>3. k - 1 = 0 => c = <<>>
    BY DEF Carried
  <2> QED
    BY <2>2, <2>3 DEF Pending
<1> HIDE DEF o, c, g, full
<1>5. Carried(chain, k) = IF Rests(chain, k) THEN <<>> ELSE c \o g
  <2>1. k # 0
    OBVIOUS
  <2>2. CASE Rests(chain, k)
    BY <2>2 DEF Carried
  <2>3. CASE ~Rests(chain, k)
    <3>1. Carried(chain, k) = GroupText(chain, k)
      BY <2>1, <2>3 DEF Carried
    <3> QED
      BY <1>2, <2>3, <3>1
  <2> QED
    BY <2>2, <2>3
<1>6. ~Rests(chain, k) => o \o (c \o g) = full \o g
  <2> SUFFICES ASSUME ~Rests(chain, k) PROVE o \o (c \o g) = full \o g
    OBVIOUS
  <2>1. o \o c = full
    BY <1>3, <1>4
  <2>2. o \in Seq(V) /\ c \in Seq(V) /\ g \in Seq(V)
    BY <1>2, <1>3
  <2>3. o \o (c \o g) = (o \o c) \o g
    BY <2>2, Grouped
  <2> QED
    BY <2>1, <2>3
<1>7. c \o g \in Seq(V)
  BY <1>2
\* An item that leaves the paths as they are and does not end a group that types.
<1>8. ASSUME new = paths, Pending(chain, k) = Carried(chain, k) PROVE InStep(new, chain, k, V)
  <2>1. CASE Rests(chain, k)
    <3>1. full \o g = full
      BY <1>2, <2>1, ConcatEmptySeq
    <3>2. o \o Carried(chain, k) = full
      BY <1>3, <1>4, <1>5, <2>1
    <3>3. o \o Pending(chain, k) = Typed(chain, 1 .. N)[k]
      BY <1>2, <1>8, <3>1, <3>2
    <3> QED
      BY <1>3, <1>8, <3>3 DEF InStep, o
  <2>2. CASE ~Rests(chain, k)
    <3>1. o \o Pending(chain, k) = Typed(chain, 1 .. N)[k]
      BY <1>2, <1>5, <1>6, <1>8, <2>2
    <3> QED
      BY <1>3, <1>8, <3>1 DEF InStep, o
  <2> QED
    BY <2>1, <2>2
<1>9. GroupEnds(chain, k) => After(chain, k, chain[k].value) = 0
  <2>1. CASE k = N
    BY <1>1, <2>1, Balances
  <2>2. CASE k # N /\ Rests(chain, k + 1)
    BY <1>1, <2>2, Balances
  <2> QED
    BY <2>1, <2>2 DEF GroupEnds
<1>10. ~GroupEnds(chain, k) => Pending(chain, k) = Carried(chain, k)
  BY DEF Pending
<1>11. CASE chain[k].type = "keyDown"
  <2>1. HasUpPair(chain, k)
    BY <1>11 DEF Pairing
  <2>2. new = paths
    BY <1>11, <2>1, KeyItem DEF KeyDown
  <2>3. ~GroupEnds(chain, k)
    BY <1>1, <1>9, <2>1, Pairs
  <2> QED
    BY <1>8, <1>10, <2>2, <2>3
<1>12. CASE chain[k].type = "keyUp"
  <2>1. HasDownPair(chain, k) /\ ~Rests(chain, k)
    BY <1>12 DEF Pairing, Rests
  <2>2. (k < N /\ chain[k + 1].type # "pause") <=> ~GroupEnds(chain, k)
    BY <1>1 DEF GroupEnds, Rests
  <2> DEFINE event == [kind |-> "text", at |-> chain[k].offset,
                       text |-> CollectText(chain, k)]
  <2>3. new = IF GroupEnds(chain, k) THEN NewPath(paths, event) ELSE paths
    <3>1. new = KeyUp(paths, chain, k)
      BY <1>12, KeyItem
    <3> HIDE DEF new
    <3> QED
      BY <2>1, <2>2, <3>1 DEF KeyUp
  <2>4. CASE GroupEnds(chain, k)
    <3>1. event.text = c \o g
      BY <1>2, <2>1
    <3> HIDE DEF event
    <3>2. IsSeq(new) /\ TextOf(new) = o \o (c \o g)
      BY <1>3, <2>3, <2>4, <3>1, TextsAppend DEF TextOf, o
    <3>3. TextOf(new) = Typed(chain, 1 .. N)[k]
      BY <1>2, <1>6, <2>1, <3>2
    <3>4. TextOf(new) \in Seq(V)
      BY <1>3, <1>7, <3>2
    <3>5. Pending(chain, k) = <<>>
      BY <2>4 DEF Pending
    <3>6. TextOf(new) \o <<>> = TextOf(new)
      BY <3>4, ConcatEmptySeq
    <3> QED
      BY <3>2, <3>3, <3>4, <3>5, <3>6 DEF InStep
  <2>5. CASE ~GroupEnds(chain, k)
    BY <1>8, <1>10, <2>3, <2>5
  <2> QED
    BY <2>4, <2>5
<1>13. CASE chain[k].type = "pause"
  <2>1. new = paths
    BY <1>13, KeyItem
  <2>2. Pending(chain, k) = Carried(chain, k)
    BY <1>13 DEF Pending, Carried, Rests
  <2> QED
    BY <1>8, <2>1, <2>2
<1> QED
  BY <1>11, <1>12, <1>13 DEF KeyChain

LEMMA KeyPaths ==
    ASSUME ~IsSeq(Refused), NEW V, NEW chain, KeyChain(chain, V)
    PROVE  LET paths == Pathing(chain)[Len(chain)]
           IN  IF Paired(chain)
               THEN IsSeq(paths) /\ TextOf(paths) = Typed(chain, 1 .. Len(chain))[Len(chain)]
               ELSE paths = Refused
<1> DEFINE N == Len(chain)
           paths == Pathing(chain)
           Sound(k) == \A j \in 1 .. k : Pairing(chain, j)
           Good(k) == IF Sound(k) THEN InStep(paths[k], chain, k, V)
                      ELSE paths[k] = Refused
           T == {k \in Nat : k <= N => Good(k)}
<1>1. N \in Nat
  BY LenNat DEF KeyChain
<1>2. paths = [k \in 0 .. N |->
                 IF k = 0 THEN <<>>
                 ELSE IF paths[k - 1] = Refused THEN Refused
                      ELSE AddToEventPath(paths[k - 1], chain, k)]
  BY <1>1, PathingDef
<1> HIDE DEF paths
<1>3. Good(0)
  <2>1. paths[0] = <<>>
    BY <1>1, <1>2
  <2>2. IsSeq(<<>>) /\ Len(<<>>) = 0
    BY EmptySeq DEF IsSeq
  <2>3. TextOf(<<>>) = <<>>
    BY <2>2, TextsDef DEF TextOf
  <2>4. <<>> \in Seq(V) /\ <<>> \o <<>> = <<>>
    BY EmptySeq, ConcatEmptySeq
  <2>5. Typed(chain, 1 .. N)[0] = <<>>
    BY TextsOfGroups
  <2>6. Pending(chain, 0) = <<>>
    BY DEF Pending
  <2>7. TextOf(<<>>) \o Pending(chain, 0) = Typed(chain, 1 .. N)[0]
    BY <2>3, <2>4, <2>5, <2>6
  <2>8. InStep(<<>>, chain, 0, V)
    BY <2>2, <2>3, <2>4, <2>7 DEF InStep
  <2> QED
    BY <2>1, <2>8
<1>4. ASSUME NEW k \in Nat, k + 1 <= N, Good(k) PROVE Good(k + 1)
  <2>1. k + 1 \in 1 .. N /\ (k + 1) - 1 = k /\ k + 1 \in 0 .. N /\ k + 1 # 0
    BY <1>1, <1>4
  <2>2. paths[k + 1] = IF paths[k] = Refused THEN Refused
                       ELSE AddToEventPath(paths[k], chain, k + 1)
    BY <1>2, <2>1
  <2>3. Sound(k + 1) <=> Sound(k) /\ Pairing(chain, k + 1)
    BY <2>1
  <2> HIDE DEF Sound
  <2>4. CASE ~Sound(k)
    BY <1>4, <2>2, <2>3, <2>4
  <2>5. CASE Sound(k)
    <3>1. InStep(paths[k], chain, (k + 1) - 1, V) /\ paths[k] # Refused
      BY <1>4, <2>1, <2>5 DEF InStep
    <3>2. CASE Pairing(chain, k + 1)
      BY <2>1, <2>2, <2>3, <2>5, <3>1, <3>2, StayInStep
    <3>3. CASE ~Pairing(chain, k + 1)
      <4>1. AddToEventPath(paths[k], chain, k + 1) = Refused
        <5> DEFINE l == k + 1
        <5>1. l \in 1 .. N
          BY <2>1
        <5> HIDE DEF l
        <5>2. AddToEventPath(paths[k], chain, l) =
                 IF chain[l].type = "keyDown" THEN KeyDown(paths[k], chain, l)
                 ELSE IF chain[l].type = "keyUp" THEN KeyUp(paths[k], chain, l)
                 ELSE paths[k]
          BY <5>1, KeyItem
        <5> SUFFICES AddToEventPath(paths[k], chain, l) = Refused
          BY DEF l
        <5>3. CASE chain[l].type = "keyDown" /\ ~HasUpPair(chain, l)
          BY <5>2, <5>3 DEF KeyDown
        <5>4. CASE chain[l].type = "keyUp" /\ ~HasDownPair(chain, l)
          BY <5>2, <5>4 DEF KeyUp
        <5> QED
          BY <3>3, <5>3, <5>4 DEF Pairing, l
      <4> QED
        BY <2>2, <2>3, <3>1, <3>3, <4>1
    <3> QED
      BY <3>2, <3>3
  <2> QED
    BY <2>4, <2>5
<1>5. Nat \subseteq T
  <2> HIDE DEF Good
  <2>1. 0 \in T /\ \A k \in Nat : k \in T => k + 1 \in T
    BY <1>1, <1>3, <1>4
  <2> HIDE DEF T
  <2> QED
    BY <2>1, Induction
<1>6. Good(N)
  BY <1>1, <1>5
<1>7. Sound(N) <=> Paired(chain)
  BY DEF Paired, Pairing
<1>8. ASSUME InStep(paths[N], chain, N, V)
      PROVE  IsSeq(paths[N]) /\ TextOf(paths[N]) = Typed(chain, 1 .. N)[N]
  <2>1. Pending(chain, N) = <<>>
    BY DEF Pending, GroupEnds
  <2>2. TextOf(paths[N]) \o <<>> = TextOf(paths[N])
    BY <1>8, ConcatEmptySeq DEF InStep
  <2> QED
    BY <1>8, <2>1, <2>2 DEF InStep
<1> HIDE DEF Sound
<1> QED
  BY <1>6, <1>7, <1>8 DEF paths

\* A chain made of the first n items keeps their types and values.
Like(chain, s, n) ==
    /\ IsSeq(chain) /\ Len(chain) = n
    /\ \A k \in 1 .. n : chain[k].type = s[k].type /\ chain[k].value = s[k].value

LEMMA KeyChaining ==
    ASSUME ~IsSeq(Refused), NEW s \in Seq(NoCancels(KeyItems))
    PROVE  LET chain == Chaining("key", s)[Len(s)]
           IN  IF \E k \in 1 .. Len(s) : s[k].type = "unusable" THEN chain = Refused
               ELSE Like(chain, s, Len(s))
<1> DEFINE N == Len(s)
           chain == Chaining("key", s)
           Bad(n) == \E k \in 1 .. n : s[k].type = "unusable"
           Good(n) == IF Bad(n) THEN chain[n] = Refused ELSE Like(chain[n], s, n)
           T == {n \in Nat : n <= N => Good(n)}
<1>1. N \in Nat
  OBVIOUS
<1>2. chain = [n \in 0 .. N |->
                 IF n = 0 THEN <<>>
                 ELSE IF "key" = "pointer" THEN AddGestureItem(chain[n - 1], s[n])
                      ELSE AddKeyItem(chain[n - 1], s[n])]
  BY <1>1, ChainingDef, Zenon
<1> HIDE DEF chain
<1>3. chain[0] = <<>> /\ \A n \in 1 .. N : chain[n] = AddKeyItem(chain[n - 1], s[n])
  BY <1>1, <1>2
<1>4. Good(0)
  <2>1. IsSeq(<<>>) /\ Len(<<>>) = 0
    BY EmptySeq DEF IsSeq
  <2> QED
    BY <1>3, <2>1 DEF Like
<1>5. ASSUME NEW n \in Nat, n + 1 <= N, Good(n) PROVE Good(n + 1)
  <2> DEFINE item == s[n + 1]
             link == [type |-> item.type, value |-> item.value,
                      offset |-> DurationOffset(chain[n]),
                      duration |-> IF item.type = "pause" THEN item.duration ELSE 0]
  <2>1. n + 1 \in 1 .. N /\ (n + 1) - 1 = n
    BY <1>1, <1>5
  <2>2. item.type \in {"keyDown", "keyUp", "pause", "unusable"}
    <3>1. item \in NoCancels(KeyItems)
      BY <2>1
    <3> QED
      BY <3>1, ItemsAssumption DEF NoCancels, KeyTypes
  <2>3. chain[n + 1] = IF chain[n] = Refused \/ item.type = "unusable" THEN Refused
                       ELSE Append(chain[n], link)
    <3>1. chain[n + 1] = AddKeyItem(chain[n], item)
      BY <1>3, <2>1
    <3> HIDE DEF item
    <3> QED
      BY <2>2, <3>1 DEF AddKeyItem
  <2>4. Bad(n + 1) <=> Bad(n) \/ item.type = "unusable"
    BY <2>1
  <2>5. link.type = item.type /\ link.value = item.value
    OBVIOUS
  <2> HIDE DEF item, link, Bad
  <2>6. CASE Bad(n + 1)
    BY <1>5, <2>3, <2>4, <2>6
  <2>7. CASE ~Bad(n + 1)
    <3>1. Like(chain[n], s, n) /\ chain[n] # Refused
      BY <1>5, <2>4, <2>7 DEF Like
    <3>2. chain[n + 1] = Append(chain[n], link)
      BY <2>3, <2>4, <2>7, <3>1
    <3>3. /\ IsSeq(chain[n + 1]) /\ Len(chain[n + 1]) = n + 1
          /\ \A k \in 1 .. n : chain[n + 1][k] = chain[n][k]
          /\ chain[n + 1][n + 1] = link
      BY <3>1, <3>2, AppendSeq DEF Like
    <3>4. \A k \in 1 .. n + 1 : k \in 1 .. n \/ k = n + 1
      OBVIOUS
    <3>5. Like(chain[n + 1], s, n + 1)
      BY <2>5, <3>1, <3>3, <3>4 DEF Like, item
    <3> QED
      BY <2>7, <3>5
  <2> QED
    BY <2>6, <2>7
<1>6. Nat \subseteq T
  <2> HIDE DEF Good
  <2>1. 0 \in T /\ \A n \in Nat : n \in T => n + 1 \in T
    BY <1>1, <1>4, <1>5
  <2> HIDE DEF T
  <2> QED
    BY <2>1, Induction
<1> QED
  BY <1>1, <1>6 DEF chain

LEMMA KeyEventPaths ==
    ASSUME ~IsSeq(Refused), ~IsSeq(NIL), NEW all \in Seq(KeyItems)
    PROVE  LET made == EventPaths("key", all) \notin {NIL, Refused}
           IN  /\ made <=> IsTyping(Counted(all))
               /\ made => TextOf(EventPaths("key", all)) = Released(Counted(all))
<1> DEFINE s == Preprocess(all)
           N == Len(s)
           V == {item.value : item \in KeyItems}
           chain == Chaining("key", s)[N]
           paths == EventPaths("key", all)
           made == paths \notin {NIL, Refused}
<1>1. s = Counted(all) /\ s \in Seq(NoCancels(KeyItems))
  BY KeptCounts, KeptItems
<1>2. paths = AsEventPaths(chain)
  BY DEF EventPaths
<1> HIDE DEF s, paths
<1>3. N \in Nat /\ DOMAIN s = 1 .. N /\ (s = <<>> <=> N = 0)
  BY <1>1, LenProperties, EmptySeq
<1>4. \A k \in 1 .. N : /\ s[k].type \in {"keyDown", "keyUp", "pause", "unusable"}
                        /\ s[k].value \in V
  <2>1. \A k \in 1 .. N : s[k] \in NoCancels(KeyItems)
    BY <1>1
  <2> QED
    BY <2>1, ItemsAssumption DEF NoCancels, KeyTypes
<1>5. IF \E k \in 1 .. N : s[k].type = "unusable" THEN chain = Refused
      ELSE Like(chain, s, N)
  BY <1>1, KeyChaining
<1> HIDE DEF chain, N, V
<1>6. CASE \E k \in 1 .. N : s[k].type = "unusable"
  <2>1. paths = Refused
    BY <1>2, <1>5, <1>6 DEF AsEventPaths
  <2>2. ~IsTyping(s)
    BY <1>6 DEF IsTyping, N
  <2> QED
    BY <1>1, <2>1, <2>2 DEF paths
<1>7. CASE ~(\E k \in 1 .. N : s[k].type = "unusable") /\ N = 0
  <2>1. chain = <<>>
    BY <1>5, <1>7, LenNat, EmptySeq DEF Like, IsSeq
  <2>2. paths = Refused
    BY <1>2, <2>1 DEF AsEventPaths
  <2>3. ~IsTyping(s)
    BY <1>3, <1>7 DEF IsTyping
  <2> QED
    BY <1>1, <2>2, <2>3 DEF paths
<1>8. CASE ~(\E k \in 1 .. N : s[k].type = "unusable") /\ N # 0
  <2>1. Like(chain, s, N)
    BY <1>5, <1>8
  <2>2. KeyChain(chain, V) /\ Len(chain) = N
    BY <1>4, <1>8, <2>1 DEF KeyChain, Like
  <2>3. paths = Pathing(chain)[Len(chain)]
    <3>1. chain # Refused /\ chain # <<>>
      BY <1>8, <2>1, EmptySeq DEF Like
    <3> QED
      BY <1>2, <3>1 DEF AsEventPaths
  <2>4. IF Paired(chain)
        THEN IsSeq(paths) /\ TextOf(paths) = Typed(chain, 1 .. N)[N]
        ELSE paths = Refused
    BY <2>2, <2>3, KeyPaths
  <2>5. made <=> Paired(chain)
    BY <2>4
  <2>6. Paired(chain) <=> Balanced(chain, V)
    BY <2>2, BalancedPaired, PairedBalanced
  <2>7. Balanced(chain, V) <=> IsTyping(s)
    <3>1. ASSUME NEW k \in 1 .. N, NEW v PROVE Held(chain, k, v) = Held(s, k, v)
      <4>1. \A i \in 1 .. k : chain[i].type = s[i].type /\ chain[i].value = s[i].value
        BY <1>3, <2>1 DEF Like
      <4>2. {i \in 1 .. k : chain[i].type = "keyDown" /\ chain[i].value = v}
               = {i \in 1 .. k : s[i].type = "keyDown" /\ s[i].value = v}
        BY <4>1
      <4>3. {i \in 1 .. k : chain[i].type = "keyUp" /\ chain[i].value = v}
               = {i \in 1 .. k : s[i].type = "keyUp" /\ s[i].value = v}
        BY <4>1
      <4> QED
        BY <4>2, <4>3 DEF Held
    <3>2. \A k \in 1 .. N : Rests(chain, k) <=> s[k].type = "pause"
      BY <2>1 DEF Like, Rests
    <3>3. Balanced(chain, V) <=>
             \A k \in 1 .. N, v \in V :
                IF s[k].type = "pause" \/ k = N THEN Held(s, k, v) = 0
                ELSE Held(s, k, v) \in {0, 1}
      BY <2>2, <3>1, <3>2 DEF Balanced
    <3>4. s # <<>> /\ \A k \in 1 .. N : s[k].type # "unusable"
      BY <1>3, <1>8
    <3> QED
      BY <3>3, <3>4 DEF IsTyping, N, V
  <2>8. Typed(chain, 1 .. N)[N] = Released(s)
    <3> DEFINE P == 1 .. N
               Q == DOMAIN s
    <3>1. Len(chain) \in Nat /\ Len(s) \in Nat /\ N <= Len(chain) /\ N <= Len(s)
      BY <1>3, <2>2 DEF N
    <3>2. \A i \in 1 .. N : /\ i \in P <=> i \in Q
                            /\ chain[i].type = s[i].type /\ chain[i].value = s[i].value
      BY <1>3, <2>1 DEF Like
    <3> HIDE DEF P, Q
    <3>3. Typed(chain, P)[N] = Typed(s, Q)[N]
      BY <1>3, <3>1, <3>2, TypedSame
    <3> QED
      BY <3>3 DEF Released, P, Q, N
  <2> QED
    BY <1>1, <2>4, <2>5, <2>6, <2>7, <2>8 DEF paths
<1> QED
  BY <1>6, <1>7, <1>8

-----------------------------------------------------------------------------
(* Contacts.                                                                 *)

LEMMA ActingDef ==
    ASSUME NEW s, Len(s) \in Nat
    PROVE  /\ Acting(s)[0] = [time |-> 0, position |-> 0, contacts |-> <<>>]
           /\ \A k \in 1 .. Len(s) : Acting(s)[k] = Act(s, Acting(s)[k - 1], k)
<1> DEFINE First == [time |-> 0, position |-> 0, contacts |-> <<>>]
           Step(x, n) == Act(s, x, n)
           IsPart(f, m) ==
               f = [n \in 0 .. m |-> IF n = 0 THEN First ELSE Step(f[n - 1], n)]
           S == {m \in Nat : \E f : IsPart(f, m)}
<1>1. 0 \in S
  <2> HIDE DEF First, Step
  <2>1. IsPart([n \in 0 .. 0 |-> First], 0)
    OBVIOUS
  <2> QED
    BY <2>1
<1>2. ASSUME NEW m \in Nat, m \in S PROVE m + 1 \in S
  <2>1. PICK f : IsPart(f, m)
    BY <1>2
  <2> DEFINE g == [n \in 0 .. m + 1 |->
                     IF n = 0 THEN First ELSE Step(f[n - 1], n)]
  <2> HIDE DEF First, Step
  <2>2. \A n \in 0 .. m : g[n] = f[n]
    BY <2>1
  <2>3. \A n \in 0 .. m + 1 : n # 0 => n - 1 \in 0 .. m
    OBVIOUS
  <2>4. IsPart(g, m + 1)
    BY <2>2, <2>3
  <2> HIDE DEF IsPart, g
  <2>5. \E h : IsPart(h, m + 1)
    BY <2>4
  <2> QED
    BY <2>5
<1>3. Len(s) \in S
  <2> HIDE DEF S
  <2> QED
    BY <1>1, <1>2, Induction
<1>4. \E f : IsPart(f, Len(s))
  BY <1>3
<1> DEFINE f == Acting(s)
<1>5. f = [n \in 0 .. Len(s) |-> IF n = 0 THEN First ELSE Step(f[n - 1], n)]
  BY <1>4, Zenon DEF Acting
<1> HIDE DEF f, First, Step
<1>6. f[0] = First /\ \A k \in 1 .. Len(s) : f[k] = Step(f[k - 1], k)
  BY <1>5
<1> QED
  BY <1>6 DEF f, First, Step

\* Whether a path has a lift.
Lifted(path) == \E i \in DOMAIN path : path[i].kind = "lift"

LEMMA NotLifted ==
    ASSUME NEW path, ~Lifted(path)
    PROVE  UntilLift(path) = path
BY DEF UntilLift, Lifted

LEMMA LiftNow ==
    ASSUME NEW path, IsSeq(path), ~Lifted(path), NEW event, event.kind = "lift"
    PROVE  /\ Lifted(Append(path, event))
           /\ UntilLift(Append(path, event)) = Append(path, event)
<1> DEFINE new == Append(path, event)
           N == Len(path)
           lifts == {i \in DOMAIN new : new[i].kind = "lift"}
<1>1. N \in Nat /\ DOMAIN path = 1 .. N
  BY LenNat
<1>2. /\ IsSeq(new) /\ Len(new) = N + 1 /\ DOMAIN new = 1 .. N + 1
      /\ \A i \in 1 .. N : new[i] = path[i]
      /\ new[N + 1] = event
  BY AppendSeq, LenNat
<1> HIDE DEF new, N
<1>3. lifts = {N + 1}
  <2>1. N + 1 \in 1 .. N + 1
    BY <1>1
  <2>2. \A i \in 1 .. N + 1 : i # N + 1 => i \in 1 .. N
    BY <1>1
  <2>3. \A i \in 1 .. N : new[i].kind # "lift"
    BY <1>1, <1>2 DEF Lifted
  <2> QED
    BY <1>2, <2>1, <2>2, <2>3
<1>4. N + 1 = CHOOSE i \in lifts : \A j \in lifts : i <= j
  BY <1>1, <1>3
<1>5. Lifted(new)
  BY <1>3 DEF Lifted
<1>6. SubSeq(new, 1, N + 1) = new
  BY <1>2, SubSeqFull DEF IsSeq
<1>7. UntilLift(new) = IF lifts = {} THEN new
                       ELSE SubSeq(new, 1, CHOOSE i \in lifts : \A j \in lifts : i <= j)
  BY DEF UntilLift
<1> HIDE DEF lifts
<1>8. UntilLift(new) = new
  BY <1>3, <1>4, <1>6, <1>7
<1> QED
  BY <1>5, <1>8 DEF new

LEMMA LiftBefore ==
    ASSUME NEW path, IsSeq(path), Lifted(path), NEW event
    PROVE  /\ Lifted(Append(path, event))
           /\ UntilLift(Append(path, event)) = UntilLift(path)
<1> DEFINE new == Append(path, event)
           N == Len(path)
           olds == {i \in DOMAIN path : path[i].kind = "lift"}
           news == {i \in DOMAIN new : new[i].kind = "lift"}
           Least1(P) == CHOOSE i \in P : \A j \in P : i <= j
<1>1. N \in Nat /\ DOMAIN path = 1 .. N
  BY LenNat
<1>2. /\ IsSeq(new) /\ Len(new) = N + 1 /\ DOMAIN new = 1 .. N + 1
      /\ \A i \in 1 .. N : new[i] = path[i]
  BY AppendSeq, LenNat
<1> HIDE DEF new, N
<1>3. /\ olds # {} /\ olds \subseteq 1 .. N /\ olds \subseteq Nat
      /\ \A i \in 1 .. N : i \in olds <=> i \in news
      /\ news \subseteq 1 .. N + 1
  BY <1>1, <1>2 DEF Lifted
<1>4. UntilLift(path) = IF olds = {} THEN path ELSE SubSeq(path, 1, Least1(olds))
  BY DEF UntilLift
<1>5. UntilLift(new) = IF news = {} THEN new ELSE SubSeq(new, 1, Least1(news))
  BY DEF UntilLift
<1>6. Lifted(new) <=> news # {}
  BY DEF Lifted
<1> HIDE DEF olds, news
<1>7. PICK m \in olds : \A j \in olds : m <= j
  BY <1>3, Least
<1>8. m \in 1 .. N /\ m \in news /\ \A j \in news : m <= j
  <2>1. m \in 1 .. N /\ m \in news
    BY <1>3
  <2>2. ASSUME NEW j \in news PROVE m <= j
    <3>1. j \in 1 .. N \/ j = N + 1
      BY <1>1, <1>3
    <3> QED
      BY <1>1, <1>3, <1>7, <2>1, <3>1
  <2> QED
    BY <2>1, <2>2
<1>9. Least1(olds) = m /\ Least1(news) = m
  <2>1. \A i \in olds : (\A j \in olds : i <= j) => i = m
    BY <1>1, <1>3, <1>7
  <2>2. \A i \in news : (\A j \in news : i <= j) => i = m
    BY <1>1, <1>3, <1>8
  <2> QED
    BY <1>7, <1>8, <2>1, <2>2
<1> HIDE DEF Least1
<1>10. SubSeq(new, 1, m) = SubSeq(path, 1, m)
  <2>1. PICK S : new \in Seq(S)
    BY <1>2 DEF IsSeq
  <2>2. \A i \in 1 .. m : new[i] \in S /\ path[i] \in S /\ new[i] = path[i]
    <3>1. \A i \in 1 .. m : i \in 1 .. N /\ i \in 1 .. Len(new)
      BY <1>1, <1>2, <1>8
    <3> QED
      BY <1>2, <2>1, <3>1
  <2>3. m \in Int /\ 1 <= m /\ m - 1 + 1 = m
    BY <1>8
  <2> DEFINE a == SubSeq(new, 1, m)
             b == SubSeq(path, 1, m)
  <2>4. a \in Seq(S) /\ Len(a) = m /\ \A i \in 1 .. m : a[i] = new[1 + i - 1]
    BY <2>2, <2>3, SubSeqProperties
  <2>5. b \in Seq(S) /\ Len(b) = m /\ \A i \in 1 .. m : b[i] = path[1 + i - 1]
    BY <2>2, <2>3, SubSeqProperties
  <2> HIDE DEF a, b
  <2>6. \A i \in 1 .. m : 1 + i - 1 = i
    OBVIOUS
  <2>7. \A i \in 1 .. Len(a) : a[i] = b[i]
    BY <2>2, <2>4, <2>5, <2>6
  <2>8. a = b
    BY <2>4, <2>5, <2>7, SeqEqual
  <2> QED
    BY <2>8 DEF a, b
<1>11. UntilLift(new) = UntilLift(path)
  BY <1>3, <1>4, <1>5, <1>8, <1>9, <1>10
<1>12. Lifted(new)
  BY <1>6, <1>8
<1> QED
  BY <1>11, <1>12 DEF new

LEMMA StillDown ==
    ASSUME NEW path, IsSeq(path), ~Lifted(path), NEW event, event.kind # "lift"
    PROVE  ~Lifted(Append(path, event))
<1>1. Len(path) \in Nat /\ DOMAIN path = 1 .. Len(path)
  BY LenNat
<1>2. /\ DOMAIN Append(path, event) = 1 .. Len(path) + 1
      /\ \A i \in 1 .. Len(path) : Append(path, event)[i] = path[i]
      /\ Append(path, event)[Len(path) + 1] = event
  BY AppendSeq, LenNat
<1>3. \A i \in 1 .. Len(path) + 1 : i # Len(path) + 1 => i \in 1 .. Len(path)
  BY <1>1
<1> QED
  BY <1>1, <1>2, <1>3 DEF Lifted

\* What item k adds to the number of touches that are not lifted.
Presses(s, k) == s[k].type = "pointerDown" /\ ~s[k].pressure
Lifts(s, k) == s[k].type = "pointerUp"

LEMMA TouchingAdd ==
    ASSUME NEW s, NEW k \in Nat
    PROVE  /\ Touching(s, 0) = 0
           /\ Touching(s, k) \in Int
           /\ Touching(s, k + 1) =
                 IF Presses(s, k + 1) THEN Touching(s, k) + 1
                 ELSE IF Lifts(s, k + 1) THEN Touching(s, k) - 1
                 ELSE Touching(s, k)
<1> DEFINE D(n) == {i \in 1 .. n : Presses(s, i)}
           U(n) == {i \in 1 .. n : Lifts(s, i)}
<1>1. \A n : Touching(s, n) = Cardinality(D(n)) - Cardinality(U(n))
  BY DEF Touching, Presses, Lifts
<1>2. IsFiniteSet(D(k)) /\ IsFiniteSet(U(k))
  <2>1. IsFiniteSet(1 .. k)
    BY FS_Interval
  <2>2. D(k) \subseteq 1 .. k /\ U(k) \subseteq 1 .. k
    OBVIOUS
  <2> QED
    BY <2>1, <2>2, FS_Subset
<1>3. Cardinality(D(k)) \in Nat /\ Cardinality(U(k)) \in Nat
  BY <1>2, FS_CardinalityType
<1>4. k + 1 \notin D(k) /\ k + 1 \notin U(k)
  OBVIOUS
<1>5. \A i \in 1 .. k + 1 : i \in 1 .. k \/ i = k + 1
  OBVIOUS
<1>6. D(k + 1) = IF Presses(s, k + 1) THEN D(k) \cup {k + 1} ELSE D(k)
  BY <1>5
<1>7. U(k + 1) = IF Lifts(s, k + 1) THEN U(k) \cup {k + 1} ELSE U(k)
  BY <1>5
<1>8. D(0) = {} /\ U(0) = {}
  OBVIOUS
<1>9. Presses(s, k + 1) => ~Lifts(s, k + 1)
  BY DEF Presses, Lifts
<1> HIDE DEF D, U
<1>10. Cardinality(D(k) \cup {k + 1}) = Cardinality(D(k)) + 1
  BY <1>2, <1>4, FS_AddElement
<1>11. Cardinality(U(k) \cup {k + 1}) = Cardinality(U(k)) + 1
  BY <1>2, <1>4, FS_AddElement
<1>12. Touching(s, 0) = 0
  BY <1>1, <1>8, FS_EmptySet
<1>13. Touching(s, k + 1) = IF Presses(s, k + 1) THEN Touching(s, k) + 1
                 ELSE IF Lifts(s, k + 1) THEN Touching(s, k) - 1
                 ELSE Touching(s, k)
  BY <1>1, <1>3, <1>6, <1>7, <1>9, <1>10, <1>11
<1> QED
  BY <1>1, <1>3, <1>12, <1>13

\* Each item of a chain made of the first n has the place the reference gives it.
Guided(chain, s, n) ==
    /\ IsSeq(chain) /\ Len(chain) = n
    /\ \A k \in 1 .. n :
          /\ chain[k].type = s[k].type
          /\ chain[k].pressure = s[k].pressure
          /\ chain[k].duration = s[k].duration
          /\ chain[k].position =
                IF s[k].type # "pointerMove" THEN chain[k - 1].position
                ELSE IF s[k].origin = "pointer" THEN chain[k - 1].position + s[k].x
                ELSE s[k].x

LEMMA GestureChaining ==
    ASSUME ~IsSeq(Refused), NEW s \in Seq(NoCancels(PointerItems)), Len(s) # 0,
           s[1].type = "pointerMove", s[1].origin # "pointer",
           \A k \in 1 .. Len(s) : s[k].type # "unusable"
    PROVE  Guided(Chaining("pointer", s)[Len(s)], s, Len(s))
<1> DEFINE N == Len(s)
           chain == Chaining("pointer", s)
           T == {n \in Nat : n <= N => Guided(chain[n], s, n)}
<1>1. N \in Nat
  OBVIOUS
<1>2. chain = [n \in 0 .. N |->
                 IF n = 0 THEN <<>>
                 ELSE IF "pointer" = "pointer" THEN AddGestureItem(chain[n - 1], s[n])
                      ELSE AddKeyItem(chain[n - 1], s[n])]
  BY <1>1, ChainingDef, Zenon
<1> HIDE DEF chain
<1>3. chain[0] = <<>> /\ \A n \in 1 .. N : chain[n] = AddGestureItem(chain[n - 1], s[n])
  BY <1>1, <1>2
<1>4. Guided(chain[0], s, 0)
  <2>1. IsSeq(<<>>) /\ Len(<<>>) = 0
    BY EmptySeq DEF IsSeq
  <2> QED
    BY <1>3, <2>1 DEF Guided
<1>5. ASSUME NEW n \in Nat, n + 1 <= N, Guided(chain[n], s, n)
      PROVE  Guided(chain[n + 1], s, n + 1)
  <2> DEFINE item == s[n + 1]
             old == chain[n]
             place == IF item.type # "pointerMove" THEN Last(old).position
                      ELSE IF item.origin = "pointer" THEN Last(old).position + item.x
                      ELSE item.x
             link == [type |-> item.type, pressure |-> item.pressure,
                      offset |-> DurationOffset(old), duration |-> item.duration,
                      position |-> place]
  <2>1. n + 1 \in 1 .. N /\ (n + 1) - 1 = n
    BY <1>1, <1>5
  <2>2. item.type \in {"pointerMove", "pointerDown", "pointerUp", "pause"}
    <3>1. item \in NoCancels(PointerItems) /\ item.type # "unusable"
      BY <2>1
    <3> QED
      BY <3>1, ItemsAssumption DEF NoCancels, PointerTypes
  <2>3. IsSeq(old) /\ Len(old) = n /\ old # Refused
    BY <1>5 DEF Guided
  <2>4. old = <<>> => item.type = "pointerMove" /\ item.origin # "pointer"
    <3>1. old = <<>> => n = 0
      BY <2>3, EmptySeq
    <3> QED
      BY <3>1
  <2>5. chain[n + 1] = Append(old, link)
    <3>1. chain[n + 1] = AddGestureItem(old, item)
      BY <1>3, <2>1
    <3> HIDE DEF item, old
    <3> QED
      BY <2>2, <2>3, <2>4, <3>1, Zenon DEF AddGestureItem
  <2>6. place = IF item.type # "pointerMove" THEN old[n].position
                ELSE IF item.origin = "pointer" THEN old[n].position + item.x
                ELSE item.x
    <3>1. Last(old) = old[n]
      BY <2>3 DEF Last
    <3> HIDE DEF item, old
    <3> QED
      BY <3>1
  <2>7. /\ link.type = item.type /\ link.pressure = item.pressure
        /\ link.duration = item.duration /\ link.position = place
    OBVIOUS
  <2> DEFINE new == chain[n + 1]
  <2>8. /\ IsSeq(new) /\ Len(new) = n + 1
        /\ \A k \in 1 .. n : new[k] = old[k]
        /\ new[n + 1] = link
    <3> HIDE DEF link, old
    <3> QED
      BY <2>3, <2>5, AppendSeq
  <2> HIDE DEF link, place, old, new
  <2>9. ASSUME NEW k \in 1 .. n + 1
        PROVE  /\ new[k].type = s[k].type
               /\ new[k].pressure = s[k].pressure
               /\ new[k].duration = s[k].duration
               /\ new[k].position =
                     IF s[k].type # "pointerMove" THEN new[k - 1].position
                     ELSE IF s[k].origin = "pointer" THEN new[k - 1].position + s[k].x
                     ELSE s[k].x
    <3>1. k - 1 \in 1 .. n => new[k - 1] = old[k - 1]
      BY <2>8
    <3>2. CASE k = 1
      <4>1. s[k].type = "pointerMove" /\ s[k].origin # "pointer"
        BY <3>2
      <4>2. CASE n = 0
        BY <2>6, <2>7, <2>8, <3>2, <4>1, <4>2
      <4>3. CASE n # 0
        <5>1. k \in 1 .. n
          BY <3>2, <4>3
        <5> QED
          BY <1>5, <2>8, <4>1, <5>1 DEF Guided, old
      <4> QED
        BY <4>2, <4>3
    <3>3. CASE k # 1 /\ k \in 1 .. n
      BY <1>5, <2>8, <3>1, <3>3 DEF Guided, old
    <3>4. CASE k # 1 /\ k = n + 1
      <4>1. new[k - 1] = old[n]
        BY <3>1, <3>4
      <4> QED
        BY <2>6, <2>7, <2>8, <3>4, <4>1
    <3> QED
      BY <3>2, <3>3, <3>4
  <2> QED
    BY <2>8, <2>9 DEF Guided, new
<1>6. Nat \subseteq T
  <2>1. 0 \in T /\ \A n \in Nat : n \in T => n + 1 \in T
    BY <1>1, <1>4, <1>5
  <2> HIDE DEF T
  <2> QED
    BY <2>1, Induction
<1> QED
  BY <1>1, <1>6 DEF chain

LEMMA PointerFollows ==
    ASSUME NEW s, NEW chain, Guided(chain, s, Len(s)), InTime(chain),
           Len(s) # 0, s[1].type = "pointerMove", s[1].origin # "pointer"
    PROVE  \A k \in 1 .. Len(s) : /\ Acting(s)[k].time = End(chain, k)
                                  /\ Acting(s)[k].position = chain[k].position
<1> DEFINE N == Len(s)
           act == Acting(s)
           Good(k) == /\ act[k].time = End(chain, k)
                      /\ k # 0 => act[k].position = chain[k].position
           T == {k \in Nat : k <= N => Good(k)}
<1>1. N \in Nat /\ Len(chain) = N
  BY LenNat DEF Guided
<1>2. /\ act[0] = [time |-> 0, position |-> 0, contacts |-> <<>>]
      /\ \A k \in 1 .. N : act[k] = Act(s, act[k - 1], k)
  BY <1>1, ActingDef
<1> HIDE DEF act, N
<1>3. Good(0)
  BY <1>2 DEF End
<1>4. ASSUME NEW k \in Nat, k + 1 <= N, Good(k) PROVE Good(k + 1)
  <2> DEFINE l == k + 1
  <2>1. l \in 1 .. N /\ l - 1 = k /\ l # 0 /\ l \in 1 .. Len(chain)
    BY <1>1, <1>4
  <2>2. act[l] = Act(s, act[k], l)
    BY <1>2, <2>1
  <2> HIDE DEF l
  <2>3. act[l].time = act[k].time + s[l].duration
    BY <2>2 DEF Act
  <2>4. act[l].position = IF s[l].type # "pointerMove" THEN act[k].position
                          ELSE IF s[l].origin = "pointer" THEN act[k].position + s[l].x
                          ELSE s[l].x
    BY <2>2 DEF Act
  <2>5. /\ chain[l].type = s[l].type
        /\ chain[l].duration = s[l].duration
        /\ chain[l].position =
              IF s[l].type # "pointerMove" THEN chain[k].position
              ELSE IF s[l].origin = "pointer" THEN chain[k].position + s[l].x
              ELSE s[l].x
    BY <2>1 DEF Guided, N
  <2>6. chain[l].offset = End(chain, k)
    BY <2>1 DEF InTime
  <2>7. act[l].time = End(chain, l)
    BY <1>4, <2>1, <2>3, <2>5, <2>6 DEF End
  <2>8. act[l].position = chain[l].position
    <3>1. CASE k = 0
      <4>1. l = 1
        BY <3>1 DEF l
      <4> QED
        BY <2>4, <2>5, <4>1
    <3>2. CASE k # 0
      BY <1>4, <2>4, <2>5, <3>2
    <3> QED
      BY <3>1, <3>2
  <2> QED
    BY <2>7, <2>8 DEF l
<1>5. Nat \subseteq T
  <2> HIDE DEF Good
  <2>1. 0 \in T /\ \A n \in Nat : n \in T => n + 1 \in T
    BY <1>1, <1>3, <1>4
  <2> HIDE DEF T
  <2> QED
    BY <2>1, Induction
<1> QED
  BY <1>1, <1>5 DEF act, N

\* The paths made so far are the contacts made so far, and the last is not lifted
\* just when the pointer touches.
Follows(paths, contacts, touching) ==
    /\ IsSeq(paths) /\ paths # <<>>
    /\ \A n \in 1 .. Len(paths) : IsSeq(paths[n])
    /\ IsSeq(contacts) /\ Len(contacts) = Len(paths)
    /\ \A n \in 1 .. Len(paths) : contacts[n] = UntilLift(paths[n])
    /\ touching <=> ~Lifted(paths[Len(paths)])

LEMMA Singleton ==
    ASSUME NEW event
    PROVE  /\ IsSeq(<<event>>)
           /\ event.kind # "lift" => ~Lifted(<<event>>)
<1>1. <<event>> \in Seq({event})
  OBVIOUS
<1>2. \A i \in DOMAIN <<event>> : <<event>>[i] = event
  OBVIOUS
<1> QED
  BY <1>1, <1>2, Zenon DEF IsSeq, Lifted

LEMMA NewContact ==
    ASSUME NEW paths, NEW contacts, Follows(paths, contacts, FALSE),
           NEW event, event.kind = "touch"
    PROVE  Follows(NewPath(paths, event), Append(contacts, <<event>>), TRUE)
<1> DEFINE N == Len(paths)
           ps == NewPath(paths, event)
           cs == Append(contacts, <<event>>)
           path == <<event>>
<1>1. N \in Nat /\ Len(contacts) = N
  BY LenNat DEF Follows
<1>2. IsSeq(path) /\ ~Lifted(path)
  BY Singleton
<1>3. UntilLift(path) = path
  BY <1>2, NotLifted
<1> HIDE DEF path
<1>4. /\ IsSeq(ps) /\ Len(ps) = N + 1 /\ ps[N + 1] = path
      /\ \A n \in 1 .. N : ps[n] = paths[n]
  BY AppendSeq DEF Follows, NewPath, path
<1>5. /\ IsSeq(cs) /\ Len(cs) = N + 1 /\ cs[N + 1] = path
      /\ \A n \in 1 .. N : cs[n] = contacts[n]
  BY <1>1, AppendSeq DEF Follows, path
<1>6. ps # <<>>
  BY <1>1, <1>4, EmptySeq
<1> HIDE DEF ps, cs
<1>7. ASSUME NEW n \in 1 .. N + 1
      PROVE  IsSeq(ps[n]) /\ cs[n] = UntilLift(ps[n])
  <2>1. n \in 1 .. N \/ n = N + 1
    BY <1>1
  <2>2. n \in 1 .. N => IsSeq(paths[n]) /\ contacts[n] = UntilLift(paths[n])
    BY DEF Follows
  <2> QED
    BY <1>2, <1>3, <1>4, <1>5, <2>1, <2>2
<1> QED
  BY <1>2, <1>4, <1>5, <1>6, <1>7 DEF Follows, ps, cs

LEMMA ContactGoesOn ==
    ASSUME NEW paths, NEW contacts, Follows(paths, contacts, TRUE),
           NEW event
    PROVE  Follows(OnLastPath(paths, event), Grow(contacts, event), event.kind # "lift")
<1> DEFINE N == Len(paths)
           last == paths[N]
           path == Append(last, event)
           ps == OnLastPath(paths, event)
           cs == Grow(contacts, event)
<1>1. N \in Nat /\ N \in 1 .. N /\ Len(contacts) = N
  BY LenNat DEF Follows
<1>2. IsSeq(last) /\ ~Lifted(last) /\ contacts[N] = last
  BY <1>1, NotLifted DEF Follows
<1>3. /\ IsSeq(path)
      /\ Lifted(path) <=> event.kind = "lift"
      /\ UntilLift(path) = path
  <2>1. IsSeq(path)
    BY <1>2, AppendSeq
  <2>2. CASE event.kind = "lift"
    BY <1>2, <2>1, <2>2, LiftNow
  <2>3. CASE event.kind # "lift"
    BY <1>2, <2>1, <2>3, StillDown, NotLifted
  <2> QED
    BY <2>2, <2>3
<1>4. /\ IsSeq(ps) /\ Len(ps) = N
      /\ \A n \in 1 .. N : ps[n] = IF n = N THEN path ELSE paths[n]
  BY <1>1, ReplaceSeq DEF Follows, OnLastPath, Last
<1>5. /\ IsSeq(cs) /\ Len(cs) = N
      /\ \A n \in 1 .. N : cs[n] = IF n = N THEN path ELSE contacts[n]
  BY <1>1, <1>2, ReplaceSeq DEF Follows, Grow, Last
<1>6. ps # <<>>
  BY <1>1, <1>4, EmptySeq
<1> HIDE DEF ps, cs, path
<1>7. ASSUME NEW n \in 1 .. N
      PROVE  IsSeq(ps[n]) /\ cs[n] = UntilLift(ps[n])
  <2>1. IsSeq(paths[n]) /\ contacts[n] = UntilLift(paths[n])
    BY DEF Follows
  <2> QED
    BY <1>3, <1>4, <1>5, <2>1
<1> QED
  BY <1>1, <1>3, <1>4, <1>5, <1>6, <1>7 DEF Follows, ps, cs

LEMMA ContactIsOver ==
    ASSUME NEW paths, NEW contacts, Follows(paths, contacts, FALSE),
           NEW event
    PROVE  Follows(OnLastPath(paths, event), contacts, FALSE)
<1> DEFINE N == Len(paths)
           last == paths[N]
           path == Append(last, event)
           ps == OnLastPath(paths, event)
<1>1. N \in Nat /\ N \in 1 .. N /\ Len(contacts) = N
  BY LenNat DEF Follows
<1>2. IsSeq(last) /\ Lifted(last) /\ contacts[N] = UntilLift(last)
  BY <1>1 DEF Follows
<1>3. IsSeq(path) /\ Lifted(path) /\ UntilLift(path) = UntilLift(last)
  BY <1>2, LiftBefore, AppendSeq
<1>4. /\ IsSeq(ps) /\ Len(ps) = N
      /\ \A n \in 1 .. N : ps[n] = IF n = N THEN path ELSE paths[n]
  BY <1>1, ReplaceSeq DEF Follows, OnLastPath, Last
<1>5. ps # <<>>
  BY <1>1, <1>4, EmptySeq
<1> HIDE DEF ps, path
<1>6. ASSUME NEW n \in 1 .. N
      PROVE  IsSeq(ps[n]) /\ contacts[n] = UntilLift(ps[n])
  <2>1. IsSeq(paths[n]) /\ contacts[n] = UntilLift(paths[n])
    BY DEF Follows
  <2> QED
    BY <1>2, <1>3, <1>4, <2>1
<1> QED
  BY <1>1, <1>3, <1>4, <1>5, <1>6 DEF Follows, ps

LEMMA GestureItem ==
    ASSUME NEW s, NEW chain, Guided(chain, s, Len(s)), InTime(chain), IsGesture(s),
           \A k \in 1 .. Len(s) :
              s[k].type \in {"pointerMove", "pointerDown", "pointerUp", "pause"},
           NEW k \in 3 .. Len(s), NEW paths,
           Follows(paths, Acting(s)[k - 1].contacts, Touching(s, k - 1) = 1)
    PROVE  Follows(AddToEventPath(paths, chain, k), Acting(s)[k].contacts,
                   Touching(s, k) = 1)
<1> DEFINE N == Len(s)
           p == Acting(s)[k - 1]
           q == Acting(s)[k]
           before == Touching(s, k - 1)
           after == Touching(s, k)
           type == s[k].type
           new == AddToEventPath(paths, chain, k)
           place == chain[k].position
           arrival == chain[k].offset + chain[k].duration
<1>1. /\ N \in Nat /\ Len(chain) = N /\ k \in 1 .. N /\ k - 1 \in 1 .. N
      /\ k # 2 /\ k - 1 \in Nat /\ (k - 1) + 1 = k
  BY LenNat DEF Guided
<1>2. q = Act(s, p, k)
  BY <1>1, ActingDef
<1>3. /\ p.time = chain[k].offset
      /\ q.time = arrival
      /\ q.position = place
  <2>1. N # 0 /\ s[1].type = "pointerMove" /\ s[1].origin # "pointer"
    BY <1>1 DEF IsGesture
  <2>2. /\ p.time = End(chain, k - 1)
        /\ q.time = End(chain, k)
        /\ q.position = place
    BY <1>1, <2>1, PointerFollows
  <2>3. chain[k].offset = End(chain, k - 1)
    BY <1>1 DEF InTime
  <2>4. End(chain, k) = arrival
    BY <1>1 DEF End
  <2> QED
    BY <2>2, <2>3, <2>4
<1>4. /\ type \in {"pointerMove", "pointerDown", "pointerUp", "pause"}
      /\ chain[k].type = type /\ chain[k].pressure = s[k].pressure
  BY <1>1 DEF Guided
<1>5. /\ before \in {0, 1} /\ after \in {0, 1}
      /\ after = IF Presses(s, k) THEN before + 1
                 ELSE IF Lifts(s, k) THEN before - 1 ELSE before
      /\ type = "pointerDown" /\ s[k].pressure => SupportsPressure /\ after = 1
  <2>1. after = IF Presses(s, k) THEN before + 1
                ELSE IF Lifts(s, k) THEN before - 1 ELSE before
    BY <1>1, TouchingAdd
  <2> QED
    BY <1>1, <2>1 DEF IsGesture
<1>6. Follows(paths, p.contacts, before = 1) /\ paths # <<>>
  BY DEF Follows
<1>7. new = CASE type = "pointerDown" -> PointerDown(paths, chain, k)
              [] type = "pointerMove" -> PointerMove(paths, chain, k)
              [] type = "pointerUp" -> PointerUp(paths, chain, k)
              [] OTHER -> paths
  BY <1>4 DEF AddToEventPath
<1>8. q.contacts =
         CASE type = "pointerMove" /\ after = 1 ->
                 Grow(p.contacts, Event("move", q.time, q.position))
           [] type = "pointerDown" /\ s[k].pressure ->
                 Grow(p.contacts, Event("press", p.time, q.position))
           [] type = "pointerDown" /\ ~s[k].pressure ->
                 Append(p.contacts, <<Event("touch", p.time, q.position)>>)
           [] type = "pointerUp" -> Grow(p.contacts, Event("lift", p.time, q.position))
           [] OTHER -> p.contacts
  <2>1. q.time = p.time + s[k].duration
    BY <1>2 DEF Act
  <2>2. q.position = IF s[k].type # "pointerMove" THEN p.position
                     ELSE IF s[k].origin = "pointer" THEN p.position + s[k].x
                     ELSE s[k].x
    BY <1>2 DEF Act
  <2> HIDE DEF p
  <2> QED
    BY <1>2, <2>1, <2>2 DEF Act
<1>9. \A kind, at, position : Event(kind, at, position).kind = kind
  BY DEF Event
<1> HIDE DEF p, q, before, after, type, new, place, arrival
<1> SUFFICES Follows(new, q.contacts, after = 1)
  BY DEF new, q, after
<1>10. CASE type = "pause"
  <2>1. new = paths /\ q.contacts = p.contacts
    BY <1>7, <1>8, <1>10
  <2>2. after = before
    BY <1>5, <1>10 DEF Presses, Lifts, type
  <2> QED
    BY <1>6, <2>1, <2>2
<1>11. CASE type = "pointerMove"
  <2> DEFINE event == Event("move", arrival, place)
  <2>1. after = before
    BY <1>5, <1>11 DEF Presses, Lifts, type
  <2>2. event.kind # "lift"
    BY <1>9
  <2>3. new = OnLastPath(paths, event)
    BY <1>6, <1>7, <1>11 DEF PointerMove, arrival, place
  <2>4. q.contacts = IF after = 1 THEN Grow(p.contacts, event) ELSE p.contacts
    BY <1>3, <1>8, <1>11
  <2> HIDE DEF event
  <2>5. CASE after = 1
    <3>1. Follows(paths, p.contacts, TRUE)
      BY <1>6, <2>1, <2>5 DEF Follows
    <3>2. Follows(new, q.contacts, event.kind # "lift")
      BY <2>3, <2>4, <2>5, <3>1, ContactGoesOn
    <3> QED
      BY <2>2, <2>5, <3>2 DEF Follows
  <2>6. CASE after # 1
    <3>1. Follows(paths, p.contacts, FALSE)
      BY <1>6, <2>1, <2>6 DEF Follows
    <3>2. Follows(new, q.contacts, FALSE)
      BY <2>3, <2>4, <2>6, <3>1, ContactIsOver
    <3> QED
      BY <2>6, <3>2 DEF Follows
  <2> QED
    BY <2>5, <2>6
<1>12. CASE type = "pointerUp"
  <2> DEFINE event == Event("lift", chain[k].offset, place)
  <2>1. before = 1 /\ after = 0
    BY <1>5, <1>12 DEF Presses, Lifts, type
  <2>2. event.kind = "lift"
    BY <1>9
  <2>3. new = OnLastPath(paths, event)
    BY <1>6, <1>7, <1>12 DEF PointerUp, place
  <2>4. q.contacts = Grow(p.contacts, event)
    BY <1>3, <1>8, <1>12
  <2> HIDE DEF event
  <2>5. Follows(paths, p.contacts, TRUE)
    BY <1>6, <2>1 DEF Follows
  <2>6. Follows(new, q.contacts, event.kind # "lift")
    BY <2>3, <2>4, <2>5, ContactGoesOn
  <2> QED
    BY <2>1, <2>2, <2>6 DEF Follows
<1>13. CASE type = "pointerDown" /\ s[k].pressure
  <2> DEFINE event == Event("press", chain[k].offset, place)
  <2>1. before = 1 /\ after = 1 /\ SupportsPressure
    BY <1>5, <1>13 DEF Presses, Lifts, type
  <2>2. event.kind # "lift"
    BY <1>9
  <2>3. new = OnLastPath(paths, event)
    BY <1>1, <1>4, <1>6, <1>7, <1>13, <2>1 DEF PointerDown, place
  <2>4. q.contacts = Grow(p.contacts, event)
    BY <1>3, <1>8, <1>13
  <2> HIDE DEF event
  <2>5. Follows(paths, p.contacts, TRUE)
    BY <1>6, <2>1 DEF Follows
  <2>6. Follows(new, q.contacts, event.kind # "lift")
    BY <2>3, <2>4, <2>5, ContactGoesOn
  <2> QED
    BY <2>1, <2>2, <2>6 DEF Follows
<1>14. CASE type = "pointerDown" /\ ~s[k].pressure
  <2> DEFINE event == Event("touch", chain[k].offset, place)
  <2>1. before = 0 /\ after = 1
    BY <1>5, <1>14 DEF Presses, type
  <2>2. event.kind = "touch"
    BY <1>9
  <2>3. new = NewPath(paths, event)
    BY <1>1, <1>4, <1>7, <1>14 DEF PointerDown, place
  <2>4. q.contacts = Append(p.contacts, <<event>>)
    BY <1>3, <1>8, <1>14
  <2> HIDE DEF event
  <2>5. Follows(paths, p.contacts, FALSE)
    BY <1>6, <2>1 DEF Follows
  <2>6. Follows(new, q.contacts, TRUE)
    BY <2>2, <2>3, <2>4, <2>5, NewContact
  <2> QED
    BY <2>1, <2>6 DEF Follows
<1> QED
  BY <1>4, <1>10, <1>11, <1>12, <1>13, <1>14

LEMMA GesturePaths ==
    ASSUME ~IsSeq(Refused),
           NEW s, NEW chain, Guided(chain, s, Len(s)), InTime(chain), IsGesture(s),
           \A k \in 1 .. Len(s) :
              s[k].type \in {"pointerMove", "pointerDown", "pointerUp", "pause"}
    PROVE  Follows(Pathing(chain)[Len(chain)], Contacts(s), FALSE)
<1> DEFINE N == Len(s)
           paths == Pathing(chain)
           act == Acting(s)
           Good(k) == Follows(paths[k], act[k].contacts, Touching(s, k) = 1)
           T == {k \in Nat : k >= 2 /\ k <= N => Good(k)}
<1>1. N \in Nat /\ Len(chain) = N /\ N >= 2 /\ 1 \in 1 .. N /\ 2 \in 1 .. N
  BY LenNat DEF Guided, IsGesture
<1>2. paths = [k \in 0 .. N |->
                 IF k = 0 THEN <<>>
                 ELSE IF paths[k - 1] = Refused THEN Refused
                      ELSE AddToEventPath(paths[k - 1], chain, k)]
  BY <1>1, PathingDef
<1>3. /\ act[0] = [time |-> 0, position |-> 0, contacts |-> <<>>]
      /\ \A k \in 1 .. N : act[k] = Act(s, act[k - 1], k)
  BY <1>1, ActingDef
<1>4. \A k \in 1 .. N : act[k].time = End(chain, k) /\ act[k].position = chain[k].position
  BY <1>1, PointerFollows DEF IsGesture
<1> HIDE DEF paths, act
<1>5. \A k \in 1 .. N : paths[k] = IF paths[k - 1] = Refused THEN Refused
                                   ELSE AddToEventPath(paths[k - 1], chain, k)
  BY <1>1, <1>2
<1> HIDE DEF N
<1>6. /\ s[1].type = "pointerMove" /\ s[2].type = "pointerDown" /\ ~s[2].pressure
      /\ chain[1].type = "pointerMove" /\ chain[2].type = "pointerDown"
  BY <1>1 DEF IsGesture, Guided, N
<1>7. IsSeq(<<>>) /\ Len(<<>>) = 0
  BY EmptySeq DEF IsSeq
<1> DEFINE event == Event("touch", End(chain, 1), chain[1].position)
<1>8. event.kind = "touch"
  BY DEF Event
<1>9. paths[1] = <<<<event>>>>
  <2>1. paths[0] = <<>>
    BY <1>1, <1>2
  <2>2. paths[1] = PointerMove(<<>>, chain, 1)
    <3>1. paths[1 - 1] = <<>> /\ <<>> # Refused
      BY <1>7, <2>1
    <3>2. paths[1] = AddToEventPath(<<>>, chain, 1)
      BY <1>1, <1>5, <3>1
    <3> QED
      BY <1>6, <3>2 DEF AddToEventPath
  <2>3. chain[1].offset + chain[1].duration = End(chain, 1)
    BY DEF End
  <2>4. paths[1] = NewPath(<<>>, event)
    BY <2>2, <2>3 DEF PointerMove
  <2> HIDE DEF event
  <2> QED
    BY <2>4 DEF NewPath
<1>10. act[1].contacts = <<>>
  <2>1. Touching(s, 1) = 0
    <3>1. Touching(s, 0) = 0
      BY TouchingAdd
    <3>2. Touching(s, 0 + 1) = IF Presses(s, 0 + 1) THEN Touching(s, 0) + 1
                               ELSE IF Lifts(s, 0 + 1) THEN Touching(s, 0) - 1
                               ELSE Touching(s, 0)
      BY TouchingAdd
    <3> QED
      BY <1>6, <3>1, <3>2 DEF Presses, Lifts
  <2>2. act[1] = Act(s, act[1 - 1], 1)
    BY <1>1, <1>3
  <2>3. act[1 - 1].contacts = <<>>
    BY <1>3
  <2> QED
    BY <1>6, <2>1, <2>2, <2>3 DEF Act
<1>11. Touching(s, 2) = 1
  <2>1. Touching(s, 1) = 0
    <3>1. Touching(s, 0) = 0
      BY TouchingAdd
    <3>2. Touching(s, 0 + 1) = IF Presses(s, 0 + 1) THEN Touching(s, 0) + 1
                               ELSE IF Lifts(s, 0 + 1) THEN Touching(s, 0) - 1
                               ELSE Touching(s, 0)
      BY TouchingAdd
    <3> QED
      BY <1>6, <3>1, <3>2 DEF Presses, Lifts
  <2>2. Touching(s, 1 + 1) = IF Presses(s, 1 + 1) THEN Touching(s, 1) + 1
                             ELSE IF Lifts(s, 1 + 1) THEN Touching(s, 1) - 1
                             ELSE Touching(s, 1)
    BY TouchingAdd
  <2> QED
    BY <1>6, <2>1, <2>2 DEF Presses
<1> HIDE DEF event
<1>12. IsSeq(<<event>>) /\ ~Lifted(<<event>>)
  BY <1>8, Singleton
<1>13. paths[2] = <<<<event>>>>
  <2>1. paths[2 - 1] = <<<<event>>>> /\ <<<<event>>>> # Refused
    BY <1>9, Singleton
  <2>2. paths[2] = AddToEventPath(<<<<event>>>>, chain, 2)
    BY <1>1, <1>5, <2>1
  <2>3. AddToEventPath(<<<<event>>>>, chain, 2) = PointerDown(<<<<event>>>>, chain, 2)
    BY <1>6 DEF AddToEventPath
  <2> QED
    BY <1>6, <2>2, <2>3 DEF PointerDown
<1>14. act[2].contacts = <<<<event>>>>
  <2>1. act[2] = Act(s, act[2 - 1], 2)
    BY <1>1, <1>3
  <2>2. /\ act[2 - 1].contacts = <<>>
        /\ act[2 - 1].time = End(chain, 1)
        /\ act[2 - 1].position = chain[1].position
    BY <1>1, <1>4, <1>10
  <2>3. act[2].contacts = Append(<<>>, <<Event("touch", End(chain, 1), chain[1].position)>>)
    BY <1>6, <2>1, <2>2 DEF Act
  <2>4. act[2].contacts = Append(<<>>, <<event>>)
    BY <2>3 DEF event
  <2> QED
    BY <2>4
<1>15. Good(2)
  <2> DEFINE path == <<event>>
             both == <<path>>
  <2>1. IsSeq(path) /\ ~Lifted(path) /\ UntilLift(path) = path
    BY <1>12, NotLifted
  <2> HIDE DEF path
  <2>2. IsSeq(both) /\ Len(both) = 1 /\ both[1] = path /\ both # <<>>
    BY Singleton
  <2>3. paths[2] = both /\ act[2].contacts = both
    BY <1>13, <1>14 DEF path
  <2> HIDE DEF both
  <2>4. Follows(both, both, TRUE)
    <3>1. \A n \in 1 .. Len(both) : n = 1
      BY <2>2
    <3> QED
      BY <2>1, <2>2, <3>1 DEF Follows
  <2> QED
    BY <1>11, <2>3, <2>4
<1>16. ASSUME NEW k \in Nat, k >= 2, k + 1 <= N, Good(k) PROVE Good(k + 1)
  <2>1. k + 1 \in 3 .. N /\ k + 1 \in 1 .. N /\ (k + 1) - 1 = k
    BY <1>1, <1>16
  <2>2. paths[k] # Refused
    BY <1>16 DEF Follows
  <2>3. paths[k + 1] = AddToEventPath(paths[k], chain, k + 1)
    BY <1>5, <2>1, <2>2
  <2> DEFINE l == k + 1
  <2>4. l \in 3 .. Len(s) /\ Follows(paths[k], Acting(s)[l - 1].contacts, Touching(s, l - 1) = 1)
    BY <1>16, <2>1 DEF act, N
  <2> HIDE DEF l
  <2>5. Follows(AddToEventPath(paths[k], chain, l), Acting(s)[l].contacts, Touching(s, l) = 1)
    BY <2>4, GestureItem
  <2> QED
    BY <2>3, <2>5 DEF act, l
<1>17. Nat \subseteq T
  <2> HIDE DEF Good
  <2>1. 0 \in T
    OBVIOUS
  <2>2. ASSUME NEW k \in Nat, k \in T PROVE k + 1 \in T
    <3>1. CASE k + 1 = 2
      BY <1>15, <3>1
    <3>2. CASE k >= 2 /\ k + 1 <= N
      BY <1>16, <2>2, <3>2, <1>1
    <3>3. CASE k + 1 < 2 \/ k + 1 > N
      BY <3>3, <1>1
    <3> QED
      BY <1>1, <3>1, <3>2, <3>3
  <2> HIDE DEF T
  <2> QED
    BY <2>1, <2>2, Induction
<1>18. Good(N)
  BY <1>1, <1>17
<1>19. Touching(s, N) # 1
  BY DEF IsGesture, N
<1> QED
  BY <1>1, <1>18, <1>19 DEF Contacts, paths, act, N, Follows

LEMMA GestureEventPaths ==
    ASSUME ~IsSeq(Refused), ~IsSeq(NIL), NEW all \in Seq(PointerItems),
           IsGesture(Counted(all))
    PROVE  LET paths == EventPaths("pointer", all)
           IN  /\ paths \notin {NIL, Refused}
               /\ [n \in DOMAIN paths |-> UntilLift(paths[n])] = Contacts(Counted(all))
<1> DEFINE s == Preprocess(all)
           N == Len(s)
           chain == Chaining("pointer", s)[N]
           paths == EventPaths("pointer", all)
<1>1. s = Counted(all) /\ s \in Seq(NoCancels(PointerItems)) /\ s \in Seq(Items)
  <2>1. s = Counted(all) /\ s \in Seq(NoCancels(PointerItems))
    BY KeptCounts, KeptItems
  <2>2. NoCancels(PointerItems) \subseteq Items
    BY DEF NoCancels, Items
  <2> QED
    BY <2>1, <2>2
<1>2. paths = AsEventPaths(chain)
  BY DEF EventPaths
<1> HIDE DEF s, paths
<1>3. IsGesture(s)
  BY <1>1
<1>4. /\ N \in Nat /\ N # 0
      /\ s[1].type = "pointerMove" /\ s[1].origin # "pointer"
      /\ \A k \in 1 .. N : s[k].type # "unusable"
  BY <1>1, <1>3, LenProperties DEF IsGesture
<1>5. \A k \in 1 .. N :
         s[k].type \in {"pointerMove", "pointerDown", "pointerUp", "pause"}
  <2>1. \A k \in 1 .. N : s[k] \in NoCancels(PointerItems)
    BY <1>1
  <2> QED
    BY <1>4, <2>1, ItemsAssumption DEF NoCancels, PointerTypes
<1>6. Guided(chain, s, N)
  BY <1>1, <1>4, GestureChaining
<1>7. InTime(chain)
  <2>1. chain = Refused \/ InTime(chain)
    BY <1>1, ChainInTime
  <2>2. chain # Refused
    BY <1>6 DEF Guided
  <2> QED
    BY <2>1, <2>2
<1> HIDE DEF chain
<1>8. paths = Pathing(chain)[Len(chain)]
  <2>1. chain # Refused /\ chain # <<>>
    BY <1>4, <1>6, EmptySeq DEF Guided
  <2> QED
    BY <1>2, <2>1 DEF AsEventPaths
<1>9. Follows(paths, Contacts(s), FALSE)
  BY <1>3, <1>5, <1>6, <1>7, <1>8, GesturePaths
<1>10. paths \notin {NIL, Refused}
  BY <1>9 DEF Follows
<1>11. [n \in DOMAIN paths |-> UntilLift(paths[n])] = Contacts(s)
  <2> DEFINE contacts == Contacts(s)
             M == Len(paths)
  <2>1. M \in Nat /\ DOMAIN paths = 1 .. M /\ IsSeq(contacts) /\ Len(contacts) = M
    BY <1>9, LenNat DEF Follows
  <2>2. \A n \in 1 .. M : contacts[n] = UntilLift(paths[n])
    BY <1>9 DEF Follows
  <2>3. PICK S : contacts \in Seq(S)
    BY <2>1 DEF IsSeq
  <2> HIDE DEF contacts, M
  <2>4. contacts \in [1 .. M -> S]
    BY <2>1, <2>3, LenProperties
  <2>5. contacts = [n \in 1 .. M |-> contacts[n]]
    BY <2>4
  <2>6. contacts = [n \in 1 .. M |-> UntilLift(paths[n])]
    BY <2>2, <2>5
  <2> QED
    BY <2>1, <2>6 DEF contacts
<1> QED
  BY <1>1, <1>10, <1>11 DEF paths

-----------------------------------------------------------------------------
(* The behaviours.                                                           *)

\* The inductive invariant.
Inv ==
    /\ items \in Seq(Items)
    /\ EventsInTime

LEMMA SynthesisInTime == ASSUME Inv, Synthesize PROVE EventsInTime'
<1> SUFFICES ASSUME record' \notin {NIL, Refused}
             PROVE  \A m, n \in DOMAIN record' :
                       \A i \in DOMAIN record'[m], j \in DOMAIN record'[n] :
                          m < n \/ (m = n /\ i < j) =>
                              record'[m][i].at <= record'[n][j].at
  BY DEF EventsInTime, Made
<1>1. CASE items = <<>>
  BY <1>1 DEF Synthesize
<1>2. CASE items # <<>>
  <2> DEFINE kept == Preprocess(items)
             chain == Chaining(source, kept)[Len(kept)]
  <2>1. record' = AsEventPaths(chain)
    BY <1>2 DEF Synthesize, EventPaths
  <2>2. kept \in Seq(Items)
    BY KeptItems DEF Inv
  <2>3. chain = Refused \/ InTime(chain)
    BY <2>2, ChainInTime
  <2> HIDE DEF chain
  <2>4. InTime(chain) /\ record' = Pathing(chain)[Len(chain)]
    BY <2>1, <2>3 DEF AsEventPaths
  <2>5. Until(record', End(chain, Len(chain)))
    BY <2>4, PathsUntil
  <2> QED
    BY <2>5, UntilInTime
<1> QED
  BY <1>1, <1>2

LEMMA NextInv == Inv /\ [Next]_vars => Inv'
<1> SUFFICES ASSUME Inv, [Next]_vars PROVE Inv'
  OBVIOUS
<1>1. CASE AddItem
  <2>1. PICK item \in Items : items' = Append(items, item)
    BY <1>1 DEF AddItem, Items
  <2> QED
    BY <1>1, <2>1 DEF AddItem, Inv, EventsInTime, Made
<1>2. CASE Synthesize
  BY <1>2, SynthesisInTime DEF Synthesize, Inv
<1>3. CASE NextRequest
  BY <1>3 DEF NextRequest, Inv, EventsInTime, Made
<1>4. CASE UNCHANGED vars
  BY <1>4 DEF vars, Inv, EventsInTime, Made
<1> QED
  BY <1>1, <1>2, <1>3, <1>4 DEF Next

\* However many items a source has and whatever they are, the events made of
\* them by FBW3CActionsSynthesizer.m:596-616 only go forward in time.
THEOREM EventsGoForward == Spec => []EventsInTime
<1>1. Init => Inv
  BY DEF Init, Inv, EventsInTime, Made
<1>2. Inv /\ [Next]_vars => Inv'
  BY NextInv
<1>3. Inv => EventsInTime
  BY DEF Inv
<1> QED
  BY <1>1, <1>2, <1>3, PTL DEF Spec

\* What a source of keys needs for it.
KeyInv ==
    /\ source = "key" => items \in Seq(KeyItems)
    /\ KeysAreTyped

\* However many items a source of keys has, it is refused unless its keys go down
\* and up in turn, and otherwise every key is typed once, in the order of the
\* releases (FBW3CActionsSynthesizer.m:408-479, 510-547).  Both nil and a refusal
\* are told from any list of paths.
THEOREM KeysTyped ==
    ASSUME ~IsSeq(Refused), ~IsSeq(NIL)
    PROVE  Spec => []KeysAreTyped
<1>1. Init => KeyInv
  BY DEF Init, KeyInv, KeysAreTyped
<1>2. KeyInv /\ [Next]_vars => KeyInv'
  <2> SUFFICES ASSUME KeyInv, [Next]_vars PROVE KeyInv'
    OBVIOUS
  <2>1. CASE AddItem
    <3>1. PICK item \in IF source = "pointer" THEN PointerItems ELSE KeyItems :
             items' = Append(items, item)
      BY <2>1 DEF AddItem
    <3>2. source' = "key" => items' \in Seq(KeyItems)
      BY <2>1, <3>1 DEF AddItem, KeyInv
    <3> QED
      BY <2>1, <3>2 DEF AddItem, KeyInv, KeysAreTyped
  <2>2. CASE Synthesize
    <3>1. source' = source /\ items' = items
      BY <2>2 DEF Synthesize
    <3>2. ASSUME source = "key", items # <<>>
          PROVE  /\ Made' <=> IsTyping(Counted(items))
                 /\ Made' => Texts(record')[Len(record')] = Released(Counted(items))
      <4>1. record' = EventPaths("key", items)
        BY <2>2, <3>2 DEF Synthesize
      <4>2. items \in Seq(KeyItems)
        BY <3>2 DEF KeyInv
      <4> QED
        BY <4>1, <4>2, KeyEventPaths DEF Made, TextOf
    <3> QED
      BY <3>1, <3>2 DEF KeyInv, KeysAreTyped
  <2>3. CASE NextRequest
    BY <2>3 DEF NextRequest, KeyInv, KeysAreTyped
  <2>4. CASE UNCHANGED vars
    BY <2>4 DEF vars, KeyInv, KeysAreTyped, Made
  <2> QED
    BY <2>1, <2>2, <2>3, <2>4 DEF Next
<1>3. KeyInv => KeysAreTyped
  BY DEF KeyInv
<1> QED
  BY <1>1, <1>2, <1>3, PTL DEF Spec

\* What a source of a pointer needs for it.
PointerInv ==
    /\ source = "pointer" => items \in Seq(PointerItems)
    /\ TouchesAreContacts

\* However many items a source of a pointer has, if it is a gesture then each of its
\* contacts becomes a path with the same touch, moves, presses and lift
\* (FBW3CActionsSynthesizer.m:203-356, 624-673).  Both nil and a refusal are told
\* from any list of paths.
THEOREM TouchesMade ==
    ASSUME ~IsSeq(Refused), ~IsSeq(NIL)
    PROVE  Spec => []TouchesAreContacts
<1>1. Init => PointerInv
  BY DEF Init, PointerInv, TouchesAreContacts
<1>2. PointerInv /\ [Next]_vars => PointerInv'
  <2> SUFFICES ASSUME PointerInv, [Next]_vars PROVE PointerInv'
    OBVIOUS
  <2>1. CASE AddItem
    <3>1. PICK item \in IF source = "pointer" THEN PointerItems ELSE KeyItems :
             items' = Append(items, item)
      BY <2>1 DEF AddItem
    <3>2. source' = "pointer" => items' \in Seq(PointerItems)
      BY <2>1, <3>1 DEF AddItem, PointerInv
    <3> QED
      BY <2>1, <3>2 DEF AddItem, PointerInv, TouchesAreContacts
  <2>2. CASE Synthesize
    <3>1. source' = source /\ items' = items
      BY <2>2 DEF Synthesize
    <3>2. ASSUME source = "pointer", IsGesture(Counted(items))
          PROVE  /\ Made'
                 /\ [n \in DOMAIN record' |-> UntilLift(record'[n])]
                       = Contacts(Counted(items))
      <4>1. items \in Seq(PointerItems)
        BY <3>2 DEF PointerInv
      <4>2. items # <<>>
        <5>1. Counted(<<>>) = <<>>
          <6>1. Len(<<>>) = 0 /\ Len(<<>>) \in Nat
            BY EmptySeq
          <6> QED
            BY <6>1, CountingDef DEF Counted
        <5>2. Len(<<>>) = 0
          BY EmptySeq
        <5>3. Len(Counted(items)) > 1
          BY <3>2 DEF IsGesture
        <5> QED
          BY <5>1, <5>2, <5>3
      <4>3. record' = EventPaths("pointer", items)
        BY <2>2, <3>2, <4>2 DEF Synthesize
      <4> QED
        BY <3>2, <4>1, <4>3, GestureEventPaths DEF Made
    <3> QED
      BY <3>1, <3>2 DEF PointerInv, TouchesAreContacts
  <2>3. CASE NextRequest
    BY <2>3 DEF NextRequest, PointerInv, TouchesAreContacts
  <2>4. CASE UNCHANGED vars
    BY <2>4 DEF vars, PointerInv, TouchesAreContacts, Made
  <2> QED
    BY <2>1, <2>2, <2>3, <2>4 DEF Next
<1>3. PointerInv => TouchesAreContacts
  BY DEF PointerInv
<1> QED
  BY <1>1, <1>2, <1>3, PTL DEF Spec
=============================================================================
