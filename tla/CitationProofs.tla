---------------------------- MODULE CitationProofs ----------------------------
(***************************************************************************)
(* Theorems about what is cited.  Of Cycles, for any file: however many    *)
(* theorems it has and whatever each of them cites, in whatever order.  Of *)
(* Chains, for any step: however many lines it has, whatever each of them  *)
(* says, and whatever whole numbers the terms are worth.                   *)
(***************************************************************************)
EXTENDS Cycles, Chains, Induction

Frames == [thm : Ours, edge : Nat \ {0}]

(***************************************************************************)
(* Sequences whose last element is replaced or taken away.                 *)
(***************************************************************************)
LEMMA LastTaken ==
  ASSUME NEW S, NEW s \in Seq(S), s # <<>>
  PROVE  /\ SubSeq(s, 1, Len(s) - 1) \in Seq(S)
         /\ Len(SubSeq(s, 1, Len(s) - 1)) = Len(s) - 1
         /\ \A k \in 1..(Len(s) - 1) : SubSeq(s, 1, Len(s) - 1)[k] = s[k]
<1> DEFINE n == Len(s)
           t == SubSeq(s, 1, n - 1)
<1>1. n \in Nat \ {0}
  BY EmptySeq
<1>2. \A k \in 1..(n - 1) : s[k] \in S
  BY <1>1
<1>3. /\ t \in Seq(S)
      /\ Len(t) = IF 1 <= n - 1 THEN (n - 1) - 1 + 1 ELSE 0
      /\ \A k \in 1..((n - 1) - 1 + 1) : t[k] = s[1 + k - 1]
  BY <1>1, <1>2, SubSeqProperties
<1> HIDE DEF n, t
<1>4. Len(t) = n - 1
  BY <1>1, <1>3
<1>5. ASSUME NEW k \in 1..(n - 1) PROVE t[k] = s[k]
  <2>1. k \in 1..((n - 1) - 1 + 1) /\ 1 + k - 1 = k
    BY <1>1
  <2>2. QED
    BY <1>3, <2>1
<1>6. QED
  BY <1>3, <1>4, <1>5 DEF n, t

\* A trail whose last frame is replaced has the frames it had below it.
LEMMA LastReplaced ==
  ASSUME NEW S, NEW s \in Seq(S), s # <<>>, NEW f \in S
  PROVE  /\ Append(SubSeq(s, 1, Len(s) - 1), f) \in Seq(S)
         /\ Len(Append(SubSeq(s, 1, Len(s) - 1), f)) = Len(s)
         /\ \A k \in 1..(Len(s) - 1) : Append(SubSeq(s, 1, Len(s) - 1), f)[k] = s[k]
         /\ Append(SubSeq(s, 1, Len(s) - 1), f)[Len(s)] = f
<1> DEFINE t == SubSeq(s, 1, Len(s) - 1)
<1>1. /\ Len(s) \in Nat \ {0}
      /\ t \in Seq(S) /\ Len(t) = Len(s) - 1
      /\ \A k \in 1..(Len(s) - 1) : t[k] = s[k]
  BY EmptySeq, LastTaken
<1> HIDE DEF t
<1>2. QED
  BY <1>1

(***************************************************************************)
(* What Follow does to the frames, the three ways it goes on.              *)
(***************************************************************************)
LEMMA Shape ==
  ASSUME TypeOK, stack # <<>>
  PROVE  /\ Len(stack) \in Nat \ {0}
         /\ Top \in Frames
         /\ Top.thm \in Ours
         /\ Top.edge \in 1..(Len(cites[Top.thm]) + 1)
         /\ cites[Top.thm] \in Seq(Nat)
         /\ DOMAIN stack = 1..Len(stack)
<1>0. stack \in Seq(Frames)
  BY DEF TypeOK, Frames
<1>1. Len(stack) \in Nat \ {0} /\ DOMAIN stack = 1..Len(stack)
  BY <1>0, EmptySeq
<1>2. Top \in Frames
  BY <1>0, <1>1 DEF Top
<1>3. Top.thm \in Ours /\ Top.edge \in Nat \ {0} /\ Top.edge <= Len(cites[Top.thm]) + 1
  <2>1. Top.thm \in Ours /\ Top.edge \in Nat \ {0}
    BY <1>2 DEF Frames
  <2>2. Len(stack) \in DOMAIN stack
    BY <1>1
  <2>3. Top.edge <= Len(cites[Top.thm]) + 1
    BY <2>2 DEF TypeOK, Top
  <2>4. QED
    BY <2>1, <2>3
<1>4. cites[Top.thm] \in Seq(Nat)
  BY <1>3 DEF TypeOK, Ours
<1>5. Len(cites[Top.thm]) \in Nat
  BY <1>4
<1>6. QED
  BY <1>1, <1>2, <1>3, <1>4, <1>5

\* The frames, each on its own.
LEMMA FrameFacts ==
  ASSUME TypeOK
  PROVE  /\ stack \in Seq(Frames)
         /\ Len(stack) \in Nat
         /\ DOMAIN stack = 1..Len(stack)
         /\ \A k \in 1..Len(stack) : /\ stack[k] \in Frames
                                     /\ stack[k].thm \in Ours
                                     /\ stack[k].edge \in Nat \ {0}
                                     /\ stack[k].edge <= Len(cites[stack[k].thm]) + 1
<1>1. stack \in Seq(Frames)
  BY DEF TypeOK, Frames
<1>2. Len(stack) \in Nat /\ DOMAIN stack = 1..Len(stack) /\ \A k \in 1..Len(stack) : stack[k] \in Frames
  BY <1>1
<1>3. \A k \in 1..Len(stack) : stack[k].thm \in Ours /\ stack[k].edge \in Nat \ {0}
  BY <1>2 DEF Frames
<1>4. \A k \in 1..Len(stack) : stack[k].edge <= Len(cites[stack[k].thm]) + 1
  BY <1>2 DEF TypeOK
<1>5. QED
  BY <1>1, <1>2, <1>3, <1>4

Read == Append(Below, [Top EXCEPT !.edge = @ + 1])

\* Reading on moves the last frame past one more citation, and nothing else.
LEMMA ReadShape ==
  ASSUME TypeOK, stack # <<>>, Top.edge <= Len(cites[Top.thm])
  PROVE  /\ Read \in Seq(Frames)
         /\ Len(Read) = Len(stack)
         /\ \A k \in 1..(Len(stack) - 1) : Read[k] = stack[k]
         /\ Read[Len(stack)].thm = Top.thm
         /\ Read[Len(stack)].edge = Top.edge + 1
         /\ \A k \in 1..Len(stack) : Read[k].thm = stack[k].thm
<1>1. stack \in Seq(Frames) /\ Top \in Frames
  BY Shape DEF TypeOK, Frames
<1>2. [Top EXCEPT !.edge = @ + 1] \in Frames
  BY <1>1 DEF Frames
<1> HIDE DEF Frames
<1>3. /\ Read \in Seq(Frames)
      /\ Len(Read) = Len(stack)
      /\ \A k \in 1..(Len(stack) - 1) : Read[k] = stack[k]
      /\ Read[Len(stack)] = [Top EXCEPT !.edge = @ + 1]
  BY <1>1, <1>2, LastReplaced DEF Read, Below
<1>4. Read[Len(stack)].thm = Top.thm /\ Read[Len(stack)].edge = Top.edge + 1
  BY <1>1, <1>3 DEF Frames
<1>5. \A k \in 1..Len(stack) : Read[k].thm = stack[k].thm
  <2>1. Len(stack) \in Nat \ {0} /\ Top = stack[Len(stack)]
    BY Shape DEF Top
  <2>2. SUFFICES ASSUME NEW k \in 1..Len(stack) PROVE Read[k].thm = stack[k].thm
    OBVIOUS
  <2>3. CASE k = Len(stack)
    BY <1>4, <2>1, <2>3
  <2>4. CASE k \in 1..(Len(stack) - 1)
    BY <1>3, <2>4
  <2>5. QED
    BY <2>1, <2>3, <2>4
<1>6. QED
  BY <1>3, <1>4, <1>5

\* A citation followed is reported, gone past, or pushes what it cites.
LEMMA FollowCases ==
  ASSUME TypeOK, Follow
  PROVE  /\ stack # <<>> /\ Top.edge <= Len(cites[Top.thm])
         /\ cites' = cites /\ next' = next /\ done' = done
         /\ LET cited == cites[Top.thm][Top.edge] IN
            \/ ~Counted(Top.thm, Top.edge) /\ stack' = Read /\ reported' = reported
            \/ /\ Counted(Top.thm, Top.edge) /\ OnTrail(cited)
               /\ stack' = Read /\ reported' = Append(reported, Closing(cited))
            \/ /\ Counted(Top.thm, Top.edge) /\ ~OnTrail(cited) /\ cited \in done
               /\ stack' = Read /\ reported' = reported
            \/ /\ Counted(Top.thm, Top.edge) /\ ~OnTrail(cited) /\ cited \notin done
               /\ stack' = Append(Read, Frame(cited)) /\ reported' = reported
  BY DEF Follow, Read

\* The frames once a citation has led on to another theorem.
LEMMA DownShape ==
  ASSUME TypeOK, stack # <<>>, Top.edge <= Len(cites[Top.thm]), NEW cited \in Ours
  PROVE  /\ Append(Read, Frame(cited)) \in Seq(Frames)
         /\ Len(Append(Read, Frame(cited))) = Len(stack) + 1
         /\ \A k \in 1..Len(stack) : Append(Read, Frame(cited))[k] = Read[k]
         /\ Append(Read, Frame(cited))[Len(stack) + 1] = Frame(cited)
         /\ Frame(cited).thm = cited /\ Frame(cited).edge = 1
<1>1. Frame(cited) \in Frames /\ Frame(cited).thm = cited /\ Frame(cited).edge = 1
  BY DEF Frame, Frames
<1>2. Read \in Seq(Frames) /\ Len(Read) = Len(stack) /\ Len(stack) \in Nat
  BY ReadShape, Shape
<1> HIDE DEF Frames, Frame
<1>3. QED
  BY <1>1, <1>2

\* What is reported is the trail from the theorem cited to the last.
LEMMA ClosingShape ==
  ASSUME TypeOK, stack # <<>>, NEW cited \in Ours, OnTrail(cited)
  PROVE  \E k \in DOMAIN stack :
           /\ stack[k].thm = cited
           /\ Closing(cited) \in Seq(Ours) \ {<<>>}
           /\ Len(Closing(cited)) = Len(stack) - k + 1
           /\ \A i \in 1..(Len(stack) - k + 1) : Closing(cited)[i] = stack[k + i - 1].thm
           /\ ReportedAt(Closing(cited)) = <<Top.thm, cited>>
<1> DEFINE n == Len(stack)
           k == CHOOSE j \in DOMAIN stack : stack[j].thm = cited
           closing == SubSeq(Trail, k, n)
<1>1. n \in Nat \ {0} /\ DOMAIN stack = 1..n
  BY Shape
<1>2. Trail \in [1..n -> Ours] /\ \A j \in 1..n : Trail[j] = stack[j].thm
  BY <1>1, FrameFacts DEF Trail
<1>3. \E j \in DOMAIN stack : stack[j].thm = cited
  BY <1>1, <1>2 DEF OnTrail, Range
<1>4. k \in 1..n /\ stack[k].thm = cited
  BY <1>1, <1>3
<1>5. closing = Closing(cited)
  BY DEF Closing
<1> HIDE DEF n, k
<1>6. \A i \in k..n : Trail[i] \in Ours
  BY <1>1, <1>2, <1>4
<1>7. /\ closing \in Seq(Ours)
      /\ Len(closing) = IF k <= n THEN n - k + 1 ELSE 0
      /\ \A i \in 1..(n - k + 1) : closing[i] = Trail[k + i - 1]
  BY <1>1, <1>4, <1>6, SubSeqProperties
<1> HIDE DEF closing
<1>8. Len(closing) = n - k + 1 /\ Len(closing) \in Nat \ {0}
  BY <1>1, <1>4, <1>7
<1>9. closing # <<>>
  BY <1>8
<1>10. ASSUME NEW i \in 1..(n - k + 1) PROVE closing[i] = stack[k + i - 1].thm
  <2>1. k + i - 1 \in 1..n
    BY <1>1, <1>4
  <2>2. QED
    BY <1>2, <1>7, <2>1
<1>11. closing[1] = cited /\ closing[Len(closing)] = Top.thm
  <2>1. 1 \in 1..(n - k + 1) /\ n - k + 1 \in 1..(n - k + 1) /\ k + 1 - 1 = k /\ k + (n - k + 1) - 1 = n
    BY <1>1, <1>4
  <2>2. closing[1] = stack[k].thm /\ closing[n - k + 1] = stack[n].thm
    BY <1>10, <2>1
  <2>3. QED
    BY <1>4, <1>8, <2>2 DEF Top, n
<1>12. QED
  BY <1>1, <1>4, <1>5, <1>7, <1>8, <1>9, <1>10, <1>11 DEF ReportedAt, n

(***************************************************************************)
(* Types.                                                                  *)
(***************************************************************************)
Injective == \A a, b \in DOMAIN stack : stack[a].thm = stack[b].thm => a = b

\* A theorem is on the trail once.
LEMMA TrailInjective == ASSUME TypeOK PROVE Injective
<1>1. DOMAIN Trail = DOMAIN stack /\ \A k \in DOMAIN stack : Trail[k] = stack[k].thm
  BY DEF Trail
<1>2. QED
  BY <1>1 DEF TypeOK, IsInjective, Injective

\* Every step of the walk keeps its types, and no theorem is twice on the
\* trail.
LEMMA TypeStep == TypeOK /\ [Next]_vars => TypeOK'
<1> SUFFICES ASSUME TypeOK, [Next]_vars PROVE TypeOK'
  OBVIOUS
<1>1. CASE Begin
  <2>1. next \in Ours /\ next \in 1..Len(cites)
    BY <1>1 DEF Begin, TypeOK, Ours
  <2>2. cites' = cites /\ done' = done /\ reported' = reported /\ next' = next + 1
    BY <1>1 DEF Begin
  <2>3. Ours' = Ours
    BY <2>2 DEF Ours
  <2>4. stack' = <<>> \/ stack' = <<Frame(next)>>
    BY <1>1 DEF Begin
  <2>5. Len(cites[next]) \in Nat
    BY <2>1 DEF TypeOK
  <2>6. /\ stack' \in Seq([thm : Ours, edge : Nat \ {0}])
        /\ \A k \in DOMAIN stack' : stack'[k].edge <= Len(cites[stack'[k].thm]) + 1
        /\ \A a, b \in DOMAIN stack' : stack'[a].thm = stack'[b].thm => a = b
    <3>1. CASE stack' = <<>>
      BY <3>1
    <3>2. CASE stack' = <<Frame(next)>>
      <4>1. /\ Len(stack') = 1 /\ DOMAIN stack' = {1} /\ stack'[1] = Frame(next)
            /\ Frame(next) \in [thm : Ours, edge : Nat \ {0}]
            /\ Frame(next).thm = next /\ Frame(next).edge = 1
        BY <2>1, <3>2 DEF Frame
      <4>2. stack' \in Seq([thm : Ours, edge : Nat \ {0}])
        BY <3>2, <4>1
      <4>3. QED
        BY <2>5, <4>1, <4>2
    <3>3. QED
      BY <2>4, <3>1, <3>2
  <2>7. IsInjective(Trail)'
    BY <2>6 DEF Trail, IsInjective
  <2>8. next' \in 1..(Len(cites') + 1)
    BY <2>1, <2>2
  <2>9. QED
    BY <2>2, <2>3, <2>6, <2>7, <2>8 DEF TypeOK
<1>2. CASE Follow
  <2> DEFINE cited == cites[Top.thm][Top.edge]
             n == Len(stack)
  <2>1. /\ stack # <<>> /\ Top.edge <= Len(cites[Top.thm])
        /\ cites' = cites /\ next' = next /\ done' = done
    BY <1>2, FollowCases
  <2>2. /\ n \in Nat \ {0} /\ DOMAIN stack = 1..n
        /\ Top.thm \in Ours /\ Top.edge \in 1..Len(cites[Top.thm])
        /\ Top = stack[n]
    BY <2>1, Shape DEF Top
  <2>3. Ours' = Ours
    BY <2>1 DEF Ours
  <2>0. n \in Nat \ {0}
    BY <2>2
  <2>4. Injective
    BY TrailInjective
  <2>5. ASSUME stack' = Read
        PROVE  /\ stack' \in Seq([thm : Ours, edge : Nat \ {0}])
               /\ \A k \in DOMAIN stack' : stack'[k].edge <= Len(cites[stack'[k].thm]) + 1
               /\ \A a, b \in DOMAIN stack' : stack'[a].thm = stack'[b].thm => a = b
    <3>1. /\ Read \in Seq(Frames)
          /\ Len(Read) = n
          /\ \A k \in 1..(n - 1) : Read[k] = stack[k]
          /\ Read[n].thm = Top.thm
          /\ Read[n].edge = Top.edge + 1
          /\ \A k \in 1..n : Read[k].thm = stack[k].thm
      BY <2>1, ReadShape
    <3>2. DOMAIN Read = 1..n
      BY <3>1
    <3>3. ASSUME NEW k \in 1..n PROVE Read[k].edge <= Len(cites[Read[k].thm]) + 1
      <4>1. CASE k = n
        BY <2>2, <3>1, <4>1
      <4>2. CASE k \in 1..(n - 1)
        BY <2>2, <3>1, <4>2, FrameFacts
      <4>3. k = n \/ k \in 1..(n - 1)
        BY <2>0
      <4>4. QED
        BY <4>1, <4>2, <4>3
    <3>4. \A a, b \in 1..n : Read[a].thm = Read[b].thm => a = b
      BY <2>2, <2>4, <3>1 DEF Injective
    <3>5. QED
      BY <2>5, <3>1, <3>2, <3>3, <3>4 DEF Frames
  <2>6. ASSUME stack' = Append(Read, Frame(cited)), cited \in Ours, ~OnTrail(cited)
        PROVE  /\ stack' \in Seq([thm : Ours, edge : Nat \ {0}])
               /\ \A k \in DOMAIN stack' : stack'[k].edge <= Len(cites[stack'[k].thm]) + 1
               /\ \A a, b \in DOMAIN stack' : stack'[a].thm = stack'[b].thm => a = b
    <3> DEFINE down == Append(Read, Frame(cited))
    <3>1. /\ down \in Seq(Frames)
          /\ Len(down) = n + 1
          /\ \A k \in 1..n : down[k] = Read[k]
          /\ down[n + 1] = Frame(cited)
          /\ Frame(cited).thm = cited /\ Frame(cited).edge = 1
      BY <2>1, <2>6, DownShape
    <3>2. /\ \A k \in 1..(n - 1) : Read[k] = stack[k]
          /\ Read[n].thm = Top.thm
          /\ Read[n].edge = Top.edge + 1
          /\ \A k \in 1..n : Read[k].thm = stack[k].thm
      BY <2>1, ReadShape
    <3>3. DOMAIN down = 1..(n + 1)
      BY <3>1
    <3> HIDE DEF down, cited
    <3>4. ASSUME NEW k \in 1..(n + 1) PROVE down[k].edge <= Len(cites[down[k].thm]) + 1
      <4>1. CASE k = n
        BY <2>2, <3>1, <3>2, <4>1
      <4>2. CASE k \in 1..(n - 1)
        <5>1. down[k] = stack[k] /\ k \in 1..n
          BY <2>2, <3>1, <3>2, <4>2
        <5>2. QED
          BY <5>1, FrameFacts
      <4>3. CASE k = n + 1
        <5>1. Len(cites[cited]) \in Nat
          BY <2>6 DEF TypeOK, Ours
        <5>2. down[k].thm = cited /\ down[k].edge = 1
          BY <3>1, <4>3
        <5>3. QED
          BY <5>1, <5>2
      <4>4. k = n \/ k \in 1..(n - 1) \/ k = n + 1
        BY <2>0
      <4>5. QED
        BY <4>1, <4>2, <4>3, <4>4
    <3>5. \A k \in 1..n : stack[k].thm # cited
      BY <2>2, <2>6 DEF OnTrail, Trail, Range
    <3>6. ASSUME NEW a \in 1..(n + 1), NEW b \in 1..(n + 1), down[a].thm = down[b].thm
          PROVE  a = b
      <4>1. CASE a \in 1..n /\ b \in 1..n
        BY <2>2, <2>4, <3>1, <3>2, <3>6, <4>1 DEF Injective
      <4>2. CASE a = n + 1 /\ b \in 1..n
        BY <3>1, <3>2, <3>5, <3>6, <4>2
      <4>3. CASE a \in 1..n /\ b = n + 1
        BY <3>1, <3>2, <3>5, <3>6, <4>3
      <4>4. QED
        BY <2>2, <4>1, <4>2, <4>3
    <3>7. QED
      BY <2>6, <3>1, <3>3, <3>4, <3>6 DEF Frames, down
  <2>7. ASSUME Counted(Top.thm, Top.edge) PROVE cited \in Ours
    BY <2>7 DEF Counted
  <2>8. reported' \in Seq(Seq(Ours) \ {<<>>})
    <3>1. CASE reported' = reported
      BY <3>1 DEF TypeOK
    <3>2. CASE reported' = Append(reported, Closing(cited)) /\ cited \in Ours /\ OnTrail(cited)
      <4>1. Closing(cited) \in Seq(Ours) \ {<<>>}
        BY <2>1, <3>2, ClosingShape
      <4>2. reported \in Seq(Seq(Ours) \ {<<>>})
        BY DEF TypeOK
      <4>3. QED
        BY <3>2, <4>1, <4>2
    <3>3. QED
      BY <1>2, <2>7, <3>1, <3>2, FollowCases
  <2>9. /\ stack' \in Seq([thm : Ours, edge : Nat \ {0}])
        /\ \A k \in DOMAIN stack' : stack'[k].edge <= Len(cites[stack'[k].thm]) + 1
        /\ \A a, b \in DOMAIN stack' : stack'[a].thm = stack'[b].thm => a = b
    <3> HIDE DEF cited
    <3>1. stack' = Read \/ (stack' = Append(Read, Frame(cited)) /\ cited \in Ours /\ ~OnTrail(cited))
      BY <1>2, <2>7, FollowCases DEF cited
    <3>2. QED
      BY <2>5, <2>6, <3>1
  <2>10. IsInjective(Trail)'
    BY <2>9 DEF Trail, IsInjective
  <2>11. QED
    BY <2>1, <2>3, <2>8, <2>9, <2>10 DEF TypeOK
<1>3. CASE Leave
  <2> DEFINE n == Len(stack)
  <2>1. /\ stack # <<>> /\ stack' = Below /\ done' = done \cup {Top.thm}
        /\ cites' = cites /\ next' = next /\ reported' = reported
    BY <1>3 DEF Leave, Settled
  <2>2. n \in Nat \ {0} /\ DOMAIN stack = 1..n /\ Top.thm \in Ours
    BY <2>1, Shape
  <2>3. Ours' = Ours
    BY <2>1 DEF Ours
  <2>4. /\ Below \in Seq(Frames) /\ Len(Below) = n - 1
        /\ \A k \in 1..(n - 1) : Below[k] = stack[k]
    BY <2>1, LastTaken DEF Below, TypeOK, Frames
  <2>5. DOMAIN Below = 1..(n - 1)
    BY <2>4
  <2>6. Injective
    BY TrailInjective
  <2>7. /\ \A k \in DOMAIN Below : Below[k].edge <= Len(cites[Below[k].thm]) + 1
        /\ \A a, b \in DOMAIN Below : Below[a].thm = Below[b].thm => a = b
    <3>1. ASSUME NEW k \in 1..(n - 1) PROVE k \in 1..n /\ Below[k] = stack[k]
      BY <2>2, <2>4
    <3>2. \A k \in 1..(n - 1) : Below[k].edge <= Len(cites[Below[k].thm]) + 1
      BY <3>1, FrameFacts
    <3>3. \A a, b \in 1..(n - 1) : Below[a].thm = Below[b].thm => a = b
      BY <2>2, <2>6, <3>1 DEF Injective
    <3>4. QED
      BY <2>5, <3>2, <3>3
  <2>8. IsInjective(Trail)'
    BY <2>1, <2>7 DEF Trail, IsInjective
  <2>9. stack' \in Seq([thm : Ours, edge : Nat \ {0}])
    BY <2>1, <2>4 DEF Frames
  <2>10. done' \subseteq Ours
    BY <2>1, <2>2 DEF TypeOK
  <2>11. QED
    BY <2>1, <2>3, <2>7, <2>8, <2>9, <2>10 DEF TypeOK
<1>4. CASE UNCHANGED vars
  BY <1>4 DEF vars, TypeOK, Ours, Trail
<1>5. QED
  BY <1>1, <1>2, <1>3, <1>4 DEF Next

\* The marks, the trail and the reports of the walk are what they are said to be,
\* and no theorem is twice on the trail.
THEOREM TypeCorrect == Spec => []TypeOK
<1>1. Init => TypeOK
  <2> SUFFICES ASSUME Init PROVE TypeOK
    OBVIOUS
  <2>1. cites \in Seq(Seq(Nat)) /\ Len(cites) \in Nat
    BY FilesAssumption DEF Init
  <2>2. stack = <<>> /\ DOMAIN stack = {} /\ reported = <<>> /\ next = 1 /\ done = {}
    BY DEF Init
  <2>3. stack \in Seq([thm : Ours, edge : Nat \ {0}]) /\ reported \in Seq(Seq(Ours) \ {<<>>})
    BY <2>2
  <2>4. QED
    BY <2>1, <2>2, <2>3 DEF TypeOK, Trail, IsInjective
<1>2. QED
  BY <1>1, TypeStep, PTL DEF Spec

(***************************************************************************)
(* The inductive invariant of the walk.  A theorem on the trail is not     *)
(* done; a citation gone past leads to a theorem done, was reported, or is *)
(* the one followed now; a theorem done rests only on theorems done; and   *)
(* of any theorems done, one rests on none of them: the one done first.    *)
(***************************************************************************)
Rests(thm, other) == <<thm, other>> \in Cited /\ <<thm, other>> \notin Reports

Apart == \A k \in 1..Len(stack) : stack[k].thm \notin done

GonePast(k, other) ==
  \/ other \in done
  \/ <<stack[k].thm, other>> \in Reports
  \/ k < Len(stack) /\ stack[k + 1].thm = other

\* The same after a step.
GoneAfter(k, other) ==
  \/ other \in done'
  \/ <<stack'[k].thm, other>> \in Reports'
  \/ k < Len(stack') /\ stack'[k + 1].thm = other

Behind ==
  \A k \in 1..Len(stack) : \A e \in 1..(stack[k].edge - 1) :
    cites[stack[k].thm][e] \in Ours => GonePast(k, cites[stack[k].thm][e])

Closed == \A thm \in done : \A other : Rests(thm, other) => other \in done

Ranked == \A thms \in SUBSET done : thms # {} =>
            \E thm \in thms : \A other \in thms : ~Rests(thm, other)

Come == \A i \in 1..(next - 1) : i \in done \/ (stack # <<>> /\ stack[1].thm = i)

Walked == Apart /\ Behind /\ Closed /\ Ranked /\ Come

\* A report adds the citation it is said at, and takes none away.
LEMMA ReportsOf ==
  ASSUME TypeOK, NEW cycle \in Seq(Ours) \ {<<>>}, reported' = Append(reported, cycle)
  PROVE  Reports' = Reports \cup {ReportedAt(cycle)}
<1>1. reported \in Seq(Seq(Ours) \ {<<>>})
  BY DEF TypeOK
<1>2. /\ Len(reported) \in Nat /\ DOMAIN reported = 1..Len(reported)
      /\ DOMAIN reported' = 1..(Len(reported) + 1)
      /\ \A j \in 1..Len(reported) : reported'[j] = reported[j]
      /\ reported'[Len(reported) + 1] = cycle
  BY <1>1
<1>3. Range(reported') = Range(reported) \cup {cycle}
  BY <1>2 DEF Range
<1>4. QED
  BY <1>3 DEF Reports, ReportedAt

\* A citation reported rests on nothing, so that with more reports no more rests
\* on anything.
LEMMA RestsLess ==
  ASSUME cites' = cites, Reports \subseteq Reports', NEW thm, NEW other, Rests(thm, other)'
  PROVE  Rests(thm, other)
<1>1. Cited' = Cited
  BY DEF Cited, Ours
<1>2. QED
  BY <1>1 DEF Rests

\* The walk's invariant holds before it begins.
LEMMA WalkedInit == ASSUME Init, TypeOK PROVE Walked
<1>1. Len(stack) = 0 /\ done = {} /\ next = 1
  BY DEF Init
<1>2. QED
  BY <1>1 DEF Walked, Apart, Behind, Closed, Ranked, Come

\* Beginning at the next theorem not come to keeps it.
LEMMA WalkedBegin == ASSUME TypeOK, Walked, Begin PROVE Walked'
<1>1. /\ stack = <<>> /\ next \in 1..Len(cites)
      /\ cites' = cites /\ done' = done /\ reported' = reported /\ next' = next + 1
  BY DEF Begin, TypeOK
<1>2. Reports' = Reports
  BY <1>1 DEF Reports
<1>3. \/ next \in done /\ stack' = <<>> /\ Len(stack') = 0
      \/ /\ next \notin done /\ stack' # <<>> /\ Len(stack') = 1
         /\ stack'[1].thm = next /\ stack'[1].edge = 1
  BY DEF Begin, Frame
<1>4. Apart'
  BY <1>1, <1>3 DEF Apart
<1>5. Behind'
  BY <1>3 DEF Behind
<1>6. Closed' /\ Ranked'
  BY <1>1, <1>2, RestsLess DEF Walked, Closed, Ranked
<1>7. Come'
  <2>1. \A i \in 1..(next - 1) : i \in done
    BY <1>1 DEF Walked, Come
  <2>2. \A i \in 1..(next' - 1) : i \in 1..(next - 1) \/ i = next
    BY <1>1
  <2>3. QED
    BY <1>1, <1>3, <2>1, <2>2 DEF Come
<1>8. QED
  BY <1>4, <1>5, <1>6, <1>7 DEF Walked

\* Following a citation keeps it, whatever is cited.
LEMMA WalkedFollow == ASSUME TypeOK, Walked, Follow PROVE Walked'
<1> DEFINE cited == cites[Top.thm][Top.edge]
           n == Len(stack)
<1>1. /\ stack # <<>> /\ Top.edge <= Len(cites[Top.thm])
      /\ cites' = cites /\ next' = next /\ done' = done /\ Ours' = Ours
  BY FollowCases DEF Ours
<1>2. n \in Nat \ {0}
  BY <1>1, Shape
<1>3. Top = stack[n] /\ Top.thm \in Ours /\ Top.edge \in Nat \ {0}
  BY <1>1, Shape DEF Top
<1>4. Counted(Top.thm, Top.edge) => cited \in Ours
  BY DEF Counted
<1>5. Reports \subseteq Reports' /\ (Counted(Top.thm, Top.edge) /\ OnTrail(cited) => <<Top.thm, cited>> \in Reports')
  <2>1. CASE reported' = reported /\ ~(Counted(Top.thm, Top.edge) /\ OnTrail(cited))
    BY <2>1 DEF Reports
  <2>2. CASE Counted(Top.thm, Top.edge) /\ OnTrail(cited) /\ reported' = Append(reported, Closing(cited))
    <3>1. Closing(cited) \in Seq(Ours) \ {<<>>} /\ ReportedAt(Closing(cited)) = <<Top.thm, cited>>
      BY <1>1, <1>4, <2>2, ClosingShape
    <3>2. QED
      BY <2>2, <3>1, ReportsOf
  <2>3. QED
    BY <2>1, <2>2, FollowCases
<1>6. /\ Len(Read) = n
      /\ \A k \in 1..(n - 1) : Read[k] = stack[k]
      /\ Read[n].edge = Top.edge + 1
      /\ \A k \in 1..n : Read[k].thm = stack[k].thm
  BY <1>1, ReadShape
<1>7. \/ /\ stack' = Read
         /\ \/ ~Counted(Top.thm, Top.edge)
            \/ <<Top.thm, cited>> \in Reports'
            \/ cited \in done
      \/ /\ stack' = Append(Read, Frame(cited)) /\ cited \in Ours /\ cited \notin done
  BY <1>4, <1>5, FollowCases
<1>8. \/ Len(stack') = n
      \/ /\ Len(stack') = n + 1 /\ cited \notin done
         /\ stack'[n + 1].thm = cited /\ stack'[n + 1].edge = 1
  <2>1. CASE stack' = Read
    BY <1>6, <2>1
  <2>2. CASE stack' = Append(Read, Frame(cited)) /\ cited \in Ours /\ cited \notin done
    BY <1>1, <2>2, DownShape
  <2>3. QED
    BY <1>7, <2>1, <2>2
<1>9. ASSUME NEW k \in 1..n
      PROVE  /\ stack'[k].thm = stack[k].thm
             /\ k < n => stack'[k].edge = stack[k].edge
             /\ k = n => stack'[k].edge = Top.edge + 1
  <2>1. stack'[k] = Read[k]
    <3>1. CASE stack' = Read
      BY <3>1
    <3>2. CASE stack' = Append(Read, Frame(cited)) /\ cited \in Ours
      BY <1>1, <3>2, DownShape
    <3>3. QED
      BY <1>7, <3>1, <3>2
  <2>2. k < n => k \in 1..(n - 1)
    BY <1>2
  <2>3. QED
    BY <1>6, <2>1, <2>2
<1>10. Apart'
  <2>1. \A k \in 1..n : stack'[k].thm \notin done'
    BY <1>1, <1>9 DEF Walked, Apart
  <2>2. QED
    BY <1>1, <1>2, <1>8, <2>1 DEF Apart
<1>11. ASSUME NEW k \in 1..n, NEW other, GonePast(k, other) PROVE GoneAfter(k, other)
  <2>1. CASE other \in done
    BY <1>1, <2>1 DEF GoneAfter
  <2>2. CASE <<stack[k].thm, other>> \in Reports
    BY <1>5, <1>9, <2>2 DEF GoneAfter
  <2>3. CASE k < n /\ stack[k + 1].thm = other
    <3>1. k + 1 \in 1..n /\ k < Len(stack')
      BY <1>2, <1>8, <2>3
    <3>2. QED
      BY <1>9, <2>3, <3>1 DEF GoneAfter
  <2>4. QED
    BY <1>11, <2>1, <2>2, <2>3 DEF GonePast
<1>12. cited \in Ours => GoneAfter(n, cited)
  <2>1. SUFFICES ASSUME cited \in Ours PROVE GoneAfter(n, cited)
    OBVIOUS
  <2>2. n \in 1..n /\ stack'[n].thm = Top.thm
    BY <1>2, <1>3, <1>9
  <2>3. CASE ~Counted(Top.thm, Top.edge)
    <3>1. PICK e \in 1..(Top.edge - 1) : cites[Top.thm][e] = cited
      BY <2>1, <2>3 DEF Counted
    <3>2. GonePast(n, cited)
      BY <1>3, <2>1, <2>2, <3>1 DEF Walked, Behind
    <3>3. QED
      BY <1>11, <2>2, <3>2
  <2>4. CASE <<Top.thm, cited>> \in Reports'
    BY <2>2, <2>4 DEF GoneAfter
  <2>5. CASE cited \in done
    BY <1>1, <2>5 DEF GoneAfter
  <2>6. CASE stack' = Append(Read, Frame(cited))
    <3>1. Len(stack') = n + 1 /\ stack'[n + 1].thm = cited
      BY <1>1, <2>1, <2>6, DownShape
    <3>2. QED
      BY <1>2, <3>1 DEF GoneAfter
  <2>7. QED
    BY <1>7, <2>3, <2>4, <2>5, <2>6
<1>13. Behind'
  <2>1. SUFFICES ASSUME NEW k \in 1..Len(stack'), NEW e \in 1..(stack'[k].edge - 1),
                        cites'[stack'[k].thm][e] \in Ours'
                 PROVE  GoneAfter(k, cites[stack'[k].thm][e])
    BY <1>1 DEF Behind, GonePast, GoneAfter
  <2>2. CASE k \in 1..(n - 1)
    <3>1. k \in 1..n /\ k < n /\ stack'[k].thm = stack[k].thm /\ stack'[k].edge = stack[k].edge
      BY <1>2, <1>9, <2>2
    <3>2. GonePast(k, cites[stack[k].thm][e])
      BY <1>1, <2>1, <3>1 DEF Walked, Behind
    <3>3. QED
      BY <1>1, <1>11, <3>1, <3>2
  <2>3. CASE k = n
    <3>1. n \in 1..n /\ stack'[n].thm = Top.thm /\ stack'[n].edge = Top.edge + 1
      BY <1>2, <1>3, <1>9
    <3>2. CASE e = Top.edge
      BY <1>1, <1>12, <2>1, <2>3, <3>1, <3>2
    <3>3. CASE e \in 1..(Top.edge - 1)
      <4>1. GonePast(n, cites[Top.thm][e])
        BY <1>1, <1>3, <2>1, <2>3, <3>1, <3>3 DEF Walked, Behind
      <4>2. QED
        BY <1>1, <1>11, <2>3, <3>1, <4>1
    <3>4. e = Top.edge \/ e \in 1..(Top.edge - 1)
      BY <1>3, <2>3, <3>1
    <3>5. QED
      BY <3>2, <3>3, <3>4
  <2>4. CASE k = n + 1
    <3>1. stack'[k].edge = 1
      BY <1>2, <1>8, <2>4
    <3>2. QED
      BY <3>1
  <2>5. k \in 1..(n - 1) \/ k = n \/ k = n + 1
    BY <1>2, <1>8
  <2>6. QED
    BY <2>2, <2>3, <2>4, <2>5
<1>14. Closed' /\ Ranked'
  BY <1>1, <1>5, RestsLess DEF Walked, Closed, Ranked
<1>15. Come'
  <2>1. 1 \in 1..n /\ stack' # <<>> /\ stack'[1].thm = stack[1].thm
    BY <1>2, <1>8, <1>9
  <2>2. QED
    BY <1>1, <2>1 DEF Walked, Come
<1>16. QED
  BY <1>10, <1>13, <1>14, <1>15 DEF Walked

\* Leaving a theorem, all its citations gone past, keeps it.
LEMMA WalkedLeave == ASSUME TypeOK, Walked, Leave PROVE Walked'
<1> DEFINE n == Len(stack)
<1>1. /\ stack # <<>> /\ stack' = Below /\ done' = done \cup {Top.thm}
      /\ Top.edge > Len(cites[Top.thm])
      /\ cites' = cites /\ next' = next /\ reported' = reported
  BY DEF Leave, Settled
<1>2. n \in Nat \ {0}
  BY <1>1, Shape
<1>3. /\ Top = stack[n] /\ Top.thm \in Ours /\ Top.edge \in Nat \ {0}
      /\ cites[Top.thm] \in Seq(Nat)
  BY <1>1, Shape DEF Top
<1>4. Reports' = Reports /\ Ours' = Ours /\ Cited' = Cited
  BY <1>1 DEF Reports, Ours, Cited
<1>5. Len(stack') = n - 1 /\ \A k \in 1..(n - 1) : stack'[k] = stack[k]
  BY <1>1, LastTaken, FrameFacts DEF Below
<1>6. Top.thm \notin done
  BY <1>2, <1>3 DEF Walked, Apart
<1>7. ASSUME NEW other, Rests(Top.thm, other) PROVE other \in done
  <2>1. PICK e \in 1..Len(cites[Top.thm]) : cites[Top.thm][e] = other /\ other \in Ours
    BY <1>3, <1>7 DEF Rests, Cited, Range
  <2>2. Len(cites[Top.thm]) \in Nat
    BY <1>3
  <2>3. e \in 1..(stack[n].edge - 1)
    BY <1>1, <1>3, <2>1, <2>2
  <2>4. GonePast(n, other)
    BY <1>2, <1>3, <2>1, <2>3 DEF Walked, Behind
  <2>5. QED
    BY <1>2, <1>3, <1>7, <2>4 DEF GonePast, Rests
<1>8. Apart'
  <2>1. ASSUME NEW k \in 1..(n - 1) PROVE stack[k].thm \notin done'
    <3>1. k \in 1..n /\ n \in 1..n /\ k # n
      BY <1>2
    <3>2. stack[k].thm # Top.thm
      BY <1>3, <3>1, TrailInjective, FrameFacts DEF Injective
    <3>3. QED
      BY <1>1, <3>1, <3>2 DEF Walked, Apart
  <2>2. QED
    BY <1>5, <2>1 DEF Apart
<1>9. Behind'
  <2>1. SUFFICES ASSUME NEW k \in 1..(n - 1), NEW e \in 1..(stack[k].edge - 1),
                        cites[stack[k].thm][e] \in Ours
                 PROVE  GoneAfter(k, cites[stack[k].thm][e])
    <3>1. ASSUME NEW k \in 1..Len(stack'), NEW e \in 1..(stack'[k].edge - 1),
                 cites'[stack'[k].thm][e] \in Ours'
          PROVE  GoneAfter(k, cites'[stack'[k].thm][e])
      <4>1. k \in 1..(n - 1) /\ stack'[k] = stack[k]
        BY <1>5
      <4>2. QED
        BY <1>1, <1>4, <2>1, <3>1, <4>1
    <3>2. QED
      BY <3>1 DEF Behind, GonePast, GoneAfter
  <2>2. k \in 1..n /\ k < n /\ stack'[k].thm = stack[k].thm
    BY <1>2, <1>5
  <2>3. GonePast(k, cites[stack[k].thm][e])
    BY <2>1, <2>2 DEF Walked, Behind
  <2>4. CASE stack[k + 1].thm = cites[stack[k].thm][e] /\ k + 1 = n
    BY <1>1, <1>3, <2>4 DEF GoneAfter
  <2>5. CASE stack[k + 1].thm = cites[stack[k].thm][e] /\ k + 1 \in 1..(n - 1)
    BY <1>2, <1>5, <2>5 DEF GoneAfter
  <2>6. k + 1 = n \/ k + 1 \in 1..(n - 1)
    BY <1>2
  <2>7. QED
    BY <1>1, <1>4, <2>2, <2>3, <2>4, <2>5, <2>6 DEF GonePast, GoneAfter
<1>10. Closed'
  <2>1. ASSUME NEW thm \in done', NEW other, Rests(thm, other) PROVE other \in done
    BY <1>1, <1>7, <2>1 DEF Walked, Closed
  <2>2. QED
    BY <1>1, <1>4, <2>1 DEF Closed, Rests
<1>11. Ranked'
  <2>1. ASSUME NEW thms \in SUBSET done', thms # {}
        PROVE  \E thm \in thms : \A other \in thms : ~Rests(thm, other)
    <3>1. CASE thms \cap done = {}
      <4>1. thms = {Top.thm}
        BY <1>1, <2>1, <3>1
      <4>2. QED
        BY <1>6, <1>7, <4>1
    <3>2. CASE thms \cap done # {}
      <4>1. PICK thm \in thms \cap done : \A other \in thms \cap done : ~Rests(thm, other)
        BY <3>2 DEF Walked, Ranked
      <4>2. \A other : Rests(thm, other) => other \in done
        BY DEF Walked, Closed
      <4>3. QED
        BY <4>1, <4>2
    <3>3. QED
      BY <3>1, <3>2
  <2>2. QED
    BY <1>4, <2>1 DEF Ranked, Rests
<1>12. Come'
  <2>1. SUFFICES ASSUME NEW i \in 1..(next - 1), i \notin done'
                 PROVE  stack' # <<>> /\ stack'[1].thm = i
    BY <1>1 DEF Come
  <2>2. stack[1].thm = i /\ i # Top.thm
    BY <1>1, <2>1 DEF Walked, Come
  <2>3. n # 1
    BY <1>3, <2>2
  <2>4. \A m \in Nat \ {0} : m # 1 => 1 \in 1..(m - 1) /\ m - 1 # 0
    OBVIOUS
  <2>5. 1 \in 1..(n - 1) /\ n - 1 # 0
    BY <1>2, <2>3, <2>4
  <2>6. stack' # <<>>
    BY <1>5, <2>5
  <2>7. QED
    BY <1>5, <2>2, <2>5, <2>6
<1>13. QED
  BY <1>8, <1>9, <1>10, <1>11, <1>12 DEF Walked

\* The walk's invariant holds of every walk.
LEMMA WalkedInvariant == Spec => []Walked
<1>1. TypeOK /\ Walked /\ [Next]_vars => Walked'
  <2> SUFFICES ASSUME TypeOK, Walked, [Next]_vars PROVE Walked'
    OBVIOUS
  <2>1. CASE UNCHANGED vars
    <3>1. Reports' = Reports /\ Cited' = Cited /\ Ours' = Ours
      BY <2>1 DEF vars, Reports, Cited, Ours
    <3>2. QED
      BY <2>1, <3>1 DEF vars, Walked, Apart, Behind, GonePast, Closed, Ranked, Come, Rests
  <2>2. QED
    BY <2>1, WalkedBegin, WalkedFollow, WalkedLeave DEF Next
<1>2. QED
  BY <1>1, WalkedInit, TypeCorrect, PTL DEF Spec

\* When every theorem has been gone through, whatever the file: of any of
\* its theorems some one cites none of them but by a citation reported, so
\* in a file with no report no theorem rests on itself.
THEOREM NothingRestsOnItself == Spec => []RestRestsOnNothing
<1>1. TypeOK /\ Walked => RestRestsOnNothing
  <2> SUFFICES ASSUME TypeOK, Walked, Finished,
                      NEW thms \in (SUBSET Ours) \ {{}}
               PROVE  \E thm \in thms : \A other \in thms : <<thm, other>> \notin Cited \ Reports
    BY DEF RestRestsOnNothing
  <2>0. stack = <<>> /\ next > Len(cites) /\ next \in 1..(Len(cites) + 1) /\ cites \in Seq(Seq(Nat))
    BY DEF Finished, TypeOK
  <2>1. stack = <<>> /\ next = Len(cites) + 1 /\ Len(cites) \in Nat /\ Ours = 1..Len(cites)
    BY <2>0 DEF Ours
  <2>2. \A i \in Ours : i \in done
    <3>1. \A i \in Ours : i \in 1..(next - 1)
      BY <2>1
    <3>2. QED
      BY <2>1, <3>1 DEF Walked, Come
  <2>3. thms \in SUBSET done /\ thms # {}
    BY <2>2
  <2>4. PICK thm \in thms : \A other \in thms : ~Rests(thm, other)
    BY <2>3 DEF Walked, Ranked
  <2>5. QED
    BY <2>4 DEF Rests
<1>2. QED
  BY <1>1, TypeCorrect, WalkedInvariant, PTL

(***************************************************************************)
(* The inductive invariant of the reports.  Each theorem of the trail      *)
(* cites the next, each report is a cycle, was given going past its        *)
(* citation, and no two were given at the same: a citation already gone    *)
(* past is not come to again.                                              *)
(***************************************************************************)
Linked ==
  \A k \in 1..(Len(stack) - 1) : <<stack[k].thm, stack[k + 1].thm>> \in Cited

IsCycle(cycle) ==
  /\ ReportedAt(cycle) \in Cited
  /\ \A k \in 1..(Len(cycle) - 1) : <<cycle[k], cycle[k + 1]>> \in Cited

AllCycles == \A cycle \in Range(reported) : IsCycle(cycle)

\* The citations gone past.
Past ==
  {e \in Ours \X Ours :
     \/ e[1] \in done
     \/ \E k \in 1..Len(stack) : /\ stack[k].thm = e[1]
                                 /\ \E i \in 1..(stack[k].edge - 1) : cites[e[1]][i] = e[2]}

Once == \A j, k \in DOMAIN reported : ReportedAt(reported[j]) = ReportedAt(reported[k]) => j = k

Reporting == Linked /\ AllCycles /\ Reports \subseteq Past /\ Once

\* A step that reports nothing leaves the reports as they were.
LEMMA SameReports ==
  ASSUME AllCycles, Reports \subseteq Past, Once, Past \subseteq Past',
         cites' = cites, reported' = reported
  PROVE  AllCycles' /\ Reports' \subseteq Past' /\ Once'
<1>1. Cited' = Cited /\ Reports' = Reports
  BY DEF Cited, Ours, Reports
<1>2. AllCycles'
  BY <1>1 DEF AllCycles, IsCycle
<1>3. Once'
  BY DEF Once
<1>4. QED
  BY <1>1, <1>2, <1>3

\* What is said of the reports holds before there are any.
LEMMA ReportingInit == ASSUME Init PROVE Reporting
<1>1. stack = <<>> /\ reported = <<>> /\ Len(stack) = 0 /\ DOMAIN reported = {}
  BY DEF Init
<1>2. Range(reported) = {} /\ Reports = {}
  BY <1>1 DEF Range, Reports
<1>3. QED
  BY <1>1, <1>2 DEF Reporting, Linked, AllCycles, Once

\* Beginning reports nothing.
LEMMA ReportingBegin == ASSUME TypeOK, Reporting, Begin PROVE Reporting'
<1>1. /\ stack = <<>> /\ Len(stack) = 0
      /\ cites' = cites /\ done' = done /\ reported' = reported
  BY DEF Begin
<1>2. Len(stack') = 0 \/ Len(stack') = 1
  BY DEF Begin
<1>3. Linked'
  BY <1>2 DEF Linked
<1>4. Past \subseteq Past'
  BY <1>1 DEF Past, Ours
<1>5. QED
  BY <1>1, <1>3, <1>4, SameReports DEF Reporting

\* Leaving a theorem reports nothing.
LEMMA ReportingLeave == ASSUME TypeOK, Reporting, Leave PROVE Reporting'
<1> DEFINE n == Len(stack)
<1>1. /\ stack # <<>> /\ stack' = Below /\ done' = done \cup {Top.thm}
      /\ cites' = cites /\ reported' = reported
  BY DEF Leave, Settled
<1>2. n \in Nat \ {0}
  BY <1>1, Shape
<1>3. Len(stack') = n - 1 /\ \A k \in 1..(n - 1) : stack'[k] = stack[k]
  BY <1>1, LastTaken, FrameFacts DEF Below
<1>4. Linked'
  <2>1. ASSUME NEW k \in 1..(Len(stack') - 1)
        PROVE  <<stack'[k].thm, stack'[k + 1].thm>> \in Cited
    <3>1. k \in 1..(n - 1) /\ k + 1 \in 1..(n - 1)
      BY <1>2, <1>3
    <3>2. QED
      BY <1>3, <3>1 DEF Reporting, Linked
  <2>2. Cited' = Cited
    BY <1>1 DEF Cited, Ours
  <2>3. QED
    BY <2>1, <2>2 DEF Linked
<1>5. Past \subseteq Past'
  <2>1. SUFFICES ASSUME NEW e \in Past PROVE e \in Past'
    OBVIOUS
  <2>2. CASE e[1] \in done \/ e[1] = Top.thm
    BY <1>1, <2>2 DEF Past, Ours
  <2>3. CASE e[1] \notin done /\ e[1] # Top.thm
    <3>1. PICK k \in 1..n : /\ stack[k].thm = e[1]
                            /\ \E i \in 1..(stack[k].edge - 1) : cites[e[1]][i] = e[2]
      BY <2>3 DEF Past
    <3>2. k # n
      BY <2>3, <3>1 DEF Top
    <3>3. k \in 1..(n - 1)
      BY <1>2, <3>2
    <3>4. k \in 1..Len(stack') /\ stack'[k] = stack[k]
      BY <1>3, <3>3
    <3>5. QED
      BY <1>1, <3>1, <3>4 DEF Past, Ours
  <2>4. QED
    BY <2>2, <2>3
<1>6. QED
  BY <1>1, <1>4, <1>5, SameReports DEF Reporting

\* A citation of a theorem on the trail is reported as the cycle it closes.
LEMMA ReportingFollow == ASSUME TypeOK, Walked, Reporting, Follow PROVE Reporting'
<1> DEFINE cited == cites[Top.thm][Top.edge]
           n == Len(stack)
<1>1. /\ stack # <<>> /\ Top.edge <= Len(cites[Top.thm])
      /\ cites' = cites /\ next' = next /\ done' = done /\ Ours' = Ours /\ Cited' = Cited
  BY FollowCases DEF Ours, Cited
<1>2. n \in Nat \ {0} /\ DOMAIN stack = 1..n
  BY <1>1, Shape
<1>3. /\ Top = stack[n] /\ Top.thm \in Ours /\ Top.edge \in 1..Len(cites[Top.thm])
      /\ cites[Top.thm] \in Seq(Nat)
  <2>1. /\ Top = stack[n] /\ Top.thm \in Ours
        /\ Top.edge \in 1..(Len(cites[Top.thm]) + 1) /\ cites[Top.thm] \in Seq(Nat)
    BY <1>1, Shape DEF Top
  <2>2. Len(cites[Top.thm]) \in Nat
    BY <2>1
  <2>3. QED
    BY <1>1, <2>1, <2>2
<1>4. Counted(Top.thm, Top.edge) => cited \in Ours
  BY DEF Counted
<1>5. Counted(Top.thm, Top.edge) => <<Top.thm, cited>> \in Cited
  BY <1>3, <1>4 DEF Cited, Range
<1>6. /\ Len(Read) = n
      /\ \A k \in 1..(n - 1) : Read[k] = stack[k]
      /\ Read[n].edge = Top.edge + 1
      /\ \A k \in 1..n : Read[k].thm = stack[k].thm
  BY <1>1, ReadShape
<1>7. \/ Len(stack') = n
      \/ /\ Len(stack') = n + 1 /\ stack'[n + 1].thm = cited
         /\ Counted(Top.thm, Top.edge)
  <2>1. CASE stack' = Read
    BY <1>6, <2>1
  <2>2. CASE stack' = Append(Read, Frame(cited)) /\ Counted(Top.thm, Top.edge)
    BY <1>1, <1>4, <2>2, DownShape
  <2>3. QED
    BY <2>1, <2>2, FollowCases
<1>8. ASSUME NEW k \in 1..n
      PROVE  /\ stack'[k].thm = stack[k].thm
             /\ k < n => stack'[k].edge = stack[k].edge
             /\ k = n => stack'[k].edge = Top.edge + 1
  <2>1. stack'[k] = Read[k]
    <3>1. CASE stack' = Read
      BY <3>1
    <3>2. CASE stack' = Append(Read, Frame(cited)) /\ Counted(Top.thm, Top.edge)
      BY <1>1, <1>4, <3>2, DownShape
    <3>3. QED
      BY <3>1, <3>2, FollowCases
  <2>2. k < n => k \in 1..(n - 1)
    BY <1>2
  <2>3. QED
    BY <1>6, <2>1, <2>2
<1>9. 1..n \subseteq 1..Len(stack')
  <2>1. \A m \in Nat \ {0} : 1..m \subseteq 1..(m + 1)
    OBVIOUS
  <2>2. QED
    BY <1>2, <1>7, <2>1
<1>10. Linked'
  <2>1. SUFFICES ASSUME NEW k \in 1..(Len(stack') - 1)
                 PROVE  <<stack'[k].thm, stack'[k + 1].thm>> \in Cited
    BY <1>1 DEF Linked
  <2> HIDE DEF n
  <2>2. CASE k \in 1..(n - 1)
    <3>1. k \in 1..n /\ k + 1 \in 1..n
      BY <1>2, <2>2
    <3>2. QED
      BY <1>8, <2>2, <3>1 DEF Reporting, Linked, n
  <2>3. CASE k = n /\ Len(stack') = n + 1
    <3>1. n \in 1..n /\ n + 1 # n
      BY <1>2
    <3>2. /\ stack'[n].thm = Top.thm /\ stack'[n + 1].thm = cited
          /\ Counted(Top.thm, Top.edge)
      BY <1>3, <1>7, <1>8, <2>3, <3>1
    <3>3. QED
      BY <1>5, <2>3, <3>2
  <2>4. k \in 1..(n - 1) \/ (k = n /\ Len(stack') = n + 1)
    BY <1>2, <1>7
  <2>5. QED
    BY <2>2, <2>3, <2>4
<1>11. Past \subseteq Past'
  <2>1. SUFFICES ASSUME NEW e \in Past PROVE e \in Past'
    OBVIOUS
  <2>2. CASE e[1] \in done
    BY <1>1, <2>2 DEF Past
  <2>3. CASE e[1] \notin done
    <3>1. PICK k \in 1..n : /\ stack[k].thm = e[1]
                            /\ \E i \in 1..(stack[k].edge - 1) : cites[e[1]][i] = e[2]
      BY <2>3 DEF Past
    <3>2. k \in 1..Len(stack') /\ stack'[k].thm = e[1]
      BY <1>8, <1>9, <3>1
    <3>3. 1..(stack[k].edge - 1) \subseteq 1..(stack'[k].edge - 1)
      <4>0. \A m \in Nat \ {0} : \A j \in 1..m : j < m \/ j = m
        OBVIOUS
      <4>1. k < n \/ k = n
        BY <1>2, <4>0
      <4>2. CASE k < n
        BY <1>8, <4>2
      <4>3. CASE k = n
        <5>1. stack[k].edge \in Nat \ {0} /\ stack'[k].edge = stack[k].edge + 1
          BY <1>3, <1>8, <4>3, FrameFacts
        <5>2. QED
          BY <5>1
      <4>4. QED
        BY <4>1, <4>2, <4>3
    <3>4. PICK i \in 1..(stack'[k].edge - 1) : cites[e[1]][i] = e[2]
      BY <3>1, <3>3
    <3>5. e \in Ours \X Ours
      BY DEF Past
    <3>6. QED
      BY <1>1, <3>2, <3>4, <3>5 DEF Past
  <2>4. QED
    BY <2>2, <2>3
<1>12. CASE reported' = reported
  BY <1>1, <1>10, <1>11, <1>12, SameReports DEF Reporting
<1>13. CASE /\ Counted(Top.thm, Top.edge) /\ OnTrail(cited)
            /\ stack' = Read /\ reported' = Append(reported, Closing(cited))
  <2> DEFINE new == Closing(cited)
             m == Len(reported)
  <2>1. PICK at \in 1..n : /\ new \in Seq(Ours) \ {<<>>}
                           /\ Len(new) = n - at + 1
                           /\ \A i \in 1..(n - at + 1) : new[i] = stack[at + i - 1].thm
                           /\ ReportedAt(new) = <<Top.thm, cited>>
    BY <1>1, <1>2, <1>4, <1>13, ClosingShape
  <2> HIDE DEF new
  <2>2. IsCycle(new)
    <3>1. ASSUME NEW i \in 1..(Len(new) - 1) PROVE <<new[i], new[i + 1]>> \in Cited
      <4>1. /\ i \in 1..(n - at + 1) /\ i + 1 \in 1..(n - at + 1)
            /\ at + i - 1 \in 1..(n - 1) /\ at + (i + 1) - 1 = (at + i - 1) + 1
        <5>1. n \in Nat \ {0}
          BY <1>2
        <5> HIDE DEF n
        <5>2. QED
          BY <2>1, <5>1
      <4>2. new[i] = stack[at + i - 1].thm /\ new[i + 1] = stack[(at + i - 1) + 1].thm
        BY <2>1, <4>1
      <4>3. QED
        BY <4>1, <4>2 DEF Reporting, Linked
    <3>2. ReportedAt(new) \in Cited
      BY <1>5, <1>13, <2>1
    <3>3. QED
      BY <3>1, <3>2 DEF IsCycle
  <2>3. reported \in Seq(Seq(Ours) \ {<<>>})
    BY DEF TypeOK
  <2>4. reported' = Append(reported, new)
    BY <1>13 DEF new
  <2>5. /\ m \in Nat /\ DOMAIN reported = 1..m
        /\ DOMAIN reported' = 1..(m + 1)
        /\ \A j \in 1..m : reported'[j] = reported[j]
        /\ reported'[m + 1] = new
    BY <2>1, <2>3, <2>4
  <2>6. Range(reported') = Range(reported) \cup {new}
    BY <2>5 DEF Range
  <2>7. AllCycles'
    BY <1>1, <2>2, <2>6 DEF Reporting, AllCycles, IsCycle
  <2>8. <<Top.thm, cited>> \notin Past
    <3>1. n \in 1..n
      BY <1>2
    <3>2. Top.thm \notin done
      BY <1>3, <3>1 DEF Walked, Apart
    <3>3. ASSUME NEW k \in 1..n, stack[k].thm = Top.thm, NEW i \in 1..(stack[k].edge - 1)
          PROVE  cites[Top.thm][i] # cited
      <4>1. k = n
        BY <1>2, <1>3, <3>1, <3>3, TrailInjective DEF Injective
      <4>2. i \in 1..(Top.edge - 1)
        BY <1>3, <4>1
      <4>3. QED
        BY <1>13, <4>2 DEF Counted
    <3>4. QED
      BY <3>2, <3>3 DEF Past
  <2>9. <<Top.thm, cited>> \in Past'
    <3>0. n \in 1..n
      BY <1>2
    <3>1. /\ n \in 1..Len(stack') /\ stack'[n].thm = Top.thm
          /\ stack'[n].edge = Top.edge + 1
      BY <1>3, <1>8, <1>9, <3>0
    <3>2. Top.edge \in 1..(stack'[n].edge - 1)
      <4>1. Top.edge \in Nat \ {0}
        BY <1>1, Shape
      <4>2. QED
        BY <3>1, <4>1
    <3>3. <<Top.thm, cited>> \in Ours \X Ours
      BY <1>3, <1>4, <1>13
    <3>4. QED
      BY <1>1, <3>1, <3>2, <3>3 DEF Past
  <2>10. Reports' = Reports \cup {<<Top.thm, cited>>}
    BY <2>1, <2>4, ReportsOf
  <2>11. Once'
    <3>1. ASSUME NEW j \in 1..m PROVE ReportedAt(reported[j]) # ReportedAt(new)
      <4>1. ReportedAt(reported[j]) \in Reports
        BY <2>5 DEF Reports, Range
      <4>2. QED
        BY <2>1, <2>8, <4>1 DEF Reporting
    <3>2. \A j \in 1..(m + 1) : j \in 1..m \/ j = m + 1
      BY <2>5
    <3>3. ASSUME NEW j \in 1..(m + 1), NEW k \in 1..(m + 1),
                 ReportedAt(reported'[j]) = ReportedAt(reported'[k])
          PROVE  j = k
      <4>1. CASE j \in 1..m /\ k \in 1..m
        BY <2>5, <3>3, <4>1 DEF Reporting, Once
      <4>2. CASE j = m + 1 /\ k = m + 1
        BY <4>2
      <4>3. CASE j \in 1..m /\ k = m + 1
        BY <2>5, <3>1, <3>3, <4>3
      <4>4. CASE j = m + 1 /\ k \in 1..m
        BY <2>5, <3>1, <3>3, <4>4
      <4>5. QED
        BY <3>2, <4>1, <4>2, <4>3, <4>4
    <3>4. QED
      BY <2>5, <3>3 DEF Once, ReportedAt
  <2>12. QED
    BY <1>10, <1>11, <2>7, <2>9, <2>10, <2>11 DEF Reporting
<1>14. QED
  BY <1>12, <1>13, FollowCases

\* Of any file, each report is a cycle of citations and no citation is
\* reported twice: however many theorems lead to it, a citation is gone past
\* once, as nothing done is entered again.
THEOREM EachReportIsACycle == Spec => []ReportsAreCycles
<1>1. TypeOK /\ Walked /\ Reporting /\ [Next]_vars => Reporting'
  <2> SUFFICES ASSUME TypeOK, Walked, Reporting, [Next]_vars PROVE Reporting'
    OBVIOUS
  <2>1. CASE UNCHANGED vars
    <3>1. Past' = Past /\ Cited' = Cited
      BY <2>1 DEF vars, Past, Cited, Ours
    <3>2. Linked'
      BY <2>1, <3>1 DEF vars, Linked, Reporting
    <3>3. QED
      BY <2>1, <3>1, <3>2, SameReports DEF vars, Reporting
  <2>2. QED
    BY <2>1, ReportingBegin, ReportingFollow, ReportingLeave DEF Next
<1>2. Reporting => ReportsAreCycles
  BY DEF Reporting, AllCycles, IsCycle, Once, ReportsAreCycles
<1>3. QED
  BY <1>1, <1>2, ReportingInit, TypeCorrect, WalkedInvariant, PTL DEF Spec

(***************************************************************************)
(* Chains: the numbers that terms are worth.                               *)
(***************************************************************************)
\* Congruence to a modulus: being apart by a multiple of it.
LEMMA Divides ==
  ASSUME NEW m \in Nat \ {0}, NEW x \in Int, x % m = 0
  PROVE  \E p \in Int : x = m * p
  BY SMT

LEMMA Multiple ==
  ASSUME NEW m \in Nat \ {0}, NEW p \in Int
  PROVE  (m * p) % m = 0
  BY SMT

LEMMA Multiples ==
  ASSUME NEW m \in Nat \ {0}, NEW x \in Int, NEW y \in Int, x % m = 0, y % m = 0
  PROVE  (x + y) % m = 0
<1>1. PICK p \in Int : x = m * p
  BY Divides
<1>2. PICK q \in Int : y = m * q
  BY Divides
<1>3. x + y = m * (p + q)
  BY <1>1, <1>2
<1>4. p + q \in Int
  OBVIOUS
<1> QED
  BY <1>3, <1>4, Multiple

\* The relations a chain is made of.
OrderShapes == [left : Terms, rel : Comparisons \ {"/="}, right : Terms, mod : {0}]

\* Those a valuation makes true, and the chains of relations of a set.
TrueOf(v) == {r \in OrderShapes : Holds(r, v)}
ChainsOf(S) == {s \in Seq(S) : \A j \in 1 .. Len(s) - 1 : s[j].right = s[j + 1].left}

\* A relation read from its right side says the same.
LEMMA TurnedIs ==
  ASSUME NEW v \in [Terms -> Int], NEW r \in OrderShapes
  PROVE  /\ Turned(r) \in OrderShapes
         /\ Holds(Turned(r), v) <=> Holds(r, v)
         /\ Turned(r).left = r.right /\ Turned(r).right = r.left
<1>1. v[r.left] \in Int /\ v[r.right] \in Int /\ r.rel \in {"=", "<", "<=", ">", ">="}
  BY DEF OrderShapes, Comparisons, Up, Down
<1>2. Turned(r) = [left |-> r.right, rel |-> Converse(r.rel), right |-> r.left, mod |-> 0]
  BY DEF OrderShapes, Turned
<1>3. /\ r.rel = "=" => Converse(r.rel) = "="
      /\ r.rel = "<" => Converse(r.rel) = ">"
      /\ r.rel = "<=" => Converse(r.rel) = ">="
      /\ r.rel = ">" => Converse(r.rel) = "<"
      /\ r.rel = ">=" => Converse(r.rel) = "<="
  BY DEF Converse
<1>4. Turned(r) \in OrderShapes
  BY <1>1, <1>2, <1>3 DEF OrderShapes, Comparisons, Up, Down
<1>5. /\ Turned(r).left = r.right /\ Turned(r).right = r.left
      /\ Turned(r).rel = Converse(r.rel)
  BY <1>2
<1>6. Holds(Turned(r), v) <=> Holds(r, v)
  <2>1. CASE r.rel = "="
    BY <1>1, <1>3, <1>5, <2>1 DEF Holds
  <2>2. CASE r.rel = "<"
    BY <1>1, <1>3, <1>5, <2>2 DEF Holds
  <2>3. CASE r.rel = "<="
    BY <1>1, <1>3, <1>5, <2>3 DEF Holds
  <2>4. CASE r.rel = ">"
    BY <1>1, <1>3, <1>5, <2>4 DEF Holds
  <2>5. CASE r.rel = ">="
    BY <1>1, <1>3, <1>5, <2>5 DEF Holds
  <2> QED
    BY <1>1, <2>1, <2>2, <2>3, <2>4, <2>5
<1> QED
  BY <1>4, <1>5, <1>6

\* Each relation of a chain takes a term to one worth no less, and more where
\* it is strict; and so does the chain, as far as each of its relations.
Climbs(s, w, strict) ==
  \A i \in 1 .. Len(s) :
    /\ w[s[i].left] <= w[s[i].right]
    /\ s[i].rel = strict => w[s[i].left] < w[s[i].right]
    /\ s[i].rel = "=" => w[s[i].left] = w[s[i].right]
ClimbsTo(s, w, strict, k) ==
  /\ w[s[1].left] <= w[s[k].right]
  /\ (\E i \in 1 .. k : s[i].rel = strict) => w[s[1].left] < w[s[k].right]
  /\ (\A i \in 1 .. k : s[i].rel = "=") => w[s[1].left] = w[s[k].right]

\* A chain none of whose relations goes down, as the terms' worth has it, never
\* goes down, and goes up where a relation of it does.
LEMMA Goes ==
  ASSUME NEW w \in [Terms -> Int], NEW strict, NEW s \in ChainsOf(OrderShapes), s # <<>>,
         Climbs(s, w, strict)
  PROVE  \A k \in 1 .. Len(s) : ClimbsTo(s, w, strict, k)
<1> DEFINE at == w[s[1].left]
<1> DEFINE Reaches(k) ==
      /\ at <= w[s[k].right]
      /\ (\E i \in 1 .. k : s[i].rel = strict) => at < w[s[k].right]
      /\ (\A i \in 1 .. k : s[i].rel = "=") => at = w[s[k].right]
<1> DEFINE T == {n \in Nat : n + 1 <= Len(s) => Reaches(n + 1)}
<1>1. Len(s) \in Nat \ {0} /\ \A i \in 1 .. Len(s) : s[i] \in OrderShapes
  BY EmptySeq DEF ChainsOf
<1>0. \A i \in 1 .. Len(s) :
        /\ w[s[i].left] <= w[s[i].right]
        /\ s[i].rel = strict => w[s[i].left] < w[s[i].right]
        /\ s[i].rel = "=" => w[s[i].left] = w[s[i].right]
  BY DEF Climbs
<1>2. \A i \in 1 .. Len(s) : w[s[i].left] \in Int /\ w[s[i].right] \in Int
  BY <1>1 DEF OrderShapes
<1>3. 0 \in T
  BY <1>1, <1>0
<1>4. ASSUME NEW n \in Nat, n \in T PROVE n + 1 \in T
  <2> SUFFICES ASSUME n + 2 <= Len(s) PROVE Reaches(n + 2)
    BY <1>4
  <2>1. n + 1 \in 1 .. Len(s) /\ n + 2 \in 1 .. Len(s) /\ 1 \in 1 .. Len(s)
    BY <1>1
  <2>2. Reaches(n + 1)
    BY <1>4, <2>1
  <2>3. s[n + 1].right = s[n + 2].left
    BY <1>1, <2>1 DEF ChainsOf
  <2>4. 1 .. n + 2 = (1 .. n + 1) \cup {n + 2}
    OBVIOUS
  <2>5. at \in Int /\ w[s[n + 1].right] \in Int /\ w[s[n + 2].right] \in Int
    BY <1>2, <2>1
  <2>6. s[n + 2].rel = "=" => w[s[n + 1].right] = w[s[n + 2].right]
    BY <1>0, <2>1, <2>3
  <2>7. s[n + 2].rel = strict => w[s[n + 1].right] < w[s[n + 2].right]
    BY <1>0, <2>1, <2>3
  <2>8. w[s[n + 1].right] <= w[s[n + 2].right]
    BY <1>0, <2>1, <2>3
  <2> HIDE DEF at
  <2> QED
    BY <2>2, <2>4, <2>5, <2>6, <2>7, <2>8
<1>5. \A n \in Nat : n \in T
  <2> HIDE DEF T
  <2> QED
    BY <1>3, <1>4, SetInduction
<1>6. ASSUME NEW k \in 1 .. Len(s) PROVE Reaches(k)
  <2>1. k - 1 \in Nat /\ (k - 1) + 1 = k /\ k <= Len(s)
    BY <1>1
  <2>2. k - 1 \in T
    BY <1>5, <2>1
  <2> HIDE DEF Reaches
  <2> QED
    BY <2>1, <2>2
<1> QED
  BY <1>6 DEF ClimbsTo

\* What a relation a valuation makes true says of the worth of its sides.
LEMMA TrueIs ==
  ASSUME NEW v \in [Terms -> Int], NEW r \in TrueOf(v)
  PROVE  /\ v[r.left] \in Int /\ v[r.right] \in Int
         /\ r.rel \in {"=", "<", "<=", ">", ">="}
         /\ r.rel = "=" => v[r.left] = v[r.right]
         /\ r.rel = "<" => v[r.left] < v[r.right]
         /\ r.rel = "<=" => v[r.left] <= v[r.right]
         /\ r.rel = ">" => v[r.left] > v[r.right]
         /\ r.rel = ">=" => v[r.left] >= v[r.right]
<1>1. /\ v[r.left] \in Int /\ v[r.right] \in Int
      /\ r.rel \in {"=", "<", "<=", ">", ">="}
  BY DEF TrueOf, OrderShapes, Comparisons, Up, Down
<1>2. Holds(r, v)
  BY DEF TrueOf
<1> QED
  BY <1>1, <1>2 DEF Holds

\* The ends of a chain of relations a valuation makes true stand as the chain
\* says.
LEMMA EndsHold ==
  ASSUME NEW v \in [Terms -> Int], NEW s \in ChainsOf(TrueOf(v)), s # <<>>,
         ChainRel(RelsOf(s)) # "none"
  PROVE  /\ Related(s[1].left, ChainRel(RelsOf(s)), s[Len(s)].right) \in TrueOf(v)
<1> DEFINE first == v[s[1].left]
           end == v[s[Len(s)].right]
           rels == RelsOf(s)
<1>0. ChainRel(rels) # "none"
  OBVIOUS
<1>1. /\ Len(s) \in Nat \ {0} /\ s \in ChainsOf(OrderShapes)
      /\ \A i \in 1 .. Len(s) : s[i] \in TrueOf(v) /\ s[i] \in OrderShapes
      /\ DOMAIN s = 1 .. Len(s)
  BY EmptySeq DEF ChainsOf, TrueOf
<1>2. /\ s[1].left \in Terms /\ s[Len(s)].right \in Terms
      /\ first \in Int /\ end \in Int
  BY <1>1 DEF OrderShapes
<1>3. \A i \in 1 .. Len(s) :
        /\ v[s[i].left] \in Int /\ v[s[i].right] \in Int
        /\ s[i].rel \in {"=", "<", "<=", ">", ">="} /\ s[i].rel \in rels
        /\ s[i].rel = "=" => v[s[i].left] = v[s[i].right]
        /\ s[i].rel = "<" => v[s[i].left] < v[s[i].right]
        /\ s[i].rel = "<=" => v[s[i].left] <= v[s[i].right]
        /\ s[i].rel = ">" => v[s[i].left] > v[s[i].right]
        /\ s[i].rel = ">=" => v[s[i].left] >= v[s[i].right]
  BY <1>1, TrueIs DEF RelsOf
<1>4. \A rel \in rels : \E i \in 1 .. Len(s) : s[i].rel = rel
  BY <1>1 DEF RelsOf
<1>5. CASE rels \cap Down = {}
  <2>1. \A i \in 1 .. Len(s) :
          /\ v[s[i].left] <= v[s[i].right]
          /\ s[i].rel = "<" => v[s[i].left] < v[s[i].right]
          /\ s[i].rel = "=" => v[s[i].left] = v[s[i].right]
    <3> HIDE DEF rels
    <3> QED
      BY <1>3, <1>5 DEF Down
  <2>2. /\ first <= end
        /\ "<" \in rels => first < end
        /\ (\A i \in 1 .. Len(s) : s[i].rel = "=") => first = end
    <3>1. Len(s) \in 1 .. Len(s)
      BY <1>1
    <3>2. Climbs(s, v, "<")
      BY <2>1 DEF Climbs
    <3>3. ClimbsTo(s, v, "<", Len(s))
      BY <1>1, <3>1, <3>2, Goes
    <3>4. /\ first <= end
          /\ (\E i \in 1 .. Len(s) : s[i].rel = "<") => first < end
          /\ (\A i \in 1 .. Len(s) : s[i].rel = "=") => first = end
      BY <3>3 DEF ClimbsTo
    <3> HIDE DEF rels, first, end
    <3> QED
      BY <1>4, <3>4
  <2>3. ChainRel(rels) = IF rels \cap Up # {} THEN (IF "<" \in rels THEN "<" ELSE "<=") ELSE "="
    <3> HIDE DEF rels
    <3> QED
      BY <1>5 DEF ChainRel
  <2>4. rels \cap Up = {} => first = end
    <3> HIDE DEF rels, first, end
    <3> QED
      BY <1>3, <1>5, <2>2 DEF Up, Down
  <2>5. CASE rels \cap Up = {}
    <3>1. ChainRel(rels) = "="
      BY <2>3, <2>5
    <3> QED
      BY <1>2, <2>4, <2>5, <3>1 DEF TrueOf, OrderShapes, Comparisons, Holds, Related
  <2>6. CASE rels \cap Up # {} /\ "<" \in rels
    <3>1. ChainRel(rels) = "<"
      BY <2>3, <2>6
    <3> QED
      BY <1>2, <2>2, <2>6, <3>1 DEF TrueOf, OrderShapes, Comparisons, Holds, Related, Up
  <2>7. CASE rels \cap Up # {} /\ "<" \notin rels
    <3>1. ChainRel(rels) = "<="
      BY <2>3, <2>7
    <3> QED
      BY <1>2, <2>2, <2>7, <3>1 DEF TrueOf, OrderShapes, Comparisons, Holds, Related, Up
  <2> QED
    BY <2>5, <2>6, <2>7
<1>6. CASE rels \cap Down # {}
  <2>1. rels \cap Up = {}
    <3> HIDE DEF rels
    <3> QED
      BY <1>0, <1>6 DEF ChainRel
  <2> DEFINE w == [t \in Terms |-> 0 - v[t]]
  <2>2. w \in [Terms -> Int]
    OBVIOUS
  <2>3. \A i \in 1 .. Len(s) :
          /\ w[s[i].left] <= w[s[i].right]
          /\ s[i].rel = ">" => w[s[i].left] < w[s[i].right]
          /\ s[i].rel = "=" => w[s[i].left] = w[s[i].right]
    <3> SUFFICES ASSUME NEW i \in 1 .. Len(s)
                 PROVE  /\ w[s[i].left] <= w[s[i].right]
                        /\ s[i].rel = ">" => w[s[i].left] < w[s[i].right]
                        /\ s[i].rel = "=" => w[s[i].left] = w[s[i].right]
      OBVIOUS
    <3>1. w[s[i].left] = 0 - v[s[i].left] /\ w[s[i].right] = 0 - v[s[i].right]
      BY <1>1 DEF OrderShapes
    <3> HIDE DEF rels, w
    <3> QED
      BY <1>3, <2>1, <3>1 DEF Up
  <2>4. /\ first >= end
        /\ ">" \in rels => first > end
    <3>1. Len(s) \in 1 .. Len(s)
      BY <1>1
    <3>4. Climbs(s, w, ">")
      <4> HIDE DEF w
      <4> QED
        BY <2>3 DEF Climbs
    <3>5. ClimbsTo(s, w, ">", Len(s))
      <4> HIDE DEF w
      <4> QED
        BY <1>1, <2>2, <3>1, <3>4, Goes
    <3>2. /\ w[s[1].left] <= w[s[Len(s)].right]
          /\ (\E i \in 1 .. Len(s) : s[i].rel = ">") => w[s[1].left] < w[s[Len(s)].right]
      <4> HIDE DEF w
      <4> QED
        BY <3>5 DEF ClimbsTo
    <3>3. w[s[1].left] = 0 - first /\ w[s[Len(s)].right] = 0 - end
      BY <1>2
    <3> HIDE DEF rels, first, end, w
    <3> QED
      BY <1>2, <1>4, <3>1, <3>2, <3>3
  <2>5. ChainRel(rels) = IF ">" \in rels THEN ">" ELSE ">="
    <3> HIDE DEF rels
    <3> QED
      BY <1>6, <2>1 DEF ChainRel
  <2>6. CASE ">" \in rels
    <3>1. ChainRel(rels) = ">"
      BY <2>5, <2>6
    <3> QED
      BY <1>2, <2>4, <2>6, <3>1 DEF TrueOf, OrderShapes, Comparisons, Holds, Related, Down
  <2>7. CASE ">" \notin rels
    <3>1. ChainRel(rels) = ">="
      BY <2>5, <2>7
    <3> QED
      BY <1>2, <2>4, <2>7, <3>1 DEF TrueOf, OrderShapes, Comparisons, Holds, Related, Down
  <2> QED
    BY <2>6, <2>7
<1> QED
  BY <1>5, <1>6

(***************************************************************************)
(* The chain the cited lines make.                                         *)
(***************************************************************************)
LEMMA LastIs ==
  ASSUME NEW S, NEW s \in Seq(S), s # <<>>
  PROVE  Len(s) \in Nat \ {0} /\ Last(s) = s[Len(s)] /\ s[Len(s)] \in S
  BY EmptySeq DEF Last

\* A line read from whichever side meets the chain leaves it a chain.
LEMMA FacedFromIs ==
  ASSUME NEW v \in [Terms -> Int], NEW chain \in ChainsOf(TrueOf(v)), NEW link \in TrueOf(v)
  PROVE  FacedFrom(chain, link) \in ChainsOf(TrueOf(v))
<1>1. <<>> \in ChainsOf(TrueOf(v))
  BY EmptySeq DEF ChainsOf
<1>2. ASSUME NEW r \in TrueOf(v), chain # <<>>, Last(chain).right = r.left
      PROVE  Append(chain, r) \in ChainsOf(TrueOf(v))
  <2>1. chain \in Seq(TrueOf(v)) /\ Len(chain) \in Nat \ {0} /\ Last(chain) = chain[Len(chain)]
    BY <1>2, LastIs DEF ChainsOf
  <2>2. /\ Append(chain, r) \in Seq(TrueOf(v)) /\ Len(Append(chain, r)) = Len(chain) + 1
        /\ \A j \in 1 .. Len(chain) : Append(chain, r)[j] = chain[j]
        /\ Append(chain, r)[Len(chain) + 1] = r
    BY <2>1, AppendProperties
  <2>3. ASSUME NEW j \in 1 .. Len(Append(chain, r)) - 1
        PROVE  Append(chain, r)[j].right = Append(chain, r)[j + 1].left
    <3>1. CASE j = Len(chain)
      BY <1>2, <2>1, <2>2, <3>1
    <3>2. CASE j # Len(chain)
      <4>1. j \in 1 .. Len(chain) - 1 /\ j + 1 \in 1 .. Len(chain)
        BY <2>1, <2>2, <3>2
      <4> QED
        BY <2>2, <4>1 DEF ChainsOf
    <3> QED
      BY <3>1, <3>2
  <2> QED
    BY <2>2, <2>3 DEF ChainsOf
<1>3. Turned(link) \in TrueOf(v) /\ Turned(link).left = link.right
  BY TurnedIs DEF TrueOf
<1> QED
  BY <1>1, <1>2, <1>3 DEF FacedFrom

\* So is the first line, faced the way the second takes it.
LEMMA FirstFacedIs ==
  ASSUME NEW v \in [Terms -> Int], NEW links \in Seq(TrueOf(v)), links # <<>>
  PROVE  <<FirstFaced(links)>> \in ChainsOf(TrueOf(v))
<1>1. links[1] \in TrueOf(v)
  BY EmptySeq
<1>2. Turned(links[1]) \in TrueOf(v)
  BY <1>1, TurnedIs DEF TrueOf
<1>3. FirstFaced(links) \in TrueOf(v)
  BY <1>1, <1>2 DEF FirstFaced
<1> QED
  BY <1>3 DEF ChainsOf

\* The lines faced as they meet are a chain of what the lines say.
LEMMA FacedIs ==
  ASSUME NEW v \in [Terms -> Int], NEW links \in Seq(TrueOf(v)), links # <<>>
  PROVE  Faced(links) \in ChainsOf(TrueOf(v))
<1> DEFINE N == Len(links) - 1
           CS == ChainsOf(TrueOf(v))
           base == <<FirstFaced(links)>>
           Body(f, k) == IF k = 0 THEN base ELSE FacedFrom(f[k - 1], links[k + 1])
           Upto == CHOOSE f : f = [k \in 0 .. N |-> Body(f, k)]
           step == [k \in 1 .. N |-> [c \in CS |-> FacedFrom(c, links[k + 1])]]
<1>1. N \in Nat /\ Faced(links) = Upto[N]
  BY EmptySeq DEF Faced
<1>2. base \in CS
  BY FirstFacedIs
<1>3. step \in [1 .. N -> [CS -> CS]]
  <2>1. \A k \in 1 .. N : links[k + 1] \in TrueOf(v)
    BY <1>1
  <2>2. \A k \in 1 .. N, c \in CS : FacedFrom(c, links[k + 1]) \in CS
    BY <2>1, FacedFromIs
  <2> HIDE DEF CS
  <2> QED
    BY <2>2
<1>4. PICK g \in [0 .. N -> CS] : Carries(g, base, step, N)
  <2> HIDE DEF step, CS, N, base
  <2> QED
    BY <1>1, <1>2, <1>3, RecursionAt
<1>5. g = [k \in 0 .. N |-> Body(g, k)]
  <2>1. ASSUME NEW k \in 0 .. N PROVE g[k] = Body(g, k)
    <3>1. CASE k = 0
      BY <1>4, <3>1 DEF Carries
    <3>2. CASE k # 0
      <4>1. k \in 1 .. N /\ k - 1 \in 0 .. N
        BY <1>1, <3>2
      <4>2. g[k - 1] \in CS /\ g[k] = step[k][g[k - 1]]
        <5> HIDE DEF step, CS, base
        <5> QED
          BY <1>4, <4>1 DEF Carries
      <4> HIDE DEF CS, base
      <4> QED
        BY <3>2, <4>1, <4>2
    <3> QED
      BY <3>1, <3>2
  <2> HIDE DEF Body
  <2> QED
    BY <2>1
<1>6. Upto = [k \in 0 .. N |-> Body(Upto, k)]
  <2> HIDE DEF Body
  <2> QED
    BY <1>5
<1>7. Upto[0] = base /\ \A k \in 1 .. N : Upto[k] = FacedFrom(Upto[k - 1], links[k + 1])
  <2>1. \A k \in 0 .. N : Upto[k] = Body(Upto, k)
    <3> HIDE DEF Body, Upto
    <3> QED
      BY <1>6
  <2> HIDE DEF Upto, base
  <2> QED
    BY <1>1, <2>1
<1> DEFINE T == {n \in Nat : n <= N => Upto[n] \in CS}
<1>8. 0 \in T
  <2> HIDE DEF Upto, base, CS, N
  <2> QED
    BY <1>1, <1>2, <1>7
<1>9. ASSUME NEW n \in Nat, n \in T PROVE n + 1 \in T
  <2> SUFFICES ASSUME n + 1 <= N PROVE Upto[n + 1] \in CS
    <3> HIDE DEF Upto, CS, N
    <3> QED
      OBVIOUS
  <2>1. n + 1 \in 1 .. N /\ (n + 1) - 1 = n /\ Upto[n] \in CS /\ links[(n + 1) + 1] \in TrueOf(v)
    <3> HIDE DEF Upto
    <3> QED
      BY <1>1, <1>9
  <2>2. FacedFrom(Upto[n], links[(n + 1) + 1]) \in CS
    <3> HIDE DEF Upto
    <3> QED
      BY <2>1, FacedFromIs
  <2> HIDE DEF Upto, CS, N
  <2> QED
    BY <1>7, <2>1, <2>2
<1>10. \A n \in Nat : n \in T
  <2> HIDE DEF T
  <2> QED
    BY <1>8, <1>9, SetInduction
<1> HIDE DEF Upto, CS
<1> QED
  BY <1>1, <1>10 DEF CS

\* What the chain says of its ends is so, where it says anything.
LEMMA ChainOfHolds ==
  ASSUME NEW v \in [Terms -> Int], NEW links \in Seq(TrueOf(v)), links # <<>>,
         ChainOf(links).rel # "none"
  PROVE  ChainOf(links) \in TrueOf(v)
<1> DEFINE chain == Faced(links)
<1>1. chain \in ChainsOf(TrueOf(v)) /\ chain \in Seq(TrueOf(v))
  BY FacedIs DEF ChainsOf
<1> HIDE DEF chain
<1>2. ChainOf(links) = EndsOf(chain)
  BY DEF ChainOf, chain
<1>3. chain # <<>> /\ ChainOf(links) = Related(chain[1].left, ChainRel(RelsOf(chain)), Last(chain).right)
  <2>1. Related("", "none", "").rel = "none"
    BY DEF Related
  <2> QED
    BY <1>2, <2>1 DEF EndsOf
<1>4. ChainRel(RelsOf(chain)) # "none"
  BY <1>3 DEF Related
<1>5. Last(chain) = chain[Len(chain)]
  BY <1>1, <1>3, LastIs
<1> QED
  BY <1>1, <1>3, <1>4, <1>5, EndsHold

(***************************************************************************)
(* The relation taken of each line is one the line says.                   *)
(***************************************************************************)
OfLines(cited) == {r \in UNION {ToSet(cited[i]) : i \in DOMAIN cited} : r.rel # "/="}

LEMMA InSeq ==
  ASSUME NEW S, NEW s \in Seq(S)
  PROVE  ToSet(s) \subseteq S /\ DOMAIN s = 1 .. Len(s) /\ Len(s) \in Nat
         /\ \A i \in 1 .. Len(s) : s[i] \in S /\ s[i] \in ToSet(s)
  BY DEF ToSet

LEMMA RelationsOfIs ==
  ASSUME NEW cited \in Seq(Seq(Relations)), NEW i \in DOMAIN cited
  PROVE  RelationsOf(cited[i]) \in Seq(OfLines(cited))
<1> DEFINE line == cited[i]
           kept == {r \in ToSet(line) : r.rel # "/="}
<1>1. line \in Seq(Relations)
  BY InSeq
<1>2. Sift(line, kept) \in Seq(Relations \cap kept)
  <2> HIDE DEF kept, line
  <2> QED
    BY <1>1, SiftWithin
<1>3. Relations \cap kept \subseteq OfLines(cited)
  BY DEF OfLines
<1>4. \A S, U : S \subseteq U => Seq(S) \subseteq Seq(U)
  OBVIOUS
<1> HIDE DEF kept, line
<1> QED
  BY <1>2, <1>3, <1>4 DEF RelationsOf, kept, line

\* What Met has taken of the lines so far.
Takings(R) == [ok : BOOLEAN, links : Seq(R)]

LEMMA TakenIs ==
  ASSUME NEW R, NEW each \in Seq(Seq(R)), NEW i \in 1 .. Len(each), NEW found \in Takings(R)
  PROVE  /\ Taken(each, i, found) \in Takings(R)
         /\ Taken(each, i, found).ok => Taken(each, i, found).links # <<>>
<1> DEFINE only == IF Len(each[i]) = 1 THEN each[i] ELSE Fits(each, i, found.links)
<1>1. each[i] \in Seq(R)
  BY InSeq
<1>2. Fits(each, i, found.links) \in Seq(R)
  BY <1>1, SiftIs DEF Fits
<1>3. only \in Seq(R)
  BY <1>1, <1>2
<1> HIDE DEF only
<1>4. NoChain \in Takings(R) /\ ~NoChain.ok
  BY DEF NoChain, Takings
<1>5. CASE found.ok /\ Len(only) = 1
  <2>1. only[1] \in R
    <3>1. 1 \in 1 .. Len(only)
      BY <1>5
    <3> QED
      BY <1>3, <3>1, InSeq
  <2>2. found.links \in Seq(R)
    BY DEF Takings
  <2> DEFINE more == Append(found.links, only[1])
  <2>4. more \in Seq(R) /\ Len(more) = Len(found.links) + 1
    BY <2>1, <2>2, AppendProperties
  <2>5. more # <<>>
    <3>1. Len(found.links) \in Nat /\ Len(<<>>) = 0
      BY <2>2, LenProperties, EmptySeq
    <3> HIDE DEF more
    <3> QED
      BY <2>4, <3>1
  <2>3. Taken(each, i, found) = [ok |-> TRUE, links |-> Append(found.links, only[1])]
    BY <1>5 DEF Taken, only
  <2> QED
    BY <2>3, <2>4, <2>5 DEF Takings
<1>6. CASE ~(found.ok /\ Len(only) = 1)
  BY <1>4, <1>6 DEF Taken, only
<1> QED
  BY <1>5, <1>6

LEMMA MetIs ==
  ASSUME NEW R, NEW each \in Seq(Seq(R)), each # <<>>
  PROVE  /\ Met(each) \in Takings(R)
         /\ Met(each).ok => Met(each).links # <<>>
<1> DEFINE N == Len(each)
           S == Takings(R)
           base == [ok |-> TRUE, links |-> <<>>]
           Body(f, i) == IF i = 0 THEN base ELSE Taken(each, i, f[i - 1])
           Upto == CHOOSE f : f = [i \in 0 .. N |-> Body(f, i)]
           step == [i \in 1 .. N |-> [found \in S |-> Taken(each, i, found)]]
<1>1. N \in Nat \ {0} /\ Met(each) = Upto[N]
  BY EmptySeq DEF Met
<1>2. base \in S
  BY EmptySeq DEF Takings
<1>3. step \in [1 .. N -> [S -> S]]
  <2>1. \A i \in 1 .. N, found \in S : Taken(each, i, found) \in S
    BY TakenIs
  <2> HIDE DEF S
  <2> QED
    BY <2>1
<1>4. PICK g \in [0 .. N -> S] : Carries(g, base, step, N)
  <2> HIDE DEF step, S, N, base
  <2> QED
    BY <1>1, <1>2, <1>3, RecursionAt
<1>5. g = [i \in 0 .. N |-> Body(g, i)]
  <2>1. ASSUME NEW i \in 0 .. N PROVE g[i] = Body(g, i)
    <3>1. CASE i = 0
      BY <1>4, <3>1 DEF Carries
    <3>2. CASE i # 0
      <4>1. i \in 1 .. N /\ i - 1 \in 0 .. N
        BY <1>1, <3>2
      <4>2. g[i - 1] \in S /\ g[i] = step[i][g[i - 1]]
        <5> HIDE DEF step, S, base
        <5> QED
          BY <1>4, <4>1 DEF Carries
      <4> HIDE DEF S, base
      <4> QED
        BY <3>2, <4>1, <4>2
    <3> QED
      BY <3>1, <3>2
  <2> HIDE DEF Body
  <2> QED
    BY <2>1
<1>6. Upto = [i \in 0 .. N |-> Body(Upto, i)]
  <2> HIDE DEF Body
  <2> QED
    BY <1>5
<1>7. Upto[0] = base /\ \A i \in 1 .. N : Upto[i] = Taken(each, i, Upto[i - 1])
  <2>1. \A i \in 0 .. N : Upto[i] = Body(Upto, i)
    <3> HIDE DEF Body, Upto
    <3> QED
      BY <1>6
  <2> HIDE DEF Upto, base
  <2> QED
    BY <1>1, <2>1
<1> DEFINE T == {n \in Nat : n <= N => Upto[n] \in S}
<1>8. 0 \in T
  <2> HIDE DEF Upto, base, S, N
  <2> QED
    BY <1>1, <1>2, <1>7
<1>9. ASSUME NEW n \in Nat, n \in T PROVE n + 1 \in T
  <2> SUFFICES ASSUME n + 1 <= N PROVE Upto[n + 1] \in S
    <3> HIDE DEF Upto, S, N
    <3> QED
      OBVIOUS
  <2>1. n + 1 \in 1 .. N /\ (n + 1) - 1 = n /\ Upto[n] \in S
    <3> HIDE DEF Upto
    <3> QED
      BY <1>1, <1>9
  <2>2. Taken(each, n + 1, Upto[n]) \in S
    <3> HIDE DEF Upto
    <3> QED
      BY <2>1, TakenIs
  <2> HIDE DEF Upto, S, N
  <2> QED
    BY <1>7, <2>1, <2>2
<1>10. \A n \in Nat : n \in T
  <2> HIDE DEF T
  <2> QED
    BY <1>8, <1>9, SetInduction
<1>11. Upto[N] \in S /\ Upto[N - 1] \in S /\ N \in 1 .. N
  <2> HIDE DEF Upto, S
  <2> QED
    BY <1>1, <1>10
<1>12. Upto[N] = Taken(each, N, Upto[N - 1])
  BY <1>7, <1>11
<1> HIDE DEF Upto
<1> QED
  BY <1>1, <1>11, <1>12, TakenIs

\* The links a step takes are relations its lines say, as they say them.
LEMMA CitedLinksIs ==
  ASSUME NEW cited \in Seq(Seq(Relations)), cited # <<>>, NEW wanted,
         CitedLinks(cited, wanted).ok
  PROVE  /\ CitedLinks(cited, wanted).links \in Seq(OfLines(cited))
         /\ CitedLinks(cited, wanted).links # <<>>
<1> DEFINE each == [i \in DOMAIN cited |-> RelationsOf(cited[i])]
           several == \E i \in DOMAIN each : Len(each[i]) > 1
           reaching == ReachingClaim(each, wanted)
           R == OfLines(cited)
<1>1. /\ each \in Seq(Seq(R)) /\ each # <<>>
      /\ Len(each) = Len(cited) /\ DOMAIN each = 1 .. Len(each) /\ Len(each) \in Nat \ {0}
  <2>1. DOMAIN cited = 1 .. Len(cited) /\ Len(cited) \in Nat \ {0}
    BY EmptySeq
  <2>2. \A i \in 1 .. Len(cited) : RelationsOf(cited[i]) \in Seq(R)
    BY <2>1, RelationsOfIs
  <2> HIDE DEF R
  <2>3. each \in [1 .. Len(cited) -> Seq(R)]
    BY <2>1, <2>2
  <2> HIDE DEF each
  <2>4. DOMAIN each = 1 .. Len(cited)
    BY <2>3
  <2>5. each \in Seq(Seq(R))
    BY <2>1, <2>3
  <2>6. Len(each) = Len(cited)
    <3>1. DOMAIN each = 1 .. Len(each) /\ Len(each) \in Nat
      BY <2>5, InSeq
    <3> QED
      BY <2>1, <2>4, <3>1
  <2>7. each # <<>>
    BY <2>1, <2>6, EmptySeq
  <2> QED
    BY <2>1, <2>4, <2>5, <2>6, <2>7
<1> HIDE DEF each
<1>2. CASE several /\ reaching # {} /\ CitedLinks(cited, wanted) =
             [ok |-> TRUE, links |-> CHOOSE c \in reaching : TRUE]
  <2> DEFINE c == CHOOSE c \in reaching : TRUE
  <2>1. c \in reaching
    BY <1>2
  <2> HIDE DEF c
  <2>2. c \in ChoicesOf(each)
    BY <2>1 DEF ReachingClaim
  <2>3. DOMAIN c = 1 .. Len(each) /\ c = [i \in DOMAIN c |-> c[i]]
    BY <1>1, <2>2 DEF ChoicesOf
  <2>4. ASSUME NEW i \in 1 .. Len(each) PROVE c[i] \in R
    <3>1. c[i] \in ToSet(each[i])
      BY <1>1, <2>2 DEF ChoicesOf
    <3>2. each[i] \in Seq(R)
      BY <1>1
    <3> QED
      BY <3>1, <3>2, InSeq
  <2>5. c \in [1 .. Len(each) -> R]
    <3> HIDE DEF R
    <3> QED
      BY <2>3, <2>4
  <2>6. c \in Seq(R) /\ c # <<>>
    <3> DEFINE n == Len(each)
    <3>1. n \in Nat \ {0} /\ c \in [1 .. n -> R]
      BY <1>1, <2>5
    <3> HIDE DEF R, n
    <3>2. c \in Seq(R) /\ DOMAIN c = 1 .. n
      BY <3>1
    <3>3. 1 \in 1 .. n /\ DOMAIN <<>> = {}
      BY <3>1
    <3> QED
      BY <3>2, <3>3
  <2> QED
    BY <1>2, <2>6 DEF c
<1>3. CASE CitedLinks(cited, wanted) = Met(each)
  BY <1>1, <1>3, MetIs DEF Takings
<1>4. CitedLinks(cited, wanted) # NoChain
  BY DEF NoChain
<1> QED
  BY <1>2, <1>3, <1>4 DEF CitedLinks, each

\* No claim is what a chain that says nothing says.
LEMMA NoneIsNoClaim ==
  ASSUME NEW wanted \in ClaimShapes, NEW e, e.rel = "none"
  PROVE  ~Says(wanted, e)
<1>1. Converse("none") = "none"
  BY DEF Converse
<1>2. Turned(e).rel = "none"
  BY <1>1 DEF Turned
<1>3. wanted.rel # "none"
  BY DEF ClaimShapes, Comparisons, Up, Down
<1> QED
  BY <1>2, <1>3 DEF Says

LEMMA TransitivityFollows ==
  ASSUME NEW v \in [Terms -> Int], NEW cited \in Seq(Seq(Relations)), cited # <<>>,
         OfLines(cited) \subseteq TrueOf(v), NEW wanted \in ClaimShapes,
         Transitivity(cited, wanted)
  PROVE  Holds(wanted, v)
<1> DEFINE links == CitedLinks(cited, wanted).links
           e == ChainOf(links)
<1>1. links \in Seq(OfLines(cited)) /\ links # <<>> /\ Says(wanted, e)
  BY CitedLinksIs DEF Transitivity
<1> HIDE DEF links
<1>2. links \in Seq(TrueOf(v))
  <2>1. \A S, U : S \subseteq U => Seq(S) \subseteq Seq(U)
    OBVIOUS
  <2> QED
    BY <1>1, <2>1
<1>3. e.rel # "none"
  BY <1>1, NoneIsNoClaim
<1>4. e \in TrueOf(v)
  BY <1>1, <1>2, <1>3, ChainOfHolds
<1>5. Holds(e, v) /\ Holds(Turned(e), v)
  <2> HIDE DEF e
  <2> QED
    BY <1>4, TurnedIs DEF TrueOf
<1> QED
  BY <1>1, <1>5 DEF Says

LEMMA AntisymmetryFollows ==
  ASSUME NEW v \in [Terms -> Int], NEW cited \in Seq(Seq(Relations)), cited # <<>>,
         OfLines(cited) \subseteq TrueOf(v), NEW wanted,
         Antisymmetry(cited, wanted)
  PROVE  Holds(wanted, v)
<1> DEFINE links == CitedLinks(cited, wanted).links
           below == [i \in DOMAIN links |-> FromBelow(links[i])]
           e == Related(below[1].left, "=", below[1].right)
<1>1. /\ links \in Seq(OfLines(cited)) /\ links # <<>>
      /\ Len(below) = 2 /\ RelsOf(below) = {"<="}
      /\ below[1].left = below[2].right /\ below[1].right = below[2].left
      /\ Says(wanted, e)
  BY CitedLinksIs DEF Antisymmetry
<1> HIDE DEF links
<1>2. links \in Seq(TrueOf(v)) /\ DOMAIN links = 1 .. Len(links) /\ Len(links) \in Nat
  <2>1. \A S, U : S \subseteq U => Seq(S) \subseteq Seq(U)
    OBVIOUS
  <2>2. links \in Seq(TrueOf(v))
    BY <1>1, <2>1
  <2> QED
    BY <2>2, InSeq
<1>3. \A i \in DOMAIN links : FromBelow(links[i]) \in TrueOf(v)
  BY <1>2, TurnedIs DEF FromBelow, TrueOf
<1>4. DOMAIN below = 1 .. 2 /\ below[1] \in TrueOf(v) /\ below[2] \in TrueOf(v)
  <2>1. below \in Seq(TrueOf(v))
    BY <1>2, <1>3
  <2>2. Len(below) = 2
    BY <1>1
  <2> HIDE DEF below
  <2>3. 1 \in 1 .. Len(below) /\ 2 \in 1 .. Len(below)
    BY <2>2
  <2> QED
    BY <2>1, <2>2, <2>3, InSeq
<1>5. below[1].rel = "<=" /\ below[2].rel = "<="
  <2> HIDE DEF below
  <2>1. below[1].rel \in RelsOf(below) /\ below[2].rel \in RelsOf(below)
    BY <1>4 DEF RelsOf
  <2> QED
    BY <1>1, <2>1
<1> HIDE DEF below
<1>6. v[below[1].left] = v[below[1].right]
  BY <1>1, <1>4, <1>5, TrueIs
<1>7. below[1].left \in Terms /\ below[1].right \in Terms
  BY <1>4 DEF TrueOf, OrderShapes
<1>8. e \in OrderShapes /\ Holds(e, v)
  BY <1>6, <1>7 DEF OrderShapes, Comparisons, Holds, Related
<1>9. Holds(Turned(e), v)
  <2> HIDE DEF e
  <2> QED
    BY <1>8, TurnedIs
<1> QED
  BY <1>1, <1>8, <1>9 DEF Says

(***************************************************************************)
(* The lines of a calculation.                                             *)
(***************************************************************************)
LinkRecords == [left : Terms, rel : {"=", "<", "<=", ">", ">=", "mod"}, right : Terms, mod : Nat]

LEMMA ChainLinksAre ==
  ASSUME NEW start \in Terms, NEW chain \in Seq(LinkShapes), chain # <<>>
  PROVE  LET links == ChainLinks(start, chain) IN
         /\ links \in Seq(LinkRecords) /\ Len(links) = Len(chain)
         /\ Len(chain) \in Nat \ {0} /\ DOMAIN links = 1 .. Len(chain)
         /\ links[1].left = start
         /\ \A i \in 1 .. Len(chain) :
              /\ links[i] \in LinkRecords /\ chain[i].right \in Terms
              /\ links[i].rel = chain[i].rel /\ links[i].right = chain[i].right
              /\ links[i].mod = chain[i].mod
         /\ \A i \in 1 .. Len(chain) - 1 : links[i + 1].left = chain[i].right
<1> DEFINE links == ChainLinks(start, chain)
           n == Len(chain)
<1>1. DOMAIN chain = 1 .. n /\ n \in Nat \ {0}
  BY EmptySeq
<1>2. \A i \in 1 .. n :
        /\ chain[i].right \in Terms /\ chain[i].mod \in Nat
        /\ chain[i].rel \in {"=", "<", "<=", ">", ">=", "mod"}
  <2>1. \A i \in 1 .. n : chain[i] \in LinkShapes
    BY InSeq
  <2> QED
    BY <2>1 DEF LinkShapes, Comparisons, Up, Down
<1>3. \A i \in 1 .. n :
        links[i] = [left |-> Term(start, chain, i - 1), rel |-> chain[i].rel,
                    right |-> chain[i].right, mod |-> chain[i].mod]
  BY <1>1 DEF ChainLinks
<1>7. DOMAIN links = 1 .. n /\ links = [i \in DOMAIN links |-> links[i]]
  BY <1>1 DEF ChainLinks
<1> HIDE DEF links, n
<1>4. ASSUME NEW i \in 1 .. n
      PROVE  /\ links[i] \in LinkRecords /\ links[i].left = Term(start, chain, i - 1)
             /\ links[i].rel = chain[i].rel /\ links[i].right = chain[i].right
             /\ links[i].mod = chain[i].mod
  <2> DEFINE t == Term(start, chain, i - 1)
  <2>1. t \in Terms
    BY <1>1, <1>2 DEF Term
  <2>2. links[i] = [left |-> t, rel |-> chain[i].rel, right |-> chain[i].right, mod |-> chain[i].mod]
    BY <1>3
  <2> HIDE DEF t
  <2>3. links[i] \in LinkRecords
    BY <1>2, <2>1, <2>2 DEF LinkRecords
  <2>4. links[i].left = t /\ links[i].rel = chain[i].rel /\ links[i].right = chain[i].right
        /\ links[i].mod = chain[i].mod
    BY <2>2
  <2> QED
    BY <2>3, <2>4 DEF t
<1>5. links[1].left = start
  <2>1. 1 \in 1 .. n /\ Term(start, chain, 1 - 1) = start
    BY <1>1 DEF Term
  <2> QED
    BY <1>4, <2>1
<1>6. ASSUME NEW i \in 1 .. n - 1 PROVE links[i + 1].left = chain[i].right
  <2>1. i + 1 \in 1 .. n /\ Term(start, chain, (i + 1) - 1) = chain[i].right
    BY <1>1 DEF Term
  <2> QED
    BY <1>4, <2>1
<1>8. links \in Seq(LinkRecords) /\ Len(links) = n
  <2>1. links \in [1 .. n -> LinkRecords]
    BY <1>4, <1>7
  <2> HIDE DEF links
  <2>2. n \in Nat
    BY <1>1
  <2> QED
    BY <2>1, <2>2
<1> QED
  BY <1>1, <1>2, <1>4, <1>5, <1>6, <1>7, <1>8 DEF links, n

\* A calculation of equations and orders is a chain.
LEMMA OrdersFollow ==
  ASSUME NEW v \in [Terms -> Int], NEW start \in Terms,
         NEW chain \in Seq(LinkShapes), chain # <<>>,
         \A i \in DOMAIN chain : chain[i].rel # "mod" /\ chain[i].mod = 0,
         \A r \in ToSet(ChainLinks(start, chain)) : Holds(r, v),
         ChainRel(RelsOf(chain)) # "none"
  PROVE  Related(start, ChainRel(RelsOf(chain)), Last(chain).right) \in TrueOf(v)
<1> DEFINE links == ChainLinks(start, chain)
           n == Len(chain)
<1>1. /\ links \in Seq(LinkRecords) /\ Len(links) = n /\ n \in Nat \ {0}
      /\ DOMAIN links = 1 .. n /\ links[1].left = start
      /\ \A i \in 1 .. n :
           /\ links[i] \in LinkRecords /\ chain[i].right \in Terms
           /\ links[i].rel = chain[i].rel /\ links[i].right = chain[i].right
           /\ links[i].mod = chain[i].mod
      /\ \A i \in 1 .. n - 1 : links[i + 1].left = chain[i].right
  BY ChainLinksAre
<1>2. DOMAIN chain = 1 .. n /\ Last(chain) = chain[n]
  BY LastIs
<1>3. \A r \in ToSet(links) : Holds(r, v)
  OBVIOUS
<1> HIDE DEF links, n
<1>4. \A i \in 1 .. n : links[i] \in TrueOf(v)
  <2> SUFFICES ASSUME NEW i \in 1 .. n PROVE links[i] \in TrueOf(v)
    OBVIOUS
  <2>1. links[i] \in ToSet(links)
    BY <1>1 DEF ToSet
  <2>2. links[i].rel \in {"=", "<", "<=", ">", ">="} /\ links[i].mod = 0 /\ links[i] \in LinkRecords
    BY <1>1, <1>2 DEF LinkRecords
  <2>3. links[i] \in OrderShapes
    BY <2>2 DEF LinkRecords, OrderShapes, Comparisons, Up, Down
  <2> QED
    BY <1>3, <2>1, <2>3 DEF TrueOf
<1>5. links \in Seq(TrueOf(v)) /\ Len(links) = n /\ links # <<>> /\ DOMAIN links = 1 .. n
  <2>1. links \in Seq(TrueOf(v))
    BY <1>1, <1>4
  <2>2. links # <<>>
    BY <1>1
  <2> QED
    BY <1>1, <2>1, <2>2
<1>6. links \in ChainsOf(TrueOf(v))
  <2>1. \A i \in 1 .. n - 1 : i \in 1 .. n
    BY <1>1
  <2> QED
    BY <1>1, <1>5, <2>1 DEF ChainsOf
<1>7. RelsOf(links) = RelsOf(chain)
  <2>1. \A i \in 1 .. n : links[i].rel = chain[i].rel
    BY <1>1
  <2>2. DOMAIN links = 1 .. n /\ DOMAIN chain = 1 .. n
    BY <1>1, <1>2
  <2> QED
    BY <2>1, <2>2 DEF RelsOf
<1>8. links[Len(links)].right = Last(chain).right
  <2>1. n \in 1 .. n /\ Len(links) = n
    BY <1>1
  <2>2. links[n].right = chain[n].right
    BY <1>1, <2>1
  <2> QED
    BY <1>2, <2>1, <2>2
<1>9. Related(links[1].left, ChainRel(RelsOf(links)), links[Len(links)].right) \in TrueOf(v)
  BY <1>5, <1>6, <1>7, EndsHold
<1>10. links[1].left = start
  BY <1>1
<1> QED
  BY <1>7, <1>8, <1>9, <1>10

\* Congruences to one modulus, and equations, one after the other.
LEMMA CongruencesFollow ==
  ASSUME NEW v \in [Terms -> Int], NEW start \in Terms, NEW m \in Nat \ {0},
         NEW chain \in Seq(LinkShapes), chain # <<>>,
         \A i \in DOMAIN chain :
           \/ chain[i].rel = "=" /\ chain[i].mod = 0
           \/ chain[i].rel = "mod" /\ chain[i].mod = m,
         \A r \in ToSet(ChainLinks(start, chain)) : Holds(r, v)
  PROVE  (v[start] - v[Last(chain).right]) % m = 0
<1> DEFINE links == ChainLinks(start, chain)
           n == Len(chain)
<1>1. /\ links \in Seq(LinkRecords) /\ Len(links) = n /\ n \in Nat \ {0}
      /\ DOMAIN links = 1 .. n /\ links[1].left = start
      /\ \A i \in 1 .. n :
           /\ links[i] \in LinkRecords /\ chain[i].right \in Terms
           /\ links[i].rel = chain[i].rel /\ links[i].right = chain[i].right
           /\ links[i].mod = chain[i].mod
      /\ \A i \in 1 .. n - 1 : links[i + 1].left = chain[i].right
  BY ChainLinksAre
<1>2. DOMAIN chain = 1 .. n /\ Last(chain) = chain[n]
  BY LastIs
<1>3. \A r \in ToSet(links) : Holds(r, v)
  OBVIOUS
<1> HIDE DEF links, n
<1>4. \A x \in Int : (x - x) % m = 0
  <2>1. \A x \in Int : x - x = m * 0
    OBVIOUS
  <2> QED
    BY <2>1, Multiple
<1>5. \A i \in 1 .. n : /\ v[links[i].left] \in Int /\ v[links[i].right] \in Int
                        /\ (v[links[i].left] - v[links[i].right]) % m = 0
  <2> SUFFICES ASSUME NEW i \in 1 .. n
               PROVE  /\ v[links[i].left] \in Int /\ v[links[i].right] \in Int
                      /\ (v[links[i].left] - v[links[i].right]) % m = 0
    OBVIOUS
  <2>1. links[i] \in ToSet(links)
    BY <1>1 DEF ToSet
  <2>2. Holds(links[i], v)
    BY <1>3, <2>1
  <2>3. v[links[i].left] \in Int /\ v[links[i].right] \in Int
    BY <1>1 DEF LinkRecords
  <2>4. CASE links[i].rel = "="
    <3>1. v[links[i].left] = v[links[i].right]
      BY <2>2, <2>4 DEF Holds
    <3> QED
      BY <1>4, <2>3, <3>1
  <2>5. CASE links[i].rel = "mod" /\ links[i].mod = m
    <3>1. (v[links[i].left] - v[links[i].right]) % links[i].mod = 0
      BY <2>2, <2>5 DEF Holds
    <3> QED
      BY <2>3, <2>5, <3>1
  <2> QED
    BY <1>1, <1>2, <2>4, <2>5
<1> DEFINE Reaches(k) == (v[start] - v[chain[k].right]) % m = 0
           T == {k \in Nat : k + 1 <= n => Reaches(k + 1)}
<1>6. 0 \in T
  <2>1. 1 \in 1 .. n
    BY <1>1
  <2>2. links[1].left = start /\ links[1].right = chain[1].right
    BY <1>1, <2>1
  <2>3. Reaches(1) /\ 0 + 1 = 1
    BY <1>5, <2>1, <2>2
  <2> HIDE DEF Reaches
  <2> QED
    BY <2>3
<1>7. ASSUME NEW k \in Nat, k \in T PROVE k + 1 \in T
  <2> SUFFICES ASSUME k + 2 <= n PROVE Reaches(k + 2)
    OBVIOUS
  <2>1. k + 1 \in 1 .. n /\ k + 1 \in 1 .. n - 1 /\ k + 2 \in 1 .. n /\ (k + 1) + 1 = k + 2
    BY <1>1
  <2>2. Reaches(k + 1)
    BY <1>7, <2>1
  <2>3. links[k + 2].left = chain[k + 1].right /\ links[k + 2].right = chain[k + 2].right
    BY <1>1, <2>1
  <2> DEFINE a == v[start]
             b == v[chain[k + 1].right]
             c == v[chain[k + 2].right]
  <2>4. a \in Int /\ b \in Int /\ c \in Int
    BY <1>1, <2>1
  <2>5. (a - b) % m = 0 /\ (b - c) % m = 0
    BY <1>5, <2>1, <2>2, <2>3
  <2> HIDE DEF a, b, c
  <2>6. a - b \in Int /\ b - c \in Int /\ (a - b) + (b - c) = a - c
    BY <2>4
  <2>7. (a - c) % m = 0
    BY <2>5, <2>6, Multiples
  <2> QED
    BY <2>7 DEF a, c
<1>8. \A k \in Nat : k \in T
  <2> HIDE DEF T
  <2> QED
    BY <1>6, <1>7, SetInduction
<1>9. n - 1 \in T /\ (n - 1) + 1 = n
  <2> HIDE DEF T
  <2> QED
    BY <1>1, <1>8
<1> QED
  BY <1>1, <1>2, <1>9

LEMMA CalculationFollows ==
  ASSUME NEW v \in [Terms -> Int], NEW chain \in Seq(LinkShapes), chain # <<>>,
         NEW wanted \in ClaimShapes, Calculation(chain, wanted),
         \A r \in ToSet(ChainLinks(wanted.left, chain)) : Holds(r, v)
  PROVE  Holds(wanted, v)
<1> DEFINE start == wanted.left
           congruent == {i \in DOMAIN chain : chain[i].rel = "mod"}
           e == ChainClaim(start, chain)
<1>1. start \in Terms /\ wanted.rel \in {"=", "/=", "<", "<=", ">", ">=", "mod"}
  BY DEF ClaimShapes, Comparisons, Up, Down
<1>2. ChainCongruences(chain) /\ (wanted = e \/ (wanted.rel # "mod" /\ wanted = Turned(e)))
  BY DEF Calculation, Alike
<1>3. DOMAIN chain = 1 .. Len(chain) /\ \A i \in DOMAIN chain : chain[i].mod \in Nat
  <2>1. DOMAIN chain = 1 .. Len(chain) /\ \A i \in DOMAIN chain : chain[i] \in LinkShapes
    BY InSeq
  <2> QED
    BY <2>1 DEF LinkShapes
<1>4. CASE congruent # {}
  <2> DEFINE at == CHOOSE i \in congruent : TRUE
             m == chain[at].mod
  <2>1. at \in congruent
    BY <1>4
  <2> HIDE DEF at
  <2>2. at \in DOMAIN chain /\ chain[at].rel = "mod" /\ m \in Nat \ {0}
    BY <1>2, <1>3, <2>1 DEF ChainCongruences
  <2>3. \A i \in DOMAIN chain :
          \/ chain[i].rel = "=" /\ chain[i].mod = 0
          \/ chain[i].rel = "mod" /\ chain[i].mod = m
    BY <1>2, <2>2 DEF ChainCongruences
  <2> HIDE DEF m
  <2>4. (v[start] - v[Last(chain).right]) % m = 0
    BY <1>1, <2>2, <2>3, CongruencesFollow
  <2>5. e = [left |-> start, rel |-> "mod", right |-> Last(chain).right, mod |-> m]
    BY <1>4 DEF ChainClaim, at, m
  <2>6. wanted = e
    <3>1. Turned(e).rel = "mod"
      BY <2>5 DEF Turned, Converse
    <3> HIDE DEF e
    <3> QED
      BY <1>2, <3>1
  <2>7. Holds(e, v)
    BY <2>4, <2>5 DEF Holds
  <2> QED
    BY <2>6, <2>7
<1>5. CASE congruent = {}
  <2>1. \A i \in DOMAIN chain : chain[i].rel # "mod" /\ chain[i].mod = 0
    BY <1>2, <1>5 DEF ChainCongruences
  <2>2. e = Related(start, ChainRel(RelsOf(chain)), Last(chain).right)
    BY <1>5 DEF ChainClaim, Related
  <2>3. ChainRel(RelsOf(chain)) # "none"
    <3> SUFFICES ASSUME ChainRel(RelsOf(chain)) = "none" PROVE FALSE
      OBVIOUS
    <3>1. e.rel = "none"
      BY <2>2 DEF Related
    <3>2. Turned(e).rel = "none"
      BY <3>1 DEF Turned, Converse
    <3> HIDE DEF e
    <3> QED
      BY <1>1, <1>2, <3>1, <3>2
  <2>4. e \in TrueOf(v)
    BY <1>1, <2>1, <2>2, <2>3, OrdersFollow
  <2> HIDE DEF e
  <2>5. Holds(e, v) /\ Holds(Turned(e), v)
    BY <2>4, TurnedIs DEF TrueOf
  <2> QED
    BY <1>2, <2>5
<1> QED
  BY <1>4, <1>5

(***************************************************************************)
(* A step, line by line.                                                   *)
(***************************************************************************)
\* What the lines given make of the checker's verdict: a step is checked as a
\* whole, once it has a line, and no line is added after.
IChains ==
  /\ method \in Methods /\ claim \in Claims[method]
  /\ given \in Seq(IF method = "calculation" THEN Links ELSE Lines)
  /\ verdict \in {"unread", "refused", "accepted", "built"}
  /\ verdict \in {"accepted", "built"} => given # <<>> /\ Accepts

LEMMA AcceptsFollows ==
  ASSUME IChains
  PROVE  ChainFollows
<1> SUFFICES ASSUME verdict \in {"accepted", "built"}, NEW v \in [Terms -> Numbers],
                    \A r \in SaidByAll : Holds(r, v)
             PROVE  Holds(claim, v)
  BY DEF ChainFollows
<1>1. v \in [Terms -> Int] /\ claim \in ClaimShapes
  BY ChainsAssumption DEF IChains
<1>2. given # <<>> /\ Accepts
  BY DEF IChains
<1>3. \A S, U : S \subseteq U => Seq(S) \subseteq Seq(U)
  OBVIOUS
<1>4. CASE method = "calculation"
  <2>1. given \in Seq(Links)
    BY <1>4 DEF IChains
  <2>2. given \in Seq(LinkShapes)
    BY <1>3, <2>1, ChainsAssumption
  <2>3. Calculation(given, claim)
    BY <1>2, <1>4 DEF Accepts
  <2>4. \A r \in ToSet(ChainLinks(claim.left, given)) : Holds(r, v)
    BY <1>4 DEF SaidByAll
  <2> QED
    BY <1>1, <1>2, <2>2, <2>3, <2>4, CalculationFollows
<1>5. CASE method # "calculation"
  <2>1. given \in Seq(Lines)
    BY <1>5 DEF IChains
  <2>2. given \in Seq(Seq(Relations))
    BY <1>3, <2>1, ChainsAssumption
  <2>3. OfLines(given) \subseteq TrueOf(v)
    <3> SUFFICES ASSUME NEW r \in OfLines(given) PROVE r \in TrueOf(v)
      OBVIOUS
    <3>1. PICK i \in DOMAIN given : r \in ToSet(given[i])
      BY DEF OfLines
    <3>2. given[i] \in Seq(Relations)
      BY <2>2, InSeq
    <3>3. r \in Relations /\ r.rel # "/="
      BY <3>1, <3>2, InSeq DEF OfLines
    <3>4. r \in SaidByAll
      BY <1>5, <3>1 DEF SaidByAll
    <3> QED
      BY <3>3, <3>4 DEF TrueOf, OrderShapes, Relations
  <2>4. \/ method = "transitivity" /\ Transitivity(given, claim)
        \/ method = "antisymmetry" /\ Antisymmetry(given, claim)
    BY <1>2, <1>5 DEF Accepts, IChains, Methods
  <2> QED
    BY <1>1, <1>2, <2>2, <2>3, <2>4, TransitivityFollows, AntisymmetryFollows
<1> QED
  BY <1>4, <1>5

\* However many lines a step has and whatever they say, what the checker
\* accepts of a chain follows from them, whatever whole numbers the terms are
\* worth (ChainFollows of the elab run).
THEOREM ChainsFollow == SpecChains => []ChainFollows
<1>1. InitChains => IChains
  BY EmptySeq DEF InitChains, IChains
<1>2. IChains /\ [NextChains]_chainsVars => IChains'
  <2> SUFFICES ASSUME IChains, [NextChains]_chainsVars PROVE IChains'
    OBVIOUS
  <2>1. CASE Cite
    <3> DEFINE S == IF method = "calculation" THEN Links ELSE Lines
    <3>1. PICK line \in S : given' = Append(given, line)
      BY <2>1 DEF Cite
    <3>2. given \in Seq(S)
      BY DEF IChains
    <3> HIDE DEF S
    <3>3. given' \in Seq(S)
      BY <3>1, <3>2, AppendProperties
    <3> QED
      BY <2>1, <3>3 DEF Cite, IChains, S
  <2>2. CASE Check
    <3>1. UNCHANGED <<method, claim, given>> /\ given # <<>>
      BY <2>2 DEF Check
    <3>2. Accepts' <=> Accepts
      BY <3>1 DEF Accepts
    <3>3. verdict' \in {"accepted", "refused"} /\ (verdict' = "accepted" => Accepts)
      BY <2>2 DEF Check
    <3> QED
      BY <3>1, <3>2, <3>3 DEF IChains
  <2>3. CASE Build
    <3>1. UNCHANGED <<method, claim, given>> /\ verdict = "accepted" /\ verdict' = "built"
      BY <2>3 DEF Build
    <3>2. Accepts' <=> Accepts
      BY <3>1 DEF Accepts
    <3> QED
      BY <3>1, <3>2 DEF IChains
  <2>4. CASE UNCHANGED chainsVars
    <3>1. UNCHANGED <<method, claim, given, verdict>>
      BY <2>4 DEF chainsVars
    <3>2. Accepts' <=> Accepts
      BY <3>1 DEF Accepts
    <3> QED
      BY <3>1, <3>2 DEF IChains
  <2> QED
    BY <2>1, <2>2, <2>3, <2>4 DEF NextChains
<1>3. IChains => ChainFollows
  BY AcceptsFollows
<1> QED
  BY <1>1, <1>2, <1>3, PTL DEF SpecChains

===============================================================================
