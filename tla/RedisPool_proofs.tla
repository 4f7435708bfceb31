-------------------------- MODULE RedisPool_proofs --------------------------
(***************************************************************************)
(* Proofs about RedisPool, for every number of clients, every set of       *)
(* connections and every configuration.                                    *)
(***************************************************************************)
EXTENDS RedisPool, FiniteSetTheorems, SequenceTheorems, TLAPS

-----------------------------------------------------------------------------
(* The idle list. *)

Elements(s) == {s[i] : i \in 1..Len(s)}
NoRepeat(s) == \A i, j \in 1..Len(s) : s[i] = s[j] => i = j

\* Taking the first element off a list without repetition.
LEMMA PopFront ==
  ASSUME NEW S, NEW s \in Seq(S), s # <<>>, NoRepeat(s)
  PROVE  /\ Tail(s) \in Seq(S)
         /\ NoRepeat(Tail(s))
         /\ Head(s) \in Elements(s)
         /\ Elements(Tail(s)) = Elements(s) \ {Head(s)}
         /\ Len(s) \in Nat \ {0}
         /\ Len(Tail(s)) = Len(s) - 1
<1> DEFINE t == Tail(s)
<1>1. /\ t \in Seq(S) /\ Len(t) = Len(s) - 1 /\ Len(s) \in Nat \ {0}
      /\ \A i \in 1..Len(t) : t[i] = s[i + 1]
      /\ Head(s) = s[1]
  BY HeadTailProperties, EmptySeq, SMT
<1> HIDE DEF t
<1>2. NoRepeat(t)
  BY <1>1 DEF NoRepeat
<1>3. ASSUME NEW x PROVE x \in Elements(t) <=> x \in Elements(s) /\ x # s[1]
  <2>1. ASSUME x \in Elements(t) PROVE x \in Elements(s) /\ x # s[1]
    <3>1. PICK i \in 1..Len(t) : x = t[i]
      BY <2>1 DEF Elements
    <3>2. i + 1 \in 1..Len(s) /\ 1 \in 1..Len(s) /\ i + 1 # 1 /\ x = s[i + 1]
      BY <1>1, <3>1
    <3>q. QED BY <3>2 DEF Elements, NoRepeat
  <2>2. ASSUME x \in Elements(s), x # s[1] PROVE x \in Elements(t)
    <3>1. PICK i \in 1..Len(s) : x = s[i]
      BY <2>2 DEF Elements
    <3>2. i - 1 \in 1..Len(t) /\ t[i - 1] = s[i]
      BY <1>1, <2>2, <3>1
    <3>q. QED BY <3>1, <3>2 DEF Elements
  <2>q. QED BY <2>1, <2>2
<1>4. s[1] \in Elements(s)
  BY <1>1 DEF Elements
<1>q. QED BY <1>1, <1>2, <1>3, <1>4 DEF t

\* Taking the last one off.
LEMMA PopBack ==
  ASSUME NEW S, NEW s \in Seq(S), s # <<>>, NoRepeat(s)
  PROVE  LET t == SubSeq(s, 1, Len(s) - 1)
         IN  /\ t \in Seq(S)
             /\ NoRepeat(t)
             /\ s[Len(s)] \in Elements(s)
             /\ Elements(t) = Elements(s) \ {s[Len(s)]}
             /\ Len(s) \in Nat \ {0}
             /\ Len(t) = Len(s) - 1
<1> DEFINE t == SubSeq(s, 1, Len(s) - 1)
           n == Len(s)
<1>0. n \in Nat \ {0} /\ \A i \in 1..n : s[i] \in S
  BY EmptySeq, ElementOfSeq
<1>1. /\ t \in Seq(S) /\ Len(t) = n - 1
      /\ \A i \in 1..n - 1 : t[i] = s[i]
  <2> HIDE DEF n
  <2> DEFINE m == n - 1
  <2>1. 1 \in Int /\ m \in Int /\ \A i \in 1..m : s[i] \in S
    BY <1>0
  <2> HIDE DEF m
  <2>2. /\ SubSeq(s, 1, m) \in Seq(S)
        /\ Len(SubSeq(s, 1, m)) = IF 1 <= m THEN m - 1 + 1 ELSE 0
        /\ \A i \in 1..(m - 1 + 1) : SubSeq(s, 1, m)[i] = s[1 + i - 1]
    BY <2>1, SubSeqProperties
  <2>3. t = SubSeq(s, 1, m) /\ m = n - 1
    BY DEF n, m
  <2> HIDE DEF t
  <2>q. QED BY <1>0, <2>2, <2>3
<1> HIDE DEF t
<1>2. NoRepeat(t)
  BY <1>0, <1>1 DEF NoRepeat
<1>3. ASSUME NEW x PROVE x \in Elements(t) <=> x \in Elements(s) /\ x # s[n]
  <2>1. ASSUME x \in Elements(t) PROVE x \in Elements(s) /\ x # s[n]
    <3>1. PICK i \in 1..n - 1 : x = s[i]
      BY <1>1, <2>1 DEF Elements
    <3>2. i \in 1..n /\ n \in 1..n /\ i # n
      BY <1>0, <3>1
    <3>q. QED BY <3>1, <3>2 DEF Elements, NoRepeat
  <2>2. ASSUME x \in Elements(s), x # s[n] PROVE x \in Elements(t)
    <3>1. PICK i \in 1..n : x = s[i]
      BY <2>2 DEF Elements
    <3>2. i \in 1..Len(t) /\ t[i] = s[i]
      BY <1>0, <1>1, <2>2, <3>1
    <3>q. QED BY <3>1, <3>2 DEF Elements
  <2>q. QED BY <2>1, <2>2
<1>4. s[n] \in Elements(s)
  BY <1>0 DEF Elements
<1>q. QED BY <1>0, <1>1, <1>2, <1>3, <1>4 DEF t

\* Putting a new one in front.
LEMMA PushFront ==
  ASSUME NEW S, NEW s \in Seq(S), NEW k \in S, k \notin Elements(s), NoRepeat(s)
  PROVE  LET t == <<k>> \o s
         IN  /\ t \in Seq(S)
             /\ t # <<>>
             /\ NoRepeat(t)
             /\ Elements(t) = Elements(s) \cup {k}
             /\ Len(s) \in Nat
             /\ Len(t) = Len(s) + 1
<1> DEFINE t == <<k>> \o s
<1>0. Len(s) \in Nat
  BY LenProperties
<1>1. /\ t \in Seq(S) /\ Len(t) = Len(s) + 1
      /\ \A i \in 1..Len(s) + 1 : t[i] = IF i = 1 THEN k ELSE s[i - 1]
  <2>1. <<k>> \in Seq(S) /\ Len(<<k>>) = 1 /\ <<k>>[1] = k
    OBVIOUS
  <2>2. /\ t \in Seq(S) /\ Len(t) = 1 + Len(s)
        /\ \A i \in 1..1 + Len(s) : t[i] = IF i <= 1 THEN <<k>>[i] ELSE s[i - 1]
    BY <2>1, ConcatProperties
  <2>q. QED BY <1>0, <2>1, <2>2
<1> HIDE DEF t
<1>2. t # <<>>
  BY <1>0, <1>1, EmptySeq
<1>3. NoRepeat(t)
  <2> SUFFICES ASSUME NEW i \in 1..Len(t), NEW j \in 1..Len(t), t[i] = t[j]
               PROVE  i = j
    BY DEF NoRepeat
  <2>1. \A m \in 1..Len(t) : m # 1 => t[m] \in Elements(s)
    BY <1>0, <1>1 DEF Elements
  <2>2. CASE i = 1 \/ j = 1
    BY <1>0, <1>1, <2>1, <2>2
  <2>3. CASE i # 1 /\ j # 1
    <3>1. i - 1 \in 1..Len(s) /\ j - 1 \in 1..Len(s) /\ s[i - 1] = s[j - 1]
      BY <1>0, <1>1, <2>3
    <3>2. i - 1 = j - 1
      BY <3>1 DEF NoRepeat
    <3>q. QED BY <3>2, <1>0, <1>1
  <2>q. QED BY <2>2, <2>3
<1>4. ASSUME NEW x PROVE x \in Elements(t) <=> x \in Elements(s) \/ x = k
  <2>1. ASSUME x \in Elements(t) PROVE x \in Elements(s) \/ x = k
    <3>1. PICK i \in 1..Len(t) : x = t[i]
      BY <2>1 DEF Elements
    <3>2. CASE i = 1 BY <3>1, <3>2, <1>0, <1>1
    <3>3. CASE i # 1
      BY <3>1, <3>3, <1>0, <1>1 DEF Elements
    <3>q. QED BY <3>2, <3>3
  <2>2. ASSUME x \in Elements(s) PROVE x \in Elements(t)
    <3>1. PICK i \in 1..Len(s) : x = s[i]
      BY <2>2 DEF Elements
    <3>2. i + 1 \in 1..Len(t) /\ t[i + 1] = s[i]
      BY <1>0, <1>1, <3>1
    <3>q. QED BY <3>1, <3>2 DEF Elements
  <2>3. k \in Elements(t)
    BY <1>0, <1>1 DEF Elements
  <2>q. QED BY <2>1, <2>2, <2>3
<1>q. QED BY <1>0, <1>1, <1>2, <1>3, <1>4 DEF t

-----------------------------------------------------------------------------
(* Who has which connection: all of PoolInv but the count. *)

ConnInv == TypeOK /\ NoLeakNoSharing /\ HandedOutSetUp /\ InHand

\* The set of idle connections, before and after a step.
LEMMA IdleSetIs == IdleSet = Elements(idle) /\ IdleSet' = Elements(idle')
BY DEF IdleSet, Elements

\* A new pool has no connection.
LEMMA ConnInvInit == Init => ConnInv
<1> SUFFICES ASSUME Init PROVE ConnInv
  OBVIOUS
<1> USE DEF Init
<1>1. idle \in Seq(Conns) /\ Elements(idle) = {} /\ HeldSet = {}
  <2>1. idle \in Seq(Conns) /\ Len(idle) = 0
    BY EmptySeq
  <2>q. QED BY <2>1 DEF Elements, HeldSet
<1>2. TypeOK
  BY <1>1 DEF TypeOK
<1>3. NoLeakNoSharing
  BY <1>1, IdleSetIs, EmptySeq DEF NoLeakNoSharing
<1>4. HandedOutSetUp
  BY <1>1, IdleSetIs DEF HandedOutSetUp
<1>q. QED BY <1>2, <1>3, <1>4 DEF ConnInv, InHand

\* The steps that leave the idle list alone.
LEMMA ListLeftAlone ==
  ASSUME ConnInv, NEW c \in Clients, conf' = conf, idle' = idle, active' \in Nat,
         \/ Ping(c) \/ StartDial(c) \/ PoolExhausted(c) \/ TestOnBorrow(c)
         \/ DialWithConf(c) \/ Do(c) \/ CloseConn(c) \/ Uncount(c) \/ Return(c)
  PROVE  TypeOK' /\ NoLeakNoSharing' /\ HandedOutSetUp' /\ InHand'
<1>1. IdleSet' = IdleSet
  BY IdleSetIs
<1>2. IdleSet \subseteq open
  BY DEF ConnInv, NoLeakNoSharing
<1> USE RedisAssumption, <1>1, <1>2
    DEF ConnInv, TypeOK, NoLeakNoSharing, HeldSet, HandedOutSetUp, SetUp, InHand, Goto,
        Hold, conns, Dropping
<1>3. CASE Ping(c) BY <1>3 DEF Ping
<1>4. CASE StartDial(c) BY <1>4 DEF StartDial
<1>5. CASE PoolExhausted(c) BY <1>5 DEF PoolExhausted
<1>6. CASE TestOnBorrow(c) BY <1>6 DEF TestOnBorrow
<1>7. CASE Dial(c)
  <2>1. ASSUME NEW k \in Conns \ open, open' = open \cup {k}, Hold(c, k),
               Goto(c, AfterDial)
        PROVE  TypeOK' /\ NoLeakNoSharing' /\ HandedOutSetUp' /\ InHand'
    <3>0. UNCHANGED <<app, authed, selected, broken, lapsed, idle, result>>
      BY <1>7, <2>1 DEF Dial
    <3>1. AfterDial \in {"auth", "select", "do"} /\ pc[c] = "dial" /\ k # NoConn
      BY <1>7 DEF Dial, AfterDial, AfterAuth
    <3>2. /\ AfterDial = "do" => SetUp(k)
          /\ AfterDial = "select" => ~ conf.Password
      BY DEF AfterDial, AfterAuth
    <3> HIDE DEF SetUp
    <3>3. TypeOK'
      BY <2>1, <3>0, <3>1
    <3>4. NoLeakNoSharing'
      BY <2>1, <3>0, <3>1
    <3>5. HandedOutSetUp' /\ InHand'
      BY <2>1, <3>0, <3>1, <3>2 DEF SetUp
    <3>q. QED BY <3>3, <3>4, <3>5
  <2>2. ASSUME Goto(c, "dialFailed"), UNCHANGED <<open, holds>>,
               result' = [result EXCEPT ![c] = "err"]
        PROVE  TypeOK' /\ NoLeakNoSharing' /\ HandedOutSetUp' /\ InHand'
    <3>0. UNCHANGED <<app, authed, selected, broken, lapsed, idle>> /\ pc[c] = "dial"
      BY <1>7 DEF Dial
    <3>1. TypeOK' /\ NoLeakNoSharing'
      BY <2>2, <3>0
    <3>2. HandedOutSetUp' /\ InHand'
      BY <2>2, <3>0
    <3>q. QED BY <3>1, <3>2
  <2>q. QED
    <3>1. \/ \E k \in Conns \ open : open' = open \cup {k} /\ Hold(c, k) /\ Goto(c, AfterDial)
          \/ /\ Goto(c, "dialFailed") /\ UNCHANGED <<open, holds>>
             /\ result' = [result EXCEPT ![c] = "err"]
      BY <1>7 DEF Dial
    <3> HIDE DEF Goto, Hold, TypeOK, NoLeakNoSharing, HandedOutSetUp, InHand
    <3>q. QED BY <2>1, <2>2, <3>1
<1>8. CASE Auth(c) BY <1>8 DEF Auth, AfterAuth
<1>9. CASE Select(c) BY <1>9 DEF Select
<1>10. CASE Do(c) BY <1>10 DEF Do
<1>11. CASE CloseConn(c) BY <1>11 DEF CloseConn
<1>12. CASE Uncount(c) BY <1>12 DEF Uncount
<1>13. CASE Return(c) BY <1>13 DEF Return
<1>q. QED BY <1>3, <1>4, <1>5, <1>6, <1>7, <1>8, <1>9, <1>10, <1>11, <1>12, <1>13
             DEF DialWithConf

\* A connection breaks.
LEMMA BreakKeeps ==
  ASSUME ConnInv, NEW k \in Conns, Break(k), conf' = conf
  PROVE  ConnInv'
<1>1. IdleSet' = IdleSet
  BY IdleSetIs DEF Break
<1>q. QED
  BY <1>1 DEF ConnInv, TypeOK, NoLeakNoSharing, HeldSet, HandedOutSetUp, SetUp, InHand,
              Break

\* A connection leaves the idle list for the hand of a client ...
LEMMA TakesFromList ==
  ASSUME ConnInv, NEW c \in Clients, Prune(c) \/ Borrow(c), conf' = conf
  PROVE  /\ ConnInv'
         /\ Len(idle') = Len(idle) - 1 /\ Len(idle) \in Nat
<1> DEFINE Taken(k) ==
             /\ idle' \in Seq(Conns) /\ NoRepeat(idle')
             /\ k \in IdleSet /\ IdleSet' = IdleSet \ {k}
             /\ Len(idle') = Len(idle) - 1 /\ Len(idle) \in Nat
             /\ Hold(c, k)
             /\ UNCHANGED <<app, result, conns, active>>
             /\ Goto(c, "stale") \/ Goto(c, "test")
<1>1. /\ idle \in Seq(Conns) /\ NoRepeat(idle) /\ idle # <<>>
      /\ holds[c] = NoConn /\ pc[c] \in {"get", "pop"}
  BY DEF ConnInv, TypeOK, NoLeakNoSharing, NoRepeat, InHand, Prune, Borrow
<1>2. ASSUME Prune(c) PROVE Taken(idle[Len(idle)])
  <2>1. idle' = SubSeq(idle, 1, Len(idle) - 1)
    BY <1>2 DEF Prune
  <2>2. /\ idle' \in Seq(Conns) /\ NoRepeat(idle')
        /\ idle[Len(idle)] \in Elements(idle)
        /\ Elements(idle') = Elements(idle) \ {idle[Len(idle)]}
        /\ Len(idle') = Len(idle) - 1 /\ Len(idle) \in Nat
    BY <1>1, <2>1, PopBack
  <2>q. QED BY <1>2, <2>2, IdleSetIs DEF Prune
<1>3. ASSUME Borrow(c) PROVE Taken(Head(idle))
  <2>1. idle' = Tail(idle)
    BY <1>3 DEF Borrow
  <2>2. /\ idle' \in Seq(Conns) /\ NoRepeat(idle')
        /\ Head(idle) \in Elements(idle)
        /\ Elements(idle') = Elements(idle) \ {Head(idle)}
        /\ Len(idle') = Len(idle) - 1 /\ Len(idle) \in Nat
    BY <1>1, <2>1, PopFront
  <2>q. QED BY <1>3, <2>2, IdleSetIs DEF Borrow
<1> HIDE DEF Taken
<1>k. PICK k : Taken(k)
  BY <1>2, <1>3
<1>4. k \in Conns /\ k # NoConn /\ IdleSet \subseteq open
  BY <1>k, RedisAssumption DEF Taken, ConnInv, TypeOK, NoLeakNoSharing
<1> USE <1>1, <1>k, <1>4 DEF Taken, ConnInv, Hold, Goto, conns
<1>5. TypeOK'
  BY DEF TypeOK, Dropping
<1>6. NoLeakNoSharing'
  <2>1. HeldSet' = HeldSet \cup {k}
    BY DEF TypeOK, HeldSet
  <2>2. \A d \in Clients : holds[d] # k
    BY DEF NoLeakNoSharing
  <2>q. QED BY <2>1, <2>2 DEF TypeOK, NoLeakNoSharing, NoRepeat
<1>7. HandedOutSetUp'
  BY DEF TypeOK, HandedOutSetUp, SetUp
<1>8. InHand'
  BY DEF TypeOK, InHand
<1>q. QED BY <1>5, <1>6, <1>7, <1>8

\* ... and one that still works goes back: in the third case the hand is empty,
\* in the second it has the connection that was idle longest.
LEMMA PutKeeps ==
  ASSUME ConnInv, NEW c \in Clients, Put(c), conf' = conf
  PROVE  /\ ConnInv'
         /\ Len(idle) \in Nat
         /\ \/ Len(idle') = Len(idle) /\ Counted(c)'
            \/ Len(idle') = Len(idle) + 1 /\ ~ Counted(c)'
<1> DEFINE h == holds[c]
           more == <<h>> \o idle
<1>1. /\ idle \in Seq(Conns) /\ NoRepeat(idle) /\ Len(idle) \in Nat
      /\ h \in Conns /\ h # NoConn /\ h \in open /\ h \notin Elements(idle)
      /\ IdleSet \subseteq open
      /\ UNCHANGED <<app, result, conns, active>> /\ pc[c] = "put" /\ SetUp(h)
  BY IdleSetIs, LenProperties
     DEF ConnInv, TypeOK, NoLeakNoSharing, HeldSet, NoRepeat, InHand, HandedOutSetUp, Put
<1>2. /\ more \in Seq(Conns) /\ more # <<>> /\ NoRepeat(more)
      /\ Elements(more) = IdleSet \cup {h} /\ Len(more) = Len(idle) + 1
  BY <1>1, PushFront, IdleSetIs
<1> HIDE DEF more
<1>3. CASE h \in broken
  <2>1. Goto(c, "evict") /\ UNCHANGED <<holds, idle>>
    BY <1>3 DEF Put
  <2>2. IdleSet' = IdleSet
    BY <2>1, IdleSetIs
  <2>3. TypeOK' /\ NoLeakNoSharing' /\ HandedOutSetUp' /\ InHand'
    BY <1>1, <2>1, <2>2
       DEF ConnInv, TypeOK, NoLeakNoSharing, HeldSet, HandedOutSetUp, SetUp, InHand, Goto,
           conns, Dropping
  <2>4. Counted(c)'
    BY <1>1, <2>1 DEF Counted
  <2>q. QED BY <1>1, <2>1, <2>3, <2>4 DEF ConnInv
<1>4. CASE h \notin broken /\ Len(more) > conf.MaxIdle
  <2> DEFINE k == more[Len(more)]
  <2>1. Goto(c, "evict") /\ Hold(c, k) /\ idle' = SubSeq(more, 1, Len(more) - 1)
    BY <1>4 DEF Put, more
  <2>2. /\ idle' \in Seq(Conns) /\ NoRepeat(idle') /\ Len(idle') = Len(idle)
        /\ k \in IdleSet \cup {h} /\ IdleSet' = (IdleSet \cup {h}) \ {k}
    BY <1>1, <1>2, <2>1, PopBack, IdleSetIs
  <2> HIDE DEF k
  <2>3. k \in Conns /\ k # NoConn
    BY <1>1, <2>2, RedisAssumption DEF ConnInv, TypeOK
  <2>4. TypeOK'
    BY <1>1, <2>1, <2>2, <2>3 DEF ConnInv, TypeOK, Goto, Hold, conns, Dropping
  <2>5. HeldSet' = (HeldSet \ {h}) \cup {k}
    BY <1>1, <2>1, <2>3 DEF ConnInv, TypeOK, NoLeakNoSharing, HeldSet, Hold
  <2>6. NoLeakNoSharing'
    BY <1>1, <2>1, <2>2, <2>3, <2>5
       DEF ConnInv, TypeOK, NoLeakNoSharing, HeldSet, NoRepeat, Hold, conns
  <2>7. HandedOutSetUp' /\ InHand'
    BY <1>1, <2>1, <2>2, <2>3
       DEF ConnInv, TypeOK, HandedOutSetUp, SetUp, InHand, Goto, Hold, conns
  <2>8. Counted(c)'
    BY <2>1, <2>3 DEF Counted, Hold, ConnInv, TypeOK
  <2>q. QED BY <1>1, <2>2, <2>4, <2>6, <2>7, <2>8 DEF ConnInv
<1>5. CASE h \notin broken /\ ~ Len(more) > conf.MaxIdle
  <2>1. Goto(c, "return") /\ Hold(c, NoConn) /\ idle' = more
    BY <1>5 DEF Put, more
  <2>2. IdleSet' = IdleSet \cup {h}
    BY <1>2, <2>1, IdleSetIs
  <2>3. TypeOK'
    BY <1>1, <1>2, <2>1, <2>2 DEF ConnInv, TypeOK, Goto, Hold, conns, Dropping
  <2>4. HeldSet' = HeldSet \ {h}
    BY <1>1, <2>1 DEF ConnInv, TypeOK, NoLeakNoSharing, HeldSet, Hold
  <2>5. NoLeakNoSharing'
    BY <1>1, <1>2, <2>1, <2>2, <2>4, RedisAssumption
       DEF ConnInv, TypeOK, NoLeakNoSharing, HeldSet, NoRepeat, Hold, conns
  <2>6. HandedOutSetUp' /\ InHand'
    BY <1>1, <2>1, <2>2
       DEF ConnInv, TypeOK, HandedOutSetUp, SetUp, InHand, Goto, Hold, conns
  <2>7. ~ Counted(c)'
    BY <2>1 DEF Counted, Goto, Hold, ConnInv, TypeOK, Dropping
  <2>q. QED BY <1>1, <1>2, <2>1, <2>3, <2>5, <2>6, <2>7 DEF ConnInv
<1>q. QED BY <1>3, <1>4, <1>5

-----------------------------------------------------------------------------
(* The count. *)

CountInv == CountExact /\ (conf.MaxActive > 0 => active <= conf.MaxActive)

\* A step of c changes the number of counted clients by c alone.
LEMMA CountChange ==
  ASSUME NEW c \in Clients,
         \A d \in Clients \ {c} : Counted(d)' <=> Counted(d)
  PROVE  /\ Cardinality(CountedSet) \in Nat
         /\ Counted(c) => Cardinality(CountedSet) > 0
         /\ Cardinality(CountedSet') =
              CASE Counted(c) /\ ~ Counted(c)' -> Cardinality(CountedSet) - 1
                [] ~ Counted(c) /\ Counted(c)' -> Cardinality(CountedSet) + 1
                [] OTHER                       -> Cardinality(CountedSet)
<1>1. /\ CountedSet \in SUBSET Clients
      /\ c \in CountedSet <=> Counted(c)
      /\ c \in CountedSet' <=> Counted(c)'
      /\ CountedSet' = IF Counted(c)' THEN CountedSet \cup {c} ELSE CountedSet \ {c}
  BY DEF CountedSet
<1>2. IsFiniteSet(CountedSet)
  BY <1>1, FS_Subset, RedisAssumption
<1>3. Cardinality(CountedSet) \in Nat
  BY <1>2, FS_CardinalityType
<1>4. Counted(c) => Cardinality(CountedSet) # 0
  BY <1>1, <1>2, FS_EmptySet
<1>5. /\ Cardinality(CountedSet \cup {c}) =
           IF c \in CountedSet THEN Cardinality(CountedSet) ELSE Cardinality(CountedSet) + 1
      /\ Cardinality(CountedSet \ {c}) =
           IF c \in CountedSet THEN Cardinality(CountedSet) - 1 ELSE Cardinality(CountedSet)
  BY <1>2, FS_AddElement, FS_RemoveElement
<1>q. QED BY <1>1, <1>3, <1>4, <1>5

\* What is counted before and after each step that leaves the idle list alone.
LEMMA CountsOf ==
  ASSUME ConnInv, NEW c \in Clients, conf' = conf,
         \/ Ping(c) \/ StartDial(c) \/ PoolExhausted(c) \/ TestOnBorrow(c)
         \/ DialWithConf(c) \/ Do(c) \/ CloseConn(c) \/ Uncount(c) \/ Return(c)
  PROVE  /\ idle' = idle
         /\ \A d \in Clients \ {c} : Counted(d)' <=> Counted(d)
         /\ \/ ~ Counted(c) /\ Counted(c)' /\ StartDial(c) /\ active' = active + 1
            \/ Counted(c) /\ ~ Counted(c)' /\ active' = active - 1
            \/ (Counted(c)' <=> Counted(c)) /\ active' = active
<1> USE DEF ConnInv, TypeOK, InHand, Counted, Dropping, Goto, Hold, conns
<1>1. CASE Ping(c) BY <1>1 DEF Ping
<1>2. CASE StartDial(c) BY <1>2 DEF StartDial
<1>3. CASE PoolExhausted(c) BY <1>3 DEF PoolExhausted
<1>4. CASE TestOnBorrow(c) BY <1>4 DEF TestOnBorrow
<1>5. CASE Dial(c)
  <2>1. AfterDial \in {"auth", "select", "do"}
    BY DEF AfterDial, AfterAuth
  <2>q. QED BY <1>5, <2>1, RedisAssumption DEF Dial
<1>6. CASE Auth(c) BY <1>6 DEF Auth, AfterAuth
<1>7. CASE Select(c) BY <1>7 DEF Select
<1>8. CASE Do(c) BY <1>8 DEF Do
<1>9. CASE CloseConn(c) BY <1>9 DEF CloseConn
<1>10. CASE Uncount(c) BY <1>10 DEF Uncount
<1>11. CASE Return(c) BY <1>11 DEF Return
<1>q. QED BY <1>1, <1>2, <1>3, <1>4, <1>5, <1>6, <1>7, <1>8, <1>9, <1>10, <1>11
             DEF DialWithConf

\* The steps that leave the idle list alone.
LEMMA ListLeftAloneKeeps ==
  ASSUME ConnInv, CountInv, NEW c \in Clients, conf' = conf,
         \/ Ping(c) \/ StartDial(c) \/ PoolExhausted(c) \/ TestOnBorrow(c)
         \/ DialWithConf(c) \/ Do(c) \/ CloseConn(c) \/ Uncount(c) \/ Return(c)
  PROVE  ConnInv' /\ CountInv'
<1>1. Len(idle) \in Nat /\ active \in Nat /\ conf.MaxActive \in Int
  BY LenProperties, RedisAssumption DEF ConnInv, TypeOK
<1>2. /\ Cardinality(CountedSet) \in Nat
      /\ Counted(c) => Cardinality(CountedSet) > 0
      /\ active = Len(idle) + Cardinality(CountedSet)
  BY CountsOf, CountChange DEF CountInv, CountExact
<1>3. active' \in Nat
  BY <1>1, <1>2, CountsOf
<1>4. ConnInv'
  BY <1>3, CountsOf, ListLeftAlone DEF ConnInv
<1>5. CountExact'
  BY <1>1, <1>2, CountsOf, CountChange DEF CountExact
<1>6. (conf.MaxActive > 0 => active <= conf.MaxActive)'
  BY <1>1, <1>2, CountsOf DEF CountInv, StartDial
<1>q. QED BY <1>4, <1>5, <1>6 DEF CountInv

\* The steps of get and put that change the idle list.
LEMMA ListStepKeeps ==
  ASSUME ConnInv, CountInv, NEW c \in Clients, conf' = conf,
         Prune(c) \/ Borrow(c) \/ Put(c)
  PROVE  ConnInv' /\ CountInv'
<1>1. ConnInv'
  BY TakesFromList, PutKeeps
<1>2. active' = active /\ \A d \in Clients \ {c} : Counted(d)' <=> Counted(d)
  BY DEF Prune, Borrow, Put, Counted, ConnInv, TypeOK, Goto, Hold
<1>3. /\ Len(idle) \in Nat /\ active \in Nat
      /\ \/ Len(idle') = Len(idle) - 1 /\ ~ Counted(c) /\ Counted(c)'
         \/ Len(idle') = Len(idle) /\ Counted(c) /\ Counted(c)'
         \/ Len(idle') = Len(idle) + 1 /\ Counted(c) /\ ~ Counted(c)'
  <2>1. active \in Nat
    BY DEF ConnInv, TypeOK
  <2>2. CASE Prune(c) \/ Borrow(c)
    <3>1. ~ Counted(c)
      BY <2>2 DEF Prune, Borrow, Counted, ConnInv, InHand, Dropping
    <3>2. Counted(c)'
      BY <2>2, TakesFromList, RedisAssumption
         DEF Prune, Borrow, Counted, ConnInv, TypeOK, InHand, Dropping, Goto
    <3>q. QED BY <2>1, <2>2, <3>1, <3>2, TakesFromList
  <2>3. CASE Put(c)
    <3>1. Counted(c)
      BY <2>3 DEF Put, Counted, ConnInv, InHand
    <3>q. QED BY <2>1, <2>3, <3>1, PutKeeps
  <2>q. QED BY <2>2, <2>3
<1>4. CountExact'
  BY <1>2, <1>3, CountChange DEF CountInv, CountExact
<1>q. QED BY <1>1, <1>2, <1>4 DEF CountInv

-----------------------------------------------------------------------------
(* The theorems. *)

\* PoolInv is ConnInv and CountInv.
LEMMA PoolInvParts == PoolInv <=> ConnInv /\ CountInv
BY DEF PoolInv, ConnInv, CountInv

\* A new pool counts none, for every configuration.
LEMMA PoolInvInit == Init => PoolInv
<1> SUFFICES ASSUME Init PROVE PoolInv
  OBVIOUS
<1>1. ConnInv
  BY ConnInvInit
<1>2. CountedSet = {} /\ Len(idle) = 0 /\ active = 0
  BY EmptySeq DEF Init, CountedSet, Counted, Dropping
<1>3. CountExact
  BY <1>2, FS_EmptySet DEF CountExact
<1>4. conf.MaxActive \in Int
  BY RedisAssumption DEF Init
<1>q. QED BY <1>1, <1>2, <1>3, <1>4, PoolInvParts DEF CountInv

\* Every step of every client keeps the invariant.
LEMMA PoolInvStep == PoolInv /\ [Next]_vars => PoolInv'
<1> SUFFICES ASSUME ConnInv, CountInv, [Next]_vars PROVE ConnInv' /\ CountInv'
  BY DEF PoolInv, ConnInv, CountInv
<1>1. CASE Next
  <2>1. conf' = conf
    BY <1>1 DEF Next
  <2>2. CASE \E c \in Clients :
               \/ Ping(c) \/ Get(c) \/ DialWithConf(c)
               \/ Do(c) \/ Put(c) \/ CloseConn(c) \/ Uncount(c) \/ Return(c)
    BY <2>1, <2>2, ListLeftAloneKeeps, ListStepKeeps DEF Get
  <2>3. CASE \E k \in Conns : Break(k)
    <3>1. ConnInv'
      BY <2>1, <2>3, BreakKeeps
    <3>2. CountedSet' = CountedSet /\ UNCHANGED <<active, idle>>
      BY <2>3 DEF Break, CountedSet, Counted
    <3>q. QED BY <2>1, <3>1, <3>2 DEF CountInv, CountExact
  <2>q. QED BY <1>1, <2>2, <2>3 DEF Next
<1>2. CASE UNCHANGED vars
  <2>1. ConnInv'
    BY <1>2 DEF vars, conns, ConnInv, TypeOK, NoLeakNoSharing, IdleSet, HeldSet,
                HandedOutSetUp, SetUp, InHand
  <2>2. CountedSet' = CountedSet
    BY <1>2 DEF vars, CountedSet, Counted
  <2>q. QED BY <1>2, <2>1, <2>2 DEF vars, CountInv, CountExact
<1>q. QED BY <1>1, <1>2

\* The pool's bookkeeping as a whole: the inductive invariant.
THEOREM PoolInvHolds == Spec => []PoolInv
BY PoolInvInit, PoolInvStep, PTL DEF Spec

\* No connection of DialWithConf or of the pool is lost, and no two clients, nor
\* a client and the idle list, have the same one.
THEOREM NoLeakNoSharingHolds == Spec => []NoLeakNoSharing
<1>1. PoolInv => NoLeakNoSharing
  BY DEF PoolInv
<1>q. QED BY <1>1, PoolInvHolds, PTL

\* What a client works on, or finds idle, passed the AUTH and the SELECT that
\* are configured, and no client uses a connection that broke while it was idle.
THEOREM HandedOutSetUpHolds == Spec => []HandedOutSetUp
<1>1. PoolInv => HandedOutSetUp
  BY DEF PoolInv
<1>q. QED BY <1>1, PoolInvHolds, PTL

\* Every error path takes back what it counted.
THEOREM CountExactHolds == Spec => []CountExact
<1>1. PoolInv => CountExact
  BY DEF PoolInv
<1>q. QED BY <1>1, PoolInvHolds, PTL

\* The connections that are open are among those counted.
LEMMA OpenAreCounted ==
  ASSUME ConnInv, CountInv
  PROVE  Cardinality(open) \in Int /\ Cardinality(open) <= active
<1> DEFINE Holders == {c \in Clients : holds[c] # NoConn}
<1>1. Len(idle) \in Nat /\ idle \in [1..Len(idle) -> IdleSet]
  BY LenProperties DEF ConnInv, TypeOK, IdleSet
<1>2. IsFiniteSet(IdleSet) /\ Cardinality(IdleSet) <= Len(idle)
  <2>1. idle \in Surjection(1..Len(idle), IdleSet)
    BY <1>1 DEF Surjection, IdleSet
  <2>2. IsFiniteSet(1..Len(idle)) /\ Cardinality(1..Len(idle)) = Len(idle)
    BY <1>1, FS_Interval
  <2>q. QED BY <2>1, <2>2, FS_Surjection
<1>3. IsFiniteSet(Holders) /\ IsFiniteSet(CountedSet)
      /\ Cardinality(Holders) <= Cardinality(CountedSet)
  <2>1. Holders \in SUBSET CountedSet /\ CountedSet \in SUBSET Clients
    BY DEF CountedSet, Counted
  <2>2. IsFiniteSet(CountedSet)
    BY <2>1, FS_Subset, RedisAssumption
  <2>q. QED BY <2>1, <2>2, FS_Subset
<1>4. IsFiniteSet(HeldSet) /\ Cardinality(HeldSet) <= Cardinality(Holders)
  <2>1. [c \in Holders |-> holds[c]] \in Surjection(Holders, HeldSet)
    BY DEF Surjection, HeldSet
  <2>q. QED BY <1>3, <2>1, FS_Surjection
<1>5. /\ Cardinality(IdleSet) \in Nat /\ Cardinality(HeldSet) \in Nat
      /\ Cardinality(Holders) \in Nat /\ Cardinality(CountedSet) \in Nat
      /\ Cardinality(IdleSet \cap HeldSet) \in Nat
  <2>1. IsFiniteSet(IdleSet \cap HeldSet)
    BY <1>2, FS_Subset
  <2>q. QED BY <1>2, <1>3, <1>4, <2>1, FS_CardinalityType
<1>6. Cardinality(open) =
        Cardinality(IdleSet) + Cardinality(HeldSet) - Cardinality(IdleSet \cap HeldSet)
  BY <1>2, <1>4, FS_Union DEF ConnInv, NoLeakNoSharing
<1> HIDE DEF Holders
<1>q. QED BY <1>1, <1>2, <1>3, <1>4, <1>5, <1>6 DEF CountInv, CountExact

\* MaxActive bounds the connections that are open at the same time, however the
\* dials of the clients interleave and fail.
THEOREM LimitRespectedHolds == Spec => []LimitRespected
<1>1. PoolInv => LimitRespected
  <2> SUFFICES ASSUME ConnInv, CountInv, conf.MaxActive > 0
               PROVE  Cardinality(open) <= conf.MaxActive
    BY PoolInvParts DEF LimitRespected
  <2>1. active \in Nat /\ conf.MaxActive \in Int /\ active <= conf.MaxActive
    BY RedisAssumption DEF ConnInv, CountInv, TypeOK
  <2>2. Cardinality(open) \in Int /\ Cardinality(open) <= active
    BY OpenAreCounted
  <2>q. QED BY <2>1, <2>2
<1>q. QED BY <1>1, PoolInvHolds, PTL
=============================================================================
