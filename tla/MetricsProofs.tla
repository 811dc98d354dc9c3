--------------------------- MODULE MetricsProofs ---------------------------
(***************************************************************************)
(* Metrics, for any number of tasks, readers and stops, any sizes and any  *)
(* capacity: its types, the load, the bytes, what a reader is told, and    *)
(* that every step of it is a step of Meter or none.                       *)
(*                                                                         *)
(* Two things are counted.  The load is the difference of two              *)
(* cardinalities, of the tasks announced and of those ended, as far as the *)
(* collector has heard.  The bytes are a sum over the latter, which TLC    *)
(* folds over a set; here it is the number of grains, a task's size being  *)
(* so many, and a fold over a set is shown to be that by taking the least  *)
(* set for which it were not.                                              *)
(***************************************************************************)
EXTENDS Metrics, FiniteSetTheorems, TLAPS

-----------------------------------------------------------------------------
(* The types, and the room in the channels.                                *)

\* The types hold, and what waits in a channel can be counted: nothing is assumed
\* of how many may read or stop.
TypeInv == TypeOK /\ IsFiniteSet(load1) /\ IsFiniteSet(read)

\* A send that found room leaves the channel within its capacity.
LEMMA SendFits ==
  ASSUME NEW channel, IsFiniteSet(channel), HasRoom(channel), NEW m
  PROVE  IsFiniteSet(channel \cup {m}) /\ Cardinality(channel \cup {m}) <= Cap
<1>1. Cardinality(channel) \in Nat /\ Cap \in Nat
  BY FS_CardinalityType, MetricsAssumption
<1>. QED
  BY <1>1, FS_AddElement DEF HasRoom

\* Taking a message leaves it there too.
LEMMA TakeFits ==
  ASSUME NEW channel, IsFiniteSet(channel), Cardinality(channel) <= Cap, NEW m
  PROVE  IsFiniteSet(channel \ {m}) /\ Cardinality(channel \ {m}) <= Cap
<1>1. Cardinality(channel) \in Nat /\ Cap \in Nat
  BY FS_CardinalityType, MetricsAssumption
<1>. QED
  BY <1>1, FS_RemoveElement

\* The channels are empty at first.
LEMMA TypeInit == Init => TypeInv
<1>. SUFFICES ASSUME Init  PROVE TypeInv
  OBVIOUS
<1>1. Cardinality({}) = 0 /\ IsFiniteSet({}) /\ Cap \in Nat
  BY FS_EmptySet, MetricsAssumption
<1>2. Cardinality(load1) <= Cap /\ Cardinality(end) <= Cap /\ Cardinality(read) <= Cap
  BY <1>1 DEF Init
<1>. QED
  BY <1>1, <1>2 DEF Init, TypeInv, TypeOK, Stats

\* Every step keeps the types and the capacities.
LEMMA TypeNext == TypeInv /\ [Next]_vars => TypeInv'
<1>. SUFFICES ASSUME TypeInv, [Next]_vars  PROVE TypeInv'
  OBVIOUS
<1>. USE DEF TypeInv, TypeOK, Stats, clients, counters
<1>1. IsFiniteSet(end)
  BY FS_Subset, MetricsAssumption
<1>2. ASSUME NEW t \in Task, Begin(t)  PROVE TypeInv'
  <2>1. IsFiniteSet(load1') /\ Cardinality(load1') <= Cap
    BY <1>2, SendFits DEF Begin
  <2>. QED  BY <1>2, <2>1 DEF Begin
<1>3. ASSUME NEW t \in Task, End(t)  PROVE TypeInv'
  <2>1. Cardinality(end') <= Cap
    BY <1>1, <1>3, SendFits DEF End
  <2>. QED  BY <1>3, <2>1 DEF End
<1>4. ASSUME NEW s \in Stopper, Stop(s)  PROVE TypeInv'
  <2>1. IsFiniteSet(load1') /\ Cardinality(load1') <= Cap
    BY <1>4, SendFits DEF Stop
  <2>. QED  BY <1>4, <2>1 DEF Stop
<1>5. ASSUME NEW r \in Reader, Ask(r)  PROVE TypeInv'
  <2>1. IsFiniteSet(read') /\ Cardinality(read') <= Cap
    BY <1>5, SendFits DEF Ask
  <2>. QED  BY <1>5, <2>1 DEF Ask
<1>6. ASSUME NEW r \in Reader, Offer(r)  PROVE TypeInv'
  <2>1. IsFiniteSet(read') /\ Cardinality(read') <= Cap
    BY <1>6, TakeFits DEF Offer
  <2>. QED  BY <1>6, <2>1 DEF Offer, To
<1>10. ASSUME NEW r \in Reader, Receive(r)  PROVE TypeInv'
  BY <1>10 DEF Receive
<1>7. ASSUME NEW t \in Task, CollectEnd(t)  PROVE TypeInv'
  <2>1. Cardinality(end') <= Cap
    BY <1>1, <1>7, TakeFits DEF CollectEnd
  <2>2. bytes' \in Nat
    BY <1>7, MetricsAssumption DEF CollectEnd
  <2>. QED  BY <1>7, <2>1, <2>2 DEF CollectEnd
<1>8. ASSUME NEW m \in Task \cup Stopper, CollectLoad(m)  PROVE TypeInv'
  <2>1. IsFiniteSet(load1') /\ Cardinality(load1') <= Cap
    BY <1>8, TakeFits DEF CollectLoad
  <2>. QED  BY <1>8, <2>1 DEF CollectLoad
<1>9. CASE UNCHANGED vars
  BY <1>9 DEF vars
<1>. QED
  BY <1>2, <1>3, <1>4, <1>5, <1>6, <1>7, <1>8, <1>9, <1>10 DEF Next

\* No channel ever holds more than its capacity, however many tasks, readers and
\* stops there are (prometheus.go:37-48).
THEOREM TypeCorrect == Spec => []TypeOK
<1>1. TypeInv => TypeOK
  BY DEF TypeInv
<1>. QED  BY TypeInit, TypeNext, <1>1, PTL DEF Spec

-----------------------------------------------------------------------------
(* The load.                                                               *)

\* There are as many announced and counted tasks as a number says.
LEMMA TasksFinite ==
  /\ IsFiniteSet(Loaded) /\ IsFiniteSet(Counted)
  /\ Cardinality(Loaded) \in Nat /\ Cardinality(Counted) \in Nat
  BY FS_Subset, FS_CardinalityType, MetricsAssumption DEF Loaded, Counted

\* One more or one fewer, in a finite set.
LEMMA OneMore ==
  ASSUME NEW S, NEW x, IsFiniteSet(S), x \notin S
  PROVE  Cardinality(S \cup {x}) = Cardinality(S) + 1
  BY FS_AddElement

\* What the counters, the channels and the tasks are to each other.
Channels ==
  /\ st \in [Task -> {"new", "running", "ended"}]
  /\ load1 \subseteq Task \cup Stopper
  /\ end \subseteq {t \in Task : st[t] = "ended"}
  /\ load1 \cap Task \subseteq {t \in Task : st[t] # "new"}
  /\ stopped \subseteq Stopper
  /\ load \in Int

LoadInv == Channels /\ LoadBalance

\* The counters start in balance.
LEMMA LoadInit == Init => LoadInv
<1>. SUFFICES ASSUME Init  PROVE LoadInv
  OBVIOUS
<1>1. Loaded = {} /\ Counted = {}
  BY DEF Init, Loaded, Counted
<1>. QED
  BY <1>1, FS_EmptySet DEF Init, LoadInv, Channels, LoadBalance

\* Every step keeps the balance: an announcement and an end each change one side of
\* it and the counter alike, whichever the collector takes first.
LEMMA LoadNext == LoadInv /\ [Next]_vars => LoadInv'
<1>. SUFFICES ASSUME LoadInv, [Next]_vars  PROVE LoadInv'
  OBVIOUS
<1>. USE DEF LoadInv, Channels
<1>1. ASSUME NEW t \in Task, Begin(t)  PROVE LoadInv'
  <2>1. Channels'
    BY <1>1 DEF Begin, counters
  <2>2. Loaded' = Loaded /\ Counted' = Counted /\ load' = load
    BY <1>1 DEF Begin, counters, Loaded, Counted
  <2>. QED  BY <2>1, <2>2 DEF LoadBalance
<1>2. ASSUME NEW t \in Task, End(t)  PROVE LoadInv'
  <2>1. Channels'
    BY <1>2 DEF End, counters
  <2>2. Loaded' = Loaded /\ Counted' = Counted /\ load' = load
    BY <1>2 DEF End, counters, Loaded, Counted
  <2>. QED  BY <2>1, <2>2 DEF LoadBalance
<1>3. ASSUME NEW s \in Stopper, Stop(s)  PROVE LoadInv'
  <2>1. Channels'
    BY <1>3, MetricsAssumption DEF Stop, counters
  <2>2. Loaded' = Loaded /\ Counted' = Counted /\ load' = load
    BY <1>3, MetricsAssumption DEF Stop, counters, Loaded, Counted
  <2>. QED  BY <2>1, <2>2 DEF LoadBalance
<1>4. ASSUME NEW r \in Reader, Ask(r) \/ Offer(r) \/ Receive(r)  PROVE LoadInv'
  BY <1>4 DEF Ask, Offer, Receive, clients, counters, LoadBalance, Loaded, Counted
<1>5. ASSUME NEW t \in Task, CollectEnd(t)  PROVE LoadInv'
  <2>1. Channels'
    BY <1>5 DEF CollectEnd, clients
  <2>2. Loaded' = Loaded /\ Counted' = Counted \cup {t} /\ t \notin Counted /\ load' = load - 1
    BY <1>5 DEF CollectEnd, clients, Loaded, Counted
  <2>3. Cardinality(Counted') = Cardinality(Counted) + 1
    BY <2>2, OneMore, TasksFinite
  <2>. QED  BY <2>1, <2>2, <2>3, TasksFinite DEF LoadBalance
<1>6. ASSUME NEW m \in Task \cup Stopper, CollectLoad(m)  PROVE LoadInv'
  <2>1. Channels'
    BY <1>6 DEF CollectLoad, clients
  <2>2. Counted' = Counted
    BY <1>6 DEF CollectLoad, clients, Counted
  <2>3. CASE m \in Task
    <3>1. Loaded' = Loaded \cup {m} /\ m \notin Loaded /\ load' = load + 1
      BY <1>6, <2>3 DEF CollectLoad, clients, Loaded
    <3>2. Cardinality(Loaded') = Cardinality(Loaded) + 1
      BY <3>1, OneMore, TasksFinite
    <3>. QED  BY <2>1, <2>2, <3>1, <3>2, TasksFinite DEF LoadBalance
  <2>4. CASE m \notin Task
    <3>1. Loaded' = Loaded /\ load' = load
      BY <1>6, <2>4 DEF CollectLoad, clients, Loaded
    <3>. QED  BY <2>1, <2>2, <3>1 DEF LoadBalance
  <2>. QED  BY <2>3, <2>4
<1>7. CASE UNCHANGED vars
  BY <1>7 DEF vars, LoadBalance, Loaded, Counted
<1>. QED
  BY <1>1, <1>2, <1>3, <1>4, <1>5, <1>6, <1>7 DEF Next

\* The load is the announced tasks less the ended ones, as the collector has
\* heard of them, whatever order its select takes the messages in
\* (prometheus.go:55-68).
THEOREM LoadIsBalanced == Spec => []LoadBalance
<1>1. LoadInv => LoadBalance
  BY DEF LoadInv
<1>. QED  BY LoadInit, LoadNext, <1>1, PTL DEF Spec

\* And so it is zero again whenever nobody is at work and nothing is waiting.
THEOREM LoadReturnsToZero == Spec => [](Quiet => load = 0)
<1>1. LoadInv /\ Quiet => load = 0
  <2>. SUFFICES ASSUME LoadInv, Quiet  PROVE load = 0
    OBVIOUS
  <2>1. Loaded = Counted
    BY DEF LoadInv, Channels, Quiet, Loaded, Counted
  <2>. QED  BY <2>1, TasksFinite DEF LoadInv, LoadBalance
<1>. QED  BY LoadInit, LoadNext, <1>1, PTL DEF Spec

-----------------------------------------------------------------------------
(* The sum of the sizes of a set of tasks.                                 *)

\* The bytes of a set of tasks, as Settled adds them.
Bytes(S) == FoldFunctionOnSet(+, 0, Size, S)

\* The same bytes one by one.
Grains(S) == {g \in Task \X Nat : g[1] \in S /\ g[2] \in 1 .. Size[g[1]]}

\* A task more is its bytes more.
LEMMA GrainsAdd ==
  ASSUME NEW S \in SUBSET Task, NEW t \in Task \ S, IsFiniteSet(Grains(S))
  PROVE  /\ IsFiniteSet(Grains(S \cup {t}))
         /\ Cardinality(Grains(S \cup {t})) = Size[t] + Cardinality(Grains(S))
<1>1. Size[t] \in Nat
  BY MetricsAssumption
<1>2. /\ IsFiniteSet({t} \X (1 .. Size[t]))
      /\ Cardinality({t} \X (1 .. Size[t])) = Size[t]
  <2>1. IsFiniteSet(1 .. Size[t]) /\ Cardinality(1 .. Size[t]) = Size[t]
    BY <1>1, FS_Interval
  <2>2. IsFiniteSet({t}) /\ Cardinality({t}) = 1
    BY FS_Singleton
  <2>3. /\ IsFiniteSet({t} \X (1 .. Size[t]))
        /\ Cardinality({t} \X (1 .. Size[t])) = Cardinality({t}) * Cardinality(1 .. Size[t])
    BY <2>1, <2>2, FS_Product
  <2>. QED  BY <2>1, <2>2, <2>3, <1>1
<1>3. Grains(S \cup {t}) = Grains(S) \cup ({t} \X (1 .. Size[t]))
  BY <1>1 DEF Grains
<1>4. Grains(S) \cap ({t} \X (1 .. Size[t])) = {}
  BY DEF Grains
<1>5. /\ Cardinality(Grains(S) \cap ({t} \X (1 .. Size[t]))) = 0
      /\ Cardinality(Grains(S)) \in Nat
  BY <1>4, FS_EmptySet, FS_CardinalityType
<1>6. /\ IsFiniteSet(Grains(S) \cup ({t} \X (1 .. Size[t])))
      /\ Cardinality(Grains(S) \cup ({t} \X (1 .. Size[t]))) =
           Cardinality(Grains(S)) + Cardinality({t} \X (1 .. Size[t]))
             - Cardinality(Grains(S) \cap ({t} \X (1 .. Size[t])))
  BY <1>2, FS_Union
<1>7. /\ IsFiniteSet(Grains(S \cup {t}))
      /\ Cardinality(Grains(S \cup {t})) = Cardinality(Grains(S)) + Size[t] - 0
  BY <1>2, <1>3, <1>5, <1>6
<1>. QED
  BY <1>1, <1>5, <1>7

\* What the fold is: some function that satisfies its recursion.
LEMMA BytesIter ==
  ASSUME NEW S
  PROVE  Bytes(S) =
    (CHOOSE iter : iter = [s \in SUBSET S |-> IF s = {} THEN 0
        ELSE Size[CHOOSE x \in s : TRUE] + iter[s \ {CHOOSE x \in s : TRUE}]])[S]
  BY DEF Bytes, FoldFunctionOnSet, MapThenFoldSet

\* Good holds of a set if it holds of all that are smaller.
Hereditary(S, Good) ==
  \A s \in SUBSET S : (\A r \in SUBSET s : r # s => r \in Good) => s \in Good

\* Then it holds of every set: of those for which it did not, none would be least.
LEMMA AllSubsets ==
  ASSUME NEW S \in SUBSET Task, NEW Good, Hereditary(S, Good)
  PROVE  SUBSET S \subseteq Good
<1>1. IsFiniteSet(S)
  BY FS_Subset, MetricsAssumption
<1>2. IsWellFoundedOn(StrictSubsetOrdering(S), SUBSET S)
  BY <1>1, FS_StrictSubsetOrderingWellFounded, FS_FiniteSubsetsOfFinite
<1>. DEFINE Bad == (SUBSET S) \ Good
<1>3. SUFFICES ASSUME Bad # {}  PROVE FALSE
  OBVIOUS
<1>4. PICK s \in Bad : \A r \in Bad : ~ (<<r, s>> \in StrictSubsetOrdering(S))
  <2>1. Bad \subseteq SUBSET S
    OBVIOUS
  <2>. HIDE DEF Bad
  <2>. QED  BY <1>2, <1>3, <2>1, WFMin
<1>5. \A r \in SUBSET s : r # s => r \in Good
  <2>. SUFFICES ASSUME NEW r \in SUBSET s, r # s, r \notin Good  PROVE FALSE
    OBVIOUS
  <2>1. r \in Bad /\ s \in SUBSET S /\ r \in SUBSET S
    OBVIOUS
  <2>2. <<r, s>> \in StrictSubsetOrdering(S)
    BY <2>1 DEF StrictSubsetOrdering
  <2>. QED  BY <1>4, <2>1, <2>2
<1>. QED
  BY <1>5 DEF Hereditary

\* The element the fold takes next.
Picked(s) == CHOOSE x \in s : TRUE

\* The sets of tasks whose bytes can be counted.
GoodGrains == {s \in SUBSET Task : IsFiniteSet(Grains(s))}

\* They all are.
LEMMA GrainsFinite ==
  ASSUME NEW S \in SUBSET Task
  PROVE  IsFiniteSet(Grains(S)) /\ Cardinality(Grains(S)) \in Nat
<1>1. ASSUME NEW s \in SUBSET S, \A r \in SUBSET s : r # s => r \in GoodGrains
      PROVE  s \in GoodGrains
  <2>1. CASE s = {}
    BY <2>1, FS_EmptySet DEF GoodGrains, Grains
  <2>2. CASE s # {}
    <3>1. PICK x \in s : TRUE
      BY <2>2
    <3>2. s \ {x} \in GoodGrains /\ x \in Task \ (s \ {x}) /\ s \ {x} \in SUBSET Task
      BY <1>1, <3>1
    <3>3. IsFiniteSet(Grains((s \ {x}) \cup {x}))
      BY <3>2, GrainsAdd DEF GoodGrains
    <3>4. (s \ {x}) \cup {x} = s
      BY <3>1
    <3>. QED  BY <3>3, <3>4 DEF GoodGrains
  <2>. QED  BY <2>1, <2>2
<1>2. SUBSET S \subseteq GoodGrains
  <2>1. Hereditary(S, GoodGrains)
    BY <1>1 DEF Hereditary
  <2>. QED  BY <2>1, AllSubsets
<1>3. IsFiniteSet(Grains(S))
  BY <1>2 DEF GoodGrains
<1>. QED
  BY <1>3, FS_CardinalityType

\* The number of grains satisfies the recursion of the fold.
LEMMA GrainsPicked ==
  ASSUME NEW S \in SUBSET Task, S # {}
  PROVE  Cardinality(Grains(S)) = Size[Picked(S)] + Cardinality(Grains(S \ {Picked(S)}))
<1>1. Picked(S) \in S
  BY DEF Picked
<1>. DEFINE x == Picked(S)
<1>. HIDE DEF x
<1>2. x \in S
  BY <1>1 DEF x
<1>3. S \ {x} \in SUBSET Task /\ x \in Task \ (S \ {x}) /\ (S \ {x}) \cup {x} = S
  BY <1>2
<1>4. IsFiniteSet(Grains(S \ {x}))
  BY <1>3, GrainsFinite
<1>5. Cardinality(Grains((S \ {x}) \cup {x})) = Size[x] + Cardinality(Grains(S \ {x}))
  BY <1>3, <1>4, GrainsAdd
<1>. QED
  BY <1>3, <1>5 DEF x

\* So there is such a function, and any that does is the number of grains.
LEMMA BytesAreGrains ==
  ASSUME NEW S \in SUBSET Task
  PROVE  Bytes(S) = Cardinality(Grains(S))
<1>. DEFINE Iter(g) == [s \in SUBSET S |->
                          IF s = {} THEN 0 ELSE Size[Picked(s)] + g[s \ {Picked(s)}]]
            grains  == [s \in SUBSET S |-> Cardinality(Grains(s))]
            iter    == CHOOSE g : g = Iter(g)
<1>1. grains = Iter(grains)
  <2>1. ASSUME NEW s \in SUBSET S
        PROVE  grains[s] = IF s = {} THEN 0 ELSE Size[Picked(s)] + grains[s \ {Picked(s)}]
    <3>1. CASE s = {}
      <4>1. Grains(s) = {}
        BY <3>1 DEF Grains
      <4>. QED  BY <3>1, <4>1, FS_EmptySet
    <3>2. CASE s # {}
      <4>1. Cardinality(Grains(s)) = Size[Picked(s)] + Cardinality(Grains(s \ {Picked(s)}))
        BY <3>2, GrainsPicked
      <4>2. s \ {Picked(s)} \in SUBSET S
        OBVIOUS
      <4>. QED  BY <3>2, <4>1, <4>2
    <3>. QED  BY <3>1, <3>2
  <2>. QED  BY <2>1
<1>2. iter = Iter(iter)
  <2>. HIDE DEF Iter, grains
  <2>. QED  BY <1>1
<1>3. Bytes(S) = iter[S]
  BY BytesIter DEF Picked
<1>. DEFINE Same == {s \in SUBSET S : iter[s] = Cardinality(Grains(s))}
<1>4. ASSUME NEW s \in SUBSET S, \A r \in SUBSET s : r # s => r \in Same
      PROVE  s \in Same
  <2>. HIDE DEF iter
  <2>1. iter[s] = IF s = {} THEN 0 ELSE Size[Picked(s)] + iter[s \ {Picked(s)}]
    BY <1>2
  <2>2. CASE s = {}
    <3>1. Grains(s) = {}
      BY <2>2 DEF Grains
    <3>. QED  BY <2>1, <2>2, <3>1, FS_EmptySet
  <2>3. CASE s # {}
    <3>1. Picked(s) \in s
      BY <2>3 DEF Picked
    <3>2. s \ {Picked(s)} \in Same
      BY <1>4, <3>1
    <3>3. Cardinality(Grains(s)) = Size[Picked(s)] + Cardinality(Grains(s \ {Picked(s)}))
      BY <2>3, GrainsPicked
    <3>. QED  BY <2>1, <2>3, <3>2, <3>3
  <2>. QED  BY <2>2, <2>3
<1>5. SUBSET S \subseteq Same
  <2>. HIDE DEF Same
  <2>1. Hereditary(S, Same)
    BY <1>4 DEF Hereditary
  <2>. QED  BY <2>1, AllSubsets
<1>. QED
  BY <1>3, <1>5

\* The sum of no sizes is zero, and one more task adds its size to it.
LEMMA BytesAdd ==
  /\ Bytes({}) = 0
  /\ \A S \in SUBSET Task : Bytes(S) \in Nat
  /\ \A S \in SUBSET Task : \A t \in Task \ S : Bytes(S \cup {t}) = Bytes(S) + Size[t]
<1>1. Bytes({}) = 0
  <2>1. Grains({}) = {}
    BY DEF Grains
  <2>. QED  BY <2>1, BytesAreGrains, FS_EmptySet
<1>2. ASSUME NEW S \in SUBSET Task  PROVE Bytes(S) \in Nat
  BY BytesAreGrains, GrainsFinite
<1>3. ASSUME NEW S \in SUBSET Task, NEW t \in Task \ S
      PROVE  Bytes(S \cup {t}) = Bytes(S) + Size[t]
  <2>1. /\ Bytes(S) = Cardinality(Grains(S)) /\ Cardinality(Grains(S)) \in Nat
        /\ IsFiniteSet(Grains(S))
    BY BytesAreGrains, GrainsFinite
  <2>2. S \cup {t} \in SUBSET Task
    OBVIOUS
  <2>3. Bytes(S \cup {t}) = Cardinality(Grains(S \cup {t}))
    BY <2>2, BytesAreGrains
  <2>4. Cardinality(Grains(S \cup {t})) = Size[t] + Cardinality(Grains(S))
    BY <2>1, GrainsAdd
  <2>5. Size[t] \in Nat
    BY MetricsAssumption
  <2>. QED  BY <2>1, <2>3, <2>4, <2>5
<1>. QED
  BY <1>1, <1>2, <1>3

-----------------------------------------------------------------------------
(* The bytes, and what a reader is told of them.                           *)

\* The bytes counted are those of the tasks whose end the collector has taken.
BytesInv == bytes = Bytes(Counted)

\* One answer is sent at a time.  A reader to whom it is being sent is asking and has
\* no other question waiting, and the answer is still true: nothing is counted until
\* it is taken.  What was counted when a reader asked, or when it was told last, still
\* is.
ReportInv ==
  /\ \A answer, other \in sending : answer = other
  /\ \A answer \in sending : /\ asked[answer.to] = "asking" /\ answer.to \notin read
                              /\ answer.stats.bytes = bytes
  /\ \A r \in read : asked[r] = "asking"
  /\ \A r \in Reader : report[r].bytes <= bytes
  /\ \A r \in Reader : asked[r] = "asking" => floor[r] <= bytes
  /\ ReportInInterval

CountInv == TypeInv /\ LoadInv /\ BytesInv /\ ReportInv

\* Nothing is counted at first, and nobody has been told anything.
LEMMA CountInit == Init => CountInv
<1>. SUFFICES ASSUME Init  PROVE CountInv
  OBVIOUS
<1>1. TypeInv /\ LoadInv
  BY TypeInit, LoadInit
<1>2. Counted = {}
  BY DEF Init, Counted
<1>3. BytesInv
  BY <1>2, BytesAdd DEF Init, BytesInv
<1>. QED
  BY <1>1, <1>3 DEF CountInv, Init, ReportInv, ReportInInterval

\* The one way bytes change: a task that ended and was not counted is, with its size.
Counts(t) == /\ st[t] = "ended" /\ t \notin Counted
             /\ Counted' = Counted \cup {t}
             /\ bytes' = bytes + Size[t]
             /\ UNCHANGED st

\* A step counts a task that way, or counts none.
LEMMA CountsOne ==
  ASSUME LoadInv, [Next]_vars
  PROVE  \/ UNCHANGED <<bytes, Counted>>
         \/ \E t \in Task : Counts(t) /\ sending = {} /\ UNCHANGED <<asked, read, sending, report, floor>>
<1>. USE DEF LoadInv, Channels, Counted
<1>1. ASSUME NEW t \in Task, Begin(t)  PROVE UNCHANGED <<bytes, Counted>>
  BY <1>1 DEF Begin, counters
<1>2. ASSUME NEW t \in Task, End(t)  PROVE UNCHANGED <<bytes, Counted>>
  BY <1>2 DEF End, counters
<1>3. ASSUME NEW s \in Stopper, Stop(s)  PROVE UNCHANGED <<bytes, Counted>>
  BY <1>3 DEF Stop, counters
<1>4. ASSUME NEW r \in Reader, Ask(r) \/ Offer(r) \/ Receive(r)
      PROVE  UNCHANGED <<bytes, Counted>>
  BY <1>4 DEF Ask, Offer, Receive, clients, counters
<1>5. ASSUME NEW t \in Task, CollectEnd(t)
      PROVE  Counts(t) /\ sending = {} /\ UNCHANGED <<asked, read, sending, report, floor>>
  BY <1>5 DEF CollectEnd, Free, clients, Counts
<1>6. ASSUME NEW m \in Task \cup Stopper, CollectLoad(m)  PROVE UNCHANGED <<bytes, Counted>>
  BY <1>6 DEF CollectLoad, clients
<1>7. CASE UNCHANGED vars
  BY <1>7 DEF vars
<1>. QED
  BY <1>1, <1>2, <1>3, <1>4, <1>5, <1>6, <1>7 DEF Next

\* Every step keeps the sum of what was counted.
LEMMA BytesNext == TypeInv /\ LoadInv /\ BytesInv /\ [Next]_vars => BytesInv'
<1>. SUFFICES ASSUME TypeInv, LoadInv, BytesInv, [Next]_vars  PROVE BytesInv'
  OBVIOUS
<1>1. CASE UNCHANGED <<bytes, Counted>>
  BY <1>1 DEF BytesInv
<1>2. ASSUME NEW t \in Task, Counts(t)  PROVE BytesInv'
  <2>1. Counted \in SUBSET Task /\ t \in Task \ Counted
    BY <1>2 DEF Counted, Counts
  <2>2. Bytes(Counted \cup {t}) = Bytes(Counted) + Size[t]
    BY <2>1, BytesAdd
  <2>. QED  BY <1>2, <2>2 DEF BytesInv, Counts
<1>. QED
  BY <1>1, <1>2, CountsOne

\* Bytes only grow.
LEMMA BytesGrow ==
  ASSUME TypeInv, LoadInv, [Next]_vars
  PROVE  bytes \in Nat /\ bytes' \in Nat /\ bytes <= bytes'
<1>1. bytes \in Nat
  BY DEF TypeInv, TypeOK
<1>2. \A t \in Task : Size[t] \in Nat
  BY MetricsAssumption
<1>. QED
  BY <1>1, <1>2, CountsOne DEF Counts

\* What a reader is told lies between what was counted when it asked and what has been
\* counted since, whichever case of its select the collector takes.
LEMMA ReportNext == TypeInv /\ LoadInv /\ ReportInv /\ [Next]_vars => ReportInv'
<1>. SUFFICES ASSUME TypeInv, LoadInv, ReportInv, [Next]_vars  PROVE ReportInv'
  OBVIOUS
<1>1. bytes \in Nat /\ bytes' \in Nat /\ bytes <= bytes'
  BY BytesGrow
<1>2. \A r \in Reader : floor[r] \in Nat /\ report[r].bytes \in Nat
  BY DEF TypeInv, TypeOK, Stats
<1>3. asked \in [Reader -> {"idle", "asking", "answered"}] /\ read \subseteq Reader
      /\ floor \in [Reader -> Nat] /\ report \in [Reader -> Stats]
      /\ sending \subseteq [to : Reader, stats : Stats]
  BY DEF TypeInv, TypeOK
<1>4. CASE /\ bytes' = bytes \/ sending = {}
           /\ UNCHANGED <<asked, read, sending, report, floor>>
  BY <1>1, <1>2, <1>3, <1>4 DEF ReportInv, ReportInInterval
<1>5. ASSUME NEW r \in Reader, Ask(r)  PROVE ReportInv'
  BY <1>1, <1>2, <1>3, <1>5 DEF ReportInv, ReportInInterval, Ask, counters
<1>6. ASSUME NEW r \in Reader, Offer(r)  PROVE ReportInv'
  BY <1>1, <1>2, <1>3, <1>6 DEF ReportInv, ReportInInterval, Offer, Free, To, clients, counters
<1>7. ASSUME NEW r \in Reader, Receive(r)  PROVE ReportInv'
  <2>1. PICK answer \in sending :
          /\ answer.to = r /\ sending' = sending \ {answer}
          /\ report' = [report EXCEPT ![r] = answer.stats]
          /\ asked' = [asked EXCEPT ![r] = "answered"]
          /\ UNCHANGED <<read, counters, floor>>
    BY <1>7 DEF Receive
  <2>2. answer.stats.bytes = bytes /\ floor[r] <= bytes /\ r \notin read
    BY <2>1 DEF ReportInv
  <2>3. sending' = {}
    BY <2>1 DEF ReportInv
  <2>. QED
    BY <1>1, <1>2, <1>3, <2>1, <2>2, <2>3 DEF ReportInv, ReportInInterval, counters
<1>8. CASE UNCHANGED <<bytes, asked, read, sending, report, floor>>
  BY <1>4, <1>8
<1>9. ASSUME NEW t \in Task, CollectEnd(t)  PROVE ReportInv'
  BY <1>4, <1>9 DEF CollectEnd, Free, clients
<1>. QED
  BY <1>5, <1>6, <1>7, <1>8, <1>9
     DEF Next, vars, clients, counters, Begin, End, Stop, CollectLoad

\* Every step keeps the counters and the reports right.
LEMMA CountNext == CountInv /\ [Next]_vars => CountInv'
  BY TypeNext, LoadNext, BytesNext, ReportNext DEF CountInv

\* A reader misses nothing that was counted before it asked, and is told of nothing
\* that was not (prometheus.go:69-77, 117-123).
THEOREM ReportsInInterval == Spec => []ReportInInterval
<1>1. CountInv => ReportInInterval
  BY DEF CountInv, ReportInv
<1>. QED  BY CountInit, CountNext, <1>1, PTL DEF Spec

\* The counters that readers are told of never go back, from one reader to the next
\* or for one that asks again (prometheus.go:69-77, 143-158).
THEOREM CountersNeverGoBack == Spec => NeverGoesBack
<1>1. ASSUME CountInv, [Next]_vars,
             NEW r \in Reader, NEW s \in Reader, asked[r] = "asking", asked'[r] = "answered"
      PROVE  report[s].bytes <= report'[r].bytes
  <2>1. report[s].bytes <= bytes /\ report \in [Reader -> Stats]
        /\ asked \in [Reader -> {"idle", "asking", "answered"}]
    BY <1>1 DEF CountInv, ReportInv, TypeInv, TypeOK
  <2>2. Receive(r)
    BY <1>1, <2>1 DEF Next, vars, clients, Begin, End, Stop, CollectLoad, CollectEnd, Ask,
                      Offer, Receive
  <2>3. PICK answer \in sending : report' = [report EXCEPT ![r] = answer.stats]
    BY <2>2 DEF Receive
  <2>4. answer.stats.bytes = bytes
    BY <1>1, <2>3 DEF CountInv, ReportInv
  <2>. QED  BY <2>1, <2>3, <2>4
<1>2. CountInv /\ [Next]_vars =>
        [\A r, s \in Reader : asked[r] = "asking" /\ asked'[r] = "answered"
           => report[s].bytes <= report'[r].bytes]_vars
  BY <1>1
<1>. QED  BY CountInit, CountNext, <1>2, PTL DEF Spec, NeverGoesBack

\* Once nobody is at work and the channels are empty, the load is zero and every
\* task's bytes were counted, once (prometheus.go:55-68).
THEOREM Settles == Spec => []Settled
<1>1. CountInv => Settled
  <2>. SUFFICES ASSUME CountInv, Quiet
                PROVE  /\ load = 0
                       /\ bytes = FoldFunctionOnSet(+, 0, Size, {t \in Task : st[t] = "ended"})
    BY DEF Settled
  <2>1. Loaded = Counted /\ Counted = {t \in Task : st[t] = "ended"}
    BY DEF CountInv, LoadInv, Channels, Quiet, Loaded, Counted
  <2>2. load = 0
    BY <2>1, TasksFinite DEF CountInv, LoadInv, LoadBalance
  <2>. QED  BY <2>1, <2>2 DEF CountInv, BytesInv, Bytes
<1>. QED  BY CountInit, CountNext, <1>1, PTL DEF Spec

-----------------------------------------------------------------------------
(* The collector does what Meter says.                                     *)

\* No task has begun.
LEMMA MeterInit == Init => Metered!Init
  BY DEF Init, Metered!Init, Counted

\* A task that begins, ends or is counted takes that step of Meter, and whatever else
\* the channels, readers and stops do is none.
LEMMA MeterNext == TypeInv /\ LoadInv /\ [Next]_vars => [Metered!Next]_(Metered!vars)
<1>. SUFFICES ASSUME TypeInv, LoadInv, [Next]_vars  PROVE [Metered!Next]_(Metered!vars)
  OBVIOUS
<1>. DEFINE Phase == [t \in Task |-> IF t \in Counted THEN "counted" ELSE st[t]]
<1>0. /\ st \in [Task -> {"new", "running", "ended"}]
      /\ end \subseteq {t \in Task : st[t] = "ended"}
  BY DEF LoadInv, Channels
<1>1. ASSUME NEW t \in Task, Begin(t)  PROVE Metered!Begin(t)
  <2>1. Counted' = Counted /\ t \notin Counted /\ bytes' = bytes
    BY <1>0, <1>1 DEF Begin, Counted, counters
  <2>2. st[t] = "new" /\ st' = [st EXCEPT ![t] = "running"]
    BY <1>1 DEF Begin
  <2>. QED  BY <1>0, <2>1, <2>2 DEF Metered!Begin, Metered!Move
<1>2. ASSUME NEW t \in Task, End(t)  PROVE Metered!End(t)
  <2>1. Counted' = Counted /\ t \notin Counted /\ bytes' = bytes
    BY <1>0, <1>2 DEF End, Counted, counters
  <2>2. st[t] = "running" /\ st' = [st EXCEPT ![t] = "ended"]
    BY <1>2 DEF End
  <2>. QED  BY <1>0, <2>1, <2>2 DEF Metered!End, Metered!Move
<1>3. ASSUME NEW t \in Task, CollectEnd(t)  PROVE Metered!Count(t)
  <2>1. /\ Counted' = Counted \cup {t} /\ t \notin Counted
        /\ bytes' = bytes + Size[t] /\ st' = st /\ st[t] = "ended"
    BY <1>0, <1>3 DEF CollectEnd, Counted, clients
  <2>. QED  BY <1>0, <2>1 DEF Metered!Count, Metered!Move
<1>4. CASE UNCHANGED <<st, end, bytes>>
  BY <1>4 DEF Metered!vars, Counted
<1>. QED
  BY <1>1, <1>2, <1>3, <1>4
     DEF Next, vars, clients, counters, Stop, Ask, Offer, Receive, CollectLoad, Metered!Next

\* The channels lose, repeat and invent nothing: every task is counted at most once,
\* after it ended, with its bytes, as Meter has it (prometheus.go:52-86).  That it is
\* counted in the end is Meter's fairness, and TLC's.
THEOREM MetersSafely == Spec => Metered!Init /\ [][Metered!Next]_(Metered!vars)
<1>. QED  BY CountInit, CountNext, MeterInit, MeterNext, PTL DEF Spec, CountInv
=============================================================================
