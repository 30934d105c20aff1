------------------------- MODULE EventReplayProofs -------------------------
(***************************************************************************)
(* Theorems about the row of an incident and the replay of its log, for    *)
(* any number of transactions, any severities and any length of the log.   *)
(*                                                                         *)
(* 1. ApplyEvents, a fold, over one more event is one more step: the fold  *)
(*    chooses a function on sets of indexes, which exists (StepsExist) and *)
(*    is unique (StepsUnique), each by a least counterexample.             *)
(* 2. The events of a transaction get the numbers that follow the log, and *)
(*    their fold is Effect, which is known column by column.               *)
(* 3. The columns that a commit writes and those of the replay then change *)
(*    alike, although the row is written from what was read before: a      *)
(*    column that the transaction does not set keeps the row's value, and  *)
(*    one that it sets gets a number that nothing has had before.          *)
(***************************************************************************)
EXTENDS EventReplay, FiniteSetTheorems, WellFoundedInduction, TLAPS

(* Folding events.                                                         *)

\* A set of numbers that is not empty has a least element: induction below is
\* by a least counterexample.
LEMMA LeastNat ==
    ASSUME NEW T \in SUBSET Nat, T # {}
    PROVE  \E m \in T : \A k \in T : m <= k
PROOF
  <1>1. PICK m \in T : \A k \in T : ~ (<<k, m>> \in OpToRel(<, Nat))
    BY NatLessThanWellFounded, WFMin
  <1>2. \A k \in T : ~ (k < m)
    BY <1>1 DEF OpToRel
  <1> QED
    BY <1>2

\* Max, which FoldLeft takes the next index with.
LEMMA LargestNumber ==
    ASSUME NEW n \in Nat, NEW X \in SUBSET (1 .. n), X # {}
    PROVE  /\ Max(X) \in X
           /\ \A x \in X : x <= Max(X)
PROOF
  <1> DEFINE T == {n - x : x \in X}
  <1>1. T \in SUBSET Nat /\ T # {}
    <2>1. \A x \in X : x \in Int /\ x <= n
      OBVIOUS
    <2>2. \A x \in X : n - x \in Nat
      BY <2>1
    <2> QED
      BY <2>2
  <1> HIDE DEF T
  <1>2. PICK m \in T : \A k \in T : m <= k
    BY <1>1, LeastNat
  <1>3. PICK z \in X : m = n - z
    BY DEF T
  <1>4. \A x \in X : z >= x
    <2> SUFFICES ASSUME NEW x \in X PROVE z >= x
      OBVIOUS
    <2>1. n - x \in T
      BY DEF T
    <2> QED
      BY <2>1, <1>2, <1>3
  <1>5. \E y \in X : \A x \in X : y >= x
    BY <1>4
  <1> QED
    BY <1>5 DEF Max

\* The function that the fold of s[1], ..., s[n] chooses.
Steps(base, s, n, g) ==
    g = [X \in SUBSET (1 .. n) |->
           IF X = {} THEN base ELSE ApplyEvent(g[X \ {Max(X)}], s[Max(X)])]

LEMMA StepsBelow ==
    ASSUME NEW base, NEW s, NEW n \in Nat, NEW g, Steps(base, s, n + 1, g)
    PROVE  Steps(base, s, n, [X \in SUBSET (1 .. n) |-> g[X]])
PROOF
  <1> DEFINE h == [X \in SUBSET (1 .. n) |-> g[X]]
  <1> SUFFICES ASSUME NEW X \in SUBSET (1 .. n)
               PROVE  h[X] = IF X = {} THEN base ELSE ApplyEvent(h[X \ {Max(X)}], s[Max(X)])
    BY DEF Steps
  <1>1. X \in SUBSET (1 .. n + 1) /\ X \ {Max(X)} \in SUBSET (1 .. n)
    BY 1 .. n \subseteq 1 .. n + 1
  <1>2. h[X \ {Max(X)}] = g[X \ {Max(X)}] /\ h[X] = g[X]
    BY <1>1
  <1>3. g[X] = IF X = {} THEN base ELSE ApplyEvent(g[X \ {Max(X)}], s[Max(X)])
    BY <1>1 DEF Steps
  <1> QED
    BY <1>2, <1>3

LEMMA StepsAbove ==
    ASSUME NEW base, NEW s, NEW n \in Nat, NEW h, Steps(base, s, n, h)
    PROVE  \E g : Steps(base, s, n + 1, g)
PROOF
  <1> DEFINE g == [X \in SUBSET (1 .. n + 1) |->
                     IF n + 1 \in X THEN ApplyEvent(h[X \ {n + 1}], s[n + 1]) ELSE h[X]]
  <1> SUFFICES ASSUME NEW X \in SUBSET (1 .. n + 1)
               PROVE  g[X] = IF X = {} THEN base ELSE ApplyEvent(g[X \ {Max(X)}], s[Max(X)])
    <2>1. Steps(base, s, n + 1, g)
      BY DEF Steps
    <2> QED
      BY <2>1
  <1>1. CASE n + 1 \in X
    <2>1. Max(X) = n + 1
      <3>1. Max(X) \in X /\ n + 1 <= Max(X)
        BY <1>1, LargestNumber, n + 1 \in Nat, X # {}
      <3>2. \A x \in X : x \in Int /\ x <= n + 1
        OBVIOUS
      <3>3. \A z \in X : n + 1 <= z => z = n + 1
        BY <3>2
      <3> QED
        BY <3>1, <3>3
    <2>2. X \ {n + 1} \in SUBSET (1 .. n + 1) /\ n + 1 \notin X \ {n + 1}
      OBVIOUS
    <2>3. g[X \ {n + 1}] = h[X \ {n + 1}]
      BY <2>2
    <2> QED
      BY <1>1, <2>1, <2>3
  <1>2. CASE n + 1 \notin X
    <2>1. X \in SUBSET (1 .. n) /\ X \ {Max(X)} \in SUBSET (1 .. n + 1) /\ n + 1 \notin X \ {Max(X)}
      <3>1. \A x \in X : x \in 1 .. n
        BY <1>2
      <3> QED
        BY <3>1, <1>2
    <2>2. g[X \ {Max(X)}] = h[X \ {Max(X)}] /\ g[X] = h[X]
      BY <1>2, <2>1
    <2>3. h[X] = IF X = {} THEN base ELSE ApplyEvent(h[X \ {Max(X)}], s[Max(X)])
      BY <2>1 DEF Steps
    <2> QED
      BY <2>2, <2>3
  <1> QED
    BY <1>1, <1>2

LEMMA StepsExist ==
    ASSUME NEW base, NEW s, NEW n \in Nat
    PROVE  \E g : Steps(base, s, n, g)
PROOF
  <1> DEFINE T == {k \in Nat : ~ \E g : Steps(base, s, k, g)}
  <1> SUFFICES ASSUME T # {} PROVE FALSE
    OBVIOUS
  <1>1. PICK m \in T : \A k \in T : m <= k
    BY LeastNat
  <1>2. CASE m = 0
    <2> DEFINE g == [X \in SUBSET (1 .. 0) |-> base]
    <2>1. Steps(base, s, 0, g)
      BY \A X \in SUBSET (1 .. 0) : X = {} DEF Steps
    <2> QED
      BY <1>2, <2>1
  <1>3. CASE m # 0
    <2>1. m - 1 \in Nat /\ m - 1 \notin T
      BY <1>1, <1>3
    <2>2. PICK h : Steps(base, s, m - 1, h)
      BY <2>1
    <2>3. \E g : Steps(base, s, (m - 1) + 1, g)
      BY <2>1, <2>2, StepsAbove
    <2> QED
      BY <2>3, (m - 1) + 1 = m
  <1> QED
    BY <1>2, <1>3

LEMMA StepsUnique ==
    ASSUME NEW base, NEW s, NEW n \in Nat, NEW g, NEW h,
           Steps(base, s, n, g), Steps(base, s, n, h)
    PROVE  g = h
PROOF
  <1> DEFINE T == {k \in Nat : \E a, b : Steps(base, s, k, a) /\ Steps(base, s, k, b) /\ a # b}
  <1> SUFFICES ASSUME T # {} PROVE FALSE
    OBVIOUS
  <1>1. PICK m \in T : \A k \in T : m <= k
    BY LeastNat
  <1>2. PICK a, b : Steps(base, s, m, a) /\ Steps(base, s, m, b) /\ a # b
    BY <1>1
  <1>3. m \in Nat
    BY <1>1
  <1> HIDE DEF T
  <1>4. PICK X \in SUBSET (1 .. m) : a[X] # b[X]
    <2>1. /\ a = [X \in SUBSET (1 .. m) |-> a[X]]
          /\ b = [X \in SUBSET (1 .. m) |-> b[X]]
      BY <1>2 DEF Steps
    <2> QED
      BY <1>2, <2>1
  <1>5. /\ a[X] = IF X = {} THEN base ELSE ApplyEvent(a[X \ {Max(X)}], s[Max(X)])
        /\ b[X] = IF X = {} THEN base ELSE ApplyEvent(b[X \ {Max(X)}], s[Max(X)])
    BY <1>2 DEF Steps
  <1>6. X # {} /\ a[X \ {Max(X)}] # b[X \ {Max(X)}]
    BY <1>4, <1>5
  <1>7. m # 0
    BY <1>6, 1 .. 0 = {}
  <1> DEFINE k == m - 1
  <1>8. k \in Nat /\ k + 1 = m
    BY <1>3, <1>7
  <1>9. X \ {Max(X)} \in SUBSET (1 .. k)
    <2>1. Max(X) \in X /\ \A x \in X : x <= Max(X)
      BY <1>3, <1>6, LargestNumber
    <2>2. \A x \in X : x \in 1 .. m
      OBVIOUS
    <2>3. \A z \in 1 .. m, x \in 1 .. m : x <= z /\ x # z => x \in 1 .. k
      BY <1>3
    <2>4. \A x \in X \ {Max(X)} : x \in 1 .. k
      BY <2>1, <2>2, <2>3
    <2> QED
      BY <2>4
  <1> HIDE DEF k
  <1> DEFINE c == [Y \in SUBSET (1 .. k) |-> a[Y]]
             d == [Y \in SUBSET (1 .. k) |-> b[Y]]
  <1>10. Steps(base, s, k, c) /\ Steps(base, s, k, d)
    BY <1>2, <1>8, StepsBelow
  <1>11. c # d
    BY <1>6, <1>9
  <1>12. k \in T
    BY <1>8, <1>10, <1>11 DEF T
  <1> QED
    BY <1>1, <1>3, <1>8, <1>12

\* What is chosen is what Steps says.
LEMMA FoldIsLast ==
    ASSUME NEW base, NEW S, NEW s \in Seq(S), NEW g, Steps(base, s, Len(s), g)
    PROVE  ApplyEvents(base, s) = g[1 .. Len(s)]
PROOF
  <1>1. DOMAIN s = 1 .. Len(s) /\ Len(s) \in Nat
    OBVIOUS
  <1>2. ApplyEvents(base, s) = (CHOOSE f : Steps(base, s, Len(s), f))[1 .. Len(s)]
    <2>1. ApplyEvents(base, s)
          = (CHOOSE f : f = [X \in SUBSET DOMAIN s |->
                               IF X = {} THEN base
                               ELSE ApplyEvent(f[X \ {Max(X)}], s[Max(X)])])[DOMAIN s]
      BY DEF ApplyEvents, FoldLeft, MapThenFoldSet
    <2> QED
      BY <2>1, <1>1 DEF Steps
  <1>3. Steps(base, s, Len(s), CHOOSE f : Steps(base, s, Len(s), f))
    OBVIOUS
  <1> QED
    BY <1>1, <1>2, <1>3, StepsUnique

LEMMA ApplyNoEvents ==
    ASSUME NEW base
    PROVE  ApplyEvents(base, <<>>) = base
PROOF
  <1>1. PICK g : Steps(base, <<>>, 0, g)
    BY StepsExist
  <1>2. g[{}] = base
    BY <1>1 DEF Steps
  <1> QED
    BY <1>1, <1>2, FoldIsLast, <<>> \in Seq({}), Len(<<>>) = 0, 1 .. 0 = {}

\* The replay of one more event.
LEMMA ApplyOneMore ==
    ASSUME NEW base, NEW S, NEW s \in Seq(S), NEW e \in S
    PROVE  ApplyEvents(base, Append(s, e)) = ApplyEvent(ApplyEvents(base, s), e)
PROOF
  <1> DEFINE n == Len(s)
             r == Append(s, e)
  <1>1. n \in Nat /\ r \in Seq(S) /\ Len(r) = n + 1 /\ r[n + 1] = e
        /\ \A i \in 1 .. n : r[i] = s[i]
    OBVIOUS
  <1>0. n \in Nat /\ n + 1 \in Nat
    BY <1>1
  <1> HIDE DEF n, r
  <1>2. PICK g : Steps(base, r, n + 1, g)
    BY <1>0, StepsExist
  <1> DEFINE h == [X \in SUBSET (1 .. n) |-> g[X]]
  <1>3. Steps(base, r, n, h)
    BY <1>0, <1>2, StepsBelow
  <1>4. Steps(base, s, n, h)
    <2>1. ASSUME NEW X \in SUBSET (1 .. n), X # {}
          PROVE  r[Max(X)] = s[Max(X)]
      BY <1>1, <2>1, LargestNumber
    <2> HIDE DEF h
    <2> QED
      BY <1>3, <2>1 DEF Steps
  <1>5. ApplyEvents(base, s) = g[1 .. n]
    BY <1>4, FoldIsLast DEF n
  <1>6. ApplyEvents(base, r) = g[1 .. n + 1]
    BY <1>1, <1>2, FoldIsLast
  <1>7. Max(1 .. n + 1) = n + 1 /\ (1 .. n + 1) \ {n + 1} = 1 .. n /\ 1 .. n + 1 # {}
    <2>1. Max(1 .. n + 1) \in 1 .. n + 1 /\ n + 1 <= Max(1 .. n + 1)
      BY <1>1, LargestNumber, n + 1 \in Nat, n + 1 \in 1 .. n + 1
    <2> QED
      BY <1>1, <2>1
  <1>8. g[1 .. n + 1] = ApplyEvent(g[1 .. n], e)
    BY <1>1, <1>2, <1>7 DEF Steps
  <1> QED
    BY <1>5, <1>6, <1>8 DEF r

-----------------------------------------------------------------------------
(* Numbers.                                                                *)

LEMMA NumbersPositive ==
    ASSUME NEW events \in Seq(Event)
    PROVE  \A i \in DOMAIN events : events[i].seq \in Nat \ {0}
PROOF
  <1>1. \A i \in DOMAIN events : events[i] \in Event
    OBVIOUS
  <1>2. \A e \in Event : e.seq \in Nat \ {0}
    BY DEF Event
  <1> QED
    BY <1>1, <1>2

LEMMA NextSequenceType ==
    ASSUME TypeOK
    PROVE  /\ MaxSequence(log) \in Nat
           /\ NextSequence \in Nat \ {0}
           /\ NextSequence = MaxSequence(log) + 1
           /\ \A i \in DOMAIN log : log[i].seq <= MaxSequence(log)
PROOF
  <1>1. CASE log = <<>>
    BY <1>1 DEF MaxSequence, NextSequence
  <1>2. CASE log # <<>>
    <2>1. log \in Seq(Event) /\ Len(log) \in Nat \ {0} /\ DOMAIN log = 1 .. Len(log)
          /\ \A i, j \in DOMAIN log : i < j => log[i].seq < log[j].seq
      BY <1>2 DEF TypeOK
    <2>2. MaxSequence(log) = log[Len(log)].seq
      BY <1>2 DEF MaxSequence, Last
    <2>3. \A i \in DOMAIN log : log[i].seq \in Nat
      BY <2>1, NumbersPositive
    <2>4. Len(log) \in DOMAIN log
      BY <2>1
    <2>5. \A i \in DOMAIN log : i < Len(log) \/ i = Len(log)
      BY <2>1
    <2> QED
      BY <2>1, <2>2, <2>3, <2>4, <2>5 DEF NextSequence
  <1> QED
    BY <1>1, <1>2

Numbered(events, n) == \A i \in DOMAIN events : events[i].seq = n + i - 1

\* A log with more events, numbered from the next number on, is in order.
LEMMA LogGrows ==
    ASSUME TypeOK, NEW events \in Seq(Event), Numbered(events, NextSequence),
           log' = log \o events
    PROVE  /\ log' \in Seq(Event)
           /\ (\A i, j \in DOMAIN log : i < j => log[i].seq < log[j].seq)'
           /\ MaxSequence(log)' = MaxSequence(log) + Len(events)
PROOF
  <1>1. log \in Seq(Event) /\ \A i, j \in DOMAIN log : i < j => log[i].seq < log[j].seq
    BY DEF TypeOK
  <1>2. /\ log' \in Seq(Event) /\ Len(log') = Len(log) + Len(events)
        /\ Len(log) \in Nat /\ Len(events) \in Nat
        /\ DOMAIN log = 1 .. Len(log) /\ DOMAIN events = 1 .. Len(events)
        /\ DOMAIN log' = 1 .. Len(log) + Len(events)
    BY <1>1
  <1>3. /\ \A i \in 1 .. Len(log) : log'[i] = log[i]
        /\ \A i \in 1 .. Len(events) : log'[Len(log) + i] = events[i]
    BY <1>1
  <1> DEFINE m == MaxSequence(log)
  <1>4. /\ m \in Nat /\ NextSequence = m + 1
        /\ \A i \in 1 .. Len(log) : log[i].seq <= m /\ log[i].seq \in Nat
    <2>1. \A i \in 1 .. Len(log) : log[i].seq \in Nat
      BY <1>1, <1>2, NumbersPositive
    <2> QED
      BY <2>1, <1>2, NextSequenceType
  <1> HIDE DEF m
  <1>5. \A i \in 1 .. Len(events) : log'[Len(log) + i].seq = m + i
    BY <1>2, <1>3, <1>4 DEF Numbered
  <1>6. \A i \in 1 .. Len(log) + Len(events) :
          i \in 1 .. Len(log) \/ \E k \in 1 .. Len(events) : i = Len(log) + k
    <2> SUFFICES ASSUME NEW i \in 1 .. Len(log) + Len(events), i \notin 1 .. Len(log)
                 PROVE  \E k \in 1 .. Len(events) : i = Len(log) + k
      OBVIOUS
    <2> WITNESS i - Len(log) \in 1 .. Len(events)
    <2> QED
      BY <1>2
  <1>7. ASSUME NEW i \in DOMAIN log', NEW j \in DOMAIN log', i < j
        PROVE  log'[i].seq < log'[j].seq
    <2>1. CASE i \in 1 .. Len(log) /\ j \in 1 .. Len(log)
      BY <2>1, <1>1, <1>2, <1>3, <1>7
    <2>2. CASE i \in 1 .. Len(log) /\ \E k \in 1 .. Len(events) : j = Len(log) + k
      <3>1. PICK k \in 1 .. Len(events) : j = Len(log) + k
        BY <2>2
      <3>2. log'[i].seq <= m /\ log'[i].seq \in Nat /\ log'[j].seq = m + k /\ k \in Nat /\ k > 0
        BY <2>2, <3>1, <1>2, <1>3, <1>4, <1>5
      <3> QED
        BY <3>2, <1>4
    <2>3. CASE \E k, l \in 1 .. Len(events) : i = Len(log) + k /\ j = Len(log) + l
      <3>1. PICK k \in 1 .. Len(events), l \in 1 .. Len(events) : i = Len(log) + k /\ j = Len(log) + l
        BY <2>3
      <3>2. log'[i].seq = m + k /\ log'[j].seq = m + l
        BY <3>1, <1>5
      <3> QED
        BY <3>1, <3>2, <1>2, <1>4, <1>7
    <2>4. ~ ((\E k \in 1 .. Len(events) : i = Len(log) + k) /\ j \in 1 .. Len(log))
      BY <1>2, <1>7
    <2>5. /\ i \in 1 .. Len(log) \/ \E k \in 1 .. Len(events) : i = Len(log) + k
          /\ j \in 1 .. Len(log) \/ \E k \in 1 .. Len(events) : j = Len(log) + k
      BY <1>2, <1>6
    <2> QED
      BY <2>1, <2>2, <2>3, <2>4, <2>5
  <1>8. MaxSequence(log') = m + Len(events)
    <2>1. CASE Len(events) = 0
      <3>1. events = <<>> /\ log' = log
        BY <2>1, <1>1
      <3> QED
        BY <3>1, <2>1, <1>4 DEF m
    <2>2. CASE Len(events) # 0
      <3>1. log' # <<>> /\ Len(events) \in 1 .. Len(events)
        BY <2>2, <1>2
      <3>2. MaxSequence(log') = log'[Len(log) + Len(events)].seq
        BY <3>1, <1>2 DEF MaxSequence, Last
      <3> QED
        BY <3>1, <3>2, <1>5
    <2> QED
      BY <2>1, <2>2
  <1> QED
    BY <1>2, <1>7, <1>8 DEF m

-----------------------------------------------------------------------------
(* States.                                                                 *)

Columns == {"status", "severity", "count", "origin", "seen", "ack", "mit", "res", "closed",
            "mttr", "escalated", "version"}

LEMMA ReachedType ==
    ASSUME NEW s \in State, NEW to \in Status, NEW n \in Nat
    PROVE  Reached(s, to, n) \in State
PROOF
  <1> DEFINE ack == IF to = "investigating" THEN n ELSE s.ack
             mit == IF to = "mitigating" THEN n ELSE s.mit
             res == IF to = "resolved" THEN n ELSE s.res
             mttr == IF to = "resolved" THEN s.origin ELSE s.mttr
             closed == IF to = "closed" THEN n ELSE s.closed
  <1>1. ack \in Nat /\ mit \in Nat /\ res \in Nat /\ closed \in Nat
    BY DEF State
  <1>2. mttr \in BOOLEAN
    BY DEF State
  <1>3. Reached(s, to, n) = [s EXCEPT !.status = to, !.ack = ack, !.mit = mit, !.res = res,
                                      !.mttr = mttr, !.closed = closed]
    BY DEF Reached, State
  <1> HIDE DEF ack, mit, res, mttr, closed
  <1> QED
    BY <1>1, <1>2, <1>3 DEF State

LEMMA ApplyEventType ==
    ASSUME NEW s \in State, NEW e \in Event
    PROVE  ApplyEvent(s, e) \in State
PROOF
  <1>1. e.seq \in Nat /\ e.severity \in Nat /\ e.to \in Status
    BY DEF Event
  <1> DEFINE r == [s EXCEPT !.version = e.seq]
  <1>2. r \in State
    BY <1>1 DEF State
  <1> HIDE DEF r
  <1>3. [r EXCEPT !.severity = e.severity, !.status = "open", !.origin = TRUE, !.seen = e.seq,
                  !.count = IF @ < 1 THEN 1 ELSE @] \in State
    BY <1>1, <1>2 DEF State, Status
  <1>4. [r EXCEPT !.severity = e.severity, !.seen = e.seq, !.count = @ + 1] \in State
    <2>1. r.count + 1 \in Nat
      BY <1>2 DEF State
    <2>2. \A k \in Nat : [r EXCEPT !.severity = e.severity, !.seen = e.seq, !.count = k] \in State
      BY <1>1, <1>2 DEF State
    <2> QED
      BY <2>1, <2>2
  <1>5. [r EXCEPT !.escalated = e.to] \in State
    BY <1>1, <1>2 DEF State
  <1>6. Reached(r, e.to, e.seq) \in State
    BY <1>1, <1>2, ReachedType
  <1> QED
    BY <1>2, <1>3, <1>4, <1>5, <1>6 DEF ApplyEvent, r

\* Pairs of events as the model writes them.
LEMMA Pair ==
    ASSUME NEW S, NEW a \in S, NEW b \in S
    PROVE  <<a>> \o <<b>> = <<a, b>>
PROOF
  <1>1. \A s \in Seq(S) : /\ s \o <<b>> = Append(s, b) /\ Append(s, b) \in Seq(S)
                          /\ Len(Append(s, b)) = Len(s) + 1
                          /\ Append(s, b)[Len(s) + 1] = b
                          /\ \A i \in 1 .. Len(s) : Append(s, b)[i] = s[i]
    OBVIOUS
  <1> DEFINE u == <<a>>
             v == <<a, b>>
             w == u \o <<b>>
  <1>2. /\ u \in Seq(S) /\ v \in Seq(S) /\ Len(v) = 2 /\ v[1] = a /\ v[2] = b
        /\ Len(u) = 1 /\ u[1] = a
    OBVIOUS
  <1> HIDE DEF u, v
  <1>3. w = Append(u, b)
    BY <1>1, <1>2
  <1> HIDE DEF w
  <1>4. Len(w) = Len(u) + 1 /\ w \in Seq(S) /\ w[Len(u) + 1] = b
        /\ \A i \in 1 .. Len(u) : w[i] = u[i]
    BY <1>1, <1>2, <1>3
  <1>5. Len(w) = 2 /\ w[2] = b /\ w[1] = a
    BY <1>2, <1>4
  <1>6. w = v
    <2>1. \A i \in 1 .. 2 : i = 1 \/ i = 2
      OBVIOUS
    <2>2. DOMAIN w = 1 .. 2 /\ DOMAIN v = 1 .. 2
      BY <1>2, <1>4, <1>5
    <2>3. \A i \in 1 .. 2 : w[i] = v[i]
      BY <1>2, <1>5, <2>1
    <2>4. w = [i \in DOMAIN w |-> w[i]] /\ v = [i \in DOMAIN v |-> v[i]]
      BY <1>2, <1>4
    <2> QED
      BY <2>2, <2>3, <2>4
  <1> QED
    BY <1>6 DEF u, v, w

LEMMA ApplyTwo ==
    ASSUME NEW base, NEW s \in Seq(Event), NEW a \in Event, NEW b \in Event
    PROVE  /\ ApplyEvents(base, s \o <<>>) = ApplyEvents(base, s)
           /\ ApplyEvents(base, s \o <<a>>) = ApplyEvent(ApplyEvents(base, s), a)
           /\ ApplyEvents(base, s \o <<a, b>>) = ApplyEvent(ApplyEvent(ApplyEvents(base, s), a), b)
PROOF
  <1> DEFINE r == Append(s, a)
  <1>1. s \o <<>> = s /\ s \o <<a>> = r /\ s \o <<a, b>> = Append(r, b) /\ r \in Seq(Event)
    OBVIOUS
  <1>2. ApplyEvents(base, r) = ApplyEvent(ApplyEvents(base, s), a)
    BY ApplyOneMore
  <1> HIDE DEF r
  <1>3. ApplyEvents(base, Append(r, b)) = ApplyEvent(ApplyEvents(base, r), b)
    BY <1>1, ApplyOneMore
  <1> QED
    BY <1>1, <1>2, <1>3

LEMMA ApplyTwoOnly ==
    ASSUME NEW base, NEW a \in Event, NEW b \in Event
    PROVE  /\ ApplyEvents(base, <<a>>) = ApplyEvent(base, a)
           /\ ApplyEvents(base, <<a, b>>) = ApplyEvent(ApplyEvent(base, a), b)
PROOF
  <1>1. \A s \in Seq(Event) : <<>> \o s = s
    OBVIOUS
  <1>2. <<>> \in Seq(Event) /\ <<a>> \in Seq(Event) /\ <<a, b>> \in Seq(Event)
    OBVIOUS
  <1>3. /\ ApplyEvents(base, <<>> \o <<a>>) = ApplyEvent(ApplyEvents(base, <<>>), a)
        /\ ApplyEvents(base, <<>> \o <<a, b>>)
           = ApplyEvent(ApplyEvent(ApplyEvents(base, <<>>), a), b)
    BY <1>2, ApplyTwo
  <1>4. <<>> \o <<a>> = <<a>> /\ <<>> \o <<a, b>> = <<a, b>>
    BY <1>1, <1>2
  <1> QED
    BY <1>3, <1>4, ApplyNoEvents

-----------------------------------------------------------------------------
(* What the events of a transaction do.                                    *)

Changes(t) == txns[t].to # txns[t].saw.status /\ txns[t].kind \in {"resolved", "change", "analyze"}
\* The numbers of the transaction's status event and of its other events.
StatusNumber(t) == IF txns[t].kind = "resolved" THEN NextSequence + 1 ELSE NextSequence

Effect(t, s) ==
    LET x == txns[t]
        a == IF Ingestion(t) THEN ApplyEvent(s, E(NextSequence, "attached", x.severity, x.to)) ELSE s
    IN IF ~Changes(t) THEN a
       ELSE ApplyEvent(a, E(StatusNumber(t), IF x.kind = "resolved" THEN "resolved" ELSE "status",
                            0, x.to))

LEMMA NumberedTogether ==
    ASSUME NEW P \in Seq(Event), NEW O \in Seq(Event), NEW n \in Nat,
           Numbered(P, n), Numbered(O, n + Len(P))
    PROVE  Numbered(P \o O, n)
PROOF
  <1>1. /\ Len(P) \in Nat /\ Len(O) \in Nat /\ DOMAIN P = 1 .. Len(P) /\ DOMAIN O = 1 .. Len(O)
        /\ DOMAIN (P \o O) = 1 .. Len(P) + Len(O)
        /\ \A i \in 1 .. Len(P) : (P \o O)[i] = P[i]
        /\ \A i \in 1 .. Len(O) : (P \o O)[Len(P) + i] = O[i]
    OBVIOUS
  <1> SUFFICES ASSUME NEW i \in 1 .. Len(P) + Len(O)
               PROVE  (P \o O)[i].seq = n + i - 1
    BY <1>1 DEF Numbered
  <1>2. CASE i <= Len(P)
    BY <1>1, <1>2 DEF Numbered
  <1>3. CASE i > Len(P)
    <2> DEFINE k == i - Len(P)
    <2>1. k \in 1 .. Len(O) /\ i = Len(P) + k
      BY <1>1, <1>3
    <2> HIDE DEF k
    <2>2. (P \o O)[i] = O[k]
      BY <1>1, <2>1
    <2>3. O[k].seq = n + Len(P) + k - 1
      BY <1>1, <2>1 DEF Numbered
    <2> QED
      BY <1>1, <2>1, <2>2, <2>3
  <1> QED
    BY <1>1, <1>2, <1>3

LEMMA NumberedLiterals ==
    ASSUME NEW n \in Nat, NEW a \in Event, NEW b \in Event, a.seq = n, b.seq = n + 1
    PROVE  /\ <<>> \in Seq(Event) /\ <<a>> \in Seq(Event) /\ <<a, b>> \in Seq(Event)
           /\ Numbered(<<>>, n) /\ Numbered(<<a>>, n) /\ Numbered(<<a, b>>, n)
PROOF
  <1>1. <<>> \in Seq(Event) /\ <<a>> \in Seq(Event) /\ <<a, b>> \in Seq(Event)
    OBVIOUS
  <1>2. Numbered(<<>>, n)
    BY DEF Numbered
  <1>3. Numbered(<<a>>, n)
    BY DEF Numbered
  <1>4. Numbered(<<a, b>>, n)
    <2>1. DOMAIN <<a, b>> = {1, 2} /\ <<a, b>>[1] = a /\ <<a, b>>[2] = b
      OBVIOUS
    <2> QED
      BY <2>1 DEF Numbered
  <1> QED
    BY <1>1, <1>2, <1>3, <1>4

LEMMA ProjectedEventsAre ==
    ASSUME TypeOK, NEW t \in Txns
    PROVE  LET attached == E(NextSequence, "attached", txns[t].severity, txns[t].to)
               resolved == E(NextSequence + 1, "resolved", 0, txns[t].to)
               status == E(NextSequence, "status", 0, txns[t].to)
           IN /\ attached \in Event /\ resolved \in Event /\ status \in Event
              /\ \/ ~Changes(t) /\ ~Ingestion(t) /\ ProjectedEvents(t) = <<>>
                 \/ ~Changes(t) /\ Ingestion(t) /\ ProjectedEvents(t) = <<attached>>
                 \/ /\ Changes(t) /\ txns[t].kind = "resolved" /\ Ingestion(t)
                    /\ ProjectedEvents(t) = <<attached, resolved>>
                 \/ /\ Changes(t) /\ txns[t].kind # "resolved" /\ ~Ingestion(t)
                    /\ ProjectedEvents(t) = <<status>>
PROOF
  <1>1. NextSequence \in Nat \ {0} /\ NextSequence + 1 \in Nat \ {0}
    BY NextSequenceType
  <1>2. txns[t].kind \in Kinds /\ txns[t].severity \in Nat /\ txns[t].to \in Status
    BY DEF TypeOK, Txn
  <1> DEFINE attached == E(NextSequence, "attached", txns[t].severity, txns[t].to)
             resolved == E(NextSequence + 1, "resolved", 0, txns[t].to)
             status == E(NextSequence, "status", 0, txns[t].to)
             P == ProjectedEvents(t)
             change == txns[t].to # txns[t].saw.status
  <1>3. attached \in Event /\ resolved \in Event /\ status \in Event
    BY <1>1, <1>2 DEF E, Event
  <1>4. /\ txns[t].kind = "firing" => P = <<attached>>
        /\ txns[t].kind = "resolved" => P = <<attached>> \o IF change THEN <<resolved>> ELSE <<>>
        /\ txns[t].kind \in {"change", "analyze"} => P = IF change THEN <<status>> ELSE <<>>
        /\ txns[t].kind = "report" => P = <<>>
    BY DEF ProjectedEvents
  <1>5. /\ txns[t].kind = "firing" => Ingestion(t) /\ ~Changes(t)
        /\ txns[t].kind = "resolved" => Ingestion(t) /\ (Changes(t) <=> change)
        /\ txns[t].kind \in {"change", "analyze"} => ~Ingestion(t) /\ (Changes(t) <=> change)
        /\ txns[t].kind = "report" => ~Ingestion(t) /\ ~Changes(t)
    BY DEF Changes, Ingestion
  <1> HIDE DEF attached, resolved, status, P, change
  <1>6. <<attached>> \o <<resolved>> = <<attached, resolved>> /\ <<attached>> \o <<>> = <<attached>>
    <2>1. \A s \in Seq(Event) : s \o <<>> = s
      OBVIOUS
    <2>2. <<attached>> \in Seq(Event)
      BY <1>3
    <2> QED
      BY <1>3, <2>1, <2>2, Pair
  <1>7. CASE txns[t].kind = "resolved"
    <2>1. CASE change
      BY <1>3, <1>4, <1>5, <1>6, <1>7, <2>1 DEF attached, resolved, status, P
    <2>2. CASE ~change
      BY <1>3, <1>4, <1>5, <1>6, <1>7, <2>2 DEF attached, resolved, status, P
    <2> QED
      BY <2>1, <2>2
  <1>8. CASE txns[t].kind \in {"change", "analyze"}
    BY <1>3, <1>4, <1>5, <1>8 DEF attached, resolved, status, P
  <1>9. CASE txns[t].kind \in {"firing", "report"}
    BY <1>3, <1>4, <1>5, <1>9 DEF attached, resolved, status, P
  <1> QED
    BY <1>2, <1>7, <1>8, <1>9 DEF Kinds

LEMMA OtherEventsAre ==
    ASSUME TypeOK, NEW t \in Txns, NEW review \in BOOLEAN
    PROVE  LET n == NextSequence + Len(ProjectedEvents(t))
               O == OtherEvents(t, review)
               to == txns[t].to
           IN /\ n \in Nat \ {0}
              /\ \/ O = <<>>
                 \/ O = <<E(n, "action", 0, to)>>
                 \/ O = <<E(n, "note", 0, to)>>
                 \/ O = <<E(n, "note", 0, to), E(n + 1, "action", 0, to)>>
PROOF
  <1>1. ProjectedEvents(t) \in Seq(Event)
    <2> DEFINE attached == E(NextSequence, "attached", txns[t].severity, txns[t].to)
               resolved == E(NextSequence + 1, "resolved", 0, txns[t].to)
               status == E(NextSequence, "status", 0, txns[t].to)
               P == ProjectedEvents(t)
    <2>1. /\ attached \in Event /\ resolved \in Event /\ status \in Event
          /\ P = <<>> \/ P = <<attached>> \/ P = <<attached, resolved>> \/ P = <<status>>
      BY ProjectedEventsAre
    <2> HIDE DEF attached, resolved, status, P
    <2>2. <<>> \in Seq(Event) /\ <<attached>> \in Seq(Event) /\ <<attached, resolved>> \in Seq(Event)
          /\ <<status>> \in Seq(Event)
      BY <2>1
    <2> QED
      BY <2>1, <2>2, Zenon DEF P
  <1>2. Len(ProjectedEvents(t)) \in Nat
    BY <1>1
  <1>3. NextSequence + Len(ProjectedEvents(t)) \in Nat \ {0}
    BY <1>2, NextSequenceType
  <1>4. txns[t].kind \in Kinds
    BY DEF TypeOK, Txn
  <1> QED
    BY <1>3, <1>4 DEF OtherEvents, Kinds

LEMMA EventsOfTxn ==
    ASSUME TypeOK, NEW t \in Txns, NEW review \in BOOLEAN
    PROVE  /\ ProjectedEvents(t) \in Seq(Event)
           /\ OtherEvents(t, review) \in Seq(Event)
           /\ Numbered(ProjectedEvents(t) \o OtherEvents(t, review), NextSequence)
           /\ \A i \in DOMAIN OtherEvents(t, review) :
                OtherEvents(t, review)[i].type \in {"action", "note"}
PROOF
  <1> DEFINE attached == E(NextSequence, "attached", txns[t].severity, txns[t].to)
             resolved == E(NextSequence + 1, "resolved", 0, txns[t].to)
             status == E(NextSequence, "status", 0, txns[t].to)
             P == ProjectedEvents(t)
             O == OtherEvents(t, review)
             n == NextSequence + Len(P)
             action == E(n, "action", 0, txns[t].to)
             note == E(n, "note", 0, txns[t].to)
             last == E(n + 1, "action", 0, txns[t].to)
  <1>1. NextSequence \in Nat
    BY NextSequenceType
  <1>2. /\ attached \in Event /\ resolved \in Event /\ status \in Event
        /\ P = <<>> \/ P = <<attached>> \/ P = <<attached, resolved>> \/ P = <<status>>
    BY ProjectedEventsAre
  <1>3. attached.seq = NextSequence /\ resolved.seq = NextSequence + 1 /\ status.seq = NextSequence
    BY DEF E
  <1>4. /\ n \in Nat \ {0}
        /\ O = <<>> \/ O = <<action>> \/ O = <<note>> \/ O = <<note, last>>
    BY OtherEventsAre
  <1>5. txns[t].to \in Status
    BY DEF TypeOK, Txn
  <1>6. /\ action \in Event /\ note \in Event /\ last \in Event
        /\ action.seq = n /\ note.seq = n /\ last.seq = n + 1
        /\ action.type = "action" /\ note.type = "note" /\ last.type = "action"
    <2>1. n + 1 \in Nat \ {0}
      BY <1>4
    <2> HIDE DEF n
    <2> QED
      BY <1>4, <1>5, <2>1 DEF E, Event
  <1> HIDE DEF attached, resolved, status, action, note, last, P, O, n
  <1>7. P \in Seq(Event) /\ Numbered(P, NextSequence)
    <2>1. /\ <<>> \in Seq(Event) /\ <<attached>> \in Seq(Event) /\ <<attached, resolved>> \in Seq(Event)
          /\ Numbered(<<>>, NextSequence) /\ Numbered(<<attached>>, NextSequence)
          /\ Numbered(<<attached, resolved>>, NextSequence)
      BY <1>1, <1>2, <1>3, NumberedLiterals
    <2>2. <<status>> \in Seq(Event) /\ Numbered(<<status>>, NextSequence)
      BY <1>1, <1>2, <1>3, NumberedLiterals
    <2> QED
      BY <1>2, <2>1, <2>2, Zenon
  <1>8. O \in Seq(Event) /\ Numbered(O, n)
    <2>1. /\ <<>> \in Seq(Event) /\ <<note>> \in Seq(Event) /\ <<note, last>> \in Seq(Event)
          /\ Numbered(<<>>, n) /\ Numbered(<<note>>, n) /\ Numbered(<<note, last>>, n)
      BY <1>4, <1>6, NumberedLiterals
    <2>2. <<action>> \in Seq(Event) /\ Numbered(<<action>>, n)
      BY <1>4, <1>6, NumberedLiterals
    <2> QED
      BY <1>4, <2>1, <2>2, Zenon
  <1>9. Numbered(P \o O, NextSequence)
    BY <1>1, <1>7, <1>8, NumberedTogether DEF n
  <1>10. ASSUME NEW i \in DOMAIN O PROVE O[i].type \in {"action", "note"}
    <2>1. CASE O = <<>>
      BY <2>1
    <2>2. CASE O = <<action>>
      BY <2>2, <1>6
    <2>3. CASE O = <<note>>
      BY <2>3, <1>6
    <2>4. CASE O = <<note, last>>
      <3>1. DOMAIN <<note, last>> = {1, 2} /\ <<note, last>>[1] = note /\ <<note, last>>[2] = last
        OBVIOUS
      <3> QED
        BY <2>4, <3>1, <1>6
    <2> QED
      BY <1>4, <2>1, <2>2, <2>3, <2>4
  <1> QED
    BY <1>7, <1>8, <1>9, <1>10 DEF P, O

\* The fold over the events of a transaction is its effect.
LEMMA EffectIsFold ==
    ASSUME TypeOK, NEW t \in Txns, NEW base, NEW s \in Seq(Event)
    PROVE  /\ ApplyEvents(base, s \o ProjectedEvents(t)) = Effect(t, ApplyEvents(base, s))
           /\ ApplyEvents(base, ProjectedEvents(t)) = Effect(t, base)
PROOF
  <1> DEFINE attached == E(NextSequence, "attached", txns[t].severity, txns[t].to)
             resolved == E(NextSequence + 1, "resolved", 0, txns[t].to)
             status == E(NextSequence, "status", 0, txns[t].to)
             P == ProjectedEvents(t)
             last == ApplyEvents(base, s)
  <1>1. /\ attached \in Event /\ resolved \in Event /\ status \in Event
        /\ \/ ~Changes(t) /\ ~Ingestion(t) /\ P = <<>>
           \/ ~Changes(t) /\ Ingestion(t) /\ P = <<attached>>
           \/ Changes(t) /\ txns[t].kind = "resolved" /\ Ingestion(t) /\ P = <<attached, resolved>>
           \/ Changes(t) /\ txns[t].kind # "resolved" /\ ~Ingestion(t) /\ P = <<status>>
    BY ProjectedEventsAre
  <1>2. /\ ~Changes(t) /\ ~Ingestion(t) => \A b : Effect(t, b) = b
        /\ ~Changes(t) /\ Ingestion(t) => \A b : Effect(t, b) = ApplyEvent(b, attached)
        /\ Changes(t) /\ txns[t].kind = "resolved" /\ Ingestion(t) =>
             \A b : Effect(t, b) = ApplyEvent(ApplyEvent(b, attached), resolved)
        /\ Changes(t) /\ txns[t].kind # "resolved" /\ ~Ingestion(t) =>
             \A b : Effect(t, b) = ApplyEvent(b, status)
    BY DEF Effect, StatusNumber
  <1> HIDE DEF attached, resolved, status, P
  <1>3. /\ ApplyEvents(base, s \o <<>>) = last
        /\ ApplyEvents(base, s \o <<attached>>) = ApplyEvent(last, attached)
        /\ ApplyEvents(base, s \o <<attached, resolved>>)
           = ApplyEvent(ApplyEvent(last, attached), resolved)
        /\ ApplyEvents(base, s \o <<status>>) = ApplyEvent(last, status)
    BY <1>1, ApplyTwo
  <1>4. /\ ApplyEvents(base, <<>>) = base
        /\ ApplyEvents(base, <<attached>>) = ApplyEvent(base, attached)
        /\ ApplyEvents(base, <<attached, resolved>>)
           = ApplyEvent(ApplyEvent(base, attached), resolved)
        /\ ApplyEvents(base, <<status>>) = ApplyEvent(base, status)
    BY <1>1, ApplyTwoOnly, ApplyNoEvents
  <1> HIDE DEF last
  <1>5. CASE ~Changes(t) /\ ~Ingestion(t) /\ P = <<>>
    BY <1>2, <1>3, <1>4, <1>5, Zenon DEF P, last
  <1>6. CASE ~Changes(t) /\ Ingestion(t) /\ P = <<attached>>
    BY <1>2, <1>3, <1>4, <1>6, Zenon DEF P, last
  <1>7. CASE Changes(t) /\ txns[t].kind = "resolved" /\ Ingestion(t) /\ P = <<attached, resolved>>
    BY <1>2, <1>3, <1>4, <1>7, Zenon DEF P, last
  <1>8. CASE Changes(t) /\ txns[t].kind # "resolved" /\ ~Ingestion(t) /\ P = <<status>>
    BY <1>2, <1>3, <1>4, <1>8, Zenon DEF P, last
  <1> QED
    BY <1>1, <1>5, <1>6, <1>7, <1>8

LEMMA AppliedColumns ==
    ASSUME NEW s \in State, NEW e \in Event
    PROVE  LET a == ApplyEvent(s, e) IN
           /\ e.type = "attached" =>
                /\ a.seen = e.seq /\ a.severity = e.severity /\ a.count = s.count + 1
                /\ a.status = s.status /\ a.ack = s.ack /\ a.mit = s.mit /\ a.res = s.res
                /\ a.closed = s.closed /\ a.mttr = s.mttr /\ a.origin = s.origin
           /\ e.type \in {"status", "resolved"} =>
                /\ a.status = e.to /\ a.seen = s.seen /\ a.severity = s.severity
                /\ a.count = s.count /\ a.origin = s.origin
                /\ a.ack = IF e.to = "investigating" THEN e.seq ELSE s.ack
                /\ a.mit = IF e.to = "mitigating" THEN e.seq ELSE s.mit
                /\ a.res = IF e.to = "resolved" THEN e.seq ELSE s.res
                /\ a.closed = IF e.to = "closed" THEN e.seq ELSE s.closed
                /\ a.mttr = IF e.to = "resolved" THEN s.origin ELSE s.mttr
           /\ e.type = "opened" =>
                /\ a.seen = e.seq /\ a.severity = e.severity /\ a.origin = TRUE
                /\ a.count = IF s.count < 1 THEN 1 ELSE s.count
                /\ a.status = "open" /\ a.ack = s.ack /\ a.mit = s.mit /\ a.res = s.res
                /\ a.closed = s.closed /\ a.mttr = s.mttr
           /\ e.type \in {"action", "note", "reopened"} =>
                /\ a.seen = s.seen /\ a.severity = s.severity /\ a.count = s.count
                /\ a.status = s.status /\ a.ack = s.ack /\ a.mit = s.mit /\ a.res = s.res
                /\ a.closed = s.closed /\ a.mttr = s.mttr /\ a.origin = s.origin
PROOF
  <1>1. CASE e.type = "attached"
    BY <1>1 DEF ApplyEvent, State
  <1>2. CASE e.type \in {"status", "resolved"}
    BY <1>2 DEF ApplyEvent, Reached, State
  <1>3. CASE e.type \in {"action", "note", "reopened"}
    BY <1>3 DEF ApplyEvent, State
  <1>4. CASE e.type = "opened"
    <2>1. ApplyEvent(s, e) = [[s EXCEPT !.version = e.seq]
            EXCEPT !.severity = e.severity, !.status = "open", !.origin = TRUE,
                   !.seen = e.seq, !.count = IF @ < 1 THEN 1 ELSE @]
      BY <1>4 DEF ApplyEvent
    <2> QED
      BY <1>4, <2>1 DEF State
  <1> QED
    BY <1>1, <1>2, <1>3, <1>4

\* The columns that the properties are about.
SameColumns(a, s) ==
    /\ a.seen = s.seen /\ a.severity = s.severity /\ a.count = s.count
    /\ a.status = s.status /\ a.ack = s.ack /\ a.mit = s.mit /\ a.res = s.res
    /\ a.closed = s.closed /\ a.mttr = s.mttr /\ a.origin = s.origin

\* What Effect makes of them.
EffectOn(t, a, s) ==
    LET x == txns[t]
        n == NextSequence
        m == StatusNumber(t)
    IN /\ a.seen = IF Ingestion(t) THEN n ELSE s.seen
       /\ a.severity = IF Ingestion(t) THEN x.severity ELSE s.severity
       /\ a.count = IF Ingestion(t) THEN s.count + 1 ELSE s.count
       /\ a.status = IF Changes(t) THEN x.to ELSE s.status
       /\ a.ack = IF Changes(t) /\ x.to = "investigating" THEN m ELSE s.ack
       /\ a.mit = IF Changes(t) /\ x.to = "mitigating" THEN m ELSE s.mit
       /\ a.res = IF Changes(t) /\ x.to = "resolved" THEN m ELSE s.res
       /\ a.closed = IF Changes(t) /\ x.to = "closed" THEN m ELSE s.closed
       /\ a.mttr = IF Changes(t) /\ x.to = "resolved" THEN s.origin ELSE s.mttr
       /\ a.origin = s.origin

LEMMA EffectColumns ==
    ASSUME TypeOK, NEW t \in Txns, NEW s \in State
    PROVE  Effect(t, s) \in State /\ EffectOn(t, Effect(t, s), s)
PROOF
  <1>1. NextSequence \in Nat \ {0} /\ StatusNumber(t) \in Nat \ {0}
    BY NextSequenceType DEF StatusNumber
  <1>2. txns[t].kind \in Kinds /\ txns[t].severity \in Nat /\ txns[t].to \in Status
    BY DEF TypeOK, Txn
  <1> DEFINE attached == E(NextSequence, "attached", txns[t].severity, txns[t].to)
             change == E(StatusNumber(t), IF txns[t].kind = "resolved" THEN "resolved" ELSE "status",
                         0, txns[t].to)
             a == IF Ingestion(t) THEN ApplyEvent(s, attached) ELSE s
  <1>3. /\ attached \in Event /\ attached.type = "attached" /\ attached.seq = NextSequence
        /\ attached.severity = txns[t].severity
        /\ change \in Event /\ change.type \in {"status", "resolved"}
        /\ change.seq = StatusNumber(t) /\ change.to = txns[t].to
    BY <1>1, <1>2 DEF E, Event
  <1>4. Effect(t, s) = IF ~Changes(t) THEN a ELSE ApplyEvent(a, change)
    BY DEF Effect
  <1> HIDE DEF attached, change
  <1>5. a \in State
    BY <1>3, ApplyEventType
  <1>6. /\ a.seen = IF Ingestion(t) THEN NextSequence ELSE s.seen
        /\ a.severity = IF Ingestion(t) THEN txns[t].severity ELSE s.severity
        /\ a.count = IF Ingestion(t) THEN s.count + 1 ELSE s.count
        /\ a.status = s.status /\ a.ack = s.ack /\ a.mit = s.mit /\ a.res = s.res
        /\ a.closed = s.closed /\ a.mttr = s.mttr /\ a.origin = s.origin
    BY <1>3, AppliedColumns
  <1> HIDE DEF a
  <1>7. CASE ~Changes(t)
    BY <1>4, <1>5, <1>6, <1>7 DEF EffectOn
  <1>8. CASE Changes(t)
    <2> DEFINE b == ApplyEvent(a, change)
    <2>1. b \in State
      BY <1>3, <1>5, ApplyEventType
    <2>2. /\ b.status = change.to /\ b.seen = a.seen /\ b.severity = a.severity
          /\ b.count = a.count /\ b.origin = a.origin
          /\ b.ack = IF change.to = "investigating" THEN change.seq ELSE a.ack
          /\ b.mit = IF change.to = "mitigating" THEN change.seq ELSE a.mit
          /\ b.res = IF change.to = "resolved" THEN change.seq ELSE a.res
          /\ b.closed = IF change.to = "closed" THEN change.seq ELSE a.closed
          /\ b.mttr = IF change.to = "resolved" THEN a.origin ELSE a.mttr
      BY <1>3, <1>5, AppliedColumns
    <2>3. Effect(t, s) = b
      BY <1>4, <1>8
    <2> HIDE DEF b
    <2> QED
      BY <1>3, <1>6, <1>8, <2>1, <2>2, <2>3 DEF EffectOn
  <1> QED
    BY <1>7, <1>8

\* The events that are not projected leave the columns alone.
LEMMA OthersKeepColumns ==
    ASSUME TypeOK, NEW t \in Txns, NEW review \in BOOLEAN, NEW base, NEW s \in Seq(Event),
           ApplyEvents(base, s) \in State
    PROVE  /\ ApplyEvents(base, s \o OtherEvents(t, review)) \in State
           /\ SameColumns(ApplyEvents(base, s \o OtherEvents(t, review)), ApplyEvents(base, s))
PROOF
  <1> DEFINE O == OtherEvents(t, review)
  <1>1. O \in Seq(Event) /\ \A i \in DOMAIN O : O[i].type \in {"action", "note"}
    BY EventsOfTxn
  <1>2. /\ O = <<>> \/ (\E a : O = <<a>>) \/ (\E a, b : O = <<a, b>>)
    BY DEF OtherEvents
  <1> HIDE DEF O
  <1>3. ASSUME NEW c \in State, NEW e \in Event, e.type \in {"action", "note"}
        PROVE  ApplyEvent(c, e) \in State /\ SameColumns(ApplyEvent(c, e), c)
    BY <1>3, ApplyEventType, AppliedColumns DEF SameColumns
  <1>4. CASE O = <<>>
    <2>1. s \o O = s
      BY <1>4
    <2> QED
      BY <2>1 DEF SameColumns, O
  <1>5. CASE \E a : O = <<a>>
    <2>1. PICK a : O = <<a>>
      BY <1>5
    <2>2. a \in Event /\ a.type \in {"action", "note"}
      BY <1>1, <2>1
    <2>3. ApplyEvents(base, s \o O) = ApplyEvent(ApplyEvents(base, s), a)
      BY <2>1, <2>2, ApplyTwo
    <2> QED
      BY <1>3, <2>2, <2>3 DEF O
  <1>6. CASE \E a, b : O = <<a, b>>
    <2>1. PICK a, b : O = <<a, b>>
      BY <1>6
    <2>2. a \in Event /\ a.type \in {"action", "note"} /\ b \in Event /\ b.type \in {"action", "note"}
      <3>1. 1 \in DOMAIN O /\ 2 \in DOMAIN O /\ O[1] = a /\ O[2] = b
        BY <2>1
      <3> QED
        BY <1>1, <3>1
    <2>3. ApplyEvents(base, s \o O) = ApplyEvent(ApplyEvent(ApplyEvents(base, s), a), b)
      BY <2>1, <2>2, ApplyTwo
    <2> DEFINE c == ApplyEvent(ApplyEvents(base, s), a)
    <2>4. c \in State /\ SameColumns(c, ApplyEvents(base, s))
      BY <1>3, <2>2
    <2>5. ApplyEvent(c, b) \in State /\ SameColumns(ApplyEvent(c, b), c)
      BY <1>3, <2>2, <2>4
    <2> QED
      BY <2>3, <2>4, <2>5 DEF SameColumns, O
  <1> QED
    BY <1>2, <1>4, <1>5, <1>6

-----------------------------------------------------------------------------
(* What a transaction writes.                                              *)

LEMMA PreparedColumns ==
    ASSUME TypeOK, NEW t \in Txns
    PROVE  LET saw == txns[t].saw
               p == Prepared(t)
           IN /\ saw \in State /\ p \in State
              /\ p.status = saw.status /\ p.ack = saw.ack /\ p.mit = saw.mit /\ p.res = saw.res
              /\ p.closed = saw.closed /\ p.mttr = saw.mttr /\ p.origin = saw.origin
              /\ p.seen = saw.seen
              /\ p.count = IF Ingestion(t) THEN saw.count + 1 ELSE saw.count
              /\ ~Ingestion(t) => p.severity = saw.severity
              /\ saw.severity = txns[t].severity => p.severity = saw.severity
PROOF
  <1> DEFINE saw == txns[t].saw
  <1>1. saw \in State /\ txns[t].severity \in Nat
    BY DEF TypeOK, Txn
  <1>2. Higher(saw.severity, txns[t].severity) \in Nat /\ saw.count + 1 \in Nat
    BY <1>1 DEF Higher, State
  <1>3. \A k \in Nat, j \in Nat : [saw EXCEPT !.severity = k, !.count = j] \in State
    BY <1>1 DEF State
  <1>4. Prepared(t) = IF Ingestion(t)
                      THEN [saw EXCEPT !.severity = Higher(saw.severity, txns[t].severity),
                                       !.count = saw.count + 1]
                      ELSE saw
    BY <1>1 DEF Prepared, State
  <1>5. Prepared(t) \in State
    BY <1>1, <1>2, <1>3, <1>4
  <1> HIDE DEF saw
  <1> QED
    BY <1>1, <1>4, <1>5 DEF saw, State, Higher

LEMMA WrittenColumns ==
    ASSUME TypeOK, NEW t \in Txns
    PROVE  LET saw == txns[t].saw
               p == Prepared(t)
               f == Effect(t, p)
               w == Written(t)
           IN /\ w \in State
              /\ \A c \in Columns : w[c] = IF saw[c] = p[c] /\ p[c] = f[c] THEN row[c] ELSE f[c]
PROOF
  <1> DEFINE saw == txns[t].saw
             p == Prepared(t)
             f == Effect(t, p)
             w == Written(t)
  <1>1. row \in State /\ p \in State /\ f \in State
    BY PreparedColumns, EffectColumns DEF TypeOK
  <1>2. DOMAIN row = Columns
    BY <1>1 DEF State, Columns
  <1>3. w = [c \in Columns |-> IF saw[c] = p[c] /\ p[c] = f[c] THEN row[c] ELSE f[c]]
    <2>1. ApplyEvents(p, ProjectedEvents(t)) = f
      BY EffectIsFold, <<>> \in Seq(Event)
    <2> QED
      BY <1>2, <2>1 DEF Written
  <1> HIDE DEF w, p, f, saw
  <1>4. \A c \in Columns : w[c] = IF saw[c] = p[c] /\ p[c] = f[c] THEN row[c] ELSE f[c]
    BY <1>3
  <1>5. /\ w.status \in Status /\ w.severity \in Nat /\ w.count \in Nat /\ w.origin \in BOOLEAN
        /\ w.seen \in Nat /\ w.ack \in Nat /\ w.mit \in Nat /\ w.res \in Nat /\ w.closed \in Nat
        /\ w.mttr \in BOOLEAN /\ w.escalated \in Status \cup {"none"} /\ w.version \in Nat
    BY <1>1, <1>4 DEF State, Columns
  <1>6. w = [c \in Columns |-> w[c]]
    BY <1>3
  <1>7. w \in State
    BY <1>5, <1>6 DEF State, Columns
  <1> QED
    BY <1>4, <1>7 DEF w, p, f, saw

-----------------------------------------------------------------------------
(* The inductive invariant.                                                *)

Timely(s, m) == s.seen <= m /\ s.ack <= m /\ s.mit <= m /\ s.res <= m /\ s.closed <= m

\* The replay is a state, which knows when the incident began if it was opened.
ReplayKnown == deletes = 0 => Replayed \in State /\ Replayed.origin = (opening = "opened")

\* The row always knows, and never forgets how long the incident took.
OriginKnown ==
    /\ row.origin
    /\ \A t \in Txns : At(t, "read") => txns[t].saw.origin /\ (txns[t].saw.mttr => row.mttr)

\* Times are numbers of events that there are, so that the next event has a new one.
SeenTimely ==
    deletes = 0 => /\ Timely(row, MaxSequence(log))
                   /\ \A t \in Txns : At(t, "read") => Timely(txns[t].saw, MaxSequence(log))

\* A transaction that has seen the last alert has seen its severity and count.
DetailsCurrent ==
    deletes = 0 => \A t \in Txns : At(t, "read") /\ txns[t].saw.seen = row.seen =>
        txns[t].saw.severity = row.severity /\ txns[t].saw.count = row.count

JobsNumbered == deletes = 0 => \A n \in active \cup settled : n <= MaxSequence(log)

IInv == /\ TypeOK /\ LifecycleReplays /\ DetailsUnlessOvertaken /\ SilencedOnlyAfterDeletion
        /\ ReplayKnown /\ OriginKnown /\ SeenTimely /\ DetailsCurrent /\ JobsNumbered

\* What the first event of an incident makes of a state.
LEMMA FirstEventColumns ==
    ASSUME NEW s \in State, NEW e \in Event
    PROVE  LET a == ApplyEvent(s, e) IN
           /\ e.type = "reopened" => SameColumns(a, s)
           /\ e.type = "opened" =>
                /\ a.status = "open" /\ a.origin = TRUE /\ a.mttr = s.mttr
                /\ a.count = IF s.count < 1 THEN 1 ELSE s.count
                /\ a.ack = s.ack /\ a.mit = s.mit /\ a.res = s.res /\ a.closed = s.closed
PROOF
  <1> QED
    BY AppliedColumns DEF SameColumns

LEMMA InitInv == Init => IInv
PROOF
  <1> SUFFICES ASSUME Init PROVE IInv
    OBVIOUS
  <1>1. PICK severity \in Severities :
          /\ log = <<E(1, opening, severity, "open"), E(2, "attached", severity, "open")>>
          /\ row = ApplyEvents([Blank EXCEPT !.severity = severity, !.count = 1, !.origin = TRUE], log)
    BY DEF Init
  <1> DEFINE a == E(1, opening, severity, "open")
             b == E(2, "attached", severity, "open")
             base == [Blank EXCEPT !.severity = severity, !.count = 1, !.origin = TRUE]
  <1>2. severity \in Nat
    BY ReplayAssumption
  <1>3. a \in Event /\ b \in Event
    BY <1>2 DEF Init, E, Event, Status
  <1>4. Blank \in State /\ base \in State
    BY <1>2 DEF Blank, State, Status
  <1>5. /\ Replayed = ApplyEvent(ApplyEvent(Blank, a), b)
        /\ row = ApplyEvent(ApplyEvent(base, a), b)
    BY <1>1, <1>3, ApplyTwoOnly DEF Replayed
  <1>6. Replayed \in State /\ row \in State
    BY <1>3, <1>4, <1>5, ApplyEventType
  <1> DEFINE c == ApplyEvent(Blank, a)
             d == ApplyEvent(base, a)
  <1>7. c \in State /\ d \in State
    BY <1>3, <1>4, ApplyEventType
  <1>8. /\ c.status = "open" /\ c.ack = 0 /\ c.mit = 0 /\ c.res = 0 /\ c.closed = 0 /\ c.mttr = FALSE
        /\ c.origin = (opening = "opened") /\ c.count = IF opening = "opened" THEN 1 ELSE 0
        /\ d.status = "open" /\ d.ack = 0 /\ d.mit = 0 /\ d.res = 0 /\ d.closed = 0 /\ d.mttr = FALSE
        /\ d.origin = TRUE /\ d.count = 1
    <2>1. a.type = opening /\ opening \in {"opened", "reopened"}
      BY DEF Init, E
    <2>2. /\ Blank.status = "open" /\ Blank.count = 0 /\ Blank.origin = FALSE
          /\ Blank.ack = 0 /\ Blank.mit = 0 /\ Blank.res = 0 /\ Blank.closed = 0
          /\ Blank.mttr = FALSE
          /\ base.status = "open" /\ base.count = 1 /\ base.origin = TRUE
          /\ base.ack = 0 /\ base.mit = 0 /\ base.res = 0 /\ base.closed = 0
          /\ base.mttr = FALSE
      BY DEF Blank
    <2> HIDE DEF a, base
    <2>3. CASE opening = "opened"
      <3>1. a.type = "opened"
        BY <2>1, <2>3
      <3>2. /\ c.status = "open" /\ c.origin = TRUE /\ c.mttr = Blank.mttr
            /\ c.count = IF Blank.count < 1 THEN 1 ELSE Blank.count
            /\ c.ack = Blank.ack /\ c.mit = Blank.mit /\ c.res = Blank.res
            /\ c.closed = Blank.closed
        BY <1>3, <1>4, <3>1, FirstEventColumns, Zenon
      <3>3. /\ d.status = "open" /\ d.origin = TRUE /\ d.mttr = base.mttr
            /\ d.count = IF base.count < 1 THEN 1 ELSE base.count
            /\ d.ack = base.ack /\ d.mit = base.mit /\ d.res = base.res
            /\ d.closed = base.closed
        BY <1>3, <1>4, <3>1, FirstEventColumns, Zenon
      <3> HIDE DEF c, d
      <3>4. c.count = 1 /\ d.count = 1
        BY <3>2, <3>3, <2>2
      <3> QED
        BY <3>2, <3>3, <3>4, <2>2, <2>3, Zenon
    <2>4. CASE opening = "reopened"
      <3>1. a.type = "reopened"
        BY <2>1, <2>4
      <3>2. SameColumns(c, Blank) /\ SameColumns(d, base)
        BY <1>3, <1>4, <3>1, FirstEventColumns, Zenon
      <3> HIDE DEF c, d
      <3>3. opening # "opened"
        BY <2>4
      <3> QED
        BY <3>2, <3>3, <2>2, Zenon DEF SameColumns
    <2> QED
      BY <2>1, <2>3, <2>4
  <1>9. b.type = "attached" /\ b.seq = 2 /\ b.severity = severity
    BY DEF E
  <1> HIDE DEF c, d, base, b
  <1>10. /\ Replayed.seen = 2 /\ Replayed.severity = severity /\ Replayed.count = c.count + 1
         /\ Replayed.status = c.status /\ Replayed.ack = c.ack /\ Replayed.mit = c.mit
         /\ Replayed.res = c.res /\ Replayed.closed = c.closed /\ Replayed.mttr = c.mttr
         /\ Replayed.origin = c.origin
    BY <1>3, <1>5, <1>7, <1>9, AppliedColumns DEF c, b
  <1>11. /\ row.seen = 2 /\ row.severity = severity /\ row.count = d.count + 1
         /\ row.status = d.status /\ row.ack = d.ack /\ row.mit = d.mit
         /\ row.res = d.res /\ row.closed = d.closed /\ row.mttr = d.mttr
         /\ row.origin = d.origin
    BY <1>3, <1>5, <1>7, <1>9, AppliedColumns DEF d, b
  <1>12. /\ log = <<a, b>> /\ Len(log) = 2 /\ DOMAIN log = {1, 2} /\ log[1] = a /\ log[2] = b
         /\ log \in Seq(Event) /\ a.seq = 1 /\ a.type = opening
    BY <1>1, <1>3 DEF b, E
  <1>13. MaxSequence(log) = 2
    BY <1>9, <1>12 DEF MaxSequence, Last
  <1>14. Cardinality(Attached) = 1
    <2>1. Attached = {2}
      BY <1>9, <1>12 DEF Attached, Init
    <2> QED
      BY <2>1, FS_Singleton
  <1>15. TypeOK
    <2>1. \A i, j \in DOMAIN log : i < j => log[i].seq < log[j].seq
      BY <1>9, <1>12
    <2>2. txns \in [Txns -> Txn]
      BY <1>4 DEF Init, Txn, Kinds, Status
    <2>3. /\ active \subseteq Nat /\ settled \subseteq Nat /\ silenced \subseteq Txns
          /\ overtaken \in BOOLEAN /\ opening \in {"opened", "reopened"}
      <3>1. /\ active = {2} /\ settled = {} /\ silenced = {} /\ overtaken = FALSE
            /\ opening \in {"opened", "reopened"}
        BY DEF Init
      <3>2. active \subseteq Nat
        BY <3>1
      <3>3. settled \subseteq Nat
        BY <3>1
      <3>4. silenced \subseteq Txns
        BY <3>1
      <3> QED
        BY <3>1, <3>2, <3>3, <3>4, Zenon
    <2>4. deletes \in 0 .. MaxDeletes
      BY ReplayAssumption DEF Init
    <2> QED
      BY <2>1, <2>2, <2>3, <2>4, <1>6, <1>12 DEF TypeOK
  <1>16. \A t \in Txns : ~At(t, "read")
    BY DEF Init, At
  <1>17. LifecycleReplays /\ ReplayKnown /\ OriginKnown
    BY <1>6, <1>8, <1>10, <1>11, <1>16 DEF LifecycleReplays, Lifecycle, ReplayKnown, OriginKnown
  <1>18. DetailsUnlessOvertaken
    BY <1>8, <1>10, <1>11, <1>14 DEF DetailsUnlessOvertaken
  <1>19. SeenTimely
    BY <1>8, <1>11, <1>13, <1>16 DEF SeenTimely, Timely
  <1>20. SilencedOnlyAfterDeletion /\ DetailsCurrent /\ JobsNumbered
    BY <1>13, <1>16 DEF Init, SilencedOnlyAfterDeletion, DetailsCurrent, JobsNumbered
  <1> QED
    BY <1>15, <1>17, <1>18, <1>19, <1>20 DEF IInv

LEMMA ReadIncidentInv ==
    ASSUME IInv, NEW t \in Txns, NEW kind \in Kinds, NEW severity \in Nat, NEW to \in Status,
           ReadIncident(t, kind, severity, to)
    PROVE  IInv'
PROOF
  <1> DEFINE x == [pc |-> "read", kind |-> kind, severity |-> severity, to |-> to, saw |-> row]
  <1>1. /\ txns' = [txns EXCEPT ![t] = x]
        /\ opening' = opening /\ row' = row /\ log' = log /\ overtaken' = overtaken
        /\ active' = active /\ settled' = settled /\ silenced' = silenced /\ deletes' = deletes
    BY DEF ReadIncident, queue
  <1>2. x \in Txn /\ x.pc = "read" /\ x.saw = row
    BY DEF IInv, TypeOK, Txn
  <1> HIDE DEF x
  <1>3. TypeOK'
    BY <1>1, <1>2 DEF IInv, TypeOK
  <1>4. Replayed' = Replayed /\ Attached' = Attached /\ MaxSequence(log)' = MaxSequence(log)
    BY <1>1 DEF Replayed, Attached
  <1>5. /\ \A u \in Txns \ {t} : txns'[u] = txns[u]
        /\ txns'[t] = x
    BY <1>1 DEF IInv, TypeOK
  <1>6. /\ LifecycleReplays' /\ DetailsUnlessOvertaken' /\ SilencedOnlyAfterDeletion'
        /\ ReplayKnown' /\ JobsNumbered'
    BY <1>1, <1>4 DEF IInv, LifecycleReplays, DetailsUnlessOvertaken, SilencedOnlyAfterDeletion,
                      ReplayKnown, JobsNumbered
  <1>7. OriginKnown'
    BY <1>1, <1>2, <1>5 DEF IInv, OriginKnown, At
  <1>8. SeenTimely'
    BY <1>1, <1>2, <1>4, <1>5 DEF IInv, SeenTimely, At
  <1>9. DetailsCurrent'
    BY <1>1, <1>2, <1>5 DEF IInv, DetailsCurrent, At
  <1> QED
    BY <1>3, <1>6, <1>7, <1>8, <1>9 DEF IInv

LEMMA SettleJobInv ==
    ASSUME IInv, NEW n \in active, SettleJob(n)
    PROVE  IInv'
PROOF
  <1>1. /\ active' = active \ {n} /\ settled' = settled \cup {n}
        /\ txns' = txns /\ opening' = opening /\ row' = row /\ log' = log /\ overtaken' = overtaken
        /\ silenced' = silenced /\ deletes' = deletes
    BY DEF SettleJob
  <1>2. TypeOK'
    BY <1>1 DEF IInv, TypeOK, Txn
  <1>3. Replayed' = Replayed /\ Attached' = Attached /\ MaxSequence(log)' = MaxSequence(log)
    BY <1>1 DEF Replayed, Attached
  <1>4. /\ LifecycleReplays' /\ DetailsUnlessOvertaken' /\ SilencedOnlyAfterDeletion' /\ ReplayKnown'
    BY <1>1, <1>3 DEF IInv, LifecycleReplays, DetailsUnlessOvertaken, SilencedOnlyAfterDeletion,
                      ReplayKnown
  <1>5. OriginKnown' /\ SeenTimely' /\ DetailsCurrent'
    BY <1>1, <1>3 DEF IInv, OriginKnown, SeenTimely, DetailsCurrent, At
  <1>6. JobsNumbered'
    BY <1>1, <1>3 DEF IInv, JobsNumbered
  <1> QED
    BY <1>2, <1>4, <1>5, <1>6 DEF IInv

LEMMA DeleteEventInv ==
    ASSUME IInv, NEW i \in DOMAIN log, DeleteEvent(i)
    PROVE  IInv'
PROOF
  <1>1. /\ log' = RemoveAt(log, i) /\ deletes < MaxDeletes /\ deletes' = deletes + 1
        /\ txns' = txns /\ opening' = opening /\ row' = row /\ overtaken' = overtaken
        /\ active' = active /\ settled' = settled /\ silenced' = silenced
    BY DEF DeleteEvent, queue
  <1>2. deletes \in Nat /\ deletes' # 0 /\ deletes' > 0 /\ deletes' \in 0 .. MaxDeletes
    BY <1>1, ReplayAssumption DEF IInv, TypeOK
  <1>3. log \in Seq(Event) /\ \A k, j \in DOMAIN log : k < j => log[k].seq < log[j].seq
    BY DEF IInv, TypeOK
  <1> DEFINE n == Len(log)
             a == SubSeq(log, 1, i - 1)
             b == SubSeq(log, i + 1, n)
  <1>4. n \in Nat /\ i \in 1 .. n /\ DOMAIN log = 1 .. n
    BY <1>3
  <1>5. /\ a \in Seq(Event) /\ Len(a) = i - 1 /\ \A k \in 1 .. i - 1 : a[k] = log[k]
        /\ b \in Seq(Event) /\ Len(b) = n - i /\ \A k \in 1 .. n - i : b[k] = log[i + k]
    BY <1>3, <1>4
  <1>6. log' = a \o b
    BY <1>1 DEF RemoveAt
  <1> HIDE DEF a, b, n
  <1>7. /\ log' \in Seq(Event) /\ Len(log') = n - 1 /\ DOMAIN log' = 1 .. n - 1
        /\ \A k \in 1 .. n - 1 : log'[k] = IF k < i THEN log[k] ELSE log[k + 1]
    <2>1. /\ a \o b \in Seq(Event) /\ Len(a \o b) = Len(a) + Len(b)
          /\ DOMAIN (a \o b) = 1 .. Len(a) + Len(b)
          /\ \A k \in 1 .. Len(a) : (a \o b)[k] = a[k]
          /\ \A k \in 1 .. Len(b) : (a \o b)[Len(a) + k] = b[k]
      BY <1>5
    <2>2. Len(a) + Len(b) = n - 1
      BY <1>4, <1>5
    <2>3. ASSUME NEW k \in 1 .. n - 1 PROVE log'[k] = IF k < i THEN log[k] ELSE log[k + 1]
      <3>1. CASE k < i
        BY <3>1, <1>4, <1>5, <1>6, <2>1
      <3>2. CASE ~ (k < i)
        <4> DEFINE j == k - (i - 1)
        <4>1. j \in 1 .. n - i /\ Len(a) + j = k /\ i + j = k + 1
          BY <3>2, <1>4, <1>5
        <4> HIDE DEF j
        <4>2. (a \o b)[k] = b[j] /\ b[j] = log[k + 1]
          BY <4>1, <1>5, <2>1
        <4> QED
          BY <3>2, <4>2, <1>6
      <3> QED
        BY <3>1, <3>2
    <2> QED
      BY <1>6, <2>1, <2>2, <2>3
  <1>8. ASSUME NEW k \in DOMAIN log', NEW j \in DOMAIN log', k < j
        PROVE  log'[k].seq < log'[j].seq
    <2>1. PICK kk \in 1 .. n, jj \in 1 .. n : kk < jj /\ log'[k] = log[kk] /\ log'[j] = log[jj]
      BY <1>4, <1>7, <1>8
    <2> QED
      BY <2>1, <1>3, <1>4
  <1>9. TypeOK'
    BY <1>1, <1>2, <1>7, <1>8 DEF IInv, TypeOK
  <1>10. /\ LifecycleReplays' /\ DetailsUnlessOvertaken' /\ SilencedOnlyAfterDeletion'
         /\ ReplayKnown' /\ SeenTimely' /\ DetailsCurrent' /\ JobsNumbered'
    BY <1>2 DEF LifecycleReplays, DetailsUnlessOvertaken, SilencedOnlyAfterDeletion,
                ReplayKnown, SeenTimely, DetailsCurrent, JobsNumbered
  <1>11. OriginKnown'
    BY <1>1 DEF IInv, OriginKnown, At
  <1> QED
    BY <1>9, <1>10, <1>11 DEF IInv

\* The columns of the row, of the replay and of the count of alerts after a commit.
LEMMA CommitColumns ==
    ASSUME IInv, NEW t \in Txns, NEW review \in BOOLEAN, NEW full \in BOOLEAN,
           Commit(t, review, full), deletes = 0
    PROVE  LET x == txns[t]
               saw == x.saw
               n == NextSequence
               m == StatusNumber(t)
           IN /\ Replayed' \in State /\ EffectOn(t, Replayed', Replayed)
              /\ row'.seen = IF Ingestion(t) THEN n ELSE row.seen
              /\ row'.severity =
                   IF Ingestion(t) /\ saw.severity # x.severity THEN x.severity ELSE row.severity
              /\ row'.count = IF Ingestion(t) THEN saw.count + 2 ELSE row.count
              /\ row'.status = IF Changes(t) THEN x.to ELSE row.status
              /\ row'.ack = IF Changes(t) /\ x.to = "investigating" THEN m ELSE row.ack
              /\ row'.mit = IF Changes(t) /\ x.to = "mitigating" THEN m ELSE row.mit
              /\ row'.res = IF Changes(t) /\ x.to = "resolved" THEN m ELSE row.res
              /\ row'.closed = IF Changes(t) /\ x.to = "closed" THEN m ELSE row.closed
              /\ row'.mttr = IF Changes(t) /\ x.to = "resolved" THEN TRUE ELSE row.mttr
PROOF
  <1> DEFINE x == txns[t]
             saw == x.saw
             n == NextSequence
             m == StatusNumber(t)
             p == Prepared(t)
             f == Effect(t, p)
             P == ProjectedEvents(t)
             O == OtherEvents(t, review)
  <1>1. TypeOK /\ At(t, "read") /\ row' = Written(t) /\ log' = log \o P \o O
    BY DEF IInv, Commit
  <1>2. P \in Seq(Event) /\ O \in Seq(Event) /\ log \in Seq(Event) /\ log \o P \in Seq(Event)
    BY <1>1, EventsOfTxn DEF TypeOK
  <1>3. Replayed \in State /\ Replayed = ApplyEvents(Blank, log)
    BY DEF IInv, ReplayKnown, Replayed
  <1>4. ApplyEvents(Blank, log \o P) = Effect(t, Replayed)
    BY <1>1, <1>2, <1>3, EffectIsFold
  <1>5. Effect(t, Replayed) \in State /\ EffectOn(t, Effect(t, Replayed), Replayed)
    BY <1>1, <1>3, EffectColumns
  <1>6. Replayed' = ApplyEvents(Blank, log \o P \o O)
    BY <1>1 DEF Replayed
  <1>7. Replayed' \in State /\ SameColumns(Replayed', Effect(t, Replayed))
    <2>1. /\ ApplyEvents(Blank, (log \o P) \o O) \in State
          /\ SameColumns(ApplyEvents(Blank, (log \o P) \o O), ApplyEvents(Blank, log \o P))
      BY <1>1, <1>2, <1>4, <1>5, OthersKeepColumns
    <2> QED
      BY <2>1, <1>4, <1>6
  <1>8. EffectOn(t, Replayed', Replayed)
    BY <1>5, <1>7 DEF EffectOn, SameColumns
  <1>9. /\ saw \in State /\ p \in State /\ row \in State
        /\ p.status = saw.status /\ p.ack = saw.ack /\ p.mit = saw.mit /\ p.res = saw.res
        /\ p.closed = saw.closed /\ p.mttr = saw.mttr /\ p.origin = saw.origin
        /\ p.seen = saw.seen
        /\ p.count = IF Ingestion(t) THEN saw.count + 1 ELSE saw.count
        /\ ~Ingestion(t) => p.severity = saw.severity
        /\ saw.severity = x.severity => p.severity = saw.severity
    BY <1>1, PreparedColumns DEF TypeOK
  <1>10. f \in State /\ EffectOn(t, f, p)
    BY <1>1, <1>9, EffectColumns
  <1>11. \A c \in Columns : row'[c] = IF saw[c] = p[c] /\ p[c] = f[c] THEN row[c] ELSE f[c]
    BY <1>1, WrittenColumns
  <1>12. /\ n \in Nat /\ m \in Nat /\ saw.seen < n /\ saw.ack < m /\ saw.mit < m /\ saw.res < m
         /\ saw.closed < m
    <2>1. NextSequence \in Nat /\ MaxSequence(log) \in Nat /\ NextSequence = MaxSequence(log) + 1
      BY <1>1, NextSequenceType
    <2>2. Timely(saw, MaxSequence(log))
      BY <1>1 DEF IInv, SeenTimely
    <2>3. saw.seen \in Nat /\ saw.ack \in Nat /\ saw.mit \in Nat /\ saw.res \in Nat /\ saw.closed \in Nat
      BY <1>9 DEF State
    <2> QED
      BY <2>1, <2>2, <2>3 DEF Timely, StatusNumber
  <1>14. saw.origin /\ (saw.mttr => row.mttr)
    BY <1>1 DEF IInv, OriginKnown
  <1>15. /\ saw.mttr \in BOOLEAN /\ row.mttr \in BOOLEAN /\ saw.origin \in BOOLEAN
         /\ saw.count \in Nat /\ saw.severity \in Nat
    BY <1>9 DEF State
  <1>16. Changes(t) => saw.status # x.to
    BY DEF Changes
  <1> HIDE DEF x, saw, n, m, p, f, P, O
  <1>17. /\ row'.seen = (IF saw.seen = p.seen /\ p.seen = f.seen THEN row.seen ELSE f.seen)
         /\ row'.severity = (IF saw.severity = p.severity /\ p.severity = f.severity THEN row.severity ELSE f.severity)
         /\ row'.count = (IF saw.count = p.count /\ p.count = f.count THEN row.count ELSE f.count)
         /\ row'.status = (IF saw.status = p.status /\ p.status = f.status THEN row.status ELSE f.status)
         /\ row'.ack = (IF saw.ack = p.ack /\ p.ack = f.ack THEN row.ack ELSE f.ack)
         /\ row'.mit = (IF saw.mit = p.mit /\ p.mit = f.mit THEN row.mit ELSE f.mit)
         /\ row'.res = (IF saw.res = p.res /\ p.res = f.res THEN row.res ELSE f.res)
         /\ row'.closed = (IF saw.closed = p.closed /\ p.closed = f.closed THEN row.closed ELSE f.closed)
         /\ row'.mttr = (IF saw.mttr = p.mttr /\ p.mttr = f.mttr THEN row.mttr ELSE f.mttr)
    BY <1>11 DEF Columns
  <1>18. EffectOn(t, f, p) => 
         /\ f.seen = IF Ingestion(t) THEN n ELSE p.seen
         /\ f.severity = IF Ingestion(t) THEN x.severity ELSE p.severity
         /\ f.count = IF Ingestion(t) THEN p.count + 1 ELSE p.count
         /\ f.status = IF Changes(t) THEN x.to ELSE p.status
         /\ f.ack = IF Changes(t) /\ x.to = "investigating" THEN m ELSE p.ack
         /\ f.mit = IF Changes(t) /\ x.to = "mitigating" THEN m ELSE p.mit
         /\ f.res = IF Changes(t) /\ x.to = "resolved" THEN m ELSE p.res
         /\ f.closed = IF Changes(t) /\ x.to = "closed" THEN m ELSE p.closed
         /\ f.mttr = IF Changes(t) /\ x.to = "resolved" THEN p.origin ELSE p.mttr
    BY DEF EffectOn, x, n, m
  <1>19. /\ row'.seen = IF Ingestion(t) THEN n ELSE row.seen
         /\ row'.severity = IF Ingestion(t) /\ saw.severity # x.severity THEN x.severity ELSE row.severity
         /\ row'.count = IF Ingestion(t) THEN saw.count + 2 ELSE row.count
    BY <1>9, <1>10, <1>12, <1>15, <1>17, <1>18
  <1>20. /\ row'.status = IF Changes(t) THEN x.to ELSE row.status
         /\ row'.ack = IF Changes(t) /\ x.to = "investigating" THEN m ELSE row.ack
         /\ row'.mit = IF Changes(t) /\ x.to = "mitigating" THEN m ELSE row.mit
         /\ row'.res = IF Changes(t) /\ x.to = "resolved" THEN m ELSE row.res
         /\ row'.closed = IF Changes(t) /\ x.to = "closed" THEN m ELSE row.closed
    BY <1>9, <1>10, <1>12, <1>16, <1>17, <1>18
  <1>21. row'.mttr = IF Changes(t) /\ x.to = "resolved" THEN TRUE ELSE row.mttr
    BY <1>9, <1>10, <1>14, <1>15, <1>17, <1>18
  <1> QED
    BY <1>7, <1>8, <1>19, <1>20, <1>21 DEF x, saw, n, m

LEMMA CommitLog ==
    ASSUME IInv, NEW t \in Txns, NEW review \in BOOLEAN, NEW full \in BOOLEAN,
           Commit(t, review, full)
    PROVE  /\ log' \in Seq(Event)
           /\ (\A i, j \in DOMAIN log : i < j => log[i].seq < log[j].seq)'
           /\ MaxSequence(log)' \in Nat /\ MaxSequence(log)' >= MaxSequence(log)
           /\ Ingestion(t) => MaxSequence(log)' >= NextSequence
           /\ Changes(t) => MaxSequence(log)' >= StatusNumber(t)
           /\ Attached' = IF Ingestion(t) THEN Attached \cup {Len(log) + 1} ELSE Attached
PROOF
  <1> DEFINE P == ProjectedEvents(t)
             O == OtherEvents(t, review)
             new == P \o O
             n == NextSequence
  <1>1. TypeOK /\ log \in Seq(Event) /\ log' = log \o P \o O
    BY DEF IInv, TypeOK, Commit
  <1>2. /\ P \in Seq(Event) /\ O \in Seq(Event) /\ Numbered(new, n)
        /\ \A i \in DOMAIN O : O[i].type \in {"action", "note"}
    BY <1>1, EventsOfTxn
  <1>3. new \in Seq(Event) /\ log' = log \o new
    BY <1>1, <1>2
  <1>4. /\ MaxSequence(log) \in Nat /\ n = MaxSequence(log) + 1
    BY <1>1, NextSequenceType
  <1>5. \/ /\ Ingestion(t) /\ ~Changes(t) /\ Len(P) = 1 /\ P[1].type = "attached"
        \/ /\ Ingestion(t) /\ Changes(t) /\ txns[t].kind = "resolved"
           /\ Len(P) = 2 /\ P[1].type = "attached" /\ P[2].type = "resolved"
        \/ /\ ~Ingestion(t) /\ ~Changes(t) /\ Len(P) = 0
        \/ /\ ~Ingestion(t) /\ Changes(t) /\ txns[t].kind # "resolved"
           /\ Len(P) = 1 /\ P[1].type = "status"
    <2>1. txns[t].kind \in Kinds
      BY <1>1 DEF TypeOK, Txn
    <2> QED
      BY <2>1 DEF ProjectedEvents, E, Ingestion, Changes, Kinds
  <1> HIDE DEF P, O, n
  <1>6. /\ Len(P) \in Nat /\ Len(O) \in Nat /\ Len(new) = Len(P) + Len(O) /\ Len(log) \in Nat
        /\ DOMAIN log = 1 .. Len(log) /\ DOMAIN O = 1 .. Len(O)
        /\ \A i \in 1 .. Len(P) : new[i] = P[i]
        /\ \A i \in 1 .. Len(O) : new[Len(P) + i] = O[i]
    BY <1>1, <1>2
  <1>7. /\ DOMAIN log' = 1 .. Len(log) + Len(P) + Len(O)
        /\ \A i \in 1 .. Len(log) : log'[i] = log[i]
        /\ \A i \in 1 .. Len(P) : log'[Len(log) + i] = P[i]
        /\ \A i \in 1 .. Len(O) : log'[Len(log) + Len(P) + i] = O[i]
    <2>1. /\ DOMAIN log' = 1 .. Len(log) + Len(new)
          /\ \A i \in 1 .. Len(log) : log'[i] = log[i]
          /\ \A i \in 1 .. Len(new) : log'[Len(log) + i] = new[i]
      BY <1>1, <1>3
    <2> HIDE DEF new
    <2>2. \A i \in 1 .. Len(O) : Len(P) + i \in 1 .. Len(new) /\ Len(log) + (Len(P) + i) = Len(log) + Len(P) + i
      BY <1>6
    <2>3. \A i \in 1 .. Len(P) : i \in 1 .. Len(new)
      BY <1>6
    <2> QED
      BY <1>6, <2>1, <2>2, <2>3
  <1>8. /\ log' \in Seq(Event)
        /\ (\A i, j \in DOMAIN log : i < j => log[i].seq < log[j].seq)'
        /\ MaxSequence(log)' = MaxSequence(log) + Len(new)
    BY <1>1, <1>2, <1>3, LogGrows DEF n
  <1>9. /\ Ingestion(t) => Len(P) >= 1
        /\ Changes(t) /\ txns[t].kind = "resolved" => Len(P) = 2
        /\ Changes(t) => Len(P) >= 1
    BY <1>5
  <1>10. /\ MaxSequence(log)' \in Nat /\ MaxSequence(log)' >= MaxSequence(log)
         /\ Ingestion(t) => MaxSequence(log)' >= n
         /\ Changes(t) => MaxSequence(log)' >= StatusNumber(t)
    <2> DEFINE p == Len(P)
               o == Len(O)
               l == MaxSequence(log)
    <2>1. p \in Nat /\ o \in Nat /\ l \in Nat /\ n = l + 1
      BY <1>4, <1>6
    <2>2. MaxSequence(log)' = l + (p + o)
      BY <1>6, <1>8
    <2>3. /\ Ingestion(t) => p >= 1
          /\ Changes(t) /\ txns[t].kind = "resolved" => p = 2
          /\ Changes(t) => p >= 1
      BY <1>9
    <2>4. StatusNumber(t) = IF txns[t].kind = "resolved" THEN n + 1 ELSE n
      BY DEF StatusNumber, n
    <2> HIDE DEF p, o, l
    <2>5. MaxSequence(log)' \in Nat /\ MaxSequence(log)' >= l
      BY <2>1, <2>2
    <2>6. Ingestion(t) => MaxSequence(log)' >= n
      BY <2>1, <2>2, <2>3
    <2>7. Changes(t) => MaxSequence(log)' >= StatusNumber(t)
      BY <2>1, <2>2, <2>3, <2>4
    <2> QED
      BY <2>5, <2>6, <2>7 DEF l
  <1>11. \A i \in 1 .. Len(log) + Len(P) + Len(O) :
           \/ i \in 1 .. Len(log)
           \/ \E k \in 1 .. Len(P) : i = Len(log) + k
           \/ \E k \in 1 .. Len(O) : i = Len(log) + Len(P) + k
    <2> SUFFICES ASSUME NEW i \in 1 .. Len(log) + Len(P) + Len(O)
                 PROVE  \/ i \in 1 .. Len(log)
                        \/ \E k \in 1 .. Len(P) : i = Len(log) + k
                        \/ \E k \in 1 .. Len(O) : i = Len(log) + Len(P) + k
      OBVIOUS
    <2>0. i \in Nat /\ i >= 1 /\ i <= Len(log) + Len(P) + Len(O)
      BY <1>6
    <2>3. CASE i <= Len(log)
      BY <2>0, <2>3, <1>6
    <2>1. CASE i > Len(log) /\ i <= Len(log) + Len(P)
      <3>1. i - Len(log) \in 1 .. Len(P) /\ i = Len(log) + (i - Len(log))
        BY <2>1, <1>6
      <3> QED
        BY <3>1
    <2>2. CASE i > Len(log) + Len(P)
      <3>1. i - (Len(log) + Len(P)) \in 1 .. Len(O)
            /\ i = Len(log) + Len(P) + (i - (Len(log) + Len(P)))
        BY <2>2, <1>6
      <3> QED
        BY <3>1
    <2> QED
      BY <2>0, <2>1, <2>2, <2>3, <1>6
  <1>12. \A k \in 1 .. Len(P) : P[k].type = "attached" <=> Ingestion(t) /\ k = 1
    BY <1>5, <1>6
  <1>13. Attached' = {i \in 1 .. Len(log) + Len(P) + Len(O) : log'[i].type = "attached"}
    BY <1>7 DEF Attached
  <1>14. \A i \in 1 .. Len(log) + Len(P) + Len(O) :
           log'[i].type = "attached" <=> i \in Attached \/ (Ingestion(t) /\ i = Len(log) + 1)
    <2> SUFFICES ASSUME NEW i \in 1 .. Len(log) + Len(P) + Len(O)
                 PROVE  log'[i].type = "attached"
                        <=> i \in Attached \/ (Ingestion(t) /\ i = Len(log) + 1)
      OBVIOUS
    <2>1. CASE i \in 1 .. Len(log)
      <3>1. i # Len(log) + 1
        BY <2>1, <1>6
      <3> QED
        BY <2>1, <3>1, <1>6, <1>7 DEF Attached
    <2>2. CASE \E k \in 1 .. Len(P) : i = Len(log) + k
      <3>1. PICK k \in 1 .. Len(P) : i = Len(log) + k
        BY <2>2
      <3>2. i \notin DOMAIN log /\ (i = Len(log) + 1 <=> k = 1)
        BY <3>1, <1>6
      <3>3. log'[i] = P[k]
        BY <3>1, <1>7
      <3> QED
        BY <3>2, <3>3, <1>12 DEF Attached
    <2>3. CASE \E k \in 1 .. Len(O) : i = Len(log) + Len(P) + k
      <3>1. PICK k \in 1 .. Len(O) : i = Len(log) + Len(P) + k
        BY <2>3
      <3>2. i \notin DOMAIN log /\ (Ingestion(t) => i # Len(log) + 1)
        BY <3>1, <1>6, <1>9
      <3>3. log'[i] = O[k] /\ O[k].type # "attached"
        BY <3>1, <1>2, <1>6, <1>7
      <3> QED
        BY <3>2, <3>3 DEF Attached
    <2> QED
      BY <2>1, <2>2, <2>3, <1>11
  <1>15. /\ \A i \in Attached : i \in 1 .. Len(log) + Len(P) + Len(O)
         /\ Ingestion(t) => Len(log) + 1 \in 1 .. Len(log) + Len(P) + Len(O)
    BY <1>6, <1>9 DEF Attached
  <1> QED
    BY <1>8, <1>10, <1>13, <1>14, <1>15 DEF n

LEMMA CommitInv ==
    ASSUME IInv, NEW t \in Txns, NEW review \in BOOLEAN, NEW full \in BOOLEAN,
           Commit(t, review, full)
    PROVE  IInv'
PROOF
  <1> DEFINE x == txns[t]
             n == NextSequence
             m == MaxSequence(log)
  <1>1. /\ TypeOK /\ At(t, "read") /\ row' = Written(t) /\ opening' = opening /\ deletes' = deletes
        /\ txns' = [txns EXCEPT ![t].pc = "done", ![t].saw = Blank]
        /\ overtaken' = (overtaken \/ (Ingestion(t) /\ row.seen # txns[t].saw.seen))
        /\ \/ active' = active /\ settled' = settled /\ silenced' = silenced
           \/ /\ x.kind = "firing" /\ settled' = settled
              /\ active' = active \/ active' = {n}
              /\ silenced' = IF n \in settled THEN silenced \cup {t} ELSE silenced
    BY DEF IInv, Commit, Enqueue, JobNumber, queue
  <1>2. /\ log' \in Seq(Event)
        /\ (\A i, j \in DOMAIN log : i < j => log[i].seq < log[j].seq)'
        /\ MaxSequence(log)' \in Nat /\ MaxSequence(log)' >= m
        /\ Ingestion(t) => MaxSequence(log)' >= n
        /\ Changes(t) => MaxSequence(log)' >= StatusNumber(t)
        /\ Attached' = IF Ingestion(t) THEN Attached \cup {Len(log) + 1} ELSE Attached
    BY CommitLog
  <1>3. m \in Nat /\ n \in Nat /\ n = m + 1 /\ StatusNumber(t) \in {n, n + 1}
    BY <1>1, NextSequenceType DEF StatusNumber
  <1>4. row \in State /\ row' \in State /\ Blank \in State
    BY <1>1, WrittenColumns DEF TypeOK, Blank, State, Status
  <1>5. /\ \A u \in Txns \ {t} : txns'[u] = txns[u]
        /\ txns'[t].pc = "done"
    BY <1>1 DEF TypeOK, Txn
  <1>6. \A u \in Txns : At(u, "read")' => At(u, "read") /\ txns'[u].saw = txns[u].saw
                                          /\ u # t
    BY <1>5 DEF At
  <1>7. TypeOK'
    <2>1. txns' \in [Txns -> Txn]
      BY <1>1, <1>4 DEF TypeOK, Txn
    <2>2. active' \subseteq Nat /\ settled' \subseteq Nat /\ silenced' \subseteq Txns
          /\ overtaken' \in BOOLEAN
      BY <1>1, <1>3 DEF TypeOK
    <2> QED
      BY <1>1, <1>2, <1>4, <2>1, <2>2 DEF TypeOK
  <1>8. OriginKnown'
    <2> DEFINE saw == x.saw
               p == Prepared(t)
               f == Effect(t, p)
    <2>1. /\ saw \in State /\ p \in State /\ p.origin = saw.origin /\ p.mttr = saw.mttr
      BY <1>1, PreparedColumns
    <2>2. f.origin = p.origin /\ (f.mttr = p.origin \/ f.mttr = p.mttr)
      BY <1>1, <2>1, EffectColumns DEF EffectOn
    <2>3. /\ row'.origin = (IF saw.origin = p.origin /\ p.origin = f.origin THEN row.origin ELSE f.origin)
          /\ row'.mttr = (IF saw.mttr = p.mttr /\ p.mttr = f.mttr THEN row.mttr ELSE f.mttr)
      <3>1. \A c \in Columns : row'[c] = IF saw[c] = p[c] /\ p[c] = f[c] THEN row[c] ELSE f[c]
        BY <1>1, WrittenColumns
      <3> HIDE DEF saw, p, f
      <3> QED
        BY <3>1 DEF Columns
    <2>4. saw.origin /\ row.origin /\ saw.origin \in BOOLEAN /\ row.origin \in BOOLEAN
          /\ row.mttr \in BOOLEAN /\ saw.mttr \in BOOLEAN
      BY <1>1, <1>4, <2>1 DEF IInv, OriginKnown, State
    <2> HIDE DEF saw, p, f
    <2>5. row'.origin /\ (row.mttr => row'.mttr)
      BY <2>1, <2>2, <2>3, <2>4
    <2> QED
      BY <2>5, <1>6 DEF IInv, OriginKnown
  <1>9. CASE deletes # 0
    BY <1>1, <1>7, <1>8, <1>9
       DEF IInv, TypeOK, LifecycleReplays, DetailsUnlessOvertaken, SilencedOnlyAfterDeletion, ReplayKnown,
           SeenTimely, DetailsCurrent, JobsNumbered
  <1>10. CASE deletes = 0
    <2> DEFINE saw == x.saw
               k == StatusNumber(t)
    <2>1. /\ Replayed' \in State /\ EffectOn(t, Replayed', Replayed)
          /\ row'.seen = IF Ingestion(t) THEN n ELSE row.seen
          /\ row'.severity =
               IF Ingestion(t) /\ saw.severity # x.severity THEN x.severity ELSE row.severity
          /\ row'.count = IF Ingestion(t) THEN saw.count + 2 ELSE row.count
          /\ row'.status = IF Changes(t) THEN x.to ELSE row.status
          /\ row'.ack = IF Changes(t) /\ x.to = "investigating" THEN k ELSE row.ack
          /\ row'.mit = IF Changes(t) /\ x.to = "mitigating" THEN k ELSE row.mit
          /\ row'.res = IF Changes(t) /\ x.to = "resolved" THEN k ELSE row.res
          /\ row'.closed = IF Changes(t) /\ x.to = "closed" THEN k ELSE row.closed
          /\ row'.mttr = IF Changes(t) /\ x.to = "resolved" THEN TRUE ELSE row.mttr
      BY <1>10, CommitColumns
    <2>2. /\ Replayed'.seen = IF Ingestion(t) THEN n ELSE Replayed.seen
          /\ Replayed'.severity = IF Ingestion(t) THEN x.severity ELSE Replayed.severity
          /\ Replayed'.count = IF Ingestion(t) THEN Replayed.count + 1 ELSE Replayed.count
          /\ Replayed'.status = IF Changes(t) THEN x.to ELSE Replayed.status
          /\ Replayed'.ack = IF Changes(t) /\ x.to = "investigating" THEN k ELSE Replayed.ack
          /\ Replayed'.mit = IF Changes(t) /\ x.to = "mitigating" THEN k ELSE Replayed.mit
          /\ Replayed'.res = IF Changes(t) /\ x.to = "resolved" THEN k ELSE Replayed.res
          /\ Replayed'.closed = IF Changes(t) /\ x.to = "closed" THEN k ELSE Replayed.closed
          /\ Replayed'.mttr = IF Changes(t) /\ x.to = "resolved" THEN Replayed.origin ELSE Replayed.mttr
          /\ Replayed'.origin = Replayed.origin
      BY <2>1 DEF EffectOn
    <2>3. ReplayKnown'
      BY <1>1, <1>10, <2>1, <2>2 DEF IInv, ReplayKnown
    <2>4. LifecycleReplays'
      <3>1. /\ Replayed.status = row.status /\ Replayed.ack = row.ack /\ Replayed.mit = row.mit
            /\ Replayed.res = row.res /\ Replayed.closed = row.closed /\ Replayed.seen = row.seen
            /\ Replayed.mttr = (row.mttr /\ opening = "opened")
            /\ Replayed.origin = (opening = "opened")
        BY <1>10 DEF IInv, LifecycleReplays, Lifecycle, ReplayKnown
      <3>2. Lifecycle(Replayed') = Lifecycle(row')
        BY <2>1, <2>2, <3>1 DEF Lifecycle
      <3>3. Replayed'.mttr = (row'.mttr /\ opening = "opened")
        BY <2>1, <2>2, <3>1
      <3> QED
        BY <1>1, <3>2, <3>3 DEF LifecycleReplays, Lifecycle
    <2>5. DetailsUnlessOvertaken'
      <3> SUFFICES ASSUME ~overtaken'
                   PROVE  /\ row'.severity = Replayed'.severity
                          /\ row'.count = 2 * Cardinality(Attached')
                          /\ Replayed'.count = Cardinality(Attached') + IF opening = "opened" THEN 1 ELSE 0
        BY <1>1 DEF DetailsUnlessOvertaken
      <3>1. ~overtaken /\ (Ingestion(t) => row.seen = saw.seen)
        BY <1>1
      <3>2. /\ row.severity = Replayed.severity
            /\ row.count = 2 * Cardinality(Attached)
            /\ Replayed.count = Cardinality(Attached) + IF opening = "opened" THEN 1 ELSE 0
        BY <1>10, <3>1 DEF IInv, DetailsUnlessOvertaken
      <3>3. Ingestion(t) => saw.severity = row.severity /\ saw.count = row.count
        BY <1>1, <1>10, <3>1 DEF IInv, DetailsCurrent
      <3>4. CASE Ingestion(t)
        <4>1. IsFiniteSet(Attached) /\ Len(log) + 1 \notin Attached /\ Cardinality(Attached) \in Nat
          <5>1. log \in Seq(Event)
            BY <1>1 DEF TypeOK
          <5>2. Attached \subseteq 1 .. Len(log) /\ Len(log) \in Nat
            BY <5>1 DEF Attached
          <5>3. IsFiniteSet(Attached)
            <6>1. IsFiniteSet(1 .. Len(log))
              BY <5>2, FS_Interval
            <6> QED
              BY <5>2, <6>1, FS_Subset
          <5> QED
            BY <5>2, <5>3, FS_CardinalityType
        <4>2. Cardinality(Attached') = Cardinality(Attached) + 1
          BY <1>2, <3>4, <4>1, FS_AddElement
        <4>3. row'.severity = x.severity /\ Replayed'.severity = x.severity
          BY <2>1, <2>2, <3>3, <3>4
        <4>4. row'.count = row.count + 2 /\ Replayed'.count = Replayed.count + 1
          BY <2>1, <2>2, <3>3, <3>4
        <4> QED
          BY <3>2, <4>1, <4>2, <4>3, <4>4
      <3>5. CASE ~Ingestion(t)
        BY <1>2, <2>1, <2>2, <3>2, <3>5
      <3> QED
        BY <3>4, <3>5
    <2>6. SilencedOnlyAfterDeletion' /\ JobsNumbered'
      <3>1. n \notin settled /\ silenced = {}
        BY <1>3, <1>10 DEF IInv, JobsNumbered, SilencedOnlyAfterDeletion
      <3>2. silenced' = {}
        BY <1>1, <3>1
      <3>3. \A j \in active \cup settled : j \in Nat /\ j <= m
        BY <1>1, <1>10 DEF IInv, TypeOK, JobsNumbered
      <3>4. \A j \in active' \cup settled' : j \in active \cup settled \/ (j = n /\ Ingestion(t))
        BY <1>1 DEF Ingestion
      <3>5. \A j \in active' \cup settled' : j <= MaxSequence(log)'
        BY <1>2, <1>3, <3>3, <3>4
      <3> QED
        BY <3>2, <3>5 DEF SilencedOnlyAfterDeletion, JobsNumbered
    <2>7. SeenTimely'
      <3>1. /\ row.seen \in Nat /\ row.ack \in Nat /\ row.mit \in Nat /\ row.res \in Nat
            /\ row.closed \in Nat /\ Timely(row, m)
        BY <1>4, <1>10 DEF State, IInv, SeenTimely
      <3>2. Timely(row', MaxSequence(log)')
        BY <1>2, <1>3, <2>1, <3>1 DEF Timely
      <3>3. ASSUME NEW u \in Txns, At(u, "read")'
            PROVE  Timely(txns'[u].saw, MaxSequence(log)')
        <4>1. Timely(txns[u].saw, m) /\ txns[u].saw \in State /\ txns'[u].saw = txns[u].saw
          BY <1>1, <1>6, <1>10, <3>3 DEF IInv, SeenTimely, TypeOK, Txn
        <4> DEFINE z == txns[u].saw
        <4>2. z.seen \in Nat /\ z.ack \in Nat /\ z.mit \in Nat /\ z.res \in Nat /\ z.closed \in Nat
          BY <4>1 DEF State
        <4> DEFINE l == MaxSequence(log)'
        <4>3. \A v \in Nat : v <= m => v <= l
          BY <1>2, <1>3
        <4> HIDE DEF z, l
        <4>4. Timely(z, l)
          BY <4>1, <4>2, <4>3 DEF Timely, z
        <4> QED
          BY <4>1, <4>4 DEF z, l
      <3> QED
        BY <3>2, <3>3 DEF SeenTimely
    <2>8. DetailsCurrent'
      <3> SUFFICES ASSUME NEW u \in Txns, At(u, "read")', txns'[u].saw.seen = row'.seen
                   PROVE  txns'[u].saw.severity = row'.severity /\ txns'[u].saw.count = row'.count
        BY DEF DetailsCurrent
      <3>1. At(u, "read") /\ txns'[u].saw = txns[u].saw
        BY <1>6
      <3>2. txns[u].saw.seen <= m /\ txns[u].saw.seen \in Nat
        BY <1>1, <1>10, <3>1 DEF IInv, SeenTimely, Timely, TypeOK, Txn, State
      <3>3. ~Ingestion(t)
        BY <1>3, <2>1, <3>1, <3>2
      <3>4. row'.severity = row.severity /\ row'.count = row.count /\ row'.seen = row.seen
        BY <2>1, <3>3
      <3> QED
        BY <1>10, <3>1, <3>4 DEF IInv, DetailsCurrent
    <2> QED
      BY <1>7, <1>8, <2>3, <2>4, <2>5, <2>6, <2>7, <2>8 DEF IInv
  <1> QED
    BY <1>9, <1>10

LEMMA StepInv == IInv /\ [Next]_vars => IInv'
PROOF
  <1> SUFFICES ASSUME IInv, [Next]_vars PROVE IInv'
    OBVIOUS
  <1>1. ASSUME NEW t \in Txns, NEW kind \in {"firing", "resolved"}, NEW s \in Severities,
               NEW to \in Status, ReadIncident(t, kind, s, to)
        PROVE  IInv'
    BY <1>1, ReadIncidentInv, ReplayAssumption DEF Kinds
  <1>2. ASSUME NEW t \in Txns, NEW kind \in {"change", "analyze", "report"},
               NEW to \in Status, ReadIncident(t, kind, 0, to)
        PROVE  IInv'
    BY <1>2, ReadIncidentInv DEF Kinds
  <1>3. ASSUME NEW t \in Txns, NEW review \in BOOLEAN, NEW full \in BOOLEAN, Commit(t, review, full)
        PROVE  IInv'
    BY <1>3, CommitInv
  <1>4. ASSUME NEW n \in active, SettleJob(n) PROVE IInv'
    BY <1>4, SettleJobInv
  <1>5. ASSUME NEW i \in DOMAIN log, DeleteEvent(i) PROVE IInv'
    BY <1>5, DeleteEventInv
  <1>6. CASE UNCHANGED vars
    BY <1>6 DEF vars, IInv, TypeOK, LifecycleReplays, DetailsUnlessOvertaken, SilencedOnlyAfterDeletion,
                ReplayKnown, OriginKnown, SeenTimely, DetailsCurrent, JobsNumbered, Replayed, Attached, At
  <1> QED
    BY <1>1, <1>2, <1>3, <1>4, <1>5, <1>6 DEF Next

\* The invariant holds in every state.
THEOREM Invariance == Spec => []IInv
PROOF
  <1> QED
    BY InitInv, StepInv, PTL DEF Spec

\* Every variable has its shape, and the events of an incident keep the order of
\* their numbers whatever is appended and deleted.
THEOREM TypeCorrect == Spec => []TypeOK
PROOF
  <1>1. IInv => TypeOK
    BY DEF IInv
  <1> QED
    BY <1>1, Invariance, PTL

\* GET /incidents/{id}/events/replay gives the status, the times of the lifecycle
\* and the last alert of the incident's row, in whatever order transactions that
\* overlap read and write, for logs of any length, until an event is deleted.
THEOREM ReplayAgrees == Spec => []LifecycleReplays
PROOF
  <1>1. IInv => LifecycleReplays
    BY DEF IInv
  <1> QED
    BY <1>1, Invariance, PTL

\* The severity and the number of alerts follow the log as long as no ingestion
\* overtakes another: twice the number of alerts in the row, once in the replay.
THEOREM DetailsAgree == Spec => []DetailsUnlessOvertaken
PROOF
  <1>1. IInv => DetailsUnlessOvertaken
    BY DEF IInv
  <1> QED
    BY <1>1, Invariance, PTL

\* No firing alert is given a job that is over unless an event was deleted: the
\* number in the key of a job is never used twice.
THEOREM NeverSilenced == Spec => []SilencedOnlyAfterDeletion
PROOF
  <1>1. IInv => SilencedOnlyAfterDeletion
    BY DEF IInv
  <1> QED
    BY <1>1, Invariance, PTL
=============================================================================
