------------------------ MODULE ModelRoutingProofs ------------------------
(***************************************************************************)
(* Proofs about ModelRouting, for any providers, models, URLs, keys and    *)
(* defaults, and any number of writers and callers.  The heart is that     *)
(* what validate_llm_config writes it accepts and leaves alone: Normal is  *)
(* idempotent (NormalIsNormalised, NormalisedIsNormal), and so a file that *)
(* is loaded is the file that was saved.                                   *)
(***************************************************************************)
EXTENDS ModelRouting, WellFoundedInduction, TLAPS

-----------------------------------------------------------------------------
(* The recursion in Deduped.                                               *)

\* Every nonempty set of numbers has a least one.
LEMMA LeastNat ==
    ASSUME NEW T \in SUBSET Nat, T # {}
    PROVE  \E m \in T : \A k \in T : m <= k
PROOF
  <1>1. PICK m \in T : \A k \in T : ~ (<<k, m>> \in OpToRel(<, Nat))
    BY NatLessThanWellFounded, WFMin
  <1>2. \A k \in T : ~ (k < m)
    BY <1>1 DEF OpToRel
  <1> QED
    BY <1>2

\* What the function in Deduped satisfies up to n.
Dedupes(s, n, d) == d = [i \in 0 .. n |-> IF i = 0 THEN <<>> ELSE Noted(d[i - 1], s[i])]

\* There is such a function for every n: the first n without one would have one.
LEMMA DedupesExists ==
    ASSUME NEW s, NEW n \in Nat
    PROVE  \E d : Dedupes(s, n, d)
PROOF
  <1> DEFINE T == {k \in Nat : ~ \E d : Dedupes(s, k, d)}
  <1> SUFFICES ASSUME T # {} PROVE FALSE
    OBVIOUS
  <1>1. PICK m \in T : \A k \in T : m <= k
    BY LeastNat
  <1>2. CASE m = 0
    <2> DEFINE d == [i \in 0 .. 0 |-> <<>>]
    <2>1. Dedupes(s, 0, d)
      BY \A i \in 0 .. 0 : i = 0 DEF Dedupes
    <2> QED
      BY <1>2, <2>1
  <1>3. CASE m # 0
    <2>1. m - 1 \in Nat /\ m - 1 \notin T
      BY <1>1, <1>3
    <2>2. PICK c : Dedupes(s, m - 1, c)
      BY <2>1
    <2> DEFINE d == [i \in 0 .. m |-> IF i = m THEN Noted(c[m - 1], s[m]) ELSE c[i]]
    <2>3. ASSUME NEW i \in 0 .. m
          PROVE  d[i] = IF i = 0 THEN <<>> ELSE Noted(d[i - 1], s[i])
      <3>1. CASE i = m
        BY <1>3, <2>1, <3>1
      <3>2. CASE i # m
        <4>1. i \in 0 .. m - 1 /\ i # m /\ (i # 0 => i - 1 \in 0 .. m /\ i - 1 # m)
          BY <2>1, <3>2
        <4>2. c[i] = IF i = 0 THEN <<>> ELSE Noted(c[i - 1], s[i])
          BY <2>2, <4>1 DEF Dedupes
        <4> QED
          BY <4>1, <4>2
      <3> QED
        BY <3>1, <3>2
    <2>4. Dedupes(s, m, d)
      BY <2>3 DEF Dedupes
    <2> QED
      BY <1>1, <2>4
  <1> QED
    BY <1>2, <1>3

\* Deduped(s) is the last value of such a function.
LEMMA DedupedIsLast ==
    ASSUME NEW S, NEW s \in Seq(S)
    PROVE  \E d : Dedupes(s, Len(s), d) /\ Deduped(s) = d[Len(s)]
PROOF
  <1>1. PICK d : Dedupes(s, Len(s), d)
    BY DedupesExists, Len(s) \in Nat
  <1>2. Dedupes(s, Len(s), CHOOSE f : Dedupes(s, Len(s), f))
    BY <1>1
  <1>3. Deduped(s) = (CHOOSE f : Dedupes(s, Len(s), f))[Len(s)]
    BY DEF Deduped, Dedupes
  <1> QED
    BY <1>2, <1>3

Distinct(s) == \A i, j \in DOMAIN s : s[i] = s[j] => i = j

\* What Append does, for a typed sequence.
LEMMA AppendFacts ==
    ASSUME NEW S, NEW seen \in Seq(S), NEW m \in S
    PROVE  /\ Append(seen, m) \in Seq(S) /\ Len(seen) \in Nat
           /\ Len(Append(seen, m)) = Len(seen) + 1 /\ DOMAIN seen = 1 .. Len(seen)
           /\ DOMAIN Append(seen, m) = 1 .. Len(seen) + 1
           /\ Append(seen, m)[Len(seen) + 1] = m
           /\ \A i \in 1 .. Len(seen) : Append(seen, m)[i] = seen[i]
PROOF
  OBVIOUS

\* A mention adds its model once.
LEMMA NotedFacts ==
    ASSUME NEW S, NEW seen \in Seq(S), NEW m \in S, Distinct(seen)
    PROVE  /\ Noted(seen, m) \in Seq(S) /\ Distinct(Noted(seen, m))
           /\ ToSet(Noted(seen, m)) = ToSet(seen) \cup {m}
PROOF
  <1>1. CASE m \in ToSet(seen)
    <2>1. Noted(seen, m) = seen
      BY <1>1 DEF Noted
    <2> QED
      BY <1>1, <2>1
  <1>2. CASE m \notin ToSet(seen)
    <2> DEFINE r == Append(seen, m)
               n == Len(seen)
    <2>1. Noted(seen, m) = r
      BY <1>2 DEF Noted
    <2>2. /\ r \in Seq(S) /\ n \in Nat /\ DOMAIN seen = 1 .. n /\ DOMAIN r = 1 .. n + 1
          /\ r[n + 1] = m /\ \A i \in 1 .. n : r[i] = seen[i]
      BY AppendFacts
    <2> HIDE DEF r, n
    <2>3. \A i \in 1 .. n + 1 : i \in 1 .. n \/ i = n + 1
      BY <2>2
    <2>4. \A i \in 1 .. n : seen[i] # m
      BY <1>2, <2>2 DEF ToSet
    <2>5. Distinct(r)
      BY <2>2, <2>3, <2>4 DEF Distinct
    <2>6. ToSet(r) = ToSet(seen) \cup {m}
      <3>1. \A x \in ToSet(r) : x \in ToSet(seen) \cup {m}
        BY <2>2, <2>3 DEF ToSet
      <3>2. m \in ToSet(r)
        BY <2>2, n + 1 \in 1 .. n + 1 DEF ToSet
      <3>3. \A x \in ToSet(seen) : x \in ToSet(r)
        BY <2>2, 1 .. n \subseteq 1 .. n + 1 DEF ToSet
      <3> QED
        BY <3>1, <3>2, <3>3
    <2> QED
      BY <2>1, <2>2, <2>5, <2>6
  <1> QED
    BY <1>1, <1>2

\* Deduped has the elements of its argument, each once.
LEMMA DedupedFacts ==
    ASSUME NEW S, NEW s \in Seq(S)
    PROVE  Deduped(s) \in Seq(S) /\ Distinct(Deduped(s)) /\ ToSet(Deduped(s)) = ToSet(s)
PROOF
  <1>1. PICK d : Dedupes(s, Len(s), d) /\ Deduped(s) = d[Len(s)]
    BY DedupedIsLast
  <1>2. Len(s) \in Nat /\ DOMAIN s = 1 .. Len(s) /\ \A i \in 1 .. Len(s) : s[i] \in S
    OBVIOUS
  <1>3. \A i \in 0 .. Len(s) : d[i] = IF i = 0 THEN <<>> ELSE Noted(d[i - 1], s[i])
    BY <1>1 DEF Dedupes
  <1> DEFINE P(k) == d[k] \in Seq(S) /\ Distinct(d[k]) /\ ToSet(d[k]) = {s[i] : i \in 1 .. k}
             T == {k \in Nat : k <= Len(s) /\ ~ P(k)}
  <1>4. T = {}
    <2> SUFFICES ASSUME T # {} PROVE FALSE
      OBVIOUS
    <2>1. PICK m \in T : \A k \in T : m <= k
      BY LeastNat
    <2> HIDE DEF P
    <2>2. CASE m = 0
      <3>1. d[0] = <<>>
        BY <1>2, <1>3
      <3>2. P(0)
        BY <3>1 DEF P, Distinct, ToSet
      <3> QED
        BY <2>1, <2>2, <3>2
    <2>3. CASE m # 0
      <3>1. m - 1 \in Nat /\ m \in 1 .. Len(s) /\ m \in 0 .. Len(s) /\ m - 1 <= Len(s)
        BY <1>2, <2>3
      <3>2. P(m - 1)
        BY <1>2, <2>1, <3>1
      <3>3. d[m] = Noted(d[m - 1], s[m]) /\ s[m] \in S
        BY <1>2, <1>3, <2>3, <3>1
      <3>4. d[m] \in Seq(S) /\ Distinct(d[m]) /\ ToSet(d[m]) = ToSet(d[m - 1]) \cup {s[m]}
        <4>1. d[m - 1] \in Seq(S) /\ Distinct(d[m - 1])
          BY <3>2 DEF P
        <4> DEFINE c == d[m - 1]
        <4>3. c \in Seq(S) /\ Distinct(c)
          BY <4>1
        <4> HIDE DEF c
        <4>2. Noted(c, s[m]) \in Seq(S) /\ Distinct(Noted(c, s[m]))
              /\ ToSet(Noted(c, s[m])) = ToSet(c) \cup {s[m]}
          <5>1. s[m] \in S
            BY <3>3
          <5> QED
            BY <4>3, <5>1, NotedFacts, Zenon
        <4> QED
          BY <3>3, <4>2 DEF c
      <3>5. {s[i] : i \in 1 .. m} = {s[i] : i \in 1 .. m - 1} \cup {s[m]}
        <4>1. \A i \in 1 .. m : i \in 1 .. m - 1 \/ i = m
          BY <3>1
        <4>2. \A i \in 1 .. m - 1 : i \in 1 .. m
          BY <3>1
        <4>3. m \in 1 .. m
          BY <3>1
        <4> QED
          BY <4>1, <4>2, <4>3
      <3>6. P(m)
        BY <3>2, <3>4, <3>5 DEF P
      <3> QED
        BY <2>1, <3>6
    <2> QED
      BY <2>2, <2>3
  <1> HIDE DEF P
  <1>5. P(Len(s))
    BY <1>2, <1>4
  <1> USE DEF P
  <1>6. ToSet(s) = {s[i] : i \in 1 .. Len(s)}
    BY <1>2 DEF ToSet
  <1> QED
    BY <1>1, <1>5, <1>6

\* It leaves a sequence of distinct elements alone.
LEMMA DedupedOfDistinct ==
    ASSUME NEW S, NEW s \in Seq(S), Distinct(s)
    PROVE  Deduped(s) = s
PROOF
  <1>1. PICK d : Dedupes(s, Len(s), d) /\ Deduped(s) = d[Len(s)]
    BY DedupedIsLast
  <1>2. Len(s) \in Nat /\ DOMAIN s = 1 .. Len(s) /\ \A i \in 1 .. Len(s) : s[i] \in S
    OBVIOUS
  <1>3. \A i \in 0 .. Len(s) : d[i] = IF i = 0 THEN <<>> ELSE Noted(d[i - 1], s[i])
    BY <1>1 DEF Dedupes
  <1> DEFINE P(k) == d[k] \in Seq(S) /\ Len(d[k]) = k /\ \A i \in 1 .. k : d[k][i] = s[i]
             T == {k \in Nat : k <= Len(s) /\ ~ P(k)}
  <1>4. T = {}
    <2> SUFFICES ASSUME T # {} PROVE FALSE
      OBVIOUS
    <2>1. PICK m \in T : \A k \in T : m <= k
      BY LeastNat
    <2> HIDE DEF P
    <2>2. CASE m = 0
      <3>1. d[0] = <<>>
        BY <1>2, <1>3
      <3>2. P(0)
        BY <3>1 DEF P
      <3> QED
        BY <2>1, <2>2, <3>2
    <2>3. CASE m # 0
      <3> DEFINE k == m - 1
                 c == d[k]
      <3>1. k \in Nat /\ m \in 1 .. Len(s) /\ m \in 0 .. Len(s) /\ k <= Len(s) /\ m = k + 1
        BY <1>2, <2>3
      <3>2. P(k)
        BY <1>2, <2>1, <3>1
      <3>3. d[m] = Noted(c, s[m]) /\ s[m] \in S
        BY <1>2, <1>3, <2>3, <3>1
      <3>4. c \in Seq(S) /\ Len(c) = k /\ \A i \in 1 .. k : c[i] = s[i]
        BY <3>2 DEF P
      <3> HIDE DEF k, c
      <3>5. s[m] \notin ToSet(c)
        <4>1. \A i \in 1 .. k : i \in 1 .. Len(s) /\ i # m
          BY <1>2, <3>1
        <4>2. \A i \in 1 .. k : s[i] # s[m]
          BY <1>2, <3>1, <4>1 DEF Distinct
        <4>3. DOMAIN c = 1 .. k
          BY <3>4
        <4> QED
          BY <3>4, <4>2, <4>3 DEF ToSet
      <3>6. d[m] = Append(c, s[m])
        BY <3>3, <3>5 DEF Noted
      <3>7. /\ Append(c, s[m]) \in Seq(S) /\ Len(Append(c, s[m])) = Len(c) + 1
            /\ Append(c, s[m])[Len(c) + 1] = s[m]
            /\ \A i \in 1 .. Len(c) : Append(c, s[m])[i] = c[i]
        BY <3>3, <3>4, AppendFacts
      <3>8. \A i \in 1 .. m : i \in 1 .. k \/ i = m
        BY <3>1
      <3>9. P(m)
        BY <3>1, <3>4, <3>6, <3>7, <3>8 DEF P
      <3> QED
        BY <2>1, <3>9
    <2> QED
      BY <2>2, <2>3
  <1>5. P(Len(s))
    BY <1>2, <1>4
  <1>6. DOMAIN d[Len(s)] = 1 .. Len(s) /\ \A i \in 1 .. Len(s) : d[Len(s)][i] = s[i]
    BY <1>5
  <1>7. d[Len(s)] = [i \in DOMAIN d[Len(s)] |-> d[Len(s)][i]] /\ s = [i \in DOMAIN s |-> s[i]]
    BY <1>5
  <1>8. d[Len(s)] = s
    BY <1>2, <1>6, <1>7
  <1> QED
    BY <1>1, <1>8

-----------------------------------------------------------------------------
(* Configurations.                                                         *)

\* Elements have the type of the sequence; the head is one.
LEMMA Elements ==
    ASSUME NEW S, NEW s \in Seq(S)
    PROVE  ToSet(s) \subseteq S /\ (s # <<>> => Head(s) \in ToSet(s))
PROOF
  <1>1. DOMAIN s = 1 .. Len(s) /\ Len(s) \in Nat /\ \A i \in 1 .. Len(s) : s[i] \in S
    OBVIOUS
  <1>2. s # <<>> => Head(s) = s[1] /\ 1 \in 1 .. Len(s)
    OBVIOUS
  <1> QED
    BY <1>1, <1>2 DEF ToSet

\* The fields of a configuration.
LEMMA ConfigFields ==
    ASSUME NEW c \in Config
    PROVE  /\ c.providers \in Seq(Providers) /\ Enabled(c) \subseteq Providers
           /\ c.models \in [Providers -> Seq(Models)]
           /\ c.url \in [Providers -> Urls \cup {None}]
           /\ c.name \in [Providers -> Names \cup {None}]
           /\ c.main \in [Providers -> Models \cup {None}]
           /\ c.agents \in [Agents -> Route \cup {NoRoute}]
           /\ c.providers # <<>> => Head(c.providers) \in Enabled(c)
PROOF
  <1>1. /\ c.providers \in Seq(Providers)
        /\ c.models \in [Providers -> Seq(Models)]
        /\ c.url \in [Providers -> Urls \cup {None}]
        /\ c.name \in [Providers -> Names \cup {None}]
        /\ c.main \in [Providers -> Models \cup {None}]
        /\ c.agents \in [Agents -> Route \cup {NoRoute}]
    BY DEF Config
  <1>2. Enabled(c) \subseteq Providers /\ (c.providers # <<>> => Head(c.providers) \in Enabled(c))
    BY <1>1, Elements DEF Enabled
  <1> QED
    BY <1>1, <1>2

\* What saved configurations look like, whether they can be read or not.
Normalised(c) ==
    /\ c \in Config /\ c.providers # <<>>
    /\ \A p \in Enabled(c) : /\ c.models[p] # <<>> /\ Distinct(c.models[p])
                              /\ c.main[p] \in ToSet(c.models[p])
                              /\ c.url[p] \in Urls \ {"/", None} /\ c.name[p] \in Names
    /\ \A p \in Providers \ Enabled(c) :
         /\ c.models[p] = <<>> /\ c.main[p] = None
         /\ c.url[p] = None /\ c.name[p] = None
    /\ \A a \in Agents : /\ c.agents[a] \in Route /\ c.agents[a].provider \in Enabled(c)
                          /\ c.agents[a].model \in ToSet(c.models[c.agents[a].provider])

\* No route is the missing one.
LEMMA RouteNotNone == NoRoute \notin Route
PROOF
  BY RoutingAssumption DEF NoRoute, Route

\* Every agent of a valid configuration has a route to a model of an enabled provider.
LEMMA RoutesLead ==
    ASSUME NEW c \in Config, Valid(c), NEW a \in Agents
    PROVE  /\ Routes(c)[a] \in Route /\ Routes(c)[a].provider \in Enabled(c)
           /\ Routes(c)[a].model \in ToSet(c.models[Routes(c)[a].provider])
PROOF
  <1> DEFINE d == DefaultConfig.agents[a]
             p == IF d.provider \in Enabled(c) THEN d.provider ELSE Head(c.providers)
             m == IF d.model \in ToSet(c.models[p]) THEN d.model ELSE Head(c.models[p])
  <1>1. /\ c.models \in [Providers -> Seq(Models)] /\ Enabled(c) \subseteq Providers
        /\ c.agents \in [Agents -> Route \cup {NoRoute}] /\ Head(c.providers) \in Enabled(c)
    BY ConfigFields DEF Valid
  <1>2. Routes(c)[a] = IF c.agents[a] = NoRoute THEN [provider |-> p, model |-> m] ELSE c.agents[a]
    BY DEF Routes, DefaultRoute
  <1>3. CASE c.agents[a] # NoRoute
    BY <1>1, <1>2, <1>3 DEF Valid
  <1>4. CASE c.agents[a] = NoRoute
    <2>1. p \in Enabled(c) /\ p \in Providers
      BY <1>1
    <2> HIDE DEF p
    <2>2. c.models[p] \in Seq(Models) /\ c.models[p] # <<>>
      BY <1>1, <2>1 DEF Valid
    <2>3. m \in ToSet(c.models[p]) /\ ToSet(c.models[p]) \subseteq Models
      BY <2>2, Elements
    <2> HIDE DEF m
    <2>4. Routes(c)[a] = [provider |-> p, model |-> m]
      BY <1>2, <1>4
    <2> QED
      BY <2>1, <2>3, <2>4 DEF Route
  <1> QED
    BY <1>3, <1>4

\* validate_llm_config answers a configuration of that shape.
LEMMA NormalIsNormalised ==
    ASSUME NEW c \in Config, Valid(c)
    PROVE  Normalised(Normal(c)) /\ Normal(c).agents = Routes(c) /\ Enabled(Normal(c)) = Enabled(c)
PROOF
  <1> DEFINE main(p) == IF c.main[p] = None THEN DefaultConfig.main[p] ELSE c.main[p]
             n == Normal(c)
             models == [p \in Providers |-> IF p \in Enabled(c) THEN Deduped(c.models[p]) ELSE <<>>]
             url == [p \in Providers |->
                       IF p \notin Enabled(c) THEN None
                       ELSE IF c.url[p] = None THEN DefaultConfig.url[p] ELSE Stripped(c.url[p])]
             name == [p \in Providers |->
                       IF p \notin Enabled(c) THEN None
                       ELSE IF c.name[p] = None THEN DefaultConfig.name[p] ELSE c.name[p]]
             mains == [p \in Providers |->
                        IF p \notin Enabled(c) THEN None
                        ELSE IF main(p) \in ToSet(c.models[p]) THEN main(p) ELSE Head(c.models[p])]
  <1>1. n = [providers |-> c.providers, models |-> models, url |-> url, name |-> name,
             main |-> mains, agents |-> Routes(c)]
    BY DEF Normal
  <1>2. /\ c.providers \in Seq(Providers) /\ c.providers # <<>>
        /\ Enabled(c) \subseteq Providers /\ c.models \in [Providers -> Seq(Models)]
        /\ c.url \in [Providers -> Urls \cup {None}] /\ c.name \in [Providers -> Names \cup {None}]
        /\ \A p \in Enabled(c) : c.models[p] # <<>> /\ c.url[p] # ""
    BY ConfigFields DEF Valid
  <1>3. ASSUME NEW p \in Enabled(c)
        PROVE  /\ models[p] \in Seq(Models) /\ models[p] # <<>> /\ Distinct(models[p])
               /\ ToSet(models[p]) = ToSet(c.models[p])
               /\ mains[p] \in ToSet(models[p]) /\ ToSet(models[p]) \subseteq Models
    <2>1. c.models[p] \in Seq(Models) /\ c.models[p] # <<>>
      BY <1>2
    <2>2. /\ Deduped(c.models[p]) \in Seq(Models) /\ Distinct(Deduped(c.models[p]))
          /\ ToSet(Deduped(c.models[p])) = ToSet(c.models[p])
      BY <2>1, DedupedFacts
    <2>3. ToSet(c.models[p]) \subseteq Models /\ Head(c.models[p]) \in ToSet(c.models[p])
      BY <2>1, Elements
    <2>4. Deduped(c.models[p]) # <<>>
      <3>1. ToSet(<<>>) = {}
        BY DEF ToSet
      <3> QED
        BY <2>2, <2>3, <3>1, Zenon
    <2>5. models[p] = Deduped(c.models[p])
      BY <1>2
    <2>6. mains[p] \in ToSet(c.models[p])
      BY <1>2, <2>3
    <2> QED
      BY <2>2, <2>3, <2>4, <2>5, <2>6
  <1>4. ASSUME NEW p \in Enabled(c)
        PROVE  url[p] \in Urls \ {"/", None} /\ name[p] \in Names
    <2>1. c.url[p] = None => url[p] = DefaultConfig.url[p]
      BY <1>2
    <2>2. c.url[p] # None => url[p] = Stripped(c.url[p]) /\ c.url[p] \in Urls
      BY <1>2
    <2>3. DefaultConfig.url[p] \in Urls \ {"/", "", None} /\ DefaultConfig.name[p] \in Names
      BY <1>2, DefaultsAssumption
    <2>4. c.url[p] # None => Stripped(c.url[p]) \in Urls \ {"/", None}
      BY <2>2, RoutingAssumption DEF Stripped, None
    <2>5. name[p] \in Names
      BY <1>2, <2>3
    <2> QED
      BY <2>1, <2>2, <2>3, <2>4, <2>5
  <1>5. \A p \in Providers \ Enabled(c) :
          models[p] = <<>> /\ url[p] = None /\ name[p] = None /\ mains[p] = None
    OBVIOUS
  <1>6. \A a \in Agents : /\ Routes(c)[a] \in Route /\ Routes(c)[a].provider \in Enabled(c)
                          /\ Routes(c)[a].model \in ToSet(c.models[Routes(c)[a].provider])
    BY RoutesLead
  <1>7. /\ models \in [Providers -> Seq(Models)] /\ url \in [Providers -> Urls \cup {None}]
        /\ name \in [Providers -> Names \cup {None}] /\ mains \in [Providers -> Models \cup {None}]
        /\ Routes(c) \in [Agents -> Route \cup {NoRoute}]
    <2>1. \A p \in Providers : models[p] \in Seq(Models)
      BY <1>3, <1>5, <<>> \in Seq(Models)
    <2>2. \A p \in Providers : /\ url[p] \in Urls \cup {None} /\ name[p] \in Names \cup {None}
                              /\ mains[p] \in Models \cup {None}
      BY <1>3, <1>4, <1>5
    <2>3. Routes(c) = [a \in Agents |-> Routes(c)[a]]
      BY DEF Routes
    <2>4. Routes(c) \in [Agents -> Route \cup {NoRoute}]
      BY <1>6, <2>3
    <2> HIDE DEF models, url, name, mains
    <2>5. /\ models = [p \in Providers |-> models[p]] /\ url = [p \in Providers |-> url[p]]
          /\ name = [p \in Providers |-> name[p]] /\ mains = [p \in Providers |-> mains[p]]
      BY DEF models, url, name, mains
    <2> QED
      BY <2>1, <2>2, <2>4, <2>5
  <1> HIDE DEF models, url, name, mains, n
  <1>8. n \in Config
    BY <1>1, <1>2, <1>7 DEF Config
  <1>9. Enabled(n) = Enabled(c) /\ n.providers # <<>>
    BY <1>1, <1>2 DEF Enabled
  <1>10. /\ n.models = models /\ n.url = url /\ n.name = name /\ n.main = mains
         /\ n.agents = Routes(c)
    BY <1>1
  <1>11. \A p \in Enabled(n) : /\ n.models[p] # <<>> /\ Distinct(n.models[p])
                               /\ n.main[p] \in ToSet(n.models[p])
                               /\ n.url[p] \in Urls \ {"/", None} /\ n.name[p] \in Names
    BY <1>3, <1>4, <1>9, <1>10
  <1>12. \A p \in Providers \ Enabled(n) :
           n.models[p] = <<>> /\ n.url[p] = None /\ n.name[p] = None /\ n.main[p] = None
    BY <1>5, <1>9, <1>10
  <1>13. \A a \in Agents : /\ n.agents[a] \in Route /\ n.agents[a].provider \in Enabled(n)
                           /\ n.agents[a].model \in ToSet(n.models[n.agents[a].provider])
    BY <1>3, <1>6, <1>9, <1>10
  <1>14. Normalised(n)
    BY <1>8, <1>9, <1>11, <1>12, <1>13 DEF Normalised
  <1> QED
    BY <1>9, <1>10, <1>14 DEF n

\* It can be read again, and is what it was, if no base URL has come to nothing.
LEMMA NormalisedIsNormal ==
    ASSUME NEW c, Normalised(c), \A p \in Providers : c.url[p] # ""
    PROVE  Valid(c) /\ Normal(c) = c
PROOF
  <1>1. /\ c \in Config /\ Enabled(c) \subseteq Providers
        /\ c.models \in [Providers -> Seq(Models)] /\ c.url \in [Providers -> Urls \cup {None}]
        /\ c.name \in [Providers -> Names \cup {None}]
        /\ c.main \in [Providers -> Models \cup {None}]
        /\ c.agents \in [Agents -> Route \cup {NoRoute}]
    BY ConfigFields DEF Normalised
  <1>2. Valid(c)
    BY <1>1 DEF Normalised, Valid
  <1>3. \A p \in Providers :
          (IF p \in Enabled(c) THEN Deduped(c.models[p]) ELSE <<>>) = c.models[p]
    <2>1. ASSUME NEW p \in Enabled(c) PROVE Deduped(c.models[p]) = c.models[p]
      <3>1. c.models[p] \in Seq(Models) /\ Distinct(c.models[p])
        BY <1>1 DEF Normalised
      <3> QED
        BY <3>1, DedupedOfDistinct
    <2> QED
      BY <2>1 DEF Normalised
  <1>4. \A p \in Providers :
          (IF p \notin Enabled(c) THEN None
           ELSE IF c.url[p] = None THEN DefaultConfig.url[p] ELSE Stripped(c.url[p])) = c.url[p]
    BY <1>1 DEF Normalised, Stripped
  <1>9. \A p \in Providers :
          (IF p \notin Enabled(c) THEN None
           ELSE IF c.name[p] = None THEN DefaultConfig.name[p] ELSE c.name[p]) = c.name[p]
    BY <1>1, RoutingAssumption DEF Normalised
  <1> DEFINE main(p) == IF c.main[p] = None THEN DefaultConfig.main[p] ELSE c.main[p]
  <1>5. \A p \in Providers :
          (IF p \notin Enabled(c) THEN None
           ELSE IF main(p) \in ToSet(c.models[p]) THEN main(p) ELSE Head(c.models[p])) = c.main[p]
    <2>1. ASSUME NEW p \in Enabled(c)
          PROVE  c.main[p] # None /\ c.main[p] \in ToSet(c.models[p])
      <3>1. c.main[p] \in ToSet(c.models[p]) /\ c.models[p] \in Seq(Models)
        BY <1>1 DEF Normalised
      <3>2. ToSet(c.models[p]) \subseteq Models
        BY <3>1, Elements
      <3> QED
        BY <3>1, <3>2, RoutingAssumption
    <2> QED
      BY <2>1 DEF Normalised
  <1>6. Routes(c) = c.agents
    <2>1. \A a \in Agents : c.agents[a] # NoRoute
      BY RouteNotNone DEF Normalised
    <2> QED
      BY <1>1, <2>1 DEF Routes
  <1>7. Normal(c) = [providers |-> c.providers, models |-> c.models, url |-> c.url,
                     name |-> c.name, main |-> c.main, agents |-> c.agents]
    <2>1. /\ c.models = [p \in Providers |-> IF p \in Enabled(c) THEN Deduped(c.models[p]) ELSE <<>>]
          /\ c.url = [p \in Providers |->
                IF p \notin Enabled(c) THEN None
                ELSE IF c.url[p] = None THEN DefaultConfig.url[p] ELSE Stripped(c.url[p])]
          /\ c.name = [p \in Providers |->
                IF p \notin Enabled(c) THEN None
                ELSE IF c.name[p] = None THEN DefaultConfig.name[p] ELSE c.name[p]]
          /\ c.main = [p \in Providers |->
                IF p \notin Enabled(c) THEN None
                ELSE IF main(p) \in ToSet(c.models[p]) THEN main(p) ELSE Head(c.models[p])]
      BY <1>1, <1>3, <1>4, <1>5, <1>9
    <2> QED
      BY <2>1, <1>6 DEF Normal
  <1>8. c = [providers |-> c.providers, models |-> c.models, url |-> c.url,
             name |-> c.name, main |-> c.main, agents |-> c.agents]
    BY <1>1 DEF Config
  <1> QED
    BY <1>2, <1>7, <1>8

-----------------------------------------------------------------------------
(* The inductive invariant.                                                *)

\* What the files and the hands of writers hold was normalised.
FilesNormalised ==
    /\ file = Missing \/ Normalised(file)
    /\ \A w \in Writers : view[w] = NotLoaded \/ Normalised(view[w])

\* Unless views crossed, the files say what the operators were told.
RoutesTold ==
    "config" \notin clash =>
        chosen = IF file = Missing THEN Normal(DefaultConfig).agents ELSE file.agents
SecretsTold == "secrets" \notin clash => secrets = told

\* A client is kept for the prefix of its key and for its URL, unless that changed
\* while it was made; the environment's URL does not change.
ClientsKnown ==
    \A k \in kept : \E p \in Providers, from \in Urls :
        /\ k.id = <<p, Prefix[k.key], from>>
        /\ k.torn \/ from = k.url
        /\ FixedUrl(p) => k.url = Stripped(EnvUrl[p])

\* Where the provider's settings stand, and what a call may be told of them.
InSight(x) == x.withdrawn \/ (Readable(x.provider) /\ SettingIn(file, x.provider) \in x.settings)
Named(x, name) == x.withdrawn \/ \E s \in x.settings : s.name = name
Goes(x, url) ==
    IF FixedUrl(x.provider) THEN url = Stripped(EnvUrl[x.provider])
    ELSE x.withdrawn \/ \E s \in x.settings : s.url = url

\* What each step of a call has found.
Known(x, attempts) ==
    /\ x.pc \in {"idle", "chosen", "named", "keyed"} => x.used = NoKey /\ x.n = 0
    /\ x.pc \notin {"idle", "ended"} => x.provider \in Providers /\ InSight(x)
    /\ x.pc \in {"named", "keyed", "trying", "making"} => x.name \in Names /\ Named(x, x.name)
    /\ x.pc \in {"keyed", "trying", "making"} =>
         x.key \in Keys /\ (x.key = x.want \/ "secrets" \in clash)
    /\ x.pc \in {"trying", "making"} => x.n < attempts /\ x.url \in Urls /\ Goes(x, x.url)
    /\ x.pc = "making" => x.from \in Urls
CallsKnown == \A c \in Callers : Known(call[c], Attempts(c))

\* A call that was made, was made as CalledAsConfigured says.
AsConfigured(x) ==
    x.used # NoKey =>
      /\ \/ x.used = x.want
         \/ "secrets" \in clash
         \/ x.provider \in Pooled /\ Prefix[x.used] = Prefix[x.want]
      /\ Named(x, x.name)
      /\ Goes(x, x.at) \/ (x.torn /\ ~FixedUrl(x.provider))

IInv == /\ TypeOK /\ CalledAsConfigured
        /\ FilesNormalised /\ RoutesTold /\ SecretsTold /\ ClientsKnown /\ CallsKnown

\* The defaults can be loaded, and again.
LEMMA DefaultsNormalised ==
    Normalised(Normal(DefaultConfig)) /\ Valid(Normal(DefaultConfig))
    /\ Normal(Normal(DefaultConfig)) = Normal(DefaultConfig)
PROOF
  <1> DEFINE d == DefaultConfig
             n == Normal(DefaultConfig)
  <1>1. d \in Config /\ Valid(d)
    BY RoutingAssumption, DefaultsAssumption
  <1>2. Normalised(n)
    BY <1>1, NormalIsNormalised
  <1>3. \A p \in Providers : n.url[p] # ""
    <2>1. \A p \in Providers :
            n.url[p] = IF p \notin Enabled(d) THEN None
                       ELSE IF d.url[p] = None THEN DefaultConfig.url[p] ELSE Stripped(d.url[p])
      BY DEF Normal
    <2> QED
      BY <2>1, DefaultsAssumption DEF Stripped, None
  <1> QED
    BY <1>2, <1>3, NormalisedIsNormal

\* What can be loaded is the file as it is, or the defaults.
LEMMA LoadedIs ==
    ASSUME NEW f \in Config \cup {Missing}, f = Missing \/ Normalised(f), Loads(f)
    PROVE  /\ Normalised(Loaded(f)) /\ Valid(Loaded(f))
           /\ Loaded(f) = IF f = Missing THEN Normal(DefaultConfig) ELSE f
PROOF
  <1>1. CASE f = Missing
    BY <1>1, DefaultsNormalised DEF Loaded
  <1>2. CASE f # Missing
    <2>1. Normalised(f) /\ Valid(f)
      BY <1>2 DEF Loads
    <2>2. \A p \in Providers : f.url[p] # ""
      BY <2>1 DEF Valid, Normalised, None
    <2> QED
      BY <1>2, <2>1, <2>2, NormalisedIsNormal DEF Loaded
  <1> QED
    BY <1>1, <1>2

\* CalledAsConfigured, call by call.
LEMMA CalledCallByCall ==
    CalledAsConfigured <=> \A c \in Callers : AsConfigured(call[c])
PROOF
  BY DEF CalledAsConfigured, AsConfigured, Named, Goes

\* A provider's settings, while they can be read.
LEMMA SettingsType ==
    ASSUME NEW f \in Config \cup {Missing}, f = Missing \/ Normalised(f), Loads(f),
           NEW p \in Enabled(Loaded(f))
    PROVE  p \in Providers /\ SettingIn(f, p) \in Setting /\ Loaded(f).url[p] # ""
PROOF
  <1>1. Normalised(Loaded(f)) /\ Valid(Loaded(f))
    BY LoadedIs
  <1>2. p \in Providers
    BY <1>1, ConfigFields DEF Normalised
  <1>3. Loaded(f).url[p] \in Urls /\ Loaded(f).name[p] \in Names /\ Loaded(f).url[p] # ""
    BY <1>1 DEF Normalised, Valid
  <1> QED
    BY <1>2, <1>3 DEF SettingIn, Setting

\* There always is a name, and a call may use it ...
LEMMA NamesKnown ==
    ASSUME TypeOK, FilesNormalised, NEW x, x.provider \in Providers, InSight(x)
    PROVE  NameOf(x.provider) \in Names /\ Named(x, NameOf(x.provider))
PROOF
  <1> DEFINE p == x.provider
  <1>1. CASE Readable(p)
    <2>1. SettingIn(file, p) \in Setting
      BY <1>1, SettingsType DEF Readable, TypeOK, FilesNormalised
    <2>2. NameOf(p) = SettingIn(file, p).name
      BY <1>1 DEF NameOf, SettingIn
    <2>3. NameOf(p) \in Names
      BY <2>1, <2>2 DEF Setting
    <2> QED
      BY <2>2, <2>3 DEF InSight, Named
  <1>2. CASE ~Readable(p)
    BY <1>2, DefaultsAssumption DEF NameOf, InSight, Named
  <1> QED
    BY <1>1, <1>2

\* ... and a base URL.
LEMMA UrlsKnown ==
    ASSUME TypeOK, FilesNormalised, NEW x, x.provider \in Providers, InSight(x)
    PROVE  BaseUrl(x.provider) \in Urls /\ Goes(x, BaseUrl(x.provider))
PROOF
  <1> DEFINE p == x.provider
  <1>1. CASE FixedUrl(p)
    <2>1. EnvUrl[p] \in Urls
      BY <1>1, RoutingAssumption DEF FixedUrl
    <2>2. BaseUrl(p) = Stripped(EnvUrl[p])
      BY <1>1 DEF BaseUrl
    <2>3. BaseUrl(p) \in Urls
      BY <2>1, <2>2, RoutingAssumption DEF Stripped
    <2> QED
      BY <1>1, <2>2, <2>3 DEF Goes
  <1>2. CASE ~FixedUrl(p) /\ Readable(p)
    <2>1. SettingIn(file, p) \in Setting /\ Loaded(file).url[p] # ""
      BY <1>2, SettingsType DEF Readable, TypeOK, FilesNormalised
    <2>2. BaseUrl(p) = SettingIn(file, p).url
      BY <1>2, <2>1 DEF BaseUrl, SettingIn
    <2>3. BaseUrl(p) \in Urls
      BY <2>1, <2>2 DEF Setting
    <2> QED
      BY <1>2, <2>2, <2>3 DEF InSight, Goes
  <1>3. CASE ~FixedUrl(p) /\ ~Readable(p)
    <2>1. BaseUrl(p) \in {"", DefaultConfig.url[p]}
      BY <1>3 DEF BaseUrl
    <2>2. BaseUrl(p) \in Urls
      BY <2>1, RoutingAssumption, DefaultsAssumption
    <2> QED
      BY <1>3, <2>2 DEF InSight, Goes
  <1> QED
    BY <1>1, <1>2, <1>3

\* A key is one, or none.
LEMMA KeyType ==
    ASSUME NEW r \in [Names -> Keys \cup {NoKey}], NEW p \in Providers, NEW name \in Names
    PROVE  KeyOf(p, name, r) \in Keys \cup {NoKey}
PROOF
  <1> DEFINE names == Fallbacks[p]
             found == {i \in DOMAIN names : EnvKey[names[i]] # NoKey}
             first == CHOOSE i \in found : \A j \in found : i <= j
  <1>1. FirstInEnv(names) \in Keys \cup {NoKey}
    <2>1. names \in Seq(Names)
      BY RoutingAssumption
    <2>2. DOMAIN names \subseteq Nat /\ \A i \in DOMAIN names : names[i] \in Names
      BY <2>1
    <2>3. CASE found = {}
      BY <2>3 DEF FirstInEnv
    <2>4. CASE found # {}
      <3>1. \E i \in found : \A j \in found : i <= j
        BY <2>2, <2>4, LeastNat
      <3>2. first \in found
        BY <3>1
      <3>3. EnvKey[names[first]] \in Keys \cup {NoKey}
        BY <2>2, <3>2, RoutingAssumption
      <3>4. FirstInEnv(names) = EnvKey[names[first]]
        BY <2>4 DEF FirstInEnv
      <3> QED
        BY <3>3, <3>4
    <2> QED
      BY <2>3, <2>4
  <1>2. EnvKey[name] \in Keys \cup {NoKey} /\ (Cleaned[name] # None => Cleaned[name] \in Names)
    BY RoutingAssumption
  <1> QED
    BY <1>1, <1>2 DEF KeyOf

\* The file holds what Edited makes of a normalised configuration, normalised again:
\* the routes that the edit does not concern are still there.
LEMMA EditedKeepsRoutes ==
    ASSUME NEW c, Normalised(c), NEW e \in Edit, Valid(Edited(c, e))
    PROVE  /\ Edited(c, e) \in Config
           /\ \A a \in Agents \ Concerns(c, e) : Normal(Edited(c, e)).agents[a] = c.agents[a]
PROOF
  <1> DEFINE x == Edited(c, e)
  <1>1. /\ c \in Config /\ c.agents \in [Agents -> Route \cup {NoRoute}]
        /\ c.providers \in Seq(Providers) /\ c.models \in [Providers -> Seq(Models)]
        /\ c.url \in [Providers -> Urls \cup {None}] /\ c.name \in [Providers -> Names \cup {None}]
        /\ \A a \in Agents : c.agents[a] # NoRoute
    BY ConfigFields, RouteNotNone DEF Normalised
  <1>2. \/ e \in [kind : {"route"}, agent : Agents, provider : Providers, model : Models]
        \/ e \in [kind : {"withdraw"}, left : Seq(Providers)]
        \/ e \in [kind : {"enable"}, provider : Providers, models : Seq(Models)]
        \/ e \in [kind : {"url"}, provider : Providers, url : Urls]
        \/ e \in [kind : {"name"}, provider : Providers, name : Names]
    BY DEF Edit
  <1>3. x \in Config /\ \A a \in Agents \ Concerns(c, e) : x.agents[a] = c.agents[a]
    <2>1. CASE e \in [kind : {"route"}, agent : Agents, provider : Providers, model : Models]
      <3> DEFINE r == [provider |-> e.provider, model |-> e.model]
      <3>1. r \in Route /\ e.kind = "route" /\ e.agent \in Agents
        BY <2>1 DEF Route
      <3>2. x = [c EXCEPT !.agents[e.agent] = r]
        BY <3>1 DEF Edited
      <3> HIDE DEF r
      <3>3. x \in Config /\ \A a \in Agents : a # e.agent => x.agents[a] = c.agents[a]
        BY <1>1, <3>1, <3>2 DEF Config
      <3> QED
        BY <3>1, <3>3 DEF Concerns
    <2>2. CASE e \in [kind : {"withdraw"}, left : Seq(Providers)]
      <3> DEFINE as == [a \in Agents |-> IF c.agents[a].provider \in ToSet(e.left)
                                         THEN c.agents[a] ELSE NoRoute]
      <3>1. e.kind = "withdraw" /\ e.left \in Seq(Providers)
        BY <2>2
      <3>2. x = [c EXCEPT !.providers = e.left, !.agents = as]
        BY <1>1, <3>1 DEF Edited, Config
      <3>3. as \in [Agents -> Route \cup {NoRoute}]
        BY <1>1
      <3>4. \A a \in Agents : c.agents[a].provider \in ToSet(e.left) => as[a] = c.agents[a]
        OBVIOUS
      <3> HIDE DEF as
      <3>5. x \in Config /\ x.agents = as
        BY <1>1, <3>1, <3>2, <3>3 DEF Config
      <3> QED
        BY <3>1, <3>4, <3>5 DEF Concerns
    <2>3. CASE e \in [kind : {"enable"}, provider : Providers, models : Seq(Models)]
      <3> DEFINE ps == IF e.provider \in ToSet(c.providers) THEN c.providers
                       ELSE Append(c.providers, e.provider)
      <3>1. e.kind = "enable" /\ e.provider \in Providers /\ e.models \in Seq(Models)
        BY <2>3
      <3> DEFINE ms == [c.models EXCEPT ![e.provider] = e.models]
      <3>2. x = [c EXCEPT !.providers = ps, !.models = ms]
        BY <1>1, <3>1 DEF Edited, Config
      <3>3. ps \in Seq(Providers) /\ ms \in [Providers -> Seq(Models)]
        BY <1>1, <3>1
      <3> HIDE DEF ps, ms
      <3>4. x \in Config /\ x.agents = c.agents
        BY <1>1, <3>1, <3>2, <3>3 DEF Config
      <3> QED
        BY <3>4
    <2>4. CASE e \in [kind : {"url"}, provider : Providers, url : Urls]
      <3> DEFINE us == [c.url EXCEPT ![e.provider] = e.url]
      <3>1. x = [c EXCEPT !.url = us]
        BY <1>1, <2>4 DEF Edited, Config
      <3>2. us \in [Providers -> Urls \cup {None}]
        BY <1>1, <2>4
      <3> HIDE DEF us
      <3>3. x \in Config /\ x.agents = c.agents
        BY <1>1, <3>1, <3>2 DEF Config
      <3> QED
        BY <3>3
    <2>5. CASE e \in [kind : {"name"}, provider : Providers, name : Names]
      <3> DEFINE ns == [c.name EXCEPT ![e.provider] = e.name]
      <3>1. x = [c EXCEPT !.name = ns]
        BY <1>1, <2>5 DEF Edited, Config
      <3>2. ns \in [Providers -> Names \cup {None}]
        BY <1>1, <2>5
      <3> HIDE DEF ns
      <3>3. x \in Config /\ x.agents = c.agents
        BY <1>1, <3>1, <3>2 DEF Config
      <3> QED
        BY <3>3
    <2> QED
      BY <1>2, <2>1, <2>2, <2>3, <2>4, <2>5
  <1> HIDE DEF x
  <1>4. Normal(x).agents = Routes(x)
    BY DEF Normal
  <1>5. \A a \in Agents \ Concerns(c, e) : Routes(x)[a] = x.agents[a]
    BY <1>1, <1>3 DEF Routes
  <1> QED
    BY <1>3, <1>4, <1>5 DEF x

-----------------------------------------------------------------------------
(* Invariance.                                                             *)

\* The bounds alone, for arithmetic.
LEMMA Bounds == MaxSaves \in Nat /\ MaxCalls \in Nat
PROOF
  BY RoutingAssumption

\* The inductive invariant holds at the start ...
LEMMA InitInv == Init => IInv
PROOF
  <1> SUFFICES ASSUME Init PROVE IInv
    OBVIOUS
  <1>1. /\ file = Missing /\ kept = {} /\ clash = {} /\ saves = 0 /\ calls = 0
        /\ secrets = [n \in Names |-> NoKey] /\ told = secrets
        /\ view = [w \in Writers |-> NotLoaded] /\ ring = [w \in Writers |-> NotLoaded]
        /\ call = [c \in Callers |-> NoCall] /\ chosen = Normal(DefaultConfig).agents
    BY DEF Init
  <1>2. NoCall \in Call /\ NoCall.pc = "idle" /\ NoCall.used = NoKey /\ NoCall.n = 0 /\ NoCall.max = 0
    BY DEF NoCall, Call
  <1>3. \A c \in Callers : call[c].pc = "idle" /\ call[c].used = NoKey /\ call[c].n = 0 /\ Attempts(c) = 1
    BY <1>1, <1>2 DEF Attempts
  <1>4. chosen \in [Agents -> Route]
    <2>1. \A a \in Agents : Normal(DefaultConfig).agents[a] \in Route
      BY DefaultsNormalised DEF Normalised
    <2>2. Normal(DefaultConfig).agents = [a \in Agents |-> Normal(DefaultConfig).agents[a]]
      BY DefaultsNormalised, ConfigFields DEF Normalised
    <2> QED
      BY <1>1, <2>1, <2>2
  <1>5. TypeOK
    <2>1. secrets \in [Names -> Keys \cup {NoKey}] /\ told \in [Names -> Keys \cup {NoKey}]
      BY <1>1
    <2>2. view \in [Writers -> Config \cup {NotLoaded}]
      BY <1>1
    <2>3. ring \in [Writers -> [Names -> Keys \cup {NoKey}] \cup {NotLoaded}]
      BY <1>1
    <2>4. call \in [Callers -> Call] /\ \A c \in Callers : call[c].n <= Attempts(c)
      BY <1>1, <1>2, <1>3
    <2>5. saves \in 0 .. MaxSaves /\ calls \in 0 .. MaxCalls
      BY <1>1, Bounds
    <2> QED
      BY <1>1, <1>4, <2>1, <2>2, <2>3, <2>4, <2>5 DEF TypeOK
  <1>6. CalledAsConfigured /\ CallsKnown
    BY <1>3, CalledCallByCall DEF AsConfigured, CallsKnown, Known
  <1>7. FilesNormalised /\ RoutesTold /\ SecretsTold /\ ClientsKnown
    BY <1>1 DEF FilesNormalised, RoutesTold, SecretsTold, ClientsKnown
  <1> QED
    BY <1>5, <1>6, <1>7 DEF IInv

\* What is known of a call outlasts the steps of others.
LEMMA OthersKnown ==
    ASSUME CallsKnown, CalledAsConfigured, UNCHANGED <<file, call>>, clash \subseteq clash'
    PROVE  CallsKnown' /\ CalledAsConfigured'
PROOF
  <1>1. /\ file' = file /\ call' = call
        /\ "secrets" \in clash => "secrets" \in clash'
    OBVIOUS
  <1>2. ASSUME NEW c \in Callers PROVE Known(call[c], Attempts(c))'
    BY <1>1 DEF CallsKnown, Known, Attempts, InSight, Readable
  <1>3. CalledAsConfigured'
    BY <1>1 DEF CalledAsConfigured
  <1> QED
    BY <1>2, <1>3 DEF CallsKnown

\* ... and after each action: loading a configuration,
LEMMA LoadConfigInv ==
    ASSUME IInv, NEW w \in Writers, LoadConfig(w)
    PROVE  IInv'
PROOF
  <1>1. /\ Loads(file) /\ view' = [view EXCEPT ![w] = Loaded(file)]
        /\ file' = file /\ secrets' = secrets /\ ring' = ring /\ kept' = kept /\ call' = call
        /\ chosen' = chosen /\ told' = told /\ clash' = clash /\ saves' = saves /\ calls' = calls
    BY DEF LoadConfig, files
  <1>2. Normalised(Loaded(file))
    BY <1>1, LoadedIs DEF IInv, TypeOK, FilesNormalised
  <1>3. TypeOK'
    BY <1>1, <1>2 DEF IInv, TypeOK, Normalised, Attempts
  <1>4. FilesNormalised'
    BY <1>1, <1>2 DEF IInv, TypeOK, FilesNormalised
  <1>5. CallsKnown' /\ CalledAsConfigured'
    BY <1>1, OthersKnown DEF IInv
  <1>6. RoutesTold' /\ SecretsTold' /\ ClientsKnown'
    BY <1>1 DEF IInv, RoutesTold, SecretsTold, ClientsKnown
  <1> QED
    BY <1>3, <1>4, <1>5, <1>6 DEF IInv

\* loading and saving secrets,
LEMMA SecretsInv ==
    ASSUME IInv, NEW w \in Writers, LoadSecrets(w) \/ \E new \in Rings : SaveSecrets(w, new)
    PROVE  IInv'
PROOF
  <1>1. /\ file' = file /\ view' = view /\ kept' = kept /\ call' = call
        /\ chosen' = chosen /\ calls' = calls
    BY DEF LoadSecrets, SaveSecrets, files
  <1>2. /\ secrets' \in [Names -> Keys \cup {NoKey}] /\ told' \in [Names -> Keys \cup {NoKey}]
        /\ ring' \in [Writers -> [Names -> Keys \cup {NoKey}] \cup {NotLoaded}]
        /\ saves' \in 0 .. MaxSaves
        /\ clash' = clash \/ clash' = clash \cup {"secrets"}
        /\ SecretsTold'
    <2>1. CASE LoadSecrets(w)
      BY <2>1 DEF LoadSecrets, files, IInv, TypeOK, SecretsTold
    <2>2. CASE \E new \in Rings : SaveSecrets(w, new)
      <3>1. PICK new \in Rings : SaveSecrets(w, new)
        BY <2>2
      <3>2. /\ ring[w] \in [Names -> Keys \cup {NoKey}] /\ new \in [Names -> Keys \cup {NoKey}]
            /\ told \in [Names -> Keys \cup {NoKey}]
            /\ ring[w] # NotLoaded /\ saves < MaxSaves /\ saves' = saves + 1
        BY <3>1, RoutingAssumption DEF SaveSecrets, IInv, TypeOK
      <3>3. /\ secrets' = [n \in Names |-> IF new[n] = NoKey THEN ring[w][n] ELSE new[n]]
            /\ told' = [n \in Names |-> IF new[n] = NoKey THEN told[n] ELSE new[n]]
            /\ ring' = [ring EXCEPT ![w] = NotLoaded]
            /\ clash' = IF Outdated(ring[w], secrets) THEN clash \cup {"secrets"} ELSE clash
        BY <3>1 DEF SaveSecrets, Updated
      <3>4. saves' \in 0 .. MaxSaves
        <4>1. saves \in 0 .. MaxSaves
          BY DEF IInv, TypeOK
        <4> QED
          BY <3>2, <4>1, Bounds
      <3>5. ring' \in [Writers -> [Names -> Keys \cup {NoKey}] \cup {NotLoaded}]
        BY <3>3 DEF IInv, TypeOK
      <3>6. /\ secrets' \in [Names -> Keys \cup {NoKey}]
            /\ told' \in [Names -> Keys \cup {NoKey}]
        BY <3>2, <3>3
      <3>7. SecretsTold'
        BY <3>2, <3>3 DEF Outdated, IInv, SecretsTold
      <3> QED
        BY <3>3, <3>4, <3>5, <3>6, <3>7
    <2> QED
      BY <2>1, <2>2
  <1>3. TypeOK'
    BY <1>1, <1>2 DEF IInv, TypeOK, Attempts
  <1>4. FilesNormalised' /\ RoutesTold' /\ ClientsKnown'
    BY <1>1, <1>2 DEF IInv, FilesNormalised, RoutesTold, ClientsKnown
  <1>5. CallsKnown' /\ CalledAsConfigured'
    BY <1>1, <1>2, OthersKnown DEF IInv
  <1> QED
    BY <1>2, <1>3, <1>4, <1>5 DEF IInv

\* A configuration that is saved reaches a call or withdraws its provider.
LEMMA ReconfiguredCalls ==
    ASSUME TypeOK, CallsKnown, CalledAsConfigured, NEW f, Normalised(f), f # Missing, file' = f,
           call' = Reconfigured(f), clash \subseteq clash'
    PROVE  /\ CallsKnown' /\ CalledAsConfigured' /\ call' \in [Callers -> Call]
           /\ \A c \in Callers : call'[c].n = call[c].n /\ call'[c].max = call[c].max
PROOF
  <1>1. f \in Config \cup {Missing}
    BY DEF Normalised
  <1>2. ASSUME NEW c \in Callers
        PROVE  /\ call'[c] \in Call /\ call'[c].n = call[c].n /\ call'[c].max = call[c].max
               /\ Known(call[c], Attempts(c))' /\ AsConfigured(call[c])'
    <2> DEFINE x == call[c]
               p == call[c].provider
               there == Loads(f) /\ p \in Enabled(Loaded(f))
               setting == SettingIn(f, p)
               y == call'[c]
    <2>1. x \in Call /\ Known(x, Attempts(c)) /\ AsConfigured(x)
      BY CalledCallByCall DEF TypeOK, CallsKnown
    <2>2. y = IF x.pc \in {"idle", "ended"} THEN x
              ELSE IF there THEN [x EXCEPT !.settings = x.settings \cup {setting}]
              ELSE [x EXCEPT !.withdrawn = TRUE]
      BY DEF Reconfigured
    <2>3. there => setting \in Setting
      BY <1>1, SettingsType
    <2>4. there => Readable(p)' /\ SettingIn(file, p)' = setting
      <3>1. call'[c].provider = p
        BY <2>1, <2>2 DEF Call
      <3> QED
        BY <3>1 DEF Readable, SettingIn
    <2> HIDE DEF there, setting
    <2>5. /\ y \in Call /\ x.settings \subseteq y.settings /\ (x.withdrawn => y.withdrawn)
          /\ y.pc = x.pc /\ y.provider = x.provider /\ y.name = x.name /\ y.key = x.key
          /\ y.url = x.url /\ y.from = x.from /\ y.n = x.n /\ y.max = x.max /\ y.used = x.used
          /\ y.at = x.at /\ y.torn = x.torn /\ y.want = x.want
          /\ x.pc \notin {"idle", "ended"} => y.withdrawn \/ (there /\ setting \in y.settings)
      <3>1. CASE x.pc \in {"idle", "ended"}
        BY <2>1, <2>2, <3>1
      <3>2. CASE x.pc \notin {"idle", "ended"} /\ there
        <4> DEFINE all == x.settings \cup {setting}
        <4>1. all \in SUBSET Setting
          BY <2>1, <2>3, <3>2 DEF Call
        <4>2. y = [x EXCEPT !.settings = all]
          BY <2>2, <3>2
        <4>3. x.settings \subseteq all /\ setting \in all
          OBVIOUS
        <4> HIDE DEF all, x, y
        <4> QED
          BY <2>1, <3>2, <4>1, <4>2, <4>3 DEF Call
      <3>3. CASE x.pc \notin {"idle", "ended"} /\ ~there
        <4>1. y = [x EXCEPT !.withdrawn = TRUE]
          BY <2>2, <3>3
        <4> HIDE DEF x, y
        <4> QED
          BY <2>1, <4>1 DEF Call
      <3> QED
        BY <3>1, <3>2, <3>3
    <2>6. Attempts(c)' = Attempts(c)
      BY <2>5 DEF Attempts
    <2>7. "secrets" \in clash => "secrets" \in clash'
      OBVIOUS
    <2>8. x.pc \notin {"idle", "ended"} => InSight(call[c])'
      <3>1. p = y.provider
        BY <2>5
      <3> QED
        BY <2>4, <2>5, <3>1 DEF InSight
    <2>9. /\ \A name : Named(x, name) => Named(y, name)
          /\ \A url : Goes(x, url) => Goes(y, url)
      BY <2>5 DEF Named, Goes
    <2> HIDE DEF p, x
    <2>10. Known(call[c], Attempts(c))'
      <3>1. /\ y.pc \in {"idle", "chosen", "named", "keyed"} => y.used = NoKey /\ y.n = 0
            /\ y.pc \in {"keyed", "trying", "making"} =>
                 y.key \in Keys /\ (y.key = y.want \/ "secrets" \in clash')
            /\ y.pc = "making" => y.from \in Urls
        BY <2>1, <2>5, <2>7 DEF Known
      <3>2. y.pc \notin {"idle", "ended"} => y.provider \in Providers /\ InSight(call[c])'
        BY <2>1, <2>5, <2>8 DEF Known
      <3>3. /\ y.pc \in {"named", "keyed", "trying", "making"} => y.name \in Names /\ Named(y, y.name)
            /\ y.pc \in {"trying", "making"} =>
                 y.n < Attempts(c)' /\ y.url \in Urls /\ Goes(y, y.url)
        BY <2>1, <2>5, <2>6, <2>9 DEF Known
      <3> QED
        BY <3>1, <3>2, <3>3 DEF Known, Named, Goes
    <2>11. AsConfigured(call[c])'
      <3>1. y.used # NoKey =>
              /\ \/ y.used = y.want
                 \/ "secrets" \in clash'
                 \/ y.provider \in Pooled /\ Prefix[y.used] = Prefix[y.want]
              /\ Named(y, y.name)
              /\ Goes(y, y.at) \/ (y.torn /\ ~FixedUrl(y.provider))
        BY <2>1, <2>5, <2>7, <2>9 DEF AsConfigured
      <3> QED
        BY <3>1 DEF AsConfigured, Named, Goes
    <2> QED
      BY <2>5, <2>10, <2>11 DEF x
  <1>3. call' \in [Callers -> Call]
    <2>1. call' = [c \in Callers |-> call'[c]]
      BY DEF Reconfigured
    <2> QED
      BY <1>2, <2>1
  <1>4. CallsKnown'
    BY <1>2 DEF CallsKnown
  <1>5. CalledAsConfigured'
    BY <1>2 DEF CalledAsConfigured, AsConfigured, Named, Goes
  <1> QED
    BY <1>2, <1>3, <1>4, <1>5

\* saving a configuration,
LEMMA SaveConfigInv ==
    ASSUME IInv, NEW w \in Writers, NEW e \in Edits, SaveConfig(w, e)
    PROVE  IInv'
PROOF
  <1> DEFINE x == Edited(view[w], e)
             f == Normal(x)
  <1>1. /\ saves < MaxSaves /\ view[w] # NotLoaded /\ Valid(x) /\ file' = f
        /\ chosen' = [a \in Agents |-> IF a \in Concerns(view[w], e) THEN f.agents[a] ELSE chosen[a]]
        /\ clash' = IF Loads(file) /\ view[w] = Loaded(file) THEN clash ELSE clash \cup {"config"}
        /\ call' = Reconfigured(f) /\ view' = [view EXCEPT ![w] = NotLoaded]
        /\ saves' = saves + 1 /\ secrets' = secrets /\ ring' = ring /\ kept' = kept
        /\ told' = told /\ calls' = calls
    BY DEF SaveConfig
  <1>2. Normalised(view[w]) /\ e \in Edit
    BY <1>1, RoutingAssumption DEF IInv, FilesNormalised
  <1>3. x \in Config /\ \A a \in Agents \ Concerns(view[w], e) : f.agents[a] = view[w].agents[a]
    BY <1>1, <1>2, EditedKeepsRoutes
  <1>4. Normalised(f)
    BY <1>1, <1>3, NormalIsNormalised
  <1>5. f \in Config /\ f # Missing /\ \A a \in Agents : f.agents[a] \in Route
    BY <1>4, RoutingAssumption DEF Normalised
  <1> HIDE DEF x, f
  <1>6. clash \subseteq clash' /\ ("secrets" \in clash' <=> "secrets" \in clash)
        /\ clash' \subseteq {"config", "secrets"}
    BY <1>1 DEF IInv, TypeOK
  <1>7. /\ CallsKnown' /\ CalledAsConfigured' /\ call' \in [Callers -> Call]
        /\ \A c \in Callers : call'[c].n = call[c].n /\ call'[c].max = call[c].max
    BY <1>1, <1>4, <1>5, <1>6, ReconfiguredCalls DEF IInv
  <1>8. TypeOK'
    <2>1. chosen' \in [Agents -> Route]
      BY <1>1, <1>5 DEF IInv, TypeOK
    <2>2. saves' \in 0 .. MaxSaves
      <3>1. saves \in 0 .. MaxSaves
        BY DEF IInv, TypeOK
      <3> QED
        BY <1>1, <3>1, Bounds
    <2>3. \A c \in Callers : call'[c].n <= Attempts(c)'
      BY <1>7 DEF Attempts, IInv, TypeOK
    <2>4. view' \in [Writers -> Config \cup {NotLoaded}]
      BY <1>1 DEF IInv, TypeOK
    <2> QED
      BY <1>1, <1>5, <1>6, <1>7, <2>1, <2>2, <2>3, <2>4 DEF IInv, TypeOK
  <1>9. FilesNormalised'
    BY <1>1, <1>4 DEF IInv, TypeOK, FilesNormalised
  <1>10. RoutesTold'
    <2> SUFFICES ASSUME "config" \notin clash' PROVE chosen' = f.agents
      BY <1>1, <1>5 DEF RoutesTold
    <2>1. "config" \notin clash /\ Loads(file) /\ view[w] = Loaded(file)
      BY <1>1
    <2>2. Loaded(file) = IF file = Missing THEN Normal(DefaultConfig) ELSE file
      BY <2>1, LoadedIs DEF IInv, TypeOK, FilesNormalised
    <2>3. view[w].agents = chosen
      BY <2>1, <2>2 DEF IInv, RoutesTold
    <2>4. \A a \in Agents : chosen'[a] = f.agents[a]
      BY <1>1, <1>3, <2>3
    <2>5. f.agents \in [Agents -> Route \cup {NoRoute}] /\ chosen' = [a \in Agents |-> chosen'[a]]
      BY <1>1, <1>5, ConfigFields
    <2> QED
      BY <2>4, <2>5
  <1>11. SecretsTold' /\ ClientsKnown'
    BY <1>1, <1>6 DEF IInv, SecretsTold, ClientsKnown
  <1> QED
    BY <1>7, <1>8, <1>9, <1>10, <1>11 DEF IInv

\* The key found, and an attempt made, leave a call a call.
LEMMA KeyedCall ==
    ASSUME NEW x \in Call, NEW z \in {"ended", "keyed"}, NEW key \in Keys \cup {NoKey},
           NEW want \in Keys \cup {NoKey}
    PROVE  [x EXCEPT !.pc = z, !.key = key, !.want = want] \in Call
PROOF
  <1>1. ASSUME NEW v \in Call PROVE [v EXCEPT !.key = key] \in Call
    BY <1>1 DEF Call
  <1>2. ASSUME NEW v \in Call PROVE [v EXCEPT !.want = want] \in Call
    BY <1>2 DEF Call
  <1>3. [x EXCEPT !.pc = z] \in Call
    BY DEF Call
  <1>4. PICK v \in Call : v = [x EXCEPT !.pc = z]
    BY <1>3
  <1>5. PICK w \in Call : w = [v EXCEPT !.key = key]
    BY <1>1
  <1>6. [w EXCEPT !.want = want] \in Call
    BY <1>2
  <1> QED
    BY <1>4, <1>5, <1>6

LEMMA AskedCall ==
    ASSUME NEW x \in Call, NEW n \in Nat, NEW key \in Keys, NEW url \in Urls,
           NEW torn \in BOOLEAN, NEW z \in {"trying", "ended"}
    PROVE  [x EXCEPT !.n = n, !.used = key, !.at = url, !.torn = torn, !.from = None, !.pc = z]
             \in Call
PROOF
  <1>1. ASSUME NEW v \in Call PROVE [v EXCEPT !.n = n, !.used = key] \in Call
    BY <1>1 DEF Call
  <1>2. ASSUME NEW v \in Call PROVE [v EXCEPT !.at = url] \in Call
    BY <1>2 DEF Call
  <1>3. ASSUME NEW v \in Call PROVE [v EXCEPT !.torn = torn] \in Call
    BY <1>3 DEF Call
  <1>4. ASSUME NEW v \in Call PROVE [v EXCEPT !.from = None] \in Call
    BY <1>4 DEF Call
  <1>5. ASSUME NEW v \in Call PROVE [v EXCEPT !.pc = z] \in Call
    BY <1>5 DEF Call
  <1>6. PICK v1 \in Call : v1 = [x EXCEPT !.n = n, !.used = key]
    BY <1>1
  <1>7. PICK v2 \in Call : v2 = [v1 EXCEPT !.at = url]
    BY <1>2
  <1>8. PICK v3 \in Call : v3 = [v2 EXCEPT !.torn = torn]
    BY <1>3
  <1>9. PICK v4 \in Call : v4 = [v3 EXCEPT !.from = None]
    BY <1>4
  <1>10. [v4 EXCEPT !.pc = z] \in Call
    BY <1>5
  <1> QED
    BY <1>6, <1>7, <1>8, <1>9, <1>10

\* It is enough to know the call that has taken a step.
LEMMA CallSteps ==
    ASSUME IInv, NEW c \in Callers, NEW y \in Call, call' = [call EXCEPT ![c] = y],
           UNCHANGED <<files, writing>>, calls' \in 0 .. MaxCalls,
           NEW attempts \in Int, attempts = IF y.max > 1 THEN y.max ELSE 1,
           y.n <= attempts, Known(y, attempts), AsConfigured(y),
           ClientsKnown', \A k \in kept' : k.key \in Keys /\ k.url \in Urls /\ k.torn \in BOOLEAN
    PROVE  IInv'
PROOF
  <1>1. /\ file' = file /\ secrets' = secrets /\ view' = view /\ ring' = ring
        /\ chosen' = chosen /\ told' = told /\ clash' = clash /\ saves' = saves
    BY DEF files, writing
  <1>2. /\ call' \in [Callers -> Call] /\ call'[c] = y
        /\ \A d \in Callers \ {c} : call'[d] = call[d]
    BY DEF IInv, TypeOK
  <1>3. Attempts(c)' = attempts /\ \A d \in Callers \ {c} : Attempts(d)' = Attempts(d)
    BY <1>2 DEF Attempts
  <1>4. TypeOK'
    <2>1. \A d \in Callers : call'[d].n <= Attempts(d)'
      BY <1>2, <1>3 DEF IInv, TypeOK
    <2> QED
      BY <1>1, <1>2, <2>1 DEF IInv, TypeOK
  <1>5. FilesNormalised' /\ RoutesTold' /\ SecretsTold'
    BY <1>1 DEF IInv, FilesNormalised, RoutesTold, SecretsTold
  <1>6. ASSUME NEW d \in Callers PROVE Known(call[d], Attempts(d))' /\ AsConfigured(call[d])'
    <2>1. CASE d = c
      BY <1>1, <1>2, <1>3, <2>1 DEF Known, AsConfigured, InSight, Readable, Named, Goes
    <2>2. CASE d # c
      <3>1. call'[d] = call[d] /\ Known(call[d], Attempts(d)) /\ AsConfigured(call[d])
        BY <1>2, <2>2, CalledCallByCall DEF IInv, CallsKnown
      <3> QED
        BY <1>1, <1>3, <2>2, <3>1 DEF Known, AsConfigured, InSight, Readable, Named, Goes
    <2> QED
      BY <2>1, <2>2
  <1>7. CallsKnown' /\ CalledAsConfigured'
    BY <1>6 DEF CallsKnown, CalledAsConfigured, AsConfigured, Named, Goes
  <1> QED
    BY <1>4, <1>5, <1>7 DEF IInv

\* choosing the model,
LEMMA SelectInv ==
    ASSUME IInv, NEW c \in Callers, NEW a \in Agents, Select(c, a)
    PROVE  IInv'
PROOF
  <1> DEFINE p == Loaded(file).agents[a].provider
             seen == {SettingIn(file, p)}
             y == IF ~Loads(file) THEN [NoCall EXCEPT !.pc = "ended"]
                  ELSE [NoCall EXCEPT !.pc = "chosen", !.provider = p, !.settings = seen]
  <1>1. /\ calls < MaxCalls /\ calls' = calls + 1 /\ call' = [call EXCEPT ![c] = y]
        /\ UNCHANGED <<files, writing, kept>>
    BY DEF Select
  <1>2. calls' \in 0 .. MaxCalls
    <2>1. calls \in 0 .. MaxCalls
      BY DEF IInv, TypeOK
    <2> QED
      BY <1>1, <2>1, Bounds
  <1>3. Loads(file) => p \in Providers /\ seen \in SUBSET Setting /\ Readable(p)
    <2> SUFFICES ASSUME Loads(file)
                 PROVE  p \in Providers /\ seen \in SUBSET Setting /\ Readable(p)
      OBVIOUS
    <2>1. Normalised(Loaded(file))
      BY LoadedIs DEF IInv, TypeOK, FilesNormalised
    <2>2. p \in Enabled(Loaded(file))
      BY <2>1 DEF Normalised
    <2>3. p \in Providers /\ SettingIn(file, p) \in Setting
      BY <2>2, SettingsType DEF IInv, TypeOK, FilesNormalised
    <2> QED
      BY <2>2, <2>3 DEF Readable
  <1>4. SettingIn(file, p) \in seen
    OBVIOUS
  <1> HIDE DEF p, seen
  <1>5. /\ y \in Call /\ y.used = NoKey /\ y.n = 0 /\ y.max = 0
        /\ y.pc = "ended" \/ (y.pc = "chosen" /\ y.provider \in Providers /\ InSight(y))
    <2>1. NoCall \in Call /\ NoCall.used = NoKey /\ NoCall.n = 0 /\ NoCall.max = 0
      BY DEF NoCall, Call
    <2>2. CASE Loads(file)
      <3>1. y = [NoCall EXCEPT !.pc = "chosen", !.provider = p, !.settings = seen]
        BY <2>2
      <3> HIDE DEF y
      <3>2. /\ y \in Call /\ y.used = NoKey /\ y.n = 0 /\ y.max = 0 /\ y.pc = "chosen"
            /\ y.provider = p /\ y.settings = seen
        BY <1>3, <2>1, <2>2, <3>1 DEF Call
      <3> QED
        BY <1>3, <1>4, <2>2, <3>2 DEF InSight
    <2>3. CASE ~Loads(file)
      BY <2>1, <2>3 DEF Call
    <2> QED
      BY <2>2, <2>3
  <1> HIDE DEF y
  <1>6. Known(y, 1) /\ AsConfigured(y)
    BY <1>5 DEF Known, AsConfigured
  <1>7. /\ ClientsKnown'
        /\ \A k \in kept' : k.key \in Keys /\ k.url \in Urls /\ k.torn \in BOOLEAN
    BY <1>1 DEF IInv, TypeOK, ClientsKnown
  <1>8. PICK one \in Int : one = 1
    OBVIOUS
  <1>9. one = (IF y.max > 1 THEN y.max ELSE 1) /\ y.n <= one /\ Known(y, one)
    BY <1>5, <1>6, <1>8
  <1> QED
    BY <1>1, <1>2, <1>5, <1>6, <1>7, <1>8, <1>9, CallSteps

\* finding out the name of the key, the key and the URL, or that no client is kept,
LEMMA PrepareInv ==
    ASSUME IInv, NEW c \in Callers,
           \/ \E max \in Retries : Begin(c, max)
           \/ FindKey(c) \/ FindUrl(c) \/ MissKept(c)
    PROVE  IInv'
PROOF
  <1> DEFINE x == call[c]
             p == call[c].provider
  <1>1. x \in Call /\ Known(x, Attempts(c)) /\ AsConfigured(x) /\ x.pc # "idle" /\ x.pc # "ended"
    BY CalledCallByCall DEF IInv, TypeOK, CallsKnown, Begin, FindKey, FindUrl, MissKept
  <1>2. p \in Providers /\ InSight(x)
    BY <1>1 DEF Known
  <1>3. UNCHANGED <<files, writing, kept, calls>>
    BY DEF Begin, FindKey, FindUrl, MissKept
  <1>4. /\ ClientsKnown' /\ calls' \in 0 .. MaxCalls
        /\ \A k \in kept' : k.key \in Keys /\ k.url \in Urls /\ k.torn \in BOOLEAN
    BY <1>3 DEF IInv, TypeOK, ClientsKnown
  <1>5. \A max \in Int : (IF max > 1 THEN max ELSE 1) \in Int /\ 0 < (IF max > 1 THEN max ELSE 1)
    OBVIOUS
  <1>6. ASSUME NEW max \in Retries, Begin(c, max)
        PROVE  IInv'
    <2> DEFINE name == NameOf(p)
               attempts == IF max > 1 THEN max ELSE 1
               y == [x EXCEPT !.pc = "named", !.name = name, !.max = max]
    <2>1. call' = [call EXCEPT ![c] = y] /\ x.pc = "chosen" /\ max \in Int
      <3>1. call' = [call EXCEPT ![c] = y] /\ x.pc = "chosen"
        BY <1>6 DEF Begin
      <3>2. max \in Int
        BY <1>6, RoutingAssumption
      <3>3. QED
        BY <3>1, <3>2
    <2>2. name \in Names /\ Named(x, name)
      BY <1>2, NamesKnown DEF IInv
    <2> HIDE DEF name, x, p
    <2>3. /\ y \in Call /\ y.pc = "named" /\ y.name = name /\ y.max = max
          /\ y.n = x.n /\ y.used = x.used /\ y.provider = x.provider
          /\ y.settings = x.settings /\ y.withdrawn = x.withdrawn
      BY <1>1, <2>1, <2>2 DEF Call
    <2>4. x.used = NoKey /\ x.n = 0
      BY <1>1, <2>1 DEF Known
    <2> HIDE DEF y
    <2>5. x.provider \in Providers
      BY <1>2 DEF x, p
    <2>6. Known(y, attempts) /\ AsConfigured(y)
      BY <1>2, <2>2, <2>3, <2>4, <2>5 DEF Known, AsConfigured, InSight, Named
    <2>7. attempts \in Int /\ attempts = (IF y.max > 1 THEN y.max ELSE 1) /\ y.n <= attempts
      BY <1>5, <2>1, <2>3, <2>4
    <2> HIDE DEF attempts
    <2> QED
      BY <1>3, <1>4, <2>1, <2>3, <2>6, <2>7, CallSteps
  <1>7. ASSUME NEW y \in Call, call' = [call EXCEPT ![c] = y], y.max = x.max, y.n = x.n,
               Known(y, Attempts(c)), AsConfigured(y)
        PROVE  IInv'
    <2>1. Attempts(c) \in Int /\ Attempts(c) = (IF y.max > 1 THEN y.max ELSE 1)
      BY <1>1, <1>7 DEF Attempts, Call
    <2>2. y.n <= Attempts(c)
      BY <1>7 DEF IInv, TypeOK
    <2> QED
      BY <1>3, <1>4, <1>7, <2>1, <2>2, CallSteps
  <1>8. CASE FindKey(c)
    <2> DEFINE key == KeyOf(p, x.name, secrets)
               want == KeyOf(p, x.name, told)
               z == IF key = NoKey THEN "ended" ELSE "keyed"
               y == [x EXCEPT !.pc = z, !.key = key, !.want = want]
    <2>1. call' = [call EXCEPT ![c] = y] /\ x.pc = "named"
      BY <1>1, <1>8 DEF FindKey, IInv, TypeOK, Call
    <2>2. x.name \in Names /\ Named(x, x.name) /\ x.used = NoKey /\ x.n = 0
      BY <1>1, <2>1 DEF Known
    <2>3. key \in Keys \cup {NoKey} /\ want \in Keys \cup {NoKey}
      BY <1>2, <2>2, KeyType DEF IInv, TypeOK
    <2>4. key = want \/ "secrets" \in clash
      BY DEF IInv, SecretsTold
    <2>5. z \in {"ended", "keyed"} /\ (z = "keyed" => key \in Keys)
      BY <2>3
    <2> HIDE DEF key, want, z, x, p
    <2>6. /\ y \in Call /\ y.pc = z /\ y.key = key /\ y.want = want /\ y.name = x.name
          /\ y.n = x.n /\ y.max = x.max /\ y.used = x.used /\ y.provider = x.provider
          /\ y.settings = x.settings /\ y.withdrawn = x.withdrawn
      <3>1. x \in Call
        BY <1>1
      <3>2. y \in Call
        BY <2>3, <2>5, <3>1, KeyedCall
      <3>3. DOMAIN x = {"pc", "provider", "name", "key", "url", "from", "n", "max",
                        "used", "at", "torn", "want", "settings", "withdrawn"}
        BY <3>1 DEF Call
      <3> QED
        BY <3>2, <3>3
    <2> HIDE DEF y
    <2>7. x.provider \in Providers
      BY <1>2 DEF x, p
    <2>8. Known(y, Attempts(c)) /\ AsConfigured(y)
      BY <1>2, <2>2, <2>4, <2>5, <2>6, <2>7 DEF Known, AsConfigured, InSight, Named
    <2> QED
      BY <1>7, <2>1, <2>6, <2>8
  <1>9. CASE FindUrl(c) \/ MissKept(c)
    <2> DEFINE url == BaseUrl(p)
    <2>1. url \in Urls /\ Goes(x, url)
      BY <1>2, UrlsKnown DEF IInv
    <2>2. CASE FindUrl(c)
      <3> DEFINE y == [x EXCEPT !.pc = "trying", !.url = url]
      <3>1. call' = [call EXCEPT ![c] = y] /\ x.pc = "keyed"
        BY <1>1, <2>2 DEF FindUrl, IInv, TypeOK, Call
      <3>2. /\ x.name \in Names /\ Named(x, x.name) /\ x.used = NoKey /\ x.n = 0
            /\ x.key \in Keys /\ (x.key = x.want \/ "secrets" \in clash)
        BY <1>1, <3>1 DEF Known
      <3>3. x.n < Attempts(c)
        BY <1>1, <1>5, <3>2 DEF Attempts, Call
      <3> HIDE DEF url, x, p
      <3>4. /\ y \in Call /\ y.pc = "trying" /\ y.url = url /\ y.name = x.name /\ y.key = x.key
            /\ y.want = x.want /\ y.n = x.n /\ y.max = x.max /\ y.used = x.used
            /\ y.provider = x.provider /\ y.settings = x.settings /\ y.withdrawn = x.withdrawn
        BY <1>1, <2>1 DEF Call
      <3> HIDE DEF y
      <3>5. x.provider \in Providers
        BY <1>2 DEF x, p
      <3>6. Known(y, Attempts(c)) /\ AsConfigured(y)
        BY <1>2, <2>1, <3>2, <3>3, <3>4, <3>5 DEF Known, AsConfigured, InSight, Named, Goes
      <3> QED
        BY <1>7, <3>1, <3>4, <3>6
    <2>3. CASE MissKept(c)
      <3> DEFINE y == [x EXCEPT !.pc = "making", !.from = url]
      <3>1. call' = [call EXCEPT ![c] = y] /\ x.pc = "trying"
        BY <1>1, <2>3 DEF MissKept, IInv, TypeOK, Call
      <3> HIDE DEF url, x, p
      <3>2. /\ y \in Call /\ y.pc = "making" /\ y.from = url /\ y.name = x.name /\ y.key = x.key
            /\ y.url = x.url /\ y.want = x.want /\ y.n = x.n /\ y.max = x.max /\ y.used = x.used
            /\ y.at = x.at /\ y.torn = x.torn
            /\ y.provider = x.provider /\ y.settings = x.settings /\ y.withdrawn = x.withdrawn
        BY <1>1, <2>1 DEF Call
      <3> HIDE DEF y
      <3>3. Known(y, Attempts(c)) /\ AsConfigured(y)
        BY <1>1, <2>1, <3>1, <3>2 DEF Known, AsConfigured, InSight, Named, Goes
      <3> QED
        BY <1>7, <3>1, <3>2, <3>3
    <2> QED
      BY <1>9, <2>2, <2>3
  <1> QED
    BY <1>6, <1>8, <1>9

\* and asking, with one client or another.
LEMMA AskInv ==
    ASSUME IInv, NEW c \in Callers, NEW again \in BOOLEAN,
           NEW key \in Keys, NEW url \in Urls, NEW torn \in BOOLEAN,
           call[c].pc \in {"trying", "making"}, Ask(c, key, url, torn, again),
           key = call[c].key \/ (call[c].provider \in Pooled /\ Prefix[key] = Prefix[call[c].key]),
           Goes(call[c], url) \/ (torn /\ ~FixedUrl(call[c].provider)),
           UNCHANGED <<files, writing, calls>>,
           ClientsKnown', \A k \in kept' : k.key \in Keys /\ k.url \in Urls /\ k.torn \in BOOLEAN
    PROVE  IInv'
PROOF
  <1> DEFINE x == call[c]
             n == call[c].n + 1
             z == IF again /\ Again(c) THEN "trying" ELSE "ended"
             y == [x EXCEPT !.n = n, !.used = key, !.at = url, !.torn = torn, !.from = None, !.pc = z]
  <1>1. x \in Call /\ Known(x, Attempts(c))
    BY DEF IInv, TypeOK, CallsKnown
  <1>2. call' = [call EXCEPT ![c] = y]
    BY <1>1 DEF Ask, IInv, TypeOK, Call
  <1>3. /\ x.provider \in Providers /\ InSight(x) /\ x.name \in Names /\ Named(x, x.name)
        /\ x.key \in Keys /\ (x.key = x.want \/ "secrets" \in clash)
        /\ x.n < Attempts(c) /\ x.url \in Urls /\ Goes(x, x.url)
    BY <1>1 DEF Known
  <1>4. /\ n \in Nat /\ n <= Attempts(c) /\ z \in {"trying", "ended"}
        /\ z = "trying" => n < Attempts(c)
    <2>1. x.n \in Nat /\ Attempts(c) \in Int
      BY <1>1 DEF Call, Attempts
    <2> QED
      BY <1>3, <2>1 DEF Again
  <1>5. calls' \in 0 .. MaxCalls
    BY DEF IInv, TypeOK
  <1>6. key = x.want \/ "secrets" \in clash \/ (x.provider \in Pooled /\ Prefix[key] = Prefix[x.want])
    BY <1>3
  <1>7. Goes(x, url) \/ (torn /\ ~FixedUrl(x.provider))
    OBVIOUS
  <1> HIDE DEF n, z, x
  <1>8. /\ y \in Call /\ y.pc = z /\ y.name = x.name /\ y.key = x.key /\ y.url = x.url
        /\ y.n = n /\ y.max = x.max /\ y.want = x.want /\ y.used = key /\ y.at = url
        /\ y.torn = torn /\ y.provider = x.provider /\ y.settings = x.settings
        /\ y.withdrawn = x.withdrawn
    <2>1. x \in Call
      BY <1>1
    <2>2. y \in Call
      BY <1>4, <2>1, AskedCall
    <2>3. DOMAIN x = {"pc", "provider", "name", "key", "url", "from", "n", "max",
                      "used", "at", "torn", "want", "settings", "withdrawn"}
      BY <2>1 DEF Call
    <2> QED
      BY <2>2, <2>3
  <1> HIDE DEF y
  <1>9. Known(y, Attempts(c))
    BY <1>3, <1>4, <1>8 DEF Known, InSight, Named, Goes
  <1>10. AsConfigured(y)
    BY <1>3, <1>6, <1>7, <1>8 DEF AsConfigured, Named, Goes
  <1>11. /\ Attempts(c) \in Int /\ Attempts(c) = (IF y.max > 1 THEN y.max ELSE 1)
         /\ y.n <= Attempts(c)
    BY <1>1, <1>4, <1>8 DEF Attempts, Call, x
  <1> QED
    BY <1>2, <1>5, <1>8, <1>9, <1>10, <1>11, CallSteps

\* an attempt.
LEMMA AttemptInv ==
    ASSUME IInv, NEW c \in Callers, NEW again \in BOOLEAN,
           Attempt(c, again) \/ UseKept(c, again) \/ Make(c, again)
    PROVE  IInv'
PROOF
  <1> DEFINE x == call[c]
             p == call[c].provider
  <1>1. /\ Known(x, Attempts(c)) /\ x.pc \in {"trying", "making"}
        /\ UNCHANGED <<files, writing, calls>>
    BY DEF IInv, CallsKnown, Attempt, UseKept, Make
  <1>2. p \in Providers /\ InSight(x) /\ x.key \in Keys /\ x.url \in Urls /\ Goes(x, x.url)
    BY <1>1 DEF Known
  <1>3. UNCHANGED kept => /\ ClientsKnown'
                          /\ \A k \in kept' : k.key \in Keys /\ k.url \in Urls /\ k.torn \in BOOLEAN
    BY DEF IInv, TypeOK, ClientsKnown
  <1>4. CASE Attempt(c, again)
    <2>1. Ask(c, x.key, x.url, FALSE, again) /\ UNCHANGED kept
      BY <1>4 DEF Attempt
    <2> QED
      BY <1>1, <1>2, <1>3, <2>1, AskInv
  <1>5. CASE UseKept(c, again)
    <2>1. p \in Pooled /\ UNCHANGED kept
      BY <1>5 DEF UseKept
    <2>2. PICK k \in KeptFor(c) : Ask(c, k.key, k.url, k.torn, again)
      BY <1>5 DEF UseKept
    <2>3. k \in kept /\ k.id = <<p, Prefix[x.key], BaseUrl(p)>>
      BY DEF KeptFor, ClientId
    <2>4. PICK q \in Providers, from \in Urls :
             /\ k.id = <<q, Prefix[k.key], from>>
             /\ k.torn \/ from = k.url
             /\ FixedUrl(q) => k.url = Stripped(EnvUrl[q])
      BY <2>3 DEF IInv, ClientsKnown
    <2>5. q = p /\ Prefix[k.key] = Prefix[x.key] /\ from = BaseUrl(p)
      BY <2>3, <2>4
    <2>6. k.key \in Keys /\ k.url \in Urls /\ k.torn \in BOOLEAN
      BY <2>3 DEF IInv, TypeOK
    <2>7. Goes(x, BaseUrl(p))
      BY <1>2, UrlsKnown DEF IInv
    <2>8. Goes(x, k.url) \/ (k.torn /\ ~FixedUrl(p))
      BY <2>4, <2>5, <2>7 DEF Goes
    <2> QED
      BY <1>1, <1>3, <2>1, <2>2, <2>5, <2>6, <2>8, AskInv
  <1>6. CASE Make(c, again)
    <2> DEFINE url == BaseUrl(p)
               torn == url # x.from
               new == [id |-> <<p, Prefix[x.key], x.from>>, key |-> x.key, url |-> url, torn |-> torn]
    <2>1. kept' = kept \cup {new} /\ Ask(c, x.key, url, torn, again) /\ x.pc = "making"
      BY <1>6 DEF Make, ClientId
    <2>2. url \in Urls /\ Goes(x, url) /\ x.from \in Urls /\ torn \in BOOLEAN
      BY <1>1, <1>2, <2>1, UrlsKnown DEF IInv, Known
    <2>3. new.key \in Keys /\ new.url \in Urls /\ new.torn \in BOOLEAN
      BY <1>2, <2>2
    <2>4. \A k \in kept' : k.key \in Keys /\ k.url \in Urls /\ k.torn \in BOOLEAN
      BY <2>1, <2>3 DEF IInv, TypeOK
    <2>5. /\ new.id = <<p, Prefix[new.key], x.from>> /\ (new.torn \/ x.from = new.url)
          /\ FixedUrl(p) => new.url = Stripped(EnvUrl[p])
      BY <2>2 DEF Goes
    <2> HIDE DEF new
    <2>6. ClientsKnown'
      BY <1>2, <2>1, <2>2, <2>5 DEF IInv, ClientsKnown
    <2> HIDE DEF url, torn
    <2> QED
      BY <1>1, <1>2, <2>1, <2>2, <2>4, <2>6, AskInv
  <1> QED
    BY <1>4, <1>5, <1>6

\* So every step keeps it.
LEMMA StepInv == IInv /\ [Next]_vars => IInv'
PROOF
  <1>1. ASSUME IInv, NEW w \in Writers,
               \/ LoadConfig(w) \/ \E e \in Edits : SaveConfig(w, e)
               \/ LoadSecrets(w) \/ \E new \in Rings : SaveSecrets(w, new)
        PROVE  IInv'
    BY <1>1, LoadConfigInv, SaveConfigInv, SecretsInv
  <1>2. ASSUME IInv, NEW c \in Callers,
               \/ \E a \in Agents : Select(c, a)
               \/ \E max \in Retries : Begin(c, max)
               \/ FindKey(c) \/ FindUrl(c) \/ MissKept(c)
               \/ \E again \in BOOLEAN : Attempt(c, again) \/ UseKept(c, again) \/ Make(c, again)
        PROVE  IInv'
    BY <1>2, SelectInv, PrepareInv, AttemptInv
  <1>3. ASSUME IInv, UNCHANGED vars PROVE IInv'
    <2> USE <1>3 DEF vars, IInv
    <2>1. TypeOK'
      BY DEF TypeOK, Attempts
    <2>2. CallsKnown' /\ CalledAsConfigured'
      BY OthersKnown
    <2>3. FilesNormalised' /\ RoutesTold' /\ SecretsTold' /\ ClientsKnown'
      BY DEF FilesNormalised, RoutesTold, SecretsTold, ClientsKnown
    <2> QED
      BY <2>1, <2>2, <2>3
  <1> QED
    BY <1>1, <1>2, <1>3 DEF Next

-----------------------------------------------------------------------------
(* Theorems.                                                               *)

\* The inductive invariant holds in every reachable state of ModelRouting.
THEOREM Invariance == Spec => []IInv
  BY InitInv, StepInv, PTL DEF Spec

\* Every variable of ModelRouting keeps its shape, and a call makes no more
\* attempts than allowed (run_llm).
THEOREM TypeCorrect == Spec => []TypeOK
  <1>1. IInv => TypeOK
    BY DEF IInv
  <1> QED
    BY <1>1, Invariance, PTL

\* What save_llm_config has accepted, load_llm_config reads again as it was
\* written, unless a base URL was left empty by its slashes.
THEOREM SavedConfigsLoad == Spec => []SavedConfigLoads
  <1>1. IInv => SavedConfigLoads
    <2> SUFFICES ASSUME IInv, file # Missing, \A p \in Providers : file.url[p] # ""
                 PROVE  /\ Valid(file) /\ Normal(file) = file
                        /\ \A a \in Agents : file.agents[a] \in Route
                                             /\ file.agents[a].provider \in Enabled(file)
      BY DEF SavedConfigLoads
    <2>1. Normalised(file)
      BY DEF IInv, FilesNormalised
    <2> QED
      BY <2>1, NormalisedIsNormal DEF Normalised
  <1> QED
    BY <1>1, Invariance, PTL

\* An agent's route stays until somebody changes it, unless a configuration was
\* written over a newer one (PUT /settings, POST /config/llm).
THEOREM RoutesAreKept == Spec => []RoutesKept
  <1>1. IInv => RoutesKept
    BY DEF IInv, RoutesTold, RoutesKept
  <1> QED
    BY <1>1, Invariance, PTL

\* A call is made with the key that its configured name stands for, and at the URL
\* of the environment or one that was configured, as far as the kept clients can
\* tell keys apart and were made while the URL stayed (run_llm, _run_gapgpt).
THEOREM CallsAreConfigured == Spec => []CalledAsConfigured
  <1>1. IInv => CalledAsConfigured
    BY DEF IInv
  <1> QED
    BY <1>1, Invariance, PTL
=============================================================================
