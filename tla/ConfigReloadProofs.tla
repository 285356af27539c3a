------------------------- MODULE ConfigReloadProofs -------------------------
(***************************************************************************)
(* That no change gets lost between the configuration file and a living    *)
(* instance, for every set of files, every size of the update queue and    *)
(* any number of edits.                                                    *)
(*                                                                         *)
(* First the fold: FoldLeft, which is a recursion over the set of indices, *)
(* is the last value of a run of Replay along the sequence, so that what   *)
(* holds of runs holds of it. Then calculate_events: whatever the order in *)
(* which the maps are iterated, the events from c to d turn an instance of *)
(* c into one of d. Then the steps.                                        *)
(***************************************************************************)
EXTENDS ConfigReload, FiniteSetTheorems, SequenceTheorems, TLAPS

-----------------------------------------------------------------------------
(***************************************************************************)
(* Induction, from the pigeonhole principle: a set that has 0 and with n   *)
(* also n + 1 misses no number. If it missed n, then k - 1 for each k it   *)
(* misses up to n would be one to one into those without n.                *)
(***************************************************************************)
LEMMA SetInduction ==
  ASSUME NEW S, 0 \in S, \A n \in Nat : n \in S => n + 1 \in S
  PROVE  Nat \subseteq S
<1> SUFFICES ASSUME NEW n \in Nat, n \notin S PROVE FALSE
  OBVIOUS
<1> DEFINE T == {k \in 0..n : k \notin S}
           f == [k \in T |-> k - 1]
<1>1. IsFiniteSet(T)
  <2>1. IsFiniteSet(0..n)
    BY FS_Interval
  <2> QED BY <2>1, FS_Subset
<1>2. /\ IsFiniteSet(T \ {n})
      /\ Cardinality(T) \in Nat
      /\ Cardinality(T \ {n}) = Cardinality(T) - 1
  <2>1. n \in T
    OBVIOUS
  <2> QED BY <1>1, <2>1, FS_RemoveElement, FS_CardinalityType
<1>3. f \in [T -> T \ {n}]
  OBVIOUS
<1>4. PICK x, y \in T : x # y /\ f[x] = f[y]
  <2> HIDE DEF f, T
  <2> QED BY <1>1, <1>2, <1>3, FS_PigeonHole
<1> QED BY <1>4

(* r is a run of Replay from a along es, up to n. *)
IsRun(r, a, es, n) == r[0] = a /\ \A i \in 1..n : r[i] = Replay(r[i - 1], es[i])

(* What FoldLeft recurs on: the value for every set of indices. *)
IsIter(iter, a, es, n) ==
  iter = [s \in SUBSET (1..n) |->
            IF s = {} THEN a ELSE Replay(iter[s \ {Max(s)}], es[Max(s)])]

(* The index taken last is the largest. *)
LEMMA MaxIsLast ==
  ASSUME NEW n \in Nat, NEW s \in SUBSET (1..n), n \in s
  PROVE  Max(s) = n
<1>1. \A x \in s : n >= x
  OBVIOUS
<1>2. \A m \in s : (\A x \in s : m >= x) => m = n
  OBVIOUS
<1> QED BY <1>1, <1>2 DEF Max

(* The recursion is well founded. *)
LEMMA IterExists ==
  ASSUME NEW a, NEW es, NEW n \in Nat
  PROVE  \E iter : IsIter(iter, a, es, n)
<1> DEFINE S == {k \in Nat : \E iter : IsIter(iter, a, es, k)}
<1>1. 0 \in S
  <2> DEFINE iter == [s \in SUBSET (1..0) |-> a]
  <2>1. SUBSET (1..0) = {{}}
    OBVIOUS
  <2>2. IsIter(iter, a, es, 0)
    BY <2>1 DEF IsIter
  <2> QED BY <2>2
<1>2. ASSUME NEW k \in Nat, k \in S PROVE k + 1 \in S
  <2>1. PICK iter : IsIter(iter, a, es, k)
    BY <1>2
  <2> DEFINE more == [s \in SUBSET (1..k + 1) |->
                        IF k + 1 \in s THEN Replay(iter[s \ {k + 1}], es[k + 1]) ELSE iter[s]]
  <2>2. ASSUME NEW s \in SUBSET (1..k + 1)
        PROVE  more[s] = IF s = {} THEN a ELSE Replay(more[s \ {Max(s)}], es[Max(s)])
    <3>1. CASE k + 1 \in s
      <4>1. Max(s) = k + 1
        BY <3>1, MaxIsLast
      <4>2. s \ {k + 1} \in SUBSET (1..k + 1) /\ k + 1 \notin s \ {k + 1}
        OBVIOUS
      <4>3. more[s \ {k + 1}] = iter[s \ {k + 1}]
        BY <4>2
      <4> QED BY <3>1, <4>1, <4>3
    <3>2. CASE k + 1 \notin s
      <4>1. s \in SUBSET (1..k)
        BY <3>2
      <4>2. iter[s] = IF s = {} THEN a ELSE Replay(iter[s \ {Max(s)}], es[Max(s)])
        BY <2>1, <4>1 DEF IsIter
      <4>3. more[s] = iter[s]
        BY <3>2
      <4>4. s \ {Max(s)} \in SUBSET (1..k + 1) /\ k + 1 \notin s \ {Max(s)}
        BY <3>2
      <4>5. more[s \ {Max(s)}] = iter[s \ {Max(s)}]
        BY <4>4
      <4> QED BY <4>2, <4>3, <4>5
    <3> QED BY <3>1, <3>2
  <2>3. IsIter(more, a, es, k + 1)
    <3>1. DOMAIN more = SUBSET (1..k + 1) /\ more = [s \in SUBSET (1..k + 1) |-> more[s]]
      OBVIOUS
    <3> HIDE DEF more
    <3> QED BY <2>2, <3>1, Zenon DEF IsIter
  <2> QED BY <2>3
<1> HIDE DEF S
<1>3. n \in S
  BY <1>1, <1>2, SetInduction
<1> QED BY <1>3 DEF S

(* FoldLeft is the last value of some run. *)
LEMMA FoldHasRun ==
  ASSUME NEW a, NEW es, NEW n \in Nat, DOMAIN es = 1..n
  PROVE  \E r : IsRun(r, a, es, n) /\ FoldLeft(Replay, a, es) = r[n]
<1> DEFINE iter == CHOOSE f : IsIter(f, a, es, n)
           r == [i \in 0..n |-> iter[1..i]]
<1>1. IsIter(iter, a, es, n)
  BY IterExists
<1>2. FoldLeft(Replay, a, es) = iter[1..n]
  <2>1. FoldLeft(Replay, a, es) =
          (CHOOSE f : f = [s \in SUBSET DOMAIN es |->
                             IF s = {} THEN a ELSE Replay(f[s \ {Max(s)}], es[Max(s)])])[DOMAIN es]
    BY DEF FoldLeft, MapThenFoldSet
  <2> QED BY <2>1 DEF IsIter
<1> HIDE DEF iter
<1>3. r[0] = a
  BY <1>1 DEF IsIter
<1>4. ASSUME NEW i \in 1..n PROVE r[i] = Replay(r[i - 1], es[i])
  <2>1. Max(1..i) = i
    BY MaxIsLast
  <2>2. (1..i) \ {i} = 1..i - 1
    OBVIOUS
  <2>3. 1..i # {} /\ 1..i \in SUBSET (1..n)
    OBVIOUS
  <2>4. iter[1..i] = Replay(iter[1..i - 1], es[i])
    BY <1>1, <2>1, <2>2, <2>3 DEF IsIter
  <2> QED BY <2>4
<1>5. r[n] = iter[1..n]
  OBVIOUS
<1> HIDE DEF r
<1>6. IsRun(r, a, es, n)
  BY <1>3, <1>4 DEF IsRun
<1> QED BY <1>2, <1>5, <1>6

(* Runs do not branch. *)
LEMMA RunsAgree ==
  ASSUME NEW a, NEW es, NEW n \in Nat, NEW r, NEW q, IsRun(r, a, es, n), IsRun(q, a, es, n)
  PROVE  r[n] = q[n]
<1> DEFINE S == {k \in Nat : k <= n => r[k] = q[k]}
<1>1. 0 \in S
  BY DEF IsRun
<1>2. ASSUME NEW k \in Nat, k \in S PROVE k + 1 \in S
  <2>1. k + 1 <= n => r[k + 1] = Replay(r[k], es[k + 1]) /\ q[k + 1] = Replay(q[k], es[k + 1])
    BY DEF IsRun
  <2> QED BY <1>2, <2>1
<1> HIDE DEF S
<1>3. n \in S
  BY <1>1, <1>2, SetInduction
<1> QED BY <1>3 DEF S

(* Whoever has a run has the fold. *)
LEMMA FoldByRun ==
  ASSUME NEW a, NEW es, NEW n \in Nat, DOMAIN es = 1..n, NEW r, IsRun(r, a, es, n)
  PROVE  FoldLeft(Replay, a, es) = r[n]
BY FoldHasRun, RunsAgree

(* With nothing pending nothing changes. *)
LEMMA FoldEmpty ==
  ASSUME NEW a
  PROVE  FoldLeft(Replay, a, <<>>) = a
<1> DEFINE r == [i \in 0..0 |-> a]
<1>1. IsRun(r, a, <<>>, 0) /\ r[0] = a
  BY DEF IsRun
<1>2. DOMAIN <<>> = 1..0
  OBVIOUS
<1> HIDE DEF r
<1> QED BY <1>1, <1>2, FoldByRun

(* One event is replayed. *)
LEMMA FoldOne ==
  ASSUME NEW a, NEW e
  PROVE  FoldLeft(Replay, a, <<e>>) = Replay(a, e)
<1> DEFINE r == [i \in 0..1 |-> IF i = 0 THEN a ELSE Replay(a, e)]
<1>1. IsRun(r, a, <<e>>, 1) /\ r[1] = Replay(a, e)
  BY DEF IsRun
<1>2. DOMAIN <<e>> = 1..1
  OBVIOUS
<1> HIDE DEF r
<1> QED BY <1>1, <1>2, FoldByRun

(* Of two queues the second is applied to what the first has made. *)
LEMMA FoldConcat ==
  ASSUME NEW S, NEW es \in Seq(S), NEW fs \in Seq(S), NEW a
  PROVE  FoldLeft(Replay, a, es \o fs) = FoldLeft(Replay, FoldLeft(Replay, a, es), fs)
<1> DEFINE n == Len(es)
           m == Len(fs)
           b == FoldLeft(Replay, a, es)
<1>1. n \in Nat /\ m \in Nat /\ DOMAIN es = 1..n /\ DOMAIN fs = 1..m
  BY LenProperties
<1>2. /\ DOMAIN (es \o fs) = 1..n + m
      /\ \A i \in 1..n + m : (es \o fs)[i] = IF i <= n THEN es[i] ELSE fs[i - n]
  BY ConcatProperties, LenProperties
<1> HIDE DEF n, m
<1>3. PICK r : IsRun(r, a, es, n) /\ b = r[n]
  BY <1>1, FoldHasRun
<1>4. PICK q : IsRun(q, b, fs, m) /\ FoldLeft(Replay, b, fs) = q[m]
  BY <1>1, FoldHasRun
<1> DEFINE p == [i \in 0..n + m |-> IF i <= n THEN r[i] ELSE q[i - n]]
<1> HIDE DEF b
<1>5. p[0] = a
  BY <1>1, <1>3 DEF IsRun
<1>6. ASSUME NEW i \in 1..n + m PROVE p[i] = Replay(p[i - 1], (es \o fs)[i])
  <2>1. CASE i <= n
    <3>1. r[i] = Replay(r[i - 1], es[i])
      BY <1>1, <1>3, <2>1 DEF IsRun
    <3>2. p[i] = r[i] /\ p[i - 1] = r[i - 1] /\ (es \o fs)[i] = es[i]
      BY <1>1, <1>2, <2>1
    <3> QED BY <3>1, <3>2
  <2>2. CASE i > n
    <3> DEFINE j == i - n
    <3>1. j \in 1..m
      BY <1>1, <2>2
    <3>2. q[j] = Replay(q[j - 1], fs[j])
      BY <1>4, <3>1 DEF IsRun
    <3>3. p[i - 1] = q[j - 1]
      <4>1. CASE j = 1
        BY <1>1, <1>3, <1>4, <4>1 DEF IsRun
      <4>2. CASE j # 1
        <5>1. ~(i - 1 <= n) /\ i - 1 \in 0..n + m /\ i - 1 - n = j - 1
          BY <1>1, <2>2, <4>2
        <5> QED BY <5>1
      <4> QED BY <4>1, <4>2
    <3>4. p[i] = q[j] /\ (es \o fs)[i] = fs[j]
      BY <1>1, <1>2, <2>2
    <3> QED BY <3>2, <3>3, <3>4
  <2> QED BY <1>1, <2>1, <2>2
<1>7. p[n + m] = q[m]
  BY <1>1, <1>3, <1>4 DEF IsRun
<1> HIDE DEF p
<1>8. IsRun(p, a, es \o fs, n + m)
  BY <1>5, <1>6 DEF IsRun
<1>9. FoldLeft(Replay, a, es \o fs) = p[n + m]
  <2>1. n + m \in Nat /\ DOMAIN (es \o fs) = 1..n + m
    BY <1>1, <1>2
  <2> QED BY <1>8, <2>1, FoldByRun, Zenon
<1> QED BY <1>4, <1>7, <1>9 DEF b

(* Events that change nothing one by one change nothing together. *)
LEMMA FoldIgnores ==
  ASSUME NEW S, NEW es \in Seq(S), NEW a, \A e \in S : Replay(a, e) = a
  PROVE  FoldLeft(Replay, a, es) = a
<1> DEFINE r == [i \in 0..Len(es) |-> a]
<1>1. Len(es) \in Nat /\ DOMAIN es = 1..Len(es) /\ \A i \in 1..Len(es) : es[i] \in S
  BY LenProperties, ElementOfSeq
<1>2. IsRun(r, a, es, Len(es)) /\ r[Len(es)] = a
  BY <1>1 DEF IsRun
<1> HIDE DEF r
<1> QED BY <1>1, <1>2, FoldByRun

(* One event is applied after the other. *)
LEMMA FoldStep ==
  ASSUME NEW S, NEW es \in Seq(S), es # <<>>, NEW a
  PROVE  FoldLeft(Replay, a, es) = FoldLeft(Replay, Replay(a, Head(es)), Tail(es))
<1>1. Head(es) \in S /\ Tail(es) \in Seq(S) /\ <<Head(es)>> \in Seq(S)
  BY HeadTailProperties
<1>2. es = <<Head(es)>> \o Tail(es)
  OBVIOUS
<1>3. FoldLeft(Replay, a, <<Head(es)>> \o Tail(es))
        = FoldLeft(Replay, FoldLeft(Replay, a, <<Head(es)>>), Tail(es))
  BY <1>1, FoldConcat
<1> QED BY <1>2, <1>3, FoldOne

(* Nothing before a General change counts: it brings a new instance. *)
LEMMA FoldFromGeneral ==
  ASSUME NEW S, NEW es \in Seq(S), es # <<>>, Head(es).kind = "general", NEW a
  PROVE  FoldLeft(Replay, a, es) = FoldLeft(Replay, Started(Head(es).config), Tail(es))
<1>1. Replay(a, Head(es)) = Started(Head(es).config)
  BY DEF Replay
<1> QED BY <1>1, FoldStep

-----------------------------------------------------------------------------
(* What the validation guarantees of a side that is there. *)
Sound(x, m) ==
  /\ x = [f \in DOMAIN x |-> x[f]]
  /\ {"services", "transport"} \subseteq DOMAIN x
  /\ x.services = [n \in DOMAIN x.services |-> x.services[n]]
  /\ IsFiniteSet(DOMAIN x.services)
  /\ \A n \in DOMAIN x.services : ServiceRuns(m, x.services[n])
  /\ ValidTransport(x.transport, m = "server")

(* validate_client_config fills in a service so that it can run. *)
LEMMA DefaultsRun ==
  ASSUME NEW side, NEW s, NEW m \in Sides,
         WithDefaults(s, side, m = "server").token # None,
         m = "client" => side.retry_interval # None /\ "retry_interval" \in DOMAIN s
  PROVE  ServiceRuns(m, WithDefaults(s, side, m = "server"))
<1> DEFINE w == WithToken(s, side)
<1>1. CASE m = "server"
  BY <1>1 DEF ServiceRuns
<1>2. CASE m = "client"
  <2>1. w.retry_interval = s.retry_interval /\ "retry_interval" \in DOMAIN w
    BY <1>2 DEF WithToken
  <2>2. WithRetry(w, side).retry_interval # None
    <3> HIDE DEF w
    <3> QED BY <1>2, <2>1 DEF WithRetry
  <2>3. WithDefaults(s, side, m = "server") = WithRetry(w, side)
    BY <1>2 DEF WithDefaults
  <2> QED BY <2>2, <2>3 DEF ServiceRuns
<1> QED BY <1>1, <1>2 DEF Sides

(* What validate_server_config and validate_client_config let through. *)
LEMMA ValidatedSound ==
  ASSUME NEW x, NEW m \in Sides,
         {"services", "transport"} \subseteq DOMAIN x,
         IsFiniteSet(DOMAIN x.services),
         m = "client" => /\ x.retry_interval # None
                         /\ \A n \in DOMAIN x.services : "retry_interval" \in DOMAIN x.services[n],
         Validated(x, m = "server") # Invalid
  PROVE  Sound(Validated(x, m = "server"), m)
<1> DEFINE services == [n \in DOMAIN x.services |-> WithDefaults(x.services[n], x, m = "server")]
           v == [x EXCEPT !.services = services]
<1>1. /\ Validated(x, m = "server") = v
      /\ \A n \in DOMAIN services : services[n].token # None
      /\ ValidTransport(x.transport, m = "server")
  BY DEF Validated
<1>2. /\ v.services = services /\ v.transport = x.transport
      /\ DOMAIN v = DOMAIN x /\ v = [f \in DOMAIN v |-> v[f]]
  OBVIOUS
<1>3. \A n \in DOMAIN services : ServiceRuns(m, services[n])
  BY <1>1, DefaultsRun
<1>4. DOMAIN services = DOMAIN x.services /\ services = [n \in DOMAIN services |-> services[n]]
  OBVIOUS
<1> HIDE DEF services, v
<1> QED BY <1>1, <1>2, <1>3, <1>4 DEF Sound

(* The sides of a configuration an instance or the watcher can have. *)
LEMMA ConfigsSound ==
  ASSUME NEW c \in Configs, NEW m \in Sides
  PROVE  c[m] = NoSide \/ Sound(c[m], m)
<1>1. PICK f \in Files : c = FromStr(f) /\ FromStr(f) # Invalid
  BY DEF Configs
<1> DEFINE g == [k \in Sides |-> IF f[k] = NoSide THEN NoSide ELSE Validated(f[k], k = "server")]
<1>2. f # Unparsable /\ c = g /\ \A k \in Sides : g[k] # Invalid
  <2>1. f # Unparsable /\ FromStr(f) = IF \E k \in Sides : g[k] = Invalid THEN Invalid ELSE g
    BY <1>1 DEF FromStr
  <2> QED BY <1>1, <2>1
<1>3. FileParses(f)
  BY <1>2, FilesAssumption
<1>4. CASE f[m] = NoSide
  BY <1>2, <1>4
<1>5. CASE f[m] # NoSide
  <2>1. c[m] = Validated(f[m], m = "server") /\ c[m] # Invalid
    BY <1>2, <1>5
  <2>2. /\ {"services", "transport"} \subseteq DOMAIN f[m]
        /\ IsFiniteSet(DOMAIN f[m].services)
        /\ m = "client" =>
             /\ f[m].retry_interval # None
             /\ \A n \in DOMAIN f[m].services : "retry_interval" \in DOMAIN f[m].services[n]
    BY <1>3, <1>5 DEF FileParses
  <2> QED BY <2>1, <2>2, ValidatedSound
<1> QED BY <1>4, <1>5

(* Both sides are there, with the same settings beside their services. *)
SameSettings(x, y) ==
  x # NoSide /\ y # NoSide /\ y = [x EXCEPT !.services = y.services]

(***************************************************************************)
(* equal_without_service: what it calls equal is either not there in both  *)
(* or differs in nothing but the services.                                 *)
(***************************************************************************)
LEMMA EqualButServices ==
  ASSUME NEW c \in Configs, NEW d \in Configs, ~NeedsGeneral(c, d), NEW m \in Sides
  PROVE  (c[m] = NoSide /\ d[m] = NoSide) \/ SameSettings(c[m], d[m])
<1>1. [c[m] EXCEPT !.services = <<>>] = [d[m] EXCEPT !.services = <<>>]
  BY DEF NeedsGeneral, EqualWithoutService
<1>2. DOMAIN c[m] = DOMAIN d[m]
  BY <1>1
<1>3. \A f \in DOMAIN c[m] : f # "services" => c[m][f] = d[m][f]
  <2> TAKE f \in DOMAIN c[m]
  <2> HAVE f # "services"
  <2>1. [c[m] EXCEPT !.services = <<>>][f] = c[m][f]
    OBVIOUS
  <2>2. [d[m] EXCEPT !.services = <<>>][f] = d[m][f]
    BY <1>2
  <2> QED BY <1>1, <2>1, <2>2
<1>4. DOMAIN NoSide = {"services"}
  BY DEF NoSide
<1>5. c[m] = NoSide <=> d[m] = NoSide
  <2>1. /\ c[m] = NoSide \/ "transport" \in DOMAIN c[m]
        /\ d[m] = NoSide \/ "transport" \in DOMAIN d[m]
    BY ConfigsSound DEF Sound
  <2>2. "transport" \notin DOMAIN NoSide
    BY <1>4
  <2> QED BY <1>2, <2>1, <2>2
<1>6. CASE d[m] # NoSide
  <2>1. d[m] = [f \in DOMAIN d[m] |-> d[m][f]] /\ "services" \in DOMAIN d[m]
    BY <1>6, ConfigsSound DEF Sound
  <2>2. d[m] = [c[m] EXCEPT !.services = d[m].services]
    BY <1>2, <1>3, <2>1
  <2> QED BY <1>5, <1>6, <2>2 DEF SameSettings
<1> QED BY <1>5, <1>6

(* determine_run_mode: an instance runs one side, as it is configured. *)
LEMMA StartedShape ==
  ASSUME NEW c
  PROVE  /\ \A m \in Sides :
              RunMode(c) = {m} =>
                Started(c) = IF c[m] = NoSide THEN NoInstance ELSE [side |-> m, config |-> c[m]]
         /\ (\A m \in Sides : RunMode(c) # {m}) => Started(c) = NoInstance
<1>1. ASSUME NEW m \in Sides, RunMode(c) = {m}
      PROVE  Started(c) = IF c[m] = NoSide THEN NoInstance ELSE [side |-> m, config |-> c[m]]
  <2>1. Cardinality(RunMode(c)) = 1
    BY <1>1, FS_Singleton
  <2>2. (CHOOSE k \in Sides : RunMode(c) = {k}) = m
    BY <1>1
  <2> QED BY <2>1, <2>2 DEF Started
<1>2. ASSUME \A m \in Sides : RunMode(c) # {m} PROVE Started(c) = NoInstance
  <2>1. RunMode(c) \subseteq Sides
    <3>1. CASE ArgMode = "auto"
      BY <3>1 DEF RunMode
    <3>2. CASE ArgMode # "auto"
      BY <3>2, ParametersAssumption DEF RunMode, Sides
    <3> QED BY <3>1, <3>2
  <2>2. IsFiniteSet(RunMode(c))
    <3>1. IsFiniteSet({"server"} \cup {"client"})
      BY FS_Singleton, FS_Union
    <3>2. Sides = {"server"} \cup {"client"}
      BY DEF Sides
    <3> QED BY <2>1, <3>1, <3>2, FS_Subset
  <2>3. Cardinality(RunMode(c)) # 1
    BY <1>2, <2>1, <2>2, FS_Singleton
  <2> QED BY <2>3 DEF Started
<1> QED BY <1>1, <1>2

(* Without a General change the instance stays on its side. *)
LEMMA SideStays ==
  ASSUME NEW c \in Configs, NEW d \in Configs, ~NeedsGeneral(c, d)
  PROVE  \/ Started(c) = NoInstance /\ Started(d) = NoInstance
         \/ \E m \in Sides :
              /\ Started(c) = [side |-> m, config |-> c[m]]
              /\ Started(d) = [side |-> m, config |-> d[m]]
              /\ SameSettings(c[m], d[m])
<1>1. ASSUME NEW m \in Sides PROVE c[m] = NoSide <=> d[m] = NoSide
  <2>1. (c[m] = NoSide /\ d[m] = NoSide) \/ SameSettings(c[m], d[m])
    BY EqualButServices
  <2> QED BY <2>1 DEF SameSettings
<1>2. RunMode(c) = RunMode(d)
  <2>1. {m \in Sides : c[m] # NoSide} = {m \in Sides : d[m] # NoSide}
    BY <1>1
  <2> QED BY <2>1 DEF RunMode
<1>3. CASE \A m \in Sides : RunMode(c) # {m}
  BY <1>2, <1>3, StartedShape
<1>4. ASSUME NEW m \in Sides, RunMode(c) = {m}
      PROVE  \/ Started(c) = NoInstance /\ Started(d) = NoInstance
             \/ /\ Started(c) = [side |-> m, config |-> c[m]]
                /\ Started(d) = [side |-> m, config |-> d[m]]
                /\ SameSettings(c[m], d[m])
  <2>1. (c[m] = NoSide /\ d[m] = NoSide) \/ SameSettings(c[m], d[m])
    BY EqualButServices
  <2>2. /\ Started(c) = IF c[m] = NoSide THEN NoInstance ELSE [side |-> m, config |-> c[m]]
        /\ Started(d) = IF d[m] = NoSide THEN NoInstance ELSE [side |-> m, config |-> d[m]]
    BY <1>2, <1>4, StartedShape
  <2>3. SameSettings(c[m], d[m]) => c[m] # NoSide /\ d[m] # NoSide
    BY DEF SameSettings
  <2> QED BY <2>1, <2>2, <2>3
<1> QED BY <1>3, <1>4

-----------------------------------------------------------------------------
(* An instance of side m with the settings of x and the services f. *)
With(m, x, f) == [side |-> m, config |-> [x EXCEPT !.services = f]]

(* Services are replaced as a whole, the settings stay. *)
LEMMA WithServices ==
  ASSUME NEW m, NEW x, NEW f, NEW g
  PROVE  [With(m, x, f) EXCEPT !.config.services = g] = With(m, x, g)
<1>1. [[x EXCEPT !.services = f] EXCEPT !.services = g] = [x EXCEPT !.services = g]
  OBVIOUS
<1>2. [With(m, x, f) EXCEPT !.config = [@ EXCEPT !.services = g]] = With(m, x, g)
  BY <1>1 DEF With
<1> QED BY <1>1, <1>2 DEF With

(* Its services with s, and without. *)
Plus(f, s, v) == [k \in DOMAIN f \cup {s} |-> IF k = s THEN v ELSE f[k]]
Minus(f, s) == [k \in DOMAIN f \ {s} |-> f[k]]

(* An Add puts the service in, over one of its name. *)
LEMMA UpdateAdds ==
  ASSUME NEW m, NEW x, "services" \in DOMAIN x, NEW f, NEW s, NEW v
  PROVE  Replay(With(m, x, f), Add(m, s, v)) = With(m, x, Plus(f, s, v))
<1>1. With(m, x, f).config.services = f
  BY DEF With
<1>2. Replay(With(m, x, f), Add(m, s, v))
        = [With(m, x, f) EXCEPT !.config.services = Plus(f, s, v)]
  BY <1>1 DEF Replay, Update, Add, With, Plus
<1> QED BY <1>2, WithServices

(* A Delete takes it out. *)
LEMMA UpdateDeletes ==
  ASSUME NEW m, NEW x, "services" \in DOMAIN x, NEW f, NEW s
  PROVE  Replay(With(m, x, f), Delete(m, s)) = With(m, x, Minus(f, s))
<1>1. With(m, x, f).config.services = f
  BY DEF With
<1>2. Replay(With(m, x, f), Delete(m, s))
        = [With(m, x, f) EXCEPT !.config.services = Minus(f, s)]
  BY <1>1 DEF Replay, Update, Delete, With, Minus
<1> QED BY <1>2, WithServices

(* The iteration of a map meets each of its keys. *)
LEMMA OrderCovers ==
  ASSUME NEW S, IsFiniteSet(S), NEW q \in Orders(S)
  PROVE  /\ Cardinality(S) \in Nat
         /\ q \in [1..Cardinality(S) -> S]
         /\ S = {q[i] : i \in 1..Cardinality(S)}
<1> DEFINE n == Cardinality(S)
<1>1. n \in Nat
  BY FS_CardinalityType
<1>2. q \in [1..n -> S] /\ IsInjective(q)
  BY DEF Orders
<1>3. q \in Injection(1..n, S)
  BY <1>2 DEF Injection, IsInjective
<1>4. Cardinality(1..n) = n
  BY <1>1, FS_Interval
<1>5. q \in Surjection(1..n, S)
  BY <1>3, <1>4, FS_Injection
<1>6. \A s \in S : \E i \in 1..n : q[i] = s
  BY <1>5 DEF Surjection
<1> HIDE DEF n
<1> QED BY <1>1, <1>2, <1>6 DEF n

(* The services without those of S, and with those of S as v has them. *)
Without(f, S) == [s \in DOMAIN f \ S |-> f[s]]
Merged(f, v, S) == [s \in DOMAIN f \cup S |-> IF s \in S THEN v[s] ELSE f[s]]

(* The deletions of calculate_events, in whatever order. *)
LEMMA FoldDeletes ==
  ASSUME NEW m, NEW x, "services" \in DOMAIN x, NEW f, f = [s \in DOMAIN f |-> f[s]],
         NEW S, IsFiniteSet(S), NEW q \in Orders(S)
  PROVE  FoldLeft(Replay, With(m, x, f), Deletions(m, q))
           = With(m, x, Without(f, S))
<1> DEFINE n == Cardinality(S)
           es == Deletions(m, q)
           gone(k) == {q[i] : i \in 1..k}
           g(k) == [s \in DOMAIN f \ gone(k) |-> f[s]]
           r == [k \in 0..n |-> With(m, x, g(k))]
<1>1. n \in Nat /\ DOMAIN q = 1..n /\ S = gone(n)
  BY OrderCovers
<1> HIDE DEF n
<1>2. ASSUME NEW k \in 1..n PROVE r[k] = Replay(r[k - 1], es[k])
  <2>1. gone(k) = gone(k - 1) \cup {q[k]}
    <3>1. 1..k = (1..k - 1) \cup {k}
      OBVIOUS
    <3> QED BY <3>1
  <2> HIDE DEF gone
  <2>2. Minus(g(k - 1), q[k]) = g(k)
    BY <2>1 DEF Minus
  <2>3. es[k] = Delete(m, q[k]) /\ r[k] = With(m, x, g(k)) /\ r[k - 1] = With(m, x, g(k - 1))
    BY <1>1 DEF Deletions
  <2> HIDE DEF g, r, es
  <2> QED BY <2>2, <2>3, UpdateDeletes
<1>3. r[0] = With(m, x, f)
  <2>1. gone(0) = {}
    OBVIOUS
  <2>2. g(0) = f
    BY <2>1
  <2> QED BY <1>1, <2>2
<1>4. DOMAIN es = 1..n /\ r[n] = With(m, x, Without(f, S))
  BY <1>1 DEF Deletions, Without
<1> HIDE DEF r, es
<1>5. IsRun(r, With(m, x, f), es, n)
  BY <1>2, <1>3 DEF IsRun
<1>6. FoldLeft(Replay, With(m, x, f), es) = r[n]
  BY <1>1, <1>4, <1>5, FoldByRun
<1> QED BY <1>4, <1>6 DEF es

(* The additions, in whatever order. *)
LEMMA FoldAdds ==
  ASSUME NEW m, NEW x, "services" \in DOMAIN x, NEW f, f = [s \in DOMAIN f |-> f[s]],
         NEW v, NEW S, IsFiniteSet(S), NEW q \in Orders(S)
  PROVE  FoldLeft(Replay, With(m, x, f), Additions(m, q, v))
           = With(m, x, Merged(f, v, S))
<1> DEFINE n == Cardinality(S)
           es == Additions(m, q, v)
           come(k) == {q[i] : i \in 1..k}
           g(k) == [s \in DOMAIN f \cup come(k) |-> IF s \in come(k) THEN v[s] ELSE f[s]]
           r == [k \in 0..n |-> With(m, x, g(k))]
<1>1. n \in Nat /\ DOMAIN q = 1..n /\ S = come(n)
  BY OrderCovers
<1> HIDE DEF n
<1>2. ASSUME NEW k \in 1..n PROVE r[k] = Replay(r[k - 1], es[k])
  <2>1. come(k) = come(k - 1) \cup {q[k]}
    <3>1. 1..k = (1..k - 1) \cup {k}
      OBVIOUS
    <3> QED BY <3>1
  <2> HIDE DEF come
  <2>2. Plus(g(k - 1), q[k], v[q[k]]) = g(k)
    BY <2>1 DEF Plus
  <2>3. /\ es[k] = Add(m, q[k], v[q[k]])
        /\ r[k] = With(m, x, g(k)) /\ r[k - 1] = With(m, x, g(k - 1))
    BY <1>1 DEF Additions
  <2> HIDE DEF g, r, es
  <2> QED BY <2>2, <2>3, UpdateAdds
<1>3. r[0] = With(m, x, f)
  <2>1. come(0) = {}
    OBVIOUS
  <2>2. g(0) = f
    BY <2>1
  <2> QED BY <1>1, <2>2
<1>4. /\ DOMAIN es = 1..n
      /\ r[n] = With(m, x, Merged(f, v, S))
  BY <1>1 DEF Additions, Merged
<1> HIDE DEF r, es
<1>5. IsRun(r, With(m, x, f), es, n)
  BY <1>2, <1>3 DEF IsRun
<1>6. FoldLeft(Replay, With(m, x, f), es) = r[n]
  BY <1>1, <1>4, <1>5, FoldByRun
<1> QED BY <1>4, <1>6 DEF es

-----------------------------------------------------------------------------
(* The service changes of side m that can be on their way, and all changes. *)
ServiceChanges(m) ==
  UNION {{Add(m, s, c[m].services[s]) : s \in DOMAIN c[m].services}
           \cup {Delete(m, s) : s \in DOMAIN c[m].services} : c \in Configs}

ServiceChange == ServiceChanges("server") \cup ServiceChanges("client")
GeneralChange == {General(c) : c \in Configs}
Change == ServiceChange \cup GeneralChange

(* A new service has been through the validation. *)
LEMMA ServiceChangeShape ==
  ASSUME NEW m \in Sides, NEW e \in ServiceChanges(m)
  PROVE  e.kind # "general" /\ e.side = m /\ (e.kind = "add" => ServiceRuns(m, e.config))
<1>1. PICK c \in Configs : \E s \in DOMAIN c[m].services :
                            e = Add(m, s, c[m].services[s]) \/ e = Delete(m, s)
  BY DEF ServiceChanges
<1>2. PICK s \in DOMAIN c[m].services : e = Add(m, s, c[m].services[s]) \/ e = Delete(m, s)
  BY <1>1
<1>3. c[m] # NoSide
  BY <1>2 DEF NoSide
<1>4. ServiceRuns(m, c[m].services[s])
  BY <1>3, ConfigsSound DEF Sound
<1> QED BY <1>2, <1>4 DEF Add, Delete

(* The kinds of changes, and what each carries. *)
LEMMA ChangeShape ==
  /\ ServiceChange \subseteq Change
  /\ \A e \in ServiceChange : e.side \in Sides /\ e \in ServiceChanges(e.side)
  /\ \A e \in ServiceChange : e.kind # "general" /\ (e.kind = "add" => ServiceRuns(e.side, e.config))
  /\ \A e \in GeneralChange : e.kind = "general" /\ e.config \in Configs
<1>1. \A e \in ServiceChange :
        \E m \in Sides : e \in ServiceChanges(m)
  BY DEF ServiceChange, Sides
<1>2. \A e \in ServiceChange : \E m \in Sides :
         /\ e \in ServiceChanges(m) /\ e.kind # "general" /\ e.side = m
         /\ (e.kind = "add" => ServiceRuns(m, e.config))
  BY <1>1, ServiceChangeShape
<1>3. \A e \in GeneralChange : e.kind = "general" /\ e.config \in Configs
  BY DEF GeneralChange, General
<1> QED BY <1>2, <1>3 DEF Change

(* The deletions and the additions of one side. *)
LEMMA SideEventsSplit ==
  ASSUME NEW c \in Configs, NEW d \in Configs, NEW m \in Sides,
         c[m] # d[m], SameSettings(c[m], d[m]), NEW p \in SideEvents(m, c, d)
  PROVE  LET o == c[m].services
             n == d[m].services
         IN  /\ IsFiniteSet(Deleted(o, n)) /\ IsFiniteSet(Added(o, n))
             /\ \E q \in Orders(Deleted(o, n)), a \in Orders(Added(o, n)) :
                  /\ p = Deletions(m, q) \o Additions(m, a, n)
                  /\ Deletions(m, q) \in Seq(ServiceChanges(m))
                  /\ Additions(m, a, n) \in Seq(ServiceChanges(m))
<1> DEFINE o == c[m].services
           n == d[m].services
<1>1. PICK q \in Orders(Deleted(o, n)), a \in Orders(Added(o, n)) :
        p = Deletions(m, q) \o Additions(m, a, n)
  BY DEF SideEvents, ServiceEvents
<1>2. IsFiniteSet(DOMAIN o) /\ IsFiniteSet(DOMAIN n)
  <2>1. c[m] # NoSide /\ d[m] # NoSide
    BY DEF SameSettings
  <2>2. Sound(c[m], m) /\ Sound(d[m], m)
    BY <2>1, ConfigsSound
  <2> QED BY <2>2 DEF Sound
<1>3. IsFiniteSet(Deleted(o, n)) /\ IsFiniteSet(Added(o, n))
  <2>1. Deleted(o, n) \in SUBSET DOMAIN o /\ Added(o, n) \in SUBSET DOMAIN n
    BY DEF Deleted, Added
  <2> HIDE DEF o, n
  <2> QED BY <1>2, <2>1, FS_Subset
<1>4. Deletions(m, q) \in Seq(ServiceChanges(m))
  <2> DEFINE k == Cardinality(Deleted(o, n))
  <2>1. k \in Nat /\ q \in [1..k -> Deleted(o, n)]
    BY <1>3, OrderCovers
  <2>2. \A s \in Deleted(o, n) : Delete(m, s) \in ServiceChanges(m)
    BY DEF ServiceChanges, Deleted
  <2> HIDE DEF k, o, n
  <2>3. Deletions(m, q) \in [1..k -> ServiceChanges(m)]
    BY <2>1, <2>2 DEF Deletions
  <2> QED BY <2>1, <2>3, SeqDef
<1>5. Additions(m, a, n) \in Seq(ServiceChanges(m))
  <2> DEFINE k == Cardinality(Added(o, n))
  <2>1. k \in Nat /\ a \in [1..k -> Added(o, n)]
    BY <1>3, OrderCovers
  <2>2. \A s \in Added(o, n) : Add(m, s, n[s]) \in ServiceChanges(m)
    BY DEF ServiceChanges, Added
  <2> HIDE DEF k, o, n
  <2>3. Additions(m, a, n) \in [1..k -> ServiceChanges(m)]
    BY <2>1, <2>2 DEF Additions
  <2> QED BY <2>1, <2>3, SeqDef
<1> QED BY <1>1, <1>3, <1>4, <1>5

(* The events of one side are service changes of that side. *)
LEMMA SideEventsType ==
  ASSUME NEW c \in Configs, NEW d \in Configs, ~NeedsGeneral(c, d), NEW m \in Sides,
         NEW p \in SideEvents(m, c, d)
  PROVE  p \in Seq(ServiceChanges(m))
<1>1. CASE c[m] = d[m]
  BY <1>1 DEF SideEvents
<1>2. CASE c[m] # d[m]
  <2>1. SameSettings(c[m], d[m])
    BY <1>2, EqualButServices
  <2>2. PICK q, a : /\ p = Deletions(m, q) \o Additions(m, a, d[m].services)
                    /\ Deletions(m, q) \in Seq(ServiceChanges(m))
                    /\ Additions(m, a, d[m].services) \in Seq(ServiceChanges(m))
    BY <1>2, <2>1, SideEventsSplit
  <2> QED BY <2>2, ConcatProperties
<1> QED BY <1>1, <1>2

(* They turn an instance of c's side into one of d's. *)
LEMMA SideReplay ==
  ASSUME NEW c \in Configs, NEW d \in Configs, NEW m \in Sides,
         SameSettings(c[m], d[m]), NEW p \in SideEvents(m, c, d)
  PROVE  FoldLeft(Replay, [side |-> m, config |-> c[m]], p) = [side |-> m, config |-> d[m]]
<1>1. CASE c[m] = d[m]
  <2>1. p = <<>>
    BY <1>1 DEF SideEvents
  <2> QED BY <1>1, <2>1, FoldEmpty
<1>2. CASE c[m] # d[m]
  <2> DEFINE x == c[m]
             o == c[m].services
             n == d[m].services
             both == Without(o, Deleted(o, n))
  <2>1. c[m] # NoSide /\ d[m] # NoSide /\ d[m] = [x EXCEPT !.services = n]
    BY DEF SameSettings
  <2>2. Sound(x, m) /\ Sound(d[m], m)
    BY <2>1, ConfigsSound
  <2>3. /\ "services" \in DOMAIN x /\ x = [x EXCEPT !.services = o]
        /\ o = [s \in DOMAIN o |-> o[s]] /\ n = [s \in DOMAIN n |-> n[s]]
    BY <2>2 DEF Sound
  <2>4. [side |-> m, config |-> c[m]] = With(m, x, o)
    BY <2>3 DEF With
  <2>5. [side |-> m, config |-> d[m]] = With(m, x, n)
    BY <2>1 DEF With
  <2>6. PICK q \in Orders(Deleted(o, n)), a \in Orders(Added(o, n)) :
          /\ p = Deletions(m, q) \o Additions(m, a, n)
          /\ Deletions(m, q) \in Seq(ServiceChanges(m))
          /\ Additions(m, a, n) \in Seq(ServiceChanges(m))
    BY <1>2, SideEventsSplit
  <2>7. IsFiniteSet(Deleted(o, n)) /\ IsFiniteSet(Added(o, n))
    BY <1>2, SideEventsSplit
  <2>8. both = [s \in DOMAIN both |-> both[s]]
    BY DEF Without
  <2>9. Merged(both, n, Added(o, n)) = n
    BY <2>3 DEF Merged, Without, Added, Deleted
  <2> HIDE DEF x, o, n, both
  <2>10. FoldLeft(Replay, With(m, x, o), Deletions(m, q)) = With(m, x, both)
    BY <2>3, <2>7, FoldDeletes DEF both
  <2>11. FoldLeft(Replay, With(m, x, both), Additions(m, a, n)) = With(m, x, n)
    BY <2>3, <2>7, <2>8, <2>9, FoldAdds
  <2>12. FoldLeft(Replay, With(m, x, o), p)
           = FoldLeft(Replay, FoldLeft(Replay, With(m, x, o), Deletions(m, q)), Additions(m, a, n))
    BY <2>6, FoldConcat
  <2> QED BY <2>4, <2>5, <2>10, <2>11, <2>12
<1> QED BY <1>1, <1>2

(* The changes of one side leave an instance of the other alone. *)
LEMMA OtherSide ==
  ASSUME NEW m \in Sides, NEW p \in Seq(ServiceChanges(m)), NEW a, a.side # m
  PROVE  FoldLeft(Replay, a, p) = a
<1>1. \A e \in ServiceChanges(m) : Replay(a, e) = a
  BY ServiceChangeShape DEF Replay, Update
<1> QED BY <1>1, FoldIgnores

(***************************************************************************)
(* calculate_events: in whatever order the maps are iterated, the events   *)
(* from c to d turn what a start with c runs into what one with d runs.    *)
(***************************************************************************)
THEOREM EventsReplay ==
  ASSUME NEW c \in Configs, NEW d \in Configs, NEW es \in Events(c, d)
  PROVE  es \in Seq(Change) /\ FoldLeft(Replay, Started(c), es) = Started(d)
<1>1. CASE NeedsGeneral(c, d)
  <2>1. es = <<General(d)>>
    BY <1>1 DEF Events
  <2>2. General(d) \in Change /\ General(d).kind = "general" /\ General(d).config = d
    BY DEF Change, GeneralChange, General
  <2>3. Replay(Started(c), General(d)) = Started(d)
    BY <2>2 DEF Replay
  <2>4. <<General(d)>> \in Seq(Change)
    BY <2>2
  <2> QED BY <2>1, <2>3, <2>4, FoldOne
<1>2. CASE ~NeedsGeneral(c, d)
  <2> DEFINE a == Started(c)
  <2>1. PICK p \in SideEvents("server", c, d), q \in SideEvents("client", c, d) : es = p \o q
    BY <1>2 DEF Events
  <2>2. "server" \in Sides /\ "client" \in Sides /\ "server" # "client"
    BY DEF Sides
  <2>3. p \in Seq(ServiceChanges("server")) /\ q \in Seq(ServiceChanges("client"))
    BY <1>2, <2>2, SideEventsType
  <2>4. p \in Seq(Change) /\ q \in Seq(Change)
    BY <2>3, SeqMonotonic DEF Change, ServiceChange
  <2>5. es \in Seq(Change) /\ FoldLeft(Replay, a, es) = FoldLeft(Replay, FoldLeft(Replay, a, p), q)
    BY <2>1, <2>4, FoldConcat, ConcatProperties
  <2>6. CASE a = NoInstance /\ Started(d) = NoInstance
    <3>1. a.side # "server" /\ a.side # "client"
      BY <2>6 DEF NoInstance, None
    <3>2. FoldLeft(Replay, a, p) = a /\ FoldLeft(Replay, a, q) = a
      BY <2>2, <2>3, <3>1, OtherSide
    <3> QED BY <2>5, <2>6, <3>2
  <2>7. ASSUME NEW m \in Sides,
               Started(c) = [side |-> m, config |-> c[m]],
               Started(d) = [side |-> m, config |-> d[m]],
               SameSettings(c[m], d[m])
        PROVE  FoldLeft(Replay, a, es) = Started(d)
    <3>1. CASE m = "server"
      <4>1. FoldLeft(Replay, a, p) = Started(d)
        BY <2>7, <3>1, SideReplay
      <4>2. Started(d).side # "client"
        BY <2>7, <3>1
      <4>3. FoldLeft(Replay, Started(d), q) = Started(d)
        BY <2>2, <2>3, <4>2, OtherSide
      <4> QED BY <2>5, <4>1, <4>3
    <3>2. CASE m = "client"
      <4>1. a.side # "server"
        BY <2>7, <3>2
      <4>2. FoldLeft(Replay, a, p) = a
        BY <2>2, <2>3, <4>1, OtherSide
      <4>3. FoldLeft(Replay, a, q) = Started(d)
        BY <2>7, <3>2, SideReplay
      <4> QED BY <2>5, <4>2, <4>3
    <3> QED BY <3>1, <3>2 DEF Sides
  <2> QED BY <1>2, <2>5, <2>6, <2>7, SideStays
<1> QED BY <1>1, <1>2

-----------------------------------------------------------------------------
(* What is on its way to the instance, and how many notifications are. *)
InTransit ==
  /\ events \in Seq(Change) /\ updates \in Seq(ServiceChange)
  /\ run = "stopping" => item \in GeneralChange
  /\ run = "sending" => item \in ServiceChange
  /\ fevents <= edits

(* A living instance runs a side the validation let through, as updated. *)
Fit(a) ==
  /\ a.side \in Sides /\ a = [side |-> a.side, config |-> a.config]
  /\ Sound(a.config, a.side)

RunsFit == inst = "running" => Fit(applied)

IInv == TypeOK /\ InTransit /\ RunsFit /\ NothingLost

(* A start makes a fit instance. *)
LEMMA StartedFit ==
  ASSUME NEW c \in Configs, Started(c) # NoInstance
  PROVE  Fit(Started(c))
<1>1. PICK m \in Sides : RunMode(c) = {m}
  BY StartedShape
<1>2. c[m] # NoSide /\ Started(c) = [side |-> m, config |-> c[m]]
  BY <1>1, StartedShape
<1>3. Sound(c[m], m)
  BY <1>2, ConfigsSound
<1> QED BY <1>2, <1>3 DEF Fit

(* The services of a fit instance stay validated under each update. *)
LEMMA UpdatedFit ==
  ASSUME NEW a, Fit(a), NEW e \in ServiceChange
  PROVE  Fit(Update(a, e))
<1>1. CASE a.side # e.side
  BY <1>1 DEF Update
<1>2. CASE a.side = e.side
  <2> DEFINE m == a.side
             x == a.config
             f == a.config.services
  <2>1. m \in Sides /\ Sound(x, m) /\ a = [side |-> m, config |-> x]
    BY DEF Fit
  <2>2. e \in ServiceChanges(m) /\ e.kind # "general"
    BY <1>2, ChangeShape
  <2>3. \E s, v : e = Add(m, s, v) \/ e = Delete(m, s)
    BY <2>2 DEF ServiceChanges
  <2>4. PICK s, v : e = Add(m, s, v) \/ e = Delete(m, s)
    BY <2>3
  <2> HIDE DEF m, x, f
  <2>5. a = With(m, x, f)
    BY <2>1 DEF Sound, With, f
  <2>6. Update(a, e) = Replay(a, e)
    BY <2>2 DEF Replay
  <2>7. "services" \in DOMAIN x
    BY <2>1 DEF Sound
  <2>8. ASSUME NEW g, g = [n \in DOMAIN g |-> g[n]], IsFiniteSet(DOMAIN g),
               \A n \in DOMAIN g : ServiceRuns(m, g[n])
        PROVE  Fit(With(m, x, g))
    <3> DEFINE y == [x EXCEPT !.services = g]
    <3>1. /\ y = [k \in DOMAIN y |-> y[k]] /\ DOMAIN y = DOMAIN x
          /\ y.services = g /\ y.transport = x.transport
      BY <2>1, <2>7 DEF Sound
    <3> HIDE DEF y
    <3>2. Sound(y, m)
      BY <2>1, <2>8, <3>1 DEF Sound
    <3> QED BY <2>1, <3>2 DEF Fit, With, y
  <2>9. CASE e = Add(m, s, v)
    <3>1. Update(a, e) = With(m, x, Plus(f, s, v))
      BY <2>5, <2>6, <2>7, <2>9, UpdateAdds
    <3>2. ServiceRuns(m, v)
      <4>1. e.kind = "add" /\ e.config = v
        BY <2>9 DEF Add
      <4> QED BY <2>1, <2>2, <4>1, ServiceChangeShape
    <3>3. IsFiniteSet(DOMAIN f \cup {s})
      BY <2>1, FS_AddElement DEF Sound, f, x
    <3>4. /\ DOMAIN Plus(f, s, v) = DOMAIN f \cup {s}
          /\ Plus(f, s, v) = [n \in DOMAIN Plus(f, s, v) |-> Plus(f, s, v)[n]]
          /\ \A n \in DOMAIN f \cup {s} : Plus(f, s, v)[n] = IF n = s THEN v ELSE f[n]
      BY DEF Plus
    <3>5. \A n \in DOMAIN f : ServiceRuns(m, f[n])
      BY <2>1 DEF Sound, f, x
    <3> QED BY <2>8, <3>1, <3>2, <3>3, <3>4, <3>5
  <2>10. CASE e = Delete(m, s)
    <3>1. Update(a, e) = With(m, x, Minus(f, s))
      BY <2>5, <2>6, <2>7, <2>10, UpdateDeletes
    <3>2. IsFiniteSet(DOMAIN f \ {s})
      BY <2>1, FS_RemoveElement DEF Sound, f, x
    <3>3. /\ DOMAIN Minus(f, s) = DOMAIN f \ {s}
          /\ Minus(f, s) = [n \in DOMAIN Minus(f, s) |-> Minus(f, s)[n]]
          /\ \A n \in DOMAIN f \ {s} : Minus(f, s)[n] = f[n]
      BY DEF Minus
    <3>4. \A n \in DOMAIN f : ServiceRuns(m, f[n])
      BY <2>1 DEF Sound, f, x
    <3> QED BY <2>8, <3>1, <3>2, <3>3, <3>4
  <2> QED BY <2>4, <2>9, <2>10
<1> QED BY <1>1, <1>2

-----------------------------------------------------------------------------
(* The first event is the configuration the watcher starts from. *)
LEMMA InitInv == Init => IInv
<1> SUFFICES ASSUME Init PROVE IInv
  OBVIOUS
<1>1. old \in Configs
  BY DEF Init, Configs
<1>2. General(old) \in GeneralChange /\ General(old) \in Change
  BY <1>1 DEF GeneralChange, Change
<1>3. TypeOK
  <2>1. Len(updates) <= UpdateCap
    BY ParametersAssumption DEF Init
  <2>2. 0 \in 0..MaxEdits /\ 0 \in 0..MaxFaults
    BY ParametersAssumption
  <2> QED BY <1>1, <2>1, <2>2 DEF Init, TypeOK
<1>4. InTransit
  BY <1>2 DEF Init, InTransit
<1>5. RunsFit
  BY DEF Init, RunsFit
<1>6. NothingLost
  <2>1. Pending = <<General(old)>>
    BY DEF Init, Pending
  <2>2. Replay(applied, General(old)) = Started(old)
    BY DEF Replay, General
  <2> QED BY <2>1, <2>2, FoldOne DEF NothingLost
<1> QED BY <1>3, <1>4, <1>5, <1>6 DEF IInv

(* What a step does to the places of the tasks and to the bounds. *)
LEMMA TypeStep ==
  ASSUME TypeOK, InTransit, [Next]_vars
  PROVE  TypeOK' /\ fevents' <= edits'
<1> USE ParametersAssumption DEF TypeOK
<1>1. CASE \E c \in Files : Edit(c)
  BY <1>1 DEF Edit, InTransit, instance
<1>2. CASE StartWatching \/ Quit
  BY <1>2 DEF StartWatching, Quit, InTransit, instance
<1>3. CASE Rescan
  <2>1. old' \in Configs
    BY <1>3 DEF Rescan, Configs
  <2>2. fevents' \in 0..MaxEdits /\ fevents' <= edits'
    BY <1>3 DEF Rescan, InTransit
  <2> QED BY <1>3, <2>1, <2>2 DEF Rescan, instance
<1>4. ASSUME NEW c, StartInstance(c)
      PROVE  /\ inst' \in {"none", "running", "stopped", "dead"}
             /\ Len(updates') <= UpdateCap /\ faults' \in 0..MaxFaults
  <2>1. Len(updates') = 0
    BY <1>4 DEF StartInstance
  <2> QED BY <1>4, <2>1 DEF StartInstance
<1>5. CASE FirstInstance
  BY <1>4, <1>5 DEF FirstInstance, InTransit, watcher
<1>6. CASE JoinInstance
  BY <1>4, <1>6 DEF JoinInstance, InTransit, watcher
<1>7. CASE StopInstance \/ TakeServiceChange
  BY <1>7 DEF StopInstance, TakeServiceChange, InTransit, watcher, instance
<1>8. CASE SendUpdate
  <2>1. Len(updates') <= UpdateCap
    <3>1. CASE updates' = Append(updates, item) /\ Len(updates) < UpdateCap
      <4>1. Len(updates') = Len(updates) + 1 /\ Len(updates) \in Nat
        BY <3>1, LenProperties DEF InTransit
      <4> QED BY <3>1, <4>1
    <3>2. CASE UNCHANGED updates
      BY <3>2
    <3> QED BY <1>8, <3>1, <3>2 DEF SendUpdate
  <2> QED BY <1>8, <2>1 DEF SendUpdate, InTransit, watcher
<1>9. CASE TakeUpdate
  <2>1. Len(updates') <= UpdateCap
    <3>1. Len(Tail(updates)) = Len(updates) - 1 /\ Len(updates) \in Nat
      BY <1>9, HeadTailProperties, LenProperties DEF TakeUpdate, InTransit
    <3> QED BY <1>9, <3>1 DEF TakeUpdate
  <2> QED BY <1>9, <2>1 DEF TakeUpdate, InTransit, watcher
<1>10. CASE RunEnds \/ Stop
  BY <1>10 DEF RunEnds, Stop, InTransit, watcher, instance
<1>11. CASE UNCHANGED vars
  BY <1>11 DEF vars, InTransit
<1> QED BY <1>1, <1>2, <1>3, <1>5, <1>6, <1>7, <1>8, <1>9, <1>10, <1>11 DEF Next, RunStep, InstanceStep

(* The queues carry changes the watcher has seen, each where it belongs. *)
LEMMA TransitStep ==
  ASSUME TypeOK, InTransit, [Next]_vars
  PROVE  InTransit'
<1>1. fevents' <= edits'
  BY TypeStep
<1>2. CASE (\E c \in Files : Edit(c)) \/ StartWatching \/ Quit \/ RunEnds
  BY <1>1, <1>2 DEF Edit, StartWatching, Quit, RunEnds, InTransit, instance
<1>3. CASE Rescan
  <2>1. events' \in Seq(Change)
    <3>1. CASE UNCHANGED events
      BY <3>1 DEF InTransit
    <3>2. CASE /\ FromStr(file) # Invalid
               /\ \E es \in Events(old, FromStr(file)) : events' = events \o es
      <4>1. FromStr(file) \in Configs /\ old \in Configs
        BY <3>2 DEF TypeOK, Configs
      <4>2. PICK es \in Events(old, FromStr(file)) : events' = events \o es
        BY <3>2
      <4>3. es \in Seq(Change)
        BY <4>1, EventsReplay
      <4> QED BY <4>2, <4>3, ConcatProperties DEF InTransit
    <3> QED BY <1>3, <3>1, <3>2 DEF Rescan
  <2> QED BY <1>1, <1>3, <2>1 DEF Rescan, InTransit, instance
<1>4. events # <<>> => /\ Head(events) \in Change /\ Tail(events) \in Seq(Change)
                       /\ Head(events).kind = "general" => Head(events) \in GeneralChange
                       /\ Head(events).kind # "general" => Head(events) \in ServiceChange
  BY HeadTailProperties, ChangeShape DEF InTransit, Change
<1>5. ASSUME NEW c, StartInstance(c) PROVE updates' \in Seq(ServiceChange)
  BY <1>5 DEF StartInstance
<1>6. CASE FirstInstance
  BY <1>1, <1>4, <1>5, <1>6 DEF FirstInstance, InTransit, watcher
<1>7. CASE StopInstance
  BY <1>1, <1>4, <1>7 DEF StopInstance, InTransit, watcher, instance
<1>8. CASE JoinInstance
  BY <1>1, <1>5, <1>8 DEF JoinInstance, InTransit, watcher
<1>9. CASE TakeServiceChange
  BY <1>1, <1>4, <1>9 DEF TakeServiceChange, InTransit, watcher, instance
<1>10. CASE SendUpdate
  BY <1>1, <1>10 DEF SendUpdate, InTransit, watcher
<1>11. CASE TakeUpdate
  BY <1>1, <1>11, HeadTailProperties DEF TakeUpdate, InTransit, watcher
<1>12. CASE Stop \/ UNCHANGED vars
  BY <1>1, <1>12 DEF Stop, vars, InTransit, watcher
<1> QED BY <1>2, <1>3, <1>6, <1>7, <1>8, <1>9, <1>10, <1>11, <1>12 DEF Next, RunStep, InstanceStep

(* A living instance is fit, and stays so. *)
LEMMA FitStep ==
  ASSUME TypeOK, InTransit, RunsFit, [Next]_vars
  PROVE  RunsFit'
<1>1. CASE UNCHANGED <<inst, applied>>
  BY <1>1 DEF RunsFit
<1>2. ASSUME NEW c \in Configs, StartInstance(c) PROVE RunsFit'
  BY <1>2, StartedFit DEF StartInstance, Starts, RunsFit
<1>3. CASE FirstInstance
  <2>1. Head(events) \in GeneralChange
    BY <1>3, HeadTailProperties, ChangeShape DEF FirstInstance, InTransit, Change
  <2> QED BY <1>2, <1>3, <2>1, ChangeShape DEF FirstInstance
<1>4. CASE JoinInstance
  <2>1. item \in GeneralChange
    BY <1>4 DEF JoinInstance, InTransit
  <2> QED BY <1>2, <1>4, <2>1, ChangeShape DEF JoinInstance
<1>5. CASE TakeUpdate
  <2>1. Head(updates) \in ServiceChange
    BY <1>5, HeadTailProperties DEF TakeUpdate, InTransit
  <2>2. Fit(applied)
    BY <1>5 DEF TakeUpdate, RunsFit
  <2>3. Fit(Update(applied, Head(updates)))
    BY <2>1, <2>2, UpdatedFit
  <2> QED BY <1>5, <2>3 DEF TakeUpdate, RunsFit
<1>6. CASE Stop
  BY <1>6 DEF Stop, RunsFit
<1>7. CASE ~(FirstInstance \/ JoinInstance \/ TakeUpdate \/ Stop)
  <2>1. UNCHANGED <<inst, applied>>
    BY <1>7 DEF Next, RunStep, InstanceStep, Edit, StartWatching, Rescan, Quit, StopInstance,
                TakeServiceChange, SendUpdate, RunEnds, instance, vars
  <2> QED BY <1>1, <2>1
<1> QED BY <1>3, <1>4, <1>5, <1>6, <1>7

(***************************************************************************)
(* No step loses a change: what is pending still ends in the watcher's     *)
(* configuration. The watcher adds the events of what it has read; a       *)
(* General change makes all before it irrelevant, the updates included     *)
(* that die with the queue of the instance it stops; a service change      *)
(* moves from queue to queue, and into the instance from the front.        *)
(***************************************************************************)
LEMMA LostStep ==
  ASSUME TypeOK, InTransit, NothingLost, [Next]_vars
  PROVE  NothingLost'
<1> SUFFICES ASSUME inst' # "dead", run' # "failed"
             PROVE  FoldLeft(Replay, applied', Pending') = Started(old')
  BY DEF NothingLost
<1> DEFINE Middle == IF run = "sending" THEN <<item>> ELSE <<>>
<1>1. /\ events \in Seq(Change) /\ updates \in Seq(Change) /\ <<>> \in Seq(Change)
      /\ run \in {"stopping", "sending"} => item \in Change /\ <<item>> \in Seq(Change)
      /\ Middle \in Seq(Change)
  <2>1. events \in Seq(Change) /\ updates \in Seq(Change) /\ <<>> \in Seq(Change)
    BY SeqMonotonic, ChangeShape, EmptySeq DEF InTransit
  <2>2. run \in {"stopping", "sending"} => item \in Change
    BY DEF InTransit, Change
  <2>3. item \in Change => <<item>> \in Seq(Change)
    OBVIOUS
  <2> QED BY <2>1, <2>2, <2>3
<1>2. Pending \in Seq(Change)
  BY <1>1, ConcatProperties DEF Pending
<1>3. inst # "dead" /\ run # "failed" => FoldLeft(Replay, applied, Pending) = Started(old)
  BY DEF NothingLost
<1>4. CASE /\ UNCHANGED <<applied, updates, item, events, old, inst>>
           /\ run' = run \/ (run = "idle" /\ run' = "ended")
  BY <1>3, <1>4 DEF Pending
<1>5. CASE Rescan
  <2>1. inst # "dead" /\ run # "failed"
    BY <1>5 DEF Rescan, instance
  <2>2. CASE UNCHANGED <<old, events>>
    BY <1>5, <1>4, <2>2 DEF Rescan, instance
  <2>3. CASE /\ FromStr(file) # Invalid /\ old' = FromStr(file)
             /\ \E es \in Events(old, FromStr(file)) : events' = events \o es
    <3>1. old \in Configs /\ old' \in Configs
      BY <2>3 DEF TypeOK, Configs
    <3>2. PICK es \in Events(old, old') : events' = events \o es
      BY <2>3
    <3>3. es \in Seq(Change) /\ FoldLeft(Replay, Started(old), es) = Started(old')
      BY <3>1, EventsReplay
    <3>4. Pending' = Pending \o es
      <4>1. CASE run = "stopping"
        <5>1. (<<item>> \o events) \o es = <<item>> \o (events \o es)
          BY <1>1, <3>3, <4>1, ConcatAssociative
        <5> QED BY <1>5, <3>2, <4>1, <5>1 DEF Pending, Rescan, instance
      <4>2. CASE run # "stopping"
        <5>1. updates \o Middle \in Seq(Change)
          BY <1>1, ConcatProperties
        <5>2. \A us \in Seq(Change) : (us \o events) \o es = us \o (events \o es)
          BY <1>1, <3>3, ConcatAssociative
        <5>3. (updates \o Middle \o events) \o es = (updates \o Middle) \o (events \o es)
          BY <5>1, <5>2
        <5> QED BY <1>5, <3>2, <4>2, <5>3 DEF Pending, Rescan, instance
      <4> QED BY <4>1, <4>2
    <3>5. FoldLeft(Replay, applied, Pending \o es)
            = FoldLeft(Replay, FoldLeft(Replay, applied, Pending), es)
      BY <1>2, <3>3, FoldConcat
    <3> QED BY <1>3, <1>5, <2>1, <3>3, <3>4, <3>5 DEF Rescan, instance
  <2> QED BY <1>5, <2>2, <2>3 DEF Rescan
<1>6. ASSUME run = "idle", events # <<>>
      PROVE  /\ Pending = updates \o events
             /\ Head(events) \in Change /\ Tail(events) \in Seq(Change)
             /\ events = <<Head(events)>> \o Tail(events)
             /\ <<>> \o <<>> \o Tail(events) = Tail(events)
  BY <1>1, <1>6, HeadTailProperties, ConcatEmptySeq DEF Pending
<1>7. ASSUME run = "idle", events # <<>>, Head(events).kind = "general"
      PROVE  /\ FoldLeft(Replay, applied, Pending)
                   = FoldLeft(Replay, Started(Head(events).config), Tail(events))
             /\ FoldLeft(Replay, applied, events)
                   = FoldLeft(Replay, Started(Head(events).config), Tail(events))
  <2>1. FoldLeft(Replay, applied, updates \o events)
          = FoldLeft(Replay, FoldLeft(Replay, applied, updates), events)
    BY <1>1, FoldConcat
  <2> QED BY <1>1, <1>6, <1>7, <2>1, FoldFromGeneral
<1>8. CASE FirstInstance
  <2>1. applied' = Started(Head(events).config) /\ updates' = <<>> /\ run' = "idle"
        /\ events' = Tail(events) /\ old' = old
    BY <1>8 DEF FirstInstance, StartInstance, watcher
  <2>2. Pending' = <<>> \o <<>> \o Tail(events)
    BY <2>1 DEF Pending
  <2> QED BY <1>3, <1>6, <1>7, <1>8, <2>1, <2>2 DEF FirstInstance
<1>9. CASE StopInstance
  <2>1. run' = "stopping" /\ inst = "running" /\ run = "idle"
    BY <1>9 DEF StopInstance
  <2>2. Pending' = <<Head(events)>> \o Tail(events)
    BY <1>9, <2>1 DEF StopInstance, Pending
  <2> QED BY <1>3, <1>6, <1>7, <1>9, <2>1, <2>2 DEF StopInstance, watcher, instance
<1>10. ASSUME run = "stopping", NEW a
       PROVE  FoldLeft(Replay, a, Pending) = FoldLeft(Replay, Started(item.config), events)
  <2>1. item.kind = "general"
    BY <1>10, ChangeShape DEF InTransit
  <2>2. Pending = <<item>> \o events
    BY <1>10 DEF Pending
  <2>3. FoldLeft(Replay, a, <<item>> \o events)
          = FoldLeft(Replay, FoldLeft(Replay, a, <<item>>), events)
    BY <1>1, <1>10, FoldConcat
  <2>4. Replay(a, item) = Started(item.config)
    BY <2>1 DEF Replay
  <2> QED BY <2>2, <2>3, <2>4, FoldOne
<1>11. CASE JoinInstance
  <2>1. /\ applied' = Started(item.config) /\ updates' = <<>> /\ run' = "idle"
        /\ events' = events /\ old' = old /\ run = "stopping" /\ inst = "stopped"
    BY <1>11 DEF JoinInstance, StartInstance, watcher
  <2>2. Pending' = <<>> \o <<>> \o events
    BY <2>1 DEF Pending
  <2>3. <<>> \o <<>> \o events = events
    BY <1>1, ConcatEmptySeq
  <2> QED BY <1>3, <1>10, <2>1, <2>2, <2>3
<1>12. CASE TakeServiceChange
  <2>1. Pending' = updates \o <<Head(events)>> \o Tail(events)
    BY <1>12 DEF TakeServiceChange, Pending, instance
  <2>2. <<Head(events)>> \in Seq(Change)
    BY <1>6, <1>12 DEF TakeServiceChange
  <2>3. Pending' = Pending
    BY <1>1, <1>6, <1>12, <2>1, <2>2, ConcatAssociative DEF TakeServiceChange
  <2> QED BY <1>3, <1>12, <2>3 DEF TakeServiceChange, watcher, instance
<1>13. CASE SendUpdate
  <2>1. inst = "running" /\ updates' = Append(updates, item) /\ run = "sending" /\ run' = "idle"
    BY <1>13 DEF SendUpdate
  <2>2. Append(updates, item) = updates \o <<item>>
    BY <1>1
  <2>3. updates \o <<item>> \in Seq(Change)
    BY <1>1, <2>1, ConcatProperties
  <2>4. updates \o <<item>> \o <<>> = updates \o <<item>>
    BY <2>3, ConcatEmptySeq
  <2>5. Pending' = Pending
    BY <1>13, <2>1, <2>2, <2>4 DEF SendUpdate, Pending
  <2> QED BY <1>3, <1>13, <2>1, <2>5 DEF SendUpdate, watcher
<1>14. CASE TakeUpdate
  <2>1. CASE run = "stopping"
    <3>1. Pending' = Pending
      BY <1>14, <2>1 DEF TakeUpdate, Pending
    <3>2. FoldLeft(Replay, applied', Pending) = FoldLeft(Replay, applied, Pending)
      BY <1>10, <2>1
    <3> QED BY <1>3, <1>14, <2>1, <3>1, <3>2 DEF TakeUpdate, watcher
  <2>2. CASE run # "stopping"
    <3>1. updates # <<>> /\ updates' = Tail(updates) /\ applied' = Update(applied, Head(updates))
      BY <1>14 DEF TakeUpdate
    <3>2. Head(updates) \in ServiceChange /\ Tail(updates) \in Seq(Change)
      BY <1>1, <3>1, HeadTailProperties DEF InTransit
    <3>3. Replay(applied, Head(updates)) = applied'
      BY <3>1, <3>2, ChangeShape DEF Replay
    <3>4. Pending = updates \o Middle \o events /\ Pending' = Tail(updates) \o Middle \o events
      BY <1>14, <2>2, <3>1 DEF TakeUpdate, Pending
    <3>5. ASSUME NEW us \in Seq(Change), NEW a
          PROVE  FoldLeft(Replay, a, us \o Middle \o events)
                   = FoldLeft(Replay, FoldLeft(Replay, FoldLeft(Replay, a, us), Middle), events)
      <4>1. us \o Middle \in Seq(Change)
        BY <1>1, ConcatProperties
      <4> HIDE DEF Middle
      <4>2. FoldLeft(Replay, a, us \o Middle)
              = FoldLeft(Replay, FoldLeft(Replay, a, us), Middle)
        BY <1>1, FoldConcat
      <4>3. FoldLeft(Replay, a, us \o Middle \o events)
              = FoldLeft(Replay, FoldLeft(Replay, a, us \o Middle), events)
        BY <1>1, <4>1, FoldConcat
      <4> QED BY <4>2, <4>3
    <3>6. FoldLeft(Replay, applied, updates) = FoldLeft(Replay, applied', Tail(updates))
      BY <1>1, <3>1, <3>3, FoldStep
    <3> HIDE DEF Middle
    <3>7. FoldLeft(Replay, applied', Pending') = FoldLeft(Replay, applied, Pending)
      BY <1>1, <3>2, <3>4, <3>5, <3>6
    <3> QED BY <1>3, <1>14, <3>7 DEF TakeUpdate, watcher
  <2> QED BY <2>1, <2>2
<1>15. CASE Stop
  <2>1. Pending' = Pending /\ applied' = applied /\ old' = old /\ inst = "running" /\ run # "failed"
    BY <1>15 DEF Stop, Pending, watcher
  <2> QED BY <1>3, <2>1
<1>16. CASE (\E c \in Files : Edit(c)) \/ StartWatching \/ Quit \/ RunEnds \/ UNCHANGED vars
  BY <1>4, <1>16 DEF Edit, StartWatching, Quit, RunEnds, vars, instance, watcher
<1> QED BY <1>5, <1>8, <1>9, <1>11, <1>12, <1>13, <1>14, <1>15, <1>16 DEF Next, RunStep, InstanceStep

-----------------------------------------------------------------------------
(* The inductive invariant of the reload. *)
THEOREM ReloadInvariance == Spec => []IInv
<1>1. IInv /\ [Next]_vars => IInv'
  BY TypeStep, TransitStep, FitStep, LostStep DEF IInv
<1> QED BY <1>1, InitInv, PTL DEF Spec

(* Where the tasks can be, and that the update queue keeps to its size. *)
THEOREM ReloadTypes == Spec => []TypeOK
<1>1. IInv => TypeOK
  BY DEF IInv
<1> QED BY <1>1, ReloadInvariance, PTL

(***************************************************************************)
(* Whatever the edits, the order in which the maps are iterated and the    *)
(* restarts: a living instance that takes all that is on its way to it     *)
(* runs what a start with the configuration last read would run.           *)
(***************************************************************************)
THEOREM ReloadLosesNothing == Spec => []NothingLost
<1>1. IInv => NothingLost
  BY DEF IInv
<1> QED BY <1>1, ReloadInvariance, PTL

(***************************************************************************)
(* Every configuration and every change that reaches an instance has what  *)
(* the code of the instance unwraps.                                       *)
(***************************************************************************)
THEOREM ReloadKeepsRunnable == Spec => []Runnable
<1>1. IInv => Runnable
  <2> SUFFICES ASSUME IInv PROVE Runnable
    OBVIOUS
  <2>1. \A i \in DOMAIN updates :
          updates[i].kind = "add" => ServiceRuns(updates[i].side, updates[i].config)
    <3>1. \A i \in DOMAIN updates : updates[i] \in ServiceChange
      BY LenProperties, ElementOfSeq DEF IInv, InTransit
    <3> QED BY <3>1, ChangeShape
  <2>2. inst = "running" => Sound(applied.config, applied.side)
    BY DEF IInv, RunsFit, Fit
  <2> QED BY <2>1, <2>2 DEF Runnable, Sound, ValidTransport, ValidTls
<1> QED BY <1>1, ReloadInvariance, PTL

=============================================================================
