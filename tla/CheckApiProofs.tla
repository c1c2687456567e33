----------------------------- MODULE CheckApiProofs -----------------------------
(***************************************************************************)
(* Proofs about CheckApi, for any servers, configurations and inputs: that *)
(* the fetch is honest, what a filter may reply, in which order filters    *)
(* are asked, and that verdict and answer are the sum of their replies.    *)
(***************************************************************************)
EXTENDS CheckApi, Induction, TLAPS

(***************************************************************************)
(* The fetch                                                               *)
(***************************************************************************)

FetchTypes ==
    /\ worker \in [Servers -> {"idle", "asking", "found", "finishing", "ended"}]
    /\ pdus \in 0 .. PduRoom
    /\ fetch \in {"idle", "waiting", "closing", "closed"}
    /\ got \in {"nothing", "event", "error"}

(* The events that were sent are in the channel or were taken.             *)
Accounted ==
    /\ sent \subseteq Servers /\ IsFiniteSet(sent)
    /\ \A s \in sent : worker[s] \in {"finishing", "ended"}
    /\ Cardinality(sent) = pdus + (IF got = "event" THEN 1 ELSE 0)

(* How far the goroutines are when GetEvent is where it is: one that comes *)
(* to the closed channels was late, or waits behind a channel that is full *)
(* with a second event.                                                    *)
Staged ==
    /\ got = "nothing" <=> fetch \in {"idle", "waiting"}
    /\ \A s \in Servers : worker[s] = "idle" <=> fetch = "idle"
    /\ got = "error" => \A s \in Servers : worker[s] = "ended"
    /\ fetch = "closed" /\ late = {} =>
          \A s \in Servers : \/ worker[s] = "ended"
                             \/ worker[s] = "found" /\ Cardinality(sent) > PduRoom
    /\ broken => fetch = "closed" /\ got = "event" /\ (late # {} \/ Cardinality(sent) > PduRoom)

FetchInv == FetchTypes /\ Accounted /\ Staged

LEMMA FetchAtInit == FetchInit => FetchInv
  <1> SUFFICES ASSUME FetchInit PROVE FetchInv
    OBVIOUS
  <1>0. /\ worker = [s \in Servers |-> "idle"] /\ pdus = 0 /\ sent = {} /\ fetch = "idle"
        /\ got = "nothing" /\ late = {} /\ broken = FALSE
    BY DEF FetchInit
  <1>1. FetchTypes
    BY <1>0 DEF FetchTypes, PduRoom
  <1>2. Staged
    BY <1>0 DEF Staged
  <1>3. Accounted
    <2>1. IsFiniteSet(sent) /\ Cardinality(sent) = 0
      BY <1>0, FS_EmptySet
    <2> QED BY <1>0, <2>1 DEF Accounted
  <1> QED BY <1>1, <1>2, <1>3 DEF FetchInv

LEMMA FetchStep ==
    ASSUME FetchInv, StartFetch \/ FetchNext \/ UNCHANGED fetchVars
    PROVE  FetchInv'
  <1> USE DEF FetchInv, PduRoom
  <1>0. Cardinality(sent) \in Nat
    BY FS_CardinalityType DEF Accounted
  <1>1. CASE StartFetch
    <2>1. /\ worker' = [s \in Servers |-> "asking"] /\ fetch = "idle" /\ fetch' = "waiting"
          /\ UNCHANGED <<pdus, sent, got, late, broken>>
      BY <1>1 DEF StartFetch
    <2>2. sent = {} /\ got = "nothing" /\ ~broken
      BY <2>1 DEF Accounted, Staged
    <2> QED BY <2>1, <2>2 DEF FetchTypes, Accounted, Staged
  <1>2. ASSUME NEW s \in Servers, ServerAnswers(s) PROVE FetchInv'
    <2>1. /\ worker[s] = "asking"
          /\ \E next \in {"found", "finishing"} : worker' = [worker EXCEPT ![s] = next]
          /\ UNCHANGED <<pdus, sent, fetch, got, late, broken>>
      BY <1>2 DEF ServerAnswers
    <2> QED BY <2>1 DEF FetchTypes, Accounted, Staged
  <1>3. ASSUME NEW s \in Servers, SendEvent(s) PROVE FetchInv'
    <2>1. /\ worker[s] = "found" /\ fetch # "closed" /\ pdus = 0 /\ pdus' = 1
          /\ sent' = sent \cup {s}
          /\ worker' = [worker EXCEPT ![s] = "finishing"]
          /\ UNCHANGED <<fetch, got, late, broken>>
      BY <1>3 DEF SendEvent, FetchTypes
    <2>2. s \notin sent
      BY <2>1 DEF Accounted
    <2>3. IsFiniteSet(sent') /\ Cardinality(sent') = Cardinality(sent) + 1
      BY <2>1, <2>2, FS_AddElement DEF Accounted
    <2>4. FetchTypes'
      BY <2>1 DEF FetchTypes
    <2>5. Accounted'
      BY <1>0, <2>1, <2>3 DEF FetchTypes, Accounted
    <2>6. Staged'
      BY <1>0, <2>1, <2>3 DEF FetchTypes, Staged
    <2> QED BY <2>4, <2>5, <2>6
  <1>4. ASSUME NEW s \in Servers, EndWorker(s) PROVE FetchInv'
    <2>1. /\ worker[s] = "finishing" /\ fetch # "closed"
          /\ worker' = [worker EXCEPT ![s] = "ended"]
          /\ UNCHANGED <<pdus, sent, fetch, got, late, broken>>
      BY <1>4 DEF EndWorker
    <2> QED BY <2>1 DEF FetchTypes, Accounted, Staged
  <1>5. ASSUME NEW s \in Servers, SendOnClosed(s) PROVE FetchInv'
    <2>1. /\ worker[s] \in {"found", "finishing"} /\ fetch = "closed" /\ broken' = TRUE
          /\ UNCHANGED <<worker, pdus, sent, fetch, got, late>>
      BY <1>5 DEF SendOnClosed
    <2>2. got = "event"
      BY <2>1 DEF FetchTypes, Staged
    <2>3. late # {} \/ Cardinality(sent) > PduRoom
      BY <2>1 DEF Staged
    <2> QED BY <2>1, <2>2, <2>3 DEF FetchTypes, Accounted, Staged
  <1>6. CASE TakeEvent
    <2>1. /\ fetch = "waiting" /\ pdus = 1 /\ pdus' = 0 /\ got' = "event" /\ fetch' = "closing"
          /\ UNCHANGED <<worker, sent, late, broken>>
      BY <1>6 DEF TakeEvent, FetchTypes
    <2>2. got = "nothing"
      BY <2>1 DEF Staged
    <2> QED BY <1>0, <2>1, <2>2 DEF FetchTypes, Accounted, Staged
  <1>7. CASE GiveUp
    <2>1. /\ fetch = "waiting" /\ got' = "error" /\ fetch' = "closing"
          /\ \A s \in Servers : worker[s] = "ended"
          /\ UNCHANGED <<worker, pdus, sent, late, broken>>
      BY <1>7 DEF GiveUp
    <2>2. got = "nothing" /\ ~broken
      BY <2>1 DEF Staged
    <2> QED BY <2>1, <2>2 DEF FetchTypes, Accounted, Staged
  <1>8. CASE CloseChannels
    <2>1. /\ fetch = "closing" /\ fetch' = "closed"
          /\ late' = {s \in Servers : \/ worker[s] \in {"asking", "finishing"}
                                      \/ worker[s] = "found" /\ pdus < PduRoom}
          /\ UNCHANGED <<worker, pdus, sent, got, broken>>
      BY <1>8 DEF CloseChannels
    <2>2. got \in {"event", "error"}
      BY <2>1 DEF FetchTypes, Staged
    <2>3. ASSUME late' = {}, NEW s \in Servers, worker[s] # "ended"
          PROVE  worker[s] = "found" /\ Cardinality(sent) > PduRoom
      <3>1. worker[s] = "found" /\ pdus = 1
        BY <2>1, <2>3 DEF FetchTypes, Staged
      <3>2. got = "event"
        BY <2>2, <3>1 DEF Staged
      <3> QED BY <1>0, <3>1, <3>2 DEF Accounted
    <2>4. ~broken
      BY <2>1 DEF Staged
    <2> QED BY <2>1, <2>3, <2>4 DEF FetchTypes, Accounted, Staged
  <1>9. CASE UNCHANGED fetchVars
    BY <1>9 DEF fetchVars, FetchTypes, Accounted, Staged
  <1> QED BY <1>1, <1>2, <1>3, <1>4, <1>5, <1>6, <1>7, <1>8, <1>9 DEF FetchNext

LEMMA ApiStep ==
    ASSUME [ApiNext]_apiVars
    PROVE  /\ StartFetch \/ FetchNext \/ UNCHANGED fetchVars
           /\ Next \/ UNCHANGED vars
  BY DEF ApiNext, apiVars, Refuse, CheckTextOf, AnswerFromStorage, Fetch, CheckFetched,
         Filter, AnswerChecked, CheckIsCutShort, Fetching

(* A fetch that fails has lost at most the one event that was in the       *)
(* channel, and only one that succeeded can take the process down, by a    *)
(* goroutine that was late or the sender of a second event.                *)
THEOREM FetchStaysHonest == ApiSpec => []FetchIsHonest
  <1>1. ApiInit => FetchInv
    BY FetchAtInit DEF ApiInit
  <1>2. FetchInv /\ [ApiNext]_apiVars => FetchInv'
    BY ApiStep, FetchStep
  <1>3. FetchInv => FetchIsHonest
    <2> SUFFICES ASSUME FetchInv PROVE FetchIsHonest
      OBVIOUS
    <2>1. got = "error" => Cardinality(sent) <= PduRoom
      BY DEF FetchInv, FetchTypes, Accounted, PduRoom
    <2> QED BY <2>1 DEF FetchInv, Staged, FetchIsHonest
  <1> QED BY <1>1, <1>2, <1>3, PTL DEF ApiSpec

(***************************************************************************)
(* Slices of harms                                                         *)
(***************************************************************************)

(* A slice of harms that repeats none, and one that names those of S.      *)
Unrepeated(s) == \A i, j \in DOMAIN s : i # j => s[i] # s[j]
Names(s, S) == s \in Seq(Harms) /\ ToSet(s) = S

LEMMA HarmsFinite ==
    ASSUME NEW S, S \subseteq Harms
    PROVE  IsFiniteSet(S) /\ S \subseteq Nat /\ Cardinality(S) \in Nat
  <1>1. IsFiniteSet(Harms)
    <2>1. 1 \in Int /\ 6 \in Int
      OBVIOUS
    <2> QED BY <2>1, FS_Interval DEF Harms
  <1>2. IsFiniteSet(S)
    BY <1>1, FS_Subset
  <1> QED BY <1>2, FS_CardinalityType DEF Harms

LEMMA SortedIs ==
    ASSUME NEW S, S \subseteq Harms
    PROVE  /\ Names(Sorted(S), S) /\ Unrepeated(Sorted(S))
           /\ Len(Sorted(S)) = Cardinality(S)
  <1> DEFINE n == Cardinality(S)
  <1>0. IsFiniteSet(S) /\ S \subseteq Nat /\ n \in Nat
    BY HarmsFinite
  <1>1. \E s \in [1 .. n -> S] : \A i, j \in DOMAIN s : i < j => s[i] < s[j]
    <2>1. PICK s \in [1 .. n -> S] : Enumerates(s, n, S)
      BY <1>0, Ascending
    <2> QED BY <2>1 DEF Enumerates, Ascends
  <1> DEFINE q == Sorted(S)
  <1>2. q \in [1 .. n -> S] /\ \A i, j \in DOMAIN q : i < j => q[i] < q[j]
    BY <1>1 DEF Sorted
  <1> HIDE DEF q
  <1>3. DOMAIN q = 1 .. n /\ Unrepeated(q)
    <2>1. DOMAIN q = 1 .. n
      BY <1>2
    <2>2. ASSUME NEW i \in 1 .. n, NEW j \in 1 .. n, i # j PROVE q[i] # q[j]
      <3>1. q[i] \in Nat /\ q[j] \in Nat /\ i \in Nat /\ j \in Nat
        <4>1. q[i] \in S /\ q[j] \in S
          BY <1>2
        <4>2. \A x \in S : x \in Nat
          BY <1>0
        <4>3. q[i] \in Nat /\ q[j] \in Nat
          BY <4>1, <4>2
        <4>4. i \in Nat /\ j \in Nat
          BY <1>0
        <4> QED BY <4>3, <4>4
      <3>2. i < j \/ j < i
        BY <2>2, <3>1
      <3>3. q[i] < q[j] \/ q[j] < q[i]
        BY <1>2, <2>1, <3>2
      <3> QED BY <3>1, <3>3
    <2> QED BY <2>1, <2>2 DEF Unrepeated
  <1>4. q \in Injection(1 .. n, S)
    BY <1>2, <1>3 DEF Injection, IsInjective, Unrepeated
  <1>5. Cardinality(1 .. n) = n
    BY <1>0, FS_Interval
  <1>6. q \in Surjection(1 .. n, S)
    <2>1. Cardinality(1 .. n) = Cardinality(S)
      BY <1>5
    <2> QED BY <1>0, <1>4, <2>1, FS_Injection
  <1>7. ToSet(q) = S
    BY <1>2, <1>3, <1>6 DEF Surjection, ToSet
  <1>8. q \in Seq(Harms) /\ Len(q) = n
    <2> HIDE DEF n
    <2>1. q \in Seq(S) /\ Len(q) = n
      BY <1>0, <1>2
    <2> QED BY <2>1
  <1> QED BY <1>3, <1>7, <1>8 DEF q, Names

(* Without repetitions nothing is blanked: the slice is only sorted.       *)
LEMMA InPlaceIs ==
    ASSUME NEW S, NEW s, Names(s, S), Unrepeated(s)
    PROVE  Names(InPlace(s), S) /\ Unrepeated(InPlace(s))
  <1>0. /\ s \in Seq(Harms) /\ ToSet(s) = S /\ Len(s) \in Nat /\ DOMAIN s = 1 .. Len(s)
        /\ S \subseteq Harms /\ s \in [1 .. Len(s) -> S]
    BY DEF Names, ToSet
  <1>1. s \in Bijection(1 .. Len(s), S)
    BY <1>0 DEF Bijection, Injection, Surjection, IsInjective, Unrepeated, ToSet
  <1>2. Cardinality(S) = Len(s)
    <2>1. ExistsBijection(1 .. Len(s), S)
      BY <1>1 DEF ExistsBijection
    <2>2. IsFiniteSet(1 .. Len(s)) /\ Cardinality(1 .. Len(s)) = Len(s)
      BY <1>0, FS_Interval
    <2> QED BY <2>1, <2>2, FS_Bijection
  <1>3. Names(Sorted(S), S) /\ Unrepeated(Sorted(S)) /\ Len(Sorted(S)) = Len(s)
    BY <1>0, <1>2, SortedIs
  <1>4. InPlace(s) = Sorted(S)
    <2>1. Sorted(S) \in Seq(Harms) /\ Sorted(S) = [i \in 1 .. Len(s) |-> Sorted(S)[i]]
      BY <1>0, <1>3 DEF Names
    <2>2. InPlace(s) = [i \in 1 .. Len(s) |-> IF i <= Len(Sorted(S)) THEN Sorted(S)[i] ELSE Blank]
      BY <1>0 DEF InPlace, Distinct
    <2>3. \A i \in 1 .. Len(s) : i <= Len(Sorted(S))
      BY <1>0, <1>3
    <2>4. \A i \in 1 .. Len(s) :
             (IF i <= Len(Sorted(S)) THEN Sorted(S)[i] ELSE Blank) = Sorted(S)[i]
      BY <2>3
    <2>5. InPlace(s) = [i \in 1 .. Len(s) |-> Sorted(S)[i]]
      BY <2>2, <2>4
    <2> QED BY <2>1, <2>5
  <1> QED BY <1>3, <1>4

LEMMA ConcatSet ==
    ASSUME NEW T, NEW s \in Seq(T), NEW t \in Seq(T)
    PROVE  s \o t \in Seq(T) /\ ToSet(s \o t) = ToSet(s) \cup ToSet(t)
  <1>1. /\ s \o t \in Seq(T) /\ DOMAIN (s \o t) = 1 .. Len(s) + Len(t)
        /\ DOMAIN s = 1 .. Len(s) /\ DOMAIN t = 1 .. Len(t) /\ Len(s) \in Nat /\ Len(t) \in Nat
        /\ \A i \in 1 .. Len(s) + Len(t) :
              (s \o t)[i] = IF i <= Len(s) THEN s[i] ELSE t[i - Len(s)]
    OBVIOUS
  <1> DEFINE q == s \o t
  <1> HIDE DEF q
  <1>2. ASSUME NEW x \in ToSet(q) PROVE x \in ToSet(s) \cup ToSet(t)
    <2>1. PICK i \in 1 .. Len(s) + Len(t) : x = q[i]
      BY <1>1 DEF ToSet, q
    <2>2. CASE i <= Len(s)
      <3>1. i \in 1 .. Len(s) /\ x = s[i]
        BY <1>1, <2>1, <2>2 DEF q
      <3> QED BY <1>1, <3>1 DEF ToSet
    <2>3. CASE ~(i <= Len(s))
      <3>1. i - Len(s) \in 1 .. Len(t) /\ x = t[i - Len(s)]
        BY <1>1, <2>1, <2>3 DEF q
      <3> QED BY <1>1, <3>1 DEF ToSet
    <2> QED BY <2>2, <2>3
  <1>3. ASSUME NEW x \in ToSet(s) PROVE x \in ToSet(q)
    <2>1. PICK i \in 1 .. Len(s) : x = s[i]
      BY <1>1 DEF ToSet
    <2>2. i \in 1 .. Len(s) + Len(t) /\ q[i] = x
      BY <1>1, <2>1 DEF q
    <2> QED BY <1>1, <2>2 DEF ToSet, q
  <1>4. ASSUME NEW x \in ToSet(t) PROVE x \in ToSet(q)
    <2>1. PICK i \in 1 .. Len(t) : x = t[i]
      BY <1>1 DEF ToSet
    <2>2. i + Len(s) \in 1 .. Len(s) + Len(t) /\ ~(i + Len(s) <= Len(s)) /\ (i + Len(s)) - Len(s) = i
      BY <1>1
    <2>3. q[i + Len(s)] = x
      BY <1>1, <2>1, <2>2 DEF q
    <2> QED BY <1>1, <2>2, <2>3 DEF ToSet, q
  <1> QED BY <1>1, <1>2, <1>3, <1>4 DEF q

(* The slices one after the other name what any of them names.             *)
LEMMA FlattenIs ==
    ASSUME NEW T, NEW n \in Nat, NEW seqs \in [1 .. n -> Seq(T)]
    PROVE  /\ FlattenSeq(seqs) \in Seq(T)
           /\ ToSet(FlattenSeq(seqs)) = UNION {ToSet(seqs[i]) : i \in 1 .. n}
  <1>0. Len(seqs) = n
    OBVIOUS
  <1>1. CASE n = 0
    <2>1. seqs = <<>> /\ FlattenSeq(seqs) = seqs
      BY <1>0, <1>1 DEF FlattenSeq
    <2>2. ToSet(seqs) = {} /\ {ToSet(seqs[i]) : i \in 1 .. n} = {}
      BY <1>1, <2>1 DEF ToSet
    <2>3. <<>> \in Seq(T) /\ UNION {} = {}
      OBVIOUS
    <2> QED BY <2>1, <2>2, <2>3
  <1>2. CASE n # 0
    <2> DEFINE Is(h) == h = [i \in 1 .. n |-> IF i = 1 THEN seqs[i] ELSE h[i - 1] \o seqs[i]]
               step == [p \in (1 .. n) \X Seq(T) |-> p[2] \o seqs[p[1]]]
    <2>1. \E h : Is(h)
      <3>1. step \in [(1 .. n) \X Seq(T) -> Seq(T)]
        OBVIOUS
      <3>2. <<>> \in Seq(T)
        OBVIOUS
      <3>3. PICK f \in [0 .. n -> Seq(T)] : Follows(f, n, <<>>, step)
        <4> HIDE DEF step
        <4> QED BY <3>1, <3>2, Recursion
      <3>4. ASSUME NEW i \in 1 .. n PROVE f[i] = f[i - 1] \o seqs[i]
        <4>1. i - 1 \in 0 .. n
          OBVIOUS
        <4>2. <<i, f[i - 1]>> \in (1 .. n) \X Seq(T)
          BY <4>1
        <4>3. f[i] = step[<<i, f[i - 1]>>]
          BY <3>3 DEF Follows
        <4> QED BY <4>2, <4>3
      <3>5. f[0] = <<>>
        BY <3>3 DEF Follows
      <3> DEFINE g == [i \in 1 .. n |-> f[i]]
      <3>6. ASSUME NEW i \in 1 .. n
            PROVE  f[i] = IF i = 1 THEN seqs[i] ELSE g[i - 1] \o seqs[i]
        <4>1. CASE i = 1
          <5>1. <<>> \o seqs[1] = seqs[1] /\ i - 1 = 0
            <6>1. seqs[1] \in Seq(T)
              BY <1>2
            <6> QED BY <4>1, <6>1
          <5>2. f[i] = f[i - 1] \o seqs[i]
            BY <3>4
          <5> QED BY <3>5, <4>1, <5>1, <5>2
        <4>2. CASE i # 1
          <5>1. i - 1 \in 1 .. n
            BY <4>2
          <5> QED BY <3>4, <4>2, <5>1
        <4> QED BY <4>1, <4>2
      <3>7. Is(g)
        BY <3>6
      <3> HIDE DEF g, Is
      <3> QED BY <3>7
    <2> DEFINE h == CHOOSE k : Is(k)
    <2>2. Is(h)
      <3> HIDE DEF Is
      <3> QED BY <2>1
    <2>3. FlattenSeq(seqs) = h[n]
      BY <1>0, <1>2 DEF FlattenSeq
    <2> HIDE DEF h
    <2> DEFINE Right(m) == h[m] \in Seq(T) /\ ToSet(h[m]) = UNION {ToSet(seqs[i]) : i \in 1 .. m}
               Good == {m \in 0 .. n : m = 0 \/ Right(m)}
    <2>4. h[1] = seqs[1] /\ \A m \in 2 .. n : h[m] = h[m - 1] \o seqs[m]
      <3>1. \A m \in 1 .. n : h[m] = IF m = 1 THEN seqs[m] ELSE h[m - 1] \o seqs[m]
        BY <2>2
      <3>2. 1 \in 1 .. n /\ \A m \in 2 .. n : m \in 1 .. n /\ m # 1
        BY <1>2
      <3> QED BY <3>1, <3>2
    <2>5. Right(1)
      <3>1. {ToSet(seqs[i]) : i \in 1 .. 1} = {ToSet(seqs[1])}
        OBVIOUS
      <3>2. UNION {ToSet(seqs[i]) : i \in 1 .. 1} = ToSet(seqs[1])
        BY <3>1
      <3>3. seqs[1] \in Seq(T)
        BY <1>2
      <3> QED BY <2>4, <3>2, <3>3
    <2>6. ASSUME NEW m \in 2 .. n, Right(m - 1) PROVE Right(m)
      <3>1. m - 1 \in 1 .. n /\ m \in 1 .. n /\ seqs[m] \in Seq(T)
        OBVIOUS
      <3>2. h[m] = h[m - 1] \o seqs[m]
        BY <2>4
      <3>3. h[m] \in Seq(T) /\ ToSet(h[m]) = ToSet(h[m - 1]) \cup ToSet(seqs[m])
        BY <2>6, <3>1, <3>2, ConcatSet
      <3>4. 1 .. m = (1 .. m - 1) \cup {m}
        OBVIOUS
      <3>5. UNION {ToSet(seqs[i]) : i \in 1 .. m}
              = (UNION {ToSet(seqs[i]) : i \in 1 .. m - 1}) \cup ToSet(seqs[m])
        <4>1. ASSUME NEW x
              PROVE  (\E i \in 1 .. m : x \in ToSet(seqs[i]))
                       <=> (\E i \in 1 .. m - 1 : x \in ToSet(seqs[i])) \/ x \in ToSet(seqs[m])
          BY <3>4
        <4>2. ASSUME NEW k \in {m - 1, m}, NEW x
              PROVE  x \in UNION {ToSet(seqs[i]) : i \in 1 .. k}
                       <=> \E i \in 1 .. k : x \in ToSet(seqs[i])
          OBVIOUS
        <4> DEFINE A == UNION {ToSet(seqs[i]) : i \in 1 .. m}
                   B == UNION {ToSet(seqs[i]) : i \in 1 .. m - 1}
        <4>3. \A x : x \in A <=> x \in B \/ x \in ToSet(seqs[m])
          BY <4>1, <4>2
        <4> HIDE DEF A, B
        <4>4. A = B \cup ToSet(seqs[m])
          BY <4>3
        <4> QED BY <4>4 DEF A, B
      <3> QED BY <2>6, <3>3, <3>5
    <2> HIDE DEF Right
    <2>7. 0 \in Good
      OBVIOUS
    <2>8. ASSUME NEW m \in 1 .. n, m - 1 \in Good PROVE m \in Good
      <3>1. CASE m = 1
        BY <2>5, <3>1
      <3>2. CASE m # 1
        <4>1. m \in 2 .. n /\ m - 1 # 0
          BY <3>2
        <4> QED BY <2>6, <2>8, <4>1
      <3> QED BY <3>1, <3>2
    <2>9. n \in Good
      <3> HIDE DEF Good
      <3>1. 0 .. n \subseteq Good
        BY <2>7, <2>8, Upto
      <3>2. n \in 0 .. n
        OBVIOUS
      <3> QED BY <3>1, <3>2
    <2>10. Right(n)
      BY <1>2, <2>9
    <2> QED BY <2>3, <2>10 DEF Right
  <1> QED BY <1>1, <1>2

(***************************************************************************)
(* What a filter may reply                                                 *)
(***************************************************************************)

(* A class without harms, prohibited with some, an error or a panic.       *)
Answers ==
    {Neutral, Allowed, Failure, Panic} \cup {Prohibited(h) : h \in (SUBSET Harms) \ {{}}}
Proper(replies) == replies \subseteq Answers

LEMMA AnswerIs ==
    ASSUME NEW r \in Answers
    PROVE  /\ r \in Reply
           /\ r.harms \subseteq Harms
           /\ (r.class = "error") <=> (r = Failure)
           /\ (r.class = "panic") <=> (r = Panic)
           /\ r.class \in Classes \cup {"error", "panic"}
           /\ (r.class = "Prohibited") <=> (r.harms # {})
  <1> USE DEF Answers, Reply, Neutral, Allowed, Failure, Panic, Prohibited, Classes
  <1>1. CASE r \in {Neutral, Allowed, Failure, Panic}
    BY <1>1
  <1>2. CASE r \in {Prohibited(h) : h \in (SUBSET Harms) \ {{}}}
    <2>1. PICK h \in SUBSET Harms : r = Prohibited(h) /\ h # {}
      BY <1>2
    <2>2. r.harms = h /\ r.class = "Prohibited" /\ r \in Reply
      BY <2>1
    <2>3. r # Failure /\ r # Panic
      BY <2>2
    <2> QED BY <2>1, <2>2, <2>3
  <1> QED BY <1>1, <1>2

FilterNames ==
    {"protect", "eventType", "sender", "unsafeKey", "hellban", "silence",
     "keyword", "template", "density", "length", "ats", "media", "untrusted",
     "emoji", "mentions", "mjolnir", "trim", "openai", "sticky", "link",
     "mentionRate", "rate", "words", "idLength", "scan"}

LEMMA GroupsApart ==
    ASSUME NEW c, NEW g \in 1 .. 4, NEW f \in Groups(c)[g]
    PROVE  /\ f \in FilterNames
           /\ \A h \in 1 .. 4 : f \in Groups(c)[h] => h = g
  <1>1. /\ Groups(c)[1] \subseteq {"protect", "eventType", "sender", "unsafeKey"}
        /\ Groups(c)[2] \subseteq {"hellban"}
        /\ Groups(c)[3] \subseteq FilterNames \ {"protect", "eventType", "sender", "unsafeKey",
                                                "hellban", "silence"}
        /\ Groups(c)[4] \subseteq {"silence"}
    <2>1. Groups(c)[1] = Prefilters(c) /\ Groups(c)[3] = MiddleFilters(c)
      BY DEF Groups
    <2>2. Groups(c)[2] \subseteq {"hellban"} /\ Groups(c)[4] \subseteq {"silence"}
      BY DEF Groups
    <2>3. Prefilters(c) \subseteq {"protect", "eventType", "sender", "unsafeKey"}
      BY DEF Prefilters
    <2>4. MiddleFilters(c) \subseteq FilterNames
      BY DEF MiddleFilters, FilterNames
    <2>5. MiddleFilters(c) \cap {"protect", "eventType", "sender", "unsafeKey",
                                 "hellban", "silence"} = {}
      BY DEF MiddleFilters
    <2> QED BY <2>1, <2>2, <2>3, <2>4, <2>5
  <1> QED BY <1>1 DEF FilterNames

Named(h) == h \subseteq Harms /\ h # {}

LEMMA NamedHarms ==
    /\ Named({OtherGeneral}) /\ Named({SpamGeneral}) /\ Named({SpamFlooding})
    /\ Named({SpamGeneral, ChildSafety}) /\ Named({SpamGeneral, PolicyservMedia})
    /\ Named({SpamGeneral, NonCompliance}) /\ Named({SpamGeneral, ChildSafety, PolicyservMedia})
  <1>1. {OtherGeneral, SpamGeneral, SpamFlooding, ChildSafety, PolicyservMedia, NonCompliance}
          \subseteq Harms
    BY DEF Harms, OtherGeneral, SpamGeneral, SpamFlooding, ChildSafety, PolicyservMedia,
           NonCompliance
  <1> QED BY <1>1 DEF Named

LEMMA ReplyKinds ==
    ASSUME NEW h, NEW p, p => Named(h)
    PROVE  /\ Proper({Neutral}) /\ Proper({Allowed}) /\ Proper({Failure}) /\ Proper({Panic})
           /\ p => Proper({Prohibited(h)})
           /\ Proper(ProhibitedIf(p, h))
  BY DEF Proper, Answers, Named, ProhibitedIf

LEMMA MediaProper ==
    ASSUME NEW types, NEW x
    PROVE  Proper(Media(types, x))
  <1>1. Named({SpamGeneral, PolicyservMedia})
    BY NamedHarms
  <1> QED BY <1>1, ReplyKinds DEF Media

LEMMA TemplateProper ==
    ASSUME NEW c \in Communities, NEW x \in Inputs
    PROVE  Proper(KeywordTemplate(c, x))
  <1> DEFINE words == IF c.useFullEvent THEN x.words \cup x.envelope ELSE x.words
             named == UNION {IdentifyHarms(t, words) : t \in c.templates}
             replies ==
                 IF \E t \in c.templates : t.fails \cap words # {}
                 THEN {Failure} ELSE ProhibitedIf(named # {}, named)
  <1>1. named \subseteq Harms
    <2>1. words \subseteq x.words \cup x.envelope
      OBVIOUS
    <2>2. ASSUME NEW t \in c.templates PROVE IdentifyHarms(t, words) \subseteq Harms
      <3>1. \A w \in words : t.harms[w] \subseteq Harms
        BY <2>1, FilterAssumption
      <3> QED BY <3>1 DEF IdentifyHarms
    <2> QED BY <2>2
  <1>2. Proper(replies)
    <2>1. named # {} => Named(named)
      BY <1>1 DEF Named
    <2> HIDE DEF named
    <2> QED BY <2>1, ReplyKinds
  <1>3. Proper(OnMessage(x, replies))
    <2> HIDE DEF replies
    <2> QED BY <1>2, ReplyKinds DEF OnMessage, Proper, Answers
  <1>4. KeywordTemplate(c, x) \in {replies, OnMessage(x, replies)}
    BY DEF KeywordTemplate
  <1> HIDE DEF replies
  <1> QED BY <1>2, <1>3, <1>4

LEMMA ScanProper ==
    ASSUME NEW c, NEW x \in Inputs, ~IsText(x)
    PROVE  Proper(MediaScanning(c, x))
  <1>1. ASSUME None \notin x.media, NEW i \in x.media, NEW r \in Classify(c, i)
        PROVE  r.harms \subseteq Harms
    <2>1. CASE r = World.classified[i] /\ World.classified[i] # None
      <3>1. World.classified[i] \in {None, Neutral} \cup {Prohibited(h) : h \in (SUBSET Harms) \ {{}}}
        BY <1>1, FilterAssumption
      <3>2. r \in Answers
        BY <2>1, <3>1 DEF Answers
      <3> QED BY <3>2, AnswerIs
    <2>2. CASE r \in {IF s = Failure THEN Prohibited({OtherGeneral}) ELSE s : s \in Scan(c, i)}
      <3>1. PICK s \in Scan(c, i) : r = IF s = Failure THEN Prohibited({OtherGeneral}) ELSE s
        BY <2>2
      <3>2. Proper(Scan(c, i)) /\ Prohibited({OtherGeneral}) \in Answers
        <4>1. Named({OtherGeneral}) /\ Named({SpamGeneral, ChildSafety, PolicyservMedia})
          BY NamedHarms
        <4>2. Proper(ProhibitedIf(World.banks[i] \cap c.banks # {},
                                  {SpamGeneral, ChildSafety, PolicyservMedia}))
          BY <4>1, ReplyKinds
        <4>3. {Failure, Neutral} \subseteq Answers
          BY DEF Answers
        <4>4. Prohibited({OtherGeneral}) \in Answers
          BY <4>1 DEF Answers, Named
        <4> QED BY <4>2, <4>3, <4>4 DEF Scan, Proper
      <3>3. r \in Answers
        BY <3>1, <3>2 DEF Proper
      <3> QED BY <3>3, AnswerIs
    <2> QED BY <2>1, <2>2 DEF Classify
  <1>2. ASSUME None \notin x.media,
               NEW info \in [x.media -> UNION {Classify(c, i) : i \in x.media}],
               \A i \in x.media : info[i] \in Classify(c, i)
        PROVE  UNION {info[i].harms : i \in x.media} \subseteq Harms
    BY <1>1, <1>2
  <1>3. Proper({Prohibited({OtherGeneral})}) /\ Proper({Neutral}) /\ Proper({Panic})
    BY NamedHarms, ReplyKinds DEF Proper, Answers, Named
  <1> DEFINE infos == {info \in [x.media -> UNION {Classify(c, i) : i \in x.media}] :
                         \A i \in x.media : info[i] \in Classify(c, i)}
             Harmful(info) == UNION {info[i].harms : i \in x.media}
  <1>4. ASSUME None \notin x.media, NEW info \in infos
        PROVE  Proper(ProhibitedIf(Harmful(info) # {}, Harmful(info)))
    <2>1. PICK h : h = Harmful(info)
      OBVIOUS
    <2>2. h # {} => Named(h)
      BY <1>2, <1>4, <2>1 DEF Named
    <2>3. Proper(ProhibitedIf(h # {}, h))
      BY <2>2, ReplyKinds
    <2> QED BY <2>1, <2>3
  <1>5. MediaScanning(c, x) =
          IF x.media = {} THEN {Neutral}
          ELSE IF None \in x.media THEN {Panic}
          ELSE {Prohibited({OtherGeneral})}
                 \cup UNION {ProhibitedIf(Harmful(info) # {}, Harmful(info)) : info \in infos}
    BY DEF MediaScanning
  <1> HIDE DEF infos, Harmful
  <1>6. ASSUME None \notin x.media
        PROVE  UNION {ProhibitedIf(Harmful(info) # {}, Harmful(info)) : info \in infos} \subseteq Answers
    BY <1>4, <1>6 DEF Proper
  <1> QED BY <1>3, <1>5, <1>6 DEF Proper

LEMMA RepliesProper ==
    ASSUME NEW f \in FilterNames, NEW c \in Communities, NEW x \in Inputs
    PROVE  Proper(Replies(f, c, x))
  <1>1. ASSUME NEW replies, Proper(replies) PROVE Proper(OnMessage(x, replies))
    BY <1>1, ReplyKinds DEF OnMessage, Proper, Answers
  <1>2. CASE IsText(x) /\ f \notin TextFilters
    BY <1>2 DEF Replies, Proper, Answers
  <1>3. CASE ~(IsText(x) /\ f \notin TextFilters)
    <2>0. /\ Proper({Neutral}) /\ Proper({Allowed}) /\ Proper({Failure}) /\ Proper({Panic})
          /\ \A p : /\ Proper(ProhibitedIf(p, {OtherGeneral}))
                    /\ Proper(ProhibitedIf(p, {SpamGeneral}))
                    /\ Proper(ProhibitedIf(p, {SpamFlooding}))
                    /\ Proper(ProhibitedIf(p, {SpamGeneral, NonCompliance}))
          /\ Prohibited({OtherGeneral}) \in Answers /\ Prohibited({SpamGeneral}) \in Answers
          /\ Prohibited({SpamFlooding}) \in Answers
          /\ Prohibited({SpamGeneral, ChildSafety}) \in Answers
      BY NamedHarms, ReplyKinds DEF Answers, Proper, Named
    <2>00. {Neutral, Allowed, Failure, Panic} \subseteq Answers
      BY DEF Answers
    <2> USE <1>3 DEF Replies
    <2>1. CASE f = "protect"
      BY <2>0, <2>1 DEF ProtectLocalUser
    <2>2. CASE f = "eventType"
      BY <2>00, <2>2 DEF EventType, Proper
    <2>3. CASE f = "sender"
      BY <2>00, <2>3 DEF Sender, Proper
    <2>4. CASE f = "unsafeKey"
      BY <2>0, <2>00, <2>4 DEF UnsafeSigningKey, Proper
    <2>5. CASE f = "hellban"
      BY <2>0, <2>00, <2>5 DEF Proper
    <2>6. CASE f = "silence"
      BY <2>0, <2>00, <2>6 DEF Proper
    <2>7. CASE f = "keyword"
      BY <2>0, <2>7 DEF Keyword
    <2>8. CASE f = "template"
      BY <2>8, TemplateProper
    <2>9. CASE f = "density"
      BY <1>1, <2>0, <2>9 DEF Density
    <2>10. CASE f = "length"
      BY <2>0, <2>10 DEF Length
    <2>11. CASE f = "ats"
      BY <2>0, <2>11 DEF ManyAts
    <2>12. CASE f = "media"
      BY <2>12, MediaProper
    <2>13. CASE f = "untrusted"
      <3>1. Proper(Media(c.untrustedTypes, x))
        BY MediaProper
      <3> QED BY <2>00, <2>13, <3>1 DEF UntrustedMedia, Proper
    <2>14. CASE f = "emoji"
      BY <1>1, <2>0, <2>14 DEF InlineEmojiSize
    <2>15. CASE f = "mentions"
      BY <2>0, <2>00, <2>15 DEF Mentions, Proper
    <2>16. CASE f = "mjolnir"
      BY <2>0, <2>00, <2>16 DEF Mjolnir, Proper
    <2>17. CASE f = "trim"
      BY <1>1, <2>0, <2>17 DEF TrimLength
    <2>18. CASE f = "openai"
      BY <2>0, <2>00, <2>18 DEF OpenAIOmni, Proper
    <2>19. CASE f = "sticky"
      BY <2>0, <2>19 DEF StickyEvents
    <2>20. CASE f = "link"
      BY <2>0, <2>20 DEF Link
    <2>21. CASE f = "mentionRate"
      BY <2>0, <2>00, <2>21 DEF MentionsFrequency, Proper
    <2>22. CASE f = "rate"
      BY <2>0, <2>00, <2>22 DEF Frequency, Proper
    <2>23. CASE f = "words"
      BY <2>0, <2>23 DEF UserIdContainsWords
    <2>24. CASE f = "idLength"
      BY <2>0, <2>24 DEF UserIdLength
    <2>25. CASE f = "scan"
      <3>1. ~IsText(x)
        BY <1>3, <2>25 DEF TextFilters
      <3>2. Proper(MediaScanning(c, x))
        BY <3>1, ScanProper
      <3> QED BY <2>25, <3>2
    <2> QED BY <2>1, <2>2, <2>3, <2>4, <2>5, <2>6, <2>7, <2>8, <2>9, <2>10, <2>11, <2>12,
               <2>13, <2>14, <2>15, <2>16, <2>17, <2>18, <2>19, <2>20, <2>21, <2>22, <2>23,
               <2>24, <2>25 DEF FilterNames
  <1> QED BY <1>2, <1>3

(***************************************************************************)
(* Who is trusted with media                                               *)
(***************************************************************************)

(* A sender is believed only if some source says so and none denies it.    *)
LEMMA JudgeTrusts ==
    ASSUME NEW n \in Nat, NEW said \in [1 .. n -> {"True", "False", "Default", "error"}],
           Judge(said) = "True"
    PROVE  /\ \A i \in 1 .. n : said[i] # "False"
           /\ \E i \in 1 .. n : said[i] = "True"
  <1> DEFINE stops == {i \in DOMAIN said : said[i] \in {"error", "False"}}
             first == CHOOSE i \in stops : \A j \in stops : i <= j
  <1>1. Judge(said) = IF stops # {} THEN said[first]
                      ELSE IF \E i \in DOMAIN said : said[i] = "True" THEN "True" ELSE "Default"
    BY DEF Judge
  <1>2. DOMAIN said = 1 .. n
    OBVIOUS
  <1>3. stops = {}
    <2> SUFFICES ASSUME stops # {} PROVE FALSE
      OBVIOUS
    <2>1. stops \subseteq Nat
      BY <1>2
    <2>2. first \in stops
      <3> HIDE DEF stops
      <3> QED BY <2>1, Smallest
    <2>3. said[first] # "True"
      <3> HIDE DEF first
      <3> QED BY <2>2
    <2> QED BY <1>1, <2>3
  <1> QED BY <1>1, <1>2, <1>3

LEMMA MediaTrusted ==
    ASSUME NEW c, NEW x, NEW r \in UntrustedMedia(c, x), r.class = "Neutral",
           \/ x.type \in c.untrustedTypes
           \/ x.type = Message /\ x.msgtype \in c.untrustedTypes
    PROVE  /\ ~\E g \in c.deniedUsers : x.sender \in g
           /\ \/ \E g \in c.allowedUsers : x.sender \in g
              \/ c.muninn /\ Users[x.sender].server \in World.muninn
              \/ c.powerLevels
  <1> DEFINE sources == Sources(c, x)
             opinions == {said \in [DOMAIN sources -> {"True", "False", "Default", "error"}] :
                            \A i \in DOMAIN said : said[i] \in sources[i]}
             Own == <<SelfDirected(c, x.sender)>>
             Hall == <<MuninnHall(x.sender)>>
             Levels == <<Creator(x.sender, x.room), PowerLevels(x.sender, x.room)>>
             Trusting(n) ==
               /\ DOMAIN sources = 1 .. n
               /\ sources[1] = SelfDirected(c, x.sender)
               /\ \A i \in 2 .. n : \/ sources[i] = MuninnHall(x.sender) /\ c.muninn
                                    \/ c.powerLevels
  <1>1. \A m \in Media(c.untrustedTypes, x) : m.class # "Neutral"
    BY DEF Media, ProhibitedIf, Prohibited, Failure
  <1>2. PICK said \in opinions :
           r \in CASE Judge(said) = "error" -> {Failure}
                   [] Judge(said) = "True" -> {Neutral}
                   [] OTHER -> Media(c.untrustedTypes, x)
    BY DEF UntrustedMedia
  <1>3. Judge(said) = "True"
    <2>1. CASE Judge(said) = "error"
      BY <1>2, <2>1 DEF Failure
    <2>2. CASE Judge(said) # "error" /\ Judge(said) # "True"
      BY <1>1, <1>2, <2>2
    <2> QED BY <2>1, <2>2
  <1>4. sources = Own \o (IF c.muninn THEN Hall ELSE <<>>) \o (IF c.powerLevels THEN Levels ELSE <<>>)
    BY DEF Sources
  <1>5. \E n \in 1 .. 4 : Trusting(n)
    <2> DEFINE T == {SelfDirected(c, x.sender), MuninnHall(x.sender), Creator(x.sender, x.room),
                     PowerLevels(x.sender, x.room)}
    <2>1. PICK s \in Seq(T) : s = Own /\ Len(s) = 1 /\ s[1] = SelfDirected(c, x.sender)
      <3>1. Own \in Seq(T) /\ Len(Own) = 1 /\ Own[1] = SelfDirected(c, x.sender)
        OBVIOUS
      <3> QED BY <3>1
    <2>2. PICK t \in Seq(T) :
             /\ t = IF c.muninn THEN Hall ELSE <<>>
             /\ \/ t = <<>> /\ Len(t) = 0
                \/ c.muninn /\ Len(t) = 1 /\ t[1] = MuninnHall(x.sender)
      <3>1. Hall \in Seq(T) /\ Len(Hall) = 1 /\ Hall[1] = MuninnHall(x.sender)
        OBVIOUS
      <3>2. <<>> \in Seq(T) /\ Len(<<>>) = 0
        OBVIOUS
      <3> HIDE DEF T, Hall
      <3> QED BY <3>1, <3>2
    <2>3. PICK u \in Seq(T) :
             /\ u = IF c.powerLevels THEN Levels ELSE <<>>
             /\ \/ u = <<>> /\ Len(u) = 0
                \/ c.powerLevels /\ Len(u) = 2
      <3>1. Levels \in Seq(T) /\ Len(Levels) = 2
        OBVIOUS
      <3>2. <<>> \in Seq(T) /\ Len(<<>>) = 0
        OBVIOUS
      <3> HIDE DEF T, Levels
      <3> QED BY <3>1, <3>2
    <2>4. sources = s \o t \o u
      BY <1>4, <2>1, <2>2, <2>3
    <2> HIDE DEF T, sources, Own, Hall, Levels
    <2>5. PICK k \in {0, 1} : k = Len(t) /\ (k = 0 \/ (c.muninn /\ t[1] = MuninnHall(x.sender)))
      BY <2>2
    <2>6. PICK m \in {0, 2} : m = Len(u) /\ (m = 0 \/ c.powerLevels)
      BY <2>3
    <2>7. PICK st \in Seq(T) :
             /\ st = s \o t /\ Len(st) = 1 + k
             /\ st[1] = s[1] /\ (k = 1 => st[2] = t[1])
      <3>1. s \o t \in Seq(T) /\ Len(s \o t) = Len(s) + Len(t)
        OBVIOUS
      <3>2. \A i \in 1 .. Len(s) + Len(t) : (s \o t)[i] = IF i <= Len(s) THEN s[i] ELSE t[i - Len(s)]
        OBVIOUS
      <3>3. Len(s) = 1 /\ Len(t) = k
        BY <2>1, <2>5
      <3>4. (s \o t)[1] = s[1]
        <4>1. 1 \in 1 .. Len(s) + Len(t) /\ 1 <= Len(s)
          BY <3>3
        <4> QED BY <3>2, <4>1
      <3>5. k = 1 => (s \o t)[2] = t[1]
        <4> SUFFICES ASSUME k = 1 PROVE (s \o t)[2] = t[1]
          OBVIOUS
        <4>1. 2 \in 1 .. Len(s) + Len(t) /\ ~(2 <= Len(s)) /\ 2 - Len(s) = 1
          BY <3>3
        <4> QED BY <3>2, <4>1
      <3> QED BY <3>1, <3>3, <3>4, <3>5
    <2>8. sources = st \o u
      BY <2>4, <2>7
    <2>9. /\ DOMAIN sources = 1 .. 1 + k + m
          /\ \A i \in 1 .. 1 + k + m : i <= 1 + k => sources[i] = st[i]
      <3>1. DOMAIN (st \o u) = 1 .. Len(st) + Len(u)
        OBVIOUS
      <3>2. \A i \in 1 .. Len(st) + Len(u) :
               (st \o u)[i] = IF i <= Len(st) THEN st[i] ELSE u[i - Len(st)]
        OBVIOUS
      <3>3. Len(st) = 1 + k /\ Len(u) = m
        BY <2>6, <2>7
      <3> QED BY <2>8, <3>1, <3>2, <3>3
    <2> DEFINE n == 1 + k + m
    <2>10. n \in 1 .. 4
      OBVIOUS
    <2>11. sources[1] = SelfDirected(c, x.sender)
      <3>1. 1 \in 1 .. n /\ 1 <= 1 + k
        OBVIOUS
      <3> QED BY <2>1, <2>7, <2>9, <3>1
    <2>12. ASSUME NEW i \in 2 .. n
           PROVE  \/ sources[i] = MuninnHall(x.sender) /\ c.muninn
                  \/ c.powerLevels
      <3>1. CASE i <= 1 + k
        <4>1. i = 2 /\ k = 1 /\ i \in 1 .. n
          BY <3>1
        <4>2. sources[i] = t[1]
          BY <2>7, <2>9, <4>1
        <4> QED BY <2>5, <4>1, <4>2
      <3>2. CASE ~(i <= 1 + k)
        <4>1. m # 0
          BY <3>2
        <4> QED BY <2>6, <4>1
      <3> QED BY <3>1, <3>2
    <2>13. Trusting(n)
      BY <2>9, <2>11, <2>12
    <2> HIDE DEF n, Trusting
    <2> QED BY <2>10, <2>13
  <1>6. PICK n \in 1 .. 4 : Trusting(n)
    BY <1>5
  <1> HIDE DEF sources
  <1>7. /\ said \in [1 .. n -> {"True", "False", "Default", "error"}]
        /\ \A i \in 1 .. n : said[i] \in sources[i]
    BY <1>2, <1>6
  <1>8. /\ \A i \in 1 .. n : said[i] # "False"
        /\ \E i \in 1 .. n : said[i] = "True"
    <2>1. n \in Nat
      OBVIOUS
    <2> QED BY <1>3, <1>7, <2>1, JudgeTrusts
  <1>9. said[1] \in SelfDirected(c, x.sender) /\ said[1] # "False"
    BY <1>6, <1>7, <1>8
  <1>10. ~\E g \in c.deniedUsers : x.sender \in g
    BY <1>9 DEF SelfDirected
  <1>11. PICK i \in 1 .. n : said[i] = "True"
    BY <1>8
  <1>12. CASE i = 1
    BY <1>9, <1>10, <1>11, <1>12 DEF SelfDirected
  <1>13. CASE i # 1
    <2>1. i \in 2 .. n
      BY <1>13
    <2>2. CASE sources[i] = MuninnHall(x.sender) /\ c.muninn
      BY <1>7, <1>10, <1>11, <2>2 DEF MuninnHall
    <2> QED BY <1>6, <1>10, <2>1, <2>2
  <1> QED BY <1>12, <1>13

(***************************************************************************)
(* The order of the filters                                                *)
(***************************************************************************)

AllReplies ==
    UNION {Replies(f, community, input) : f \in UNION {Groups(community)[g] : g \in 1 .. 4}}

(* The replies of a group are in the channel until it is merged; from then *)
(* on the class so far is neutral only if all of them were.                *)
Ordered ==
    /\ community \in Communities /\ input \in Inputs
    /\ group \in 1 .. 5
    /\ class \in Classes
    /\ rets \in Seq(AllReplies)
    /\ stage = "running" => group <= 4 /\ waiting \subseteq Groups(community)[group]
    /\ stage = "running" /\ group \in {2, 3} => class = "Neutral"
    /\ stage = "next" => rets = <<>>
    /\ stage = "running" => Panic \notin ToSet(rets)
    /\ \A f \in Ran : \E g \in 1 .. 4 :
          /\ f \in Groups(community)[g]
          /\ \/ g < group /\ (class = "Neutral" => replied[f].class = "Neutral")
             \/ g = group /\ stage # "next" /\ (stage = "running" => replied[f] \in ToSet(rets))
    /\ ExemptFromFilters

LEMMA AllProper ==
    ASSUME community \in Communities, input \in Inputs
    PROVE  AllReplies \subseteq Answers
  <1> SUFFICES ASSUME NEW g \in 1 .. 4, NEW f \in Groups(community)[g]
               PROVE  Replies(f, community, input) \subseteq Answers
    BY DEF AllReplies
  <1>1. f \in FilterNames
    BY GroupsApart
  <1> QED BY <1>1, RepliesProper DEF Proper

LEMMA AppendSet ==
    ASSUME NEW S, NEW q \in Seq(S), NEW e \in S
    PROVE  Append(q, e) \in Seq(S) /\ ToSet(Append(q, e)) = ToSet(q) \cup {e}
  <1>1. /\ \A i \in 1 .. Len(q) + 1 : Append(q, e)[i] = IF i = Len(q) + 1 THEN e ELSE q[i]
        /\ DOMAIN Append(q, e) = 1 .. Len(q) + 1 /\ DOMAIN q = 1 .. Len(q) /\ Len(q) \in Nat
    OBVIOUS
  <1>2. ASSUME NEW x \in ToSet(Append(q, e)) PROVE x \in ToSet(q) \cup {e}
    BY <1>1 DEF ToSet
  <1>3. ASSUME NEW x \in ToSet(q) PROVE x \in ToSet(Append(q, e))
    <2>1. PICK i \in 1 .. Len(q) : x = q[i]
      BY <1>1 DEF ToSet
    <2>2. i \in DOMAIN Append(q, e) /\ Append(q, e)[i] = x
      BY <1>1, <2>1
    <2> QED BY <2>2 DEF ToSet
  <1>4. e \in ToSet(Append(q, e))
    <2>1. Len(q) + 1 \in DOMAIN Append(q, e) /\ Append(q, e)[Len(q) + 1] = e
      BY <1>1
    <2> QED BY <2>1 DEF ToSet
  <1> QED BY <1>2, <1>3, <1>4

LEMMA Placed ==
    ASSUME NEW g \in 1 .. 4, NEW f \in Groups(community)[g]
    PROVE  GroupOf(f) = g
  BY GroupsApart DEF GroupOf

(* The severest of some classes is one of them, prohibited if any is, and  *)
(* neutral only if all are.                                                *)
LEMMA SeverestIs ==
    ASSUME NEW C, C \subseteq Classes, C # {}
    PROVE  /\ Severest(C) \in C
           /\ Severest(C) = "Neutral" => C = {"Neutral"}
           /\ (Severest(C) = "Prohibited") <=> ("Prohibited" \in C)
           /\ Severest(C) = "Allowed" => "Allowed" \in C /\ "Prohibited" \notin C
  <1>1. \E c \in C : \A d \in C : Rank(d) <= Rank(c)
    <2>1. CASE "Prohibited" \in C
      BY <2>1 DEF Rank, Classes
    <2>2. CASE "Prohibited" \notin C /\ "Allowed" \in C
      BY <2>2 DEF Rank, Classes
    <2>3. CASE C = {"Neutral"}
      BY <2>3 DEF Rank, Classes
    <2> QED BY <2>1, <2>2, <2>3 DEF Classes
  <1>2. Severest(C) \in C /\ \A d \in C : Rank(d) <= Rank(Severest(C))
    BY <1>1 DEF Severest
  <1> QED BY <1>2 DEF Rank, Classes

LEMMA NeutralInfo ==
    ASSUME NEW c \in Classes, NEW s
    PROVE  /\ NewContentInfo(c, s).class \in Classes
           /\ NewContentInfo(c, s).class = "Neutral" => c = "Neutral"
  BY DEF NewContentInfo, Classes

LEMMA OrderedAtInit == Init => Ordered
  BY DEF Init, Ordered, Classes, Ran, ExemptFromFilters, ToSet

LEMMA NothingAsked ==
    ASSUME ExemptFromFilters, UNCHANGED <<community, input, replied>>
    PROVE  AllReplies' = AllReplies /\ Ran' = Ran /\ ExemptFromFilters'
  <1>1. AllReplies' = AllReplies
    BY DEF AllReplies
  <1>2. Ran' = Ran
    BY DEF Ran
  <1>3. ASSUME NEW f PROVE GroupOf(f)' = GroupOf(f)
    BY DEF GroupOf
  <1>4. ExemptFromFilters'
    BY <1>2, <1>3 DEF ExemptFromFilters
  <1> QED BY <1>1, <1>2, <1>4

(* A step that asks no filter and leaves the running group alone.          *)
LEMMA OrderedFrame ==
    ASSUME Ordered, UNCHANGED <<community, input, group, class, rets, replied>>,
           stage' \notin {"running", "next"}
    PROVE  Ordered'
  <1>1. AllReplies' = AllReplies /\ Ran' = Ran /\ ExemptFromFilters'
    BY NothingAsked DEF Ordered
  <1> QED BY <1>1 DEF Ordered

LEMMA OrderedStep == Ordered /\ (Next \/ UNCHANGED vars) => Ordered'
  <1> SUFFICES ASSUME Ordered, Next \/ UNCHANGED vars PROVE Ordered'
    OBVIOUS
  <1>1. CASE RejectSender
    BY <1>1, OrderedFrame DEF RejectSender, given
  <1>2. CASE Malformed
    BY <1>2, OrderedFrame DEF Malformed, given
  <1>3. CASE Finish
    BY <1>3, OrderedFrame DEF Finish, given
  <1>4. CASE EnterGroup
    <2>1. /\ stage = "next" /\ group \in 1 .. 4
          /\ UNCHANGED <<community, input, rets, class, replied>>
          /\ \/ /\ NewContentInfo(class, harmIds).class \in Checked(group)
                /\ waiting' = Groups(community)[group] /\ stage' = "running" /\ group' = group
             \/ stage' = "next" /\ group' = group + 1
      BY <1>4 DEF EnterGroup, given, Ordered
    <2>2. rets = <<>> /\ ToSet(rets) = {}
      BY <2>1 DEF Ordered, ToSet
    <2>3. stage' = "running" /\ group \in {2, 3} => class = "Neutral"
      BY <2>1, NeutralInfo DEF Checked, Ordered
    <2>4. \A f \in Ran : \E g \in 1 .. 4 :
             f \in Groups(community)[g] /\ g < group /\ (class = "Neutral" => replied[f].class = "Neutral")
      BY <2>1 DEF Ordered
    <2>5. AllReplies' = AllReplies /\ ExemptFromFilters' /\ Ran' = Ran
      BY <2>1, NothingAsked DEF Ordered
    <2>6. group' \in 1 .. 5 /\ \A g \in 1 .. 4 : g < group => g < group'
      BY <2>1
    <2>7. \A f \in Ran' : \E g \in 1 .. 4 :
             /\ f \in Groups(community')[g]
             /\ g < group' /\ (class' = "Neutral" => replied'[f].class = "Neutral")
      BY <2>1, <2>4, <2>5, <2>6
    <2> QED BY <2>1, <2>2, <2>3, <2>5, <2>6, <2>7 DEF Ordered
  <1>5. ASSUME NEW f \in waiting, FilterReplies(f) PROVE Ordered'
    <2>1. PICK r \in Replies(f, community, input) :
             /\ stage' = IF r = Panic THEN "crashed" ELSE stage
             /\ rets' = Append(rets, r)
             /\ replied' = [g \in DOMAIN replied \cup {f} |-> IF g = f THEN r ELSE replied[g]]
      BY <1>5 DEF FilterReplies
    <2>2. /\ stage = "running" /\ waiting' = waiting \ {f}
          /\ UNCHANGED <<community, input, group, class>>
      BY <1>5 DEF FilterReplies, given
    <2>3. group \in 1 .. 4 /\ f \in Groups(community)[group]
      BY <2>2 DEF Ordered
    <2>4. AllReplies' = AllReplies /\ r \in AllReplies
      BY <2>2, <2>3 DEF AllReplies
    <2>5. rets' \in Seq(AllReplies) /\ ToSet(rets') = ToSet(rets) \cup {r}
      BY <2>1, <2>4, AppendSet DEF Ordered
    <2>6. /\ Ran' = Ran \cup {f} /\ replied'[f] = r
          /\ \A e \in Ran : e # f => replied'[e] = replied[e]
      BY <2>1 DEF Ran
    <2>7. \A e \in Ran' : \E g \in 1 .. 4 :
             /\ e \in Groups(community)[g]
             /\ \/ g < group /\ (class = "Neutral" => replied'[e].class = "Neutral")
                \/ g = group /\ (stage' = "running" => replied'[e] \in ToSet(rets'))
      <3> SUFFICES ASSUME NEW e \in Ran \cup {f}
                   PROVE  \E g \in 1 .. 4 :
                            /\ e \in Groups(community)[g]
                            /\ \/ g < group /\ (class = "Neutral" => replied'[e].class = "Neutral")
                               \/ g = group /\ (stage' = "running" => replied'[e] \in ToSet(rets'))
        BY <2>6
      <3>1. CASE e = f
        BY <2>3, <2>5, <2>6, <3>1
      <3>2. CASE e # f
        BY <2>2, <2>5, <2>6, <3>2 DEF Ordered
      <3> QED BY <3>1, <3>2
    <2>8. ExemptFromFilters'
      <3> SUFFICES ASSUME NEW d \in Ran', GroupOf(d) \in {2, 3}, NEW e \in Ran',
                          GroupOf(e) < GroupOf(d)
                   PROVE  replied'[e].class = "Neutral"
        BY <2>2 DEF ExemptFromFilters, GroupOf
      <3>1. GroupOf(f) = group
        BY <2>3, Placed
      <3>2. /\ GroupOf(d) \in 1 .. group /\ GroupOf(e) \in 1 .. group
            /\ GroupOf(e) < group /\ class = "Neutral" => replied'[e].class = "Neutral"
        BY <2>3, <2>7, Placed
      <3>3. e # f
        BY <2>3, <3>1, <3>2
      <3>4. CASE d = f
        BY <2>2, <3>1, <3>2, <3>4 DEF Ordered
      <3>5. CASE d # f
        BY <2>6, <3>3, <3>5 DEF Ordered, ExemptFromFilters
      <3> QED BY <3>4, <3>5
    <2>9. stage' = "running" => Panic \notin ToSet(rets')
      BY <2>1, <2>2, <2>5 DEF Ordered
    <2>10. stage' # "next" /\ (stage' = "running" => stage = "running") /\ waiting' \subseteq waiting
      BY <2>1, <2>2
    <2> QED BY <2>2, <2>4, <2>5, <2>7, <2>8, <2>9, <2>10 DEF Ordered
  <1>6. CASE Merge
    <2> DEFINE classes == {r.class : r \in ToSet(rets)}
               info == NewContentInfo(Severest({"Neutral"} \cup classes), Collected)
    <2>1. CASE "error" \in classes
      <3>1. stage' = "failed" /\ UNCHANGED <<community, input, group, class, replied>> /\ rets' = <<>>
        BY <1>6, <2>1 DEF Merge, given
      <3>2. AllReplies' = AllReplies /\ ExemptFromFilters' /\ Ran' = Ran
        BY <3>1, NothingAsked DEF Ordered
      <3>3. stage = "running"
        BY <1>6 DEF Merge
      <3> QED BY <3>1, <3>2, <3>3 DEF Ordered
    <2>2. CASE "error" \notin classes
      <3>1. /\ stage = "running" /\ stage' = "next" /\ rets' = <<>> /\ group' = group + 1
            /\ class' = Severest({class, info.class})
            /\ UNCHANGED <<community, input, replied>>
        BY <1>6, <2>2 DEF Merge, given
      <3>2. classes \subseteq Classes
        <4> SUFFICES ASSUME NEW r \in ToSet(rets) PROVE r.class \in Classes
          OBVIOUS
        <4>1. r \in AllReplies
          BY DEF Ordered, ToSet
        <4>2. r.class \in Classes \cup {"error"} \/ r = Panic
          BY <4>1, AnswerIs, AllProper DEF Ordered
        <4> QED BY <2>2, <3>1, <4>2 DEF Ordered
      <3>3. /\ Severest({"Neutral"} \cup classes) \in Classes
            /\ Severest({"Neutral"} \cup classes) = "Neutral" => classes \subseteq {"Neutral"}
        <4>1. {"Neutral"} \cup classes \subseteq Classes /\ {"Neutral"} \cup classes # {}
          BY <3>2 DEF Classes
        <4> HIDE DEF classes
        <4>2. \A C : C \subseteq Classes /\ C # {} =>
                 Severest(C) \in C /\ (Severest(C) = "Neutral" => C = {"Neutral"})
          BY SeverestIs
        <4> QED BY <4>1, <4>2
      <3>4. info.class \in Classes /\ (info.class = "Neutral" => classes \subseteq {"Neutral"})
        <4> HIDE DEF classes
        <4> QED BY <3>3, NeutralInfo
      <3>5. /\ class' \in Classes
            /\ class' = "Neutral" => class = "Neutral" /\ info.class = "Neutral"
        <4> HIDE DEF info
        <4>1. class \in Classes
          BY DEF Ordered
        <4>2. {class, info.class} \subseteq Classes /\ {class, info.class} # {}
          BY <3>4, <4>1
        <4>3. \A C : C \subseteq Classes /\ C # {} =>
                 Severest(C) \in C /\ (Severest(C) = "Neutral" => C = {"Neutral"})
          BY SeverestIs
        <4> QED BY <3>1, <4>2, <4>3
      <3>6. group \in 1 .. 4 /\ group' \in 1 .. 5
        BY <3>1 DEF Ordered
      <3>7. AllReplies' = AllReplies /\ ExemptFromFilters' /\ Ran' = Ran
        BY <3>1, NothingAsked DEF Ordered
      <3>8. \A f \in Ran : \E g \in 1 .. 4 :
               /\ f \in Groups(community)[g]
               /\ g < group' /\ (class' = "Neutral" => replied[f].class = "Neutral")
        <4> SUFFICES ASSUME NEW f \in Ran
                     PROVE  \E g \in 1 .. 4 :
                              /\ f \in Groups(community)[g]
                              /\ g < group' /\ (class' = "Neutral" => replied[f].class = "Neutral")
          OBVIOUS
        <4>1. PICK g \in 1 .. 4 :
                 /\ f \in Groups(community)[g]
                 /\ \/ g < group /\ (class = "Neutral" => replied[f].class = "Neutral")
                    \/ g = group /\ replied[f] \in ToSet(rets)
          BY <3>1 DEF Ordered
        <4>2. CASE g < group
          BY <3>1, <3>5, <3>6, <4>1, <4>2
        <4>3. CASE g = group
          <5>1. replied[f].class \in classes
            BY <3>6, <4>1, <4>3
          <5>2. class' = "Neutral" => replied[f].class = "Neutral"
            BY <3>4, <3>5, <5>1
          <5> QED BY <3>1, <3>6, <4>1, <4>3, <5>2
        <4> QED BY <3>6, <4>1, <4>2, <4>3
      <3>9. class' \in Classes
        BY <3>5
      <3>10. stage' = "next" /\ rets' = <<>> /\ community' = community /\ replied' = replied
        BY <3>1
      <3>11. community' \in Communities /\ input' \in Inputs
        BY <3>1 DEF Ordered
      <3>12. rets' \in Seq(AllReplies')
        BY <3>10
      <3> HIDE DEF info, classes
      <3> QED BY <3>6, <3>7, <3>8, <3>9, <3>10, <3>11, <3>12 DEF Ordered
    <2> QED BY <2>1, <2>2
  <1>7. CASE UNCHANGED vars
    <2>1. AllReplies' = AllReplies /\ ExemptFromFilters' /\ Ran' = Ran
      BY <1>7, NothingAsked DEF vars, Ordered
    <2> QED BY <1>7, <2>1 DEF vars, Ordered
  <1> QED BY <1>1, <1>2, <1>3, <1>4, <1>5, <1>6, <1>7 DEF Next

(* Whatever a community configures and whatever is checked, the timeout    *)
(* and the middle filters are asked only of what every filter before them  *)
(* is neutral about.                                                       *)
THEOREM ExemptStaysExempt == ApiSpec => []ExemptFromFilters
  <1>1. ApiInit => Ordered
    BY OrderedAtInit DEF ApiInit
  <1>2. Ordered /\ [ApiNext]_apiVars => Ordered'
    BY ApiStep, OrderedStep
  <1>3. Ordered => ExemptFromFilters
    BY DEF Ordered
  <1> QED BY <1>1, <1>2, <1>3, PTL DEF ApiSpec
(***************************************************************************)
(* The verdict                                                             *)
(***************************************************************************)

(* The filters of the groups before g that were asked, and those of the    *)
(* group that is running; class and harms of what some filters said.       *)
Earlier(g) == UNION {Groups(community)[h] : h \in {k \in 1 .. 4 : k < g}}
Before == Ran \cap Earlier(group)
Now == IF group <= 4 THEN Ran \cap Groups(community)[group] ELSE {}
ClassOf(F) == Severest({"Neutral"} \cup {replied[f].class : f \in F})
HarmsOf(F) == UNION {replied[f].harms : f \in F}

(* Who was asked, and that the channel holds what the running group said.  *)
Asked ==
    /\ stage \in {"next", "running", "done", "failed", "crashed"}
    /\ group <= 4 => waiting \subseteq Groups(community)[group]
    /\ stage \in {"next", "done"} => waiting = {}
    /\ group = 5 => stage \in {"next", "done"}
    /\ waiting \cap Ran = {}
    /\ \A f \in Ran : replied[f] \in Replies(f, community, input)
    /\ stage = "running" =>
          /\ Groups(community)[group] \subseteq waiting \cup Ran
          /\ ToSet(rets) = {replied[f] : f \in Now}
    /\ ~UserSender => group = 1 /\ Ran = {} /\ stage \in {"next", "done"}

(* Class and harms so far are what the groups before said; until the last  *)
(* group no harm is repeated, so that sorting in place blanks none.        *)
SoFar ==
    /\ \A f \in Before : replied[f].class \in Classes
    /\ class = ClassOf(Before)
    /\ Names(harmIds, HarmsOf(Before))
    /\ group <= 4 => Unrepeated(harmIds)
    /\ stage = "running" /\ group = 4 => class = "Prohibited"
    /\ group = 5 /\ class = "Prohibited" => Groups(community)[4] \subseteq Ran

Decided ==
    IF UserSender
    THEN /\ \A f \in Ran : replied[f].class \in Classes
         /\ verdict = [class |-> ClassOf(Ran), harms |-> HarmsOf(Ran)]
         /\ verdict.class = "Prohibited" => Groups(community)[4] \subseteq Ran
    ELSE verdict = [class |-> "Prohibited", harms |-> {SpamGeneral, NonCompliance}]

Spam ==
    \A f \in Ran \cap Groups(community)[4] :
       \E e \in Ran : e \in Earlier(4) /\ replied[e].class = "Prohibited"

Summed ==
    /\ Asked
    /\ stage \in {"next", "running"} => SoFar /\ verdict = NoVerdict
    /\ stage \in {"failed", "crashed"} => verdict = NoVerdict
    /\ stage = "done" => Decided
    /\ harmIds \in Seq(Harms)
    /\ Spam

LEMMA SeverestJoin ==
    ASSUME NEW A, A \subseteq Classes, A # {}, NEW B, B \subseteq Classes, B # {}
    PROVE  Severest({Severest(A), Severest(B)}) = Severest(A \cup B)
  <1>1. PICK s : s = Severest(A)
    OBVIOUS
  <1>2. PICK t : t = Severest(B)
    OBVIOUS
  <1>3. PICK u : u = Severest({s, t})
    OBVIOUS
  <1>4. PICK v : v = Severest(A \cup B)
    OBVIOUS
  <1>5. /\ s \in A /\ (s = "Neutral" => A = {"Neutral"}) /\ ((s = "Prohibited") <=> ("Prohibited" \in A))
        /\ t \in B /\ (t = "Neutral" => B = {"Neutral"}) /\ ((t = "Prohibited") <=> ("Prohibited" \in B))
    BY <1>1, <1>2, SeverestIs
  <1>6. /\ u \in {s, t} /\ (u = "Neutral" => {s, t} = {"Neutral"})
        /\ (u = "Prohibited") <=> ("Prohibited" \in {s, t})
    <2>1. {s, t} \subseteq Classes /\ {s, t} # {}
      BY <1>5
    <2> QED BY <1>3, <2>1, SeverestIs
  <1>7. /\ v \in A \cup B /\ (v = "Neutral" => A \cup B = {"Neutral"})
        /\ (v = "Prohibited") <=> ("Prohibited" \in A \cup B)
    <2>1. A \cup B \subseteq Classes /\ A \cup B # {}
      OBVIOUS
    <2> QED BY <1>4, <2>1, SeverestIs
  <1>8. u \in Classes /\ v \in Classes
    BY <1>5, <1>6, <1>7
  <1>9. (u = "Prohibited") <=> (v = "Prohibited")
    BY <1>5, <1>6, <1>7
  <1>10. (u = "Neutral") <=> (v = "Neutral")
    <2>1. u = "Neutral" => v = "Neutral"
      BY <1>5, <1>6, <1>7
    <2>2. v = "Neutral" => u = "Neutral"
      BY <1>5, <1>6, <1>7
    <2> QED BY <2>1, <2>2
  <1>11. u = v
    BY <1>8, <1>9, <1>10 DEF Classes
  <1> QED BY <1>1, <1>2, <1>3, <1>4, <1>11

(* Where what is prohibited names harms, and nothing else does, nothing is *)
(* added or turned.                                                        *)
LEMMA InfoIs ==
    ASSUME NEW c \in Classes, NEW s, NEW H, Names(s, H), (c = "Prohibited") <=> (H # {})
    PROVE  NewContentInfo(c, s) = [class |-> c, harms |-> H]
  <1>1. s \in Seq(Harms) /\ ToSet(s) = H
    BY DEF Names
  <1>2. (s = <<>>) <=> (H = {})
    <2>1. s = <<>> => H = {}
      BY <1>1 DEF ToSet
    <2>2. s # <<>> => H # {}
      <3> SUFFICES ASSUME s # <<>> PROVE H # {}
        OBVIOUS
      <3>1. 1 \in DOMAIN s
        BY <1>1
      <3> QED BY <1>1, <3>1 DEF ToSet
    <2> QED BY <2>1, <2>2
  <1>3. ~(s = <<>> /\ c = "Prohibited")
    BY <1>2
  <1>4. NewContentInfo(c, s) = [class |-> IF s # <<>> THEN "Prohibited" ELSE c, harms |-> ToSet(s)]
    BY <1>3 DEF NewContentInfo
  <1>5. (IF s # <<>> THEN "Prohibited" ELSE c) = c
    BY <1>2
  <1> QED BY <1>1, <1>4, <1>5

LEMMA CollectedIs ==
    ASSUME rets \in Seq(Answers)
    PROVE  Names(Collected, UNION {r.harms : r \in ToSet(rets)})
  <1> DEFINE n == Len(rets)
             seqs == [i \in 1 .. n |-> Sorted(rets[i].harms)]
  <1>1. n \in Nat /\ DOMAIN rets = 1 .. n /\ \A i \in 1 .. n : rets[i] \in Answers
    OBVIOUS
  <1>2. ASSUME NEW i \in 1 .. n PROVE seqs[i] \in Seq(Harms) /\ ToSet(seqs[i]) = rets[i].harms
    <2>1. rets[i].harms \subseteq Harms
      BY <1>1, AnswerIs
    <2>2. Names(Sorted(rets[i].harms), rets[i].harms)
      BY <2>1, SortedIs
    <2> QED BY <2>2 DEF Names
  <1>3. Collected = FlattenSeq(seqs)
    BY <1>1 DEF Collected
  <1>4. seqs \in [1 .. n -> Seq(Harms)]
    BY <1>2
  <1> HIDE DEF seqs, n
  <1>5. /\ FlattenSeq(seqs) \in Seq(Harms)
        /\ ToSet(FlattenSeq(seqs)) = UNION {ToSet(seqs[i]) : i \in 1 .. n}
    BY <1>1, <1>4, FlattenIs
  <1>6. {ToSet(seqs[i]) : i \in 1 .. n} = {r.harms : r \in ToSet(rets)}
    <2>1. {ToSet(seqs[i]) : i \in 1 .. n} = {rets[i].harms : i \in 1 .. n}
      BY <1>2
    <2>2. ToSet(rets) = {rets[i] : i \in 1 .. n}
      BY <1>1 DEF ToSet
    <2> QED BY <2>1, <2>2
  <1> QED BY <1>3, <1>5, <1>6 DEF Names

LEMMA RanAnswers ==
    ASSUME Ordered, Asked
    PROVE  \A f \in Ran : replied[f] \in Answers
  <1> SUFFICES ASSUME NEW f \in Ran PROVE replied[f] \in Answers
    OBVIOUS
  <1>1. PICK g \in 1 .. 4 : f \in Groups(community)[g]
    BY DEF Ordered
  <1>2. f \in FilterNames
    BY <1>1, GroupsApart
  <1> QED BY <1>2, RepliesProper DEF Ordered, Asked, Proper

(* The filters that answered are prohibiting if and only if they name      *)
(* harms.                                                                  *)
LEMMA Consistent ==
    ASSUME NEW F, \A f \in F : replied[f] \in Answers /\ replied[f].class \in Classes
    PROVE  /\ ClassOf(F) \in Classes
           /\ HarmsOf(F) \subseteq Harms
           /\ (ClassOf(F) = "Prohibited") <=> (HarmsOf(F) # {})
           /\ (ClassOf(F) = "Prohibited") <=> (\E f \in F : replied[f].class = "Prohibited")
           /\ ClassOf(F) = "Neutral" => \A f \in F : replied[f].class = "Neutral"
  <1>1. PICK C : C = {"Neutral"} \cup {replied[f].class : f \in F}
    OBVIOUS
  <1>2. C \subseteq Classes /\ C # {} /\ "Neutral" \in C
    BY <1>1 DEF Classes
  <1>3. /\ Severest(C) \in C /\ (Severest(C) = "Neutral" => C = {"Neutral"})
        /\ (Severest(C) = "Prohibited") <=> ("Prohibited" \in C)
    BY <1>2, SeverestIs
  <1>4. ClassOf(F) = Severest(C)
    BY <1>1 DEF ClassOf
  <1>5. ("Prohibited" \in C) <=> (\E f \in F : replied[f].class = "Prohibited")
    BY <1>1
  <1>6. \A f \in F : /\ replied[f].harms \subseteq Harms
                     /\ (replied[f].class = "Prohibited") <=> (replied[f].harms # {})
    BY AnswerIs
  <1>7. HarmsOf(F) \subseteq Harms
    BY <1>6 DEF HarmsOf
  <1>8. (HarmsOf(F) # {}) <=> (\E f \in F : replied[f].class = "Prohibited")
    <2>1. (HarmsOf(F) # {}) <=> (\E f \in F : replied[f].harms # {})
      BY DEF HarmsOf
    <2> QED BY <1>6, <2>1
  <1>9. C = {"Neutral"} => \A f \in F : replied[f].class = "Neutral"
    BY <1>1
  <1> QED BY <1>2, <1>3, <1>4, <1>5, <1>7, <1>8, <1>9
LEMMA EarlierIs ==
    ASSUME NEW g \in 1 .. 5, NEW h \in 1 .. 4, NEW f \in Groups(community)[h]
    PROVE  (f \in Earlier(g)) <=> (h < g)
  <1>1. ASSUME h < g PROVE f \in Earlier(g)
    <2>1. h \in {k \in 1 .. 4 : k < g}
      BY <1>1
    <2> QED BY <2>1 DEF Earlier
  <1>2. ASSUME f \in Earlier(g) PROVE h < g
    <2>1. PICK k \in 1 .. 4 : k < g /\ f \in Groups(community)[k]
      BY <1>2 DEF Earlier
    <2>2. k = h
      BY <2>1, GroupsApart
    <2> QED BY <2>1, <2>2
  <1> QED BY <1>1, <1>2

(* Between two groups everybody who was asked is of a group before.        *)
LEMMA RanWhere ==
    ASSUME Ordered
    PROVE  /\ stage = "next" => Before = Ran /\ (group <= 4 => Now = {})
           /\ Before \cap Now = {}
           /\ group = 5 => Before = Ran
           /\ group <= 4 => Ran \cap Earlier(group + 1) = Before \cup Now
  <1>0. group \in 1 .. 5
    BY DEF Ordered
  <1>1. ASSUME NEW f \in Ran
        PROVE  \E g \in 1 .. 4 :
                  /\ f \in Groups(community)[g] /\ g <= group
                  /\ (g = group => stage # "next")
                  /\ (f \in Before) <=> (g < group)
                  /\ (f \in Now) <=> (g = group)
                  /\ group <= 4 => f \in Earlier(group + 1)
    <2>1. PICK g \in 1 .. 4 :
             f \in Groups(community)[g] /\ (g < group \/ (g = group /\ stage # "next"))
      BY DEF Ordered
    <2>2. (f \in Before) <=> (g < group)
      BY <1>0, <2>1, EarlierIs DEF Before
    <2>3. (f \in Now) <=> (g = group)
      <3>1. CASE group <= 4
        <4>1. group \in 1 .. 4
          BY <1>0, <3>1
        <4>2. f \in Groups(community)[group] => group = g
          BY <2>1, <4>1, GroupsApart
        <4> QED BY <2>1, <3>1, <4>2 DEF Now
      <3>2. CASE ~(group <= 4)
        <4>1. g # group
          BY <3>2
        <4> QED BY <3>2, <4>1 DEF Now
      <3> QED BY <3>1, <3>2
    <2>4. group <= 4 => f \in Earlier(group + 1)
      <3> SUFFICES ASSUME group <= 4 PROVE f \in Earlier(group + 1)
        OBVIOUS
      <3>1. group + 1 \in 1 .. 5 /\ g < group + 1
        BY <1>0, <2>1
      <3> QED BY <2>1, <3>1, EarlierIs
    <2>5. g <= group /\ (g = group => stage # "next")
      BY <1>0, <2>1
    <2> QED BY <2>1, <2>2, <2>3, <2>4, <2>5
  <1>2. Before \subseteq Ran /\ Now \subseteq Ran
    BY DEF Before, Now
  <1>3. stage = "next" => \A f \in Ran : f \in Before /\ f \notin Now
    BY <1>0, <1>1
  <1>4. \A f \in Ran : ~(f \in Before /\ f \in Now)
    BY <1>0, <1>1
  <1>5. group = 5 => \A f \in Ran : f \in Before
    BY <1>0, <1>1
  <1>6. \A f \in Ran : (f \in Before \/ f \in Now) /\ (group <= 4 => f \in Earlier(group + 1))
    BY <1>0, <1>1
  <1> QED BY <1>2, <1>3, <1>4, <1>5, <1>6

(* While nobody answers, what was said stays.                              *)
LEMMA Kept ==
    ASSUME UNCHANGED <<community, input, replied>>
    PROVE  /\ Ran' = Ran /\ UserSender' = UserSender /\ Spam' = Spam
           /\ \A g : Earlier(g)' = Earlier(g)
           /\ \A F : ClassOf(F)' = ClassOf(F) /\ HarmsOf(F)' = HarmsOf(F)
           /\ group' = group => Before' = Before /\ Now' = Now
  <1>1. Ran' = Ran
    BY DEF Ran
  <1>2. UserSender' = UserSender
    BY DEF UserSender
  <1>3. \A g : Earlier(g)' = Earlier(g)
    BY DEF Earlier
  <1>4. \A F : ClassOf(F)' = ClassOf(F) /\ HarmsOf(F)' = HarmsOf(F)
    BY DEF ClassOf, HarmsOf
  <1>5. Spam' = Spam
    BY <1>1, <1>3 DEF Spam
  <1>6. group' = group => Before' = Before /\ Now' = Now
    BY <1>1, <1>3 DEF Before, Now
  <1> QED BY <1>1, <1>2, <1>3, <1>4, <1>5, <1>6

LEMMA SummedAtInit == Init => Summed
  <1> SUFFICES ASSUME Init PROVE Summed
    OBVIOUS
  <1>1. /\ stage = "next" /\ group = 1 /\ waiting = {} /\ class = "Neutral" /\ harmIds = <<>>
        /\ verdict = NoVerdict /\ Ran = {}
    BY DEF Init, Ran
  <1>2. Before = {}
    BY <1>1 DEF Before
  <1>3. ClassOf({}) = "Neutral" /\ HarmsOf({}) = {}
    <2>1. {"Neutral"} \cup {replied[f].class : f \in {}} = {"Neutral"}
      OBVIOUS
    <2>2. {"Neutral"} \subseteq Classes /\ {"Neutral"} # {}
      BY DEF Classes
    <2>3. Severest({"Neutral"}) \in {"Neutral"}
      BY <2>2, SeverestIs
    <2> QED BY <2>1, <2>3 DEF ClassOf, HarmsOf
  <1>4. Names(<<>>, {}) /\ Unrepeated(<<>>)
    BY DEF Names, Unrepeated, ToSet
  <1>5. Asked
    BY <1>1 DEF Asked
  <1>6. SoFar
    BY <1>1, <1>2, <1>3, <1>4 DEF SoFar
  <1>7. Spam
    BY <1>1 DEF Spam
  <1> QED BY <1>1, <1>5, <1>6, <1>7 DEF Summed

LEMMA SummedReject ==
    ASSUME Summed, RejectSender
    PROVE  Summed'
  <1>1. /\ stage = "next" /\ group = 1 /\ ~UserSender /\ stage' = "done"
        /\ verdict' = NewContentInfo("Prohibited", <<SpamGeneral, NonCompliance>>)
        /\ UNCHANGED <<community, input, group, waiting, rets, class, harmIds, replied>>
    BY DEF RejectSender, given
  <1>2. Ran' = Ran /\ UserSender' = UserSender /\ Spam' = Spam
    BY <1>1, Kept
  <1>3. Asked'
    BY <1>1, <1>2 DEF Summed, Asked
  <1>4. verdict' = [class |-> "Prohibited", harms |-> {SpamGeneral, NonCompliance}]
    <2>1. <<SpamGeneral, NonCompliance>> # <<>>
      OBVIOUS
    <2>2. ToSet(<<SpamGeneral, NonCompliance>>) = {SpamGeneral, NonCompliance}
      BY DEF ToSet
    <2> QED BY <1>1, <2>1, <2>2 DEF NewContentInfo
  <1>5. Decided'
    BY <1>1, <1>2, <1>4 DEF Decided
  <1> QED BY <1>1, <1>2, <1>3, <1>5 DEF Summed

LEMMA SummedMalformed ==
    ASSUME Summed, Malformed
    PROVE  Summed'
  <1>1. /\ stage = "next" /\ group = 1 /\ UserSender /\ stage' = "failed"
        /\ UNCHANGED <<community, input, group, waiting, rets, class, harmIds, verdict, replied>>
    BY DEF Malformed, given
  <1>2. Ran' = Ran /\ UserSender' = UserSender /\ Spam' = Spam
    BY <1>1, Kept
  <1>3. Asked'
    BY <1>1, <1>2 DEF Summed, Asked
  <1> QED BY <1>1, <1>2, <1>3 DEF Summed

(* What SoFar says of class and harms as a content information.            *)
LEMMA SoFarIs ==
    ASSUME Ordered, Asked, SoFar
    PROVE  /\ NewContentInfo(class, harmIds) = [class |-> class, harms |-> HarmsOf(Before)]
           /\ (class = "Prohibited") <=> (HarmsOf(Before) # {})
           /\ (class = "Prohibited") <=> (\E f \in Before : replied[f].class = "Prohibited")
           /\ class = "Neutral" => \A f \in Before : replied[f].class = "Neutral"
  <1>1. \A f \in Before : replied[f] \in Answers /\ replied[f].class \in Classes
    BY RanAnswers DEF SoFar, Before
  <1>2. /\ ClassOf(Before) \in Classes
        /\ (ClassOf(Before) = "Prohibited") <=> (HarmsOf(Before) # {})
        /\ (ClassOf(Before) = "Prohibited") <=> (\E f \in Before : replied[f].class = "Prohibited")
        /\ ClassOf(Before) = "Neutral" => \A f \in Before : replied[f].class = "Neutral"
    BY <1>1, Consistent
  <1>3. class = ClassOf(Before) /\ Names(harmIds, HarmsOf(Before))
    BY DEF SoFar
  <1>4. NewContentInfo(class, harmIds) = [class |-> class, harms |-> HarmsOf(Before)]
    BY <1>2, <1>3, InfoIs
  <1> QED BY <1>2, <1>3, <1>4

LEMMA SummedFinish ==
    ASSUME Ordered, Summed, Finish
    PROVE  Summed'
  <1>1. /\ stage = "next" /\ group = 5 /\ verdict' = NewContentInfo(class, harmIds) /\ stage' = "done"
        /\ UNCHANGED <<community, input, group, waiting, rets, class, harmIds, replied>>
    BY DEF Finish, given
  <1>2. /\ Ran' = Ran /\ UserSender' = UserSender /\ Spam' = Spam
        /\ ClassOf(Ran)' = ClassOf(Ran) /\ HarmsOf(Ran)' = HarmsOf(Ran)
    BY <1>1, Kept DEF ClassOf, HarmsOf
  <1>3. Before = Ran
    BY <1>1, RanWhere
  <1>4. UserSender /\ SoFar /\ Asked
    BY <1>1 DEF Summed, Asked
  <1>5. verdict' = [class |-> ClassOf(Ran), harms |-> HarmsOf(Ran)]
    <2>1. class = ClassOf(Before)
      BY <1>4 DEF SoFar
    <2> QED BY <1>1, <1>3, <1>4, <2>1, SoFarIs
  <1>6. (verdict').class = "Prohibited" => Groups(community)[4] \subseteq Ran
    <2>1. (verdict').class = class
      BY <1>3, <1>4, <1>5 DEF SoFar
    <2> QED BY <1>1, <1>4, <2>1 DEF SoFar
  <1>7. \A f \in Ran : replied[f].class \in Classes
    BY <1>3, <1>4 DEF SoFar
  <1>8. Decided'
    BY <1>1, <1>2, <1>4, <1>5, <1>6, <1>7 DEF Decided
  <1>9. Asked'
    BY <1>1, <1>2, <1>4 DEF Asked
  <1> QED BY <1>1, <1>2, <1>8, <1>9 DEF Summed
(* Sorting the slice in place leaves what it names: a group after the      *)
(* first is entered either with no harms at all or for the last time.      *)
LEMMA SummedEnter ==
    ASSUME Ordered, Summed, EnterGroup
    PROVE  Summed'
  <1>1. /\ stage = "next" /\ group \in 1 .. 4 /\ UserSender
        /\ harmIds' = InPlace(harmIds)
        /\ UNCHANGED <<community, input, rets, class, verdict, replied>>
        /\ \/ /\ NewContentInfo(class, harmIds).class \in Checked(group)
              /\ waiting' = Groups(community)[group] /\ stage' = "running" /\ group' = group
           \/ /\ NewContentInfo(class, harmIds).class \notin Checked(group)
              /\ waiting' = waiting /\ stage' = "next" /\ group' = group + 1
    BY DEF EnterGroup, given, Ordered
  <1>2. Asked /\ SoFar /\ verdict = NoVerdict /\ Spam
    BY <1>1 DEF Summed
  <1>3. /\ Ran' = Ran /\ UserSender' = UserSender /\ Spam' = Spam
        /\ \A F : ClassOf(F)' = ClassOf(F) /\ HarmsOf(F)' = HarmsOf(F)
        /\ \A g : Earlier(g)' = Earlier(g)
        /\ group' = group => Before' = Before /\ Now' = Now
    BY <1>1, Kept
  <1>4. Before = Ran /\ Now = {} /\ Ran \cap Earlier(group + 1) = Before
    BY <1>1, RanWhere
  <1>5. Before' = Before
    BY <1>1, <1>3, <1>4 DEF Before
  <1>6. NewContentInfo(class, harmIds).class = class
    BY <1>2, SoFarIs
  <1>7. Names(InPlace(harmIds), HarmsOf(Before)) /\ Unrepeated(InPlace(harmIds))
    BY <1>1, <1>2, InPlaceIs DEF SoFar
  <1>8. Ran \cap Groups(community)[group] = {}
    BY <1>1, <1>4 DEF Now
  <1>9. Asked'
    <2>1. CASE stage' = "running"
      <3>1. waiting' = Groups(community)[group] /\ group' = group
        BY <1>1, <2>1
      <3>2. rets = <<>> /\ ToSet(rets) = {}
        BY <1>1 DEF Ordered, ToSet
      <3>3. ToSet(rets)' = {replied[f] : f \in Now}'
        BY <1>1, <1>3, <1>4, <3>1, <3>2
      <3> QED BY <1>1, <1>2, <1>3, <1>8, <2>1, <3>1, <3>3 DEF Asked
    <2>2. CASE stage' = "next"
      <3>1. group' = group + 1 /\ waiting' = {}
        BY <1>1, <1>2, <2>2 DEF Asked
      <3> QED BY <1>1, <1>2, <1>3, <2>2, <3>1 DEF Asked
    <2> QED BY <1>1, <2>1, <2>2
  <1>10. SoFar'
    <2>1. stage' = "running" /\ group' = 4 => class = "Prohibited"
      <3> SUFFICES ASSUME stage' = "running", group' = 4 PROVE class = "Prohibited"
        OBVIOUS
      <3>1. group = 4 /\ class \in Checked(4)
        BY <1>1, <1>6
      <3> QED BY <3>1 DEF Checked
    <2>2. group' = 5 => class # "Prohibited"
      <3> SUFFICES ASSUME group' = 5 PROVE class # "Prohibited"
        OBVIOUS
      <3>1. group = 4 /\ class \notin Checked(4)
        BY <1>1, <1>6
      <3> QED BY <3>1 DEF Checked
    <2>3. \A f \in Before : replied[f].class \in Classes
      BY <1>2 DEF SoFar
    <2>4. class = ClassOf(Before)
      BY <1>2 DEF SoFar
    <2>5. ClassOf(Before)' = ClassOf(Before) /\ HarmsOf(Before)' = HarmsOf(Before)
      BY <1>1, <1>5 DEF ClassOf, HarmsOf
    <2> QED BY <1>1, <1>5, <1>7, <2>1, <2>2, <2>3, <2>4, <2>5 DEF SoFar
  <1>11. harmIds' \in Seq(Harms)
    BY <1>1, <1>7 DEF Names
  <1> QED BY <1>1, <1>2, <1>3, <1>9, <1>10, <1>11 DEF Summed

LEMMA SummedReply ==
    ASSUME Ordered, Summed, NEW f \in waiting, FilterReplies(f)
    PROVE  Summed'
  <1>1. PICK r \in Replies(f, community, input) :
           /\ stage' = IF r = Panic THEN "crashed" ELSE stage
           /\ rets' = Append(rets, r)
           /\ replied' = [g \in DOMAIN replied \cup {f} |-> IF g = f THEN r ELSE replied[g]]
    BY DEF FilterReplies
  <1>2. /\ stage = "running" /\ waiting' = waiting \ {f}
        /\ UNCHANGED <<community, input, group, class, harmIds, verdict>>
    BY DEF FilterReplies, given
  <1>3. group \in 1 .. 4 /\ f \in Groups(community)[group]
    BY <1>2 DEF Ordered
  <1>4. Asked /\ SoFar /\ verdict = NoVerdict /\ Spam /\ harmIds \in Seq(Harms)
    BY <1>2 DEF Summed
  <1>5. /\ f \notin Ran /\ Ran' = Ran \cup {f} /\ replied'[f] = r
        /\ \A e \in Ran : replied'[e] = replied[e]
    BY <1>1, <1>4 DEF Ran, Asked
  <1>6. /\ \A g : Earlier(g)' = Earlier(g)
        /\ UserSender' = UserSender /\ UserSender
    BY <1>2, <1>4 DEF Earlier, UserSender, Asked
  <1>7. f \notin Earlier(group) /\ (f \in Earlier(4) <=> group < 4) /\ (f \in Groups(community)[4] <=> group = 4)
    <2>1. (f \in Earlier(group)) <=> (group < group)
      <3>1. group \in 1 .. 5
        BY <1>3
      <3> QED BY <1>3, <3>1, EarlierIs
    <2>2. (f \in Earlier(4)) <=> (group < 4)
      BY <1>3, EarlierIs
    <2>3. (f \in Groups(community)[4]) <=> (group = 4)
      <3>1. f \in Groups(community)[4] => 4 = group
        BY <1>3, GroupsApart
      <3> QED BY <1>3, <3>1
    <2> QED BY <1>3, <2>1, <2>2, <2>3
  <1>8. Before' = Before /\ Now' = Now \cup {f}
    BY <1>2, <1>3, <1>5, <1>6, <1>7 DEF Before, Now
  <1>9. ToSet(rets') = ToSet(rets) \cup {r}
    <2>1. r \in AllReplies
      BY <1>3 DEF AllReplies
    <2>2. rets \in Seq(AllReplies)
      BY DEF Ordered
    <2> QED BY <1>1, <2>1, <2>2, AppendSet
  <1>10. {replied'[e] : e \in Now \cup {f}} = {replied[e] : e \in Now} \cup {r}
    <2>1. \A e \in Now : replied'[e] = replied[e]
      BY <1>5 DEF Now
    <2> QED BY <1>5, <2>1
  <1>11. Asked'
    <2>1. \A e \in Ran' : replied'[e] \in Replies(e, community', input')
      BY <1>2, <1>4, <1>5 DEF Asked
    <2>2. Groups(community')[group'] \subseteq waiting' \cup Ran'
      BY <1>2, <1>4, <1>5 DEF Asked
    <2>3. ToSet(rets)' = {replied[e] : e \in Now}'
      BY <1>2, <1>4, <1>8, <1>9, <1>10 DEF Asked
    <2>4. stage' \in {"running", "crashed"}
      BY <1>1, <1>2
    <2>5. waiting' \cap Ran' = {} /\ waiting' \subseteq Groups(community')[group'] /\ group' # 5
      BY <1>2, <1>3, <1>4, <1>5 DEF Asked
    <2> QED BY <1>6, <2>1, <2>2, <2>3, <2>4, <2>5 DEF Asked
  <1>12. SoFar'
    <2>1. \A e \in Before : e \in Ran /\ replied'[e] = replied[e]
      BY <1>5 DEF Before
    <2>2. {replied'[e].class : e \in Before} = {replied[e].class : e \in Before}
      BY <2>1
    <2>3. {replied'[e].harms : e \in Before} = {replied[e].harms : e \in Before}
      BY <2>1
    <2>4. ClassOf(Before)' = ClassOf(Before) /\ HarmsOf(Before)' = HarmsOf(Before)
      BY <1>8, <2>2, <2>3 DEF ClassOf, HarmsOf
    <2>5. \A e \in Before' : replied'[e].class \in Classes
      BY <1>4, <1>8, <2>1 DEF SoFar
    <2>6. group' # 5 /\ (stage' = "running" => stage = "running")
      BY <1>2, <1>3
    <2> QED BY <1>2, <1>4, <1>8, <2>4, <2>5, <2>6 DEF SoFar
  <1>13. Spam'
    <2> SUFFICES ASSUME NEW d \in Ran', d \in Groups(community)[4]
                 PROVE  \E e \in Ran' : e \in Earlier(4) /\ replied'[e].class = "Prohibited"
      BY <1>2, <1>6 DEF Spam
    <2>1. CASE d \in Ran
      <3>1. PICK e \in Ran : e \in Earlier(4) /\ replied[e].class = "Prohibited"
        BY <1>4, <2>1 DEF Spam
      <3> QED BY <1>5, <3>1
    <2>2. CASE d = f
      <3>1. group = 4 /\ class = "Prohibited"
        BY <1>2, <1>4, <1>7, <2>2 DEF SoFar
      <3>2. PICK e \in Before : replied[e].class = "Prohibited"
        BY <1>4, <3>1, SoFarIs
      <3>3. e \in Ran /\ e \in Earlier(4)
        BY <3>1 DEF Before
      <3> QED BY <1>5, <3>2, <3>3
    <2> QED BY <1>5, <2>1, <2>2
  <1>14. stage' \in {"running", "crashed"} /\ verdict' = NoVerdict /\ harmIds' \in Seq(Harms)
    BY <1>1, <1>2, <1>4
  <1> QED BY <1>11, <1>12, <1>13, <1>14 DEF Summed

(* The running group's class and harms join what there is.                 *)
LEMMA SummedMerge ==
    ASSUME Ordered, Summed, Merge
    PROVE  Summed'
  <1> DEFINE classes == {r.class : r \in ToSet(rets)}
             info == NewContentInfo(Severest({"Neutral"} \cup classes), Collected)
  <1>1. /\ stage = "running" /\ waiting = {} /\ rets' = <<>>
        /\ UNCHANGED <<community, input, waiting, verdict, replied>>
    BY DEF Merge, given
  <1>2. \/ "error" \in classes /\ stage' = "failed" /\ UNCHANGED <<group, class, harmIds>>
        \/ /\ "error" \notin classes /\ stage' = "next" /\ group' = group + 1
           /\ class' = Severest({class, info.class}) /\ harmIds' = harmIds \o Sorted(info.harms)
    BY DEF Merge
  <1>3. Asked /\ SoFar /\ verdict = NoVerdict /\ Spam /\ harmIds \in Seq(Harms) /\ group \in 1 .. 4
    BY <1>1 DEF Summed, Ordered
  <1>4. /\ Ran' = Ran /\ UserSender' = UserSender /\ UserSender /\ Spam' = Spam
        /\ \A g : Earlier(g)' = Earlier(g)
    BY <1>1, <1>3, Kept DEF Asked
  <1>5. CASE "error" \in classes
    <2>1. stage' = "failed" /\ UNCHANGED <<group, class, harmIds>>
      BY <1>2, <1>5
    <2>2. Asked'
      BY <1>1, <1>3, <1>4, <2>1 DEF Asked
    <2> QED BY <1>1, <1>3, <1>4, <2>1, <2>2 DEF Summed
  <1>6. CASE "error" \notin classes
    <2>1. /\ stage' = "next" /\ group' = group + 1 /\ class' = Severest({class, info.class})
          /\ harmIds' = harmIds \o Sorted(info.harms)
      BY <1>2, <1>6
    <2>2. \A f \in Ran : replied[f] \in Answers
      BY <1>3, RanAnswers
    <2>3. ToSet(rets) = {replied[f] : f \in Now} /\ Now \subseteq Ran
      BY <1>1, <1>3 DEF Asked, Now
    <2>4. classes = {replied[f].class : f \in Now}
      BY <2>3
    <2>5. \A f \in Now : replied[f] \in Answers /\ replied[f].class \in Classes
      <3> SUFFICES ASSUME NEW f \in Now PROVE replied[f] \in Answers /\ replied[f].class \in Classes
        OBVIOUS
      <3>1. replied[f] \in Answers /\ replied[f] \in ToSet(rets)
        BY <2>2, <2>3
      <3>2. replied[f] # Panic /\ replied[f].class # "error"
        BY <1>1, <1>6, <3>1 DEF Ordered
      <3> QED BY <3>1, <3>2, AnswerIs
    <2>6. \A f \in Before : replied[f] \in Answers /\ replied[f].class \in Classes
      BY <1>3, <2>2 DEF SoFar, Before
    <2>7. /\ ClassOf(Now) \in Classes /\ HarmsOf(Now) \subseteq Harms
          /\ (ClassOf(Now) = "Prohibited") <=> (HarmsOf(Now) # {})
      BY <2>5, Consistent
    <2>8. Names(Collected, HarmsOf(Now))
      <3>1. rets \in Seq(Answers)
        <4>1. AllReplies \subseteq Answers /\ rets \in Seq(AllReplies)
          BY AllProper DEF Ordered
        <4> QED BY <4>1
      <3>2. UNION {r.harms : r \in ToSet(rets)} = HarmsOf(Now)
        <4>1. {r.harms : r \in ToSet(rets)} = {replied[f].harms : f \in Now}
          BY <2>3
        <4> QED BY <4>1 DEF HarmsOf
      <3> QED BY <3>1, <3>2, CollectedIs
    <2>9. info = [class |-> ClassOf(Now), harms |-> HarmsOf(Now)]
      <3>1. Severest({"Neutral"} \cup classes) = ClassOf(Now)
        BY <2>4 DEF ClassOf
      <3>2. NewContentInfo(ClassOf(Now), Collected) = [class |-> ClassOf(Now), harms |-> HarmsOf(Now)]
        BY <2>7, <2>8, InfoIs
      <3> QED BY <3>1, <3>2
    <2>10. Ran \cap Earlier(group + 1) = Before \cup Now
      BY <1>3, RanWhere
    <2>11. Before' = Before \cup Now
      BY <1>4, <2>1, <2>10 DEF Before
    <2> HIDE DEF classes, info
    <2>12. class' = ClassOf(Before \cup Now)
      <3>1. PICK A : A = {"Neutral"} \cup {replied[f].class : f \in Before}
        OBVIOUS
      <3>2. PICK B : B = {"Neutral"} \cup {replied[f].class : f \in Now}
        OBVIOUS
      <3>3. A \subseteq Classes /\ A # {} /\ B \subseteq Classes /\ B # {}
        BY <2>5, <2>6, <3>1, <3>2 DEF Classes
      <3>4. A \cup B = {"Neutral"} \cup {replied[f].class : f \in Before \cup Now}
        BY <3>1, <3>2
      <3>5. class = Severest(A) /\ info.class = Severest(B)
        BY <1>3, <2>9, <3>1, <3>2 DEF SoFar, ClassOf
      <3>6. Severest({Severest(A), Severest(B)}) = Severest(A \cup B)
        BY <3>3, SeverestJoin
      <3> QED BY <2>1, <3>4, <3>5, <3>6 DEF ClassOf
    <2>13. Names(harmIds', HarmsOf(Before \cup Now))
      <3>1. Names(Sorted(HarmsOf(Now)), HarmsOf(Now))
        BY <2>7, SortedIs
      <3>2. Names(harmIds, HarmsOf(Before)) /\ harmIds' = harmIds \o Sorted(HarmsOf(Now))
        BY <1>3, <2>1, <2>9 DEF SoFar
      <3>3. PICK s \in Seq(Harms) : s = Sorted(HarmsOf(Now)) /\ ToSet(s) = HarmsOf(Now)
        BY <3>1 DEF Names
      <3>4. harmIds' \in Seq(Harms) /\ ToSet(harmIds') = HarmsOf(Before) \cup HarmsOf(Now)
        <4>1. harmIds \o s \in Seq(Harms) /\ ToSet(harmIds \o s) = ToSet(harmIds) \cup ToSet(s)
          BY <1>3, ConcatSet
        <4>2. ToSet(harmIds) = HarmsOf(Before)
          BY <3>2 DEF Names
        <4> QED BY <3>2, <3>3, <4>1, <4>2
      <3>5. HarmsOf(Before \cup Now) = HarmsOf(Before) \cup HarmsOf(Now)
        BY DEF HarmsOf
      <3> QED BY <3>4, <3>5 DEF Names
    <2>14. group' <= 4 => Unrepeated(harmIds')
      <3> SUFFICES ASSUME group' <= 4 PROVE Unrepeated(harmIds')
        OBVIOUS
      <3>1. group \in 1 .. 3
        BY <1>3, <2>1
      <3>2. HarmsOf(Before) = {}
        <4>1. CASE group = 1
          <5>1. Earlier(1) = {}
            BY DEF Earlier
          <5> QED BY <4>1, <5>1 DEF Before, HarmsOf
        <4>2. CASE group \in {2, 3}
          <5>1. class = "Neutral"
            BY <1>1, <4>2 DEF Ordered
          <5> QED BY <1>3, <5>1, SoFarIs
        <4> QED BY <3>1, <4>1, <4>2
      <3>3. harmIds = <<>>
        <4> SUFFICES ASSUME harmIds # <<>> PROVE FALSE
          OBVIOUS
        <4>1. 1 \in DOMAIN harmIds
          BY <1>3
        <4>2. ToSet(harmIds) = {}
          BY <1>3, <3>2 DEF SoFar, Names
        <4> QED BY <4>1, <4>2 DEF ToSet
      <3>4. Names(Sorted(HarmsOf(Now)), HarmsOf(Now)) /\ Unrepeated(Sorted(HarmsOf(Now)))
        BY <2>7, SortedIs
      <3>5. <<>> \o Sorted(HarmsOf(Now)) = Sorted(HarmsOf(Now))
        <4>1. Sorted(HarmsOf(Now)) \in Seq(Harms)
          BY <3>4 DEF Names
        <4>2. \A s \in Seq(Harms) : <<>> \o s = s
          OBVIOUS
        <4> QED BY <4>1, <4>2
      <3> QED BY <2>1, <2>9, <3>3, <3>4, <3>5
    <2>15. group' = 5 => Groups(community)[4] \subseteq Ran
      <3> SUFFICES ASSUME group' = 5 PROVE Groups(community)[4] \subseteq Ran
        OBVIOUS
      <3>1. group = 4
        BY <1>3, <2>1
      <3> QED BY <1>1, <1>3, <3>1 DEF Asked
    <2>16. \A F : ClassOf(F)' = ClassOf(F) /\ HarmsOf(F)' = HarmsOf(F)
      BY <1>1, Kept
    <2>17. ClassOf(Before)' = ClassOf(Before \cup Now) /\ HarmsOf(Before)' = HarmsOf(Before \cup Now)
      BY <1>1, <2>11 DEF ClassOf, HarmsOf
    <2>18. SoFar'
      <3>1. \A f \in Before' : replied'[f].class \in Classes
        BY <1>1, <2>5, <2>6, <2>11
      <3> QED BY <1>1, <1>4, <2>1, <2>12, <2>13, <2>14, <2>15, <2>17, <3>1 DEF SoFar
    <2>19. Asked'
      BY <1>1, <1>3, <1>4, <2>1 DEF Asked
    <2>20. harmIds' \in Seq(Harms)
      BY <2>13 DEF Names
    <2> QED BY <1>1, <1>3, <1>4, <2>1, <2>18, <2>19, <2>20 DEF Summed
  <1> QED BY <1>5, <1>6
LEMMA SummedIdle ==
    ASSUME Summed, UNCHANGED vars
    PROVE  Summed'
  <1>1. UNCHANGED <<community, input, stage, group, waiting, rets, class, harmIds, verdict, replied>>
    BY DEF vars
  <1>2. /\ Ran' = Ran /\ UserSender' = UserSender /\ Spam' = Spam
        /\ Before' = Before /\ Now' = Now
    BY <1>1, Kept
  <1>3. /\ ClassOf(Before)' = ClassOf(Before) /\ HarmsOf(Before)' = HarmsOf(Before)
        /\ ClassOf(Ran)' = ClassOf(Ran) /\ HarmsOf(Ran)' = HarmsOf(Ran)
    BY <1>1, <1>2 DEF ClassOf, HarmsOf
  <1>4. Asked' = Asked
    BY <1>1, <1>2 DEF Asked
  <1>5. SoFar' = SoFar
    BY <1>1, <1>2, <1>3 DEF SoFar
  <1>6. Decided' = Decided
    BY <1>1, <1>2, <1>3 DEF Decided
  <1> QED BY <1>1, <1>2, <1>4, <1>5, <1>6 DEF Summed

LEMMA SummedStep == Ordered /\ Summed /\ (Next \/ UNCHANGED vars) => Summed'
  <1> SUFFICES ASSUME Ordered, Summed, Next \/ UNCHANGED vars PROVE Summed'
    OBVIOUS
  <1>1. CASE RejectSender
    BY <1>1, SummedReject
  <1>2. CASE Malformed
    BY <1>2, SummedMalformed
  <1>3. CASE EnterGroup
    BY <1>3, SummedEnter
  <1>4. CASE Merge
    BY <1>4, SummedMerge
  <1>5. CASE Finish
    BY <1>5, SummedFinish
  <1>6. ASSUME NEW f \in waiting, FilterReplies(f) PROVE Summed'
    BY <1>6, SummedReply
  <1>7. CASE UNCHANGED vars
    BY <1>7, SummedIdle
  <1> QED BY <1>1, <1>2, <1>3, <1>4, <1>5, <1>6, <1>7 DEF Next

LEMMA SummedInvariant == ApiSpec => [](Ordered /\ Summed)
  <1>1. ApiInit => Ordered /\ Summed
    BY OrderedAtInit, SummedAtInit DEF ApiInit
  <1>2. Ordered /\ Summed /\ [ApiNext]_apiVars => (Ordered /\ Summed)'
    BY ApiStep, OrderedStep, SummedStep
  <1> QED BY <1>1, <1>2, PTL DEF ApiSpec

(* The slice of harms holds harms only: sorting and compacting it under    *)
(* CheckEvent's feet never leaves a blank in it.                           *)
THEOREM NoBlanks == ApiSpec => []TypeOK
  <1>1. Ordered /\ Summed => TypeOK
    <2> SUFFICES ASSUME Ordered, Summed PROVE TypeOK
      OBVIOUS
    <2>1. Asked /\ harmIds \in Seq(Harms)
      BY DEF Summed
    <2>2. \A f \in Ran : replied[f] \in Answers
      BY <2>1, RanAnswers
    <2>3. \A f \in DOMAIN replied : replied[f] \in Reply
      BY <2>2, AnswerIs DEF Ran
    <2>4. rets \in Seq(Reply)
      <3>1. AllReplies \subseteq Reply /\ rets \in Seq(AllReplies)
        BY AllProper, AnswerIs DEF Ordered
      <3> QED BY <3>1
    <2>5. waiting \subseteq (IF group <= 4 THEN Groups(community)[group] ELSE {})
      BY <2>1 DEF Asked, Ordered
    <2>6. verdict \in Reply \cup {NoVerdict}
      <3>1. CASE stage = "done" /\ UserSender
        <4>1. /\ verdict = [class |-> ClassOf(Ran), harms |-> HarmsOf(Ran)]
              /\ \A f \in Ran : replied[f].class \in Classes
          BY <3>1 DEF Summed, Decided
        <4>2. ClassOf(Ran) \in Classes /\ HarmsOf(Ran) \subseteq Harms
          BY <2>2, <4>1, Consistent
        <4> QED BY <4>1, <4>2 DEF Reply
      <3>2. CASE stage = "done" /\ ~UserSender
        <4>1. verdict = [class |-> "Prohibited", harms |-> {SpamGeneral, NonCompliance}]
          BY <3>2 DEF Summed, Decided
        <4>2. {SpamGeneral, NonCompliance} \subseteq Harms
          BY NamedHarms DEF Named
        <4> QED BY <4>1, <4>2 DEF Reply, Classes
      <3>3. CASE stage # "done"
        BY <2>1, <3>3 DEF Summed, Asked
      <3> QED BY <3>1, <3>2, <3>3
    <2> QED BY <2>1, <2>3, <2>4, <2>5, <2>6 DEF TypeOK, Ordered, Asked
  <1> QED BY <1>1, SummedInvariant, PTL

(* However many filters a community configures and in whatever order they  *)
(* answer, the verdict is the severest of what they said with exactly the  *)
(* harms they named, and an error never becomes a verdict.                 *)
THEOREM MostSevere == ApiSpec => []VerdictIsMostSevere
  <1>1. Ordered /\ Summed => VerdictIsMostSevere
    <2> SUFFICES ASSUME Ordered, Summed PROVE VerdictIsMostSevere
      OBVIOUS
    <2>1. stage \in {"next", "done"} => \A f \in Ran : replied[f].class \in Classes
      <3>1. CASE stage = "next"
        <4>1. Before = Ran
          BY <3>1, RanWhere
        <4> QED BY <3>1, <4>1 DEF Summed, SoFar
      <3>2. CASE stage = "done"
        BY <3>2 DEF Summed, Asked, Decided
      <3> QED BY <3>1, <3>2
    <2>2. stage \in {"next", "done"} => Said("error") \cup Said("panic") = {}
      BY <2>1 DEF Said, Classes
    <2>3. stage = "done" /\ UserSender =>
             verdict.class = ClassOf(Ran) /\ verdict.harms = HarmsOf(Ran)
      BY DEF Summed, Decided
    <2> QED BY <2>2, <2>3 DEF VerdictIsMostSevere, ClassOf, HarmsOf
  <1> QED BY <1>1, SummedInvariant, PTL

LEMMA GroupOfEarlier ==
    ASSUME Ordered, NEW e \in Ran, e \in Earlier(4)
    PROVE  GroupOf(e) < 4
  <1>1. PICK g \in 1 .. 4 : e \in Groups(community)[g]
    BY DEF Ordered
  <1>2. g < 4
    BY <1>1, EarlierIs
  <1> QED BY <1>1, <1>2, Placed

(* A timeout is started for all that is found to be spam and for nothing   *)
(* else.                                                                   *)
THEOREM SpamSilenced == ApiSpec => []SpamIsSilenced
  <1>1. Ordered /\ Summed => SpamIsSilenced
    <2> SUFFICES ASSUME Ordered, Summed PROVE SpamIsSilenced
      OBVIOUS
    <2>1. ASSUME NEW f \in Ran, GroupOf(f) = 4
          PROVE  \E e \in Said("Prohibited") : GroupOf(e) < 4
      <3>1. PICK g \in 1 .. 4 : f \in Groups(community)[g]
        BY DEF Ordered
      <3>2. g = 4
        BY <2>1, <3>1, Placed
      <3>3. PICK e \in Ran : e \in Earlier(4) /\ replied[e].class = "Prohibited"
        BY <3>1, <3>2 DEF Summed, Spam
      <3> QED BY <3>3, GroupOfEarlier DEF Said
    <2>2. stage = "done" /\ UserSender /\ verdict.class = "Prohibited" =>
             Groups(community)[4] \subseteq Ran
      BY DEF Summed, Decided
    <2> QED BY <2>1, <2>2 DEF SpamIsSilenced
  <1> QED BY <1>1, SummedInvariant, PTL

(* Whatever sources a community trusts and whatever cannot be read, listed *)
(* media passes only if its sender is vouched for and not denied.          *)
THEOREM MediaTrust == ApiSpec => []MediaNeedsTrust
  <1>1. Ordered /\ Summed => MediaNeedsTrust
    <2> SUFFICES ASSUME Ordered, Summed, NEW f \in Ran \cap {"untrusted"},
                        ~IsText(input), replied[f].class = "Neutral",
                        \/ input.type \in community.untrustedTypes
                        \/ input.type = Message /\ input.msgtype \in community.untrustedTypes
                 PROVE  /\ ~\E g \in community.deniedUsers : input.sender \in g
                        /\ Vouched(input.sender) \/ community.powerLevels
      BY DEF MediaNeedsTrust
    <2>1. replied[f] \in Replies("untrusted", community, input)
      BY DEF Summed, Asked
    <2>2. replied[f] \in UntrustedMedia(community, input)
      BY <2>1 DEF Replies
    <2> QED BY <2>2, MediaTrusted DEF Vouched
  <1> QED BY <1>1, SummedInvariant, PTL

(***************************************************************************)
(* The answer                                                              *)
(***************************************************************************)

(* What a request knows when it checks, and when it has answered.          *)
Answered ==
    /\ stored \in {NoVerdict, Neutral, Prohibited({SpamGeneral})}
    /\ IsText(input) => stored = NoVerdict
    /\ answer \in {"ok", "forbidden"} => phase = "answered"
    /\ phase = "fetching" => stored = NoVerdict
    /\ phase = "checking" => stored = NoVerdict /\ (IsText(input) \/ got = "event")
    /\ answer \in {"ok", "forbidden"} =>
          IF stored # NoVerdict
          THEN (answer = "forbidden") <=> (stored.class = "Prohibited")
          ELSE /\ stage = "done"
               /\ (answer = "forbidden") <=> (verdict.class = "Prohibited")
               /\ IsText(input) \/ got = "event"

LEMMA AnsweredAtInit == ApiInit => Answered
  BY DEF ApiInit, Answered

(* What is checked stays, and an event that was fetched is not lost.       *)
LEMMA ApiFrame ==
    ASSUME FetchInv, [ApiNext]_apiVars
    PROVE  input' = input /\ (got = "event" => got' = "event")
  <1>1. input' = input
    <2>1. CASE Next
      BY <2>1 DEF Next, RejectSender, Malformed, EnterGroup, Merge, Finish, FilterReplies, given
    <2>2. CASE UNCHANGED vars
      BY <2>2 DEF vars
    <2> QED BY <2>1, <2>2, ApiStep
  <1>2. got = "event" => got' = "event"
    <2>1. CASE StartFetch
      BY <2>1 DEF StartFetch
    <2>2. CASE FetchNext
      BY <2>2 DEF FetchNext, ServerAnswers, SendEvent, EndWorker, SendOnClosed, TakeEvent, GiveUp,
             CloseChannels, FetchInv, Staged
    <2>3. CASE UNCHANGED fetchVars
      BY <2>3 DEF fetchVars
    <2> QED BY <2>1, <2>2, <2>3, ApiStep
  <1> QED BY <1>1, <1>2

LEMMA AnsweredStep == FetchInv /\ Answered /\ [ApiNext]_apiVars => Answered'
  <1> SUFFICES ASSUME FetchInv, Answered, [ApiNext]_apiVars PROVE Answered'
    OBVIOUS
  <1>0. input' = input /\ (got = "event" => got' = "event") /\ IsText(input)' = IsText(input)
    BY ApiFrame
  <1>1. CASE Refuse \/ CheckIsCutShort
    <2>1. phase' = "answered" /\ answer' \in {"failed", "timeout"} /\ stored' = stored
      BY <1>1 DEF Refuse, CheckIsCutShort, Respond
    <2> QED BY <1>0, <2>1 DEF Answered
  <1>2. CASE CheckTextOf
    <2>1. phase = "received" /\ IsText(input) /\ phase' = "checking" /\ UNCHANGED <<stored, answer>>
      BY <1>2 DEF CheckTextOf
    <2> QED BY <1>0, <2>1 DEF Answered
  <1>3. CASE AnswerFromStorage
    <2>1. /\ stored # NoVerdict /\ phase' = "answered" /\ stored' = stored
          /\ answer' = IF stored.class = "Prohibited" THEN "forbidden" ELSE "ok"
      BY <1>3 DEF AnswerFromStorage, RenderEventResult, Respond
    <2> QED BY <1>0, <2>1 DEF Answered
  <1>4. CASE Fetch
    <2>1. phase = "received" /\ stored = NoVerdict /\ phase' = "fetching" /\ UNCHANGED <<stored, answer>>
      BY <1>4 DEF Fetch
    <2> QED BY <1>0, <2>1 DEF Answered
  <1>5. CASE CheckFetched
    <2>1. /\ phase = "fetching" /\ stored' = stored /\ got' = got
          /\ IF got = "event" THEN phase' = "checking" /\ answer' = answer
             ELSE answer' = "failed" /\ phase' = "answered"
      BY <1>5 DEF CheckFetched, Respond, fetchVars
    <2> QED BY <1>0, <2>1 DEF Answered
  <1>6. CASE Filter
    <2>1. phase = "checking" /\ UNCHANGED <<phase, stored, answer>>
      BY <1>6 DEF Filter
    <2> QED BY <1>0, <2>1 DEF Answered
  <1>7. CASE AnswerChecked
    <2>1. phase = "checking" /\ phase' = "answered" /\ UNCHANGED <<stage, verdict, stored>>
      BY <1>7 DEF AnswerChecked, RenderEventResult, Respond, vars
    <2>2. \/ stage = "done" /\ answer' = IF verdict.class = "Prohibited" THEN "forbidden" ELSE "ok"
          \/ answer' = "failed"
      BY <1>7 DEF AnswerChecked, RenderEventResult, Respond
    <2> QED BY <1>0, <2>1, <2>2 DEF Answered
  <1>8. CASE Fetching
    <2>1. UNCHANGED <<phase, stored, answer, stage, verdict>>
      BY <1>8 DEF Fetching, vars
    <2> QED BY <1>0, <2>1 DEF Answered
  <1>9. CASE UNCHANGED apiVars
    <2>1. UNCHANGED <<phase, stored, answer, stage, verdict>>
      BY <1>9 DEF apiVars, vars
    <2> QED BY <1>0, <2>1 DEF Answered
  <1> QED BY <1>1, <1>2, <1>3, <1>4, <1>5, <1>6, <1>7, <1>8, <1>9 DEF ApiNext

(* Over any servers and configurations: what the API answers is what was   *)
(* stored, or the severest of what every filter that was asked said of the *)
(* text or of an event that was fetched; never the outcome of an error.    *)
THEOREM MostSevereAnswer == ApiSpec => []AnswerIsMostSevere
  <1>1. ApiInit => FetchInv /\ Answered
    BY FetchAtInit, AnsweredAtInit DEF ApiInit
  <1>2. FetchInv /\ Answered /\ [ApiNext]_apiVars => (FetchInv /\ Answered)'
    BY ApiStep, FetchStep, AnsweredStep
  <1>3. Answered /\ Ordered /\ Summed => AnswerIsMostSevere
    <2> SUFFICES ASSUME Answered, Ordered, Summed, answer \in {"ok", "forbidden"}
                 PROVE  AnswerIsMostSevere
      BY DEF AnswerIsMostSevere
    <2>1. CASE stored # NoVerdict
      <3>1. stored.class \in Classes /\ ((answer = "forbidden") <=> (stored.class = "Prohibited"))
        BY <2>1 DEF Answered, Neutral, Prohibited, Classes
      <3> QED BY <2>1, <3>1 DEF AnswerIsMostSevere
    <2>2. CASE stored = NoVerdict
      <3>1. /\ stage = "done" /\ ((answer = "forbidden") <=> (verdict.class = "Prohibited"))
            /\ IsText(input) \/ got = "event"
        BY <2>2 DEF Answered
      <3>2. Decided /\ Asked
        BY <3>1 DEF Summed
      <3> DEFINE said == {replied[f].class : f \in Ran}
      <3>3. said \subseteq Classes
        BY <3>2 DEF Decided, Asked
      <3>4. (verdict.class = "Prohibited") <=> ("Prohibited" \in said \/ ~UserSender)
        <4>1. CASE UserSender
          <5>1. /\ verdict.class = ClassOf(Ran)
                /\ \A f \in Ran : replied[f] \in Answers /\ replied[f].class \in Classes
            BY <3>2, <4>1, RanAnswers DEF Decided
          <5>2. (ClassOf(Ran) = "Prohibited") <=> (\E f \in Ran : replied[f].class = "Prohibited")
            BY <5>1, Consistent
          <5> QED BY <4>1, <5>1, <5>2
        <4>2. CASE ~UserSender
          BY <3>2, <4>2 DEF Decided
        <4> QED BY <4>1, <4>2
      <3> QED BY <2>2, <3>1, <3>3, <3>4 DEF AnswerIsMostSevere
    <2> QED BY <2>1, <2>2
  <1> QED BY <1>1, <1>2, <1>3, SummedInvariant, PTL DEF ApiSpec
=============================================================================
