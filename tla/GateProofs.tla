----------------------------- MODULE GateProofs -----------------------------
(* What holds of the gate of idle claims for any number of workers, permits, *)
(* rows and failures: no permit is lost, and no wake.                        *)
EXTENDS IdlePollGate, FiniteSetTheorems, SequenceTheorems, WellFoundedInduction, TLAPS
-----------------------------------------------------------------------------
\* The workers in line are the parked ones, each once, and only they are assigned a
\* permit or woken.
Lined ==
  /\ \A i, j \in DOMAIN line : line[i] = line[j] => i = j
  /\ \A i \in DOMAIN line : place[line[i]] = "parked"
  /\ \A w \in Workers : place[w] = "parked" => w \in ToSet(line)
  /\ \A w \in granted \cup pinged : place[w] = "parked"

GateInv == GateTypeOK /\ Lined /\ PermitsConserved /\ due <= enqueued

\* What somebody who is not waiting has done or will do next.
Motives ==
  /\ \A w \in Workers : place[w] = "running" => afterJob[w]
  /\ \A w \in Workers : place[w] = "sleeping" => w \in holder
  /\ errors = 0 => \A w \in Workers : place[w] # "backoff"
  /\ stopping = {} => \A w \in Workers : place[w] # "exited"

\* w claims before it waits again.
WillClaim(w) ==
  \/ place[w] \in {"fetching", "running"}
  \/ place[w] = "top" /\ (afterJob[w] \/ w \in holder)
  \/ w \in granted \cup pinged

AllWake == ~quiet /\ errors = 0 /\ stopping = {} /\ Cardinality(Workers) > Claimers

\* Stronger than being awake: a worker at the top of its loop counts only when it
\* claims directly, or finds a permit or the stored wake.
Covered ==
  AllWake /\ due > 0 =>
    \/ \E w \in Workers : WillClaim(w)
    \/ (stored \/ free > 0) /\ \E w \in Workers : place[w] = "top"

WakeInv == GateInv /\ Motives /\ Covered

\* A set of positions has a first one.
LEMMA FirstPosition ==
  ASSUME NEW T \in SUBSET Nat, T # {}
  PROVE  \E x \in T : \A y \in T : x <= y
  <1>1. PICK x \in T : \A y \in T : ~(<<y, x>> \in OpToRel(<, Nat))
    BY WFMin, NatLessThanWellFounded
  <1>2. \A y \in T : ~(y < x)
    BY <1>1 DEF OpToRel
  <1> QED BY <1>2

\* FirstOutside is the first worker of the line outside S: one of the line, alone,
\* and there is none only when S has the whole line.
LEMMA FirstOutsideFacts ==
  ASSUME NEW l \in Seq(Workers), NEW S
  PROVE  \/ FirstOutside(l, S) = {} /\ \A i \in DOMAIN l : l[i] \in S
         \/ \E i \in DOMAIN l : FirstOutside(l, S) = {l[i]} /\ l[i] \notin S
  <1> DEFINE Out == {i \in DOMAIN l : l[i] \notin S}
  <1>1. DOMAIN l = 1..Len(l) /\ Len(l) \in Nat
    OBVIOUS
  <1>2. CASE Out = {}
    BY <1>2 DEF FirstOutside
  <1>3. CASE Out # {}
    <2>1. PICK i \in Out : \A j \in Out : i <= j
      <3>1. Out \in SUBSET Nat
        BY <1>1
      <3> HIDE DEF Out
      <3> QED BY <1>3, <3>1, FirstPosition
    <2>2. \A k \in 1..(i - 1) : l[k] \in S
      BY <1>1, <2>1
    <2>3. \A j \in DOMAIN l : l[j] \notin S /\ (\A k \in 1..(j - 1) : l[k] \in S) => j = i
      BY <1>1, <2>1
    <2>4. FirstOutside(l, S) = {l[i]}
      BY <2>1, <2>2, <2>3 DEF FirstOutside
    <2> QED BY <2>1, <2>4
  <1> QED BY <1>2, <1>3

\* A worker leaves the line: the others stay in it, in their order.
LEMMA RemoveAtFacts ==
  ASSUME NEW S, NEW l \in Seq(S), NEW i \in DOMAIN l
  PROVE  /\ RemoveAt(l, i) \in Seq(S)
         /\ Len(RemoveAt(l, i)) = Len(l) - 1
         /\ \A j \in DOMAIN RemoveAt(l, i) :
              RemoveAt(l, i)[j] = IF j < i THEN l[j] ELSE l[j + 1]
  <1>1. DOMAIN l = 1..Len(l) /\ Len(l) \in Nat
    OBVIOUS
  <1> DEFINE a == SubSeq(l, 1, i - 1)
             b == SubSeq(l, i + 1, Len(l))
  <1>2. a \in Seq(S) /\ Len(a) = i - 1 /\ \A j \in 1..(i - 1) : a[j] = l[j]
    BY <1>1, SubSeqProperties
  <1>3. b \in Seq(S) /\ Len(b) = Len(l) - i /\ \A j \in 1..(Len(l) - i) : b[j] = l[i + j]
    BY <1>1, SubSeqProperties, SMTT(30)
  <1> HIDE DEF a, b
  <1>4. /\ a \o b \in Seq(S) /\ Len(a \o b) = Len(a) + Len(b)
        /\ \A j \in 1..(Len(a) + Len(b)) : (a \o b)[j] = IF j <= Len(a) THEN a[j] ELSE b[j - Len(a)]
    BY <1>2, <1>3, ConcatProperties
  <1>5. Len(a \o b) = Len(l) - 1 /\ DOMAIN (a \o b) = 1..(Len(l) - 1)
    <2>1. Len(a) + Len(b) = Len(l) - 1
      BY <1>1, <1>2, <1>3
    <2>2. DOMAIN (a \o b) = 1..Len(a \o b)
      BY <1>4, LenProperties
    <2> QED BY <1>4, <2>1, <2>2
  <1>6. ASSUME NEW j \in 1..(Len(l) - 1)
        PROVE  (a \o b)[j] = IF j < i THEN l[j] ELSE l[j + 1]
    <2>1. CASE j < i
      BY <1>1, <1>2, <1>3, <1>4, <2>1
    <2>2. CASE ~(j < i)
      <3>1. (a \o b)[j] = b[j - (i - 1)] /\ j - (i - 1) \in 1..(Len(l) - i)
        BY <1>1, <1>2, <1>3, <1>4, <2>2, SMTT(30)
      <3>2. b[j - (i - 1)] = l[i + (j - (i - 1))] /\ i + (j - (i - 1)) = j + 1
        BY <1>1, <1>3, <3>1
      <3> QED BY <2>2, <3>1, <3>2
    <2> QED BY <2>1, <2>2
  <1> QED BY <1>4, <1>5, <1>6 DEF RemoveAt, a, b

\* Sets of workers are finite.
LEMMA WorkerSets ==
  ASSUME NEW S \in SUBSET Workers
  PROVE  IsFiniteSet(S) /\ Cardinality(S) \in Nat
  BY GateAssumption, FS_Subset, FS_CardinalityType

\* A permit that comes back is assigned or free again, whoever gets it.
LEMMA GivePermitsFacts ==
  ASSUME free \in Nat, NEW n \in {0, 1}, NEW l \in Seq(Workers),
         NEW held \in SUBSET Workers, NEW g \in SUBSET Workers, GivePermits(n, l, held, g)
  PROVE  /\ holder' = held
         /\ granted' \in SUBSET Workers
         /\ \A v \in granted' : v \in g \/ v \in ToSet(l)
         /\ g \subseteq granted'
         /\ free' \in Nat
         /\ free' + Cardinality(granted') = free + n + Cardinality(g)
  <1> DEFINE to == IF n = 0 THEN {} ELSE FirstOutside(l, g)
  <1>1. /\ holder' = held /\ granted' = g \cup to
        /\ free' = IF n = 1 /\ to = {} THEN free + 1 ELSE free
    BY DEF GivePermits
  <1>2. IsFiniteSet(g) /\ Cardinality(g) \in Nat
    BY WorkerSets
  <1>3. CASE to = {}
    <2>1. granted' = g
      BY <1>1, <1>3
    <2>2. free' = free + n
      BY <1>1, <1>3
    <2>3. n \in Nat /\ free \in Nat
      OBVIOUS
    <2>4. free' \in Nat /\ free' + Cardinality(granted') = free + n + Cardinality(g)
      BY <1>2, <2>1, <2>2, <2>3
    <2> QED BY <1>1, <2>1, <2>4
  <1>4. CASE to # {}
    <2>1. n = 1 /\ to = FirstOutside(l, g)
      BY <1>4
    <2>2. PICK i \in DOMAIN l : to = {l[i]} /\ l[i] \notin g
      BY <1>4, <2>1, FirstOutsideFacts
    <2>3. l[i] \in Workers /\ l[i] \in ToSet(l)
      BY <2>2 DEF ToSet
    <2>4. Cardinality(granted') = Cardinality(g) + 1
      BY <1>1, <1>2, <2>2, FS_AddElement
    <2>5. free' = free
      BY <1>1, <1>4
    <2> QED BY <1>1, <1>2, <2>1, <2>2, <2>3, <2>4, <2>5
  <1> QED BY <1>3, <1>4

\* A wake reaches somebody in line, or is stored.
LEMMA NotifyFacts ==
  ASSUME stored \in BOOLEAN, NEW b \in BOOLEAN, NEW l \in Seq(Workers),
         NEW p \in SUBSET Workers, Notify(b, l, p)
  PROVE  /\ pinged' \in SUBSET Workers
         /\ \A v \in pinged' : v \in p \/ v \in ToSet(l)
         /\ p \subseteq pinged'
         /\ stored' \in BOOLEAN
         /\ stored => stored'
         /\ b => stored' \/ pinged' # {}
         /\ b /\ ToSet(l) # {} => pinged' # {}
  <1> DEFINE to == IF b THEN FirstOutside(l, p) ELSE {}
  <1>1. /\ pinged' = p \cup to
        /\ stored' = IF b /\ to = {} THEN TRUE ELSE stored
    BY DEF Notify
  <1>2. CASE to = {}
    <2>1. b => \A i \in DOMAIN l : l[i] \in p
      <3>1. b => FirstOutside(l, p) = {}
        BY <1>2
      <3>2. FirstOutside(l, p) = {} => \A i \in DOMAIN l : l[i] \in p
        <4>1. ASSUME NEW i \in DOMAIN l, FirstOutside(l, p) = {l[i]}
              PROVE  FirstOutside(l, p) # {}
          BY <4>1
        <4> QED BY <4>1, FirstOutsideFacts
      <3> QED BY <3>1, <3>2
    <2>2. b /\ ToSet(l) # {} => p # {}
      BY <2>1 DEF ToSet
    <2> QED BY <1>1, <1>2, <2>2
  <1>3. CASE to # {}
    <2>1. b /\ to = FirstOutside(l, p)
      BY <1>3
    <2>2. PICK i \in DOMAIN l : to = {l[i]}
      BY <1>3, <2>1, FirstOutsideFacts
    <2>3. l[i] \in Workers /\ l[i] \in ToSet(l)
      BY <2>2 DEF ToSet
    <2> QED BY <1>1, <1>3, <2>2, <2>3
  <1> QED BY <1>2, <1>3

\* drop(permit.take()) gives back what the worker held, once.
LEMMA DropPermitFacts ==
  ASSUME GateInv, NEW w \in Workers, DropPermit(w)
  PROVE  /\ holder' = holder \ {w}
         /\ granted' \in SUBSET Workers
         /\ \A v \in granted' : v \in granted \/ v \in ToSet(line)
         /\ free' \in 0..Claimers
         /\ free' + Cardinality(holder') + Cardinality(granted') = Claimers
         /\ granted \subseteq granted'
  <1>1. /\ free \in Nat /\ line \in Seq(Workers)
        /\ holder \in SUBSET Workers /\ granted \in SUBSET Workers
    BY DEF GateInv, GateTypeOK
  <1>2. One(w \in holder) \in {0, 1}
    BY DEF One
  <1>3. /\ holder' = holder \ {w}
        /\ granted' \in SUBSET Workers
        /\ \A v \in granted' : v \in granted \/ v \in ToSet(line)
        /\ granted \subseteq granted'
        /\ free' \in Nat
        /\ free' + Cardinality(granted') = free + One(w \in holder) + Cardinality(granted)
    BY <1>1, <1>2, GivePermitsFacts DEF DropPermit
  <1>4. /\ Cardinality(holder) \in Nat /\ Cardinality(holder') \in Nat
        /\ Cardinality(granted) \in Nat /\ Cardinality(granted') \in Nat
        /\ IsFiniteSet(holder)
    BY <1>1, <1>3, WorkerSets
  <1>5. Cardinality(holder') = Cardinality(holder) - One(w \in holder)
    <2>1. Cardinality(holder \ {w}) = IF w \in holder THEN Cardinality(holder) - 1 ELSE Cardinality(holder)
      BY <1>4, FS_RemoveElement
    <2>2. CASE w \in holder
      BY <1>3, <2>1, <2>2 DEF One
    <2>3. CASE w \notin holder
      BY <1>3, <1>4, <2>1, <2>3 DEF One
    <2> QED BY <2>2, <2>3
  <1>6. free + Cardinality(holder) + Cardinality(granted) = Claimers
    BY DEF GateInv, PermitsConserved
  <1>7. free' + Cardinality(holder') + Cardinality(granted') = Claimers
    <2> DEFINE n == One(w \in holder)
    <2>1. n \in {0, 1} /\ free' + Cardinality(granted') = free + n + Cardinality(granted)
          /\ Cardinality(holder') = Cardinality(holder) - n
      BY <1>2, <1>3, <1>5
    <2>2. n \in Nat /\ free \in Nat /\ Claimers \in Nat /\ free' \in Nat
      BY <1>1, <1>2, <1>3, GateAssumption
    <2> HIDE DEF n
    <2> QED BY <1>4, <1>6, <2>1, <2>2
  <1>8. free' \in 0..Claimers
    BY <1>3, <1>4, <1>7, GateAssumption
  <1> QED BY <1>3, <1>7, <1>8

\* A worker outside the line moves outside it: the line stays what it was.
LEMMA LinedKept ==
  ASSUME GateInv, UNCHANGED line, NEW w \in Workers, place[w] # "parked",
         NEW p, p # "parked", place' = [place EXCEPT ![w] = p],
         \A v \in granted' : v \in granted \/ v \in ToSet(line),
         \A v \in pinged' : v \in pinged \/ v \in ToSet(line)
  PROVE  Lined'
  <1>1. /\ place \in [Workers -> {place[v] : v \in Workers}] /\ line \in Seq(Workers)
        /\ granted \in SUBSET Workers /\ pinged \in SUBSET Workers
    BY DEF GateInv, GateTypeOK
  <1>2. \A v \in Workers : place[v] = "parked" => v # w /\ place'[v] = "parked"
    BY <1>1
  <1>3. \A v \in Workers : place'[v] = "parked" => place[v] = "parked"
    BY <1>1
  <1>4. \A i \in DOMAIN line : line[i] \in Workers /\ place[line[i]] = "parked"
    BY <1>1 DEF GateInv, Lined
  <1>5. \A v \in ToSet(line) : v \in Workers /\ place[v] = "parked"
    BY <1>4 DEF ToSet
  <1>6. \A v \in granted \cup pinged : v \in Workers /\ place[v] = "parked"
    BY <1>1 DEF GateInv, Lined
  <1> QED BY <1>2, <1>3, <1>4, <1>5, <1>6 DEF GateInv, Lined, ToSet

\* Nobody has come yet, or everybody is gone: all permits are free.
LEMMA GateInitInv ==
  ASSUME NEW p \in {"top", "exited"}, GateInitAt(p)
  PROVE  GateInv
  <1>1. GateTypeOK
    <2>1. line \in Seq(Workers)
      BY EmptySeq DEF GateInitAt
    <2>2. free \in 0..Claimers /\ due \in 0..MaxRows /\ enqueued \in 0..MaxRows /\ errors \in 0..MaxErrors
      BY GateAssumption DEF GateInitAt
    <2> QED BY <2>1, <2>2 DEF GateInitAt, GateTypeOK
  <1>2. Lined
    <2>1. DOMAIN line = {}
      BY DEF GateInitAt
    <2> QED BY <2>1 DEF GateInitAt, Lined
  <1>3. PermitsConserved
    BY FS_EmptySet, GateAssumption DEF GateInitAt, PermitsConserved
  <1> QED BY <1>1, <1>2, <1>3 DEF GateInv, GateInitAt

\* The first worker in line gets what another leaves behind; all others wait on.
LEMMA LinedAfterUnpark ==
  ASSUME GateInv, NEW w \in Workers, NEW i \in DOMAIN line, line[i] = w,
         line' = RemoveAt(line, i), NEW p, p # "parked", place' = [place EXCEPT ![w] = p],
         \A v \in granted' : v \in granted \ {w} \/ v \in ToSet(RemoveAt(line, i)),
         \A v \in pinged' : v \in pinged \ {w} \/ v \in ToSet(RemoveAt(line, i))
  PROVE  Lined'
  <1> DEFINE rest == RemoveAt(line, i)
  <1>1. /\ place \in [Workers -> {place[v] : v \in Workers}] /\ line \in Seq(Workers)
        /\ granted \in SUBSET Workers /\ pinged \in SUBSET Workers
    BY DEF GateInv, GateTypeOK
  <1>2. /\ rest \in Seq(Workers) /\ Len(rest) = Len(line) - 1
        /\ \A j \in DOMAIN rest : rest[j] = IF j < i THEN line[j] ELSE line[j + 1]
    BY <1>1, RemoveAtFacts
  <1> HIDE DEF rest
  <1>3. DOMAIN line = 1..Len(line) /\ Len(line) \in Nat /\ DOMAIN rest = 1..(Len(line) - 1)
    BY <1>1, <1>2
  <1>4. ASSUME NEW j \in DOMAIN rest
        PROVE  \E k \in DOMAIN line : /\ k # i /\ rest[j] = line[k]
                                     /\ k = IF j < i THEN j ELSE j + 1
    BY <1>2, <1>3
  <1>5. ASSUME NEW k \in DOMAIN line, k # i
        PROVE  \E j \in DOMAIN rest : rest[j] = line[k]
    <2>1. CASE k < i
      <3>1. k \in DOMAIN rest
        BY <1>3, <1>5, <2>1
      <3> QED BY <1>2, <2>1, <3>1
    <2>2. CASE ~(k < i)
      <3>1. k - 1 \in DOMAIN rest /\ ~(k - 1 < i) /\ (k - 1) + 1 = k
        BY <1>3, <1>5, <2>2
      <3> QED BY <1>2, <3>1
    <2> QED BY <2>1, <2>2
  <1>6. \A j, k \in DOMAIN line : line[j] = line[k] => j = k
    BY DEF GateInv, Lined
  <1>7. \A j, k \in DOMAIN rest : rest[j] = rest[k] => j = k
    <2> SUFFICES ASSUME NEW j \in DOMAIN rest, NEW k \in DOMAIN rest, rest[j] = rest[k]
                 PROVE  j = k
      OBVIOUS
    <2> DEFINE P(n) == IF n < i THEN n ELSE n + 1
    <2>1. P(j) \in DOMAIN line /\ P(k) \in DOMAIN line /\ rest[j] = line[P(j)] /\ rest[k] = line[P(k)]
      BY <1>4
    <2>2. P(j) = P(k)
      <3> HIDE DEF P
      <3> QED BY <1>6, <2>1
    <2> QED BY <1>3, <2>2
  <1>8. \A j \in DOMAIN rest : rest[j] # w /\ rest[j] \in Workers /\ place[rest[j]] = "parked"
    BY <1>1, <1>4, <1>6 DEF GateInv, Lined
  <1>9. \A v \in Workers : v # w => place'[v] = place[v]
    BY <1>1
  <1>10. place'[w] # "parked"
    BY <1>1
  <1>11. \A v \in Workers : place'[v] = "parked" => v \in ToSet(rest)
    <2> SUFFICES ASSUME NEW v \in Workers, place'[v] = "parked"
                 PROVE  v \in ToSet(rest)
      OBVIOUS
    <2>1. v # w /\ place[v] = "parked"
      BY <1>9, <1>10
    <2>2. PICK k \in DOMAIN line : line[k] = v
      BY <2>1 DEF GateInv, Lined, ToSet
    <2> QED BY <1>5, <2>1, <2>2 DEF ToSet
  <1>12. \A v \in ToSet(rest) : place'[v] = "parked"
    BY <1>8, <1>9 DEF ToSet
  <1>13. \A v \in granted' \cup pinged' : place'[v] = "parked"
    BY <1>1, <1>9, <1>12 DEF rest, GateInv, Lined
  <1>14. line' = rest
    BY DEF rest
  <1>15. \A j \in DOMAIN rest : place'[rest[j]] = "parked"
    BY <1>8, <1>9
  <1> QED BY <1>7, <1>11, <1>13, <1>14, <1>15 DEF Lined

\* What the permits are counted with.
LEMMA PermitCounts ==
  ASSUME GateInv
  PROVE  /\ IsFiniteSet(holder) /\ IsFiniteSet(granted)
         /\ Cardinality(holder) \in Nat /\ Cardinality(granted) \in Nat
         /\ free \in Nat /\ Claimers \in Nat
         /\ free + Cardinality(holder) + Cardinality(granted) = Claimers
  <1>1. holder \in SUBSET Workers /\ granted \in SUBSET Workers /\ free \in Nat
    BY DEF GateInv, GateTypeOK
  <1>2. free + Cardinality(holder) + Cardinality(granted) = Claimers
    BY DEF GateInv, PermitsConserved
  <1> QED BY <1>1, <1>2, WorkerSets, GateAssumption

\* A worker that parks is the last in line.
LEMMA LinedAfterPark ==
  ASSUME GateInv, NEW w \in Workers, place[w] = "top", line' = Append(line, w),
         place' = [place EXCEPT ![w] = "parked"], UNCHANGED <<granted, pinged>>
  PROVE  Lined'
  <1>1. /\ place \in [Workers -> {place[v] : v \in Workers}] /\ line \in Seq(Workers)
        /\ granted \in SUBSET Workers /\ pinged \in SUBSET Workers
    BY DEF GateInv, GateTypeOK
  <1>2. /\ DOMAIN line = 1..Len(line) /\ Len(line) \in Nat
        /\ DOMAIN line' = 1..(Len(line) + 1)
        /\ \A j \in 1..Len(line) : line'[j] = line[j]
        /\ line'[Len(line) + 1] = w
    BY <1>1, AppendProperties
  <1>3. \A j \in DOMAIN line : line[j] # w /\ line[j] \in Workers /\ place[line[j]] = "parked"
    BY <1>1 DEF GateInv, Lined
  <1>4. \A j, k \in DOMAIN line' : line'[j] = line'[k] => j = k
    <2>1. \A j, k \in DOMAIN line : line[j] = line[k] => j = k
      BY DEF GateInv, Lined
    <2> QED BY <1>2, <1>3, <2>1
  <1>5. \A v \in Workers : place[v] = "parked" => v # w /\ place'[v] = "parked"
    BY <1>1
  <1>6. place'[w] = "parked" /\ \A v \in Workers : place'[v] = "parked" /\ v # w => place[v] = "parked"
    BY <1>1
  <1>7. \A j \in DOMAIN line' : place'[line'[j]] = "parked"
    BY <1>2, <1>3, <1>5, <1>6
  <1>8. \A v \in Workers : place'[v] = "parked" => v \in ToSet(line')
    <2> SUFFICES ASSUME NEW v \in Workers, place'[v] = "parked"
                 PROVE  \E j \in DOMAIN line' : line'[j] = v
      BY DEF ToSet
    <2>1. CASE v = w
      BY <1>2, <2>1
    <2>2. CASE v # w
      <3>1. PICK j \in DOMAIN line : line[j] = v
        BY <1>6, <2>2 DEF GateInv, Lined, ToSet
      <3> QED BY <1>2, <3>1
    <2> QED BY <2>1, <2>2
  <1>9. \A v \in granted' \cup pinged' : place'[v] = "parked"
    BY <1>1, <1>5 DEF GateInv, Lined
  <1> QED BY <1>4, <1>7, <1>8, <1>9 DEF Lined

\* admit_claim of a worker that is not parked.
LEMMA GateAdmit ==
  ASSUME GateInv, NEW w \in Workers, AdmitDirectly(w) \/ AdmitPoll(w)
  PROVE  GateInv'
  <1>1. CASE AdmitDirectly(w)
    <2>1. GateTypeOK'
      BY <1>1 DEF AdmitDirectly, Go, GateInv, GateTypeOK
    <2>2. Lined'
      BY <1>1, LinedKept DEF AdmitDirectly, Go
    <2>3. PermitsConserved'
      BY <1>1 DEF AdmitDirectly, Go, GateInv, GateTypeOK, PermitsConserved
    <2> QED BY <1>1, <2>1, <2>2, <2>3 DEF GateInv, AdmitDirectly
  <1>2. CASE AdmitPoll(w)
    <2>0. /\ place[w] = "top" /\ w \notin holder
          /\ UNCHANGED <<afterJob, granted, pinged, stopping, due, enqueued, errors, quiet>>
      BY <1>2 DEF AdmitPoll
    <2>1. CASE Go(w, "exited") /\ UNCHANGED <<line, free, holder, stored>>
      <3>1. GateTypeOK'
        BY <2>0, <2>1 DEF Go, GateInv, GateTypeOK
      <3>2. Lined'
        BY <2>0, <2>1, LinedKept DEF Go
      <3>3. PermitsConserved'
        BY <2>0, <2>1 DEF Go, GateInv, GateTypeOK, PermitsConserved
      <3> QED BY <2>0, <3>1, <3>2, <3>3 DEF GateInv
    <2>2. CASE /\ free > 0 /\ free' = free - 1 /\ holder' = holder \cup {w}
               /\ Go(w, "fetching") /\ UNCHANGED <<line, stored>>
      <3>1. Cardinality(holder') = Cardinality(holder) + 1
        BY <2>0, <2>2, PermitCounts, FS_AddElement
      <3>2. free' \in 0..Claimers /\ free' + Cardinality(holder') + Cardinality(granted') = Claimers
        <4>1. granted' = granted
          BY <2>0
        <4>2. free' \in Nat /\ free' = free - 1
          BY <2>2, PermitCounts
        <4> QED BY <3>1, <4>1, <4>2, PermitCounts
      <3>3. GateTypeOK'
        BY <2>0, <2>2, <3>2 DEF Go, GateInv, GateTypeOK
      <3>4. Lined'
        BY <2>0, <2>2, LinedKept DEF Go
      <3>5. \A v \in holder' : place'[v] \in {"top", "fetching", "sleeping"}
        BY <2>0, <2>2 DEF Go, GateInv, GateTypeOK, PermitsConserved
      <3> QED BY <2>0, <3>2, <3>3, <3>4, <3>5 DEF GateInv, PermitsConserved
    <2>3. CASE /\ stored' = FALSE /\ Go(w, "fetching") /\ UNCHANGED <<line, free, holder>>
      <3>1. GateTypeOK'
        BY <2>0, <2>3 DEF Go, GateInv, GateTypeOK
      <3>2. Lined'
        BY <2>0, <2>3, LinedKept DEF Go
      <3>3. PermitsConserved'
        BY <2>0, <2>3 DEF Go, GateInv, GateTypeOK, PermitsConserved
      <3> QED BY <2>0, <3>1, <3>2, <3>3 DEF GateInv
    <2>4. CASE /\ line' = Append(line, w) /\ Go(w, "parked") /\ UNCHANGED <<free, holder, stored>>
      <3>1. line' \in Seq(Workers)
        BY <2>4, AppendProperties DEF GateInv, GateTypeOK
      <3>2. GateTypeOK'
        BY <2>0, <2>4, <3>1 DEF Go, GateInv, GateTypeOK
      <3>3. Lined'
        BY <2>0, <2>4, LinedAfterPark DEF Go
      <3>4. PermitsConserved'
        BY <2>0, <2>4 DEF Go, GateInv, GateTypeOK, PermitsConserved
      <3> QED BY <2>0, <3>2, <3>3, <3>4 DEF GateInv
    <2> QED BY <1>2, <2>1, <2>2, <2>3, <2>4 DEF AdmitPoll
  <1> QED BY <1>1, <1>2

\* A parked worker goes on, or away: what it does not use is passed on.
LEMMA GateUnpark ==
  ASSUME GateInv, NEW w \in Workers, Unpark(w)
  PROVE  GateInv'
  <1>0. PICK i \in DOMAIN line :
          LET rest == RemoveAt(line, i) IN
          /\ place[w] = "parked" /\ line[i] = w
          /\ line' = rest
          /\ \/ /\ w \in stopping
                /\ GivePermits(One(w \in granted), rest, holder, granted \ {w})
                /\ Notify(w \in pinged, rest, pinged \ {w})
                /\ Go(w, "exited")
             \/ /\ w \notin stopping /\ w \in granted
                /\ GivePermits(0, rest, holder \cup {w}, granted \ {w})
                /\ Notify(w \in pinged, rest, pinged \ {w})
                /\ Go(w, "fetching")
             \/ /\ w \notin stopping /\ w \notin granted /\ w \in pinged
                /\ pinged' = pinged \ {w}
                /\ Go(w, "fetching")
                /\ UNCHANGED <<free, holder, granted, stored>>
          /\ UNCHANGED <<afterJob, stopping, due, enqueued, errors, quiet>>
    BY DEF Unpark
  <1> DEFINE rest == RemoveAt(line, i)
  <1>1. /\ free \in Nat /\ line \in Seq(Workers) /\ stored \in BOOLEAN
        /\ holder \in SUBSET Workers /\ granted \in SUBSET Workers /\ pinged \in SUBSET Workers
    BY DEF GateInv, GateTypeOK
  <1>2. rest \in Seq(Workers)
    BY <1>1, RemoveAtFacts
  <1>3. w \notin holder
    BY <1>0 DEF GateInv, PermitsConserved
  <1>4. Cardinality(granted \ {w}) = Cardinality(granted) - One(w \in granted)
        /\ One(w \in granted) \in {0, 1}
    <2>1. Cardinality(granted \ {w}) = IF w \in granted THEN Cardinality(granted) - 1 ELSE Cardinality(granted)
      BY PermitCounts, FS_RemoveElement
    <2>2. CASE w \in granted
      BY <2>1, <2>2 DEF One
    <2>3. CASE w \notin granted
      BY <2>1, <2>3, PermitCounts DEF One
    <2> QED BY <2>2, <2>3
  <1> HIDE DEF rest
  <1>5. ASSUME /\ granted' \in SUBSET Workers /\ pinged' \in SUBSET Workers /\ stored' \in BOOLEAN
               /\ \A v \in granted' : v \in granted \ {w} \/ v \in ToSet(rest)
               /\ \A v \in pinged' : v \in pinged \ {w} \/ v \in ToSet(rest),
               NEW p \in {"exited", "fetching"}, Go(w, p),
               holder' = holder \/ (holder' = holder \cup {w} /\ p = "fetching"),
               free' \in Nat,
               free' + Cardinality(holder') + Cardinality(granted') = Claimers
        PROVE  GateInv'
    <2>1. Lined'
      BY <1>0, <1>5, LinedAfterUnpark DEF Go, rest
    <2>2. holder' \in SUBSET Workers
      BY <1>1, <1>5
    <2>3. free' \in 0..Claimers
      BY <1>5, <2>2, WorkerSets, GateAssumption
    <2>4. line' \in Seq(Workers)
      BY <1>0, <1>2 DEF rest
    <2>5. GateTypeOK'
      BY <1>0, <1>5, <2>2, <2>3, <2>4 DEF Go, GateInv, GateTypeOK
    <2>6. \A v \in holder' : place'[v] \in {"top", "fetching", "sleeping"}
      BY <1>3, <1>5 DEF Go, GateInv, GateTypeOK, PermitsConserved
    <2> QED BY <1>0, <1>5, <2>1, <2>5, <2>6 DEF GateInv, PermitsConserved
  <1>6. CASE /\ GivePermits(One(w \in granted), rest, holder, granted \ {w})
             /\ Notify(w \in pinged, rest, pinged \ {w})
             /\ Go(w, "exited")
    <2>1. /\ holder' = holder /\ granted' \in SUBSET Workers /\ free' \in Nat
          /\ \A v \in granted' : v \in granted \ {w} \/ v \in ToSet(rest)
          /\ free' + Cardinality(granted') = free + One(w \in granted) + Cardinality(granted \ {w})
      BY <1>1, <1>2, <1>4, <1>6, GivePermitsFacts, SMTT(30)
    <2>2. /\ pinged' \in SUBSET Workers /\ stored' \in BOOLEAN
          /\ \A v \in pinged' : v \in pinged \ {w} \/ v \in ToSet(rest)
      <3> DEFINE b == w \in pinged
                 p == pinged \ {w}
      <3>1. b \in BOOLEAN /\ p \in SUBSET Workers /\ Notify(b, rest, p)
        BY <1>1, <1>6
      <3> HIDE DEF b, p
      <3>2. /\ pinged' \in SUBSET Workers /\ stored' \in BOOLEAN
            /\ \A v \in pinged' : v \in p \/ v \in ToSet(rest)
        BY <1>1, <1>2, <3>1, NotifyFacts
      <3> QED BY <3>2 DEF p
    <2>3. free' + Cardinality(holder') + Cardinality(granted') = Claimers
      <3> DEFINE n == One(w \in granted)
      <3>1. Cardinality(granted') \in Nat /\ Cardinality(granted \ {w}) \in Nat
        BY <1>1, <2>1, WorkerSets
      <3>2. n \in Nat /\ Cardinality(granted \ {w}) = Cardinality(granted) - n
            /\ free' + Cardinality(granted') = free + n + Cardinality(granted \ {w})
        BY <1>4, <2>1
      <3> HIDE DEF n
      <3>3. free' + Cardinality(granted') = free + Cardinality(granted)
        BY <2>1, <3>1, <3>2, PermitCounts
      <3>4. Cardinality(holder') = Cardinality(holder) /\ free' \in Nat
        BY <2>1
      <3> QED BY <3>1, <3>3, <3>4, PermitCounts
    <2> QED BY <1>5, <1>6, <2>1, <2>2, <2>3
  <1>7. CASE /\ w \in granted
             /\ GivePermits(0, rest, holder \cup {w}, granted \ {w})
             /\ Notify(w \in pinged, rest, pinged \ {w})
             /\ Go(w, "fetching")
    <2>1. /\ holder' = holder \cup {w} /\ granted' \in SUBSET Workers /\ free' \in Nat
          /\ \A v \in granted' : v \in granted \ {w} \/ v \in ToSet(rest)
          /\ free' + Cardinality(granted') = free + 0 + Cardinality(granted \ {w})
      <3> DEFINE h == holder \cup {w}
                 g == granted \ {w}
      <3>1. h \in SUBSET Workers /\ g \in SUBSET Workers /\ GivePermits(0, rest, h, g) /\ 0 \in {0, 1}
        BY <1>1, <1>7
      <3> HIDE DEF h, g
      <3>2. /\ holder' = h /\ granted' \in SUBSET Workers /\ free' \in Nat
            /\ \A v \in granted' : v \in g \/ v \in ToSet(rest)
            /\ free' + Cardinality(granted') = free + 0 + Cardinality(g)
        BY <1>1, <1>2, <3>1, GivePermitsFacts
      <3> QED BY <3>2 DEF h, g
    <2>2. /\ pinged' \in SUBSET Workers /\ stored' \in BOOLEAN
          /\ \A v \in pinged' : v \in pinged \ {w} \/ v \in ToSet(rest)
      <3> DEFINE b == w \in pinged
                 p == pinged \ {w}
      <3>1. b \in BOOLEAN /\ p \in SUBSET Workers /\ Notify(b, rest, p)
        BY <1>1, <1>7
      <3> HIDE DEF b, p
      <3>2. /\ pinged' \in SUBSET Workers /\ stored' \in BOOLEAN
            /\ \A v \in pinged' : v \in p \/ v \in ToSet(rest)
        BY <1>1, <1>2, <3>1, NotifyFacts
      <3> QED BY <3>2 DEF p
    <2>3. free' + Cardinality(holder') + Cardinality(granted') = Claimers
      <3>1. Cardinality(granted') \in Nat /\ Cardinality(granted \ {w}) = Cardinality(granted) - 1
        BY <1>1, <1>4, <1>7, <2>1, WorkerSets DEF One
      <3>2. Cardinality(holder') = Cardinality(holder) + 1
        BY <1>3, <2>1, PermitCounts, FS_AddElement
      <3>3. free' \in Nat /\ free' + Cardinality(granted') = free + Cardinality(granted) - 1
        BY <2>1, <3>1, PermitCounts
      <3> QED BY <3>1, <3>2, <3>3, PermitCounts
    <2> QED BY <1>5, <1>7, <2>1, <2>2, <2>3
  <1>8. CASE /\ w \notin granted
             /\ pinged' = pinged \ {w}
             /\ Go(w, "fetching")
             /\ UNCHANGED <<free, holder, granted, stored>>
    <2>1. free' + Cardinality(holder') + Cardinality(granted') = Claimers
      BY <1>8, PermitCounts
    <2> QED BY <1>1, <1>5, <1>8, <2>1
  <1> QED BY <1>0, <1>6, <1>7, <1>8 DEF rest

\* A worker that drops its permit and goes to a place outside the line.
LEMMA GateDrop ==
  ASSUME GateInv, NEW w \in Workers, place[w] # "parked", DropPermit(w),
         NEW p \in {"running", "backoff", "exited"}, Go(w, p),
         UNCHANGED <<line, pinged, stored, stopping, enqueued, quiet>>,
         afterJob' \in [Workers -> BOOLEAN], due' \in 0..MaxRows, due' <= enqueued',
         errors' \in 0..MaxErrors
  PROVE  GateInv'
  <1>1. /\ holder' = holder \ {w} /\ granted' \in SUBSET Workers /\ free' \in 0..Claimers
        /\ \A v \in granted' : v \in granted \/ v \in ToSet(line)
        /\ free' + Cardinality(holder') + Cardinality(granted') = Claimers
    BY DropPermitFacts
  <1>2. GateTypeOK'
    BY <1>1 DEF Go, GateInv, GateTypeOK
  <1>3. Lined'
    BY <1>1, LinedKept DEF Go
  <1>4. \A v \in holder' : place'[v] \in {"top", "fetching", "sleeping"}
    BY <1>1 DEF Go, GateInv, GateTypeOK, PermitsConserved
  <1> QED BY <1>1, <1>2, <1>3, <1>4 DEF GateInv, PermitsConserved

\* The rest of job_worker's loop.
LEMMA GateLoop ==
  ASSUME GateInv, NEW w \in Workers,
         FetchJob(w) \/ FetchNone(w) \/ TickError(w) \/ Resume(w) \/ Shutdown(w) \/ Break(w)
  PROVE  GateInv'
  <1>0. /\ due \in Nat /\ enqueued \in Nat /\ due <= enqueued /\ enqueued <= MaxRows
        /\ due \in 0..MaxRows /\ errors \in 0..MaxErrors /\ errors \in Nat
        /\ MaxRows \in Nat /\ MaxErrors \in Nat
    BY GateAssumption DEF GateInv, GateTypeOK
  <1>a. afterJob \in [Workers -> BOOLEAN]
    BY DEF GateInv, GateTypeOK
  <1>1. CASE FetchJob(w)
    <2>1. due' \in 0..MaxRows /\ due' <= enqueued' /\ errors' \in 0..MaxErrors
      BY <1>0, <1>1 DEF FetchJob
    <2>2. afterJob' \in [Workers -> BOOLEAN]
      BY <1>a, <1>1 DEF FetchJob
    <2> QED BY <1>1, <2>1, <2>2, GateDrop DEF FetchJob
  <1>2. CASE FetchNone(w)
    <2>1. /\ place' = [place EXCEPT ![w] = IF w \in holder THEN "sleeping" ELSE "top"]
          /\ place[w] = "fetching" /\ afterJob' \in [Workers -> BOOLEAN]
          /\ UNCHANGED <<line, free, holder, granted, pinged, stored, stopping, due, enqueued, errors, quiet>>
      BY <1>a, <1>2 DEF FetchNone, Go
    <2>2. GateTypeOK'
      BY <2>1 DEF GateInv, GateTypeOK
    <2>3. Lined'
      <3> DEFINE p == IF w \in holder THEN "sleeping" ELSE "top"
      <3>1. p # "parked" /\ place' = [place EXCEPT ![w] = p]
        BY <2>1
      <3> HIDE DEF p
      <3> QED BY <2>1, <3>1, LinedKept
    <2>4. PermitsConserved'
      BY <2>1 DEF GateInv, GateTypeOK, PermitsConserved
    <2> QED BY <2>1, <2>2, <2>3, <2>4 DEF GateInv
  <1>3. CASE TickError(w)
    <2>1. due' \in 0..MaxRows /\ due' <= enqueued' /\ errors' \in 0..MaxErrors
      BY <1>0, <1>3 DEF TickError
    <2>2. afterJob' \in [Workers -> BOOLEAN]
      BY <1>a, <1>3 DEF TickError
    <2>3. place[w] # "parked"
      BY <1>3 DEF TickError
    <2> QED BY <1>3, <2>1, <2>2, <2>3, GateDrop DEF TickError
  <1>4. CASE Resume(w)
    <2>1. GateTypeOK'
      BY <1>4 DEF Resume, Go, GateInv, GateTypeOK
    <2>2. Lined'
      <3>1. place[w] # "parked" /\ "top" # "parked"
        BY <1>4 DEF Resume
      <3> QED BY <1>4, <3>1, LinedKept DEF Resume, Go
    <2>3. PermitsConserved'
      BY <1>4 DEF Resume, Go, GateInv, GateTypeOK, PermitsConserved
    <2> QED BY <1>4, <2>1, <2>2, <2>3 DEF GateInv, Resume
  <1>5. CASE Shutdown(w)
    BY <1>5 DEF Shutdown, GateInv, GateTypeOK, Lined, PermitsConserved, ToSet
  <1>6. CASE Break(w)
    <2>1. due' \in 0..MaxRows /\ due' <= enqueued' /\ errors' \in 0..MaxErrors
      BY <1>0, <1>6 DEF Break
    <2>2. place[w] # "parked"
      BY <1>6 DEF Break
    <2> QED BY <1>a, <1>6, <2>1, <2>2, GateDrop DEF Break
  <1> QED BY <1>1, <1>2, <1>3, <1>4, <1>5, <1>6

\* A row becomes claimable.
LEMMA GateEnqueue ==
  ASSUME GateInv, Enqueue
  PROVE  GateInv'
  <1>0. /\ due \in Nat /\ enqueued \in Nat /\ due <= enqueued /\ enqueued <= MaxRows
        /\ MaxRows \in Nat
    BY GateAssumption DEF GateInv, GateTypeOK
  <1>1. due' \in 0..MaxRows /\ enqueued' \in 0..MaxRows /\ due' <= enqueued'
    BY <1>0 DEF Enqueue
  <1>2. PICK b \in {TRUE, ~Silent} : Notify(b, line, pinged) /\ quiet' = (quiet \/ ~b)
    BY DEF Enqueue
  <1>3. b \in BOOLEAN /\ quiet' \in BOOLEAN
    BY <1>2, GateAssumption
  <1>4. line \in Seq(Workers) /\ pinged \in SUBSET Workers /\ stored \in BOOLEAN
    BY DEF GateInv, GateTypeOK
  <1>5. /\ pinged' \in SUBSET Workers /\ stored' \in BOOLEAN
        /\ \A v \in pinged' : v \in pinged \/ v \in ToSet(line)
    BY <1>2, <1>3, <1>4, NotifyFacts
  <1>6. UNCHANGED <<place, afterJob, line, free, holder, granted, stopping, errors>>
    BY DEF Enqueue
  <1>7. GateTypeOK'
    BY <1>1, <1>3, <1>5, <1>6 DEF GateInv, GateTypeOK
  <1>8. Lined'
    BY <1>5, <1>6 DEF GateInv, Lined, ToSet
  <1>9. PermitsConserved'
    BY <1>6 DEF GateInv, PermitsConserved
  <1> QED BY <1>1, <1>7, <1>8, <1>9 DEF GateInv

\* Every step of the gate keeps the invariant.
LEMMA GateInvStep ==
  ASSUME GateInv, [GateNext]_gateVars
  PROVE  GateInv'
  <1>1. CASE UNCHANGED gateVars
    BY <1>1 DEF gateVars, GateInv, GateTypeOK, Lined, PermitsConserved, ToSet
  <1> QED BY <1>1, GateAdmit, GateUnpark, GateLoop, GateEnqueue DEF GateNext, Step

\* No path through job_worker, admission, claim, failure, sleep and shutdown included,
\* loses a permit of the gate or makes one up, for any number of workers and permits.
THEOREM GatePermitsConserved == GateSpec => []PermitsConserved
  <1>1. GateInit => GateInv
    BY GateInitInv DEF GateInit
  <1>2. GateInv /\ [GateNext]_gateVars => GateInv'
    BY GateInvStep
  <1>3. GateInv => PermitsConserved
    BY DEF GateInv
  <1> QED BY <1>1, <1>2, <1>3, PTL DEF GateSpec

\* What a step of a worker may do to the others: nothing but assign and wake.
LEMMA OthersKeep ==
  ASSUME GateInv, NEW w \in Workers,
         Step(w) \/ TickError(w) \/ Shutdown(w) \/ Break(w)
  PROVE  /\ \A v \in Workers \ {w} :
              /\ place'[v] = place[v] /\ afterJob'[v] = afterJob[v]
              /\ v \in holder <=> v \in holder'
              /\ v \in granted => v \in granted'
              /\ v \in pinged => v \in pinged'
         /\ UNCHANGED <<quiet, enqueued>>
  <1>0. /\ place \in [Workers -> {place[v] : v \in Workers}]
        /\ afterJob \in [Workers -> BOOLEAN]
    BY DEF GateInv, GateTypeOK
  <1>1. UNCHANGED <<quiet, enqueued>>
    BY DEF Step, AdmitDirectly, AdmitPoll, Unpark, FetchJob, FetchNone, Resume, TickError, Shutdown, Break
  <1>2. \A v \in Workers \ {w} : place'[v] = place[v]
    BY <1>0 DEF Step, AdmitDirectly, AdmitPoll, Unpark, FetchJob, FetchNone, Resume, TickError, Shutdown,
                Break, Go
  <1>3. \A v \in Workers \ {w} : afterJob'[v] = afterJob[v]
    BY <1>0 DEF Step, AdmitDirectly, AdmitPoll, Unpark, FetchJob, FetchNone, Resume, TickError, Shutdown,
                Break
  <1>4. \A v \in Workers \ {w} : v \in holder <=> v \in holder'
    BY DEF Step, AdmitDirectly, AdmitPoll, Unpark, FetchJob, FetchNone, Resume, TickError, Shutdown,
           Break, DropPermit, GivePermits
  <1>5. \A v \in Workers \ {w} : v \in granted => v \in granted'
    BY DEF Step, AdmitDirectly, AdmitPoll, Unpark, FetchJob, FetchNone, Resume, TickError, Shutdown,
           Break, DropPermit, GivePermits
  <1>6. \A v \in Workers \ {w} : v \in pinged => v \in pinged'
    BY DEF Step, AdmitDirectly, AdmitPoll, Unpark, FetchJob, FetchNone, Resume, TickError, Shutdown,
           Break, Notify
  <1> QED BY <1>1, <1>2, <1>3, <1>4, <1>5, <1>6

\* At the start everybody is at the top of its loop and nothing is due.
LEMMA WakeInitInv == GateInit => WakeInv
  <1>1. ASSUME GateInit PROVE Motives /\ Covered
    <2>1. due = 0
      BY <1>1 DEF GateInit, GateInitAt
    <2>2. Covered
      BY <2>1 DEF Covered
    <2>3. Motives
      BY <1>1 DEF GateInit, GateInitAt, Motives
    <2> QED BY <2>2, <2>3
  <1> QED BY <1>1, GateInitInv DEF GateInit, WakeInv

\* A step keeps the motives.
LEMMA MotivesStep ==
  ASSUME WakeInv, GateNext
  PROVE  Motives'
  <1>a. GateInv
    BY DEF WakeInv
  <1>b. /\ place \in [Workers -> {"top", "parked", "fetching", "running", "sleeping", "backoff", "exited"}]
        /\ afterJob \in [Workers -> BOOLEAN] /\ errors \in Nat
    BY <1>a DEF GateInv, GateTypeOK
  <1>1. CASE Enqueue
    BY <1>1 DEF Enqueue, WakeInv, Motives
  <1>2. ASSUME NEW w \in Workers, Step(w) \/ TickError(w) \/ Shutdown(w) \/ Break(w)
        PROVE  Motives'
    <2>0. /\ \A v \in Workers \ {w} : place'[v] = place[v] /\ afterJob'[v] = afterJob[v]
                                     /\ (v \in holder <=> v \in holder')
      BY <1>a, <1>2, OthersKeep
    <2>1. place'[w] = "running" => afterJob'[w]
      BY <1>b, <1>2 DEF Step, AdmitDirectly, AdmitPoll, Unpark, FetchJob, FetchNone, Resume, TickError,
                        Shutdown, Break, Go, WakeInv, Motives
    <2>2. place'[w] = "sleeping" => w \in holder'
      BY <1>b, <1>2 DEF Step, AdmitDirectly, AdmitPoll, Unpark, FetchJob, FetchNone, Resume, TickError,
                        Shutdown, Break, Go, WakeInv, Motives
    <2>3. errors' = 0 => errors = 0 /\ place'[w] # "backoff"
      BY <1>b, <1>2 DEF Step, AdmitDirectly, AdmitPoll, Unpark, FetchJob, FetchNone, Resume, TickError,
                        Shutdown, Break, Go, WakeInv, Motives
    <2>4. stopping' = {} => stopping = {} /\ place'[w] # "exited"
      BY <1>b, <1>2 DEF Step, AdmitDirectly, AdmitPoll, Unpark, FetchJob, FetchNone, Resume, TickError,
                        Shutdown, Break, Go, WakeInv, Motives
    <2>5. \A v \in Workers : place'[v] = "running" => afterJob'[v]
      BY <2>0, <2>1 DEF WakeInv, Motives
    <2>6. \A v \in Workers : place'[v] = "sleeping" => v \in holder'
      BY <2>0, <2>2 DEF WakeInv, Motives
    <2>7. errors' = 0 => \A v \in Workers : place'[v] # "backoff"
      BY <2>0, <2>3 DEF WakeInv, Motives
    <2>8. stopping' = {} => \A v \in Workers : place'[v] # "exited"
      BY <2>0, <2>4 DEF WakeInv, Motives
    <2> QED BY <2>5, <2>6, <2>7, <2>8 DEF Motives
  <1> QED BY <1>1, <1>2 DEF GateNext

\* A worker's step keeps due rows covered: whoever stops being about to claim leaves
\* somebody who is, or nothing due.
LEMMA CoveredByWorker ==
  ASSUME WakeInv, NEW w \in Workers, Step(w) \/ TickError(w) \/ Shutdown(w) \/ Break(w),
         AllWake', due' > 0
  PROVE  \E v \in Workers : WillClaim(v)'
  <1>a. GateInv /\ Motives /\ Covered
    BY DEF WakeInv
  <1>b. /\ place \in [Workers -> {"top", "parked", "fetching", "running", "sleeping", "backoff", "exited"}]
        /\ afterJob \in [Workers -> BOOLEAN]
    BY <1>a DEF GateInv, GateTypeOK
  <1>c. errors \in Nat /\ due \in Nat /\ free \in Nat
    BY <1>a DEF GateInv, GateTypeOK
  <1>d. errors' = 0 /\ stopping' = {} /\ ~quiet'
    BY DEF AllWake
  <1>1. CASE AdmitDirectly(w)
    BY <1>1, <1>b DEF AdmitDirectly, Go, WillClaim
  <1>2. CASE AdmitPoll(w)
    <2>0. w \notin stopping
      BY <1>2, <1>d DEF AdmitPoll
    <2>1. CASE Go(w, "fetching")
      BY <1>b, <2>1 DEF Go, WillClaim
    <2>2. CASE free = 0 /\ ~stored /\ Go(w, "parked")
      <3>1. /\ place[w] = "top" /\ ~afterJob[w] /\ w \notin holder
            /\ UNCHANGED <<stopping, due, errors, quiet>>
        BY <1>2 DEF AdmitPoll
      <3>2. AllWake /\ due > 0
        BY <3>1 DEF AllWake
      <3>3. ~(free > 0)
        BY <2>2
      <3>4. PICK v \in Workers : WillClaim(v)
        BY <1>a, <2>2, <3>2, <3>3 DEF Covered
      <3>5. w \notin granted \cup pinged
        BY <1>a, <3>1 DEF GateInv, Lined
      <3>6. v # w
        BY <3>1, <3>4, <3>5 DEF WillClaim
      <3>7. /\ place'[v] = place[v] /\ afterJob'[v] = afterJob[v]
            /\ v \in holder <=> v \in holder'
            /\ v \in granted => v \in granted'
            /\ v \in pinged => v \in pinged'
        BY <1>a, <3>6, OthersKeep
      <3>8. WillClaim(v)'
        BY <3>4, <3>7 DEF WillClaim
      <3> QED BY <3>8
    <2> QED BY <1>2, <2>0, <2>1, <2>2 DEF AdmitPoll
  <1>3. CASE Unpark(w)
    <2>1. w \notin stopping
      BY <1>3, <1>d DEF Unpark
    <2>2. Go(w, "fetching")
      BY <1>3, <2>1 DEF Unpark
    <2> QED BY <1>b, <2>2 DEF Go, WillClaim
  <1>4. CASE FetchJob(w)
    BY <1>4, <1>b DEF FetchJob, Go, WillClaim
  <1>5. CASE FetchNone(w)
    <2>1. due' = 0
      BY <1>5 DEF FetchNone
    <2> QED BY <2>1
  <1>6. CASE Resume(w)
    <2>1. /\ place[w] \in {"running", "sleeping", "backoff"} /\ place'[w] = "top"
          /\ UNCHANGED <<afterJob, holder, errors>>
      BY <1>6, <1>b DEF Resume, Go
    <2>2. place[w] # "backoff"
      BY <1>a, <1>d, <2>1 DEF Motives
    <2>3. afterJob[w] \/ w \in holder
      BY <1>a, <2>1, <2>2 DEF Motives
    <2> QED BY <2>1, <2>3 DEF WillClaim
  <1>7. CASE TickError(w)
    BY <1>7, <1>c, <1>d DEF TickError
  <1>8. CASE Shutdown(w)
    BY <1>8, <1>d DEF Shutdown
  <1>9. CASE Break(w)
    BY <1>9, <1>d DEF Break
  <1> QED BY <1>1, <1>2, <1>3, <1>4, <1>5, <1>6, <1>7, <1>8, <1>9 DEF Step

\* An enqueue's wake reaches a parked worker; with nobody parked there is a worker
\* without a permit who is at work or at the top of its loop, and the wake is stored.
LEMMA CoveredByEnqueue ==
  ASSUME WakeInv, Enqueue, AllWake'
  PROVE  \/ \E v \in Workers : WillClaim(v)'
         \/ stored' /\ \E v \in Workers : place'[v] = "top"
  <1>a. GateInv /\ Motives
    BY DEF WakeInv
  <1>b. place \in [Workers -> {"top", "parked", "fetching", "running", "sleeping", "backoff", "exited"}]
        /\ line \in Seq(Workers) /\ pinged \in SUBSET Workers /\ stored \in BOOLEAN
    BY <1>a DEF GateInv, GateTypeOK
  <1>1. PICK b \in {TRUE, ~Silent} : Notify(b, line, pinged) /\ quiet' = (quiet \/ ~b)
    BY DEF Enqueue
  <1>2. b \in BOOLEAN
    BY GateAssumption
  <1>3. b
    BY <1>1, <1>2 DEF AllWake
  <1>4. /\ pinged' \in SUBSET Workers
        /\ b => stored' \/ pinged' # {}
        /\ b /\ ToSet(line) # {} => pinged' # {}
    BY <1>1, <1>2, <1>b, NotifyFacts
  <1>5. CASE pinged' # {}
    <2>1. PICK v \in Workers : v \in pinged'
      BY <1>4, <1>5
    <2> QED BY <2>1 DEF WillClaim
  <1>6. CASE pinged' = {}
    <2>1. stored' /\ ToSet(line) = {}
      BY <1>3, <1>4, <1>6
    <2>2. \A v \in Workers : place[v] # "parked"
      BY <1>a, <2>1 DEF GateInv, Lined
    <2>3. UNCHANGED <<place, holder, errors, stopping>> /\ errors' = 0 /\ stopping' = {}
          /\ Cardinality(Workers) > Claimers
      BY DEF Enqueue, AllWake
    <2>4. holder # Workers
      <3>1. Cardinality(holder) <= Claimers
        BY <1>a, PermitCounts
      <3>2. Cardinality(Workers) \in Nat
        BY GateAssumption, FS_CardinalityType
      <3>3. Cardinality(holder) \in Nat /\ Claimers \in Nat
        BY <1>a, PermitCounts
      <3> QED BY <2>3, <3>1, <3>2, <3>3
    <2>5. PICK v \in Workers : v \notin holder
      BY <1>a, <2>4 DEF GateInv, GateTypeOK
    <2>6. place[v] \in {"top", "fetching", "running"}
      BY <1>a, <1>b, <2>2, <2>3, <2>5 DEF Motives
    <2> QED BY <2>1, <2>3, <2>6 DEF WillClaim
  <1> QED BY <1>5, <1>6

\* The strengthened invariant is kept.
LEMMA WakeInvStep ==
  ASSUME WakeInv, [GateNext]_gateVars
  PROVE  WakeInv'
  <1>1. GateInv'
    BY GateInvStep DEF WakeInv
  <1>2. CASE UNCHANGED gateVars
    BY <1>1, <1>2 DEF gateVars, WakeInv, Motives, Covered, AllWake, WillClaim
  <1>3. CASE GateNext
    <2>1. Motives'
      BY <1>3, MotivesStep
    <2>2. Covered'
      BY <1>3, CoveredByWorker, CoveredByEnqueue DEF GateNext, Covered
    <2> QED BY <1>1, <2>1, <2>2 DEF WakeInv
  <1> QED BY <1>2, <1>3

\* As long as every enqueue wakes, nothing fails and nobody stops, a claimable row
\* always has an awake worker, whatever the number of workers above that of permits,
\* of rows and the interleaving: wakes are stored, passed on or made up for.
THEOREM GateWakesNotLost == GateSpec => []WakesNotLost
  <1>1. WakeInv => WakesNotLost
    BY DEF WakeInv, Covered, AllWake, WillClaim, WakesNotLost, Awake
  <1>2. WakeInv /\ [GateNext]_gateVars => WakeInv'
    BY WakeInvStep
  <1> QED BY <1>1, <1>2, WakeInitInv, PTL DEF GateSpec
=============================================================================
