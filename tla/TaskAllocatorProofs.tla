-------------------------- MODULE TaskAllocatorProofs --------------------------
(***************************************************************************)
(* select_best_robot returns the best robot for every number of robots,    *)
(* every aisle, every charge and every weight.  Its loop is the recursive  *)
(* function Scan: that Scan satisfies its own equation, and that the       *)
(* loop's invariant holds after every round, are both proved by the least  *)
(* round at which they would fail.                                         *)
(***************************************************************************)
EXTENDS TaskAllocator, WellFoundedInduction, TLAPS

LEMMA LeastElement ==
  ASSUME NEW T, T \subseteq Nat, T # {}
  PROVE  \E m \in T : \A k \in T : m <= k
<1> DEFINE R == OpToRel(<, Nat)
<1>1. PICK m \in T : \A k \in T : <<k, m>> \notin R
  <2>1. IsWellFoundedOn(R, Nat)
    BY NatLessThanWellFounded
  <2> HIDE DEF R
  <2>2. QED
    BY <2>1, WFMin
<1>2. ASSUME NEW k \in T
      PROVE  m <= k
  <2>1. ~(k < m)
    BY <1>1 DEF OpToRel
  <2>2. QED
    BY <2>1
<1>3. QED
  BY <1>2

(***************************************************************************)
(* The loop                                                                *)
(***************************************************************************)

(* f is what the loop computes in its first k rounds. *)
Rounds(f, k) ==
  f = [n \in 0 .. k |-> IF n = 0 THEN None ELSE Improve(f[n - 1], n)]

LEMMA OneMoreRound ==
  ASSUME NEW k \in Nat, NEW f, Rounds(f, k)
  PROVE  \E g : Rounds(g, k + 1)
<1> DEFINE last == Improve(f[k], k + 1)
           g == [n \in 0 .. (k + 1) |-> IF n = k + 1 THEN last ELSE f[n]]
<1>1. \A n \in 0 .. k : f[n] = IF n = 0 THEN None ELSE Improve(f[n - 1], n)
  BY DEF Rounds
<1>2. \A n \in 0 .. k : g[n] = f[n] /\ n # k + 1
  OBVIOUS
<1>3. g[k + 1] = last
  OBVIOUS
<1>4. ASSUME NEW n \in 0 .. (k + 1)
      PROVE  (IF n = k + 1 THEN last ELSE f[n])
               = IF n = 0 THEN None ELSE Improve(g[n - 1], n)
  <2>1. CASE n = k + 1
    <3>1. n # 0 /\ n - 1 = k /\ g[k] = f[k]
      BY <1>2, <2>1
    <3>2. QED
      BY <2>1, <3>1
  <2>2. CASE n # k + 1 /\ n # 0
    <3>1. n \in 0 .. k /\ n - 1 \in 0 .. k
      BY <2>2
    <3>2. g[n - 1] = f[n - 1] /\ f[n] = Improve(f[n - 1], n)
      BY <1>1, <1>2, <2>2, <3>1
    <3>3. QED
      BY <2>2, <3>2
  <2>3. CASE n # k + 1 /\ n = 0
    <3>1. f[n] = None
      BY <1>1, <2>3
    <3>2. QED
      BY <2>3, <3>1
  <2>4. QED
    BY <2>1, <2>2, <2>3
<1>5. Rounds(g, k + 1)
  <2> HIDE DEF last
  <2>1. g = [n \in 0 .. (k + 1) |-> IF n = 0 THEN None ELSE Improve(g[n - 1], n)]
    BY <1>4
  <2>2. QED
    BY <2>1 DEF Rounds
<1>6. QED
  BY <1>5

LEMMA RoundsExist == \A k \in Nat : \E f : Rounds(f, k)
<1> DEFINE T == {k \in Nat : ~ \E f : Rounds(f, k)}
<1>1. SUFFICES ASSUME T # {}
               PROVE  FALSE
  OBVIOUS
<1>2. PICK m \in T : \A k \in T : m <= k
  <2>1. T \subseteq Nat
    OBVIOUS
  <2> HIDE DEF T
  <2>2. QED
    BY <1>1, <2>1, LeastElement
<1>3. CASE m = 0
  <2> DEFINE f == [n \in 0 .. 0 |-> None]
  <2>1. f = [n \in 0 .. 0 |-> IF n = 0 THEN None ELSE Improve(f[n - 1], n)]
    OBVIOUS
  <2>2. Rounds(f, 0)
    BY <2>1 DEF Rounds
  <2>3. QED
    BY <1>3, <2>2
<1>4. CASE m # 0
  <2>1. m - 1 \in Nat /\ m - 1 \notin T /\ (m - 1) + 1 = m
    BY <1>2, <1>4
  <2>2. PICK f : Rounds(f, m - 1)
    BY <2>1
  <2>3. \E g : Rounds(g, (m - 1) + 1)
    BY <2>1, <2>2, OneMoreRound
  <2>4. QED
    BY <2>1, <2>3
<1>5. QED
  BY <1>3, <1>4

LEMMA ScanLemma ==
  /\ Scan[0] = None
  /\ \A n \in 1 .. NumRobots : Scan[n] = Improve(Scan[n - 1], n)
<1>1. NumRobots \in Nat
  BY AllocatorAssumption
<1>2. \E f : f = [n \in 0 .. NumRobots |->
                    IF n = 0 THEN None ELSE Improve(f[n - 1], n)]
  BY <1>1, RoundsExist DEF Rounds
<1>3. Scan = [n \in 0 .. NumRobots |->
                IF n = 0 THEN None ELSE Improve(Scan[n - 1], n)]
  BY <1>2 DEF Scan
<1>4. 0 \in 0 .. NumRobots
      /\ \A n \in 1 .. NumRobots : n \in 0 .. NumRobots /\ n # 0
  BY <1>1
<1> HIDE DEF Scan
<1>5. QED
  BY <1>3, <1>4

(***************************************************************************)
(* Scores                                                                  *)
(***************************************************************************)

(* The values latest_status_ holds, and a pick position on the aisle.      *)
StatusOK ==
  /\ fleet \in [Robots -> Heard \cup {Unheard}]
  /\ pick \in 0 .. MaxX

LEMMA WeightLemma ==
  ASSUME NEW a \in Nat, NEW b \in Nat, NEW w \in Nat, a <= b
  PROVE  a * w \in Nat /\ b * w \in Nat /\ a * w <= b * w
<1>1. b - a \in Nat /\ b = a + (b - a)
  OBVIOUS
<1>2. \A i, j \in Nat : i * j \in Nat
  OBVIOUS
<1>3. b * w = a * w + (b - a) * w
  BY <1>1
<1>4. a * w \in Nat /\ b * w \in Nat /\ (b - a) * w \in Nat
  BY <1>1, <1>2
<1>5. QED
  BY <1>3, <1>4

(* Every IDLE robot has a score, and best_score starts above it.           *)
LEMMA ScoreLemma ==
  ASSUME StatusOK, NEW r \in Robots, fleet[r].state = "IDLE"
  PROVE  /\ fleet[r] \in Heard
         /\ Score(r) \in Nat /\ Score(r) < Unbeaten /\ Unbeaten \in Nat
<1>1. fleet[r] \in Heard
  BY DEF StatusOK, Unheard
<1>2. /\ fleet[r].x \in 0 .. MaxX /\ fleet[r].soc \in 0 .. MaxSoc
      /\ MaxX \in Nat /\ MaxSoc \in Nat /\ SocWeight \in Nat
  BY <1>1, AllocatorAssumption DEF Heard
<1>3. Distance(pick, fleet[r].x) \in 0 .. MaxX
  BY <1>2 DEF StatusOK, Distance
<1>4. MaxSoc - fleet[r].soc \in Nat /\ MaxSoc - fleet[r].soc <= MaxSoc
  BY <1>2
<1>5. /\ (MaxSoc - fleet[r].soc) * SocWeight \in Nat
      /\ MaxSoc * SocWeight \in Nat
      /\ (MaxSoc - fleet[r].soc) * SocWeight <= MaxSoc * SocWeight
  BY <1>2, <1>4, WeightLemma
<1>6. QED
  BY <1>1, <1>2, <1>3, <1>5 DEF Score, Unbeaten

(* What the loop knows after the first n robots.                           *)
BestOfFirst(best, n) ==
  IF best.robot = 0
    THEN best = None /\ \A q \in Idle : ~(q <= n)
    ELSE /\ best.robot \in Idle /\ best.robot <= n
         /\ best.score = Score(best.robot)
         /\ \A q \in Idle :
              q <= n => /\ best.score <= Score(q)
                        /\ q < best.robot => best.score < Score(q)

LEMMA ImproveLemma ==
  ASSUME StatusOK, NEW best, NEW n \in Robots, BestOfFirst(best, n - 1)
  PROVE  BestOfFirst(Improve(best, n), n)
<1>0. /\ n \in Nat /\ n # 0 /\ Robots \subseteq Nat \ {0}
  BY AllocatorAssumption DEF Robots
<1>1. \A q \in Idle : /\ q \in Robots /\ q \in Nat /\ q # 0
                      /\ Score(q) \in Nat /\ Score(q) < Unbeaten
                      /\ fleet[q].state = "IDLE"
  BY <1>0, ScoreLemma DEF Idle
<1>2. /\ best.robot = 0 => best.score = Unbeaten
      /\ best.robot # 0 => best.robot \in Idle
                            /\ best.score = Score(best.robot)
  BY DEF BestOfFirst, None
<1>3. CASE n \in Idle /\ Score(n) < best.score
  <2> DEFINE new == [robot |-> n, score |-> Score(n)]
  <2>1. Improve(best, n) = new
    BY <1>1, <1>3 DEF Improve
  <2>2. new.robot = n /\ new.score = Score(n)
    OBVIOUS
  <2>3. ASSUME NEW q \in Idle, q <= n
        PROVE  /\ Score(n) <= Score(q)
               /\ q < n => Score(n) < Score(q)
    <3>1. CASE q = n
      BY <1>0, <1>1, <3>1
    <3>2. CASE q # n
      <4>1. q <= n - 1
        BY <1>0, <1>1, <2>3, <3>2
      <4>2. best.robot # 0 /\ best.score <= Score(q)
        BY <4>1 DEF BestOfFirst
      <4>3. Score(n) < Score(q)
        BY <1>1, <1>2, <1>3, <4>2
      <4>4. QED
        BY <1>1, <1>3, <4>3
    <3>3. QED
      BY <3>1, <3>2
  <2> HIDE DEF new
  <2>4. QED
    BY <1>0, <1>3, <2>1, <2>2, <2>3 DEF BestOfFirst
<1>4. CASE ~(n \in Idle /\ Score(n) < best.score)
  <2>1. Improve(best, n) = best
    BY <1>4 DEF Improve, Idle
  <2>2. ASSUME NEW q \in Idle, q <= n, ~(q <= n - 1)
        PROVE  best.robot # 0 /\ best.score <= Score(q) /\ ~(q < best.robot)
    <3>1. q = n
      BY <1>0, <1>1, <2>2
    <3>2. best.robot # 0
      BY <1>1, <1>2, <1>4, <2>2, <3>1
    <3>3. best.robot \in Idle /\ best.robot <= n - 1
      BY <3>2 DEF BestOfFirst
    <3>4. best.score <= Score(q)
      BY <1>1, <1>2, <1>4, <2>2, <3>1, <3>2
    <3>5. best.robot \in Nat /\ ~(n < best.robot)
      BY <1>0, <1>1, <3>3
    <3>6. QED
      BY <3>1, <3>2, <3>4, <3>5
  <2>3. CASE best.robot = 0
    BY <2>1, <2>2, <2>3 DEF BestOfFirst
  <2>4. CASE best.robot # 0
    <3>1. best.robot \in Idle /\ best.robot <= n /\ best.score = Score(best.robot)
      BY <1>0, <1>1, <2>4 DEF BestOfFirst
    <3>2. ASSUME NEW q \in Idle, q <= n
          PROVE  /\ best.score <= Score(q)
                 /\ q < best.robot => best.score < Score(q)
      BY <2>2, <2>4, <3>2 DEF BestOfFirst
    <3>3. QED
      BY <2>1, <2>4, <3>1, <3>2 DEF BestOfFirst
  <2>5. QED
    BY <2>3, <2>4
<1>5. QED
  BY <1>3, <1>4

LEMMA EveryRound ==
  ASSUME StatusOK
  PROVE  \A n \in 0 .. NumRobots : BestOfFirst(Scan[n], n)
<1> DEFINE T == {n \in 0 .. NumRobots : ~BestOfFirst(Scan[n], n)}
<1>0. NumRobots \in Nat
  BY AllocatorAssumption
<1>1. SUFFICES ASSUME T # {}
               PROVE  FALSE
  OBVIOUS
<1>2. PICK m \in T : \A k \in T : m <= k
  <2>1. T \subseteq Nat
    BY <1>0
  <2> HIDE DEF T
  <2>2. QED
    BY <1>1, <2>1, LeastElement
<1>3. CASE m = 0
  <2>1. Scan[0].robot = 0
    BY ScanLemma DEF None
  <2>2. \A q \in Idle : ~(q <= 0)
    BY <1>0 DEF Idle, Robots
  <2>3. BestOfFirst(Scan[0], 0)
    BY <2>1, <2>2, ScanLemma DEF BestOfFirst
  <2>4. QED
    BY <1>3, <2>3
<1>4. CASE m # 0
  <2>1. m \in Robots /\ m - 1 \in 0 .. NumRobots /\ m - 1 \notin T
    BY <1>0, <1>2, <1>4 DEF Robots
  <2>2. BestOfFirst(Scan[m - 1], m - 1)
    BY <2>1
  <2>3. Scan[m] = Improve(Scan[m - 1], m)
    BY <2>1, ScanLemma DEF Robots
  <2>4. BestOfFirst(Scan[m], m)
    BY <2>1, <2>2, <2>3, ImproveLemma
  <2>5. QED
    BY <2>4
<1>5. QED
  BY <1>3, <1>4

LEMMA SelectLemma == StatusOK => SelectsTheBest
<1> SUFFICES ASSUME StatusOK
             PROVE  SelectsTheBest
  OBVIOUS
<1>1. BestOfFirst(Scan[NumRobots], NumRobots)
  BY EveryRound, AllocatorAssumption
<1>2. \A q \in Idle : q <= NumRobots /\ q # 0
  BY AllocatorAssumption DEF Idle, Robots
<1>3. CASE SelectBest = 0
  BY <1>1, <1>2, <1>3 DEF BestOfFirst, SelectBest, SelectsTheBest
<1>4. CASE SelectBest # 0
  BY <1>1, <1>2, <1>4 DEF BestOfFirst, SelectBest, SelectsTheBest
<1>5. QED
  BY <1>3, <1>4

(***************************************************************************)
(* The theorems                                                            *)
(***************************************************************************)

LEMMA StatusInvariant == Spec => []StatusOK
<1>1. Init => StatusOK
  BY DEF Init, StatusOK
<1>2. StatusOK /\ [Next]_<<fleet, pick>> => StatusOK'
  BY DEF StatusOK, Next, StatusArrives, RequestArrives
<1>3. QED
  BY <1>1, <1>2, PTL DEF Spec

(* select_best_robot returns nobody exactly when no robot is IDLE, and     *)
(* else the first of the IDLE robots with the lowest score, for every      *)
(* fleet and every request.                                                *)
THEOREM AlwaysSelectsTheBest == Spec => []SelectsTheBest
BY StatusInvariant, SelectLemma, PTL

(* More charge never costs more.                                           *)
LEMMA ScoreFalls ==
  ASSUME StatusOK, StatusOK', NEW r \in Robots,
         fleet[r].state = "IDLE", fleet'[r].state = "IDLE", pick' = pick,
         fleet'[r].soc >= fleet[r].soc,
         Distance(pick, fleet'[r].x) <= Distance(pick, fleet[r].x)
  PROVE  /\ Score(r)' <= Score(r)
         /\ Score(r) \in Nat /\ Score(r)' \in Nat
<1>1. /\ fleet[r] \in Heard /\ fleet'[r] \in Heard
  BY DEF StatusOK, Unheard
<1>2. /\ fleet[r].x \in 0 .. MaxX /\ fleet[r].soc \in 0 .. MaxSoc
      /\ fleet'[r].x \in 0 .. MaxX /\ fleet'[r].soc \in 0 .. MaxSoc
      /\ MaxX \in Nat /\ MaxSoc \in Nat /\ SocWeight \in Nat
  BY <1>1, AllocatorAssumption DEF Heard
<1>3. /\ Distance(pick, fleet[r].x) \in 0 .. MaxX
      /\ Distance(pick, fleet'[r].x) \in 0 .. MaxX
  BY <1>2 DEF StatusOK, Distance
<1>4. /\ MaxSoc - fleet[r].soc \in Nat /\ MaxSoc - fleet'[r].soc \in Nat
      /\ MaxSoc - fleet'[r].soc <= MaxSoc - fleet[r].soc
  BY <1>2
<1>5. /\ (MaxSoc - fleet[r].soc) * SocWeight \in Nat
      /\ (MaxSoc - fleet'[r].soc) * SocWeight \in Nat
      /\ (MaxSoc - fleet'[r].soc) * SocWeight
           <= (MaxSoc - fleet[r].soc) * SocWeight
  BY <1>2, <1>4, WeightLemma
<1>6. Score(r)' = Distance(pick, fleet'[r].x)
                  + (MaxSoc - fleet'[r].soc) * SocWeight
  BY DEF Score
<1>7. QED
  BY <1>3, <1>5, <1>6 DEF Score

(* A better status of the selected robot never moves a task elsewhere.     *)
THEOREM BetterAlwaysWins == Spec => BetterNeverLoses
<1>1. ASSUME StatusOK, StatusOK', SelectsTheBest, SelectsTheBest',
             NEW r \in Robots, pick' = pick, r = SelectBest,
             fleet'[r].state = "IDLE", fleet'[r].soc >= fleet[r].soc,
             Distance(pick, fleet'[r].x) <= Distance(pick, fleet[r].x),
             \A q \in Robots \ {r} :
               fleet'[q] = fleet[q] \/ fleet'[q].state # "IDLE"
      PROVE  SelectBest' = r
  <2>0. Robots \subseteq Nat \ {0}
    BY AllocatorAssumption DEF Robots
  <2>1. /\ r \in Idle
        /\ \A q \in Idle : /\ Score(r) <= Score(q)
                           /\ q < r => Score(r) < Score(q)
    BY <1>1, <2>0 DEF SelectsTheBest, Idle
  <2>2. PICK b \in Robots :
          /\ b = SelectBest' /\ fleet'[b].state = "IDLE"
          /\ Score(b)' <= Score(r)'
          /\ r < b => Score(b)' < Score(r)'
    BY <1>1 DEF SelectsTheBest, Idle
  <2>3. Score(r)' <= Score(r) /\ Score(r) \in Nat /\ Score(r)' \in Nat
    BY <1>1, <2>1, ScoreFalls DEF Idle
  <2>4. SUFFICES ASSUME b # r
                 PROVE  FALSE
    BY <2>2
  <2>5. fleet'[b] = fleet[b] /\ b \in Idle
    BY <1>1, <2>2, <2>4 DEF Idle
  <2>6. Score(b)' = Score(b) /\ Score(b) \in Nat
    BY <1>1, <2>5, ScoreLemma DEF Score, Idle
  <2>7. QED
    BY <2>0, <2>1, <2>2, <2>3, <2>4, <2>5, <2>6
<1>2. ASSUME StatusOK, StatusOK', SelectsTheBest, SelectsTheBest'
      PROVE  \A r \in Robots :
               /\ pick' = pick /\ r = SelectBest
               /\ fleet'[r].state = "IDLE"
               /\ fleet'[r].soc >= fleet[r].soc
               /\ Distance(pick, fleet'[r].x) <= Distance(pick, fleet[r].x)
               /\ \A q \in Robots \ {r} :
                    fleet'[q] = fleet[q] \/ fleet'[q].state # "IDLE"
               => SelectBest' = r
  BY <1>1, <1>2
<1>3. QED
  BY <1>2, StatusInvariant, AlwaysSelectsTheBest, PTL DEF BetterNeverLoses
=============================================================================
