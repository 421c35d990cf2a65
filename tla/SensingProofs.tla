--------------------------- MODULE SensingProofs ---------------------------
(***************************************************************************)
(* Proofs about the mandatory sensing, for every deadline, rate, site and  *)
(* lift.                                                                   *)
(*                                                                         *)
(* The fault set is a second memory of what the two deadlines say: a stale *)
(* fault that is active has its sensor late (StaleIsLate), which is why    *)
(* FAULT is never entered while one of the two still answers.  What keeps  *)
(* the pad out of FLIGHT once there is a baseline is that the launch timer *)
(* runs only over the last altitude taken before it (OldAltitude).         *)
(*                                                                         *)
(* The landing rests on what the filter makes of the readings.  The last   *)
(* reading is never further from the height than the vehicle can have      *)
(* moved since (Heard), so no rate exceeds Fade[0] (RateBound); on the     *)
(* ground each step of the filter takes it from Fade[m] to Fade[m + 1]     *)
(* (Quiet), until it is one of rest and stays so while the rest timer runs *)
(* (RestInv).  In the air it does not become a fall's before the fall, and *)
(* does not cease to be one in the fall (LevelInv); a fall shown for       *)
(* FallTime passes has made the rate a fall's whatever it was before, and  *)
(* DescentConfirm passes more have confirmed the descent (FallInv).        *)
(***************************************************************************)
EXTENDS Sensing, FiniteSetTheorems, TLAPS

(* What the machine is in once the self-test is over.                      *)
Operating == {"ready", "flight", "landed", "recovery", "fault"}

StaleIsLate ==
  /\ "imu_stale" \in faults => now - last_good_imu_ms > SensorStale
  /\ "baro_stale" \in faults => now - last_good_baro_ms > SensorStale

Launching ==
  /\ phase = "pad" => height = 0
  /\ launch_condition_since_ms # 0 => state = "ready" /\ settled
  /\ baseline_ready => settled

OldAltitude ==
  phase = "pad" /\ launch_condition_since_ms # 0 /\ baseline_ready =>
    last_altitude_ms <= launch_condition_since_ms

SensingInv == TypeOK /\ state \in Operating /\ StaleIsLate /\ Launching

(* What the assumptions say of the constants.                              *)
LEMMA Constants ==
  /\ SensorStale \in Nat /\ RateHold \in Nat /\ ArmingDelay \in Nat
  /\ LaunchGain \in Nat /\ Site \in Nat /\ Ceiling \in Nat /\ Speed \in Nat
  /\ MaxMisses \in Nat /\ LaunchConfirm \in Nat
BY SensingAssumption, SensingMission
   DEF SensingAssumption, Machine!MissionAssumption

(* What the rest of the assumption says of the rates and the times.        *)
LEMMA Margins ==
  /\ LaunchGain > 0 /\ Speed > 0 /\ SettleTime \in Nat /\ SettleTime > 0
  /\ FallingRate \in Nat /\ StillRate \in Nat /\ FallingRate > StillRate
  /\ StillRate <= 10 * Speed /\ MinFlight \in Nat /\ RestConfirm \in Nat
  /\ Fade[(SettleTime - 1) \div (RateHold + 1)] < StillRate
  /\ FallTime \in Nat /\ DescentConfirm \in Nat
  /\ 2 * Fade[FallTime] + FallingRate < 10 * Speed
BY SensingAssumption, SensingMission
   DEF SensingAssumption, Machine!MissionAssumption

(* Induction on the naturals, for a set: its members cannot stop, as the   *)
(* least that is not one would have no predecessor.                        *)
LEMMA SetInduction ==
  ASSUME NEW S, 0 \in S, \A n \in Nat : n \in S => n + 1 \in S
  PROVE  Nat \subseteq S
<1>1. SUFFICES ASSUME NEW n \in Nat, n \notin S PROVE FALSE
  OBVIOUS
<1> DEFINE T == {0 .. m : m \in Nat \ S}
<1>2. T \subseteq FiniteSubsetsOf(Nat)
  <2>1. \A m \in Nat : 0 .. m \in SUBSET Nat /\ IsFiniteSet(0 .. m)
    BY FS_Interval
  <2> QED BY <2>1 DEF FiniteSubsetsOf
<1>3. T # {}
  BY <1>1
<1>4. IsWellFoundedOn(StrictSubsetOrdering(Nat), FiniteSubsetsOf(Nat))
  BY FS_StrictSubsetOrderingWellFounded
<1>5. \E x \in T : \A y \in T : ~(<<y, x>> \in StrictSubsetOrdering(Nat))
  <2> HIDE DEF T
  <2> QED BY <1>2, <1>3, <1>4, WFMin
<1>6. PICK x \in T : \A y \in T : ~(<<y, x>> \in StrictSubsetOrdering(Nat))
  BY <1>5
<1>7. PICK m \in Nat \ S : x = 0 .. m
  BY DEF T
<1>8. m # 0 /\ m - 1 \in Nat /\ m - 1 \notin S
  BY SMT
<1>9. 0 .. m - 1 \in T
  BY <1>8
<1>10. <<0 .. m - 1, x>> \in StrictSubsetOrdering(Nat)
  <2>1. 0 .. m - 1 \in SUBSET Nat /\ x \in SUBSET Nat
    BY <1>7, <1>8
  <2>2. 0 .. m - 1 \subseteq x /\ m \in x /\ m \notin 0 .. m - 1
    BY <1>7, <1>8
  <2> QED BY <2>1, <2>2 DEF StrictSubsetOrdering
<1> QED BY <1>6, <1>9, <1>10

(* One step of the fading.                                                 *)
Faded(b) == (7 * b + 30) \div 10

(* It stays above its fixed point and falls towards it.                    *)
LEMMA FadedIs ==
  \A b \in Nat : Faded(b) \in Nat /\ (b >= 10 => Faded(b) >= 10 /\ Faded(b) <= b)
  BY DEF Faded

(* The recursion of Fade has a solution: the values up to n, for every n.  *)
LEMMA FadeExists ==
  \E f : f = [n \in Nat |-> IF n = 0 THEN 10 * (Speed + Site + 1)
                            ELSE (7 * f[n - 1] + 30) \div 10]
<1> DEFINE first == 10 * (Speed + Site + 1)
           Step(f, k) == IF k = 0 THEN first ELSE Faded(f[k - 1])
           Up(m, f) == \A k \in 0 .. m : f[k] = Step(f, k)
<1>1. ASSUME NEW k \in Nat, NEW f, NEW g, k # 0 => f[k - 1] = g[k - 1]
      PROVE  Step(f, k) = Step(g, k)
  BY <1>1
<1> HIDE DEF Step
<1>2. \A m \in Nat : \E f : Up(m, f)
  <2> DEFINE S == {m \in Nat : \E f : Up(m, f)}
  <2>1. 0 \in S
    <3> DEFINE f == [k \in 0 .. 0 |-> first]
    <3>1. f[0] = Step(f, 0)
      BY DEF Step
    <3>2. Up(0, f)
      <4> HIDE DEF f
      <4> QED BY <3>1
    <3> QED BY <3>2
  <2>2. ASSUME NEW m \in Nat, m \in S PROVE m + 1 \in S
    <3>1. PICK f : Up(m, f)
      BY <2>2
    <3> DEFINE g == [k \in 0 .. m + 1 |-> IF k <= m THEN f[k] ELSE Step(f, m + 1)]
    <3>2. \A k \in 0 .. m : g[k] = f[k] /\ f[k] = Step(f, k)
      BY <3>1
    <3>3. g[m + 1] = Step(f, m + 1)
      OBVIOUS
    <3> HIDE DEF g
    <3>4. ASSUME NEW k \in 0 .. m + 1 PROVE Step(g, k) = Step(f, k)
      <4>1. k # 0 => k - 1 \in 0 .. m
        OBVIOUS
      <4> QED BY <1>1, <3>2, <4>1
    <3>5. \A k \in 0 .. m + 1 : g[k] = Step(g, k)
      BY <3>2, <3>3, <3>4
    <3>6. Up(m + 1, g)
      BY <3>5
    <3> QED BY <3>6
  <2>3. Nat \subseteq S
    <3> HIDE DEF S
    <3> QED BY <2>1, <2>2, SetInduction
  <2> QED BY <2>3
<1> DEFINE F == [m \in Nat |-> CHOOSE f : Up(m, f)]
<1>3. \A m \in Nat : Up(m, F[m])
  <2> HIDE DEF Up
  <2> QED BY <1>2
<1> HIDE DEF F
<1>4. \A k \in Nat : \A m \in Nat : k <= m => F[m][k] = F[k][k]
  <2> DEFINE S == {k \in Nat : \A m \in Nat : k <= m => F[m][k] = F[k][k]}
  <2>1. 0 \in S
    <3>1. \A m \in Nat : F[m][0] = Step(F[m], 0)
      BY <1>3
    <3> QED BY <3>1 DEF Step
  <2>2. ASSUME NEW k \in Nat, k \in S PROVE k + 1 \in S
    <3> SUFFICES ASSUME NEW m \in Nat, k + 1 <= m
                 PROVE  F[m][k + 1] = F[k + 1][k + 1]
      OBVIOUS
    <3>1. F[m][k + 1] = Step(F[m], k + 1) /\ F[k + 1][k + 1] = Step(F[k + 1], k + 1)
      BY <1>3
    <3>2. F[m][k] = F[k][k] /\ F[k + 1][k] = F[k][k]
      BY <2>2
    <3>3. k + 1 # 0 /\ (k + 1) - 1 = k
      OBVIOUS
    <3> QED BY <1>1, <3>1, <3>2, <3>3
  <2>3. Nat \subseteq S
    <3> HIDE DEF S
    <3> QED BY <2>1, <2>2, SetInduction
  <2> QED BY <2>3
<1> DEFINE g == [k \in Nat |-> F[k][k]]
<1>5. ASSUME NEW k \in Nat PROVE g[k] = Step(g, k)
  <2>1. F[k][k] = Step(F[k], k)
    BY <1>3
  <2>2. k # 0 => F[k][k - 1] = g[k - 1]
    BY <1>4
  <2> QED BY <1>1, <2>1, <2>2
<1>6. g = [k \in Nat |-> Step(g, k)]
  <2> HIDE DEF g
  <2>1. g = [k \in Nat |-> g[k]]
    BY DEF g
  <2> QED BY <1>5, <2>1
<1>7. g = [n \in Nat |-> IF n = 0 THEN 10 * (Speed + Site + 1)
                         ELSE (7 * g[n - 1] + 30) \div 10]
  <2> HIDE DEF g
  <2> QED BY <1>6 DEF Step, Faded
<1> QED BY <1>7

(* What Fade is, and that it never rises.                                  *)
LEMMA FadeIs ==
  /\ Fade[0] = 10 * (Speed + Site + 1)
  /\ \A n \in Nat : Fade[n + 1] = Faded(Fade[n]) /\ Fade[n] \in Nat /\ Fade[n] >= 10
<1> DEFINE Satisfies(f) == f = [n \in Nat |-> IF n = 0 THEN 10 * (Speed + Site + 1)
                                              ELSE (7 * f[n - 1] + 30) \div 10]
<1>1. Satisfies(Fade)
  <2>1. Fade = CHOOSE f : Satisfies(f)
    BY DEF Fade
  <2>2. \E f : Satisfies(f)
    BY FadeExists
  <2> HIDE DEF Satisfies
  <2> QED BY <2>1, <2>2
<1>2. Fade[0] = 10 * (Speed + Site + 1)
  BY <1>1
<1>3. \A n \in Nat : Fade[n + 1] = Faded(Fade[n])
  BY <1>1 DEF Faded
<1> HIDE DEF Satisfies
<1>4. \A n \in Nat : Fade[n] \in Nat /\ Fade[n] >= 10
  <2> DEFINE S == {n \in Nat : Fade[n] \in Nat /\ Fade[n] >= 10}
  <2>1. 0 \in S
    BY <1>2, Constants
  <2>2. ASSUME NEW n \in Nat, n \in S PROVE n + 1 \in S
    BY <1>3, <2>2, FadedIs
  <2>3. Nat \subseteq S
    <3> HIDE DEF S
    <3> QED BY <2>1, <2>2, SetInduction
  <2> QED BY <2>3
<1> QED BY <1>2, <1>3, <1>4

(* More steps never leave more.                                            *)
LEMMA FadeFalls == \A n, m \in Nat : n <= m => Fade[m] <= Fade[n]
<1> SUFFICES ASSUME NEW n \in Nat PROVE \A m \in Nat : n <= m => Fade[m] <= Fade[n]
  OBVIOUS
<1> DEFINE S == {m \in Nat : n <= m => Fade[m] <= Fade[n]}
<1>1. 0 \in S
  <2>1. n <= 0 => n = 0
    OBVIOUS
  <2> QED BY <2>1, FadeIs
<1>2. ASSUME NEW m \in Nat, m \in S PROVE m + 1 \in S
  <2>1. Fade[m + 1] <= Fade[m] /\ Fade[m + 1] \in Nat /\ Fade[m] \in Nat /\ Fade[n] \in Nat
    BY FadeIs, FadedIs
  <2>2. n <= m + 1 => n <= m \/ n = m + 1
    OBVIOUS
  <2> QED BY <1>2, <2>1, <2>2
<1>3. Nat \subseteq S
  <2> HIDE DEF S
  <2> QED BY <1>1, <1>2, SetInduction
<1> QED BY <1>3

-----------------------------------------------------------------------------
(* The filter: a quotient stays within what its dividend does.             *)
LEMMA QuotientWithin ==
  ASSUME NEW n \in Int, NEW x \in Nat, NEW dt \in Nat \ {0}
  PROVE  /\ n >= -(x * dt) => Quotient(n, 10 * dt) >= -(x \div 10)
         /\ n <= x * dt => Quotient(n, 10 * dt) <= x \div 10
<1> DEFINE q == x \div 10
           d == 10 * dt
<1>1. q \in Nat /\ x <= 10 * q + 9
  OBVIOUS
<1>2. d \in Nat \ {0}
  OBVIOUS
<1>3. x * dt < (q + 1) * d
  <2>1. x * dt <= (10 * q + 9) * dt
    <3>1. \A y, z \in Nat : y <= z => y * dt <= z * dt
      OBVIOUS
    <3> HIDE DEF q
    <3> QED BY <1>1, <3>1
  <2>2. (10 * q + 9) * dt = q * d + 9 * dt
    <3> HIDE DEF q
    <3> QED BY <1>1
  <2>3. (q + 1) * d = q * d + d
    <3> HIDE DEF q, d
    <3> QED BY <1>1, <1>2
  <2> DEFINE qd == q * d
             xd == x * dt
  <2>4. qd \in Nat /\ xd \in Nat
    <3> HIDE DEF q, d
    <3> QED BY <1>1, <1>2
  <2> HIDE DEF qd, xd, q
  <2> QED BY <2>1, <2>2, <2>3, <2>4 DEF qd, xd
<1>4. ASSUME NEW a \in Nat, a <= x * dt PROVE a \div d \in Nat /\ a \div d <= q
  <2> DEFINE k == a \div d
             top == (q + 1) * d
  <2>1. k \in Nat /\ k * d <= a
    BY <1>2
  <2>2. a < top
    <3> DEFINE xd == x * dt
    <3>1. xd \in Nat /\ top \in Nat
      <4> HIDE DEF q, d
      <4> QED BY <1>1, <1>2
    <3> HIDE DEF top, xd
    <3> QED BY <1>3, <1>4, <3>1 DEF xd, top
  <2>3. k < q + 1
    <3>1. \A u, v \in Nat : u >= v => u * d >= v * d
      <4> HIDE DEF d
      <4> QED BY <1>2
    <3>2. k * d \in Nat /\ top \in Nat
      <4> HIDE DEF d, q, k
      <4> QED BY <1>1, <1>2, <2>1
    <3>3. k >= q + 1 => k * d >= top
      <4> HIDE DEF d, q, k
      <4> QED BY <1>1, <2>1, <3>1
    <3> DEFINE kd == k * d
    <3> HIDE DEF kd, top, k, q
    <3> QED BY <1>1, <2>1, <2>2, <3>2, <3>3 DEF kd
  <2> HIDE DEF q, d, k
  <2> QED BY <1>1, <2>1, <2>3 DEF k
<1>5. x * dt \in Nat
  OBVIOUS
<1> DEFINE xd == x * dt
<1> HIDE DEF xd
<1>6. CASE n < 0
  <2>1. Quotient(n, d) = -((-n) \div d) /\ -n \in Nat
    BY <1>6 DEF Quotient
  <2>2. n >= -xd => (-n) \div d <= q
    <3>1. n >= -xd => -n <= xd
      BY <1>5 DEF xd
    <3> HIDE DEF d, q
    <3> QED BY <1>4, <2>1, <3>1 DEF xd
  <2>3. (-n) \div d \in Nat
    BY <1>2, <2>1
  <2> HIDE DEF d, q
  <2> QED BY <1>1, <2>1, <2>2, <2>3 DEF d, q, xd
<1>7. CASE ~(n < 0)
  <2>1. Quotient(n, d) = n \div d /\ n \in Nat /\ n \div d \in Nat
    BY <1>2, <1>7 DEF Quotient
  <2>2. n <= xd => n \div d <= q
    BY <1>4, <2>1 DEF xd
  <2> HIDE DEF d, q
  <2> QED BY <1>1, <2>1, <2>2 DEF d, q, xd
<1> QED BY <1>6, <1>7

(* and falls as far as its dividend does.                                  *)
LEMMA QuotientBelow ==
  ASSUME NEW n \in Int, NEW x \in Nat, NEW dt \in Nat \ {0}, n <= -(x * (10 * dt))
  PROVE  Quotient(n, 10 * dt) <= -x
<1> DEFINE d == 10 * dt
           xd == x * d
<1>1. d \in Nat \ {0} /\ xd \in Nat
  OBVIOUS
<1>2. n <= -xd
  OBVIOUS
<1>3. xd \div d = x
  <2> HIDE DEF d
  <2> QED BY <1>1
<1> HIDE DEF xd
<1>4. CASE n < 0
  <2>1. Quotient(n, d) = -((-n) \div d) /\ -n \in Nat /\ -n >= xd
    BY <1>1, <1>2, <1>4 DEF Quotient
  <2>2. \A a, b \in Nat : a >= b => a \div d >= b \div d
    <3> HIDE DEF d
    <3> QED BY <1>1
  <2>3. (-n) \div d >= x /\ (-n) \div d \in Int
    <3> HIDE DEF d
    <3> QED BY <1>1, <1>3, <2>1, <2>2
  <2> HIDE DEF d
  <2> QED BY <2>1, <2>3 DEF d
<1>5. CASE ~(n < 0)
  <2>1. n = 0 /\ xd = 0
    BY <1>1, <1>2, <1>5
  <2>2. x = 0
    <3> HIDE DEF d
    <3>1. 0 \div d = 0
      BY <1>1
    <3> QED BY <1>3, <2>1, <3>1
  <2>3. Quotient(n, d) = 0
    BY <1>1, <2>1 DEF Quotient
  <2> QED BY <2>2, <2>3
<1> QED BY <1>4, <1>5

Within(n, bound) == -bound <= n /\ n <= bound

(* The filter over a changed pressure: it stays within a bound, ...        *)
LEMMA FilterWithin ==
  ASSUME NEW r \in Int, NEW b \in Nat, Within(r, b), NEW dt \in Nat \ {0},
         NEW c \in Nat, NEW d \in Int, Within(d, c * dt)
  PROVE  Within(Quotient(7 * r * dt + 30 * d, 10 * dt), (7 * b + 30 * c) \div 10)
<1> DEFINE rd == r * dt
           bd == b * dt
           cd == c * dt
           x == 7 * b + 30 * c
           n == 7 * r * dt + 30 * d
<1>1. rd \in Int /\ bd \in Nat /\ cd \in Nat /\ x \in Nat
  OBVIOUS
<1>2. -bd <= rd /\ rd <= bd
  <2>1. \A y, z \in Int : y <= z => y * dt <= z * dt
    OBVIOUS
  <2>2. (-b) * dt = -bd
    OBVIOUS
  <2> QED BY <2>1, <2>2 DEF Within
<1>3. -cd <= d /\ d <= cd
  BY DEF Within
<1>4. n = 7 * rd + 30 * d /\ x * dt = 7 * bd + 30 * cd
  OBVIOUS
<1>5. n \in Int /\ n >= -(x * dt) /\ n <= x * dt
  <2> HIDE DEF rd, bd, cd, n, x
  <2> QED BY <1>1, <1>2, <1>3, <1>4
<1> HIDE DEF n, x
<1>6. Quotient(n, 10 * dt) >= -(x \div 10) /\ Quotient(n, 10 * dt) <= x \div 10
  BY <1>1, <1>5, QuotientWithin
<1> QED BY <1>6 DEF Within, n, x

(* above one with the altitude, ...                                        *)
LEMMA FilterAbove ==
  ASSUME NEW r \in Int, NEW b \in Nat, r >= -b, NEW dt \in Nat \ {0},
         NEW c \in Nat, NEW d \in Int, d >= -(c * dt)
  PROVE  Quotient(7 * r * dt + 30 * d, 10 * dt) >= -((7 * b + 30 * c) \div 10)
<1> DEFINE rd == r * dt
           bd == b * dt
           cd == c * dt
           x == 7 * b + 30 * c
           n == 7 * r * dt + 30 * d
<1>1. rd \in Int /\ bd \in Nat /\ cd \in Nat /\ x \in Nat
  OBVIOUS
<1>2. -bd <= rd
  <2>1. \A y, z \in Int : y <= z => y * dt <= z * dt
    OBVIOUS
  <2>2. (-b) * dt = -bd
    OBVIOUS
  <2> QED BY <2>1, <2>2
<1>3. n = 7 * rd + 30 * d /\ x * dt = 7 * bd + 30 * cd /\ -cd <= d
  OBVIOUS
<1>4. n \in Int /\ n >= -(x * dt)
  <2> HIDE DEF rd, bd, cd, n, x
  <2> QED BY <1>1, <1>2, <1>3
<1> HIDE DEF n, x
<1>5. Quotient(n, 10 * dt) >= -(x \div 10)
  BY <1>1, <1>4, QuotientWithin
<1> QED BY <1>5 DEF n, x

(* does not fall where the altitude rises, ...                             *)
LEMMA FilterRises ==
  ASSUME NEW r \in Int, NEW f \in Nat, r >= -f, NEW dt \in Nat \ {0},
         NEW d \in Int, d >= 0
  PROVE  Quotient(7 * r * dt + 30 * d, 10 * dt) >= -f
<1> DEFINE rd == r * dt
           fd == f * dt
           x == 7 * f
           n == 7 * r * dt + 30 * d
<1>1. rd \in Int /\ fd \in Nat /\ x \in Nat /\ x \div 10 <= f /\ x \div 10 \in Nat
  OBVIOUS
<1>2. -fd <= rd
  <2>1. \A y, z \in Int : y <= z => y * dt <= z * dt
    OBVIOUS
  <2>2. (-f) * dt = -fd
    OBVIOUS
  <2> QED BY <2>1, <2>2
<1>3. n = 7 * rd + 30 * d /\ x * dt = 7 * fd
  OBVIOUS
<1>4. n \in Int /\ n >= -(x * dt)
  <2> HIDE DEF rd, fd, n, x
  <2> QED BY <1>1, <1>2, <1>3
<1>5. 10 * dt \in Nat /\ 10 * dt > 0
  OBVIOUS
<1> HIDE DEF n, x
<1>6. Quotient(n, 10 * dt) >= -(x \div 10)
  BY <1>1, <1>4, QuotientWithin
<1> DEFINE q == Quotient(n, 10 * dt)
<1>7. q \in Int
  <2>1. n \in Int
    BY <1>4
  <2>2. CASE n < 0
    BY <1>5, <2>1, <2>2 DEF Quotient
  <2>3. CASE ~(n < 0)
    BY <1>5, <2>1, <2>3 DEF Quotient
  <2> QED BY <2>2, <2>3
<1> HIDE DEF q
<1>8. q >= -f
  <2> DEFINE y == x \div 10
  <2>1. y \in Nat /\ y <= f /\ q >= -y
    BY <1>1, <1>6 DEF q
  <2> HIDE DEF y
  <2> QED BY <1>7, <2>1
<1> QED BY <1>8 DEF q, n

(* and stays fallen where it falls as fast.                                *)
LEMMA FilterFalls ==
  ASSUME NEW r \in Int, NEW s \in Nat, r <= -s, NEW dt \in Nat \ {0},
         NEW v \in Nat, s <= 10 * v, NEW d \in Int, d = -(v * dt)
  PROVE  Quotient(7 * r * dt + 30 * d, 10 * dt) <= -s
<1> DEFINE rd == r * dt
           sd == s * dt
           vd == v * dt
           n == 7 * r * dt + 30 * d
<1>1. rd \in Int /\ sd \in Nat /\ vd \in Nat
  OBVIOUS
<1>2. rd <= -sd /\ sd <= 10 * vd
  <2>1. \A y, z \in Int : y <= z => y * dt <= z * dt
    OBVIOUS
  <2>2. (-s) * dt = -sd /\ (10 * v) * dt = 10 * vd
    OBVIOUS
  <2> QED BY <2>1, <2>2
<1>3. n = 7 * rd + 30 * d /\ s * (10 * dt) = 10 * sd /\ d = -vd
  OBVIOUS
<1>4. n \in Int /\ n <= -(s * (10 * dt))
  <2> HIDE DEF rd, sd, vd, n
  <2> QED BY <1>1, <1>2, <1>3
<1> HIDE DEF n
<1>5. Quotient(n, 10 * dt) <= -s
  BY <1>4, QuotientBelow
<1> QED BY <1>5 DEF n

(* What it is above the rate of the fall, it loses as a rate fades.        *)
LEMMA FilterSinks ==
  ASSUME NEW r \in Int, NEW f \in Nat, NEW v \in Nat, r <= 2 * f - 10 * v
  PROVE  Quotient(7 * r - 30 * v, 10) <= 2 * Faded(f) - 10 * v
<1> DEFINE n == 7 * r - 30 * v
           g == Faded(f)
<1>1. g \in Int /\ 10 * g >= 7 * f + 21
  BY DEF Faded
<1>2. n \in Int /\ n <= 14 * f - 100 * v
  OBVIOUS
<1> HIDE DEF n, g
<1>3. CASE n < 0
  <2> DEFINE q == (-n) \div 10
  <2>1. q \in Int /\ 10 * q >= -n - 9
    BY <1>2, <1>3
  <2>2. Quotient(n, 10) = -q
    BY <1>3 DEF Quotient
  <2> HIDE DEF q
  <2>3. -q <= 2 * g - 10 * v
    BY <1>1, <1>2, <2>1
  <2> QED BY <2>2, <2>3 DEF n, g
<1>4. CASE ~(n < 0)
  <2> DEFINE q == n \div 10
  <2>1. q \in Int /\ 10 * q <= n
    BY <1>2, <1>4
  <2>2. Quotient(n, 10) = q
    BY <1>4 DEF Quotient
  <2> HIDE DEF q
  <2>3. q <= 2 * g - 10 * v
    BY <1>1, <1>2, <2>1
  <2> QED BY <2>2, <2>3 DEF n, g
<1> QED BY <1>3, <1>4

(* Over an unchanged one it decays.                                        *)
LEMMA Decays ==
  ASSUME NEW r \in Int
  PROVE  /\ \A b \in Nat : Within(r, b) => Within(Quotient(7 * r, 10), (7 * b) \div 10)
         /\ \A f \in Nat : r >= -f => Quotient(7 * r, 10) >= -f
<1>1. ASSUME NEW b \in Nat
      PROVE  /\ r >= -b => Quotient(7 * r, 10) >= -((7 * b) \div 10)
             /\ r <= b => Quotient(7 * r, 10) <= (7 * b) \div 10
  <2>1. /\ 7 * r \in Int /\ 7 * b \in Nat
        /\ 10 * 1 = 10 /\ (7 * b) * 1 = 7 * b /\ 1 \in Nat \ {0}
    OBVIOUS
  <2>2. /\ 7 * r >= -((7 * b) * 1) => Quotient(7 * r, 10 * 1) >= -((7 * b) \div 10)
        /\ 7 * r <= (7 * b) * 1 => Quotient(7 * r, 10 * 1) <= (7 * b) \div 10
    BY <2>1, QuotientWithin
  <2>3. /\ 7 * r >= -(7 * b) => Quotient(7 * r, 10) >= -((7 * b) \div 10)
        /\ 7 * r <= 7 * b => Quotient(7 * r, 10) <= (7 * b) \div 10
    BY <2>1, <2>2
  <2> QED BY <2>3
<1>2. ASSUME NEW f \in Nat, r >= -f PROVE Quotient(7 * r, 10) >= -f
  <2> DEFINE y == (7 * f) \div 10
             q == Quotient(7 * r, 10)
  <2>1. y \in Nat /\ y <= f
    OBVIOUS
  <2>2. q \in Int
    BY DEF Quotient
  <2>3. q >= -y
    BY <1>1, <1>2
  <2> HIDE DEF y, q
  <2>4. q >= -f
    BY <2>1, <2>2, <2>3
  <2> QED BY <2>4 DEF q
<1> QED BY <1>1, <1>2 DEF Within

(* The truncated quotient of the filter is an integer. *)
LEMMA QuotientInt ==
  ASSUME NEW n \in Int, NEW d \in Nat, d > 0
  PROVE  Quotient(n, d) \in Int
<1>1. CASE n < 0
  <2>1. (-n) \div d \in Int
    OBVIOUS
  <2> QED
    BY <1>1, <2>1 DEF Quotient
<1>2. CASE ~(n < 0)
  <2>1. n \div d \in Int
    OBVIOUS
  <2> QED
    BY <1>2, <2>1 DEF Quotient
<1> QED
  BY <1>1, <1>2

-----------------------------------------------------------------------------
(* What an update of the machine at t does once the self-test is over: it  *)
(* enters FAULT with a critical fault and with nothing else, and its       *)
(* launch timer runs only in READY, armed and with thrust.                 *)
LEMMA MachineMoves ==
  ASSUME Machine!TypeOK, state \in Operating, NEW t \in Nat, NEW in,
         state # "ready" => launch_condition_since_ms = 0,
         Machine!Update(t, in)
  PROVE  /\ state' \in Operating /\ entered_ms' \in Nat
         /\ launch_condition_since_ms' \in Nat /\ rest_condition_since_ms' \in Nat
         /\ descent_since_ms' \in Nat /\ descent_observed' \in BOOLEAN
         /\ state' = "fault" <=> state = "fault" \/ in.critical_fault
         /\ launch_condition_since_ms' # 0 =>
              /\ state' = "ready" /\ in.armed /\ in.thrust
              /\ launch_condition_since_ms' \in {launch_condition_since_ms, t}
         /\ state = "ready" /\ state' = "flight" =>
              /\ in.armed /\ in.thrust
              /\ t - Machine!Timer(launch_condition_since_ms, TRUE, t) >= LaunchConfirm
<1> USE DEF Operating
<1>1. ASSUME NEW s \in {"fault", "landed", "recovery"}, Machine!Enter(s, t)
      PROVE  /\ state' = s /\ entered_ms' = t
             /\ launch_condition_since_ms' = 0 /\ rest_condition_since_ms' = 0
             /\ descent_since_ms' = 0 /\ descent_observed' = FALSE
  BY <1>1 DEF Machine!Enter
<1>2. CASE in.critical_fault /\ state # "fault"
  <2>1. Machine!Enter("fault", t)
    BY <1>2 DEF Machine!Update, Machine!LatchFault
  <2>2. /\ state' = "fault" /\ entered_ms' = t
        /\ launch_condition_since_ms' = 0 /\ rest_condition_since_ms' = 0
        /\ descent_since_ms' = 0 /\ descent_observed' = FALSE
    BY <1>1, <2>1
  <2>3. descent_observed' \in BOOLEAN
    BY <2>2
  <2> QED
    BY <1>2, <2>2, <2>3
<1>3. CASE ~(in.critical_fault /\ state # "fault")
  <2>1. \/ Machine!AwaitLaunch(t, in) \/ Machine!Fly(t, in)
        \/ Machine!AwaitRecovery(t) \/ Machine!Remain
    BY <1>3 DEF Machine!Update, Machine!StartSelfTest, Machine!FinishSelfTest
  <2>2. CASE Machine!AwaitLaunch(t, in)
    <3> DEFINE holds == in.armed /\ in.thrust
               since == Machine!Timer(launch_condition_since_ms, holds, t)
    <3>1. CASE holds /\ t - since >= LaunchConfirm
      <4>1. Machine!Enter("flight", t) /\ state = "ready"
        BY <2>2, <3>1 DEF Machine!AwaitLaunch
      <4>2. since = Machine!Timer(launch_condition_since_ms, TRUE, t)
        BY <3>1 DEF Machine!Timer
      <4>3. descent_observed' \in BOOLEAN
        BY <4>1 DEF Machine!Enter
      <4> QED
        BY <1>3, <3>1, <4>1, <4>2, <4>3 DEF Machine!Enter
    <3>2. CASE ~(holds /\ t - since >= LaunchConfirm)
      <4>1. /\ launch_condition_since_ms' = since /\ state = "ready"
            /\ UNCHANGED <<state, entered_ms, rest_condition_since_ms,
                           descent_since_ms, descent_observed>>
        BY <2>2, <3>2 DEF Machine!AwaitLaunch
      <4>2. since # 0 =>
              in.armed /\ in.thrust /\ since \in {launch_condition_since_ms, t}
        BY DEF Machine!Timer
      <4>3. since \in Nat
        BY DEF Machine!Timer, Machine!TypeOK
      <4>4. /\ state' = "ready" /\ entered_ms' \in Nat /\ rest_condition_since_ms' \in Nat
            /\ descent_since_ms' \in Nat /\ descent_observed' \in BOOLEAN
        BY <4>1 DEF Machine!TypeOK
      <4> HIDE DEF holds, since
      <4> QED
        BY <1>3, <4>1, <4>2, <4>3, <4>4
    <3> QED
      BY <3>1, <3>2
  <2>3. CASE Machine!Fly(t, in)
    <3>1. CASE Machine!Enter("landed", t)
      <4>1. /\ state' = "landed" /\ entered_ms' = t
            /\ launch_condition_since_ms' = 0 /\ rest_condition_since_ms' = 0
            /\ descent_since_ms' = 0 /\ descent_observed' = FALSE
        BY <1>1, <3>1
      <4>2. descent_observed' \in BOOLEAN
        BY <4>1
      <4>3. state = "flight"
        BY <2>3 DEF Machine!Fly
      <4> QED
        BY <1>3, <4>1, <4>2, <4>3
    <3>2. CASE ~Machine!Enter("landed", t)
      <4>1. /\ descent_since_ms' = Machine!Timer(descent_since_ms, Machine!Falling(in), t)
            /\ descent_observed' = Machine!Observed(t, in)
            /\ \/ rest_condition_since_ms' = rest_condition_since_ms
               \/ rest_condition_since_ms' =
                    Machine!Timer(rest_condition_since_ms,
                                  Machine!AtRest(in) /\ Machine!Observed(t, in), t)
            /\ state = "flight"
            /\ UNCHANGED <<state, entered_ms, launch_condition_since_ms>>
        BY <2>3, <3>2 DEF Machine!Fly
      <4>2. descent_since_ms' \in Nat /\ rest_condition_since_ms' \in Nat
        BY <4>1 DEF Machine!Timer, Machine!TypeOK
      <4>3. descent_observed' \in BOOLEAN
        BY <4>1 DEF Machine!Observed, Machine!TypeOK
      <4>4. entered_ms' \in Nat /\ launch_condition_since_ms' = 0
        BY <4>1 DEF Machine!TypeOK
      <4> QED
        BY <1>3, <4>1, <4>2, <4>3, <4>4
    <3> QED
      BY <3>1, <3>2
  <2>4. CASE Machine!AwaitRecovery(t) \/ Machine!Remain
    <3>1. CASE Machine!Enter("recovery", t) /\ state = "landed"
      <4>1. /\ state' = "recovery" /\ entered_ms' = t
            /\ launch_condition_since_ms' = 0 /\ rest_condition_since_ms' = 0
            /\ descent_since_ms' = 0 /\ descent_observed' = FALSE
        BY <1>1, <3>1
      <4>2. descent_observed' \in BOOLEAN
        BY <4>1
      <4> QED
        BY <1>3, <3>1, <4>1, <4>2
    <3>2. CASE UNCHANGED Machine!machine /\ state # "ready"
      <4>1. UNCHANGED <<state, entered_ms, launch_condition_since_ms,
                        rest_condition_since_ms, descent_since_ms, descent_observed>>
        BY <3>2 DEF Machine!machine, Machine!timers
      <4>2. descent_observed' \in BOOLEAN
        BY <4>1 DEF Machine!TypeOK
      <4> QED
        BY <1>3, <3>2, <4>1, <4>2 DEF Machine!TypeOK
    <3> QED
      BY <2>4, <3>1, <3>2 DEF Machine!AwaitRecovery, Machine!Remain
  <2> QED
    BY <2>1, <2>2, <2>3, <2>4
<1> QED
  BY <1>2, <1>3

-----------------------------------------------------------------------------
(* The invariant of the sensors and of the launch holds at first.          *)
LEMMA InvInit ==
  ASSUME Init
  PROVE  SensingInv
<1>1. Machine!TypeOK /\ state \in Operating
  BY DEF Init, Machine!TypeOK, Machine!States, Operating
<1>2. imu_ok \in BOOLEAN /\ baro_ok \in BOOLEAN
  BY DEF Init, ImuBegins, BaroBegins
<1>3. imu_valid \in BOOLEAN /\ baro_valid \in BOOLEAN
  BY <1>2 DEF Init
<1>4. 0 \in 0 .. 0 /\ 0 \in 0 .. Ceiling /\ 0 \in 0 .. MaxMisses
  BY Constants
<1>5. TypeOK
  <2>1. accel_rough \in BOOLEAN /\ settled \in BOOLEAN /\ baseline_ready \in BOOLEAN
    BY DEF Init
  <2>2. {imu_ok, baro_ok, imu_valid, baro_valid, accel_rough, settled,
         baseline_ready} \subseteq BOOLEAN
    BY <1>2, <1>3, <2>1, Zenon
  <2>3. level \in BOOLEAN
    BY DEF Init
  <2> QED
    BY <1>1, <1>4, <2>2, <2>3 DEF Init, TypeOK, Places
<1> QED
  BY <1>1, <1>5 DEF Init, SensingInv, StaleIsLate, Launching

(* What a poll makes of the two sensors, their deadlines and their faults. *)
LEMMA SensorsOfPoll ==
  ASSUME SensingInv,
         NEW imu_outcome \in OutcomesOf(imu_ok), NEW baro_outcome \in OutcomesOf(baro_ok),
         NEW noise \in {0, 1}, NEW rough \in BOOLEAN,
         Poll(imu_outcome, baro_outcome, noise, rough)
  PROVE  /\ imu_valid' \in BOOLEAN /\ baro_valid' \in BOOLEAN
         /\ last_good_imu_ms' \in 0 .. now' /\ last_good_baro_ms' \in 0 .. now'
         /\ faults' \subseteq Codes
         /\ "imu_stale" \in faults' <=> now' - last_good_imu_ms' > SensorStale
         /\ "baro_stale" \in faults' <=> now' - last_good_baro_ms' > SensorStale
         /\ imu_valid' => now' - last_good_imu_ms' <= SensorStale
         /\ baro_valid' => now' - last_good_baro_ms' <= SensorStale
<1>1. /\ now \in Nat /\ last_good_imu_ms \in 0 .. now /\ last_good_baro_ms \in 0 .. now
      /\ imu_valid \in BOOLEAN /\ baro_valid \in BOOLEAN /\ now' = now + 1
  BY DEF SensingInv, TypeOK, Machine!TypeOK, Poll
<1>2. /\ AcquireImu(imu_outcome) /\ AcquireBaro(baro_outcome)
      /\ RaiseFaults(imu_outcome, baro_outcome)
  BY DEF Poll
<1>3. faults' \subseteq Codes
  BY <1>2 DEF RaiseFaults, StaleFaults, Codes
<1>4. /\ "imu_stale" \in faults' <=>
            imu_outcome # "good" /\ (Late(last_good_imu_ms) \/ "imu_stale" \in faults)
      /\ "baro_stale" \in faults' <=>
            baro_outcome # "good" /\ (Late(last_good_baro_ms) \/ "baro_stale" \in faults)
  BY <1>2 DEF RaiseFaults, StaleFaults
(* An active stale fault had its sensor late, and it is later now. *)
<1>5. ASSUME NEW last_good \in 0 .. now, now - last_good > SensorStale
      PROVE  Late(last_good)
  BY <1>1, <1>5, Constants DEF Late
<1>6. /\ "imu_stale" \in faults => Late(last_good_imu_ms)
      /\ "baro_stale" \in faults => Late(last_good_baro_ms)
  BY <1>1, <1>5 DEF SensingInv, StaleIsLate
<1>7. /\ last_good_imu_ms' \in 0 .. now' /\ imu_valid' \in BOOLEAN
      /\ "imu_stale" \in faults' <=> now' - last_good_imu_ms' > SensorStale
      /\ imu_valid' => now' - last_good_imu_ms' <= SensorStale
  <2>1. CASE imu_outcome = "good"
    <3>1. last_good_imu_ms' = now' /\ "imu_stale" \notin faults' /\ imu_valid' \in BOOLEAN
      BY <1>2, <1>4, <2>1 DEF AcquireImu
    <3> QED
      BY <1>1, <3>1, Constants
  <2>2. CASE imu_outcome # "good"
    <3>1. /\ last_good_imu_ms' = last_good_imu_ms
          /\ imu_valid' => ~Late(last_good_imu_ms)
          /\ imu_valid' \in BOOLEAN
      BY <1>2, <2>2 DEF AcquireImu
    <3>2. "imu_stale" \in faults' <=> Late(last_good_imu_ms)
      BY <1>4, <1>6, <2>2
    <3> QED
      BY <1>1, <3>1, <3>2, Constants DEF Late
  <2> QED
    BY <2>1, <2>2
<1>8. /\ last_good_baro_ms' \in 0 .. now' /\ baro_valid' \in BOOLEAN
      /\ "baro_stale" \in faults' <=> now' - last_good_baro_ms' > SensorStale
      /\ baro_valid' => now' - last_good_baro_ms' <= SensorStale
  <2>1. CASE baro_outcome = "good"
    <3>1. last_good_baro_ms' = now' /\ "baro_stale" \notin faults' /\ baro_valid' \in BOOLEAN
      BY <1>2, <1>4, <2>1 DEF AcquireBaro
    <3> QED
      BY <1>1, <3>1, Constants
  <2>2. CASE baro_outcome # "good"
    <3>1. /\ last_good_baro_ms' = last_good_baro_ms
          /\ baro_valid' => ~Late(last_good_baro_ms)
          /\ baro_valid' \in BOOLEAN
      BY <1>2, <2>2 DEF AcquireBaro
    <3>2. "baro_stale" \in faults' <=> Late(last_good_baro_ms)
      BY <1>4, <1>6, <2>2
    <3> QED
      BY <1>1, <3>1, <3>2, Constants DEF Late
  <2> QED
    BY <2>1, <2>2
<1> QED
  BY <1>3, <1>7, <1>8

(* What a poll makes of the altitude: it is the reading's, from now on, or *)
(* what it was.                                                            *)
LEMMA AltitudeOfPoll ==
  ASSUME SensingInv,
         NEW imu_outcome \in OutcomesOf(imu_ok), NEW baro_outcome \in OutcomesOf(baro_ok),
         NEW noise \in {0, 1}, NEW rough \in BOOLEAN,
         Poll(imu_outcome, baro_outcome, noise, rough),
         height' \in Nat
  PROVE  /\ altitude_rate' \in Int /\ last_altitude_agl_m' \in Int
         /\ last_reading' \in Nat /\ last_altitude_ms' \in 0 .. now'
         /\ \/ UNCHANGED <<last_altitude_ms, last_altitude_agl_m>>
            \/ /\ last_altitude_ms' = now'
               /\ last_altitude_agl_m' = Agl(Site + height' + noise)
<1> DEFINE reading == Site + height' + noise
<1>1. /\ now \in Nat /\ now' = now + 1 /\ last_altitude_ms \in 0 .. now
      /\ altitude_rate \in Int /\ last_altitude_agl_m \in Int /\ last_reading \in Nat
      /\ UpdateAltitude(baro_outcome, reading)
  BY DEF SensingInv, TypeOK, Machine!TypeOK, Poll
<1>2. reading \in Nat
  <2>1. noise \in Nat
    OBVIOUS
  <2>2. \A h \in Nat : Site + h + noise \in Nat
    BY <2>1, Constants
  <2> QED
    BY <2>2
<1> HIDE DEF reading
<1>3. Agl(reading) \in Int
  BY <1>2, Constants DEF Agl
<1>4. CASE baro_outcome # "good"
  BY <1>1, <1>4 DEF UpdateAltitude, altitude
<1>5. CASE baro_outcome = "good"
  <2> DEFINE dt == now' - last_altitude_ms
             moved == 7 * altitude_rate * dt + 30 * (Agl(reading) - last_altitude_agl_m)
             kept == 7 * altitude_rate
  <2>1. dt \in Nat /\ dt > 0
    BY <1>1
  <2>2. moved \in Int /\ kept \in Int
    <3>1. dt \in Int
      BY <2>1
    <3> HIDE DEF dt
    <3>2. 7 * altitude_rate * dt \in Int
      BY <1>1, <3>1
    <3> QED
      BY <1>1, <1>3, <3>2
  <2>3. 10 * dt \in Nat /\ 10 * dt > 0
    BY <2>1
  <2> HIDE DEF dt, moved, kept
  <2>4. Quotient(moved, 10 * dt) \in Int /\ Quotient(kept, 10) \in Int
    BY <2>2, <2>3, QuotientInt
  <2>5. Rate(reading) \in {altitude_rate, Quotient(moved, 10 * dt), Quotient(kept, 10)}
    BY DEF Rate, dt, moved, kept
  <2>6. altitude_rate' = Rate(reading)
    BY <1>1, <1>5 DEF UpdateAltitude
  <2>7. altitude_rate' \in Int
    BY <1>1, <2>4, <2>5, <2>6
  <2>8. \/ UNCHANGED <<last_altitude_ms, last_altitude_agl_m, last_reading>>
        \/ /\ last_altitude_ms' = now'
           /\ last_altitude_agl_m' = Agl(reading)
           /\ last_reading' = reading
    BY <1>1, <1>5 DEF UpdateAltitude
  <2> QED
    BY <1>1, <1>2, <1>3, <2>7, <2>8 DEF reading
<1> QED
  BY <1>4, <1>5

(* What a poll makes of the vehicle: none comes back to the pad.           *)
LEMMA VehicleOfPoll ==
  ASSUME SensingInv,
         NEW imu_outcome \in OutcomesOf(imu_ok), NEW baro_outcome \in OutcomesOf(baro_ok),
         NEW noise \in {0, 1}, NEW rough \in BOOLEAN,
         Poll(imu_outcome, baro_outcome, noise, rough)
  PROVE  /\ phase' \in Places /\ height' \in 0 .. Ceiling
         /\ phase' = "pad" => phase = "pad" /\ height' = 0
<1>1. phase \in Places /\ height \in 0 .. Ceiling /\ (phase = "pad" => height = 0)
  BY DEF SensingInv, TypeOK, Launching
<1>2. Move
  BY DEF Poll
<1>3. CASE UNCHANGED vehicle
  BY <1>1, <1>3 DEF vehicle
<1>4. CASE phase = "pad" /\ phase' = "lift" /\ UNCHANGED height
  BY <1>1, <1>4 DEF Places
<1>5. CASE /\ height' = IF height + Speed < Ceiling THEN height + Speed ELSE Ceiling
           /\ phase' \in {"hover", "lift"}
  <2>1. (IF height + Speed < Ceiling THEN height + Speed ELSE Ceiling) \in 0 .. Ceiling
    BY <1>1, Constants
  <2> QED
    BY <1>5, <2>1 DEF Places
<1>6. CASE /\ height' = IF height > Speed THEN height - Speed ELSE 0
           /\ phase' \in {"ground", "fall"}
  <2>1. (IF height > Speed THEN height - Speed ELSE 0) \in 0 .. Ceiling
    BY <1>1, Constants
  <2> QED
    BY <1>6, <2>1 DEF Places
<1> QED
  BY <1>2, <1>3, <1>4, <1>5, <1>6 DEF Move

(* What a poll makes of the calibration: it is over once it has settled.   *)
LEMMA CalibrationOfPoll ==
  ASSUME SensingInv,
         NEW imu_outcome \in OutcomesOf(imu_ok), NEW baro_outcome \in OutcomesOf(baro_ok),
         NEW noise \in {0, 1}, NEW rough \in BOOLEAN,
         Poll(imu_outcome, baro_outcome, noise, rough)
  PROVE  /\ settled \in BOOLEAN /\ settled' \in BOOLEAN
         /\ baseline_ready \in BOOLEAN /\ baseline_ready' \in BOOLEAN
         /\ settled => settled' /\ baseline_ready' = baseline_ready
         /\ baseline_ready => settled /\ baseline_ready'
         /\ baseline_ready' => settled'
<1>1. settled \in BOOLEAN /\ baseline_ready \in BOOLEAN
  BY Zenon DEF SensingInv, TypeOK
<1>2. baseline_ready => settled
  BY DEF SensingInv, Launching
<1>3. RunCalibration
  BY DEF Poll
<1>4. CASE UNCHANGED calibration
  BY <1>1, <1>2, <1>4 DEF calibration
<1>5. CASE /\ ~settled /\ settled' = TRUE
           /\ baseline_ready' \in {FALSE, last_altitude_ms' # 0}
  <2>1. CASE baseline_ready' = FALSE
    BY <1>1, <1>2, <1>5, <2>1
  <2>2. CASE baseline_ready' = (last_altitude_ms' # 0)
    BY <1>1, <1>2, <1>5, <2>2
  <2> QED BY <1>5, <2>1, <2>2
<1> QED BY <1>3, <1>4, <1>5 DEF RunCalibration

(* What a poll makes of the mission.  Once there is a baseline an altitude *)
(* taken on the pad is the barometer's noise, and no thrust.               *)
LEMMA MissionOfPoll ==
  ASSUME SensingInv,
         NEW imu_outcome \in OutcomesOf(imu_ok), NEW baro_outcome \in OutcomesOf(baro_ok),
         NEW noise \in {0, 1}, NEW rough \in BOOLEAN,
         Poll(imu_outcome, baro_outcome, noise, rough)
  PROVE  /\ Machine!TypeOK' /\ state' \in Operating
         /\ state' = "fault" <=>
              state = "fault" \/ {"imu_stale", "baro_stale"} \subseteq faults'
         /\ launch_condition_since_ms' # 0 =>
              /\ state' = "ready" /\ settled'
              /\ last_altitude_agl_m' > LaunchGain
              /\ launch_condition_since_ms' \in {launch_condition_since_ms, now'}
         /\ state = "ready" /\ state' = "flight" =>
              /\ last_altitude_agl_m' > LaunchGain
              /\ now' - Machine!Timer(launch_condition_since_ms, TRUE, now') >= LaunchConfirm
<1> DEFINE in ==
  [self_test_ok |-> TRUE,
   armed |-> imu_valid' /\ baro_valid' /\ settled' /\ now' >= ArmingDelay,
   thrust |-> last_altitude_agl_m' > LaunchGain,
   motion |-> Motion,
   critical_fault |-> {"imu_stale", "baro_stale"} \subseteq faults']
<1>1. Machine!Update(now', in)
  BY DEF Poll, FeedStateMachine
<1>2. /\ in.armed => settled'
      /\ in.thrust <=> last_altitude_agl_m' > LaunchGain
      /\ in.critical_fault <=> {"imu_stale", "baro_stale"} \subseteq faults'
  OBVIOUS
<1> HIDE DEF in
<1>3. now' \in Nat
  BY DEF SensingInv, TypeOK, Machine!TypeOK, Poll
<1>4. Machine!TypeOK /\ state \in Operating
      /\ (state # "ready" => launch_condition_since_ms = 0)
  BY DEF SensingInv, TypeOK, Launching
<1>5. /\ state' \in Operating /\ entered_ms' \in Nat
      /\ launch_condition_since_ms' \in Nat /\ rest_condition_since_ms' \in Nat
      /\ descent_since_ms' \in Nat /\ descent_observed' \in BOOLEAN
      /\ state' = "fault" <=> state = "fault" \/ in.critical_fault
      /\ launch_condition_since_ms' # 0 =>
           /\ state' = "ready" /\ in.armed /\ in.thrust
           /\ launch_condition_since_ms' \in {launch_condition_since_ms, now'}
      /\ state = "ready" /\ state' = "flight" =>
           /\ in.armed /\ in.thrust
           /\ now' - Machine!Timer(launch_condition_since_ms, TRUE, now') >= LaunchConfirm
  BY <1>1, <1>3, <1>4, MachineMoves, Zenon
<1>6. Machine!TypeOK'
  BY <1>3, <1>5 DEF Machine!TypeOK, Machine!States, Operating
<1> QED
  BY <1>2, <1>5, <1>6, Zenon

(* A launch timer that runs on the pad runs over one altitude, taken       *)
(* before it was started.                                                  *)
LEMMA TimerOnPad ==
  ASSUME SensingInv, OldAltitude,
         NEW imu_outcome \in OutcomesOf(imu_ok), NEW baro_outcome \in OutcomesOf(baro_ok),
         NEW noise \in {0, 1}, NEW rough \in BOOLEAN,
         Poll(imu_outcome, baro_outcome, noise, rough),
         phase' = "pad", baseline_ready', last_altitude_agl_m' > LaunchGain
  PROVE  /\ last_altitude_ms' <= now'
         /\ launch_condition_since_ms # 0 => last_altitude_ms' <= launch_condition_since_ms
<1>1. phase = "pad" /\ height' = 0
  BY VehicleOfPoll, Zenon
<1>2. now \in Nat /\ now' = now + 1 /\ last_altitude_ms \in 0 .. now
  BY DEF SensingInv, TypeOK, Machine!TypeOK, Poll
<1>3. height' \in Nat
  BY <1>1
<1>4. \/ UNCHANGED <<last_altitude_ms, last_altitude_agl_m>>
      \/ /\ last_altitude_ms' = now'
         /\ last_altitude_agl_m' = Agl(Site + height' + noise)
  BY <1>3, AltitudeOfPoll, Zenon
<1>0. launch_condition_since_ms # 0 => baseline_ready
  <2>1. launch_condition_since_ms # 0 => settled
    BY DEF SensingInv, Launching
  <2> QED BY <2>1, CalibrationOfPoll, Zenon
<1>5. CASE UNCHANGED <<last_altitude_ms, last_altitude_agl_m>>
  BY <1>0, <1>1, <1>2, <1>5 DEF OldAltitude
<1>6. CASE /\ last_altitude_ms' = now'
           /\ last_altitude_agl_m' = Agl(Site + height' + noise)
  <2>1. ~baseline_ready
    <3>1. SUFFICES ASSUME baseline_ready PROVE FALSE
      OBVIOUS
    <3>2. \A h : h = 0 => (Site + h + noise) - Site = noise
      BY Constants
    <3>3. last_altitude_agl_m' = noise
      BY <1>1, <1>6, <3>1, <3>2 DEF Agl
    <3> QED
      BY <3>3, Constants, Margins
  <2>2. launch_condition_since_ms = 0
    BY <1>0, <2>1
  <2> QED
    BY <1>2, <1>6, <2>2
<1> QED
  BY <1>4, <1>5, <1>6

-----------------------------------------------------------------------------
(* A poll keeps that invariant.                                            *)
LEMMA InvPoll ==
  ASSUME SensingInv,
         NEW imu_outcome \in OutcomesOf(imu_ok), NEW baro_outcome \in OutcomesOf(baro_ok),
         NEW noise \in {0, 1}, NEW rough \in BOOLEAN,
         Poll(imu_outcome, baro_outcome, noise, rough)
  PROVE  SensingInv'
<1>1. /\ imu_valid' \in BOOLEAN /\ baro_valid' \in BOOLEAN
      /\ last_good_imu_ms' \in 0 .. now' /\ last_good_baro_ms' \in 0 .. now'
      /\ faults' \subseteq Codes
  BY SensorsOfPoll, Zenon
<1>2. /\ phase' \in Places /\ height' \in 0 .. Ceiling
      /\ phase' = "pad" => phase = "pad" /\ height' = 0
  BY VehicleOfPoll, Zenon
<1>3. height' \in Nat
  BY <1>2, Constants
<1>4. /\ altitude_rate' \in Int /\ last_altitude_agl_m' \in Int
      /\ last_reading' \in Nat /\ last_altitude_ms' \in 0 .. now'
  BY <1>3, AltitudeOfPoll, Zenon
<1>5. /\ Machine!TypeOK' /\ state' \in Operating
      /\ launch_condition_since_ms' # 0 => state' = "ready" /\ settled'
  BY MissionOfPoll, Zenon
<1>6. {imu_ok', baro_ok', imu_valid', baro_valid', accel_rough', settled',
       baseline_ready'} \subseteq BOOLEAN
  <2>1. imu_ok \in BOOLEAN /\ baro_ok \in BOOLEAN /\ accel_rough \in BOOLEAN
    BY Zenon DEF SensingInv, TypeOK
  <2>2. UNCHANGED drivers
    BY DEF Poll
  <2>3. imu_ok' \in BOOLEAN /\ baro_ok' \in BOOLEAN
    BY <2>1, <2>2 DEF drivers
  <2>4. accel_rough' \in {rough, accel_rough}
    BY DEF Poll
  <2>5. settled' \in BOOLEAN /\ baseline_ready' \in BOOLEAN
    BY CalibrationOfPoll, Zenon
  <2>6. accel_rough' \in BOOLEAN
    BY <2>1, <2>4, Zenon
  <2> QED
    BY <1>1, <2>3, <2>5, <2>6, Zenon
<1>7. misses' \in 0 .. MaxMisses /\ fallen' \in Nat /\ quiet' \in Nat
  <2>1. misses \in 0 .. MaxMisses /\ fallen \in Nat /\ quiet \in Nat
    BY DEF SensingInv, TypeOK
  <2>2. misses' \in {misses, misses + 1} /\ misses' <= MaxMisses
    BY <2>1 DEF Poll
  <2>3. quiet' \in {0, quiet + 1} /\ fallen' \in {0, fallen, fallen + 1}
    BY DEF Poll
  <2> QED
    BY <2>1, <2>2, <2>3, Constants
<1>8. TypeOK'
  <2>1. level \in BOOLEAN
    BY DEF SensingInv, TypeOK
  <2>2. \/ level' = level
        \/ level' = (OnReference' /\ altitude_rate' >= -FallingRate)
    BY DEF Poll
  <2>3. level' \in BOOLEAN
    BY <2>1, <2>2, Zenon
  <2> QED
    BY <1>1, <1>2, <1>4, <1>5, <1>6, <1>7, <2>3 DEF TypeOK
<1>9. StaleIsLate'
  BY SensorsOfPoll, Zenon DEF StaleIsLate
<1>10. Launching'
  <2>1. baseline_ready' => settled'
    BY CalibrationOfPoll, Zenon
  <2> QED
    BY <1>2, <1>5, <2>1 DEF Launching
<1> QED
  BY <1>5, <1>8, <1>9, <1>10 DEF SensingInv

(* So does every step.                                                     *)
LEMMA InvStep ==
  ASSUME SensingInv, [Next]_vars
  PROVE  SensingInv'
<1>1. CASE Next
  <2>1. PICK imu_outcome \in OutcomesOf(imu_ok), baro_outcome \in OutcomesOf(baro_ok),
             noise \in {0, 1}, rough \in BOOLEAN :
               Poll(imu_outcome, baro_outcome, noise, rough)
    BY <1>1 DEF Next
  <2> QED
    BY <2>1, InvPoll
<1>2. CASE UNCHANGED vars
  <2>1. UNCHANGED <<now, state, entered_ms, launch_condition_since_ms,
                    rest_condition_since_ms, descent_since_ms, descent_observed,
                    imu_ok, baro_ok, imu_valid, accel_rough, last_good_imu_ms,
                    baro_valid, last_good_baro_ms, faults>>
    BY <1>2 DEF vars, machine, drivers, imu, baro
  <2>2. UNCHANGED <<last_altitude_ms, last_altitude_agl_m, last_reading,
                    altitude_rate, settled, baseline_ready, phase, height, misses,
                    fallen, quiet, level>>
    BY <1>2 DEF vars, altitude, calibration, vehicle
  <2> QED
    BY <2>1, <2>2 DEF SensingInv, TypeOK, Machine!TypeOK, StaleIsLate, Launching
<1> QED
  BY <1>1, <1>2

(* The launch timer of the pad keeps running over the old altitude.        *)
LEMMA OldAltitudeStep ==
  ASSUME SensingInv, OldAltitude, [Next]_vars
  PROVE  OldAltitude'
<1>1. CASE Next
  <2>1. PICK imu_outcome \in OutcomesOf(imu_ok), baro_outcome \in OutcomesOf(baro_ok),
             noise \in {0, 1}, rough \in BOOLEAN :
               Poll(imu_outcome, baro_outcome, noise, rough)
    BY <1>1 DEF Next
  <2>2. SUFFICES ASSUME phase' = "pad", launch_condition_since_ms' # 0, baseline_ready'
                 PROVE  last_altitude_ms' <= launch_condition_since_ms'
    BY DEF OldAltitude
  <2>3. /\ last_altitude_agl_m' > LaunchGain
        /\ launch_condition_since_ms' \in {launch_condition_since_ms, now'}
    BY <2>1, <2>2, MissionOfPoll, Zenon
  <2>4. /\ last_altitude_ms' <= now'
        /\ launch_condition_since_ms # 0 => last_altitude_ms' <= launch_condition_since_ms
    BY <2>1, <2>2, <2>3, TimerOnPad, Zenon
  <2> QED
    BY <2>2, <2>3, <2>4
<1>2. CASE UNCHANGED vars
  BY <1>2 DEF vars, machine, altitude, calibration, vehicle, OldAltitude
<1> QED
  BY <1>1, <1>2

-----------------------------------------------------------------------------
(* What a poll makes of altitude and rate, by what the barometer gave: the *)
(* first reading, one that differs from the last, or the same again.       *)
Taken(reading) ==
  last_altitude_ms' = now' /\ last_altitude_agl_m' = Agl(reading) /\ last_reading' = reading

First(reading) == last_altitude_ms = 0 /\ Taken(reading) /\ altitude_rate' = altitude_rate

Moved(reading) ==
  /\ last_altitude_ms # 0 /\ reading # last_reading /\ Taken(reading)
  /\ altitude_rate' = Quotient(7 * altitude_rate * (now' - last_altitude_ms)
                                 + 30 * (Agl(reading) - last_altitude_agl_m),
                               10 * (now' - last_altitude_ms))

Repeated(reading) ==
  /\ last_altitude_ms # 0 /\ reading = last_reading
  /\ UNCHANGED <<last_altitude_ms, last_altitude_agl_m, last_reading>>
  /\ \/ altitude_rate' = altitude_rate /\ now' - last_altitude_ms <= RateHold
     \/ altitude_rate' = Quotient(7 * altitude_rate, 10)

(* A good sample of the barometer is one of the three; no other changes    *)
(* anything.                                                               *)
LEMMA RateOfPoll ==
  ASSUME SensingInv,
         NEW imu_outcome \in OutcomesOf(imu_ok), NEW baro_outcome \in OutcomesOf(baro_ok),
         NEW noise \in {0, 1}, NEW rough \in BOOLEAN,
         Poll(imu_outcome, baro_outcome, noise, rough)
  PROVE  LET reading == Site + height' + noise
         IN \/ /\ baro_outcome # "good"
               /\ UNCHANGED <<last_altitude_ms, last_altitude_agl_m, last_reading, altitude_rate>>
            \/ /\ baro_outcome = "good"
               /\ First(reading) \/ Moved(reading) \/ Repeated(reading)
<1> DEFINE reading == Site + height' + noise
<1>1. UpdateAltitude(baro_outcome, reading) /\ now' - last_altitude_ms \in Int
  BY DEF Poll, SensingInv, TypeOK, Machine!TypeOK
<1> HIDE DEF reading
<1>2. CASE baro_outcome # "good"
  BY <1>1, <1>2 DEF UpdateAltitude, altitude
<1>3. CASE baro_outcome = "good"
  <2>1. /\ altitude_rate' = Rate(reading)
        /\ IF last_altitude_ms = 0 \/ reading # last_reading
           THEN Taken(reading)
           ELSE UNCHANGED <<last_altitude_ms, last_altitude_agl_m, last_reading>>
    BY <1>1, <1>3 DEF UpdateAltitude, Taken
  <2>2. CASE last_altitude_ms = 0
    BY <1>3, <2>1, <2>2 DEF Rate, First, reading
  <2>3. CASE last_altitude_ms # 0 /\ reading # last_reading
    BY <1>3, <2>1, <2>3 DEF Rate, Moved, reading
  <2>4. CASE last_altitude_ms # 0 /\ reading = last_reading
    <3>1. RateHold \in Int
      BY Constants
    <3>2. \/ altitude_rate' = altitude_rate /\ ~(now' - last_altitude_ms > RateHold)
          \/ altitude_rate' = Quotient(7 * altitude_rate, 10)
      BY <2>1, <2>4 DEF Rate
    <3>3. now' - last_altitude_ms <= RateHold <=> ~(now' - last_altitude_ms > RateHold)
      BY <1>1, <3>1
    <3> QED BY <1>3, <2>1, <2>4, <3>2, <3>3 DEF Repeated, reading
  <2> QED BY <2>2, <2>3, <2>4
<1> QED BY <1>2, <1>3 DEF reading

(* How the vehicle moves in a poll.                                        *)
LEMMA MoveOfPoll ==
  ASSUME SensingInv,
         NEW imu_outcome \in OutcomesOf(imu_ok), NEW baro_outcome \in OutcomesOf(baro_ok),
         NEW noise \in {0, 1}, NEW rough \in BOOLEAN,
         Poll(imu_outcome, baro_outcome, noise, rough)
  PROVE  /\ height \in Nat /\ height' \in Nat
         /\ \/ phase \in {"pad", "hover", "ground"} /\ phase' = phase /\ height' = height
            \/ /\ phase = "pad" /\ settled /\ phase' = "lift" /\ height' = height
            \/ /\ phase = "lift" /\ phase' \in {"lift", "hover"}
               /\ height <= height' /\ height' <= height + Speed
            \/ /\ phase \in {"hover", "fall"}
               /\ \/ phase' = "fall" /\ height' = height - Speed
                  \/ phase' = "ground" /\ height' = 0 /\ height <= Speed
<1>1. height \in 0 .. Ceiling /\ Ceiling \in Nat /\ Speed \in Nat
  BY Constants DEF SensingInv, TypeOK
<1>2. Move
  BY DEF Poll
<1>3. CASE phase \in {"pad", "hover", "ground"} /\ UNCHANGED vehicle
  BY <1>1, <1>3 DEF vehicle
<1>4. CASE phase = "pad" /\ Armed /\ phase' = "lift" /\ UNCHANGED height
  BY <1>1, <1>4 DEF Armed
<1>5. CASE /\ phase = "lift"
           /\ height' = IF height + Speed < Ceiling THEN height + Speed ELSE Ceiling
           /\ phase' = IF height' = Ceiling THEN "hover" ELSE "lift"
  BY <1>1, <1>5
<1>6. CASE /\ phase \in {"hover", "fall"}
           /\ height' = IF height > Speed THEN height - Speed ELSE 0
           /\ phase' = IF height' = 0 THEN "ground" ELSE "fall"
  BY <1>1, <1>6
<1> QED
  BY <1>2, <1>3, <1>4, <1>5, <1>6 DEF Move

(* What an update does to a flight: its begin, a sample in it, its end.    *)
LEMMA FlightMoves ==
  ASSUME Machine!TypeOK, state \in Operating, NEW t \in Nat, NEW in,
         Machine!Update(t, in)
  PROVE  LET guarded == t - entered_ms < MinFlight
             resting == Machine!AtRest(in) /\ Machine!Observed(t, in)
             since == Machine!Timer(rest_condition_since_ms, resting, t)
         IN /\ state # "flight" /\ state' = "flight" =>
                 /\ state = "ready" /\ in.armed /\ in.thrust /\ entered_ms' = t
                 /\ descent_since_ms' = 0 /\ descent_observed' = FALSE
            /\ state = "flight" /\ state' = "flight" =>
                 /\ entered_ms' = entered_ms
                 /\ descent_since_ms' = Machine!Timer(descent_since_ms, Machine!Falling(in), t)
                 /\ descent_observed' = Machine!Observed(t, in)
                 /\ ~guarded => rest_condition_since_ms' = since
                 /\ ~(~guarded /\ resting /\ t - since >= RestConfirm)
            /\ state = "flight" /\ state' = "landed" => resting
            /\ rest_condition_since_ms' \in {0, rest_condition_since_ms, t}
            /\ descent_since_ms' \in {0, descent_since_ms, t}
<1> USE DEF Operating
<1> DEFINE guarded == t - entered_ms < MinFlight
           resting == Machine!AtRest(in) /\ Machine!Observed(t, in)
           since == Machine!Timer(rest_condition_since_ms, resting, t)
<1>0. since \in {0, rest_condition_since_ms, t}
  BY DEF Machine!Timer
<1>1. CASE Machine!Enter("fault", t)
  BY <1>1 DEF Machine!Enter
<1>2. CASE Machine!AwaitLaunch(t, in)
  <2>1. state = "ready"
    BY <1>2 DEF Machine!AwaitLaunch
  <2>2. CASE in.armed /\ in.thrust /\ Machine!Enter("flight", t)
    BY <2>1, <2>2 DEF Machine!Enter
  <2>3. CASE /\ state' = state /\ rest_condition_since_ms' = rest_condition_since_ms
             /\ descent_since_ms' = descent_since_ms
    BY <2>1, <2>3
  <2> QED BY <1>2, <2>2, <2>3 DEF Machine!AwaitLaunch
<1>3. CASE Machine!Fly(t, in)
  <2>1. state = "flight"
    BY <1>3 DEF Machine!Fly
  <2>2. CASE ~guarded /\ resting /\ t - since >= RestConfirm
    <3>1. Machine!Enter("landed", t)
      BY <1>3, <2>2 DEF Machine!Fly
    <3>2. state' = "landed" /\ rest_condition_since_ms' = 0 /\ descent_since_ms' = 0
      BY <3>1 DEF Machine!Enter
    <3> QED BY <2>1, <2>2, <3>2
  <2>3. CASE ~(~guarded /\ resting /\ t - since >= RestConfirm)
    <3>1. /\ descent_since_ms' = Machine!Timer(descent_since_ms, Machine!Falling(in), t)
          /\ descent_observed' = Machine!Observed(t, in)
          /\ rest_condition_since_ms' = IF guarded THEN rest_condition_since_ms ELSE since
          /\ UNCHANGED <<state, entered_ms, launch_condition_since_ms>>
      BY <1>3, <2>3 DEF Machine!Fly
    <3>2. descent_since_ms' \in {0, descent_since_ms, t}
      BY <3>1 DEF Machine!Timer
    <3> HIDE DEF guarded, resting, since
    <3> QED BY <1>0, <2>1, <2>3, <3>1, <3>2 DEF guarded, resting, since
  <2> QED BY <2>2, <2>3
<1>4. CASE Machine!AwaitRecovery(t) \/ Machine!Remain
  <2>1. /\ state \in {"landed", "recovery", "fault"}
        /\ state' = state \/ state' = "recovery"
        /\ rest_condition_since_ms' \in {0, rest_condition_since_ms}
        /\ descent_since_ms' \in {0, descent_since_ms}
    BY <1>4 DEF Machine!AwaitRecovery, Machine!Remain, Machine!Enter, Machine!machine,
                Machine!timers
  <2> QED BY <2>1
<1>5. \/ Machine!Enter("fault", t) \/ Machine!AwaitLaunch(t, in) \/ Machine!Fly(t, in)
      \/ Machine!AwaitRecovery(t) \/ Machine!Remain
  BY DEF Machine!Update, Machine!LatchFault, Machine!StartSelfTest, Machine!FinishSelfTest
<1> QED BY <1>1, <1>2, <1>3, <1>4, <1>5

(* Do the samples count as those of a vehicle at rest?                     *)
Still == ~accel_rough /\ altitude_rate < StillRate /\ altitude_rate > -StillRate

(* The same of the samples that a poll shows it.                           *)
LEMMA FlightOfPoll ==
  ASSUME SensingInv, altitude_rate' \in Int,
         NEW imu_outcome \in OutcomesOf(imu_ok), NEW baro_outcome \in OutcomesOf(baro_ok),
         NEW noise \in {0, 1}, NEW rough \in BOOLEAN,
         Poll(imu_outcome, baro_outcome, noise, rough)
  PROVE  /\ state # "flight" /\ state' = "flight" =>
              /\ state = "ready" /\ settled' /\ last_altitude_agl_m' > LaunchGain
              /\ entered_ms' = now' /\ descent_since_ms' = 0 /\ descent_observed' = FALSE
         /\ state = "flight" /\ state' = "flight" =>
              /\ entered_ms' = entered_ms
              /\ descent_since_ms' # 0 => altitude_rate' < -FallingRate
              /\ descent_observed' => descent_observed \/ altitude_rate' < -FallingRate
              /\ descent_observed => descent_observed'
              /\ altitude_rate' < -FallingRate =>
                   /\ descent_since_ms' = Machine!Timer(descent_since_ms, TRUE, now')
                   /\ descent_observed' \/ ~(now' - descent_since_ms' >= DescentConfirm)
              /\ Still' /\ descent_observed' /\ ~(now' - entered_ms < MinFlight) =>
                   /\ rest_condition_since_ms' =
                        Machine!Timer(rest_condition_since_ms, TRUE, now')
                   /\ ~(now' - rest_condition_since_ms' >= RestConfirm)
         /\ state = "flight" /\ state' = "landed" =>
              descent_observed /\ altitude_rate' > -StillRate
         /\ rest_condition_since_ms' \in {0, rest_condition_since_ms, now'}
         /\ descent_since_ms' \in {0, descent_since_ms, now'}
<1> DEFINE in ==
  [self_test_ok |-> TRUE,
   armed |-> imu_valid' /\ baro_valid' /\ settled' /\ now' >= ArmingDelay,
   thrust |-> last_altitude_agl_m' > LaunchGain,
   motion |-> Motion,
   critical_fault |-> {"imu_stale", "baro_stale"} \subseteq faults']
<1>1. Machine!Update(now', in)
  BY DEF Poll, FeedStateMachine
<1>2. /\ in.armed => settled'
      /\ in.thrust <=> last_altitude_agl_m' > LaunchGain
      /\ in.motion = Motion
  OBVIOUS
<1> HIDE DEF in
<1>3. /\ now' \in Nat /\ Machine!TypeOK /\ state \in Operating
      /\ rest_condition_since_ms \in Nat /\ descent_observed \in BOOLEAN
  BY DEF SensingInv, TypeOK, Machine!TypeOK, Poll
<1>4. FallingRate \in Nat /\ StillRate \in Nat /\ FallingRate > StillRate
  BY Margins
<1>5. Machine!Falling(in) <=> altitude_rate' < -FallingRate
  <2>1. Motion = "falling" <=> altitude_rate' < -FallingRate
    BY DEF Motion
  <2> QED BY <1>2, <2>1 DEF Machine!Falling
<1>6. Machine!AtRest(in) <=> Still'
  <2>1. Abs(altitude_rate') < StillRate <=>
          altitude_rate' < StillRate /\ altitude_rate' > -StillRate
    <3>1. \A n \in Int : Abs(n) < StillRate <=> n < StillRate /\ n > -StillRate
      BY <1>4 DEF Abs
    <3> QED BY <3>1
  <2>2. altitude_rate' > -StillRate => ~(altitude_rate' < -FallingRate)
    BY <1>4
  <2>3. Motion = "still" <=> Still'
    BY <2>1, <2>2 DEF Motion, Still
  <2> QED BY <1>2, <2>3 DEF Machine!AtRest
<1>7. Machine!Observed(now', in) => descent_observed \/ Machine!Falling(in)
  BY DEF Machine!Observed
<1> DEFINE guarded == now' - entered_ms < MinFlight
           resting == Machine!AtRest(in) /\ Machine!Observed(now', in)
           since == Machine!Timer(rest_condition_since_ms, resting, now')
<1>8. /\ state # "flight" /\ state' = "flight" =>
           /\ state = "ready" /\ in.armed /\ in.thrust /\ entered_ms' = now'
           /\ descent_since_ms' = 0 /\ descent_observed' = FALSE
      /\ state = "flight" /\ state' = "flight" =>
           /\ entered_ms' = entered_ms
           /\ descent_since_ms' = Machine!Timer(descent_since_ms, Machine!Falling(in), now')
           /\ descent_observed' = Machine!Observed(now', in)
           /\ ~guarded => rest_condition_since_ms' = since
           /\ ~(~guarded /\ resting /\ now' - since >= RestConfirm)
      /\ state = "flight" /\ state' = "landed" => resting
      /\ rest_condition_since_ms' \in {0, rest_condition_since_ms, now'}
      /\ descent_since_ms' \in {0, descent_since_ms, now'}
  BY <1>1, <1>3, FlightMoves, Zenon
<1>9. state # "flight" /\ state' = "flight" =>
        /\ state = "ready" /\ settled' /\ last_altitude_agl_m' > LaunchGain
        /\ entered_ms' = now' /\ descent_since_ms' = 0 /\ descent_observed' = FALSE
  BY <1>2, <1>8, Zenon
<1>10. ASSUME state = "flight", state' = "flight"
       PROVE  /\ entered_ms' = entered_ms
              /\ descent_since_ms' # 0 => altitude_rate' < -FallingRate
              /\ descent_observed' => descent_observed \/ altitude_rate' < -FallingRate
  <2>1. descent_since_ms' # 0 => Machine!Falling(in)
    BY <1>8, <1>10 DEF Machine!Timer
  <2>2. descent_observed' => descent_observed \/ Machine!Falling(in)
    BY <1>7, <1>8, <1>10, Zenon
  <2> QED BY <1>5, <1>8, <1>10, <2>1, <2>2, Zenon
<1>11. ASSUME state = "flight", state' = "flight", Still', descent_observed', ~guarded
       PROVE  /\ rest_condition_since_ms' =
                   Machine!Timer(rest_condition_since_ms, TRUE, now')
              /\ ~(now' - rest_condition_since_ms' >= RestConfirm)
  <2>1. Machine!AtRest(in) /\ Machine!Observed(now', in)
    BY <1>6, <1>8, <1>10, <1>11, Zenon
  <2>2. since = Machine!Timer(rest_condition_since_ms, TRUE, now')
    BY <2>1 DEF Machine!Timer
  <2>3. rest_condition_since_ms' = since /\ ~(now' - since >= RestConfirm)
    BY <1>8, <1>11, <2>1, Zenon
  <2> QED BY <2>2, <2>3, Zenon
<1>12. ASSUME state = "flight", state' = "landed"
       PROVE  descent_observed /\ altitude_rate' > -StillRate
  <2>1. Still' /\ Machine!Observed(now', in)
    BY <1>6, <1>8, <1>12, Zenon
  <2>2. altitude_rate' > -StillRate
    BY <2>1 DEF Still
  <2>3. ~Machine!Falling(in)
    BY <1>4, <1>5, <2>2
  <2> QED BY <1>7, <2>1, <2>2, <2>3
<1>13. /\ rest_condition_since_ms' \in {0, rest_condition_since_ms, now'}
       /\ descent_since_ms' \in {0, descent_since_ms, now'}
  BY <1>8, Zenon
<1>14. ASSUME state = "flight", state' = "flight"
       PROVE  /\ descent_observed => descent_observed'
              /\ altitude_rate' < -FallingRate =>
                   /\ descent_since_ms' = Machine!Timer(descent_since_ms, TRUE, now')
                   /\ descent_observed' \/ ~(now' - descent_since_ms' >= DescentConfirm)
  <2>1. /\ descent_since_ms' = Machine!Timer(descent_since_ms, Machine!Falling(in), now')
        /\ descent_observed' = Machine!Observed(now', in)
    BY <1>8, <1>14, Zenon
  <2>2. Machine!Falling(in) =>
          descent_since_ms' = Machine!Timer(descent_since_ms, TRUE, now')
    BY <2>1 DEF Machine!Timer
  <2> QED BY <1>5, <2>1, <2>2, Zenon DEF Machine!Observed
<1> QED BY <1>9, <1>10, <1>11, <1>12, <1>13, <1>14, Zenon
-----------------------------------------------------------------------------

(* The baseline is there off the pad and in FLIGHT.                        *)
Baseline ==
  /\ phase = "ground" => height = 0
  /\ phase # "pad" \/ state = "flight" => settled

(* The last reading is that of a height the vehicle can have come from     *)
(* since; before the lift that of the pad, and in it of no greater height. *)
Heard ==
  last_altitude_ms # 0 =>
    /\ last_reading - Site - height >= -(Speed * (now - last_altitude_ms))
    /\ last_reading - Site - height <= Speed * (now - last_altitude_ms) + 1
    /\ phase = "pad" => last_reading \in {Site, Site + 1}
    /\ phase \in {"lift", "hover"} =>
         last_reading <= Site + height \/ last_reading <= Site + 1
    /\ last_altitude_agl_m \in {last_reading, last_reading - Site}
    /\ ~baseline_ready => last_altitude_agl_m = last_reading

(* Before the first reading nothing has moved.                             *)
Unheard ==
  last_altitude_ms = 0 =>
    altitude_rate = 0 /\ last_altitude_agl_m = 0 /\ last_reading = 0

(* No rate is beyond the bound the fading starts from, and without a       *)
(* baseline no vehicle sinks before its fall but by the last bit.          *)
RateBound ==
  /\ Within(altitude_rate, Fade[0])
  /\ ~baseline_ready /\ phase \in {"pad", "lift", "hover"} => altitude_rate >= -10

AltitudeInv == Baseline /\ Heard /\ Unheard /\ RateBound

(* The types that the following steps need.                                *)
LEMMA PollTypes ==
  ASSUME SensingInv,
         NEW imu_outcome \in OutcomesOf(imu_ok), NEW baro_outcome \in OutcomesOf(baro_ok),
         NEW noise \in {0, 1}, NEW rough \in BOOLEAN,
         Poll(imu_outcome, baro_outcome, noise, rough)
  PROVE  /\ now \in Nat /\ now' = now + 1 /\ last_altitude_ms \in 0 .. now
         /\ altitude_rate \in Int /\ last_altitude_agl_m \in Int /\ last_reading \in Nat
         /\ noise \in Nat /\ settled \in BOOLEAN /\ (settled => settled')
         /\ baseline_ready \in BOOLEAN /\ (baseline_ready => baseline_ready')
         /\ (settled => baseline_ready' = baseline_ready)
         /\ (phase \notin {"pad", "ground"} => noise = 0)
         /\ phase \in Places
<1>1. /\ now \in Nat /\ last_altitude_ms \in 0 .. now
      /\ altitude_rate \in Int /\ last_altitude_agl_m \in Int /\ last_reading \in Nat
      /\ phase \in Places
  BY DEF SensingInv, TypeOK, Machine!TypeOK
<1>2. /\ settled \in BOOLEAN /\ (settled => settled')
      /\ baseline_ready \in BOOLEAN /\ (baseline_ready => baseline_ready')
      /\ (settled => baseline_ready' = baseline_ready)
  BY CalibrationOfPoll, Zenon
<1>3. now' = now + 1 /\ (noise = 0 \/ phase \in {"pad", "ground"})
  BY DEF Poll
<1>4. settled => settled'
  BY <1>2, Zenon
<1> QED BY <1>1, <1>2, <1>3, <1>4

(* Who is off the pad, or flies, keeps having a baseline.                  *)
LEMMA BaselineStep ==
  ASSUME SensingInv, Baseline,
         NEW imu_outcome \in OutcomesOf(imu_ok), NEW baro_outcome \in OutcomesOf(baro_ok),
         NEW noise \in {0, 1}, NEW rough \in BOOLEAN,
         Poll(imu_outcome, baro_outcome, noise, rough)
  PROVE  Baseline'
<1>1. settled => settled'
  BY PollTypes, Zenon
<1>2. /\ phase' = "ground" => (phase = "ground" /\ height' = height) \/ height' = 0
      /\ phase' # "pad" => phase # "pad" \/ settled
  BY MoveOfPoll
<1>3. altitude_rate' \in Int
  <2>1. height' \in Nat
    BY MoveOfPoll, Zenon
  <2> QED BY <2>1, AltitudeOfPoll, Zenon
<1>4. state' = "flight" => state = "flight" \/ settled'
  BY <1>3, FlightOfPoll, Zenon
<1> QED BY <1>1, <1>2, <1>4 DEF Baseline

(* No poll moves the vehicle further than its speed.                       *)
LEMMA MoveBound ==
  ASSUME SensingInv,
         NEW imu_outcome \in OutcomesOf(imu_ok), NEW baro_outcome \in OutcomesOf(baro_ok),
         NEW noise \in {0, 1}, NEW rough \in BOOLEAN,
         Poll(imu_outcome, baro_outcome, noise, rough)
  PROVE  height' <= height + Speed /\ height <= height' + Speed
<1>1. height \in Nat /\ height' \in Nat /\ Speed \in Nat
  BY MoveOfPoll, Constants, Zenon
<1>2. \/ height' = height
      \/ height <= height' /\ height' <= height + Speed
      \/ height' = height - Speed
      \/ height' = 0 /\ height <= Speed
  BY MoveOfPoll, Zenon
<1>3. CASE height' = height
  BY <1>1, <1>3
<1>4. CASE height <= height' /\ height' <= height + Speed
  <2>1. \A h, g, v \in Nat : h <= g => h <= g + v
    OBVIOUS
  <2> QED BY <1>1, <1>4, <2>1
<1>5. CASE height' = height - Speed
  BY <1>1, <1>5
<1>6. CASE height' = 0 /\ height <= Speed
  BY <1>1, <1>6
<1> QED BY <1>2, <1>3, <1>4, <1>5, <1>6

(* The last reading stays close to the height.                             *)
LEMMA HeardStep ==
  ASSUME SensingInv, Baseline, Heard, Unheard,
         NEW imu_outcome \in OutcomesOf(imu_ok), NEW baro_outcome \in OutcomesOf(baro_ok),
         NEW noise \in {0, 1}, NEW rough \in BOOLEAN,
         Poll(imu_outcome, baro_outcome, noise, rough)
  PROVE  Heard' /\ Unheard'
<1> DEFINE reading == Site + height' + noise
<1>1. /\ now \in Nat /\ now' = now + 1 /\ last_altitude_ms \in 0 .. now
      /\ last_altitude_agl_m \in Int /\ last_reading \in Nat
      /\ noise \in Nat /\ (baseline_ready => baseline_ready')
      /\ (phase \notin {"pad", "ground"} => noise = 0)
  BY PollTypes, Zenon
<1>2. /\ height \in Nat /\ height' \in Nat
      /\ \/ phase \in {"pad", "hover", "ground"} /\ phase' = phase /\ height' = height
         \/ phase = "pad" /\ settled /\ phase' = "lift" /\ height' = height
         \/ /\ phase = "lift" /\ phase' \in {"lift", "hover"}
            /\ height <= height' /\ height' <= height + Speed
         \/ /\ phase \in {"hover", "fall"}
            /\ \/ phase' = "fall" /\ height' = height - Speed
               \/ phase' = "ground" /\ height' = 0 /\ height <= Speed
  BY MoveOfPoll, Zenon
<1>3. phase = "pad" => height = 0
  BY DEF SensingInv, Launching
<1>4. Site \in Nat /\ Speed \in Nat
  BY Constants
<1>5. CASE Taken(reading)
  <2>1. /\ last_altitude_ms' = now' /\ last_reading' = reading
        /\ last_altitude_agl_m' = IF baseline_ready THEN reading - Site ELSE reading
    BY <1>5 DEF Taken, Agl
  <2>2. last_reading' - Site - height' = noise
    <3>1. \A s, h, n \in Nat : (s + h + n) - s - h = n
      OBVIOUS
    <3>2. (Site + height' + noise) - Site - height' = noise
      <4>1. noise \in Nat /\ height' \in Nat /\ Site \in Nat
        BY <1>1, <1>2, <1>4, Zenon
      <4> QED BY <3>1, <4>1, Zenon
    <3> QED BY <2>1, <3>2, Zenon
  <2>3. Speed * (now' - last_altitude_ms') = 0 /\ now' # 0
    <3>1. now' - last_altitude_ms' = 0
      BY <1>1, <2>1
    <3> QED BY <1>1, <1>4, <3>1
  <2>4. phase' = "pad" => last_reading' \in {Site, Site + 1}
    BY <1>1, <1>2, <1>3, <1>4, <2>1
  <2>5. phase' \in {"lift", "hover"} =>
          last_reading' <= Site + height' \/ last_reading' <= Site + 1
    <3>1. phase' \in {"lift", "hover"} =>
            (phase = "pad" /\ height' = 0) \/ (phase \in {"lift", "hover"} /\ noise = 0)
      <4>1. phase = "pad" => height' = height
        BY <1>2
      <4>2. phase' \in {"lift", "hover"} => phase \in {"pad", "lift", "hover"}
        BY <1>2
      <4>3. phase \in {"lift", "hover"} => noise = 0
        BY <1>1
      <4>4. phase = "pad" => height' = 0
        BY <1>3, <4>1, Zenon
      <4> QED BY <4>2, <4>3, <4>4, Zenon
    <3>2. \A n \in {0, 1} : Site + 0 + n <= Site + 1
      BY <1>4
    <3>3. \A h \in Nat : Site + h + 0 <= Site + h
      BY <1>4
    <3> QED BY <1>2, <2>1, <3>1, <3>2, <3>3
  <2>6. /\ last_altitude_agl_m' \in {last_reading', last_reading' - Site}
        /\ ~baseline_ready' => last_altitude_agl_m' = last_reading'
    BY <1>1, <2>1
  <2>7. last_reading' - Site - height' >= -0 /\ last_reading' - Site - height' <= 0 + 1
    BY <2>2
  <2> QED BY <2>1, <2>3, <2>4, <2>5, <2>6, <2>7 DEF Heard, Unheard
<1>6. CASE UNCHANGED <<last_altitude_ms, last_altitude_agl_m, last_reading>>
           /\ (last_altitude_ms = 0 => altitude_rate' = altitude_rate)
  <2>1. Unheard'
    BY <1>6 DEF Unheard
  <2>2. ASSUME last_altitude_ms' # 0
        PROVE  /\ last_reading' - Site - height' >= -(Speed * (now' - last_altitude_ms'))
               /\ last_reading' - Site - height' <= Speed * (now' - last_altitude_ms') + 1
               /\ phase' = "pad" => last_reading' \in {Site, Site + 1}
               /\ phase' \in {"lift", "hover"} =>
                    last_reading' <= Site + height' \/ last_reading' <= Site + 1
               /\ last_altitude_agl_m' \in {last_reading', last_reading' - Site}
               /\ ~baseline_ready' => last_altitude_agl_m' = last_reading'
    <3> DEFINE before == Speed * (now - last_altitude_ms)
               after == Speed * (now' - last_altitude_ms')
    <3>1. after = before + Speed /\ before \in Int
      <4>1. now' - last_altitude_ms' = (now - last_altitude_ms) + 1
        BY <1>1, <1>6
      <4>2. now - last_altitude_ms \in Nat
        BY <1>1
      <4> DEFINE age == now - last_altitude_ms
      <4> HIDE DEF age
      <4>3. Speed * (age + 1) = Speed * age + Speed /\ Speed * age \in Int
        BY <1>4, <4>2 DEF age
      <4> QED BY <4>1, <4>3 DEF age
    <3>2. /\ last_reading - Site - height >= -before
          /\ last_reading - Site - height <= before + 1
          /\ phase = "pad" => last_reading \in {Site, Site + 1}
          /\ phase \in {"lift", "hover"} =>
               last_reading <= Site + height \/ last_reading <= Site + 1
          /\ last_altitude_agl_m \in {last_reading, last_reading - Site}
          /\ ~baseline_ready => last_altitude_agl_m = last_reading
      BY <1>6, <2>2 DEF Heard
    <3>3. last_reading' = last_reading /\ last_altitude_agl_m' = last_altitude_agl_m
      BY <1>6
    <3> HIDE DEF before, after
    <3>4. height' <= height + Speed /\ height <= height' + Speed
      BY MoveBound, Zenon
    <3>5. /\ last_reading' - Site - height' >= -after
          /\ last_reading' - Site - height' <= after + 1
      <4>1. \A s, v, h, g, r \in Nat : \A b \in Int :
              g <= h + v /\ h <= g + v /\ r - s - h >= -b /\ r - s - h <= b + 1
                => r - s - g >= -(b + v) /\ r - s - g <= (b + v) + 1
        OBVIOUS
      <4> QED BY <1>1, <1>2, <1>4, <3>1, <3>2, <3>3, <3>4, <4>1
    <3>6. phase' = "pad" => phase = "pad"
      BY <1>2
    <3>7. phase' \in {"lift", "hover"} =>
            last_reading' <= Site + height' \/ last_reading' <= Site + 1
      <4>1. phase' \in {"lift", "hover"} =>
              phase = "pad" \/ (phase \in {"lift", "hover"} /\ height <= height')
        BY <1>2
      <4>2. phase = "pad" => last_reading <= Site + 1
        BY <1>4, <3>2
      <4>3. \A s, h, g, r \in Nat : h <= g /\ r <= s + h => r <= s + g
        OBVIOUS
      <4> QED BY <1>1, <1>2, <1>4, <3>2, <3>3, <4>1, <4>2, <4>3
    <3> QED BY <1>1, <3>2, <3>3, <3>5, <3>6, <3>7 DEF after
  <2> QED BY <2>1, <2>2 DEF Heard
<1>7. \/ Taken(reading)
      \/ /\ UNCHANGED <<last_altitude_ms, last_altitude_agl_m, last_reading>>
         /\ (last_altitude_ms = 0 => altitude_rate' = altitude_rate)
  BY RateOfPoll DEF First, Moved, Repeated
<1> QED BY <1>5, <1>6, <1>7

(* How far a changed reading moves the altitude, at most.                  *)
LEMMA MovedWithin ==
  ASSUME SensingInv, Heard,
         NEW imu_outcome \in OutcomesOf(imu_ok), NEW baro_outcome \in OutcomesOf(baro_ok),
         NEW noise \in {0, 1}, NEW rough \in BOOLEAN,
         Poll(imu_outcome, baro_outcome, noise, rough),
         last_altitude_ms # 0
  PROVE  /\ now' - last_altitude_ms \in Nat \ {0}
         /\ Agl(Site + height' + noise) - last_altitude_agl_m \in Int
         /\ Within(Agl(Site + height' + noise) - last_altitude_agl_m,
                   (Speed + Site + 1) * (now' - last_altitude_ms))
<1> DEFINE reading == Site + height' + noise
           dt == now' - last_altitude_ms
           d == Agl(reading) - last_altitude_agl_m
<1>1. /\ now \in Nat /\ now' = now + 1 /\ last_altitude_ms \in 0 .. now
      /\ last_altitude_agl_m \in Int /\ last_reading \in Nat
      /\ noise \in Nat /\ baseline_ready \in BOOLEAN
  BY PollTypes, Zenon
<1>2. /\ height \in Nat /\ height' \in Nat
      /\ \/ phase \in {"pad", "hover", "ground"} /\ phase' = phase /\ height' = height
         \/ phase = "pad" /\ settled /\ phase' = "lift" /\ height' = height
         \/ /\ phase = "lift" /\ phase' \in {"lift", "hover"}
            /\ height <= height' /\ height' <= height + Speed
         \/ /\ phase \in {"hover", "fall"}
            /\ \/ phase' = "fall" /\ height' = height - Speed
               \/ phase' = "ground" /\ height' = 0 /\ height <= Speed
  BY MoveOfPoll, Zenon
<1>3. Site \in Nat /\ Speed \in Nat
  BY Constants
<1>4. dt \in Nat \ {0} /\ now - last_altitude_ms = dt - 1
  BY <1>1
<1> DEFINE sdt == Speed * dt
           adt == (Speed + Site + 1) * dt
           before == Speed * (now - last_altitude_ms)
<1>5. before = sdt - Speed /\ sdt \in Nat
  <2> HIDE DEF dt
  <2>1. Speed * (dt - 1) = Speed * dt - Speed /\ Speed * dt \in Nat
    BY <1>3, <1>4
  <2> QED BY <1>4, <2>1
<1>6. adt >= sdt + Site + 1 /\ adt \in Nat
  <2> HIDE DEF dt
  <2>1. adt = sdt + (Site + 1) * dt
    BY <1>3, <1>4
  <2>2. (Site + 1) * dt >= Site + 1 /\ (Site + 1) * dt \in Nat
    <3>1. \A x \in Nat : x * dt >= x /\ x * dt \in Nat
      BY <1>4
    <3> QED BY <1>3, <3>1
  <2> DEFINE rest == (Site + 1) * dt
  <2> HIDE DEF sdt, adt, rest
  <2> QED BY <1>3, <1>5, <2>1, <2>2 DEF rest
<1>7. /\ last_reading - Site - height >= -before
      /\ last_reading - Site - height <= before + 1
      /\ last_altitude_agl_m \in {last_reading, last_reading - Site}
      /\ ~baseline_ready => last_altitude_agl_m = last_reading
  BY DEF Heard
<1>8. height' <= height + Speed /\ height <= height' + Speed
  BY MoveBound, Zenon
<1>9. d \in Int /\ (d = reading - last_reading \/ d = reading - last_reading - Site)
  <2>1. Agl(reading) = IF baseline_ready THEN reading - Site ELSE reading
    BY DEF Agl
  <2>2. reading \in Nat
    <3>1. \A s, h, n \in Nat : s + h + n \in Nat
      OBVIOUS
    <3> QED BY <1>1, <1>2, <1>3, <3>1
  <2> HIDE DEF reading
  <2> QED BY <1>1, <1>3, <1>7, <2>1, <2>2
<1> DEFINE e == reading - last_reading
<1>10. e \in Int /\ -(sdt + 1) <= e /\ e <= sdt + 1
  <2> HIDE DEF sdt, before
  <2>2. /\ last_reading - Site - height >= -(sdt - Speed)
        /\ last_reading - Site - height <= (sdt - Speed) + 1
    BY <1>5, <1>7
  <2>3. noise \in {0, 1} /\ sdt \in Nat
    BY <1>5
  <2>4. /\ Site \in Nat /\ Speed \in Nat /\ last_reading \in Nat
        /\ height \in Nat /\ height' \in Nat
    BY <1>1, <1>2, <1>3, Zenon
  <2> DEFINE g == height'
  <2>5. g \in Nat /\ g <= height + Speed /\ height <= g + Speed
    BY <1>2, <1>8
  <2>6. e = (Site + g + noise) - last_reading
    OBVIOUS
  <2> HIDE DEF e, g
  <2> QED BY <2>2, <2>3, <2>4, <2>5, <2>6
<1> HIDE DEF sdt, adt, before, d, e
<1>11. -adt <= d /\ d <= adt
  BY <1>3, <1>5, <1>6, <1>9, <1>10 DEF e
<1> QED BY <1>4, <1>9, <1>11 DEF Within, d, adt

(* The filter never leaves its bound, nor, without a baseline, does what   *)
(* does not fall sink by more than the last bit.                           *)
LEMMA RateBoundStep ==
  ASSUME SensingInv, AltitudeInv,
         NEW imu_outcome \in OutcomesOf(imu_ok), NEW baro_outcome \in OutcomesOf(baro_ok),
         NEW noise \in {0, 1}, NEW rough \in BOOLEAN,
         Poll(imu_outcome, baro_outcome, noise, rough)
  PROVE  RateBound'
<1> DEFINE reading == Site + height' + noise
           dt == now' - last_altitude_ms
           d == Agl(reading) - last_altitude_agl_m
           A == Speed + Site + 1
           sinkless == ~baseline_ready /\ phase \in {"pad", "lift", "hover"}
<1>1. /\ now \in Nat /\ now' = now + 1 /\ last_altitude_ms \in 0 .. now
      /\ altitude_rate \in Int /\ last_altitude_agl_m \in Int /\ last_reading \in Nat
      /\ noise \in Nat
  BY PollTypes, Zenon
<1>2. Site \in Nat /\ Speed \in Nat /\ A \in Nat
  BY Constants
<1>3. Fade[0] = 10 * A /\ Fade[0] \in Nat
  BY <1>2, FadeIs
<1>4. Within(altitude_rate, Fade[0]) /\ (sinkless => altitude_rate >= -10)
  BY DEF AltitudeInv, RateBound
<1>5. ~baseline_ready' /\ phase' \in {"pad", "lift", "hover"} => sinkless
  <2>1. ~baseline_ready' => ~baseline_ready
    BY CalibrationOfPoll, Zenon
  <2>2. phase' \in {"pad", "lift", "hover"} => phase \in {"pad", "lift", "hover"}
    BY MoveOfPoll
  <2> QED BY <2>1, <2>2
<1>6. SUFFICES Within(altitude_rate', Fade[0]) /\ (sinkless /\ phase' \in {"pad", "lift", "hover"}
                 => altitude_rate' >= -10)
  BY <1>5 DEF RateBound
<1> HIDE DEF sinkless
<1>7. CASE \/ altitude_rate' = altitude_rate
           \/ altitude_rate' = Quotient(7 * altitude_rate, 10)
  <2>1. CASE altitude_rate' = altitude_rate
    BY <1>4, <2>1 DEF Within
  <2>2. CASE altitude_rate' = Quotient(7 * altitude_rate, 10)
    <3> DEFINE b == Fade[0]
               c == (7 * b) \div 10
    <3>1. Within(altitude_rate', c) /\ (altitude_rate >= -10 => altitude_rate' >= -10)
      <4> HIDE DEF b
      <4> QED BY <1>1, <1>3, <1>4, <2>2, Decays DEF b
    <3>2. c <= b /\ c \in Nat /\ b \in Nat /\ altitude_rate' \in Int
      <4> HIDE DEF b
      <4> QED BY <1>1, <1>3, <2>2 DEF Quotient, b
    <3> DEFINE r1 == altitude_rate'
    <3> HIDE DEF b, c, r1
    <3>3. Within(r1, b)
      <4>1. Within(r1, c) /\ r1 \in Int
        BY <3>1, <3>2 DEF r1
      <4> QED BY <3>2, <4>1 DEF Within
    <3> QED BY <1>4, <3>1, <3>3 DEF b, r1
  <2> QED BY <1>7, <2>1, <2>2
<1>8. CASE First(reading)
  <2>1. altitude_rate' = altitude_rate
    BY <1>8 DEF First
  <2> QED BY <1>7, <2>1
<1>9. CASE Moved(reading)
  <2>1. /\ dt \in Nat \ {0} /\ d \in Int /\ Within(d, A * dt)
        /\ altitude_rate' = Quotient(7 * altitude_rate * dt + 30 * d, 10 * dt)
    BY <1>9, MovedWithin DEF Moved, AltitudeInv
  <2>2. Within(altitude_rate', Fade[0])
    <3>1. Within(altitude_rate', (7 * Fade[0] + 30 * A) \div 10)
      <4> HIDE DEF dt, d, A
      <4> QED BY <1>1, <1>2, <1>3, <1>4, <2>1, FilterWithin
    <3>2. (7 * Fade[0] + 30 * A) \div 10 = 10 * A
      <4> HIDE DEF A
      <4> QED BY <1>2, <1>3
    <3> QED BY <1>3, <3>1, <3>2
  <2>3. ASSUME sinkless, phase' \in {"pad", "lift", "hover"} PROVE altitude_rate' >= -10
    <3> DEFINE h == height'
    <3>1. /\ ~baseline_ready /\ height \in Nat /\ h \in Nat /\ height <= h
          /\ phase = "pad" => height = 0
          /\ phase \in {"pad", "lift", "hover"}
      <4>1. ~baseline_ready /\ phase \in {"pad", "lift", "hover"}
        BY <2>3 DEF sinkless
      <4>2. phase = "pad" => height = 0
        BY DEF SensingInv, Launching
      <4>3. height \in Nat /\ h \in Nat
        BY MoveOfPoll, Zenon
      <4>4. height' = height \/ height <= height'
        BY <2>3, <4>1, MoveOfPoll
      <4> HIDE DEF h
      <4>5. height <= h
        BY <4>3, <4>4 DEF h
      <4> QED BY <4>1, <4>2, <4>3, <4>5
    <3>2. /\ last_altitude_agl_m = last_reading
          /\ last_reading <= Site + height \/ last_reading <= Site + 1
      <4>1. last_altitude_ms # 0
        BY <1>9 DEF Moved
      <4>2. /\ last_altitude_agl_m = last_reading
            /\ phase = "pad" => last_reading \in {Site, Site + 1}
            /\ phase \in {"lift", "hover"} =>
                 last_reading <= Site + height \/ last_reading <= Site + 1
        BY <3>1, <4>1 DEF AltitudeInv, Heard
      <4>3. \A x \in {Site, Site + 1} : x <= Site + 1
        BY <1>2
      <4> QED BY <3>1, <4>2, <4>3
    <3>3. d = (Site + h + noise) - last_reading
      BY <3>1, <3>2 DEF Agl
    <3> HIDE DEF d, dt, h, reading
    <3>4. d >= -1
      BY <1>1, <1>2, <3>1, <3>2, <3>3
    <3>5. d >= -(1 * dt) /\ altitude_rate >= -10
      BY <1>4, <2>1, <2>3, <3>4
    <3>6. altitude_rate' >= -((7 * 10 + 30 * 1) \div 10)
      BY <1>1, <2>1, <3>5, FilterAbove
    <3>7. (7 * 10 + 30 * 1) \div 10 = 10
      OBVIOUS
    <3> QED BY <3>6, <3>7
  <2> QED BY <2>2, <2>3
<1>10. \/ UNCHANGED <<last_altitude_ms, last_altitude_agl_m, last_reading, altitude_rate>>
       \/ First(reading) \/ Moved(reading) \/ Repeated(reading)
  BY RateOfPoll
<1> QED BY <1>7, <1>8, <1>9, <1>10 DEF Repeated
-----------------------------------------------------------------------------

(* In a flight the reference stays, and so does an altitude above it.      *)
LEMMA ReferenceStep ==
  ASSUME SensingInv, AltitudeInv, state = "flight",
         NEW imu_outcome \in OutcomesOf(imu_ok), NEW baro_outcome \in OutcomesOf(baro_ok),
         NEW noise \in {0, 1}, NEW rough \in BOOLEAN,
         Poll(imu_outcome, baro_outcome, noise, rough)
  PROVE  /\ baseline_ready' = baseline_ready
         /\ last_altitude_ms # 0 => last_altitude_ms' # 0
         /\ Taken(Site + height' + noise) => OnReference'
         /\ OnReference => OnReference'
<1> DEFINE reading == Site + height' + noise
<1>1. settled
  BY DEF AltitudeInv, Baseline
<1>2. now' # 0 /\ baseline_ready' = baseline_ready
  <2>1. now \in Nat /\ now' = now + 1 /\ baseline_ready' = baseline_ready
    BY <1>1, PollTypes
  <2> QED BY <2>1
<1>3. \/ UNCHANGED <<last_altitude_ms, last_altitude_agl_m, last_reading>>
      \/ Taken(reading)
  <2>1. \/ UNCHANGED <<last_altitude_ms, last_altitude_agl_m, last_reading, altitude_rate>>
        \/ First(reading) \/ Moved(reading) \/ Repeated(reading)
    BY RateOfPoll, Zenon
  <2> HIDE DEF reading
  <2> QED BY <2>1 DEF First, Moved, Repeated
<1> HIDE DEF reading
<1>4. CASE UNCHANGED <<last_altitude_ms, last_altitude_agl_m, last_reading>>
  <2>1. OnReference => OnReference'
    BY <1>2, <1>4 DEF OnReference, Agl
  <2>2. Taken(reading) => OnReference'
    BY <1>2 DEF Taken, OnReference, Agl
  <2> QED BY <1>2, <1>4, <2>1, <2>2 DEF reading
<1>5. CASE Taken(reading)
  BY <1>2, <1>5 DEF Taken, OnReference, Agl, reading
<1> QED BY <1>3, <1>4, <1>5

(* What of a fall is shown to the flight: the second pass takes the rate   *)
(* within its bound, each further one takes it closer to the fall's, and   *)
(* from FallTime more on the timer of the descent runs.                    *)
FallInv ==
  /\ descent_since_ms <= now
  /\ fallen >= 1 => state = "flight" /\ last_altitude_ms # 0
  /\ FallSeen => descent_observed /\ OnReference
  /\ fallen >= 1 /\ ~FallSeen => phase = "fall" /\ last_reading = Site + height
  /\ fallen >= 2 /\ ~FallSeen =>
       /\ OnReference /\ last_altitude_ms = now
       /\ altitude_rate <= 2 * Fade[fallen - 2] - 10 * Speed
  /\ fallen >= FallTime + 2 /\ ~FallSeen =>
       \/ descent_observed
       \/ /\ descent_since_ms # 0
          /\ now - descent_since_ms >= fallen - (FallTime + 2)

(* One more pass of the fall.                                              *)
LEMMA FallPass ==
  ASSUME SensingInv, SensingInv', AltitudeInv, RateBound', FallInv,
         NEW imu_outcome \in OutcomesOf(imu_ok), NEW baro_outcome \in OutcomesOf(baro_ok),
         NEW noise \in {0, 1}, NEW rough \in BOOLEAN,
         Poll(imu_outcome, baro_outcome, noise, rough),
         state = "flight", phase' = "fall", baro_outcome = "good", ~FallSeen
  PROVE  /\ last_altitude_ms' # 0 /\ last_reading' = Site + height'
         /\ fallen >= 1 =>
              /\ OnReference' /\ last_altitude_ms' = now'
              /\ altitude_rate' <= 2 * Fade[(fallen + 1) - 2] - 10 * Speed
<1> DEFINE reading == Site + height' + noise
           h == height'
           r1 == altitude_rate'
<1>1. /\ now \in Nat /\ now' = now + 1 /\ last_altitude_ms \in 0 .. now
      /\ altitude_rate \in Int /\ last_altitude_agl_m \in Int /\ last_reading \in Nat
  BY PollTypes, Zenon
<1>2. /\ phase \in {"hover", "fall"} /\ h = height - Speed
      /\ height \in Nat /\ h \in Nat /\ noise = 0
  <2>1. phase \in {"hover", "fall"} /\ height' = height - Speed
    BY MoveOfPoll
  <2>2. height \in Nat /\ height' \in Nat
    BY MoveOfPoll, Zenon
  <2>3. noise = 0
    BY <2>1, PollTypes
  <2> QED BY <2>1, <2>2, <2>3
<1>3. Site \in Nat /\ Speed \in Nat /\ Speed > 0 /\ fallen \in Nat
  BY Constants, Margins DEF SensingInv, TypeOK
<1>4. reading = Site + h
  <2> HIDE DEF h
  <2>1. reading = Site + h + noise
    BY DEF h
  <2> QED BY <1>2, <1>3, <2>1
<1>5. First(reading) \/ Moved(reading) \/ Repeated(reading)
  BY RateOfPoll
<1>6. last_altitude_ms' # 0 /\ last_reading' = Site + h
  <2>1. now' # 0
    BY <1>1
  <2> HIDE DEF reading, h
  <2> QED BY <1>4, <1>5, <2>1 DEF First, Moved, Repeated, Taken
<1>7. ASSUME fallen >= 1
      PROVE  OnReference' /\ last_altitude_ms' = now' /\ Moved(reading)
  <2>1. last_altitude_ms # 0 /\ last_reading = Site + height
    BY <1>7 DEF FallInv
  <2>2. reading # last_reading
    <3> HIDE DEF reading, h
    <3> QED BY <1>2, <1>3, <1>4, <2>1
  <2>3. Moved(reading)
    <3> HIDE DEF reading
    <3> QED BY <1>5, <2>1, <2>2 DEF First, Repeated
  <2>4. Taken(reading)
    BY <2>3 DEF Moved
  <2> QED BY <2>3, <2>4, ReferenceStep DEF Taken
<1>8. ASSUME fallen >= 1
      PROVE  r1 <= 2 * Fade[(fallen + 1) - 2] - 10 * Speed
  <2>1. CASE fallen = 1
    <3> DEFINE f == Fade[0]
    <3>1. f = 10 * (Speed + Site + 1) /\ f \in Nat /\ (fallen + 1) - 2 = 0
      BY <2>1, FadeIs
    <3>2. r1 <= f /\ r1 \in Int
      BY DEF RateBound, Within, SensingInv, TypeOK
    <3> HIDE DEF f, r1
    <3>3. r1 <= 2 * f - 10 * Speed
      BY <1>3, <3>1, <3>2
    <3> QED BY <3>1, <3>3 DEF f
  <2>2. CASE fallen >= 2
    <3> DEFINE k == fallen - 2
               f == Fade[k]
               dt == now' - last_altitude_ms
               d == Agl(reading) - last_altitude_agl_m
    <3>1. k \in Nat /\ (fallen + 1) - 2 = k + 1
      BY <1>3, <2>2
    <3>2. f \in Nat /\ Fade[k + 1] = Faded(f)
      BY <3>1, FadeIs
    <3>3. /\ OnReference /\ last_altitude_ms = now /\ last_reading = Site + height
          /\ altitude_rate <= 2 * f - 10 * Speed
      BY <1>8, <2>2 DEF FallInv
    <3>4. dt = 1
      BY <1>1, <3>3
    <3>5. d = -Speed
      <4>1. d = reading - last_reading
        <5>1. Agl(reading) = reading - Site \/ Agl(reading) = reading
          BY DEF Agl
        <5>2. last_altitude_agl_m = Agl(last_reading)
          BY <3>3 DEF OnReference
        <5>3. reading \in Int
          <6> HIDE DEF h
          <6> QED BY <1>2, <1>3, <1>4
        <5> HIDE DEF reading
        <5> QED BY <1>1, <1>3, <5>2, <5>3 DEF Agl
      <4> HIDE DEF reading, h, d
      <4> QED BY <1>2, <1>3, <1>4, <3>3, <4>1
    <3>6. r1 = Quotient(7 * altitude_rate * dt + 30 * d, 10 * dt)
      BY <1>8, <1>7 DEF Moved
    <3> HIDE DEF dt, d, k, f, r1
    <3>7. 7 * altitude_rate * dt + 30 * d = 7 * altitude_rate - 30 * Speed /\ 10 * dt = 10
      BY <1>1, <1>3, <3>4, <3>5
    <3>8. r1 = Quotient(7 * altitude_rate - 30 * Speed, 10)
      BY <3>6, <3>7
    <3>9. Quotient(7 * altitude_rate - 30 * Speed, 10) <= 2 * Faded(f) - 10 * Speed
      BY <1>1, <1>3, <3>2, <3>3, FilterSinks
    <3> QED BY <3>1, <3>2, <3>8, <3>9
  <2>3. fallen = 1 \/ fallen >= 2
    BY <1>3, <1>8
  <2> QED BY <2>1, <2>2, <2>3
<1> QED BY <1>6, <1>7, <1>8

(* Enough of them, and the descent is observed.                            *)
LEMMA FallStep ==
  ASSUME SensingInv, SensingInv', AltitudeInv, RateBound', FallInv,
         NEW imu_outcome \in OutcomesOf(imu_ok), NEW baro_outcome \in OutcomesOf(baro_ok),
         NEW noise \in {0, 1}, NEW rough \in BOOLEAN,
         Poll(imu_outcome, baro_outcome, noise, rough)
  PROVE  FallInv'
<1> DEFINE n1 == now'
           d1 == descent_since_ms'
           f1 == fallen'
           r1 == altitude_rate'
           o1 == descent_observed'
<1>1. /\ now \in Nat /\ n1 = now + 1 /\ descent_since_ms \in Nat /\ fallen \in Nat
      /\ descent_since_ms <= now /\ r1 \in Int /\ f1 \in Nat
  BY DEF SensingInv, TypeOK, Machine!TypeOK, Poll, FallInv
<1>2. /\ FallTime \in Nat /\ DescentConfirm \in Nat /\ FallingRate \in Nat /\ Speed \in Nat
  BY Margins, Constants
<1>3. d1 \in {0, descent_since_ms, n1}
  BY <1>1, FlightOfPoll, Zenon
<1>4. d1 <= n1 /\ d1 \in Nat
  <2> HIDE DEF d1, n1
  <2> QED BY <1>1, <1>3
<1>5. /\ FallSeen <=> fallen >= FallTime + DescentConfirm + 2
      /\ FallSeen' <=> f1 >= FallTime + DescentConfirm + 2
  BY DEF FallSeen
<1>6. CASE f1 = 0
  <2> HIDE DEF f1
  <2>1. ~FallSeen' /\ ~(f1 >= 1) /\ ~(f1 >= 2) /\ ~(f1 >= FallTime + 2)
    BY <1>2, <1>5, <1>6
  <2> HIDE DEF d1, n1
  <2> QED BY <1>4, <2>1 DEF FallInv, f1, d1, n1
<1>7. CASE state = "flight" /\ state' = "flight" /\ FallSeen /\ f1 = fallen
  <2>1. fallen >= 1 /\ FallSeen'
    <3> HIDE DEF f1
    <3> QED BY <1>1, <1>2, <1>5, <1>7
  <2>2. last_altitude_ms # 0 /\ descent_observed /\ OnReference
    BY <1>7, <2>1 DEF FallInv
  <2>3. last_altitude_ms' # 0 /\ OnReference'
    BY <1>7, <2>2, ReferenceStep
  <2>4. o1
    BY <1>1, <1>7, <2>2, FlightOfPoll, Zenon
  <2> HIDE DEF d1, n1
  <2> QED BY <1>4, <1>7, <2>1, <2>3, <2>4 DEF FallInv, d1, n1
<1>8. CASE /\ state = "flight" /\ state' = "flight" /\ ~FallSeen
           /\ phase' = "fall" /\ baro_outcome = "good" /\ f1 = fallen + 1
  <2>1. /\ last_altitude_ms' # 0 /\ last_reading' = Site + height'
        /\ fallen >= 1 =>
             /\ OnReference' /\ last_altitude_ms' = now'
             /\ r1 <= 2 * Fade[(fallen + 1) - 2] - 10 * Speed
    BY <1>8, FallPass
  <2>2. /\ descent_observed => o1
        /\ r1 < -FallingRate =>
             /\ d1 = Machine!Timer(descent_since_ms, TRUE, n1)
             /\ o1 \/ ~(n1 - d1 >= DescentConfirm)
    BY <1>1, <1>8, FlightOfPoll, Zenon
  <2>3. f1 >= 2 => fallen >= 1
    <3> HIDE DEF f1
    <3> QED BY <1>1, <1>8
  <2>4. f1 >= 2 =>
          /\ OnReference' /\ last_altitude_ms' = now'
          /\ r1 <= 2 * Fade[f1 - 2] - 10 * Speed
    BY <1>8, <2>1, <2>3
  <2>5. ASSUME f1 >= FallTime + 2
        PROVE  o1 \/ (d1 # 0 /\ n1 - d1 >= f1 - (FallTime + 2))
    <3> DEFINE k == f1 - 2
               a == Fade[k]
               b == Fade[FallTime]
    <3>1. k \in Nat /\ FallTime <= k /\ f1 >= 2
      <4> HIDE DEF f1
      <4> QED BY <1>1, <1>2, <2>5
    <3>2. a <= b /\ a \in Nat /\ b \in Nat
      <4> HIDE DEF k
      <4> QED BY <1>2, <3>1, FadeFalls, FadeIs
    <3>3. 2 * b + FallingRate < 10 * Speed
      BY Margins
    <3>4. r1 <= 2 * a - 10 * Speed
      BY <2>4, <3>1
    <3> HIDE DEF a, b, k, r1, f1, d1, n1, o1
    <3>5. r1 < -FallingRate
      BY <1>1, <1>2, <3>2, <3>3, <3>4
    <3>6. d1 = IF descent_since_ms = 0 THEN n1 ELSE descent_since_ms
      BY <2>2, <3>5 DEF Machine!Timer
    <3>7. d1 # 0 /\ n1 - d1 >= 0
      BY <1>1, <3>6
    <3>8. CASE fallen >= FallTime + 2
      <4>1. \/ descent_observed
            \/ /\ descent_since_ms # 0
               /\ now - descent_since_ms >= fallen - (FallTime + 2)
        BY <1>8, <3>8 DEF FallInv
      <4> QED BY <1>1, <1>2, <1>8, <2>2, <3>6, <4>1
    <3>9. CASE ~(fallen >= FallTime + 2)
      <4>1. f1 - (FallTime + 2) <= 0
        BY <1>1, <1>2, <1>8, <3>9
      <4> QED BY <1>1, <1>2, <1>4, <3>7, <4>1
    <3> QED BY <3>8, <3>9
  <2>6. ASSUME FallSeen' PROVE o1 /\ OnReference'
    <3>1. f1 >= 2 /\ f1 >= FallTime + 2 /\ f1 - (FallTime + 2) >= DescentConfirm
      <4> HIDE DEF f1
      <4> QED BY <1>1, <1>2, <1>5, <2>6
    <3>2. OnReference' /\ r1 <= 2 * Fade[f1 - 2] - 10 * Speed
      BY <2>4, <3>1
    <3> DEFINE k == f1 - 2
               a == Fade[k]
               b == Fade[FallTime]
    <3>3. k \in Nat /\ FallTime <= k
      <4> HIDE DEF f1
      <4> QED BY <1>1, <1>2, <3>1
    <3>4. a <= b /\ a \in Nat /\ b \in Nat
      <4> HIDE DEF k
      <4> QED BY <1>2, <3>3, FadeFalls, FadeIs
    <3>5. 2 * b + FallingRate < 10 * Speed /\ r1 <= 2 * a - 10 * Speed
      BY <3>2, Margins
    <3>6. o1 \/ (d1 # 0 /\ n1 - d1 >= f1 - (FallTime + 2))
      BY <2>5, <3>1
    <3> HIDE DEF a, b, k, r1, f1, d1, n1, o1
    <3>7. r1 < -FallingRate
      BY <1>1, <1>2, <3>4, <3>5
    <3>8. o1 \/ n1 - d1 >= DescentConfirm
      BY <1>1, <1>2, <1>4, <3>1, <3>6
    <3> QED BY <2>2, <3>2, <3>7, <3>8
  <2> HIDE DEF d1, n1, f1, r1, o1
  <2> QED BY <1>4, <1>8, <2>1, <2>4, <2>5, <2>6 DEF FallInv, d1, n1, f1, r1, o1
<1>9. \/ f1 = 0
      \/ state = "flight" /\ state' = "flight" /\ FallSeen /\ f1 = fallen
      \/ /\ state = "flight" /\ state' = "flight" /\ ~FallSeen
         /\ phase' = "fall" /\ baro_outcome = "good" /\ f1 = fallen + 1
  BY DEF Poll
<1> QED BY <1>6, <1>7, <1>8, <1>9
-----------------------------------------------------------------------------

(* The rate has faded m times, each time in at most RateHold + 1 of the    *)
(* quiet passes.                                                           *)
Fading(m) ==
  /\ Within(altitude_rate, Fade[m])
  /\ quiet <= 1 + m * (RateHold + 1) + (now - last_altitude_ms)
  /\ quiet <= 1 + m * (RateHold + 1) + RateHold

(* A vehicle that lies still after a fall that was seen, with the last bit *)
(* of the barometer alone to move the rate.                                *)
Quiet ==
  quiet >= 1 /\ FallSeen =>
    /\ phase = "ground" /\ OnReference /\ last_altitude_ms # 0
    /\ last_reading \in {Site, Site + 1} /\ ~accel_rough
    /\ \E m \in Nat : Fading(m)

(* What a quiet poll does.                                                 *)
LEMMA QuietPoll ==
  ASSUME SensingInv, AltitudeInv, FallInv,
         NEW imu_outcome \in OutcomesOf(imu_ok), NEW baro_outcome \in OutcomesOf(baro_ok),
         NEW noise \in {0, 1}, NEW rough \in BOOLEAN,
         Poll(imu_outcome, baro_outcome, noise, rough),
         quiet' >= 1, FallSeen'
  PROVE  LET reading == Site + height' + noise
         IN /\ quiet \in Nat /\ quiet' = quiet + 1
            /\ FallSeen /\ state = "flight" /\ descent_observed
            /\ phase' = "ground" /\ OnReference /\ OnReference' /\ ~accel_rough'
            /\ Agl(reading) - last_altitude_agl_m = reading - last_reading
            /\ last_altitude_ms' # 0 /\ last_altitude_ms' \in 0 .. now'
            /\ last_reading' \in {Site, Site + 1} /\ reading \in {Site, Site + 1}
            /\ First(reading) \/ Moved(reading) \/ Repeated(reading)
<1> DEFINE reading == Site + height' + noise
<1>1. /\ quiet \in Nat
      /\ quiet' = IF phase = "ground" /\ {imu_outcome, baro_outcome} = {"good"}
                  THEN quiet + 1 ELSE 0
  BY DEF Poll, SensingInv, TypeOK
<1>2. phase = "ground" /\ imu_outcome = "good" /\ baro_outcome = "good" /\ quiet' = quiet + 1
  <2>1. ~(0 >= 1)
    OBVIOUS
  <2>2. phase = "ground" /\ {imu_outcome, baro_outcome} = {"good"} /\ quiet' = quiet + 1
    BY <1>1, <2>1, Zenon
  <2>3. imu_outcome = "good" /\ baro_outcome = "good"
    BY <2>2, Zenon
  <2> QED BY <2>2, <2>3
<1>3. phase' = "ground" /\ height' = 0
  <2>1. height = 0
    BY <1>2 DEF AltitudeInv, Baseline
  <2>2. phase = "ground" => phase' = phase /\ height' = height
    BY MoveOfPoll
  <2> QED BY <1>2, <2>1, <2>2, Zenon
<1>10. /\ FallSeen /\ state = "flight" /\ descent_observed /\ OnReference
       /\ last_altitude_ms # 0
  <2>1. FallSeen /\ fallen \in Nat
    <3>1. fallen \in Nat /\ FallTime \in Nat /\ DescentConfirm \in Nat
      BY Margins DEF SensingInv, TypeOK
    <3>2. FallSeen \/ fallen' = 0
      BY <1>3 DEF Poll
    <3>3. fallen' # 0
      BY <3>1 DEF FallSeen
    <3> QED BY <3>1, <3>2, <3>3
  <2>2. fallen >= 1
    BY <2>1, Margins DEF FallSeen
  <2> QED BY <2>1, <2>2 DEF FallInv
<1>4. ~accel_rough'
  <2>1. accel_rough' = rough /\ (rough => phase = "fall")
    BY <1>2 DEF Poll
  <2> QED BY <1>2, <2>1
<1>5. reading \in {Site, Site + 1}
  <2>1. Site + 0 + 0 = Site /\ Site + 0 + 1 = Site + 1
    BY Constants
  <2> QED BY <1>3, <2>1
<1> HIDE DEF reading
<1>6. Agl(reading) - last_altitude_agl_m = reading - last_reading
  <2>1. reading \in Int /\ last_reading \in Int /\ Site \in Int
    <3>1. last_reading \in Nat
      BY PollTypes, Zenon
    <3> QED BY <1>5, <3>1, Constants
  <2> QED BY <1>10, <2>1 DEF Agl, OnReference
<1>7. First(reading) \/ Moved(reading) \/ Repeated(reading)
  BY <1>2, RateOfPoll DEF reading
<1>8. /\ now \in Nat /\ now' = now + 1 /\ now' # 0 /\ now' \in 0 .. now'
      /\ last_altitude_ms \in 0 .. now
  BY PollTypes
<1>9. OnReference' /\ last_altitude_ms' # 0 /\ last_reading' \in {Site, Site + 1}
      /\ last_altitude_ms' \in 0 .. now'
  <2>1. OnReference' /\ last_altitude_ms' # 0
    BY <1>10, ReferenceStep
  <2>2. CASE Taken(reading)
    BY <1>5, <1>8, <2>1, <2>2 DEF Taken
  <2>3. CASE Repeated(reading)
    <3>1. last_altitude_ms \in 0 .. now'
      BY <1>8
    <3> QED BY <1>5, <2>1, <2>3, <3>1 DEF Repeated
  <2> QED BY <1>7, <2>2, <2>3 DEF First, Moved
<1> QED BY <1>1, <1>2, <1>3, <1>4, <1>5, <1>6, <1>7, <1>9, <1>10 DEF reading

(* Each quiet pass is one of the RateHold + 1 that a step of the fading    *)
(* takes at most.                                                          *)
LEMMA QuietStep ==
  ASSUME SensingInv, AltitudeInv, FallInv, RateBound', Quiet,
         NEW imu_outcome \in OutcomesOf(imu_ok), NEW baro_outcome \in OutcomesOf(baro_ok),
         NEW noise \in {0, 1}, NEW rough \in BOOLEAN,
         Poll(imu_outcome, baro_outcome, noise, rough)
  PROVE  Quiet'
<1> SUFFICES ASSUME quiet' >= 1, FallSeen' PROVE \E m \in Nat : Fading(m)'
  BY QuietPoll DEF Quiet
<1> DEFINE reading == Site + height' + noise
           hold == RateHold + 1
           age == now - last_altitude_ms
           age1 == now' - last_altitude_ms'
<1>1. /\ quiet \in Nat /\ quiet' = quiet + 1
      /\ FallSeen /\ reading \in {Site, Site + 1}
      /\ Agl(reading) - last_altitude_agl_m = reading - last_reading
      /\ last_altitude_ms' \in 0 .. now'
      /\ First(reading) \/ Moved(reading) \/ Repeated(reading)
  BY QuietPoll
<1>2. /\ now \in Nat /\ now' = now + 1 /\ last_altitude_ms \in 0 .. now
      /\ altitude_rate \in Int /\ last_altitude_agl_m \in Int /\ last_reading \in Nat
  BY PollTypes, Zenon
<1>3. RateHold \in Nat /\ hold \in Nat /\ Site \in Nat
  BY Constants
<1>4. age \in Nat /\ age1 \in Nat /\ now' - last_altitude_ms = age + 1
  <2>1. \A n \in Nat : \A t \in 0 .. n : n - t \in Nat
    OBVIOUS
  <2>3. now' \in Nat
    BY <1>2
  <2>2. now' - last_altitude_ms = age + 1
    BY <1>2
  <2>4. age1 \in Nat
    BY <1>1, <2>1, <2>3, Zenon
  <2>5. age \in Nat
    BY <1>2, <2>1, Zenon
  <2> QED BY <2>2, <2>4, <2>5
<1>5. ASSUME NEW m \in Nat, Within(altitude_rate', Fade[m]),
             quiet <= m * hold + age1, quiet <= m * hold + RateHold
      PROVE  Fading(m)'
  <2> DEFINE mh == m * hold
  <2>1. mh \in Nat
    BY <1>3
  <2> HIDE DEF mh, age1
  <2>2. quiet + 1 <= 1 + mh + age1 /\ quiet + 1 <= 1 + mh + RateHold
    BY <1>1, <1>3, <1>4, <1>5, <2>1 DEF mh
  <2> QED BY <1>1, <1>5, <2>2 DEF Fading, mh, age1
<1> HIDE DEF reading
<1>6. CASE quiet = 0
  <2>1. Within(altitude_rate', Fade[0])
    BY DEF RateBound
  <2>2. 0 * hold = 0 /\ 0 \in Nat
    BY <1>3
  <2> HIDE DEF hold, age1
  <2>3. quiet <= 0 * hold + age1 /\ quiet <= 0 * hold + RateHold
    BY <1>3, <1>4, <1>6, <2>2
  <2> QED BY <1>5, <2>1, <2>2, <2>3
<1>7. CASE quiet >= 1
  <2>1. PICK m \in Nat : Fading(m)
    BY <1>1, <1>7 DEF Quiet
  <2> DEFINE mh == m * hold
             b == Fade[m]
  <2>2. mh \in Nat /\ (m + 1) * hold = mh + hold /\ m + 1 \in Nat
    <3> HIDE DEF hold
    <3> QED BY <1>3
  <2>3. /\ Within(altitude_rate, b) /\ b \in Nat /\ Fade[m + 1] = Faded(b)
        /\ quiet <= 1 + mh + age /\ quiet <= 1 + mh + RateHold
    BY <2>1, FadeIs DEF Fading
  <2>4. last_altitude_ms # 0 /\ last_reading \in {Site, Site + 1}
    BY <1>1, <1>7 DEF Quiet
  <2>5. quiet <= (m + 1) * hold + age1 /\ quiet <= (m + 1) * hold + RateHold
    <3>1. hold = RateHold + 1
      OBVIOUS
    <3> HIDE DEF hold, mh, age, age1
    <3> QED BY <1>1, <1>3, <1>4, <2>2, <2>3, <3>1
  <2>6. CASE Moved(reading)
    <3> DEFINE dt == now' - last_altitude_ms
               d == Agl(reading) - last_altitude_agl_m
    <3>1. dt \in Nat \ {0}
      BY <1>4
    <3>2. d \in {-1, 0, 1}
      BY <1>1, <1>3, <2>4
    <3>3. altitude_rate' = Quotient(7 * altitude_rate * dt + 30 * d, 10 * dt)
      BY <2>6 DEF Moved
    <3> HIDE DEF dt, d
    <3>4. d \in Int /\ Within(d, 1 * dt)
      BY <3>1, <3>2 DEF Within
    <3> HIDE DEF b
    <3>5. Within(altitude_rate', (7 * b + 30 * 1) \div 10)
      BY <1>2, <2>3, <3>1, <3>3, <3>4, FilterWithin
    <3>6. (7 * b + 30 * 1) \div 10 = Faded(b)
      BY DEF Faded
    <3>7. Within(altitude_rate', Fade[m + 1])
      BY <2>3, <3>5, <3>6
    <3> QED BY <1>5, <2>2, <2>5, <3>7
  <2>7. CASE Repeated(reading) /\ altitude_rate' = Quotient(7 * altitude_rate, 10)
    <3> DEFINE c == (7 * b) \div 10
    <3> HIDE DEF b
    <3>1. Within(altitude_rate', c)
      BY <1>2, <2>3, <2>7, Decays
    <3>2. c \in Nat /\ Faded(b) \in Nat /\ c <= Faded(b)
      BY <2>3 DEF Faded
    <3>3. altitude_rate' \in Int
      <4>1. Quotient(7 * altitude_rate, 10) \in Int
        BY <1>2 DEF Quotient
      <4> QED BY <2>7, <4>1
    <3> DEFINE r == altitude_rate'
               f == Faded(b)
    <3> HIDE DEF c, r, f
    <3>4. Within(r, f)
      <4>1. Within(r, c) /\ r \in Int /\ c \in Nat /\ f \in Nat /\ c <= f
        BY <3>1, <3>2, <3>3 DEF r, f
      <4> QED BY <4>1 DEF Within
    <3>5. Within(altitude_rate', Fade[m + 1])
      BY <2>3, <3>4 DEF r, f
    <3> QED BY <1>5, <2>2, <2>5, <3>5
  <2>8. CASE /\ Repeated(reading) /\ altitude_rate' = altitude_rate
             /\ now' - last_altitude_ms <= RateHold
    <3>1. age1 = age + 1 /\ age + 1 <= RateHold
      BY <1>4, <2>8 DEF Repeated
    <3>2. quiet <= mh + age1 /\ quiet <= mh + RateHold
      <4> HIDE DEF mh, age, age1, hold
      <4> QED BY <1>1, <1>3, <1>4, <2>2, <2>3, <3>1
    <3>3. Within(altitude_rate', Fade[m])
      BY <2>3, <2>8 DEF Within
    <3> QED BY <1>5, <3>2, <3>3
  <2>9. \/ Moved(reading)
        \/ Repeated(reading) /\ altitude_rate' = Quotient(7 * altitude_rate, 10)
        \/ /\ Repeated(reading) /\ altitude_rate' = altitude_rate
           /\ now' - last_altitude_ms <= RateHold
    BY <1>1, <2>4 DEF First, Repeated
  <2> QED BY <2>6, <2>7, <2>8, <2>9
<1> QED BY <1>1, <1>6, <1>7

(* SettleTime passes are enough for a rate to fade to one of rest.         *)
LEMMA EnoughToFade ==
  ASSUME NEW q \in Nat, q >= SettleTime, NEW m \in Nat,
         q <= 1 + m * (RateHold + 1) + RateHold
  PROVE  Fade[m] \in Nat /\ Fade[m] < StillRate
<1>1. SettleTime \in Nat /\ SettleTime > 0 /\ RateHold \in Nat /\ StillRate \in Nat
  BY Margins, Constants
<1> DEFINE hold == RateHold + 1
           k == (SettleTime - 1) \div hold
           mh == m * hold
<1>2. mh \in Nat /\ hold \in Nat \ {0} /\ SettleTime - 1 \in Nat
  BY <1>1
<1>3. SettleTime - 1 <= mh + RateHold
  <2>1. q <= 1 + mh + RateHold
    OBVIOUS
  <2> HIDE DEF mh
  <2> QED BY <1>1, <1>2, <2>1
<1>4. k <= m /\ k \in Nat
  <2>1. k * hold <= SettleTime - 1 /\ k \in Nat
    <3> HIDE DEF hold
    <3> QED BY <1>2
  <2>2. (m + 1) * hold = mh + RateHold + 1
    BY <1>1
  <2>3. k >= m + 1 => k * hold >= (m + 1) * hold
    <3> HIDE DEF k, hold
    <3> QED BY <1>2, <2>1
  <2> DEFINE kh == k * hold
  <2>4. kh \in Nat
    <3> HIDE DEF k, hold
    <3> QED BY <1>2, <2>1
  <2> HIDE DEF kh, mh, k
  <2>5. ~(k >= m + 1)
    BY <1>1, <1>2, <1>3, <2>1, <2>2, <2>3, <2>4 DEF kh
  <2> QED BY <2>1, <2>5
<1>5. Fade[m] <= Fade[k] /\ Fade[m] \in Nat /\ Fade[k] \in Nat
  <2> HIDE DEF k
  <2> QED BY <1>4, FadeFalls, FadeIs
<1>6. Fade[k] < StillRate
  BY Margins
<1> DEFINE fm == Fade[m]
           fk == Fade[k]
<1> HIDE DEF fm, fk
<1>7. fm < StillRate
  BY <1>1, <1>5, <1>6 DEF fm, fk
<1> QED BY <1>5, <1>7 DEF fm

(* So a poll after which that many have been quiet leaves it still.        *)
LEMMA QuietIsStill ==
  ASSUME SensingInv', Quiet', FallSeen', quiet' >= SettleTime
  PROVE  Still'
<1> DEFINE q == quiet'
           r == altitude_rate'
<1>1. q \in Nat /\ r \in Int /\ SettleTime \in Nat /\ SettleTime > 0 /\ StillRate \in Nat
  BY Margins DEF SensingInv, TypeOK
<1> HIDE DEF q
<1>2. q >= 1
  BY <1>1 DEF q
<1>3. ~accel_rough' /\ \E m \in Nat : Fading(m)'
  BY <1>2 DEF Quiet, q
<1>4. PICK m \in Nat : Fading(m)'
  BY <1>3
<1>5. q <= 1 + m * (RateHold + 1) + RateHold /\ Within(r, Fade[m])
  BY <1>4 DEF Fading, q
<1> DEFINE f == Fade[m]
<1>6. f \in Nat /\ f < StillRate
  BY <1>1, <1>5, EnoughToFade DEF q
<1>7. -f <= r /\ r <= f
  BY <1>5 DEF Within
<1> HIDE DEF f, r
<1>8. r < StillRate /\ r > -StillRate
  BY <1>1, <1>6, <1>7
<1> QED BY <1>3, <1>8 DEF Still, r
-----------------------------------------------------------------------------

(* The rest timer of a quiet vehicle in FLIGHT runs, and has run since it  *)
(* was quiet long enough or could first land.                              *)
RestInv ==
  /\ rest_condition_since_ms <= now
  /\ /\ state = "flight" /\ FallSeen
     /\ quiet >= SettleTime /\ now - entered_ms >= MinFlight
     => /\ rest_condition_since_ms # 0
        /\ now - rest_condition_since_ms < RestConfirm
        /\ \/ now - rest_condition_since_ms >= quiet - SettleTime
           \/ now - rest_condition_since_ms >= now - entered_ms - MinFlight

(* The rest timer runs from the pass in which all its conditions hold.     *)
LEMMA RestStep ==
  ASSUME SensingInv, SensingInv', Quiet', AltitudeInv, FallInv, FallInv', RestInv,
         NEW imu_outcome \in OutcomesOf(imu_ok), NEW baro_outcome \in OutcomesOf(baro_ok),
         NEW noise \in {0, 1}, NEW rough \in BOOLEAN,
         Poll(imu_outcome, baro_outcome, noise, rough)
  PROVE  RestInv'
<1> DEFINE rest == rest_condition_since_ms
           n1 == now'
           r1 == rest_condition_since_ms'
           q1 == quiet'
<1>1. /\ now \in Nat /\ n1 = now + 1 /\ rest \in Nat /\ entered_ms \in Nat /\ quiet \in Nat
      /\ rest <= now /\ r1 \in Nat /\ descent_observed \in BOOLEAN
  BY DEF SensingInv, TypeOK, Machine!TypeOK, Poll, RestInv
<1>2. /\ MinFlight \in Nat /\ RestConfirm \in Nat /\ SettleTime \in Nat /\ SettleTime > 0
      /\ FallingRate \in Nat /\ StillRate \in Nat /\ FallingRate > StillRate
  BY Margins
<1>3. altitude_rate' \in Int
  BY DEF SensingInv, TypeOK
<1>4. r1 \in {0, rest, n1}
  BY <1>3, FlightOfPoll, Zenon
<1>5. r1 <= n1
  <2> HIDE DEF n1, r1
  <2> QED BY <1>1, <1>4
<1>6. ASSUME state' = "flight", FallSeen', q1 >= SettleTime,
             n1 - entered_ms' >= MinFlight
      PROVE  /\ r1 # 0 /\ n1 - r1 < RestConfirm
             /\ \/ n1 - r1 >= q1 - SettleTime
                \/ n1 - r1 >= n1 - entered_ms' - MinFlight
  <2>1. q1 = quiet + 1 /\ FallSeen /\ state = "flight" /\ descent_observed
    <3> HIDE DEF q1
    <3>1. q1 >= 1
      <4>1. q1 \in Nat
        BY DEF SensingInv, TypeOK, q1
      <4> QED BY <1>2, <1>6, <4>1
    <3> QED BY <1>6, <3>1, QuietPoll, Zenon DEF q1
  <2>2. Still'
    BY <1>6, QuietIsStill
  <2>3. q1 = quiet + 1
    BY <2>1
  <2>5. descent_observed'
    BY <1>6 DEF FallInv
  <2>4. /\ entered_ms' = entered_ms
        /\ Still' /\ descent_observed' /\ ~(now' - entered_ms < MinFlight) =>
             /\ rest_condition_since_ms' = Machine!Timer(rest_condition_since_ms, TRUE, now')
             /\ ~(now' - rest_condition_since_ms' >= RestConfirm)
    BY <1>3, <1>6, <2>1, FlightOfPoll, Zenon
  <2>6. ~(n1 - entered_ms < MinFlight)
    <3> HIDE DEF n1
    <3> QED BY <1>1, <1>2, <1>6, <2>4
  <2>7. r1 = IF rest = 0 THEN n1 ELSE rest
    BY <1>6, <2>2, <2>4, <2>5, <2>6 DEF Machine!Timer
  <2>8. ~(n1 - r1 >= RestConfirm)
    BY <1>6, <2>2, <2>4, <2>5, <2>6
  <2>9. quiet >= SettleTime /\ now - entered_ms >= MinFlight =>
          /\ rest # 0
          /\ \/ now - rest >= quiet - SettleTime
             \/ now - rest >= now - entered_ms - MinFlight
    BY <2>1 DEF RestInv
  <2> HIDE DEF n1, r1, q1, rest
  <2>10. r1 # 0 /\ n1 - r1 < RestConfirm
    BY <1>1, <1>2, <1>5, <2>7, <2>8
  <2>11. CASE quiet >= SettleTime /\ now - entered_ms >= MinFlight
    <3>1. r1 = rest
      BY <2>7, <2>9, <2>11
    <3> QED BY <1>1, <1>2, <1>5, <2>3, <2>4, <2>9, <2>10, <2>11, <3>1
  <2>12. CASE ~(quiet >= SettleTime)
    BY <1>1, <1>2, <1>5, <2>3, <2>10, <2>12
  <2>13. CASE ~(now - entered_ms >= MinFlight)
    <3>1. n1 - r1 >= n1 - entered_ms - MinFlight
      BY <1>1, <1>2, <1>5, <2>13
    <3> QED BY <2>4, <2>10, <3>1
  <2> QED BY <2>11, <2>12, <2>13
<1> QED BY <1>5, <1>6 DEF RestInv

(* What is left to LandsOnceQuiet.                                         *)
LEMMA RestLands == SensingInv /\ RestInv => LandsOnceQuiet
<1> SUFFICES ASSUME SensingInv, RestInv, FallSeen,
                    quiet >= SettleTime + RestConfirm,
                    now - entered_ms >= MinFlight + RestConfirm,
                    state = "flight"
             PROVE  FALSE
  BY DEF LandsOnceQuiet
<1>1. /\ now \in Nat /\ quiet \in Nat /\ entered_ms \in Nat /\ rest_condition_since_ms \in Nat
      /\ MinFlight \in Nat /\ RestConfirm \in Nat /\ SettleTime \in Nat
  BY Margins DEF SensingInv, TypeOK, Machine!TypeOK
<1>2. quiet >= SettleTime /\ now - entered_ms >= MinFlight
  BY <1>1
<1>3. /\ now - rest_condition_since_ms < RestConfirm
      /\ \/ now - rest_condition_since_ms >= quiet - SettleTime
         \/ now - rest_condition_since_ms >= now - entered_ms - MinFlight
  BY <1>2 DEF RestInv
<1> QED BY <1>1, <1>3
-----------------------------------------------------------------------------

(* The last reading is what a fall at full speed has left since.           *)
Dropping == last_reading - Site - height = Speed * (now - last_altitude_ms)

(* A flight declared on the reference in use, with no fall in its rate:    *)
(* none before the fall is taken for one, and the fall that is taken for   *)
(* one goes on.                                                            *)
LevelInv ==
  state = "flight" /\ level =>
    /\ OnReference /\ last_altitude_ms # 0
    /\ phase \in {"pad", "lift", "hover"} =>
         /\ baseline_ready => phase # "pad" /\ last_reading <= Site + height
         /\ altitude_rate >= -FallingRate
         /\ descent_since_ms = 0 /\ ~descent_observed
    /\ phase = "fall" =>
         /\ altitude_rate >= -FallingRate \/ Dropping
         /\ descent_since_ms # 0 \/ descent_observed =>
              Dropping /\ altitude_rate <= -StillRate

(* In the air a poll leaves the reading as it was, with a rate no further  *)
(* from zero, or takes the height the vehicle is at and filters the rate.  *)
LEMMA AirOfPoll ==
  ASSUME SensingInv, AltitudeInv,
         NEW imu_outcome \in OutcomesOf(imu_ok), NEW baro_outcome \in OutcomesOf(baro_ok),
         NEW noise \in {0, 1}, NEW rough \in BOOLEAN,
         Poll(imu_outcome, baro_outcome, noise, rough),
         phase \in {"lift", "hover", "fall"}, OnReference, last_altitude_ms # 0
  PROVE  \/ /\ UNCHANGED <<last_altitude_ms, last_reading>>
            /\ \/ altitude_rate' = altitude_rate /\ baro_outcome # "good"
               \/ /\ last_reading = Site + height'
                  /\ \/ altitude_rate' = altitude_rate
                     \/ altitude_rate' = Quotient(7 * altitude_rate, 10)
         \/ /\ last_altitude_ms' = now' /\ last_reading' = Site + height'
            /\ altitude_rate' = Quotient(7 * altitude_rate * (now' - last_altitude_ms)
                                           + 30 * (Site + height' - last_reading),
                                         10 * (now' - last_altitude_ms))
<1>1. noise = 0 /\ last_reading \in Nat /\ last_altitude_agl_m \in Int
  BY PollTypes
<1>2. height' \in Nat /\ Site \in Nat
  BY MoveOfPoll, Constants
<1> DEFINE h == height'
           reading == Site + h + noise
<1>3. reading = Site + h /\ reading \in Nat
  <2>1. h \in Nat
    BY <1>2
  <2> HIDE DEF h
  <2> QED BY <1>1, <1>2, <2>1
<1>4. Agl(reading) - last_altitude_agl_m = Site + h - last_reading
  <2> HIDE DEF reading, h
  <2>1. reading = Site + h /\ reading \in Nat /\ h \in Nat
    BY <1>2, <1>3 DEF h
  <2> QED BY <1>1, <1>2, <2>1 DEF Agl, OnReference
<1>5. \/ /\ baro_outcome # "good"
         /\ UNCHANGED <<last_altitude_ms, last_altitude_agl_m, last_reading, altitude_rate>>
      \/ First(reading) \/ Moved(reading) \/ Repeated(reading)
  BY RateOfPoll, Zenon
<1> HIDE DEF reading, h
<1>6. CASE /\ baro_outcome # "good"
           /\ UNCHANGED <<last_altitude_ms, last_altitude_agl_m, last_reading, altitude_rate>>
  BY <1>6
<1>7. CASE Repeated(reading)
  BY <1>3, <1>7 DEF Repeated, h
<1>8. CASE Moved(reading)
  BY <1>3, <1>4, <1>8 DEF Moved, Taken, h
<1>9. ~First(reading)
  BY DEF First
<1> QED BY <1>5, <1>6, <1>7, <1>8, <1>9

(* What a poll makes of altitude and rate in a level flight.               *)
LEMMA LevelRate ==
  ASSUME SensingInv, SensingInv', AltitudeInv, AltitudeInv', LevelInv, state = "flight", level,
         NEW imu_outcome \in OutcomesOf(imu_ok), NEW baro_outcome \in OutcomesOf(baro_ok),
         NEW noise \in {0, 1}, NEW rough \in BOOLEAN,
         Poll(imu_outcome, baro_outcome, noise, rough)
  PROVE  /\ OnReference' /\ last_altitude_ms' # 0
         /\ phase' \in {"pad", "lift", "hover"} =>
              /\ ~descent_observed
              /\ baseline_ready' => phase' # "pad" /\ last_reading' <= Site + height'
              /\ altitude_rate' >= -FallingRate
         /\ phase' = "fall" =>
              /\ altitude_rate' >= -FallingRate \/ Dropping'
              /\ descent_observed => Dropping' /\ altitude_rate' <= -StillRate
<1> DEFINE dt == now' - last_altitude_ms
           age == now - last_altitude_ms
           d == Site + height' - last_reading
           h == height'
           r1 == altitude_rate'
           moved == Quotient(7 * altitude_rate * dt + 30 * d, 10 * dt)
           kept == Quotient(7 * altitude_rate, 10)
<1>1. /\ now \in Nat /\ now' = now + 1 /\ last_altitude_ms \in 0 .. now
      /\ altitude_rate \in Int /\ last_altitude_agl_m \in Int /\ last_reading \in Nat
      /\ height \in Nat /\ h \in Nat /\ Site \in Nat /\ Speed \in Nat /\ Speed > 0
      /\ FallingRate \in Nat /\ StillRate \in Nat /\ FallingRate > StillRate
      /\ StillRate <= 10 * Speed /\ r1 \in Int
  <2>1. r1 \in Int
    BY DEF SensingInv, TypeOK
  <2> QED BY <2>1, PollTypes, MoveOfPoll, Constants, Margins, Zenon
<1>2. dt \in Nat \ {0} /\ age \in Nat /\ dt = age + 1
  BY <1>1
<1>3. /\ OnReference /\ last_altitude_ms # 0
      /\ phase \in {"pad", "lift", "hover"} =>
           /\ baseline_ready => phase # "pad" /\ last_reading <= Site + height
           /\ altitude_rate >= -FallingRate /\ ~descent_observed
      /\ phase = "fall" =>
           /\ altitude_rate >= -FallingRate \/ Dropping
           /\ descent_observed => Dropping /\ altitude_rate <= -StillRate
  BY DEF LevelInv
<1>4. d \in Int
  <2>1. d = Site + h - last_reading
    OBVIOUS
  <2> HIDE DEF h, d
  <2> QED BY <1>1, <2>1
<1>5. kept >= -FallingRate \/ ~(altitude_rate >= -FallingRate)
  BY <1>1, Decays
<1>6. OnReference' /\ last_altitude_ms' # 0 /\ baseline_ready' = baseline_ready
  BY <1>3, ReferenceStep
<1>7. /\ phase' \in {"pad", "lift", "hover"} =>
           phase \in {"pad", "lift", "hover"} /\ height <= h
      /\ phase' = "pad" => phase = "pad"
      /\ phase' \in {"lift", "hover"} => phase \in {"pad", "lift", "hover"}
      /\ phase' = "fall" => phase \in {"hover", "fall"} /\ h = height - Speed
  <2>1. \/ phase \in {"pad", "hover", "ground"} /\ phase' = phase /\ height' = height
        \/ phase = "pad" /\ settled /\ phase' = "lift" /\ height' = height
        \/ /\ phase = "lift" /\ phase' \in {"lift", "hover"}
           /\ height <= height' /\ height' <= height + Speed
        \/ /\ phase \in {"hover", "fall"}
           /\ \/ phase' = "fall" /\ height' = height - Speed
              \/ phase' = "ground" /\ height' = 0 /\ height <= Speed
    BY MoveOfPoll, Zenon
  <2>2. height <= height
    BY <1>1
  <2> HIDE DEF h
  <2> QED BY <1>3, <2>1, <2>2 DEF h
<1>8. ASSUME phase \in {"lift", "hover", "fall"}
      PROVE  \/ /\ UNCHANGED <<last_altitude_ms, last_reading>>
                /\ \/ r1 = altitude_rate /\ baro_outcome # "good"
                   \/ last_reading = Site + h /\ (r1 = altitude_rate \/ r1 = kept)
             \/ /\ last_altitude_ms' = now' /\ last_reading' = Site + h /\ r1 = moved
  BY <1>3, <1>8, AirOfPoll, Zenon
<1>9. moved >= -FallingRate \/ ~(d >= 0) \/ ~(altitude_rate >= -FallingRate)
  <2> HIDE DEF d, dt
  <2> QED BY <1>1, <1>2, <1>4, FilterRises
<1>10. CASE phase' \in {"pad", "lift", "hover"}
  <2>1. phase \in {"pad", "lift", "hover"} /\ height <= h /\ ~descent_observed
    BY <1>3, <1>7, <1>10
  <2>2. CASE ~baseline_ready'
    <3>1. r1 >= -10
      BY <1>10, <2>2 DEF AltitudeInv, RateBound
    <3>2. FallingRate >= 10
      <4> DEFINE f == Fade[(SettleTime - 1) \div (RateHold + 1)]
      <4>1. f >= 10 /\ f \in Nat
        <5>1. (SettleTime - 1) \div (RateHold + 1) \in Nat
          BY Margins, Constants
        <5> QED BY <5>1, FadeIs
      <4>2. f < StillRate
        BY Margins
      <4> HIDE DEF f
      <4> QED BY <1>1, <4>1, <4>2
    <3> HIDE DEF r1
    <3>3. r1 >= -FallingRate
      BY <1>1, <3>1, <3>2
    <3> QED BY <1>6, <1>10, <2>1, <2>2, <3>3 DEF r1
  <2>3. CASE baseline_ready'
    <3>1. /\ baseline_ready /\ phase \in {"lift", "hover"} /\ phase' # "pad"
          /\ last_reading <= Site + height /\ altitude_rate >= -FallingRate
      BY <1>3, <1>6, <1>7, <2>1, <2>3
    <3>2. d >= 0 /\ last_reading <= Site + h
      <4>1. d = Site + h - last_reading
        OBVIOUS
      <4> HIDE DEF d, h
      <4> QED BY <1>1, <1>4, <2>1, <3>1, <4>1
    <3>3. Site + h <= Site + h
      <4> HIDE DEF h
      <4> QED BY <1>1
    <3> HIDE DEF h, r1, moved, kept
    <3>4. r1 >= -FallingRate
      BY <1>5, <1>8, <1>9, <3>1, <3>2
    <3>5. last_reading' <= Site + h
      BY <1>8, <3>1, <3>2, <3>3
    <3> QED BY <1>6, <1>10, <2>1, <3>1, <3>4, <3>5 DEF h, r1
  <2> QED BY <2>2, <2>3
<1>11. CASE phase' = "fall"
  <2> DEFINE gone == Speed * age
             falling == Speed * dt
             agl == last_reading - Site
  <2>1. /\ phase \in {"hover", "fall"} /\ h = height - Speed
        /\ altitude_rate >= -FallingRate \/ Dropping
        /\ descent_observed => Dropping /\ altitude_rate <= -StillRate
    BY <1>3, <1>7, <1>11
  <2>2. gone \in Nat /\ falling = gone + Speed
    <3> HIDE DEF age, dt
    <3> QED BY <1>1, <1>2
  <2>3. Dropping <=> agl - height = gone
    BY DEF Dropping
  <2>4. CASE /\ UNCHANGED <<last_altitude_ms, last_reading>>
             /\ r1 = altitude_rate
    <3>1. Dropping' <=> agl - h = falling
      BY <2>4 DEF Dropping
    <3> HIDE DEF gone, falling, agl, h
    <3>2. agl \in Int
      BY <1>1 DEF agl
    <3>3. Dropping => Dropping'
      BY <1>1, <2>1, <2>2, <2>3, <3>1, <3>2
    <3> QED BY <1>6, <1>7, <1>11, <2>1, <2>4, <3>3
  <2>5. CASE last_reading = Site + h /\ (r1 = altitude_rate \/ r1 = kept)
    <3>0. agl = h
      <4> HIDE DEF h
      <4> QED BY <1>1, <2>5
    <3> HIDE DEF gone, falling, agl, h, r1, kept
    <3>1. ~Dropping
      BY <1>1, <2>1, <2>2, <2>3, <3>0
    <3>2. r1 >= -FallingRate /\ ~descent_observed
      BY <1>5, <2>1, <2>5, <3>1
    <3> QED BY <1>6, <1>7, <1>11, <3>2 DEF r1
  <2>6. CASE last_altitude_ms' = now' /\ last_reading' = Site + h /\ r1 = moved
    <3>1. Dropping'
      <4>1. \A n \in Nat : n - n = 0
        OBVIOUS
      <4>2. (Site + h) - Site - h = 0 /\ now' - now' = 0
        <5>1. now' \in Nat
          BY <1>1
        <5>2. (Site + h) - Site - h = 0
          <6> HIDE DEF h
          <6> QED BY <1>1
        <5> QED BY <4>1, <5>1, <5>2, Zenon
      <4>3. Speed * 0 = 0
        BY <1>1
      <4> HIDE DEF h
      <4> QED BY <2>6, <4>2, <4>3, Zenon DEF Dropping, h
    <3>2. ASSUME descent_observed PROVE r1 <= -StillRate
      <4>1. Dropping /\ altitude_rate <= -StillRate
        BY <2>1, <3>2
      <4>2. d = -falling
        <5>1. d = h - agl /\ agl \in Int
          <6>1. d = Site + h - last_reading /\ agl = last_reading - Site
            OBVIOUS
          <6> HIDE DEF d, h, agl
          <6> QED BY <1>1, <6>1
        <5> HIDE DEF d, h, agl, gone, falling
        <5> QED BY <1>1, <2>1, <2>2, <2>3, <4>1, <5>1
      <4> HIDE DEF d, dt
      <4>3. moved <= -StillRate
        BY <1>1, <1>2, <1>4, <4>1, <4>2, FilterFalls
      <4> HIDE DEF moved, r1
      <4> QED BY <2>6, <4>3
    <3> QED BY <1>6, <1>7, <1>11, <3>1, <3>2
  <2> QED BY <1>8, <2>1, <2>4, <2>5, <2>6
<1>12. CASE phase' \notin {"pad", "lift", "hover", "fall"}
  BY <1>6, <1>7, <1>12
<1> QED BY <1>10, <1>11, <1>12

(* A level flight stays one: declared so, and kept by every poll.          *)
LEMMA LevelStep ==
  ASSUME SensingInv, SensingInv', AltitudeInv, AltitudeInv', LevelInv,
         NEW imu_outcome \in OutcomesOf(imu_ok), NEW baro_outcome \in OutcomesOf(baro_ok),
         NEW noise \in {0, 1}, NEW rough \in BOOLEAN,
         Poll(imu_outcome, baro_outcome, noise, rough)
  PROVE  LevelInv'
<1> SUFFICES ASSUME state' = "flight", level'
             PROVE  /\ OnReference' /\ last_altitude_ms' # 0
                    /\ phase' \in {"pad", "lift", "hover"} =>
                         /\ baseline_ready' =>
                              phase' # "pad" /\ last_reading' <= Site + height'
                         /\ altitude_rate' >= -FallingRate
                         /\ descent_since_ms' = 0 /\ ~descent_observed'
                    /\ phase' = "fall" =>
                         /\ altitude_rate' >= -FallingRate \/ Dropping'
                         /\ descent_since_ms' # 0 \/ descent_observed' =>
                              Dropping' /\ altitude_rate' <= -StillRate
  BY DEF LevelInv
<1> DEFINE r1 == altitude_rate'
           g1 == last_reading'
           h1 == height'
           a1 == last_altitude_agl_m'
<1>1. /\ r1 \in Int /\ g1 \in Nat /\ h1 \in Nat /\ a1 \in Int
      /\ FallingRate \in Nat /\ StillRate \in Nat /\ FallingRate > StillRate
      /\ LaunchGain \in Nat /\ LaunchGain > 0 /\ Site \in Nat
      /\ descent_observed' \in BOOLEAN
  <2>1. h1 \in Nat
    BY MoveOfPoll, Zenon
  <2> QED BY <2>1, Margins, Constants DEF SensingInv, TypeOK, Machine!TypeOK
<1>2. CASE state # "flight"
  <2>1. /\ state = "ready" /\ a1 > LaunchGain
        /\ descent_since_ms' = 0 /\ descent_observed' = FALSE
    BY <1>1, <1>2, FlightOfPoll, Zenon
  <2>2. OnReference' /\ r1 >= -FallingRate
    BY <2>1 DEF Poll
  <2>3. baseline_ready' => a1 = g1 - Site
    BY <2>2 DEF OnReference, Agl
  <2>4. last_altitude_ms' # 0
    <3>1. last_altitude_ms' = 0 => a1 = 0
      BY DEF AltitudeInv, Unheard
    <3> HIDE DEF a1
    <3> QED BY <1>1, <2>1, <3>1
  <2>5. /\ phase' = "pad" => g1 \in {Site, Site + 1}
        /\ phase' \in {"lift", "hover"} => g1 <= Site + h1 \/ g1 <= Site + 1
    BY <2>4 DEF AltitudeInv, Heard
  <2>6. baseline_ready' => ~(g1 <= Site + 1) /\ g1 \notin {Site, Site + 1}
    <3> HIDE DEF a1, g1
    <3> QED BY <1>1, <2>1, <2>3
  <2> HIDE DEF g1, h1, a1, r1
  <2> QED BY <2>1, <2>2, <2>4, <2>5, <2>6 DEF g1, h1, r1
<1>3. CASE state = "flight"
  <2>1. level
    BY <1>3 DEF Poll
  <2>2. /\ OnReference' /\ last_altitude_ms' # 0
        /\ phase' \in {"pad", "lift", "hover"} =>
             /\ ~descent_observed /\ r1 >= -FallingRate
             /\ baseline_ready' => phase' # "pad" /\ g1 <= Site + h1
        /\ phase' = "fall" =>
             /\ r1 >= -FallingRate \/ Dropping'
             /\ descent_observed => Dropping' /\ r1 <= -StillRate
    BY <1>3, <2>1, LevelRate, Zenon
  <2>3. /\ descent_since_ms' # 0 => r1 < -FallingRate
        /\ descent_observed' => descent_observed \/ r1 < -FallingRate
    BY <1>1, <1>3, FlightOfPoll, Zenon
  <2>4. r1 < -FallingRate => ~(r1 >= -FallingRate) /\ r1 <= -StillRate
    <3> HIDE DEF r1
    <3> QED BY <1>1
  <2> HIDE DEF g1, h1, r1
  <2> QED BY <2>2, <2>3, <2>4 DEF g1, h1, r1
<1> QED BY <1>2, <1>3

(* What is left to LandedOnGround.                                         *)
LEMMA LevelLands ==
  ASSUME SensingInv, SensingInv', AltitudeInv, AltitudeInv', LevelInv,
         NEW imu_outcome \in OutcomesOf(imu_ok), NEW baro_outcome \in OutcomesOf(baro_ok),
         NEW noise \in {0, 1}, NEW rough \in BOOLEAN,
         Poll(imu_outcome, baro_outcome, noise, rough),
         state = "flight", state' = "landed", level
  PROVE  phase' = "ground"
<1> DEFINE r1 == altitude_rate'
<1>1. r1 \in Int /\ phase' \in Places
  BY DEF SensingInv, TypeOK
<1>2. descent_observed /\ r1 > -StillRate
  BY <1>1, FlightOfPoll, Zenon
<1>3. /\ phase' \in {"pad", "lift", "hover"} => ~descent_observed
      /\ phase' = "fall" => (descent_observed => r1 <= -StillRate)
  BY LevelRate, Zenon
<1> HIDE DEF r1
<1>4. ~(r1 <= -StillRate)
  BY <1>1, <1>2, Margins
<1> QED BY <1>1, <1>2, <1>3, <1>4 DEF Places
-----------------------------------------------------------------------------
(* The invariant of the sensors and of the launch.                         *)
LEMMA Invariance == Spec => []SensingInv
<1>1. Init => SensingInv
  BY InvInit
<1>2. SensingInv /\ [Next]_vars => SensingInv'
  BY InvStep
<1> QED
  BY <1>1, <1>2, PTL DEF Spec

(* The sensing's variables keep their types: the filter of the vertical    *)
(* rate never divides by a time of zero, no timestamp is in the future and *)
(* the machine of the vehicle stays typed (acquire_sensors).               *)
THEOREM SensingTyped == Spec => []TypeOK
<1>1. SensingInv => TypeOK
  BY DEF SensingInv
<1> QED
  BY <1>1, Invariance, PTL

(* What is called valid is fresh, and FAULT is the state of a vehicle both *)
(* of whose mandatory sensors are late, and of no other, however the       *)
(* outages of the two overlap (acquire_sensors, feed_state_machine).       *)
THEOREM SensorsHonest == Spec => SensingHonest
<1>1. ASSUME SensingInv, Next
      PROVE  /\ imu_valid' => now' - last_good_imu_ms' <= SensorStale
             /\ baro_valid' => now' - last_good_baro_ms' <= SensorStale
             /\ Blind' => state' = "fault"
             /\ state # "fault" /\ state' = "fault" => Blind'
  <2>1. PICK imu_outcome \in OutcomesOf(imu_ok), baro_outcome \in OutcomesOf(baro_ok),
             noise \in {0, 1}, rough \in BOOLEAN :
               Poll(imu_outcome, baro_outcome, noise, rough)
    BY <1>1 DEF Next
  <2>2. /\ "imu_stale" \in faults' <=> now' - last_good_imu_ms' > SensorStale
        /\ "baro_stale" \in faults' <=> now' - last_good_baro_ms' > SensorStale
        /\ imu_valid' => now' - last_good_imu_ms' <= SensorStale
        /\ baro_valid' => now' - last_good_baro_ms' <= SensorStale
    BY <1>1, <2>1, SensorsOfPoll, Zenon
  <2>3. state' = "fault" <=>
          state = "fault" \/ {"imu_stale", "baro_stale"} \subseteq faults'
    BY <1>1, <2>1, MissionOfPoll, Zenon
  <2>4. Blind' <=> "imu_stale" \in faults' /\ "baro_stale" \in faults'
    BY <2>2 DEF Blind
  <2> QED
    BY <2>2, <2>3, <2>4, Zenon
<1>2. SensingInv /\ [Next]_vars =>
        [/\ imu_valid' => now' - last_good_imu_ms' <= SensorStale
         /\ baro_valid' => now' - last_good_baro_ms' <= SensorStale
         /\ Blind' => state' = "fault"
         /\ state # "fault" /\ state' = "fault" => Blind']_vars
  BY <1>1
<1> QED
  BY <1>2, Invariance, PTL DEF Spec, SensingHonest

(* The first part of PhasesTrue: a vehicle on the pad that has a baseline  *)
(* enters FLIGHT only when its barometer gave nothing new for as long as a *)
(* launch takes to confirm, whatever the height of the site (is_armed,     *)
(* has_thrust).                                                            *)
THEOREM StaysReadyOnPad == Spec => NoFlightOnPad
<1>1. Init => OldAltitude
  BY DEF Init, OldAltitude
<1>2. SensingInv /\ OldAltitude /\ [Next]_vars => OldAltitude'
  BY OldAltitudeStep
<1>3. ASSUME SensingInv, OldAltitude, Next
      PROVE  state = "ready" /\ state' = "flight" /\ phase' = "pad" /\ baseline_ready' =>
               now' - last_altitude_ms' >= LaunchConfirm
  <2>1. PICK imu_outcome \in OutcomesOf(imu_ok), baro_outcome \in OutcomesOf(baro_ok),
             noise \in {0, 1}, rough \in BOOLEAN :
               Poll(imu_outcome, baro_outcome, noise, rough)
    BY <1>3 DEF Next
  <2>2. SUFFICES ASSUME state = "ready", state' = "flight", phase' = "pad",
                        baseline_ready'
                 PROVE  now' - last_altitude_ms' >= LaunchConfirm
    OBVIOUS
  <2> DEFINE since == Machine!Timer(launch_condition_since_ms, TRUE, now')
  <2>3. last_altitude_agl_m' > LaunchGain /\ now' - since >= LaunchConfirm
    BY <1>3, <2>1, <2>2, MissionOfPoll, Zenon
  <2>4. /\ last_altitude_ms' <= now'
        /\ launch_condition_since_ms # 0 => last_altitude_ms' <= launch_condition_since_ms
    BY <1>3, <2>1, <2>2, <2>3, TimerOnPad, Zenon
  <2>5. since \in {launch_condition_since_ms, now'}
        /\ (launch_condition_since_ms = 0 => since = now')
    BY DEF Machine!Timer
  <2>6. last_altitude_ms' <= since
    BY <2>4, <2>5
  <2>7. TypeOK' /\ TypeOK
    BY <1>3, InvStep DEF SensingInv
  <2>8. now' \in Nat /\ last_altitude_ms' \in Nat /\ since \in Nat
    <3>1. now' \in Nat /\ last_altitude_ms' \in 0 .. now' /\ launch_condition_since_ms \in Nat
      BY <2>7 DEF TypeOK, Machine!TypeOK
    <3> HIDE DEF since
    <3> QED
      BY <2>5, <3>1
  <2> HIDE DEF since
  <2>9. \A t, a, u \in Nat : t - u >= LaunchConfirm /\ a <= u => t - a >= LaunchConfirm
    BY Constants
  <2> QED
    BY <2>3, <2>6, <2>8, <2>9
<1>4. SensingInv /\ OldAltitude /\ [Next]_vars =>
        [state = "ready" /\ state' = "flight" /\ phase' = "pad" /\ baseline_ready' =>
           now' - last_altitude_ms' >= LaunchConfirm]_vars
  BY <1>3
<1> QED
  BY <1>1, <1>2, <1>4, Invariance, PTL DEF Spec, NoFlightOnPad

(* Altitude, rate, rest and fall together, with what a poll relies on.     *)
FlightInv == AltitudeInv /\ FallInv /\ Quiet /\ RestInv /\ LevelInv

(* It holds at first,                                                      *)
LEMMA FlightInit ==
  ASSUME Init
  PROVE  FlightInv
<1>1. Fade[0] \in Nat
  BY FadeIs
<1>2. AltitudeInv
  <2>1. Within(altitude_rate, Fade[0]) /\ altitude_rate >= -10
    BY <1>1 DEF Init, Within
  <2>2. phase = "pad" /\ state # "flight" /\ last_altitude_ms = 0
    BY DEF Init
  <2> QED
    BY <2>1, <2>2 DEF Init, AltitudeInv, Baseline, Heard, Unheard, RateBound
<1>3. Quiet
  BY DEF Init, Quiet
<1>4. state # "flight" /\ rest_condition_since_ms <= now
  BY DEF Init
<1>5. FallInv
  <2>1. fallen = 0 /\ descent_since_ms <= now
    BY DEF Init
  <2> QED BY <2>1, Margins DEF FallInv, FallSeen
<1> QED
  BY <1>2, <1>3, <1>4, <1>5 DEF FlightInv, RestInv, LevelInv

(* is kept by every step,                                                  *)
LEMMA FlightStep ==
  ASSUME SensingInv, FlightInv, [Next]_vars
  PROVE  FlightInv'
<1>1. SensingInv'
  BY InvStep
<1>2. CASE Next
  <2>1. PICK imu_outcome \in OutcomesOf(imu_ok), baro_outcome \in OutcomesOf(baro_ok),
             noise \in {0, 1}, rough \in BOOLEAN :
               Poll(imu_outcome, baro_outcome, noise, rough)
    BY <1>2 DEF Next
  <2>2. AltitudeInv /\ FallInv /\ Quiet /\ RestInv /\ LevelInv
    BY DEF FlightInv
  <2>3. Baseline'
    BY <2>1, <2>2, BaselineStep DEF AltitudeInv
  <2>4. Heard' /\ Unheard'
    BY <2>1, <2>2, HeardStep DEF AltitudeInv
  <2>5. RateBound'
    BY <2>1, <2>2, RateBoundStep
  <2>6. AltitudeInv'
    BY <2>3, <2>4, <2>5 DEF AltitudeInv
  <2>7. Quiet'
    BY <2>1, <2>2, <2>5, QuietStep
  <2>10. FallInv'
    BY <1>1, <2>1, <2>2, <2>5, FallStep
  <2>8. RestInv'
    BY <1>1, <2>1, <2>2, <2>7, <2>10, RestStep
  <2>9. LevelInv'
    BY <1>1, <2>1, <2>2, <2>6, LevelStep
  <2> QED
    BY <2>6, <2>7, <2>8, <2>9, <2>10 DEF FlightInv
<1>3. CASE UNCHANGED vars
  <2>1. UNCHANGED <<now, state, entered_ms, rest_condition_since_ms, descent_since_ms,
                    descent_observed, accel_rough>>
    BY <1>3 DEF vars, machine, imu
  <2>2. UNCHANGED <<last_altitude_ms, last_altitude_agl_m, last_reading,
                    altitude_rate, settled, baseline_ready, phase, height, fallen,
                    quiet, level>>
    BY <1>3 DEF vars, altitude, calibration, vehicle
  <2>3. AltitudeInv'
    BY <2>1, <2>2 DEF FlightInv, AltitudeInv, Baseline, Heard, Unheard, RateBound,
                      OnReference, Agl, Within
  <2>4. \A m \in Nat : Fading(m) => Fading(m)'
    BY <2>1, <2>2 DEF Fading, Within
  <2>5. Quiet'
    BY <2>1, <2>2, <2>4 DEF FlightInv, Quiet, FallSeen, OnReference, Agl
  <2>6. RestInv'
    BY <2>1, <2>2 DEF FlightInv, RestInv, FallSeen
  <2>7. LevelInv'
    BY <2>1, <2>2 DEF FlightInv, LevelInv, OnReference, Agl, Dropping
  <2>8. FallInv'
    BY <2>1, <2>2 DEF FlightInv, FallInv, FallSeen, OnReference, Agl
  <2> QED
    BY <2>3, <2>5, <2>6, <2>7, <2>8 DEF FlightInv
<1> QED
  BY <1>2, <1>3

(* and so holds in every state.                                            *)
LEMMA FlightInvariance == Spec => [](SensingInv /\ FlightInv)
<1>1. Init => FlightInv
  BY FlightInit
<1>2. SensingInv /\ FlightInv /\ [Next]_vars => FlightInv'
  BY FlightStep
<1> QED
  BY <1>1, <1>2, Invariance, PTL DEF Spec

(* A flight to which enough of its fall was shown is not left in FLIGHT    *)
(* when the vehicle lies still: the fall has been confirmed whatever the   *)
(* rate before it, the rate it came down with has faded when it has been   *)
(* quiet for SettleTime, and the rest timer cannot be broken after that    *)
(* (update_altitude, update).                                              *)
THEOREM LandsWhenQuiet == Spec => []LandsOnceQuiet
<1>1. SensingInv /\ FlightInv => LandsOnceQuiet
  BY RestLands DEF FlightInv
<1> QED
  BY <1>1, FlightInvariance, PTL

(* The second part of PhasesTrue: a flight declared on an altitude of the  *)
(* reference in use, be that a baseline or the sea, never lands but on the *)
(* ground.  In the lift and the hover no rate is a fall's, and in the fall *)
(* every new altitude keeps it one.                                        *)
THEOREM LandsOnTheGround == Spec => LandedOnGround
<1>1. ASSUME SensingInv, FlightInv, Next
      PROVE  state = "flight" /\ state' = "landed" /\ level => phase' = "ground"
  <2>1. PICK imu_outcome \in OutcomesOf(imu_ok), baro_outcome \in OutcomesOf(baro_ok),
             noise \in {0, 1}, rough \in BOOLEAN :
               Poll(imu_outcome, baro_outcome, noise, rough)
    BY <1>1 DEF Next
  <2>2. SensingInv'
    BY <1>1, InvStep
  <2>3. AltitudeInv /\ LevelInv
    BY <1>1 DEF FlightInv
  <2>4. AltitudeInv'
    BY <1>1, FlightStep DEF FlightInv
  <2> QED
    BY <1>1, <2>1, <2>2, <2>3, <2>4, LevelLands
<1>2. SensingInv /\ FlightInv /\ [Next]_vars =>
        [state = "flight" /\ state' = "landed" /\ level => phase' = "ground"]_vars
  BY <1>1
<1> QED
  BY <1>2, FlightInvariance, PTL DEF Spec, LandedOnGround

(* The phases are those of the vehicle, for every site, lift, rate and     *)
(* time, and however many readings are missed (feed_state_machine).        *)
THEOREM PhasesAreTrue == Spec => PhasesTrue
<1> QED
  BY StaysReadyOnPad, LandsOnTheGround DEF PhasesTrue
=============================================================================
