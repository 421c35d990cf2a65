---------------------------- MODULE BenchProofs ----------------------------
(***************************************************************************)
(* Theorems of the components on the bench, for any values of their        *)
(* constants: the fault store, the heading, the position, the packet       *)
(* budget and the ground station.  Each is proved of the component's own   *)
(* specification, from an inductive invariant of its own, and carried over *)
(* to the bench, whose behaviours are for each component behaviours of its *)
(* own that stutter while another one runs. The invariant of the station   *)
(* says what a packet that is still to come can add: the numbers of this   *)
(* run above the last one heard were all lost (LossBound), and a run that  *)
(* has sent nothing yet still has its restart to show (RestartBound).      *)
(***************************************************************************)
EXTENDS Bench, TLAPS

-----------------------------------------------------------------------------
(* The fault store.  The two properties are inductive together: the        *)
(* history and the record of a code are moved by the same comparison,      *)
(* which needs the types of both.                                          *)
LEMMA FaultsAssumed == Faults!FaultStoreAssumption
  BY BenchAssumption

(* What each operation makes of a record of the right type. *)
LEMMA CountedInBounds ==
  ASSUME Faults!FaultStoreAssumption, NEW n \in 0 .. MaxCount
  PROVE  Faults!Counted(n) \in 0 .. MaxCount
  BY DEF Faults!Counted, Faults!FaultStoreAssumption

LEMMA ReportedRecord ==
  ASSUME Faults!FaultStoreAssumption, NEW r \in Faults!Record,
         NEW severity \in Faults!Severities
  PROVE  /\ Faults!Reported(r, severity) \in Faults!Record
         /\ Faults!Reported(r, severity).active
         /\ Faults!Reported(r, severity).occurrences = Faults!Counted(r.occurrences)
         /\ Faults!Reported(r, severity).severity =
              (IF ~r.active \/ severity > r.severity THEN severity ELSE r.severity)
<1>1. r.occurrences \in 0 .. MaxCount /\ r.severity \in Faults!Severities
  BY DEF Faults!Record
<1>2. Faults!Counted(r.occurrences) \in 0 .. MaxCount
  BY <1>1, CountedInBounds
<1> QED
  BY <1>1, <1>2 DEF Faults!Reported, Faults!Record

LEMMA HeldRecord ==
  ASSUME Faults!FaultStoreAssumption, NEW r \in Faults!Record,
         NEW severity \in Faults!Severities
  PROVE  /\ Faults!Held(r, severity) \in Faults!Record
         /\ Faults!Held(r, severity).active
         /\ Faults!Held(r, severity).occurrences =
              (IF r.active THEN r.occurrences ELSE Faults!Counted(r.occurrences))
         /\ Faults!Held(r, severity).severity =
              (IF ~r.active \/ severity > r.severity THEN severity ELSE r.severity)
<1>1. CASE ~r.active
  BY <1>1, ReportedRecord DEF Faults!Held
<1>2. CASE r.active
  BY <1>2 DEF Faults!Held, Faults!Record
<1> QED
  BY <1>1, <1>2

LEMMA ClearedRecord ==
  ASSUME NEW r \in Faults!Record
  PROVE  /\ Faults!Cleared(r) \in Faults!Record
         /\ ~Faults!Cleared(r).active
         /\ Faults!Cleared(r).occurrences = r.occurrences
  BY DEF Faults!Cleared, Faults!Record

(* The history of a code follows its record through a report or a hold.    *)
LEMMA WorseFollows ==
  ASSUME Faults!TypeOK, Faults!FaultsTruthful, NEW c \in Codes,
         NEW severity \in Faults!Severities
  PROVE  /\ Faults!Worse(c, severity) \in Faults!Severities
         /\ Faults!Worse(c, severity) =
              (IF ~records[c].active \/ severity > records[c].severity
               THEN severity ELSE records[c].severity)
<1>1. records[c] \in Faults!Record /\ worst[c] \in Faults!Severities
  BY DEF Faults!TypeOK
<1>2. records[c].active \in BOOLEAN /\ records[c].severity \in Faults!Severities
  BY <1>1 DEF Faults!Record
<1>3. records[c].active => records[c].severity = worst[c]
  BY DEF Faults!FaultsTruthful
<1> QED
  BY <1>1, <1>2, <1>3 DEF Faults!Worse

-----------------------------------------------------------------------------
FaultInv == Faults!TypeOK /\ Faults!FaultsTruthful

LEMMA FaultInit ==
  ASSUME Faults!FaultStoreAssumption, Faults!Init
  PROVE  FaultInv
<1>1. \A c \in Codes : /\ records[c] =
                            [active |-> FALSE, severity |-> 0, occurrences |-> 0]
                        /\ worst[c] = 0 /\ episodes[c] = 0
  BY DEF Faults!Init
<1>2. 0 \in Faults!Severities /\ 0 \in 0 .. MaxCount
  BY DEF Faults!Severities, Faults!FaultStoreAssumption
<1>3. [active |-> FALSE, severity |-> 0, occurrences |-> 0] \in Faults!Record
  BY <1>2 DEF Faults!Record
<1>4. Faults!TypeOK
  BY <1>2, <1>3 DEF Faults!TypeOK, Faults!Init
<1>5. Faults!FaultsTruthful
  BY <1>1 DEF Faults!FaultsTruthful, Faults!HasCritical
<1> QED
  BY <1>4, <1>5 DEF FaultInv

(* One record moves, together with its history; the others stay.           *)
LEMMA OneRecordMoves ==
  ASSUME FaultInv, NEW c \in Codes, NEW r \in Faults!Record,
         NEW w \in Faults!Severities, NEW e \in 0 .. MaxCount,
         records' = [records EXCEPT ![c] = r],
         worst' = [worst EXCEPT ![c] = w],
         episodes' = [episodes EXCEPT ![c] = e],
         ever_critical' \in BOOLEAN,
         ever_critical => ever_critical',
         r.active => r.severity = w,
         r.occurrences = e,
         r.active /\ r.severity = Faults!Critical => ever_critical'
  PROVE  FaultInv'
<1>1. Faults!TypeOK'
  BY DEF FaultInv, Faults!TypeOK
<1>2. /\ records'[c] = r /\ worst'[c] = w /\ episodes'[c] = e
      /\ \A d \in Codes \ {c} : /\ records'[d] = records[d]
                                /\ worst'[d] = worst[d]
                                /\ episodes'[d] = episodes[d]
  BY DEF FaultInv, Faults!TypeOK
<1>3. \A d \in Codes : records'[d].active => records'[d].severity = worst'[d]
  BY <1>2 DEF FaultInv, Faults!FaultsTruthful
<1>4. \A d \in Codes : records'[d].occurrences = episodes'[d]
  BY <1>2 DEF FaultInv, Faults!FaultsTruthful
<1>5. Faults!HasCritical' => ever_critical'
  <2> SUFFICES ASSUME NEW d \in Codes, records'[d].active,
                      records'[d].severity = Faults!Critical
               PROVE  ever_critical'
    BY DEF Faults!HasCritical
  <2>1. CASE d = c
    BY <2>1, <1>2
  <2>2. CASE d # c
    BY <2>2, <1>2 DEF FaultInv, Faults!FaultsTruthful, Faults!HasCritical
  <2> QED
    BY <2>1, <2>2
<1> QED
  BY <1>1, <1>3, <1>4, <1>5 DEF FaultInv, Faults!FaultsTruthful

LEMMA FaultStep ==
  ASSUME Faults!FaultStoreAssumption, FaultInv, [Faults!Next]_(Faults!vars)
  PROVE  FaultInv'
<1>1. ASSUME NEW c \in Codes, NEW severity \in Faults!Severities,
             Faults!Report(c, severity)
      PROVE  FaultInv'
  <2>1. records[c] \in Faults!Record /\ episodes[c] \in 0 .. MaxCount
    BY DEF FaultInv, Faults!TypeOK
  <2>2. Faults!Counted(episodes[c]) \in 0 .. MaxCount
    BY <2>1, CountedInBounds
  <2>3. Faults!Reported(records[c], severity).severity = Faults!Worse(c, severity)
    BY <2>1, ReportedRecord, WorseFollows DEF FaultInv
  <2>4. Faults!Reported(records[c], severity).occurrences = Faults!Counted(episodes[c])
    BY <2>1, ReportedRecord DEF FaultInv, Faults!FaultsTruthful
  <2>5. /\ ever_critical' \in BOOLEAN /\ (ever_critical => ever_critical')
        /\ (severity = Faults!Critical => ever_critical')
    BY <1>1 DEF Faults!Report, FaultInv, Faults!TypeOK
  <2>6. Faults!Worse(c, severity) = Faults!Critical => ever_critical'
    <3>1. CASE ~records[c].active \/ severity > records[c].severity
      BY <3>1, <2>5, WorseFollows DEF FaultInv
    <3>2. CASE records[c].active /\ ~(severity > records[c].severity)
      <4>1. Faults!Worse(c, severity) = records[c].severity
        BY <3>2, WorseFollows DEF FaultInv
      <4> QED
        BY <4>1, <3>2, <2>5 DEF FaultInv, Faults!FaultsTruthful,
           Faults!HasCritical
    <3> QED
      BY <3>1, <3>2, <2>1 DEF Faults!Record
  <2> QED
    BY <1>1, <2>1, <2>2, <2>3, <2>4, <2>5, <2>6, ReportedRecord, WorseFollows,
       OneRecordMoves DEF Faults!Report, FaultInv
<1>2. ASSUME NEW c \in Codes, NEW severity \in Faults!Severities,
             Faults!Hold(c, severity)
      PROVE  FaultInv'
  <2> DEFINE e == IF records[c].active THEN episodes[c] ELSE Faults!Counted(episodes[c])
  <2>1. records[c] \in Faults!Record /\ episodes[c] \in 0 .. MaxCount
    BY DEF FaultInv, Faults!TypeOK
  <2>2. e \in 0 .. MaxCount
    BY <2>1, CountedInBounds
  <2>3. Faults!Held(records[c], severity).severity = Faults!Worse(c, severity)
    BY <2>1, HeldRecord, WorseFollows DEF FaultInv
  <2>4. Faults!Held(records[c], severity).occurrences = e
    BY <2>1, HeldRecord DEF FaultInv, Faults!FaultsTruthful
  <2>5. /\ ever_critical' \in BOOLEAN /\ (ever_critical => ever_critical')
        /\ (severity = Faults!Critical => ever_critical')
    BY <1>2 DEF Faults!Hold, FaultInv, Faults!TypeOK
  <2>6. Faults!Worse(c, severity) = Faults!Critical => ever_critical'
    <3>1. CASE ~records[c].active \/ severity > records[c].severity
      BY <3>1, <2>5, WorseFollows DEF FaultInv
    <3>2. CASE records[c].active /\ ~(severity > records[c].severity)
      <4>1. Faults!Worse(c, severity) = records[c].severity
        BY <3>2, WorseFollows DEF FaultInv
      <4> QED
        BY <4>1, <3>2, <2>5 DEF FaultInv, Faults!FaultsTruthful,
           Faults!HasCritical
    <3> QED
      BY <3>1, <3>2, <2>1 DEF Faults!Record
  <2>7. /\ records' = [records EXCEPT ![c] = Faults!Held(records[c], severity)]
        /\ worst' = [worst EXCEPT ![c] = Faults!Worse(c, severity)]
        /\ episodes' = [episodes EXCEPT ![c] = e]
    BY <1>2 DEF Faults!Hold
  <2>8. /\ Faults!Held(records[c], severity) \in Faults!Record
        /\ Faults!Worse(c, severity) \in Faults!Severities
    BY <2>1, HeldRecord, WorseFollows DEF FaultInv
  <2> HIDE DEF e
  <2> QED
    BY <2>2, <2>3, <2>4, <2>5, <2>6, <2>7, <2>8, OneRecordMoves
<1>3. ASSUME NEW c \in Codes, Faults!Clear(c)
      PROVE  FaultInv'
  <2>1. /\ records[c] \in Faults!Record /\ worst[c] \in Faults!Severities
        /\ episodes[c] \in 0 .. MaxCount /\ ever_critical \in BOOLEAN
    BY DEF FaultInv, Faults!TypeOK
  <2>2. /\ worst' = [worst EXCEPT ![c] = worst[c]]
        /\ episodes' = [episodes EXCEPT ![c] = episodes[c]]
    BY <1>3 DEF Faults!Clear, FaultInv, Faults!TypeOK
  <2>3. Faults!Cleared(records[c]).occurrences = episodes[c]
    BY <2>1, ClearedRecord DEF FaultInv, Faults!FaultsTruthful
  <2> QED
    BY <1>3, <2>1, <2>2, <2>3, ClearedRecord, OneRecordMoves DEF Faults!Clear
<1>4. CASE UNCHANGED Faults!vars
  BY <1>4 DEF FaultInv, Faults!TypeOK, Faults!FaultsTruthful,
     Faults!HasCritical, Faults!vars
<1> QED
  BY <1>1, <1>2, <1>3, <1>4 DEF Faults!Next

(* The fault store keeps its types, for every set of codes.                *)
THEOREM FaultsTyped == Faults!Spec => []Faults!TypeOK
<1>1. Faults!Init => FaultInv
  BY FaultsAssumed, FaultInit
<1>2. FaultInv /\ [Faults!Next]_(Faults!vars) => FaultInv'
  BY FaultsAssumed, FaultStep
<1>3. FaultInv => Faults!TypeOK
  BY DEF FaultInv
<1> QED
  BY <1>1, <1>2, <1>3, PTL DEF Faults!Spec

(* An active fault shows the worst severity named since it became active,  *)
(* and counts its episodes, whichever tasks report, hold and clear it      *)
(* (fault_manager.cpp).                                                    *)
THEOREM FaultsShown == Faults!Spec => []Faults!FaultsTruthful
<1>1. Faults!Init => FaultInv
  BY FaultsAssumed, FaultInit
<1>2. FaultInv /\ [Faults!Next]_(Faults!vars) => FaultInv'
  BY FaultsAssumed, FaultStep
<1>3. FaultInv => Faults!FaultsTruthful
  BY DEF FaultInv
<1> QED
  BY <1>1, <1>2, <1>3, PTL DEF Faults!Spec

(* The same on the bench, where the fault store stands still while another *)
(* component runs.                                                         *)
THEOREM FaultsOnBench == Spec => []FaultsTruthful
<1>1. Init => Faults!Init
  BY DEF Init
<1>2. [Next]_vars => [Faults!Next]_(Faults!vars)
  BY DEF Next, vars, faults, Faults!vars
<1>3. Faults!FaultsTruthful => FaultsTruthful
  BY DEF FaultsTruthful
<1> QED
  BY <1>1, <1>2, <1>3, FaultsShown, PTL DEF Spec, Faults!Spec

-----------------------------------------------------------------------------
(* The attitude.  HeadingEarned is not inductive.  What carries it is a    *)
(* budget: every update without a usable field takes one from the          *)
(* confidence and adds one to the updates the yaw has gone unaided, so the *)
(* two never exceed MaxConfidence together, also over a reset and a seed   *)
(* without a field; and the estimator is never ahead of the calibration.   *)
LEMMA AttitudeAssumed == Attitude!HeadingAssumption
  BY BenchAssumption

EarnedInv ==
  /\ Attitude!TypeOK
  /\ mag_calibrated => calibrated
  /\ confidence + unaided <= MaxConfidence
  /\ ~seeded => confidence = 0

LEMMA LeastOf ==
  ASSUME NEW a \in Nat, NEW b \in Nat
  PROVE  /\ Attitude!Least(a, b) \in Nat
         /\ Attitude!Least(a, b) <= a /\ Attitude!Least(a, b) <= b
         /\ Attitude!Least(a, b) \in {a, b}
  BY DEF Attitude!Least

(* What one update makes of the confidence and of the time unaided. *)
LEMMA UpdateKeeps ==
  ASSUME Attitude!HeadingAssumption, EarnedInv,
         NEW accel_usable \in BOOLEAN, NEW field \in Attitude!Fields,
         Attitude!Update(accel_usable, field)
  PROVE  /\ seeded' \in BOOLEAN /\ mag_calibrated' \in BOOLEAN
         /\ confidence' \in 0 .. MaxConfidence /\ unaided' \in 0 .. MaxConfidence
         /\ mag_calibrated' => calibrated
         /\ confidence' + unaided' <= MaxConfidence
         /\ ~seeded' => confidence' = 0
<1>1. /\ MaxConfidence \in Nat /\ Required \in Nat /\ Required <= MaxConfidence
      /\ MaxConfidence >= 1
  BY DEF Attitude!HeadingAssumption
<1>2. /\ confidence \in 0 .. MaxConfidence /\ unaided \in 0 .. MaxConfidence
      /\ confidence + unaided <= MaxConfidence
      /\ seeded \in BOOLEAN /\ mag_calibrated \in BOOLEAN /\ calibrated \in BOOLEAN
      /\ (mag_calibrated => calibrated) /\ (~seeded => confidence = 0)
  BY DEF EarnedInv, Attitude!TypeOK
<1>3. CASE ~seeded
  <2>1. CASE ~accel_usable
    BY <1>2, <1>3, <2>1 DEF Attitude!Update, Attitude!Seed, Attitude!estimator
  <2>2. CASE accel_usable /\ Attitude!Seeds(field)
    <3>1. /\ seeded' = TRUE /\ confidence' = Required /\ unaided' = 0
          /\ mag_calibrated' = calibrated
      BY <1>3, <2>2 DEF Attitude!Update, Attitude!Seed
    <3>2. Required \in 0 .. MaxConfidence /\ Required + 0 <= MaxConfidence
          /\ 0 \in 0 .. MaxConfidence
      BY <1>1
    <3> QED
      BY <1>2, <3>1, <3>2
  <2>3. CASE accel_usable /\ ~Attitude!Seeds(field)
    <3>1. /\ seeded' = TRUE /\ confidence' = confidence /\ unaided' = MaxConfidence
          /\ mag_calibrated' = mag_calibrated
      BY <1>3, <2>3 DEF Attitude!Update, Attitude!Seed
    <3>2. confidence = 0 /\ 0 + MaxConfidence <= MaxConfidence
          /\ MaxConfidence \in 0 .. MaxConfidence
      BY <1>1, <1>2, <1>3
    <3> QED
      BY <1>2, <3>1, <3>2
  <2> QED
    BY <2>1, <2>2, <2>3
<1>4. CASE seeded
  <2>1. CASE Attitude!Steers(field)
    <3>1. /\ seeded' = seeded /\ confidence' = Attitude!Least(confidence + 1, MaxConfidence)
          /\ unaided' = 0 /\ mag_calibrated' = calibrated
      BY <1>4, <2>1 DEF Attitude!Update, Attitude!Correct
    <3>2. /\ Attitude!Least(confidence + 1, MaxConfidence) \in 0 .. MaxConfidence
          /\ Attitude!Least(confidence + 1, MaxConfidence) + 0 <= MaxConfidence
          /\ 0 \in 0 .. MaxConfidence
      BY <1>1, <1>2, LeastOf
    <3> QED
      BY <1>2, <1>4, <3>1, <3>2
  <2>2. CASE ~Attitude!Steers(field)
    <3> DEFINE less == IF confidence > 0 THEN confidence - 1 ELSE 0
               more == Attitude!Least(unaided + 1, MaxConfidence)
    <3>1. /\ seeded' = seeded /\ confidence' = less /\ unaided' = more
          /\ mag_calibrated' = mag_calibrated
      BY <1>4, <2>2 DEF Attitude!Update, Attitude!Correct
    <3>2. /\ less \in 0 .. MaxConfidence /\ more \in 0 .. MaxConfidence
          /\ less + more <= MaxConfidence
      BY <1>1, <1>2 DEF Attitude!Least
    <3> HIDE DEF less, more
    <3> QED
      BY <1>2, <1>4, <3>1, <3>2
  <2> QED
    BY <2>1, <2>2
<1> QED
  BY <1>2, <1>3, <1>4

(* Ages stay within what staleness tells apart, and no age is 0 but that   *)
(* of a new sample.                                                        *)
LEMMA OlderAge ==
  ASSUME Attitude!HeadingAssumption, NEW age \in 0 .. SensorStale + 1
  PROVE  Attitude!Older(age) \in 1 .. SensorStale + 1
  BY DEF Attitude!HeadingAssumption, Attitude!Older, Attitude!Least

-----------------------------------------------------------------------------
LEMMA EarnedInit ==
  ASSUME Attitude!HeadingAssumption, Attitude!Init
  PROVE  EarnedInv
<1>1. /\ 0 \in 0 .. MaxConfidence /\ MaxConfidence \in 0 .. MaxConfidence
      /\ 0 \in 0 .. SensorStale + 1 /\ 0 \in 0 .. CogConfirm /\ 0 \in 0 .. MinSamples
      /\ 0 + MaxConfidence <= MaxConfidence
  BY DEF Attitude!HeadingAssumption
<1>2. has_mag \in BOOLEAN
  BY DEF Attitude!Init, Attitude!MagnetometerBegins
<1> QED
  BY <1>1, <1>2 DEF EarnedInv, Attitude!TypeOK, Attitude!Init

LEMMA SampleStep ==
  ASSUME Attitude!HeadingAssumption, EarnedInv,
         NEW accel_usable \in BOOLEAN, NEW field \in Attitude!FieldsRead,
         NEW end \in Attitude!Ends,
         Attitude!Sample(accel_usable, field, end)
  PROVE  /\ seeded' \in BOOLEAN /\ mag_calibrated' \in BOOLEAN
         /\ confidence' \in 0 .. MaxConfidence /\ unaided' \in 0 .. MaxConfidence
         /\ mag_calibrated' => calibrated
         /\ confidence' + unaided' <= MaxConfidence
         /\ ~seeded' => confidence' = 0
         /\ swept' \subseteq Attitude!Ends /\ samples' \in 0 .. MinSamples
         /\ imu_age' = 0 /\ mag_age' \in 0 .. SensorStale + 1
         /\ shown' \in [mag : BOOLEAN, orientation : BOOLEAN, yaw_is_magnetic : BOOLEAN]
         /\ shown'.yaw_is_magnetic => mag_calibrated' /\ confidence' >= Required
<1>1. field \in Attitude!Fields
  BY DEF Attitude!FieldsRead, Attitude!Fields
<1>2. Attitude!Update(accel_usable, field)
  BY DEF Attitude!Sample
<1>3. /\ seeded' \in BOOLEAN /\ mag_calibrated' \in BOOLEAN
      /\ confidence' \in 0 .. MaxConfidence /\ unaided' \in 0 .. MaxConfidence
      /\ mag_calibrated' => calibrated
      /\ confidence' + unaided' <= MaxConfidence
      /\ ~seeded' => confidence' = 0
  BY <1>1, <1>2, UpdateKeeps
<1>4. swept' \subseteq Attitude!Ends /\ samples' \in 0 .. MinSamples
  <2>1. swept \subseteq Attitude!Ends /\ samples \in 0 .. MinSamples /\ MinSamples \in Nat
    BY DEF EarnedInv, Attitude!TypeOK, Attitude!HeadingAssumption
  <2>2. Attitude!Least(samples + 1, MinSamples) \in 0 .. MinSamples
    BY <2>1, LeastOf
  <2>3. Attitude!AddToSweep(field, end)
    BY DEF Attitude!Sample
  <2> QED
    BY <2>1, <2>2, <2>3 DEF Attitude!AddToSweep, Attitude!sweep
<1>5. mag_age' \in 0 .. SensorStale + 1
  <2>1. mag_age \in 0 .. SensorStale + 1 /\ SensorStale \in Nat
    BY DEF EarnedInv, Attitude!TypeOK, Attitude!HeadingAssumption
  <2>2. Attitude!Older(mag_age) \in 0 .. SensorStale + 1 /\ 0 \in 0 .. SensorStale + 1
    BY <2>1, OlderAge
  <2> QED
    BY <2>2 DEF Attitude!Sample
<1>6. shown' = [mag |-> field # "none" \/ (shown.mag /\ mag_age' <= SensorStale),
                orientation |-> seeded', yaw_is_magnetic |-> Attitude!YawIsMagnetic]
  BY DEF Attitude!Sample
<1>7. /\ Attitude!YawIsMagnetic \in BOOLEAN
      /\ Attitude!YawIsMagnetic => mag_calibrated' /\ confidence' >= Required
  BY DEF Attitude!YawIsMagnetic
<1>8. (field # "none" \/ (shown.mag /\ mag_age' <= SensorStale)) \in BOOLEAN
  OBVIOUS
<1> QED
  BY <1>3, <1>4, <1>5, <1>6, <1>7, <1>8 DEF Attitude!Sample

LEMMA NoSampleStep ==
  ASSUME Attitude!HeadingAssumption, EarnedInv, NEW implausible \in BOOLEAN,
         Attitude!NoSample(implausible)
  PROVE  /\ UNCHANGED <<Attitude!estimator, Attitude!sweep>>
         /\ imu_age' \in 1 .. SensorStale + 1 /\ mag_age' \in 0 .. SensorStale + 1
         /\ shown' \in [mag : BOOLEAN, orientation : BOOLEAN, yaw_is_magnetic : BOOLEAN]
<1>1. /\ imu_age \in 0 .. SensorStale + 1 /\ mag_age \in 0 .. SensorStale + 1
      /\ shown \in [mag : BOOLEAN, orientation : BOOLEAN, yaw_is_magnetic : BOOLEAN]
      /\ SensorStale \in Nat
  BY DEF EarnedInv, Attitude!TypeOK, Attitude!HeadingAssumption
<1>2. /\ Attitude!Older(imu_age) \in 1 .. SensorStale + 1
      /\ Attitude!Older(mag_age) \in 0 .. SensorStale + 1
  BY <1>1, OlderAge
<1>3. (shown.orientation /\ ~implausible) \in BOOLEAN
  OBVIOUS
<1> QED
  BY <1>1, <1>2, <1>3 DEF Attitude!NoSample

(* The course over ground decides nothing but its own warning. *)
LEMMA CheckTypes ==
  ASSUME Attitude!HeadingAssumption, Attitude!TypeOK, NEW course \in {"none",
         "agrees", "opposes"},
         Attitude!CheckYawReference(course)
  PROVE  cog_disagreements' \in 0 .. CogConfirm /\ cog_warning' \in BOOLEAN
<1>1. /\ cog_disagreements \in 0 .. CogConfirm /\ cog_warning \in BOOLEAN
      /\ CogConfirm \in Nat
  BY DEF Attitude!TypeOK, Attitude!HeadingAssumption
<1>2. /\ Attitude!Least(cog_disagreements + 1, CogConfirm) \in 0 .. CogConfirm
      /\ 0 \in 0 .. CogConfirm
  BY <1>1, LeastOf
<1> QED
  BY <1>1, <1>2 DEF Attitude!CheckYawReference

(* The parts of a pass that follow the sample, once the sample is known to *)
(* leave its types.                                                        *)
LEMMA RestOfPass ==
  ASSUME Attitude!HeadingAssumption, EarnedInv,
         Attitude!UpdateMagCalibration, UNCHANGED Attitude!build,
         NEW course \in {"none", "agrees", "opposes"},
         Attitude!CheckYawReference(course)
  PROVE  /\ calibrated' \in BOOLEAN /\ (calibrated => calibrated')
         /\ has_mag' \in BOOLEAN /\ in_flight' \in BOOLEAN
         /\ cog_disagreements' \in 0 .. CogConfirm /\ cog_warning' \in BOOLEAN
<1>1. calibrated \in BOOLEAN /\ has_mag \in BOOLEAN /\ in_flight \in BOOLEAN
  BY DEF EarnedInv, Attitude!TypeOK
<1>2. calibrated' = (calibrated \/ (in_flight /\ Attitude!CoverageMet))
  BY DEF Attitude!UpdateMagCalibration
<1>3. cog_disagreements' \in 0 .. CogConfirm /\ cog_warning' \in BOOLEAN
  BY CheckTypes DEF EarnedInv
<1> QED
  BY <1>1, <1>2, <1>3 DEF Attitude!build

LEMMA EarnedStep ==
  ASSUME Attitude!HeadingAssumption, EarnedInv, Attitude!Next
  PROVE  /\ EarnedInv'
         /\ seeded' /\ shown'.yaw_is_magnetic /\ imu_age' = 0 =>
              calibrated /\ unaided' <= MaxConfidence - Required
<1>0. MaxConfidence \in Nat /\ Required \in Nat /\ SensorStale \in Nat
  BY DEF Attitude!HeadingAssumption
<1>1. ASSUME NEW accel_usable \in BOOLEAN, NEW field \in Attitude!FieldsRead,
             NEW end \in Attitude!Ends,
             Attitude!Sample(accel_usable, field, end),
             Attitude!UpdateMagCalibration, UNCHANGED Attitude!build,
             NEW course \in {"none", "agrees", "opposes"},
             Attitude!CheckYawReference(course)
      PROVE  /\ EarnedInv'
             /\ shown'.yaw_is_magnetic =>
                  calibrated /\ unaided' <= MaxConfidence - Required
  <2>1. /\ seeded' \in BOOLEAN /\ mag_calibrated' \in BOOLEAN
        /\ confidence' \in 0 .. MaxConfidence /\ unaided' \in 0 .. MaxConfidence
        /\ mag_calibrated' => calibrated
        /\ confidence' + unaided' <= MaxConfidence
        /\ ~seeded' => confidence' = 0
        /\ swept' \subseteq Attitude!Ends /\ samples' \in 0 .. MinSamples
        /\ imu_age' = 0 /\ mag_age' \in 0 .. SensorStale + 1
        /\ shown' \in [mag : BOOLEAN, orientation : BOOLEAN, yaw_is_magnetic : BOOLEAN]
        /\ shown'.yaw_is_magnetic => mag_calibrated' /\ confidence' >= Required
    BY <1>1, SampleStep
  <2>2. /\ calibrated' \in BOOLEAN /\ (calibrated => calibrated')
        /\ has_mag' \in BOOLEAN /\ in_flight' \in BOOLEAN
        /\ cog_disagreements' \in 0 .. CogConfirm /\ cog_warning' \in BOOLEAN
    BY <1>1, RestOfPass
  <2>3. imu_age' \in 0 .. SensorStale + 1
    BY <1>0, <2>1
  <2>4. Attitude!TypeOK'
    BY <2>1, <2>2, <2>3 DEF Attitude!TypeOK
  <2>5. \A n, u \in 0 .. MaxConfidence :
          n + u <= MaxConfidence /\ n >= Required => u <= MaxConfidence - Required
    BY <1>0
  <2>6. shown'.yaw_is_magnetic => calibrated /\ unaided' <= MaxConfidence - Required
    BY <2>1, <2>5
  <2> QED
    BY <2>1, <2>2, <2>4, <2>6 DEF EarnedInv
<1>2. ASSUME NEW implausible \in BOOLEAN, Attitude!NoSample(implausible),
             Attitude!UpdateMagCalibration, UNCHANGED Attitude!build,
             NEW course \in {"none", "agrees", "opposes"},
             Attitude!CheckYawReference(course)
      PROVE  EarnedInv' /\ imu_age' # 0
  <2>1. /\ UNCHANGED <<Attitude!estimator, Attitude!sweep>>
        /\ imu_age' \in 1 .. SensorStale + 1 /\ mag_age' \in 0 .. SensorStale + 1
        /\ shown' \in [mag : BOOLEAN, orientation : BOOLEAN, yaw_is_magnetic : BOOLEAN]
    BY <1>2, NoSampleStep
  <2>2. /\ calibrated' \in BOOLEAN /\ (calibrated => calibrated')
        /\ has_mag' \in BOOLEAN /\ in_flight' \in BOOLEAN
        /\ cog_disagreements' \in 0 .. CogConfirm /\ cog_warning' \in BOOLEAN
    BY <1>2, RestOfPass
  <2>3. \A n \in 1 .. SensorStale + 1 : n # 0 /\ n \in 0 .. SensorStale + 1
    BY <1>0
  <2>4. imu_age' # 0 /\ imu_age' \in 0 .. SensorStale + 1
    BY <2>1, <2>3
  <2>5. /\ seeded' = seeded /\ confidence' = confidence /\ unaided' = unaided
        /\ mag_calibrated' = mag_calibrated /\ swept' = swept /\ samples' = samples
    BY <2>1 DEF Attitude!estimator, Attitude!sweep
  <2>6. Attitude!TypeOK'
    BY <2>1, <2>2, <2>4, <2>5 DEF Attitude!TypeOK, EarnedInv
  <2> QED
    BY <2>2, <2>4, <2>5, <2>6 DEF EarnedInv
<1>3. ASSUME Attitude!Settle
      PROVE  EarnedInv' /\ ~seeded'
  <2>1. /\ seeded' = FALSE /\ confidence' = 0 /\ mag_calibrated' = FALSE
        /\ unaided' = MaxConfidence
        /\ UNCHANGED <<has_mag, in_flight, calibrated, swept, samples, imu_age, mag_age,
                       shown, cog_disagreements, cog_warning>>
    BY <1>3 DEF Attitude!Settle, Attitude!Reset, Attitude!build,
       Attitude!sweep, Attitude!cog
  <2>2. /\ 0 \in 0 .. MaxConfidence /\ MaxConfidence \in 0 .. MaxConfidence
        /\ 0 + MaxConfidence <= MaxConfidence
    BY <1>0
  <2>3. Attitude!TypeOK'
    BY <2>1, <2>2 DEF Attitude!TypeOK, EarnedInv
  <2> QED
    BY <2>1, <2>2, <2>3 DEF EarnedInv
<1>4. CASE Attitude!Pass
  <2>1. Attitude!UpdateMagCalibration /\ UNCHANGED Attitude!build
    BY <1>4 DEF Attitude!Pass
  <2>2. PICK course \in {"none", "agrees", "opposes"} : Attitude!CheckYawReference(course)
    BY <1>4 DEF Attitude!Pass
  <2>3. CASE \E accel_usable \in BOOLEAN, field \in Attitude!FieldsRead,
               end \in Attitude!Ends :
               Attitude!Sample(accel_usable, field, end)
    BY <1>1, <2>1, <2>2, <2>3
  <2>4. CASE \E implausible \in BOOLEAN : Attitude!NoSample(implausible)
    BY <1>2, <2>1, <2>2, <2>4
  <2> QED
    BY <1>4, <2>3, <2>4 DEF Attitude!Pass
<1> QED
  BY <1>3, <1>4 DEF Attitude!Next

LEMMA EarnedStutter ==
  ASSUME EarnedInv, UNCHANGED Attitude!vars
  PROVE  EarnedInv'
  BY DEF EarnedInv, Attitude!TypeOK, Attitude!vars, Attitude!estimator,
         Attitude!build, Attitude!sweep, Attitude!cog

(* The estimator, the sweep and the snapshot keep their types.             *)
THEOREM HeadingTyped == Attitude!Spec => []Attitude!TypeOK
<1>1. Attitude!Init => EarnedInv
  BY AttitudeAssumed, EarnedInit
<1>2. EarnedInv /\ [Attitude!Next]_(Attitude!vars) => EarnedInv'
  BY AttitudeAssumed, EarnedStep, EarnedStutter
<1>3. EarnedInv => Attitude!TypeOK
  BY DEF EarnedInv
<1> QED
  BY <1>1, <1>2, <1>3, PTL DEF Attitude!Spec

(* A heading called magnetic was set or steered by a calibrated field, in  *)
(* this attitude solution and not long ago, whatever seeds, dropouts,      *)
(* disturbances, sweeps and resets came before (orientation.cpp).          *)
THEOREM MagneticIsEarned == Attitude!Spec => Attitude!HeadingEarned
<1>1. Attitude!Init => EarnedInv
  BY AttitudeAssumed, EarnedInit
<1>2. EarnedInv /\ [Attitude!Next]_(Attitude!vars) => EarnedInv'
  BY AttitudeAssumed, EarnedStep, EarnedStutter
<1>3. EarnedInv /\ [Attitude!Next]_(Attitude!vars) =>
        [seeded' /\ shown'.orientation /\ shown'.yaw_is_magnetic /\ imu_age' = 0 =>
           calibrated /\ unaided' <= MaxConfidence - Required]_(Attitude!vars)
  BY AttitudeAssumed, EarnedStep
<1> QED
  BY <1>1, <1>2, <1>3, PTL DEF Attitude!Spec, Attitude!HeadingEarned

(* The same on the bench. *)
THEOREM HeadingOnBench == Spec => HeadingEarned
<1>1. Init => Attitude!Init
  BY DEF Init
<1>2. [Next]_vars => [Attitude!Next]_(Attitude!vars)
  BY DEF Next, vars, attitude, Attitude!vars, Attitude!estimator,
         Attitude!build, Attitude!sweep, Attitude!cog
<1> QED
  BY <1>1, <1>2, MagneticIsEarned, PTL DEF Spec, Attitude!Spec, HeadingEarned

-----------------------------------------------------------------------------
(* The position.  While a position is not pieced together, it and the fix  *)
(* clock are of one age, whatever stands in the line.                      *)
LEMMA PositionAssumed ==
  FixTimeout \in Nat /\ MaxLine \in Nat /\ MaxLine >= 3
  BY BenchAssumption DEF Position!GpsAssumption

PositionInv ==
  /\ Position!TypeOK
  /\ pieced \/ measured = fix_age
  /\ gps_valid => fix_age <= FixTimeout

Part == {Position!Start} \cup ({"body", "checksum"} \X Position!Contents)

Parsers ==
  [line : Seq(Part), overflowed : BOOLEAN, latest : [fix : BOOLEAN, course : BOOLEAN],
   stamped : BOOLEAN, line_age : 0 .. Position!MaxAge,
   measured : 0 .. Position!MaxAge, pieced : BOOLEAN]

(* A parser within a pass that began with the position and the line as they*)
(* are: either it has not touched the position, or it has stamped the clock*)
(* with one measured in this pass or pieced together.                      *)
Within(p) ==
  /\ p \in Parsers /\ Len(p.line) <= MaxLine
  /\ ~p.stamped => p.measured = Position!Older(measured) /\ p.pieced = pieced
  /\ p.stamped => p.pieced \/ p.measured = 0

LEMMA OlderPosition ==
  ASSUME NEW age \in 0 .. Position!MaxAge
  PROVE  Position!Older(age) \in 0 .. Position!MaxAge
  BY PositionAssumed DEF Position!Older, Position!MaxAge

LEMMA Longer ==
  ASSUME NEW parts \in Seq(Part), NEW part \in Part
  PROVE  Append(parts, part) \in Seq(Part) /\ Len(Append(parts, part)) = Len(parts) + 1
  OBVIOUS

(* Any part but the newline leaves the position alone. *)
LEMMA ConsumeInside ==
  ASSUME NEW p, Within(p), NEW part \in Part
  PROVE  Within(Position!Consume(p, part))
<1> DEFINE opened == IF part = Position!Start
                     THEN [p EXCEPT !.line = <<>>, !.overflowed = FALSE]
                     ELSE p
           age == IF p.line = <<Position!Start>> THEN 0 ELSE p.line_age
           longer == Append(opened.line, part)
           fits == [opened EXCEPT !.line = longer, !.line_age = age]
           full == [opened EXCEPT !.overflowed = TRUE]
<1>1. part # Position!Newline
  BY DEF Position!Newline, Position!Start, Part
<1>2. Position!Consume(p, part) = IF Len(opened.line) < MaxLine THEN fits ELSE full
  BY <1>1, Zenon DEF Position!Consume
<1>3. /\ opened \in Parsers /\ Len(opened.line) <= MaxLine
      /\ opened.stamped = p.stamped /\ opened.measured = p.measured
      /\ opened.pieced = p.pieced
  <2>1. <<>> \in Seq(Part) /\ Len(<<>>) = 0 /\ 0 <= MaxLine
    BY PositionAssumed
  <2> QED
    BY <2>1 DEF Within, Parsers
<1>4. age \in 0 .. Position!MaxAge
  BY PositionAssumed DEF Within, Parsers, Position!MaxAge
<1> HIDE DEF opened, age
<1>5. opened.line \in Seq(Part) /\ Len(opened.line) \in Nat
  BY <1>3 DEF Parsers
<1>6. longer \in Seq(Part) /\ Len(longer) = Len(opened.line) + 1
  BY <1>5, Longer
<1> HIDE DEF longer
<1>7. CASE Len(opened.line) < MaxLine
  <2>1. /\ fits \in Parsers /\ fits.line = longer
        /\ fits.stamped = p.stamped /\ fits.measured = p.measured
        /\ fits.pieced = p.pieced
    BY <1>3, <1>4, <1>6 DEF Parsers
  <2>2. Len(longer) <= MaxLine
    BY <1>5, <1>6, <1>7, PositionAssumed
  <2> HIDE DEF fits
  <2> QED
    BY <1>2, <1>7, <2>1, <2>2 DEF Within
<1>8. CASE ~(Len(opened.line) < MaxLine)
  <2>1. /\ full \in Parsers /\ full.line = opened.line
        /\ full.stamped = p.stamped /\ full.measured = p.measured
        /\ full.pieced = p.pieced
    BY <1>3 DEF Parsers
  <2> HIDE DEF full
  <2> QED
    BY <1>2, <1>3, <1>8, <2>1 DEF Within
<1> QED
  BY <1>7, <1>8

(* The newline empties the line.  What it makes of the position: nothing,  *)
(* or it stamps the fix clock with one as old as the line.                 *)
LEMMA ConsumeNewline ==
  ASSUME NEW p, Within(p)
  PROVE  Within(Position!Consume(p, Position!Newline))
<1> DEFINE blank == [p EXCEPT !.line = <<>>, !.overflowed = FALSE]
           read == IF p.overflowed THEN {} ELSE Position!Read(p.line)
           content == CHOOSE c \in read : TRUE
           now_fix == Position!Fixed(p.latest.fix, content)
           now_latest == [fix |-> now_fix,
                          course |-> Position!Course(p.latest.course, content)]
           now_stamped == p.stamped \/ (Position!Applies(content) /\ now_fix)
           now_measured == IF content = "fix" THEN p.line_age ELSE p.measured
           now_pieced == IF content = "fix" THEN p.line_age # 0 ELSE p.pieced
           ended == [blank EXCEPT !.latest = now_latest, !.stamped = now_stamped,
                                  !.measured = now_measured, !.pieced = now_pieced]
<1>1. Position!Consume(p, Position!Newline) = IF read = {} THEN blank ELSE ended
  <2>1. Position!Consume(p, Position!Newline) = Position!EndLine(p)
    BY DEF Position!Consume
  <2>2. Position!EndLine(p) = IF read = {} THEN blank ELSE ended
    BY Zenon DEF Position!EndLine
  <2> QED
    BY <2>1, <2>2
<1>2. p \in Parsers
  BY DEF Within
<1>3. /\ blank \in Parsers /\ blank.line = <<>>
      /\ blank.stamped = p.stamped /\ blank.measured = p.measured
      /\ blank.pieced = p.pieced
  <2>1. <<>> \in Seq(Part)
    OBVIOUS
  <2> QED
    BY <1>2, <2>1 DEF Parsers
<1>4. Len(<<>>) <= MaxLine
  BY PositionAssumed
<1>5. CASE read = {}
  <2> HIDE DEF blank
  <2> QED
    BY <1>1, <1>3, <1>4, <1>5 DEF Within
<1>6. CASE read # {}
  <2>1. content \in Position!Contents
    BY <1>6 DEF Position!Read
  <2>2. p.latest.fix \in BOOLEAN /\ p.latest.course \in BOOLEAN
    BY <1>2 DEF Parsers
  <2> HIDE DEF content
  <2>3. Position!Applies(content) /\ now_fix <=> content = "fix"
    BY DEF Position!Applies, Position!Fixed
  <2>4. now_latest \in [fix : BOOLEAN, course : BOOLEAN]
    BY <2>1, <2>2 DEF Position!Fixed, Position!Course, Position!Contents
  <2>5. now_stamped \in BOOLEAN
    BY Zenon DEF now_stamped
  <2>6. now_measured \in 0 .. Position!MaxAge
    BY <1>2 DEF Parsers
  <2>7. now_pieced \in BOOLEAN
    BY <1>2 DEF Parsers
  <2>8. CASE content = "fix"
    <3>1. now_stamped /\ (now_pieced \/ now_measured = 0)
      BY <2>3, <2>8
    <3> HIDE DEF now_latest, now_stamped, now_measured, now_pieced, blank
    <3>2. /\ ended \in Parsers /\ ended.line = <<>>
          /\ ended.stamped = now_stamped /\ ended.measured = now_measured
          /\ ended.pieced = now_pieced
      BY <1>3, <2>4, <2>5, <2>6, <2>7 DEF Parsers
    <3> HIDE DEF ended
    <3> QED
      BY <1>1, <1>4, <1>6, <3>1, <3>2 DEF Within
  <2>9. CASE content # "fix"
    <3>1. /\ now_stamped <=> p.stamped
          /\ now_measured = p.measured /\ now_pieced = p.pieced
      BY <2>3, <2>9
    <3> HIDE DEF now_latest, now_stamped, now_measured, now_pieced, blank
    <3>2. /\ ended \in Parsers /\ ended.line = <<>>
          /\ ended.stamped = now_stamped /\ ended.measured = now_measured
          /\ ended.pieced = now_pieced
      BY <1>3, <2>4, <2>5, <2>6, <2>7 DEF Parsers
    <3> HIDE DEF ended
    <3> QED
      BY <1>1, <1>4, <1>6, <3>1, <3>2 DEF Within
  <2> QED
    BY <2>8, <2>9
<1> QED
  BY <1>5, <1>6

(* Whatever is heard of a sentence. *)
LEMMA HeardParser ==
  ASSUME NEW content \in Position!Contents, NEW parts, Within(Position!Parser)
  PROVE  Within(Position!Heard(content, parts))
<1> DEFINE Heard(p, i) == IF i \in parts
                          THEN Position!Consume(p, Position!Sentence(content)[i]) ELSE p
           p1 == Heard(Position!Parser, 1)
           p2 == Heard(p1, 2)
           p3 == Heard(p2, 3)
           p4 == Heard(p3, 4)
<1>1. /\ Position!Sentence(content)[1] = Position!Start
      /\ Position!Sentence(content)[2] = <<"body", content>>
      /\ Position!Sentence(content)[3] = <<"checksum", content>>
      /\ Position!Sentence(content)[4] = Position!Newline
  BY DEF Position!Sentence
<1>2. ASSUME NEW p, Within(p), NEW i \in 1 .. 4
      PROVE  Within(Heard(p, i))
  <2>1. CASE i = 4
    BY <1>1, <1>2, <2>1, ConsumeNewline
  <2>2. CASE i \in 1 .. 3
    <3>1. Position!Sentence(content)[i] \in Part
      BY <1>1, <2>2 DEF Part
    <3> QED
      BY <1>2, <3>1, ConsumeInside
  <2> QED
    BY <2>1, <2>2
<1>3. Position!Heard(content, parts) = p4
  BY Zenon DEF Position!Heard
<1> HIDE DEF Heard
<1>4. Within(p1) BY <1>2
<1> HIDE DEF p1
<1>5. Within(p2) BY <1>2, <1>4
<1> HIDE DEF p2
<1>6. Within(p3) BY <1>2, <1>5
<1> HIDE DEF p3
<1>7. Within(p4) BY <1>2, <1>6
<1> QED
  BY <1>3, <1>7

LEMMA PositionInit == Position!Init => PositionInv
<1> SUFFICES ASSUME Position!Init PROVE PositionInv
  OBVIOUS
<1>1. 0 \in 0 .. Position!MaxAge /\ 0 <= MaxLine
  BY PositionAssumed DEF Position!MaxAge
<1>2. /\ line = <<>> /\ latest = [fix |-> FALSE, course |-> FALSE]
      /\ fix_age = 0 /\ line_age = 0 /\ measured = 0
      /\ overflowed = FALSE /\ gps_valid = FALSE /\ pieced = FALSE
  BY DEF Position!Init
<1>3. line \in Seq(Part) /\ Len(line) = 0
  BY <1>2
<1> QED
  BY <1>1, <1>2, <1>3 DEF PositionInv, Position!TypeOK, Part

(* A pass keeps the position and its clock of one age. *)
LEMMA PositionPass ==
  ASSUME PositionInv, NEW q, Within(q), Position!Pass(q)
  PROVE  PositionInv'
<1>1. /\ line' = q.line /\ overflowed' = q.overflowed /\ latest' = q.latest
      /\ fix_age' = IF q.stamped THEN 0 ELSE Position!Older(fix_age)
      /\ gps_valid' = (latest'.fix /\ fix_age' <= FixTimeout)
      /\ line_age' = q.line_age /\ measured' = q.measured /\ pieced' = q.pieced
  BY DEF Position!Pass
<1>2. /\ q.line \in Seq(Part) /\ Len(q.line) <= MaxLine
      /\ q.overflowed \in BOOLEAN /\ q.pieced \in BOOLEAN
      /\ q.line_age \in 0 .. Position!MaxAge
      /\ q.measured \in 0 .. Position!MaxAge
      /\ q.latest \in [fix : BOOLEAN, course : BOOLEAN]
  BY DEF Within, Parsers
<1>3. pieced' \/ measured' = fix_age'
  <2>1. CASE q.stamped
    BY <1>1, <2>1 DEF Within
  <2>2. CASE ~q.stamped
    BY <1>1, <2>2 DEF Within, PositionInv
  <2> QED
    BY <2>1, <2>2
<1>4. gps_valid' \in BOOLEAN /\ (gps_valid' => fix_age' <= FixTimeout)
  BY <1>1
<1>5. fix_age' \in 0 .. Position!MaxAge
  <2>1. fix_age \in 0 .. Position!MaxAge
    BY DEF PositionInv, Position!TypeOK
  <2>2. Position!Older(fix_age) \in 0 .. Position!MaxAge
    BY <2>1, OlderPosition
  <2>3. 0 \in 0 .. Position!MaxAge
    BY PositionAssumed DEF Position!MaxAge
  <2> QED
    BY <1>1, <2>2, <2>3
<1>6. Position!TypeOK'
  BY <1>1, <1>2, <1>4, <1>5 DEF Position!TypeOK, Part
<1> QED
  BY <1>3, <1>4, <1>6 DEF PositionInv

LEMMA PositionStep == PositionInv /\ [Position!Next]_(Position!vars) => PositionInv'
<1> SUFFICES ASSUME PositionInv, [Position!Next]_(Position!vars) PROVE PositionInv'
  OBVIOUS
<1>1. Within(Position!Parser)
  <2>1. /\ line \in Seq(Part) /\ overflowed \in BOOLEAN /\ pieced \in BOOLEAN
        /\ latest \in [fix : BOOLEAN, course : BOOLEAN] /\ Len(line) <= MaxLine
        /\ line_age \in 0 .. Position!MaxAge /\ measured \in 0 .. Position!MaxAge
    BY DEF PositionInv, Position!TypeOK, Part
  <2>2. /\ Position!Older(line_age) \in 0 .. Position!MaxAge
        /\ Position!Older(measured) \in 0 .. Position!MaxAge
    BY <2>1, OlderPosition
  <2> QED
    BY <2>1, <2>2 DEF Position!Parser, Parsers, Within
<1>2. CASE Position!Silence
  BY <1>1, <1>2, PositionPass DEF Position!Silence
<1>3. ASSUME NEW content \in Position!Contents, NEW parts,
             Position!Pass(Position!Heard(content, parts))
      PROVE  PositionInv'
  BY <1>1, <1>3, HeardParser, PositionPass
<1>4. CASE \E content \in Position!Contents : Position!Receive(content)
  BY <1>3, <1>4 DEF Position!Receive
<1>5. CASE \E content \in Position!Contents, parts \in Position!Damaged :
        Position!ReceiveDamaged(content, parts)
  BY <1>3, <1>5 DEF Position!ReceiveDamaged
<1>6. CASE UNCHANGED Position!vars
  BY <1>6 DEF Position!vars, PositionInv, Position!TypeOK
<1> QED
  BY <1>2, <1>4, <1>5, <1>6 DEF Position!Next

(* The position, the line and the fix clock keep their types.              *)
THEOREM PositionTyped == Position!Spec => []Position!TypeOK
<1>1. PositionInv => Position!TypeOK
  BY DEF PositionInv
<1> QED
  BY <1>1, PositionInit, PositionStep, PTL DEF Position!Spec

(* A position that a packet calls valid was measured within                *)
(* gps_fix_timeout_ms, unless its line was ended by a later pass than the  *)
(* one that heard it, for every timeout and length of line and whatever is *)
(* heard of the sentences (gps_parser.cpp, neo6m.cpp, controller.cpp).     *)
THEOREM PositionIsFresh == Position!Spec => []Position!PositionFresh
<1>1. PositionInv => Position!PositionFresh
  BY DEF PositionInv, Position!PositionFresh
<1> QED
  BY <1>1, PositionInit, PositionStep, PTL DEF Position!Spec

(* The same on the bench. *)
THEOREM PositionOnBench == Spec => []PositionFresh
<1>1. Init => Position!Init
  BY DEF Init
<1>2. [Next]_vars => [Position!Next]_(Position!vars)
  BY DEF Next, vars, position, Position!vars
<1>3. Position!PositionFresh => PositionFresh
  BY DEF PositionFresh
<1> QED
  BY <1>1, <1>2, <1>3, PositionIsFresh, PTL DEF Spec, Position!Spec

-----------------------------------------------------------------------------
(* The packet budget.  An airtime grows with the length of the packet,     *)
(* through two roundings and two products; the rest is what is shed.       *)
LEMMA BudgetAssumed == Budget!PacketBudgetAssumption
  BY BenchAssumption

LEMMA Chips ==
  ASSUME NEW sf \in 6 .. 12
  PROVE  2 ^ sf \in Nat
<1> DEFINE power(n) == 2 ^ n
<1>1. /\ power(6) \in Nat /\ power(7) \in Nat /\ power(8) \in Nat /\ power(9) \in Nat
      /\ power(10) \in Nat /\ power(11) \in Nat /\ power(12) \in Nat
  OBVIOUS
<1>2. sf \in {6, 7, 8, 9, 10, 11, 12}
  OBVIOUS
<1> HIDE DEF power
<1>3. power(sf) \in Nat
  BY <1>1, <1>2
<1> QED
  BY <1>3 DEF power

(* An accepted configuration, in what its airtime depends on. *)
LEMMA LegalModem ==
  ASSUME NEW c \in Configs, Budget!ModemLegal(c)
  PROVE  /\ c.spreading_factor \in 6 .. 12 /\ c.coding_rate \in 5 .. 8
         /\ c.preamble_length \in Nat
         /\ Budget!SymbolTime(c) \in Nat
<1>1. c.bandwidth_khz \in Nat /\ c.preamble_length \in Nat
  BY BudgetAssumed DEF Budget!PacketBudgetAssumption
<1>2. c.spreading_factor \in 6 .. 12 /\ c.coding_rate \in 5 .. 8 /\ c.bandwidth_khz # 0
  BY DEF Budget!ModemLegal
<1>3. 2 ^ c.spreading_factor \in Nat
  BY <1>2, Chips
<1>4. \A n \in Nat, d \in Nat : d # 0 => (1000 * n) \div d \in Nat
  OBVIOUS
<1>5. Budget!SymbolTime(c) \in Nat
  BY <1>1, <1>2, <1>3, <1>4 DEF Budget!SymbolTime
<1> QED
  BY <1>1, <1>2, <1>5

LEMMA DivMonotone ==
  ASSUME NEW a \in Int, NEW b \in Int, NEW d \in Nat, d > 0, a <= b
  PROVE  /\ a \div d <= b \div d
         /\ a >= 0 => a \div d \in Nat
  OBVIOUS

LEMMA ProductMonotone ==
  ASSUME NEW a \in Nat, NEW b \in Nat, NEW d \in Nat, a <= b
  PROVE  /\ a * d \in Nat /\ b * d \in Nat
         /\ a * d <= b * d
  OBVIOUS

(* The blocks of a payload of so many bits, in blocks of so many. *)
Blocks(bits, per_block) ==
  IF bits > 0 THEN (bits + per_block - 1) \div per_block ELSE 0

LEMMA BlocksMonotone ==
  ASSUME NEW few \in Int, NEW many \in Int, few <= many,
         NEW per_block \in Nat, per_block > 0
  PROVE  /\ Blocks(few, per_block) \in Nat /\ Blocks(many, per_block) \in Nat
         /\ Blocks(few, per_block) <= Blocks(many, per_block)
<1>1. ASSUME NEW bits \in Int
      PROVE  Blocks(bits, per_block) \in Nat
  <2>1. CASE bits > 0
    <3>1. (bits + per_block - 1) \div per_block \in Nat
      BY <2>1, DivMonotone
    <3> QED
      BY <2>1, <3>1 DEF Blocks
  <2>2. CASE ~(bits > 0)
    BY <2>2 DEF Blocks
  <2> QED
    BY <2>1, <2>2
<1>2. CASE few > 0
  <2>1. many > 0
    BY <1>2
  <2>2. (few + per_block - 1) \div per_block <= (many + per_block - 1) \div per_block
    BY DivMonotone
  <2> QED
    BY <1>1, <1>2, <2>1, <2>2 DEF Blocks
<1>3. CASE ~(few > 0)
  <2>1. Blocks(few, per_block) = 0 /\ Blocks(many, per_block) \in Nat
    BY <1>1, <1>3 DEF Blocks
  <2> QED
    BY <2>1
<1> QED
  BY <1>2, <1>3

LEMMA SymbolsMonotone ==
  ASSUME NEW c \in Configs, Budget!ModemLegal(c),
         NEW few \in Nat, NEW many \in Nat, few <= many
  PROVE  /\ Budget!PayloadSymbols(c, few) \in Nat /\ Budget!PayloadSymbols(c, many) \in Nat
         /\ Budget!PayloadSymbols(c, few) <= Budget!PayloadSymbols(c, many)
<1> DEFINE crc == IF c.enable_crc THEN 16 ELSE 0
           bits(bytes) == 8 * bytes - 4 * c.spreading_factor + 28 + crc
           per_block == 4 * (c.spreading_factor - (IF Budget!LowDataRate(c) THEN 2 ELSE 0))
<1>1. c.spreading_factor \in 6 .. 12 /\ c.coding_rate \in Nat
  BY LegalModem
<1>2. per_block \in Nat /\ per_block > 0
  BY <1>1
<1>3. bits(few) \in Int /\ bits(many) \in Int /\ bits(few) <= bits(many)
  BY <1>1
<1>4. \A bytes :
        Budget!PayloadSymbols(c, bytes) = 8 + Blocks(bits(bytes), per_block) * c.coding_rate
  BY DEF Budget!PayloadSymbols, Blocks
<1> HIDE DEF bits, per_block
<1>5. /\ Blocks(bits(few), per_block) \in Nat /\ Blocks(bits(many), per_block) \in Nat
      /\ Blocks(bits(few), per_block) <= Blocks(bits(many), per_block)
  BY <1>2, <1>3, BlocksMonotone
<1>6. /\ Blocks(bits(few), per_block) * c.coding_rate \in Nat
      /\ Blocks(bits(many), per_block) * c.coding_rate \in Nat
      /\ Blocks(bits(few), per_block) * c.coding_rate
           <= Blocks(bits(many), per_block) * c.coding_rate
  BY <1>1, <1>5, ProductMonotone
<1> QED
  BY <1>4, <1>6

(* A longer packet is longer on the air. *)
LEMMA AirtimeMonotone ==
  ASSUME NEW c \in Configs, Budget!ModemLegal(c),
         NEW few \in Nat, NEW many \in Nat, few <= many
  PROVE  /\ Budget!Airtime(c, few) \in Nat /\ Budget!Airtime(c, many) \in Nat
         /\ Budget!Airtime(c, few) <= Budget!Airtime(c, many)
<1> DEFINE quarters(bytes) == 4 * c.preamble_length + 17 + 4 * Budget!PayloadSymbols(c, bytes)
<1>1. c.preamble_length \in Nat /\ Budget!SymbolTime(c) \in Nat
  BY LegalModem
<1>2. /\ Budget!PayloadSymbols(c, few) \in Nat /\ Budget!PayloadSymbols(c, many) \in Nat
      /\ Budget!PayloadSymbols(c, few) <= Budget!PayloadSymbols(c, many)
  BY SymbolsMonotone
<1>3. quarters(few) \in Nat /\ quarters(many) \in Nat /\ quarters(few) <= quarters(many)
  BY <1>1, <1>2
<1>4. \A bytes : Budget!Airtime(c, bytes) = (quarters(bytes) * Budget!SymbolTime(c)) \div 4
  BY DEF Budget!Airtime
<1> HIDE DEF quarters
<1>5. /\ quarters(few) * Budget!SymbolTime(c) \in Nat
      /\ quarters(many) * Budget!SymbolTime(c) \in Nat
      /\ quarters(few) * Budget!SymbolTime(c) <= quarters(many) * Budget!SymbolTime(c)
  BY <1>1, <1>3, ProductMonotone
<1>6. \A a, b \in Nat : a <= b =>
        a \div 4 \in Nat /\ b \div 4 \in Nat /\ a \div 4 <= b \div 4
  BY DivMonotone
<1> QED
  BY <1>4, <1>5, <1>6

-----------------------------------------------------------------------------
(* What emit_telemetry() leaves of the optional fields is some of them.    *)
LEMMA ShedTypes ==
  ASSUME NEW w, Budget!Mandatory(w) \in Nat,
         NEW optional \in [gps : Nat, sound : Nat, extra : Nat]
  PROVE  /\ Budget!Shed(w, optional) \subseteq Budget!Fields(optional)
         /\ Budget!Bytes(w, optional, Budget!Shed(w, optional)) \in Nat
<1>1. \A field, S : Budget!Without(field, w, optional, S) \subseteq S
  BY DEF Budget!Without
<1>2. Budget!Shed(w, optional) \subseteq Budget!Fields(optional)
  BY <1>1, Zenon DEF Budget!Shed
<1>3. optional.gps \in Nat /\ optional.sound \in Nat /\ optional.extra \in Nat
  OBVIOUS
<1>4. \A S : Budget!Bytes(w, optional, S) \in Nat
  BY <1>3 DEF Budget!Bytes
<1> QED
  BY <1>2, <1>4

(* What emit_telemetry() leaves of the optional fields: it is within the   *)
(* budget, and the position is in it whenever position and mandatory       *)
(* fields are within the budget.                                           *)
LEMMA ShedFits ==
  ASSUME NEW w, Budget!Mandatory(w) \in Nat, config.worst_case_packet_bytes \in Nat,
         Budget!Mandatory(w) <= config.worst_case_packet_bytes,
         NEW optional \in [gps : Nat, sound : Nat, extra : Nat]
  PROVE  /\ Budget!Shed(w, optional) \subseteq Budget!Fields(optional)
         /\ Budget!Bytes(w, optional, Budget!Shed(w, optional)) \in Nat
         /\ Budget!Bytes(w, optional, Budget!Shed(w, optional)) <=
              config.worst_case_packet_bytes
         /\ /\ Budget!Mandatory(w) + optional.gps <= config.worst_case_packet_bytes
            /\ "gps" \in Budget!Fields(optional)
            => "gps" \in Budget!Shed(w, optional)
<1> DEFINE all == Budget!Fields(optional)
           untagged == Budget!Without("extra", w, optional, all)
           silent == Budget!Without("sound", w, optional, untagged)
           most == config.worst_case_packet_bytes
<1>1. optional.gps \in Nat /\ optional.sound \in Nat /\ optional.extra \in Nat
  OBVIOUS
<1>2. all \subseteq {"gps", "sound", "extra"}
  BY DEF Budget!Fields
<1>3. ASSUME NEW S, S \subseteq {"gps"}
      PROVE  Budget!Bytes(w, optional, S) =
               Budget!Mandatory(w) + (IF "gps" \in S THEN optional.gps ELSE 0)
  BY <1>1, <1>3 DEF Budget!Bytes
<1>4. ASSUME NEW S
      PROVE  Budget!Bytes(w, optional, S) \in Nat
  BY <1>1 DEF Budget!Bytes
<1>5. Budget!Shed(w, optional) = Budget!Without("gps", w, optional, silent)
  BY DEF Budget!Shed
<1>6. CASE Budget!Bytes(w, optional, all) <= most
  <2>1. ~(Budget!Bytes(w, optional, all) > most)
    BY <1>4, <1>6
  <2>2. Budget!Shed(w, optional) = all
    BY <1>5, <2>1, Zenon DEF Budget!Without
  <2> QED
    BY <1>4, <1>6, <2>2
<1>7. CASE Budget!Bytes(w, optional, all) > most
  <2>1. untagged = all \ {"extra"}
    BY <1>7 DEF Budget!Without
  <2> HIDE DEF untagged
  <2>2. CASE Budget!Bytes(w, optional, untagged) <= most
    <3>1. ~(Budget!Bytes(w, optional, untagged) > most)
      BY <1>4, <2>2
    <3>2. Budget!Shed(w, optional) = untagged
      BY <1>5, <3>1, Zenon DEF Budget!Without
    <3> QED
      BY <1>4, <2>1, <2>2, <3>2
  <2>3. CASE Budget!Bytes(w, optional, untagged) > most
    <3>1. silent = untagged \ {"sound"}
      BY <2>3 DEF Budget!Without
    <3> HIDE DEF silent
    <3>2. silent \subseteq {"gps"} /\ silent \subseteq all
          /\ ("gps" \in silent <=> "gps" \in all)
      BY <1>2, <2>1, <3>1
    <3>3. CASE Budget!Bytes(w, optional, silent) <= most
      <4>1. ~(Budget!Bytes(w, optional, silent) > most)
        BY <1>4, <3>3
      <4>2. Budget!Shed(w, optional) = silent
        BY <1>5, <4>1, Zenon DEF Budget!Without
      <4> QED
        BY <1>4, <3>2, <3>3, <4>2
    <3>4. CASE Budget!Bytes(w, optional, silent) > most
      <4>1. Budget!Shed(w, optional) = silent \ {"gps"}
        BY <1>5, <3>4 DEF Budget!Without
      <4>2. Budget!Shed(w, optional) = {}
        BY <3>2, <4>1
      <4>3. Budget!Bytes(w, optional, {}) = Budget!Mandatory(w)
        BY <1>3
      <4>4. Budget!Mandatory(w) + optional.gps > most
        <5>1. "gps" \in silent
          <6>1. SUFFICES ASSUME "gps" \notin silent PROVE FALSE
            OBVIOUS
          <6>2. silent = {}
            BY <3>2, <6>1
          <6>3. Budget!Bytes(w, optional, {}) = Budget!Mandatory(w)
            BY <1>3
          <6> QED
            BY <3>4, <6>2, <6>3
        <5>2. Budget!Bytes(w, optional, silent) = Budget!Mandatory(w) + optional.gps
          BY <1>3, <3>2, <5>1
        <5> QED
          BY <3>4, <5>2
      <4> QED
        BY <1>1, <4>2, <4>3, <4>4
    <3> QED
      BY <1>4, <3>3, <3>4
  <2> QED
    BY <1>4, <2>2, <2>3
<1> QED
  BY <1>4, <1>6, <1>7

(* What an accepted configuration promises. *)
LEMMA AcceptedBudget ==
  ASSUME NEW c \in Configs, Budget!Accepts(c)
  PROVE  /\ c.worst_case_packet_bytes \in 1 .. Budget!LoraMax
         /\ c.worst_case_packet_bytes >=
              Budget!MandatoryBytes + (IF c.transmit_gps THEN Budget!GpsBytes ELSE 0)
         /\ ~c.append_diagnostic_fields =>
              c.worst_case_packet_bytes <= Budget!GroundStationMax
         /\ Budget!ModemLegal(c)
         /\ 10 * c.max_channel_duty * c.telemetry_period_ms \in Nat
         /\ \A bytes \in 0 .. c.worst_case_packet_bytes :
              Budget!Airtime(c, bytes) <= 10 * c.max_channel_duty * c.telemetry_period_ms
<1>1. Budget!BudgetHolds(c) /\ Budget!ModemLegal(c) /\ Budget!DutyHolds(c)
      /\ c.telemetry_period_ms \in 1 .. Budget!MaxTelemetryPeriod
  BY DEF Budget!Accepts
<1>2. /\ c.worst_case_packet_bytes \in 1 .. Budget!LoraMax
      /\ c.worst_case_packet_bytes >=
           Budget!MandatoryBytes + (IF c.transmit_gps THEN Budget!GpsBytes ELSE 0)
      /\ c.append_diagnostic_fields \/ c.worst_case_packet_bytes <= Budget!GroundStationMax
  BY <1>1 DEF Budget!BudgetHolds
<1>3. c.max_channel_duty \in 1 .. 100 /\ c.telemetry_period_ms \in 1 .. 950
  BY <1>1 DEF Budget!DutyHolds, Budget!MaxTelemetryPeriod
<1>4. \A d, t \in Nat : 10 * d * t \in Nat
  <2>1. \A m, t \in Nat : m * t \in Nat
    OBVIOUS
  <2>2. \A d \in Nat : 10 * d \in Nat
    OBVIOUS
  <2> QED
    BY <2>1, <2>2
<1>5. 10 * c.max_channel_duty * c.telemetry_period_ms \in Nat
  <2>1. c.max_channel_duty \in Nat /\ c.telemetry_period_ms \in Nat
    BY <1>3
  <2> QED
    BY <1>4, <2>1
<1>6. ASSUME NEW bytes \in 0 .. c.worst_case_packet_bytes
      PROVE  Budget!Airtime(c, bytes) <= 10 * c.max_channel_duty * c.telemetry_period_ms
  <2>1. c.worst_case_packet_bytes \in Nat /\ bytes \in Nat
        /\ bytes <= c.worst_case_packet_bytes
    BY <1>2 DEF Budget!LoraMax
  <2>2. /\ Budget!Airtime(c, bytes) \in Nat
        /\ Budget!Airtime(c, c.worst_case_packet_bytes) \in Nat
        /\ Budget!Airtime(c, bytes) <= Budget!Airtime(c, c.worst_case_packet_bytes)
    BY <1>1, <2>1, AirtimeMonotone
  <2>3. Budget!Airtime(c, c.worst_case_packet_bytes) <=
          10 * c.max_channel_duty * c.telemetry_period_ms
    BY <1>1 DEF Budget!DutyHolds
  <2> QED
    BY <1>5, <2>2, <2>3
<1> QED
  BY <1>1, <1>2, <1>5, <1>6

(* Of an accepted configuration within the widths, the values of a packet  *)
(* are within the budget.                                                  *)
LEMMA WidthsFit ==
  ASSUME NEW w \in Widths, config \in Configs, Budget!Accepts(config)
  PROVE  /\ Budget!Mandatory(w) \in Nat
         /\ \A rich \in BOOLEAN :
              Budget!Optional(w, rich) \in [gps : Nat, sound : Nat, extra : Nat]
         /\ Budget!WithinWidths(config) =>
              /\ Budget!Mandatory(w) <= Budget!MandatoryBytes
              /\ Budget!Mandatory(w) <= config.worst_case_packet_bytes
              /\ \A rich \in BOOLEAN :
                   "gps" \in Budget!Fields(Budget!Optional(w, rich)) =>
                     Budget!Mandatory(w) + Budget!Optional(w, rich).gps <=
                       config.worst_case_packet_bytes
<1> DEFINE decimals == Budget!Decimals(config)
           most == config.worst_case_packet_bytes
<1>1. /\ w.mandatory \in Nat /\ w.mandatory <= 136 /\ w.gps \in Nat /\ w.gps <= 39
      /\ w.sound \in Nat /\ config.team_id_length \in Nat
      /\ config.gps_latlon_decimals \in Int /\ config.gps_alt_decimals \in Int
  BY BudgetAssumed DEF Budget!PacketBudgetAssumption, Budget!NumbersBytes,
                       Budget!PositionBytes
<1>2. decimals \in Nat
  <2>1. \A d \in Int : Budget!Printed(d) \in Nat
    BY DEF Budget!Printed
  <2> QED
    BY <1>1, <2>1 DEF Budget!Decimals
<1>3. Budget!Mandatory(w) \in Nat
  BY <1>1 DEF Budget!Mandatory
<1>4. ASSUME NEW rich \in BOOLEAN
      PROVE  /\ Budget!Optional(w, rich) \in [gps : Nat, sound : Nat, extra : Nat]
             /\ Budget!Optional(w, rich).gps \in {0, w.gps + decimals}
             /\ "gps" \in Budget!Fields(Budget!Optional(w, rich)) => config.transmit_gps
  <2>1. Budget!ExtraWidth(rich) \in Nat
    BY DEF Budget!ExtraWidth, Budget!TagBytes, Budget!StatusBytes
  <2> HIDE DEF decimals
  <2>2. w.gps + decimals \in Nat
    BY <1>1, <1>2
  <2>3. Budget!Optional(w, rich) =
          [gps |-> IF config.transmit_gps /\ rich /\ w.gps > 0 THEN w.gps + decimals ELSE 0,
           sound |-> IF config.transmit_sound /\ rich THEN w.sound ELSE 0,
           extra |-> Budget!ExtraWidth(rich)]
    BY DEF Budget!Optional, decimals
  <2> QED
    BY <1>1, <2>1, <2>2, <2>3 DEF Budget!Fields
<1>5. ASSUME Budget!WithinWidths(config)
      PROVE  /\ Budget!Mandatory(w) <= 147
             /\ w.gps + decimals <= 51
  BY <1>1, <1>2, <1>5 DEF Budget!WithinWidths, Budget!Mandatory, Budget!NumbersBytes,
                          Budget!PositionBytes, Budget!MandatoryBytes, Budget!GpsBytes
<1>6. /\ most \in Nat /\ most >= 147
      /\ config.transmit_gps => most >= 198
  <2>1. /\ most \in 1 .. Budget!LoraMax
        /\ most >=
             Budget!MandatoryBytes + (IF config.transmit_gps THEN Budget!GpsBytes ELSE 0)
    BY AcceptedBudget
  <2> HIDE DEF most
  <2> QED
    BY <2>1 DEF Budget!LoraMax, Budget!MandatoryBytes, Budget!GpsBytes
<1> HIDE DEF decimals, most
<1>7. ASSUME Budget!WithinWidths(config)
      PROVE  Budget!Mandatory(w) <= most
  BY <1>3, <1>5, <1>6, <1>7
<1>8. ASSUME Budget!WithinWidths(config), NEW rich \in BOOLEAN,
             "gps" \in Budget!Fields(Budget!Optional(w, rich))
      PROVE  Budget!Mandatory(w) + Budget!Optional(w, rich).gps <= most
  <2>1. config.transmit_gps
    BY <1>4, <1>8
  <2>2. \A m, g, d \in Nat : m <= 147 /\ g + d <= 51 /\ most >= 198 =>
          m + 0 <= most /\ m + (g + d) <= most
    BY <1>6
  <2>3. \/ Budget!Optional(w, rich).gps = 0
        \/ Budget!Optional(w, rich).gps = w.gps + decimals
    BY <1>4
  <2> QED
    BY <1>1, <1>2, <1>3, <1>5, <1>6, <1>8, <2>1, <2>2, <2>3
<1> QED
  BY <1>3, <1>4, <1>5, <1>7, <1>8 DEF most, Budget!MandatoryBytes

(* The two slots of the pattern hold what they were measured for. *)
LEMMA SlotsMeasured ==
  ASSUME NEW c \in Configs, Budget!ModemLegal(c), Budget!ProfileModem(c),
         NEW bytes \in Nat
  PROVE  /\ bytes <= 200 => 1018 * Budget!Airtime(c, bytes) <= 1000000 * (374 - 50)
         /\ bytes <= 147 => 1018 * Budget!Airtime(c, bytes) <= 1000000 * (296 - 50)
<1>1. 2 ^ 7 = 128
  OBVIOUS
<1>2. Budget!SymbolTime(c) = 1024
  BY <1>1 DEF Budget!ProfileModem, Budget!SymbolTime
<1>3. ~Budget!LowDataRate(c)
  BY <1>2 DEF Budget!LowDataRate
<1>4. Budget!PayloadSymbols(c, 200) = 298 /\ Budget!PayloadSymbols(c, 147) = 223
  BY <1>3 DEF Budget!ProfileModem, Budget!PayloadSymbols
<1>5. Budget!Airtime(c, 200) = 317696 /\ Budget!Airtime(c, 147) = 240896
  BY <1>2, <1>4 DEF Budget!ProfileModem, Budget!Airtime
<1>6. \A most \in Nat : bytes <= most =>
        Budget!Airtime(c, bytes) \in Nat /\ Budget!Airtime(c, bytes) <= Budget!Airtime(c, most)
  BY AirtimeMonotone
<1> DEFINE airtime == Budget!Airtime(c, bytes)
<1>7. bytes <= 200 => airtime \in Nat /\ airtime <= 317696
  BY <1>5, <1>6
<1>8. bytes <= 147 => airtime \in Nat /\ airtime <= 240896
  BY <1>5, <1>6
<1> HIDE DEF airtime
<1>9. /\ bytes <= 200 => 1018 * airtime <= 1000000 * (374 - 50)
      /\ bytes <= 147 => 1018 * airtime <= 1000000 * (296 - 50)
  BY <1>7, <1>8
<1> QED
  BY <1>9 DEF airtime

(* A packet of an accepted configuration within the widths.  One that goes *)
(* in a lean slot has the mandatory fields alone.                          *)
PacketFits ==
  /\ packet.bytes <= config.worst_case_packet_bytes
  /\ packet.reports # "error"
  /\ "gps" \in packet.wants => "gps" \in packet.fields
  /\ packet.slot = "lean" => packet.bytes <= Budget!MandatoryBytes

BudgetInv ==
  /\ config \in Configs /\ operational \in BOOLEAN /\ max_rate \in BOOLEAN
  /\ operational => Budget!Accepts(config)
  /\ packet.bytes \in Nat /\ packet.reports \in {"none", "warning", "error"}
  /\ packet.slot \in {"period", "rich", "lean"}
  /\ packet.wants \subseteq {"gps", "sound", "extra"}
  /\ packet.fields \subseteq packet.wants
  /\ ~operational => packet = Budget!None
  /\ packet.bytes <= Budget!LoraMax
  /\ operational /\ Budget!WithinWidths(config) => PacketFits

(* No packet is within any bounds. *)
LEMMA NoneFits ==
  ASSUME config \in Configs, Budget!Accepts(config), packet = Budget!None
  PROVE  PacketFits
<1>1. config.worst_case_packet_bytes \in 1 .. Budget!LoraMax
  BY AcceptedBudget
<1>2. 0 <= config.worst_case_packet_bytes
  BY <1>1 DEF Budget!LoraMax
<1> QED
  BY <1>2 DEF PacketFits, Budget!None, Budget!MandatoryBytes

LEMMA BudgetInit == Budget!Init => BudgetInv
<1> SUFFICES ASSUME Budget!Init PROVE BudgetInv
  OBVIOUS
<1>1. config \in Configs /\ operational = FALSE /\ max_rate = FALSE
      /\ packet = Budget!None
  BY DEF Budget!Init
<1>2. operational \in BOOLEAN /\ ~operational /\ max_rate \in BOOLEAN
  BY <1>1
<1> QED
  BY <1>1, <1>2 DEF BudgetInv, Budget!None, Budget!LoraMax

LEMMA BudgetStep == BudgetInv /\ [Budget!Next]_(Budget!vars) => BudgetInv'
<1> SUFFICES ASSUME BudgetInv, [Budget!Next]_(Budget!vars) PROVE BudgetInv'
  OBVIOUS
<1>1. CASE Budget!Initialize
  <2>1. config \in Configs /\ Budget!Accepts(config) /\ packet = Budget!None
        /\ operational' = TRUE /\ UNCHANGED <<config, max_rate, packet>>
    BY <1>1 DEF Budget!Initialize, BudgetInv
  <2>2. PacketFits
    BY <2>1, NoneFits
  <2>3. PacketFits'
    BY <2>1, <2>2 DEF PacketFits
  <2> QED
    BY <2>1, <2>3 DEF BudgetInv, Budget!Accepts
<1>2. ASSUME NEW w \in Widths, NEW rich \in BOOLEAN, NEW mandatory_valid \in BOOLEAN,
             NEW max_rate_received \in BOOLEAN,
             Budget!EmitTelemetry(w, rich, mandatory_valid, max_rate_received)
      PROVE  BudgetInv'
  <2> DEFINE optional == Budget!Optional(w, rich)
             fields == Budget!Shed(w, optional)
             bytes == Budget!Bytes(w, optional, fields)
             reports == Budget!Reports(w, optional)
             most == config.worst_case_packet_bytes
             at_max == max_rate \/ max_rate_received
             slot == IF ~at_max THEN "period" ELSE IF rich THEN "rich" ELSE "lean"
  <2>1. /\ config \in Configs /\ operational /\ Budget!Accepts(config)
        /\ UNCHANGED <<config, operational>>
    BY <1>2 DEF Budget!EmitTelemetry, BudgetInv
  <2>2. /\ Budget!Mandatory(w) \in Nat
        /\ optional \in [gps : Nat, sound : Nat, extra : Nat]
    BY <2>1, WidthsFit
  <2>3. Budget!Fields(optional) \subseteq {"gps", "sound", "extra"}
    BY DEF Budget!Fields, Budget!Optional
  <2>4. fields \subseteq Budget!Fields(optional) /\ bytes \in Nat
    BY <2>2, ShedTypes
  <2>5. most \in Nat
    BY <2>1, AcceptedBudget DEF Budget!LoraMax
  <2>6. ASSUME Budget!WithinWidths(config)
        PROVE  /\ bytes <= most /\ most <= Budget!LoraMax
               /\ "gps" \in Budget!Fields(optional) => "gps" \in fields
    <3>1. Budget!Mandatory(w) <= most
          /\ ("gps" \in Budget!Fields(optional) =>
                Budget!Mandatory(w) + optional.gps <= most)
      BY <2>1, <2>6, WidthsFit
    <3>2. most <= Budget!LoraMax
      BY <2>1, AcceptedBudget DEF Budget!LoraMax
    <3> HIDE DEF optional
    <3> QED
      BY <2>2, <2>5, <3>1, <3>2, ShedFits
  <2>7. ASSUME Budget!WithinWidths(config), slot = "lean"
        PROVE  bytes <= Budget!MandatoryBytes
    <3>1. ~rich /\ max_rate
      BY <1>2, <2>7 DEF Budget!EmitTelemetry
    <3>2. Budget!Fields(optional) = {}
      BY <3>1 DEF Budget!Fields, Budget!Optional, Budget!ExtraWidth, Budget!Tagged
    <3>3. bytes = Budget!Mandatory(w)
      <4>1. fields = {}
        BY <2>4, <3>2
      <4> HIDE DEF optional, fields
      <4> QED
        BY <2>2, <4>1 DEF Budget!Bytes
    <3> QED
      BY <2>1, <2>7, <3>3, WidthsFit
  <2>8. reports \in {"none", "warning"}
    BY DEF Budget!Reports
  <2>9. slot \in {"period", "rich", "lean"} /\ at_max \in BOOLEAN
    BY DEF BudgetInv
  <2>10. \/ /\ bytes <= Budget!LoraMax /\ max_rate' = at_max
            /\ packet' = [wants |-> Budget!Fields(optional), fields |-> fields,
                          bytes |-> bytes, reports |-> reports, slot |-> slot]
         \/ /\ bytes > Budget!LoraMax /\ max_rate' = max_rate
            /\ packet' = [Budget!None EXCEPT !.reports = "error"]
         \/ max_rate' = max_rate /\ packet' = Budget!None
    BY <1>2 DEF Budget!EmitTelemetry
  <2> HIDE DEF optional, fields, bytes, reports, at_max, slot
  <2>11. CASE /\ bytes <= Budget!LoraMax /\ max_rate' = at_max
              /\ packet' = [wants |-> Budget!Fields(optional), fields |-> fields,
                            bytes |-> bytes, reports |-> reports, slot |-> slot]
    <3>1. Budget!WithinWidths(config) => PacketFits'
      BY <2>1, <2>6, <2>7, <2>8, <2>11 DEF PacketFits
    <3> QED
      BY <2>1, <2>3, <2>4, <2>8, <2>9, <2>11, <3>1 DEF BudgetInv, Budget!WithinWidths
  <2>12. CASE /\ bytes > Budget!LoraMax /\ max_rate' = max_rate
              /\ packet' = [Budget!None EXCEPT !.reports = "error"]
    <3>1. ~Budget!WithinWidths(config)
      <4>1. \A b, m, l \in Nat : b <= m /\ m <= l => ~(b > l)
        OBVIOUS
      <4> QED
        BY <2>4, <2>5, <2>6, <2>12, <4>1 DEF Budget!LoraMax
    <3>2. ~Budget!WithinWidths(config')
      BY <2>1, <3>1
    <3> QED
      BY <2>1, <2>12, <3>2 DEF BudgetInv, Budget!None, Budget!LoraMax, Budget!WithinWidths,
                               Budget!Decimals
  <2>13. CASE max_rate' = max_rate /\ packet' = Budget!None
    <3>1. PacketFits'
      <4>1. 0 <= config.worst_case_packet_bytes
        BY <2>1, AcceptedBudget DEF Budget!LoraMax
      <4> QED
        BY <2>1, <2>13, <4>1 DEF PacketFits, Budget!None, Budget!MandatoryBytes
    <3> QED
      BY <2>1, <2>13, <3>1 DEF BudgetInv, Budget!None, Budget!LoraMax
  <2> QED
    BY <2>10, <2>11, <2>12, <2>13
<1>3. CASE Budget!EngageMaxRate
  BY <1>3 DEF Budget!EngageMaxRate, BudgetInv, PacketFits
<1>4. CASE UNCHANGED Budget!vars
  BY <1>4 DEF Budget!vars, BudgetInv, PacketFits
<1> QED
  BY <1>1, <1>2, <1>3, <1>4 DEF Budget!Next

(* Whatever configurations a build may have, and whatever they leave       *)
(* unchecked: no packet of an accepted one is cut by the radio; and if its *)
(* fields are as wide as they are counted, none sheds its position or      *)
(* takes more than its share of the channel, and a flight build's is heard *)
(* by the organizers' station and fits its slot in the pattern             *)
(* (config.cpp, controller.cpp, link_profile.hpp).                         *)
THEOREM AcceptedFlies == Budget!Spec => [](Budget!TypeOK /\ Budget!AcceptedFits)
<1>1. BudgetInv => Budget!TypeOK /\ Budget!AcceptedFits
  <2> SUFFICES ASSUME BudgetInv PROVE Budget!TypeOK /\ Budget!AcceptedFits
    OBVIOUS
  <2>1. Budget!TypeOK
    BY DEF BudgetInv, Budget!TypeOK
  <2>2. packet.bytes <= Budget!LoraMax
    BY DEF BudgetInv
  <2>3. ASSUME operational, Budget!WithinWidths(config)
        PROVE  /\ packet.reports # "error"
               /\ "gps" \in packet.wants => "gps" \in packet.fields
               /\ packet.slot = "period" => Budget!InShare
               /\ ~config.append_diagnostic_fields =>
                    /\ packet.bytes <= Budget!GroundStationMax
                    /\ packet.slot # "period" /\ Budget!ProfileModem(config) => Budget!InSlot
    <3>1. config \in Configs /\ Budget!Accepts(config) /\ packet.bytes \in Nat /\ PacketFits
      BY <2>3 DEF BudgetInv
    <3>2. /\ config.worst_case_packet_bytes \in 1 .. Budget!LoraMax
          /\ ~config.append_diagnostic_fields =>
               config.worst_case_packet_bytes <= Budget!GroundStationMax
          /\ Budget!ModemLegal(config)
          /\ \A bytes \in 0 .. config.worst_case_packet_bytes :
               Budget!Airtime(config, bytes) <=
                 10 * config.max_channel_duty * config.telemetry_period_ms
      BY <3>1, AcceptedBudget
    <3>3. packet.bytes \in 0 .. config.worst_case_packet_bytes
      BY <3>1, <3>2 DEF PacketFits, Budget!LoraMax
    <3>4. Budget!InShare
      BY <3>2, <3>3 DEF Budget!InShare
    <3>5. ASSUME ~config.append_diagnostic_fields
          PROVE  packet.bytes <= 200
      BY <3>1, <3>2, <3>3, <3>5 DEF Budget!GroundStationMax, Budget!LoraMax
    <3>6. ASSUME ~config.append_diagnostic_fields, packet.slot # "period",
                 Budget!ProfileModem(config)
          PROVE  Budget!InSlot
      <4>1. /\ 1018 * Budget!Airtime(config, packet.bytes) <= 1000000 * (374 - 50)
            /\ packet.bytes <= 147 =>
                 1018 * Budget!Airtime(config, packet.bytes) <= 1000000 * (296 - 50)
        BY <3>1, <3>2, <3>5, <3>6, SlotsMeasured
      <4>2. packet.slot \in {"rich", "lean"}
        BY <3>6 DEF BudgetInv
      <4>3. CASE packet.slot = "rich"
        BY <4>1, <4>3 DEF Budget!InSlot, Budget!MaxRateRichSlotMs, Budget!MaxRateGuardMs
      <4>4. CASE packet.slot = "lean"
        <5>1. packet.bytes <= 147
          BY <3>1, <4>4 DEF PacketFits, Budget!MandatoryBytes
        <5> QED
          BY <4>1, <4>4, <5>1 DEF Budget!InSlot, Budget!MaxRateLeanSlotMs,
                                  Budget!MaxRateGuardMs
      <4> QED
        BY <4>2, <4>3, <4>4
    <3> QED
      BY <3>1, <3>4, <3>5, <3>6 DEF PacketFits, Budget!GroundStationMax
  <2> QED
    BY <2>1, <2>2, <2>3 DEF Budget!AcceptedFits
<1> QED
  BY <1>1, BudgetInit, BudgetStep, PTL DEF Budget!Spec

(* The same on the bench. *)
THEOREM BudgetOnBench == Spec => []AcceptedFits
<1>1. Init => Budget!Init
  BY DEF Init
<1>2. [Next]_vars => [Budget!Next]_(Budget!vars)
  BY DEF Next, vars, budget, Budget!vars
<1>3. Budget!AcceptedFits => AcceptedFits
  BY DEF AcceptedFits
<1> QED
  BY <1>1, <1>2, <1>3, AcceptedFlies, PTL DEF Spec, Budget!Spec

-----------------------------------------------------------------------------
(* The ground station.                                                     *)
Validators ==
  [last_number : {Station!None} \cup 1 .. MaxNumber,
   last_timestamp_ms : {Station!None} \cup 0 .. MaxClock,
   seen : Seq(1 .. MaxNumber), missing : Nat, out_of_order : Nat, restarts : Nat]

StationTypes ==
  /\ number \in 0 .. MaxNumber /\ clock \in number .. MaxClock
  /\ restarted \in 0 .. MaxRestarts
  /\ stream \in Validators /\ Len(stream.seen) <= SeenWindow
  /\ lost \in Nat /\ gap \in Nat /\ bridged \in Nat
  /\ heard \in {Station!None} \cup 0 .. MaxClock
  /\ in_run \in BOOLEAN /\ followed \in BOOLEAN

(* The validator and the history agree on what was heard. *)
StationSynced ==
  /\ stream.last_timestamp_ms = heard
  /\ heard = Station!None <=> stream.last_number = Station!None
  /\ heard = Station!None => ~in_run
  /\ \A n \in Station!ToSet(stream.seen) : n <= stream.last_number
  /\ followed /\ heard # Station!None => stream.last_number \in Station!ToSet(stream.seen)

(* The numbers of this run above the last one heard: all lost. *)
Unheard == IF number > stream.last_number THEN number - stream.last_number ELSE 0

LossBound ==
  /\ stream.missing <= lost
  /\ heard # Station!None => stream.missing + Unheard <= lost

RestartBound ==
  /\ stream.restarts <= restarted
  /\ restarted = 0 => stream.last_number <= number
  /\ restarted > 0 /\ number = 0 => stream.restarts + 1 <= restarted

LossExact ==
  followed =>
    /\ stream.missing = bridged /\ stream.out_of_order = 0
    /\ in_run => stream.last_number = number - gap

StationInv == StationTypes /\ StationSynced /\ LossBound /\ RestartBound /\ LossExact

(* What check() does of a packet, field by field. *)

(* The numbers held are among those of the window.                         *)
LEMMA SeenNumbers ==
  ASSUME NEW seen \in Seq(1 .. MaxNumber)
  PROVE  \A m \in Station!ToSet(seen) : m \in 1 .. MaxNumber
<1>1. DOMAIN seen = 1 .. Len(seen)
  OBVIOUS
<1>2. \A i \in 1 .. Len(seen) : seen[i] \in 1 .. MaxNumber
  <2> DEFINE S == 1 .. MaxNumber
  <2>1. seen \in Seq(S) OBVIOUS
  <2> HIDE DEF S
  <2>2. \A i \in 1 .. Len(seen) : seen[i] \in S BY <2>1
  <2> QED BY <2>2 DEF S
<1> QED BY <1>1, <1>2, Zenon DEF Station!ToSet

(* The number is remembered, nothing is added, and the window holds. *)
LEMMA Remembers ==
  ASSUME Station!GroundStationAssumption,
         NEW seen \in Seq(1 .. MaxNumber), Len(seen) <= SeenWindow,
         NEW n \in 1 .. MaxNumber
  PROVE  /\ Station!Remember(seen, n) \in Seq(1 .. MaxNumber)
         /\ Len(Station!Remember(seen, n)) <= SeenWindow
         /\ n \in Station!ToSet(Station!Remember(seen, n))
         /\ Station!ToSet(Station!Remember(seen, n)) \subseteq Station!ToSet(seen) \cup {n}
         /\ n \in Station!ToSet(seen) => Station!Remember(seen, n) = seen
<1>1. CASE n \in Station!ToSet(seen)
  BY <1>1 DEF Station!Remember
<1>2. CASE n \notin Station!ToSet(seen) /\ Len(seen) = SeenWindow
  <2> DEFINE tail == Tail(seen)
  <2>1. Len(seen) > 0 BY <1>2 DEF Station!GroundStationAssumption
  <2>2. tail \in Seq(1 .. MaxNumber) /\ Len(tail) = Len(seen) - 1
    BY <2>1
  <2>3. \A i \in 1 .. Len(tail) : tail[i] = seen[i + 1]
    BY <2>1
  <2>4. \A i \in 1 .. Len(tail) : tail[i] \in Station!ToSet(seen)
    BY <2>2, <2>3 DEF Station!ToSet
  <2> HIDE DEF tail
  <2> DEFINE longer == Append(tail, n)
  <2>5. longer \in Seq(1 .. MaxNumber) /\ Len(longer) = Len(tail) + 1
        /\ longer[Len(tail) + 1] = n /\ \A i \in 1 .. Len(tail) : longer[i] = tail[i]
    BY <2>2
  <2>6. Station!Remember(seen, n) = longer BY <1>2 DEF Station!Remember, tail
  <2> HIDE DEF longer
  <2>7. n \in Station!ToSet(longer) BY <2>2, <2>5 DEF Station!ToSet
  <2>8. Station!ToSet(longer) \subseteq Station!ToSet(seen) \cup {n}
    <3> SUFFICES ASSUME NEW i \in 1 .. Len(longer)
                 PROVE  longer[i] \in Station!ToSet(seen) \cup {n}
      BY <2>5 DEF Station!ToSet
    <3>1. CASE i = Len(tail) + 1 BY <3>1, <2>5
    <3>2. CASE i \in 1 .. Len(tail) BY <3>2, <2>4, <2>5
    <3> QED BY <3>1, <3>2, <2>2, <2>5
  <2> QED BY <1>2, <2>2, <2>5, <2>6, <2>7, <2>8
<1>3. CASE n \notin Station!ToSet(seen) /\ Len(seen) # SeenWindow
  <2> DEFINE longer == Append(seen, n)
  <2>1. longer \in Seq(1 .. MaxNumber) /\ Len(longer) = Len(seen) + 1
        /\ longer[Len(seen) + 1] = n /\ \A i \in 1 .. Len(seen) : longer[i] = seen[i]
    OBVIOUS
  <2>2. Station!Remember(seen, n) = longer BY <1>3 DEF Station!Remember
  <2> HIDE DEF longer
  <2>3. n \in Station!ToSet(longer) BY <2>1 DEF Station!ToSet
  <2>4. Station!ToSet(longer) \subseteq Station!ToSet(seen) \cup {n}
    <3> SUFFICES ASSUME NEW i \in 1 .. Len(longer)
                 PROVE  longer[i] \in Station!ToSet(seen) \cup {n}
      BY <2>1 DEF Station!ToSet
    <3>1. CASE i = Len(seen) + 1 BY <3>1, <2>1
    <3>2. CASE i \in 1 .. Len(seen) BY <3>2, <2>1 DEF Station!ToSet
    <3> QED BY <3>1, <3>2, <2>1
  <2>5. Len(longer) <= SeenWindow BY <2>1, <1>3 DEF Station!GroundStationAssumption
  <2> QED BY <1>3, <2>1, <2>2, <2>3, <2>4, <2>5
<1> QED BY <1>1, <1>2, <1>3

(* A packet that shows a restart begins the numbers again. *)
LEMMA ChecksRestart ==
  ASSUME Station!GroundStationAssumption,
         NEW v \in Validators, Len(v.seen) <= SeenWindow,
         NEW n \in 1 .. MaxNumber, NEW t \in 0 .. MaxClock,
         Station!IsVehicleRestart(v, n, t)
  PROVE  Station!Check(v, n, t) =
           [last_number |-> n, last_timestamp_ms |-> t, seen |-> Station!Remember(<<>>, n),
            missing |-> v.missing, out_of_order |-> v.out_of_order,
            restarts |-> v.restarts + 1]
<1> DEFINE s == IF Station!IsVehicleRestart(v, n, t) THEN Station!Forgetting(v) ELSE v
           more == IF (s.last_number # Station!None
                        /\ n \notin Station!ToSet(s.seen)) /\ ~(n <= s.last_number)
                   THEN n - s.last_number - 1 ELSE 0
           late == IF (s.last_number # Station!None
                        /\ n \notin Station!ToSet(s.seen)) /\ n <= s.last_number
                   THEN 1 ELSE 0
           last == IF n <= s.last_number THEN s.last_number ELSE n
<1>1. s = [last_number |-> Station!None, last_timestamp_ms |-> Station!None, seen |-> <<>>,
           missing |-> v.missing, out_of_order |-> v.out_of_order,
           restarts |-> v.restarts + 1]
  BY DEF Station!Forgetting, Validators
<1>2. Station!Check(v, n, t) =
        [s EXCEPT !.missing = s.missing + more, !.out_of_order = s.out_of_order + late,
                  !.seen = Station!Remember(s.seen, n), !.last_number = last,
                  !.last_timestamp_ms = t]
  BY DEF Station!Check
<1> HIDE DEF s
<1>3. more = 0 /\ late = 0 /\ last = n
  BY <1>1 DEF Station!None
<1> HIDE DEF more, late, last
<1>4. v.missing + 0 = v.missing /\ v.out_of_order + 0 = v.out_of_order
  BY DEF Validators
<1> QED BY <1>1, <1>2, <1>3, <1>4

(* Any other packet is judged by the last number and those seen. *)
LEMMA ChecksOther ==
  ASSUME NEW v \in Validators, NEW n \in 1 .. MaxNumber, NEW t \in 0 .. MaxClock,
         ~Station!IsVehicleRestart(v, n, t)
  PROVE  LET judged == v.last_number # Station!None /\ n \notin Station!ToSet(v.seen)
             early == n <= v.last_number
         IN Station!Check(v, n, t) =
              [last_number |-> IF early THEN v.last_number ELSE n,
               last_timestamp_ms |-> t, seen |-> Station!Remember(v.seen, n),
               missing |-> v.missing + (IF judged /\ ~early
                                        THEN n - v.last_number - 1 ELSE 0),
               out_of_order |-> v.out_of_order + (IF judged /\ early THEN 1 ELSE 0),
               restarts |-> v.restarts]
<1> DEFINE s == IF Station!IsVehicleRestart(v, n, t) THEN Station!Forgetting(v) ELSE v
           judged == s.last_number # Station!None /\ n \notin Station!ToSet(s.seen)
           early == n <= s.last_number
           more == IF judged /\ ~early THEN n - s.last_number - 1 ELSE 0
           late == IF judged /\ early THEN 1 ELSE 0
           last == IF early THEN s.last_number ELSE n
<1>1. Station!Check(v, n, t) =
        [s EXCEPT !.missing = s.missing + more, !.out_of_order = s.out_of_order + late,
                  !.seen = Station!Remember(s.seen, n), !.last_number = last,
                  !.last_timestamp_ms = t]
  BY DEF Station!Check
<1>2. s = v OBVIOUS
<1> HIDE DEF s, more, late, last
<1>3. Station!Check(v, n, t) =
        [last_number |-> last, last_timestamp_ms |-> t, seen |-> Station!Remember(s.seen, n),
         missing |-> s.missing + more, out_of_order |-> s.out_of_order + late,
         restarts |-> s.restarts]
  BY <1>1, <1>2 DEF Validators
<1> QED BY <1>2, <1>3 DEF more, late, last

(* A packet heard twice in a row counts once. *)
LEMMA HeardTwice ==
  ASSUME Station!GroundStationAssumption,
         NEW v \in Validators, Len(v.seen) <= SeenWindow,
         NEW n \in 1 .. MaxNumber, NEW t \in 0 .. MaxClock
  PROVE  LET once == Station!Check(v, n, t) IN
         /\ once \in Validators /\ Len(once.seen) <= SeenWindow
         /\ Station!Check(once, n, t) = once
<1> DEFINE once == Station!Check(v, n, t)
<1>e. <<>> \in Seq(1 .. MaxNumber) /\ Len(<<>>) <= SeenWindow
  BY DEF Station!GroundStationAssumption
<1>1. /\ once \in Validators /\ Len(once.seen) <= SeenWindow
      /\ n \in Station!ToSet(once.seen) /\ n <= once.last_number
      /\ once.last_timestamp_ms = t
  <2>1. CASE Station!IsVehicleRestart(v, n, t)
    <3> DEFINE r == Station!Remember(<<>>, n)
    <3>1. r \in Seq(1 .. MaxNumber) /\ Len(r) <= SeenWindow /\ n \in Station!ToSet(r)
      BY <1>e, Remembers
    <3>2. once = [last_number |-> n, last_timestamp_ms |-> t, seen |-> r,
                  missing |-> v.missing, out_of_order |-> v.out_of_order,
                  restarts |-> v.restarts + 1]
      BY <2>1, ChecksRestart DEF r
    <3>3. v.missing \in Nat /\ v.out_of_order \in Nat /\ v.restarts + 1 \in Nat
      BY DEF Validators
    <3> HIDE DEF once, r
    <3> QED BY <3>1, <3>2, <3>3 DEF Validators
  <2>2. CASE ~Station!IsVehicleRestart(v, n, t)
    <3> DEFINE r == Station!Remember(v.seen, n)
    <3>1. r \in Seq(1 .. MaxNumber) /\ Len(r) <= SeenWindow /\ n \in Station!ToSet(r)
      BY Remembers DEF Validators
    <3> HIDE DEF r
    <3>2. v.missing \in Nat /\ v.out_of_order \in Nat /\ v.restarts \in Nat
          /\ v.last_number \in {Station!None} \cup 1 .. MaxNumber
      BY DEF Validators
    <3> DEFINE last == IF n <= v.last_number THEN v.last_number ELSE n
               more == v.missing + (IF (v.last_number # Station!None
                                         /\ n \notin Station!ToSet(v.seen))
                                       /\ ~(n <= v.last_number)
                                    THEN n - v.last_number - 1 ELSE 0)
               late == v.out_of_order + (IF (v.last_number # Station!None
                                              /\ n \notin Station!ToSet(v.seen))
                                            /\ n <= v.last_number THEN 1 ELSE 0)
    <3>3. last \in 1 .. MaxNumber /\ n <= last BY <3>2 DEF Station!None
    <3>4. more \in Nat BY <3>2 DEF Station!None
    <3>5. late \in Nat BY <3>2
    <3>6. once = [last_number |-> last, last_timestamp_ms |-> t, seen |-> r,
                  missing |-> more, out_of_order |-> late, restarts |-> v.restarts]
      BY <2>2, ChecksOther DEF r
    <3> HIDE DEF once, last, more, late
    <3> QED BY <3>1, <3>2, <3>3, <3>4, <3>5, <3>6 DEF Validators
  <2> QED BY <2>1, <2>2
<1> HIDE DEF once
<1>2. ~Station!IsVehicleRestart(once, n, t)
  BY <1>1 DEF Station!IsVehicleRestart
<1>3. Station!Remember(once.seen, n) = once.seen
  BY <1>1, Remembers DEF Validators
<1>4. once.missing + 0 = once.missing /\ once.out_of_order + 0 = once.out_of_order
  BY <1>1 DEF Validators
<1>5. Station!Check(once, n, t) =
        [last_number |-> once.last_number, last_timestamp_ms |-> t, seen |-> once.seen,
         missing |-> once.missing + 0, out_of_order |-> once.out_of_order + 0,
         restarts |-> once.restarts]
  BY <1>1, <1>2, <1>3, ChecksOther
<1>6. Station!Check(once, n, t) = once
  BY <1>1, <1>4, <1>5 DEF Validators
<1> QED BY <1>1, <1>6 DEF once

(* What the next packet of the vehicle does to the station's numbers. *)

Shows(n) == followed /\ (in_run \/ heard = Station!None \/ (n = 1 /\ clock < heard))

(* A packet heard keeps the bounds.                                        *)
LEMMA Hears ==
  ASSUME Station!GroundStationAssumption, StationInv,
         number < MaxNumber, clock < MaxClock, NEW n, n = number + 1
  PROVE  LET c == Station!Check(stream, n, clock) IN
         /\ c \in Validators /\ Len(c.seen) <= SeenWindow
         /\ c.last_timestamp_ms = clock
         /\ n <= c.last_number
         /\ \A m \in Station!ToSet(c.seen) : m <= c.last_number
         /\ c.missing <= lost
         /\ c.restarts <= restarted
         /\ restarted = 0 => c.last_number <= n
         /\ Shows(n) =>
              /\ c.last_number = n /\ n \in Station!ToSet(c.seen)
              /\ c.missing = bridged + (IF in_run THEN gap ELSE 0)
              /\ c.out_of_order = 0
<1> USE DEF Station!None
<1> DEFINE c == Station!Check(stream, n, clock)
<1>1. /\ stream \in Validators /\ Len(stream.seen) <= SeenWindow
      /\ n \in 1 .. MaxNumber /\ clock \in 0 .. MaxClock
      /\ number \in Nat /\ restarted \in Nat /\ lost \in Nat /\ gap \in Nat /\ bridged \in Nat
      /\ heard \in {Station!None} \cup 0 .. MaxClock
  <2>1. MaxNumber \in Nat /\ MaxClock \in Nat /\ MaxRestarts \in Nat
    BY DEF Station!GroundStationAssumption
  <2> QED BY <2>1 DEF StationInv, StationTypes
<1>2. /\ stream.last_number \in {Station!None} \cup 1 .. MaxNumber
      /\ stream.missing \in Nat /\ stream.out_of_order \in Nat /\ stream.restarts \in Nat
      /\ stream.seen \in Seq(1 .. MaxNumber)
  BY <1>1 DEF Validators
<1>t. c \in Validators /\ Len(c.seen) <= SeenWindow
  BY <1>1, HeardTwice
<1>3. CASE Station!IsVehicleRestart(stream, n, clock)
  <2> DEFINE r == Station!Remember(<<>>, n)
  <2>1. <<>> \in Seq(1 .. MaxNumber) /\ Len(<<>>) <= SeenWindow /\ Station!ToSet(<<>>) = {}
    BY DEF Station!GroundStationAssumption, Station!ToSet
  <2>2. n \in Station!ToSet(r) /\ Station!ToSet(r) \subseteq {n}
    BY <1>1, <2>1, Remembers
  <2>3. c = [last_number |-> n, last_timestamp_ms |-> clock, seen |-> r,
             missing |-> stream.missing, out_of_order |-> stream.out_of_order,
             restarts |-> stream.restarts + 1]
    BY <1>1, <1>3, ChecksRestart
  <2> HIDE DEF r, c
  <2>4. /\ c.last_number = n /\ c.last_timestamp_ms = clock /\ c.seen = r
        /\ c.missing = stream.missing /\ c.out_of_order = stream.out_of_order
        /\ c.restarts = stream.restarts + 1
    BY <2>3
  <2>5. n = 1 /\ number = 0 /\ stream.last_number > 1 /\ heard # Station!None
    BY <1>1, <1>2, <1>3 DEF Station!IsVehicleRestart, StationInv, StationSynced
  <2>6. c.missing <= lost
    BY <2>4 DEF StationInv, LossBound
  <2>7. restarted > 0
    BY <2>5, <1>1, <1>2 DEF StationInv, RestartBound
  <2>8. c.restarts <= restarted
    BY <2>4, <2>5, <2>7 DEF StationInv, RestartBound
  <2>9. n <= c.last_number
    BY <1>1, <2>4
  <2>10. \A m \in Station!ToSet(c.seen) : m <= c.last_number
    BY <1>1, <2>2, <2>4
  <2>11. ASSUME Shows(n)
         PROVE  c.missing = bridged + (IF in_run THEN gap ELSE 0) /\ c.out_of_order = 0
    <3>1. ~in_run
      BY <2>5, <2>11, <1>1, <1>2 DEF Shows, StationInv, LossExact
    <3> QED BY <3>1, <2>4, <2>11, <1>1, <1>2 DEF Shows, StationInv, LossExact
  <2> QED BY <1>t, <2>2, <2>4, <2>6, <2>7, <2>8, <2>9, <2>10, <2>11 DEF c
<1>4. CASE ~Station!IsVehicleRestart(stream, n, clock)
  <2> DEFINE r == Station!Remember(stream.seen, n)
             early == n <= stream.last_number
             judged == stream.last_number # Station!None /\ n \notin Station!ToSet(stream.seen)
             last == IF early THEN stream.last_number ELSE n
             more == stream.missing + (IF judged /\ ~early
                                       THEN n - stream.last_number - 1 ELSE 0)
             late == stream.out_of_order + (IF judged /\ early THEN 1 ELSE 0)
  <2>1. /\ n \in Station!ToSet(r)
        /\ Station!ToSet(r) \subseteq Station!ToSet(stream.seen) \cup {n}
    BY <1>1, <1>2, Remembers
  <2>2. c = [last_number |-> last, last_timestamp_ms |-> clock, seen |-> r,
             missing |-> more, out_of_order |-> late, restarts |-> stream.restarts]
    BY <1>1, <1>4, ChecksOther
  <2> HIDE DEF r, c
  <2>3. /\ c.last_number = last /\ c.last_timestamp_ms = clock /\ c.seen = r
        /\ c.missing = more /\ c.out_of_order = late
        /\ c.restarts = stream.restarts
    BY <2>2
  <2>4. n <= last /\ stream.last_number <= last
    BY <1>1, <1>2
  <2>5. \A m \in Station!ToSet(stream.seen) : m \in 1 .. MaxNumber /\ m <= stream.last_number
    <3>1. \A m \in Station!ToSet(stream.seen) : m <= stream.last_number
      BY DEF StationInv, StationSynced
    <3>2. \A m \in Station!ToSet(stream.seen) : m \in 1 .. MaxNumber
      BY <1>2, SeenNumbers
    <3> QED BY <3>1, <3>2
  <2>6. \A m \in Station!ToSet(c.seen) : m <= c.last_number
    BY <1>1, <1>2, <2>1, <2>3, <2>4, <2>5
  <2>7. c.missing <= lost
    <3>1. CASE stream.last_number = Station!None
      BY <3>1, <1>1, <1>2, <2>3 DEF StationInv, LossBound
    <3>2. CASE stream.last_number # Station!None
      <4>1. stream.missing + Unheard <= lost
        BY <3>2 DEF StationInv, LossBound, StationSynced
      <4> QED BY <3>2, <4>1, <1>1, <1>2, <2>3 DEF Unheard
    <3> QED BY <3>1, <3>2
  <2>8. c.restarts <= restarted
    BY <2>3 DEF StationInv, RestartBound
  <2>9. restarted = 0 => c.last_number <= n
    BY <1>1, <1>2, <2>3 DEF StationInv, RestartBound
  <2>10. ASSUME Shows(n)
         PROVE  /\ c.last_number = n
                /\ c.missing = bridged + (IF in_run THEN gap ELSE 0)
                /\ c.out_of_order = 0
    <3>0. /\ followed /\ stream.missing = bridged /\ stream.out_of_order = 0
          /\ in_run => stream.last_number = number - gap
          /\ heard = Station!None <=> stream.last_number = Station!None
          /\ heard = Station!None => ~in_run
          /\ stream.last_timestamp_ms = heard
      BY <2>10 DEF Shows, StationInv, LossExact, StationSynced
    <3>1. CASE in_run
      <4>1. stream.last_number = number - gap /\ stream.last_number # Station!None /\ ~early
        BY <3>0, <3>1, <1>1
      <4>2. n \notin Station!ToSet(stream.seen)
        BY <4>1, <2>5
      <4>3. n - stream.last_number - 1 = gap
        BY <4>1, <1>1
      <4> QED BY <3>0, <3>1, <4>1, <4>2, <4>3, <1>1, <2>3
    <3>2. CASE heard = Station!None
      BY <3>0, <3>2, <1>1, <1>2, <2>3
    <3>3. CASE ~in_run /\ heard # Station!None
      <4>1. n = 1 /\ clock < heard
        BY <2>10, <3>3 DEF Shows
      <4>2. stream.last_number = 1
        BY <4>1, <3>0, <3>3, <1>2, <1>4 DEF Station!IsVehicleRestart
      <4>3. n \in Station!ToSet(stream.seen)
        BY <4>1, <4>2, <3>0, <3>3 DEF StationInv, StationSynced
      <4> QED BY <3>0, <3>3, <4>1, <4>2, <4>3, <1>1, <1>2, <2>3
    <3> QED BY <3>1, <3>2, <3>3
  <2> QED BY <1>t, <2>1, <2>3, <2>4, <2>6, <2>7, <2>8, <2>9, <2>10 DEF c
<1> QED BY <1>3, <1>4

(* At the beginning.                                                       *)
LEMMA StationInvInit ==
  ASSUME Station!GroundStationAssumption, Station!Init
  PROVE  StationInv
<1> USE DEF Station!None
<1> DEFINE s0 == [last_number |-> Station!None,
                  last_timestamp_ms |-> Station!None, seen |-> <<>>,
                  missing |-> 0, out_of_order |-> 0, restarts |-> 0]
<1>1. stream = s0 /\ <<>> \in Seq(1 .. MaxNumber) /\ Len(<<>>) <= SeenWindow
                  /\ Station!ToSet(<<>>) = {}
  BY DEF Station!Init, Station!GroundStationAssumption, Station!ToSet
<1>2. s0 \in Validators BY <1>1 DEF Validators
<1>3. StationTypes
  <2>1. MaxNumber \in Nat /\ MaxClock \in Nat /\ MaxRestarts \in Nat
    BY DEF Station!GroundStationAssumption
  <2>2. stream \in Validators /\ Len(stream.seen) <= SeenWindow
    BY <1>1, <1>2
  <2>3. /\ number \in 0 .. MaxNumber /\ clock \in number .. MaxClock /\ restarted = 0
        /\ lost = 0 /\ gap = 0 /\ bridged = 0 /\ heard = Station!None
        /\ in_run = FALSE /\ followed = TRUE
    BY DEF Station!Init
  <2> HIDE DEF s0
  <2>4. in_run \in BOOLEAN /\ followed \in BOOLEAN
    BY <2>3, Zenon
  <2>5. restarted \in 0 .. MaxRestarts /\ lost \in Nat /\ gap \in Nat /\ bridged \in Nat
    BY <2>1, <2>3
  <2> QED BY <2>2, <2>3, <2>4, <2>5, Zenon DEF StationTypes
<1>4. StationSynced BY <1>1 DEF Station!Init, StationSynced
<1>5. LossBound BY <1>1 DEF Station!Init, LossBound
<1>6. RestartBound BY <1>1 DEF Station!Init, RestartBound
<1>7. LossExact BY <1>1 DEF Station!Init, LossExact
<1> QED BY <1>3, <1>4, <1>5, <1>6, <1>7 DEF StationInv

(* A number that is not sent.                                              *)
LEMMA StationInvSuppress ==
  ASSUME Station!GroundStationAssumption, StationInv, Station!Suppress
  PROVE  StationInv'
<1>1. clock + 1 \in number .. MaxClock
  BY DEF StationInv, StationTypes, Station!Suppress, Station!GroundStationAssumption
<1>2. StationTypes' BY <1>1 DEF StationInv, StationTypes, Station!Suppress, Validators
<1>3. StationSynced' BY DEF StationInv, StationSynced, Station!Suppress
<1>4. LossBound' BY DEF StationInv, LossBound, Unheard, Station!Suppress
<1>5. RestartBound' BY DEF StationInv, RestartBound, Station!Suppress
<1>6. LossExact' BY DEF StationInv, LossExact, Station!Suppress
<1> QED BY <1>2, <1>3, <1>4, <1>5, <1>6 DEF StationInv

(* A loss raises what is lost by one, and what is unheard by one at most. *)
LEMMA StationInvLose ==
  ASSUME Station!GroundStationAssumption, StationInv, Station!Lose
  PROVE  StationInv'
<1> USE DEF Station!None
<1>1. /\ number \in 0 .. MaxNumber /\ clock \in number .. MaxClock /\ restarted \in Nat
      /\ lost \in Nat /\ gap \in Nat /\ stream.missing \in Nat /\ stream.restarts \in Nat
      /\ stream.last_number \in {Station!None} \cup 1 .. MaxNumber
      /\ number < MaxNumber /\ clock < MaxClock
      /\ number' = number + 1 /\ clock' = clock + 1 /\ lost' = lost + 1 /\ gap' = gap + 1
      /\ MaxNumber \in Nat /\ MaxClock \in Nat
      /\ UNCHANGED <<restarted, stream, bridged, heard, in_run, followed>>
  BY DEF StationInv, StationTypes, Validators, Station!Lose, Station!Transmit,
       Station!GroundStationAssumption
<1>2. /\ number + 1 \in 0 .. MaxNumber /\ clock + 1 \in number + 1 .. MaxClock
      /\ lost + 1 \in Nat /\ gap + 1 \in Nat
  BY <1>1
<1>3. StationTypes' BY <1>1, <1>2 DEF StationInv, StationTypes, Validators
<1>4. StationSynced' BY <1>1 DEF StationInv, StationSynced
<1>5. LossBound'
  <2> DEFINE more == IF number + 1 > stream.last_number
                     THEN number + 1 - stream.last_number ELSE 0
  <2>1. stream.missing <= lost + 1
    BY <1>1 DEF StationInv, LossBound
  <2>2. heard # Station!None => stream.missing + more <= lost + 1
    BY <1>1 DEF StationInv, LossBound, Unheard
  <2>3. Unheard' = more BY <1>1 DEF Unheard
  <2> HIDE DEF more
  <2> QED BY <1>1, <2>1, <2>2, <2>3 DEF LossBound
<1>6. RestartBound'
  <2>1. restarted = 0 => stream.last_number <= number + 1
    BY <1>1 DEF StationInv, RestartBound
  <2>2. number + 1 # 0 BY <1>1
  <2> QED BY <1>1, <2>1, <2>2 DEF StationInv, RestartBound
<1>7. LossExact'
  <2>1. number - gap = number + 1 - (gap + 1) BY <1>1
  <2> QED BY <1>1, <2>1 DEF StationInv, LossExact
<1> QED BY <1>3, <1>4, <1>5, <1>6, <1>7 DEF StationInv

(* A packet that arrives, once or twice.                                   *)
LEMMA StationInvHear ==
  ASSUME Station!GroundStationAssumption, StationInv, NEW twice \in BOOLEAN, Station!Hear(twice)
  PROVE  StationInv'
<1> USE DEF Station!None
<1> DEFINE n == number + 1
           c == Station!Check(stream, n, clock)
<1>1. /\ number \in 0 .. MaxNumber /\ clock \in number .. MaxClock /\ restarted \in Nat
      /\ gap \in Nat /\ bridged \in Nat
      /\ number < MaxNumber /\ clock < MaxClock
      /\ MaxNumber \in Nat /\ MaxClock \in Nat
      /\ stream \in Validators /\ Len(stream.seen) <= SeenWindow
  BY DEF StationInv, StationTypes, Station!Hear, Station!Transmit,
       Station!GroundStationAssumption
<1>2. /\ n \in 1 .. MaxNumber /\ n # 0 /\ clock + 1 \in n .. MaxClock
      /\ clock \in 0 .. MaxClock /\ clock # Station!None
  BY <1>1
<1>3. /\ number' = n /\ clock' = clock + 1 /\ gap' = 0
      /\ bridged' = (IF in_run THEN bridged + gap ELSE bridged)
      /\ heard' = clock /\ in_run' = TRUE
      /\ followed' = Shows(n)
      /\ UNCHANGED <<restarted, lost>>
  BY DEF Station!Hear, Station!Transmit, Shows
<1>4. stream' = IF twice THEN Station!Check(Station!Check(stream, n, clock), n, clock) ELSE c
  BY <1>3 DEF Station!Hear
<1>5. stream' = c
  BY <1>1, <1>2, <1>4, HeardTwice
<1>6. /\ c \in Validators /\ Len(c.seen) <= SeenWindow
      /\ c.last_timestamp_ms = clock
      /\ n <= c.last_number
      /\ \A m \in Station!ToSet(c.seen) : m <= c.last_number
      /\ c.missing <= lost
      /\ c.restarts <= restarted
      /\ restarted = 0 => c.last_number <= n
      /\ Shows(n) =>
           /\ c.last_number = n /\ n \in Station!ToSet(c.seen)
           /\ c.missing = bridged + (IF in_run THEN gap ELSE 0)
           /\ c.out_of_order = 0
  BY <1>1, Hears
<1>7. c.last_number \in {Station!None} \cup 1 .. MaxNumber /\ c.missing \in Nat
  BY <1>6 DEF Validators
<1> HIDE DEF c
<1>8. StationTypes'
  <2>1. bridged' \in Nat BY <1>1, <1>3
  <2>2. Shows(n) \in BOOLEAN BY DEF Shows, StationInv, StationTypes
  <2> QED BY <1>1, <1>2, <1>3, <1>5, <1>6, <2>1, <2>2
          DEF StationInv, StationTypes, Validators
<1>9. StationSynced'
  <2>1. c.last_number # Station!None BY <1>2, <1>6, <1>7
  <2> QED BY <1>2, <1>3, <1>5, <1>6, <2>1 DEF StationSynced
<1>10. LossBound'
  <2>1. ~(n > c.last_number) /\ c.missing + 0 = c.missing
    BY <1>2, <1>6, <1>7
  <2>2. Unheard' = 0 BY <1>3, <1>5, <2>1 DEF Unheard
  <2> QED BY <1>3, <1>5, <1>6, <2>1, <2>2 DEF LossBound
<1>11. RestartBound'
  BY <1>2, <1>3, <1>5, <1>6 DEF RestartBound
<1>12. LossExact'
  <2>1. bridged + (IF in_run THEN gap ELSE 0) = IF in_run THEN bridged + gap ELSE bridged
    BY <1>1
  <2>2. n - 0 = n BY <1>1
  <2> QED BY <1>3, <1>5, <1>6, <2>1, <2>2 DEF LossExact
<1> QED BY <1>8, <1>9, <1>10, <1>11, <1>12 DEF StationInv

(* A new run owes the station nothing yet, and may show itself once. *)
LEMMA StationInvVehicleRestart ==
  ASSUME Station!GroundStationAssumption, StationInv, Station!VehicleRestart
  PROVE  StationInv'
<1> USE DEF Station!None
<1>1. /\ restarted \in 0 .. MaxRestarts /\ restarted < MaxRestarts
      /\ stream.missing \in Nat /\ stream.restarts \in Nat /\ lost \in Nat
      /\ stream.last_number \in {Station!None} \cup 1 .. MaxNumber
      /\ MaxNumber \in Nat /\ MaxClock \in Nat /\ MaxRestarts \in Nat
      /\ restarted' = restarted + 1 /\ number' = 0 /\ clock' = 0
      /\ gap' = 0 /\ in_run' = FALSE
      /\ UNCHANGED <<stream, lost, bridged, heard, followed>>
  BY DEF StationInv, StationTypes, Validators, Station!VehicleRestart,
       Station!GroundStationAssumption
<1>2. /\ restarted + 1 \in 0 .. MaxRestarts /\ 0 \in 0 .. MaxNumber /\ 0 \in 0 .. MaxClock
      /\ 0 \in Nat
  BY <1>1
<1>3. StationTypes' BY <1>1, <1>2 DEF StationInv, StationTypes, Validators
<1>4. StationSynced' BY <1>1 DEF StationInv, StationSynced
<1>5. LossBound'
  <2>1. heard # Station!None => ~(0 > stream.last_number)
    BY <1>1 DEF StationInv, StationSynced
  <2>2. heard # Station!None => Unheard' = 0
    BY <1>1, <2>1 DEF Unheard
  <2>3. stream.missing + 0 = stream.missing BY <1>1
  <2> QED BY <1>1, <2>2, <2>3 DEF StationInv, LossBound
<1>6. RestartBound'
  <2>1. /\ stream.restarts <= restarted + 1 /\ restarted + 1 # 0
        /\ stream.restarts + 1 <= restarted + 1
    BY <1>1 DEF StationInv, RestartBound
  <2> QED BY <1>1, <2>1 DEF RestartBound
<1>7. LossExact' BY <1>1 DEF StationInv, LossExact
<1> QED BY <1>3, <1>4, <1>5, <1>6, <1>7 DEF StationInv

(* Every step keeps the invariant.                                         *)
LEMMA StationInvNext ==
  ASSUME Station!GroundStationAssumption, StationInv, [Station!Next]_(Station!vars)
  PROVE  StationInv'
<1>1. CASE Station!Suppress BY <1>1, StationInvSuppress
<1>2. CASE Station!Lose BY <1>2, StationInvLose
<1>3. ASSUME NEW twice \in BOOLEAN, Station!Hear(twice) PROVE StationInv'
  BY <1>3, StationInvHear
<1>4. CASE Station!VehicleRestart BY <1>4, StationInvVehicleRestart
<1>5. CASE UNCHANGED Station!vars
  BY <1>5 DEF Station!vars, StationInv, StationTypes, Validators,
       StationSynced, LossBound, Unheard,
              RestartBound, LossExact
<1> QED BY <1>1, <1>2, <1>3, <1>4, <1>5 DEF Station!Next

(* What it implies.                                                        *)
LEMMA StationInvImplies ==
  ASSUME StationInv
  PROVE  Station!TypeOK /\ Station!LossHonest
BY DEF StationInv, StationTypes, Validators, LossBound, RestartBound,
     LossExact, Station!TypeOK, Station!LossHonest

(* The constants of the station.                                           *)
LEMMA StationAssumed == Station!GroundStationAssumption
  BY BenchAssumption

(* The station's variables keep their types: the window of the numbers     *)
(* seen never outgrows SEEN_WINDOW (_remember).                            *)
THEOREM StationTyped == Station!Spec => []Station!TypeOK
<1>1. Station!Init => StationInv
  BY StationAssumed, StationInvInit
<1>2. StationInv /\ [Station!Next]_(Station!vars) => StationInv'
  BY StationAssumed, StationInvNext
<1>3. StationInv => Station!TypeOK
  BY StationInvImplies
<1> QED BY <1>1, <1>2, <1>3, PTL DEF Station!Spec

(* Whatever is lost, heard twice or restarted, the station reports no more *)
(* loss and no more restarts than there were, and its loss is exact while  *)
(* every run it heard of showed itself (StreamValidator.check).            *)
THEOREM LossIsHonest == Station!Spec => []Station!LossHonest
<1>1. Station!Init => StationInv
  BY StationAssumed, StationInvInit
<1>2. StationInv /\ [Station!Next]_(Station!vars) => StationInv'
  BY StationAssumed, StationInvNext
<1>3. StationInv => Station!LossHonest
  BY StationInvImplies
<1> QED BY <1>1, <1>2, <1>3, PTL DEF Station!Spec

(* The same on the bench.                                                  *)
THEOREM LossOnBench == Spec => []LossHonest
<1>1. Init => Station!Init
  BY DEF Init
<1>2. [Next]_vars => [Station!Next]_(Station!vars)
  BY DEF Next, vars, station, Station!vars
<1> QED BY <1>1, <1>2, LossIsHonest, PTL DEF Spec, Station!Spec, LossHonest

-----------------------------------------------------------------------------
(* The link and the card.  Their proofs are in a module of their own,      *)
(* whose operators are those of the bench: the same definitions in the     *)
(* same variables.                                                         *)
(* The proofs of the card and of the link.                                 *)
Data == INSTANCE LinkAndCardProofs

(* What the encoder writes, and what a header says.                        *)
LEMMA SameFrames ==
  /\ Link!Settled = Data!Link!Settled /\ Link!Idle = Data!Link!Idle
  /\ \A length : Link!Encode(length) = Data!Link!Encode(length)
  /\ Link!LengthText = Data!Link!LengthText
  /\ \A text : Link!Number(text) = Data!Link!Number(text)
<1>1. Link!LengthText = Data!Link!LengthText
  BY DEF Link!LengthText, Link!Digit, Data!Link!LengthText, Data!Link!Digit
<1>2. \A text : Link!Number(text) = Data!Link!Number(text)
  BY DEF Link!Number, Link!FoldLeft, Link!MapThenFoldSet, Link!Max, Data!Link!Number,
         Data!Link!FoldLeft, Data!Link!MapThenFoldSet, Data!Link!Max
<1> QED
  BY <1>1, <1>2 DEF Link!Settled, Link!CrcLength, Link!Idle, Link!Encode, Link!Start,
         Link!Comma, Link!Newline, Link!Text, Link!Crc, Data!Link!Settled,
         Data!Link!CrcLength, Data!Link!Idle, Data!Link!Encode, Data!Link!Start,
         Data!Link!Comma, Data!Link!Newline, Data!Link!Text, Data!Link!Crc

(* What the decoder does of a byte.                                        *)
LEMMA SameFeed ==
  \A r, byte : Link!Feed(r, byte) = Data!Link!Feed(r, byte)
<1>1. \A r : Link!To(r) = Data!Link!To(r) /\ Link!Finish(r) = Data!Link!Finish(r)
  BY SameFrames
  DEF Link!To, Link!Finish, Link!None, Link!Crc, Data!Link!To, Data!Link!Finish,
      Data!Link!None, Data!Link!Crc
<1>2. \A r, byte :
        /\ Link!FeedIdle(byte) = Data!Link!FeedIdle(byte)
        /\ Link!FeedPayload(r, byte) = Data!Link!FeedPayload(r, byte)
  BY <1>1, SameFrames
  DEF Link!FeedIdle, Link!FeedPayload, Link!InLength, Link!Start, Link!Text,
      Data!Link!FeedIdle, Data!Link!FeedPayload, Data!Link!InLength, Data!Link!Start,
      Data!Link!Text
<1>3. \A r, byte : Link!FeedLength(r, byte) = Data!Link!FeedLength(r, byte)
  BY <1>1, SameFrames
  DEF Link!FeedLength, Link!InLength, Link!Start, Link!Comma, Link!IsDigit,
      Data!Link!FeedLength, Data!Link!InLength, Data!Link!Start, Data!Link!Comma,
      Data!Link!IsDigit
<1>4. \A r, byte : Link!FeedCrc(r, byte) = Data!Link!FeedCrc(r, byte)
  BY <1>1, SameFrames
  DEF Link!FeedCrc, Link!InLength, Link!Start, Link!Comma, Link!IsHex, Link!CrcLength,
      Data!Link!FeedCrc, Data!Link!InLength, Data!Link!Start, Data!Link!Comma,
      Data!Link!IsHex, Data!Link!CrcLength
<1> QED BY <1>2, <1>3, <1>4 DEF Link!Feed, Data!Link!Feed
(* The steps of the link.                                                  *)
LEMMA SameLinkSteps == [Next]_vars => [Data!Link!Next]_(Data!Link!vars)
<1>1. Link!Receive => Data!Link!Receive
  BY SameFrames, SameFeed
  DEF Link!Receive, Data!Link!Receive, Link!Advance, Data!Link!Advance
<1>2. Link!Lose => Data!Link!Lose
  BY SameFrames, SameFeed DEF Link!Lose, Data!Link!Lose, Link!Advance, Data!Link!Advance
<1> QED BY <1>1, <1>2
  DEF Next, vars, link, Data!Link!vars, Link!vars, Link!Next, Data!Link!Next

(* Its constants.                                                          *)
LEMMA SameLinkAssumption == Data!Link!FrameLinkAssumption
  BY BenchAssumption, SameFrames DEF Link!FrameLinkAssumption, Data!Link!FrameLinkAssumption

(* On the bench: a frame that arrives whole is delivered, unless the       *)
(* reader is still within a damaged one, and that ends (framing.cpp,       *)
(* transport.py).                                                          *)
THEOREM LinkOnBench == Spec => Delivered
<1>1. Init => Data!Link!Init
  BY SameFrames DEF Init, Link!Init, Data!Link!Init
<1>2. [Data!Link!WholeFrame]_(Data!Link!vars) => [Link!WholeFrame]_(Link!vars)
  BY SameFrames, SameFeed
  DEF Link!WholeFrame, Data!Link!WholeFrame, Link!vars, Data!Link!vars
<1> QED BY <1>1, <1>2, SameLinkSteps, SameLinkAssumption, Data!LinkDelivers, PTL
    DEF Spec, Data!Link!Spec, Data!Link!Delivered, Link!Delivered, Delivered

(* The link keeps its types.                                               *)
LEMMA LinkTypedOnBench == Spec => []Link!TypeOK
<1>1. Init => Data!Link!Init
  BY SameFrames DEF Init, Link!Init, Data!Link!Init
<1>2. Data!Link!TypeOK => Link!TypeOK
  BY SameFrames DEF Link!TypeOK, Data!Link!TypeOK, Link!CrcLength, Data!Link!CrcLength
<1> QED BY <1>1, <1>2, SameLinkSteps, SameLinkAssumption, Data!LinkTypes, PTL
    DEF Spec, Data!Link!Spec

(* What locate() finds and reads.                                          *)
LEMMA SameLocate ==
  /\ \A R : Card!Locate(R) = Data!Locate(R)
  /\ \A R : Card!Consulted(R) = Data!Consulted(R)
  /\ \A R : Card!VolumeStart(R) = Data!VolumeStart(R)
  /\ \A R, b, fat : Card!Directory(R, b, fat) = Data!Directory(R, b, fat)
  /\ \A entries : Card!Decisive(entries) = Data!Decisive(entries)
  /\ \A b, cluster : Card!ClusterLba(b, cluster) = Data!ClusterLba(b, cluster)
<1>1. \A R : Card!VolumeStart(R) = Data!VolumeStart(R)
  BY DEF Card!VolumeStart, Data!VolumeStart, Card!IsFat32, Data!IsFat32,
         Card!SelectInSeq, Data!SelectInSeq, Card!Min, Data!Min
<1>2. \A entries : Card!Decisive(entries) = Data!Decisive(entries)
  BY DEF Card!Decisive, Data!Decisive, Card!SelectInSeq, Data!SelectInSeq, Card!Min,
         Data!Min, Card!Decides, Data!Decides
<1>3. /\ \A fat, first, limit, ends :
           Card!Chain(fat, first, limit, ends) = Data!Chain(fat, first, limit, ends)
      /\ \A b, cluster : Card!ClusterLba(b, cluster) = Data!ClusterLba(b, cluster)
      /\ Card!FileEnds = Data!FileEnds /\ Card!DirectoryEnds = Data!DirectoryEnds
      /\ Card!Refused = Data!Refused
  BY DEF Card!Chain, Data!Chain, Card!FoldLeft, Data!FoldLeft, Card!MapThenFoldSet,
         Data!MapThenFoldSet, Card!Max, Data!Max, Card!Last, Data!Last, Card!ClusterLba,
         Data!ClusterLba, Card!FileEnds, Data!FileEnds, Card!DirectoryEnds,
         Data!DirectoryEnds, Card!Refused, Data!Refused
<1>4. /\ \A b, fat : Card!DirectorySectors(b, fat) = Data!DirectorySectors(b, fat)
      /\ \A R, b, fat : Card!Directory(R, b, fat) = Data!Directory(R, b, fat)
  <2>1. \A b, fat : Card!DirectorySectors(b, fat) = Data!DirectorySectors(b, fat)
    BY <1>3 DEF Card!DirectorySectors, Data!DirectorySectors
  <2>2. \A seqs : Card!FlattenSeq(seqs) = Data!FlattenSeq(seqs)
    BY DEF Card!FlattenSeq, Data!FlattenSeq
  <2> QED BY <2>1, <2>2 DEF Card!Directory, Data!Directory
<1>5. \A b, chain : Card!Extents(b, chain) = Data!Extents(b, chain)
  BY DEF Card!Extents, Data!Extents, Card!Merged, Data!Merged, Card!ClusterLba,
         Data!ClusterLba, Card!FoldLeft, Data!FoldLeft, Card!MapThenFoldSet,
         Data!MapThenFoldSet, Card!Max, Data!Max
<1>6. \A l : Card!TotalBlocks(l) = Data!TotalBlocks(l)
  BY DEF Card!TotalBlocks, Data!TotalBlocks, Card!FoldLeft, Data!FoldLeft,
         Card!MapThenFoldSet, Data!MapThenFoldSet, Card!Max, Data!Max
<1>7. \A R : Card!Consulted(R) = Data!Consulted(R)
  BY <1>1, <1>4 DEF Card!Consulted, Data!Consulted
<1>8. ASSUME NEW R PROVE Card!Locate(R) = Data!Locate(R)
  <2> DEFINE start == Data!VolumeStart(R)
             b == R[start]
             fat == R[b.fat_lba].next
             entries == Data!Directory(R, b, fat)
             entry == entries[Data!Decisive(entries)]
             limit == (entry.file_blocks \div b.sectors_per_cluster) + 2
             chain == Data!Chain(fat, entry.first_cluster, limit, Data!FileEnds)
             l == [extents |-> Data!Extents(b, chain)]
             Bad == \/ start < 0 \/ b.kind # "bpb"
                    \/ Data!Decisive(entries) = 0 \/ entry.kind = "end"
                    \/ entry.first_cluster < 2
                    \/ Len(l.extents) > MaxExtents
                    \/ Data!TotalBlocks(l) < MinBlocks
  <2>1. Data!Locate(R) = IF Bad THEN Data!Refused ELSE l
    BY DEF Data!Locate
  <2>2. /\ Card!VolumeStart(R) = start /\ Card!Directory(R, b, fat) = entries
        /\ Card!Decisive(entries) = Data!Decisive(entries)
        /\ Card!Chain(fat, entry.first_cluster, limit, Card!FileEnds) = chain
        /\ Card!Extents(b, chain) = Data!Extents(b, chain)
        /\ Card!TotalBlocks(l) = Data!TotalBlocks(l) /\ Card!Refused = Data!Refused
    BY <1>1, <1>2, <1>3, <1>4, <1>5, <1>6
  <2>3. Card!Locate(R) = IF Bad THEN Card!Refused ELSE l
    BY <2>2 DEF Card!Locate
  <2> QED BY <2>1, <2>2, <2>3
<1> QED BY <1>1, <1>2, <1>3, <1>4, <1>7, <1>8

(* The card and the driver.                                                *)
LEMMA SameCard ==
  /\ Card!volume = Data!volume /\ Card!Prepared = Data!Prepared
  /\ \A block : Card!LogBlock(block) = Data!LogBlock(block)
  /\ Card!Refused = Data!Refused /\ Card!Blank = Data!Blank
  /\ \A by, lba : Card!SectorOf(by, lba) = Data!SectorOf(by, lba)
  /\ \A l, block : Card!ToLba(l, block) = Data!ToLba(l, block)
  /\ Card!WriteStages = Data!WriteStages
  /\ \A reached, old, new : Card!Leaves(reached, old, new) = Data!Leaves(reached, old, new)
  /\ \A reached : Card!Acknowledges(reached) = Data!Acknowledges(reached)
<1>1. \A l, block : Card!ToLba(l, block) = Data!ToLba(l, block)
  BY DEF Card!ToLba, Data!ToLba, Card!FoldLeft, Data!FoldLeft, Card!MapThenFoldSet,
         Data!MapThenFoldSet, Card!Max, Data!Max
<1>2. \A by, lba : Card!SectorOf(by, lba) = Data!SectorOf(by, lba)
  BY DEF Card!SectorOf, Data!SectorOf, Card!Address, Data!Address
<1>3. \A reached, old, new : Card!Leaves(reached, old, new) = Data!Leaves(reached, old, new)
  BY DEF Card!Leaves, Data!Leaves, Card!Torn, Data!Torn
<1>4. \A reached : Card!Acknowledges(reached) = Data!Acknowledges(reached)
  BY DEF Card!Acknowledges, Data!Acknowledges
<1> QED BY <1>1, <1>2, <1>3, <1>4
  DEF Card!volume, Data!volume, Card!Prepared, Data!Prepared, Card!LogBlock,
      Data!LogBlock, Card!Refused, Data!Refused, Card!Blank, Data!Blank,
      Card!WriteStages, Data!WriteStages

(* The constants of the card.                                              *)
LEMMA SameAssumption ==
  Data!SdCardAssumption /\ Data!FatVolumeAssumption
<1>2. \A v, lba : Card!InFile(v, lba) = Data!InFile(v, lba)
  BY DEF Card!InFile, Data!InFile
<1>3. \A v : Card!Misread(v) = Data!Misread(v)
  BY SameCard DEF Card!Misread, Data!Misread
<1>4. ASSUME NEW v, Card!HoldsFile(v) PROVE Data!HoldsFile(v)
  <2> DEFINE b(start) == v.sectors[start]
             fat(start) == v.sectors[b(start).fat_lba].next
             spc(start) == b(start).sectors_per_cluster
             n == Len(v.clusters)
             Holds(start, entry, lba) ==
               /\ spc(start) \in Nat \ {0} /\ b(start).data_lba \in Nat
               /\ v.clusters \in Seq(Nat) /\ n > 0 /\ Len(v.file) = n * spc(start)
               /\ \A c \in 1 .. n, k \in 0 .. spc(start) - 1 :
                    v.file[(c - 1) * spc(start) + k + 1] = lba[c] + k
               /\ \A c \in 1 .. n :
                    /\ v.clusters[c] # EndOfChain
                    /\ fat(start)[v.clusters[c]]
                         = IF c = n THEN EndOfChain ELSE v.clusters[c + 1]
               /\ entry.first_cluster = v.clusters[1]
               /\ entry.file_blocks \in Nat /\ n <= (entry.file_blocks \div spc(start)) + 3
             start == Card!VolumeStart(v.sectors)
             entries == Card!Directory(v.sectors, b(start), fat(start))
             entry == entries[Card!Decisive(entries)]
             lba == [c \in 1 .. n |-> Card!ClusterLba(b(start), v.clusters[c])]
             start2 == Data!VolumeStart(v.sectors)
             entries2 == Data!Directory(v.sectors, b(start2), fat(start2))
             entry2 == entries2[Data!Decisive(entries2)]
             lba2 == [c \in 1 .. n |-> Data!ClusterLba(b(start2), v.clusters[c])]
  <2>1. start = start2
    BY SameLocate
  <2>2. entries = entries2
    <3> HIDE DEF start, start2
    <3> QED BY <2>1, SameLocate
  <2>3. entry = entry2
    <3> HIDE DEF entries, entries2
    <3> QED BY <2>2, SameLocate
  <2>4. lba = lba2
    <3> HIDE DEF start, start2
    <3> QED BY <2>1, SameLocate
  <2>5. Holds(start, entry, lba)
    BY <1>4 DEF Card!HoldsFile
  <2>6. Holds(start2, entry2, lba2)
    <3> HIDE DEF Holds, start, start2, entry, entry2, lba, lba2
    <3> QED BY <2>1, <2>3, <2>4, <2>5
  <2> QED BY <2>6 DEF Data!HoldsFile
<1>5. \A v : Card!IsPrepared(v) => Data!IsPrepared(v)
  BY <1>2, <1>3, <1>4, SameLocate, SameCard DEF Card!IsPrepared, Data!IsPrepared
<1> QED BY <1>5, BenchAssumption
  DEF Card!SdCardAssumption, Data!SdCardAssumption, Card!FatVolumeAssumption,
      Data!FatVolumeAssumption

(* The steps of the card.                                                  *)
LEMMA SameSteps == Card!Next => Data!Next
<1>1. \A by : Card!Seen(by) = Data!Seen(by)
  BY SameCard DEF Card!Seen, Data!Seen
<1>2. ASSUME NEW cmd0 \in BOOLEAN, NEW cmd8 \in BOOLEAN, NEW acmd41 \in BOOLEAN,
             NEW ocr_answered \in BOOLEAN, NEW cmd16 \in BOOLEAN,
             Card!Initialize(cmd0, cmd8, acmd41, ocr_answered, cmd16)
      PROVE  Data!Initialize(cmd0, cmd8, acmd41, ocr_answered, cmd16)
  BY <1>1, <1>2, SameCard, SameLocate
  DEF Card!Initialize, Data!Initialize, Card!Begin, Data!Begin, Card!HighCapacity,
      Data!HighCapacity
<1>3. Card!Restart => Data!Restart
  BY SameCard DEF Card!Restart, Data!Restart
<1>4. ASSUME NEW block, NEW reached, Card!WriteBlock(block, reached)
      PROVE  Data!WriteBlock(block, reached)
  BY <1>4, SameCard DEF Card!WriteBlock, Data!WriteBlock
<1> QED BY <1>2, <1>3, <1>4, SameCard DEF Card!Next, Data!Next

(* On the bench: no sector outside the log file changes, and an            *)
(* acknowledged block is in its own (fat_volume.cpp, sd_card.cpp,          *)
(* sd_logger.cpp).                                                         *)
THEOREM CardOnBench == Spec => []CardKept
<1>1. Init => Data!Init
  BY SameCard DEF Init, Card!Init, Data!Init
<1>2. [Next]_vars => [Data!Next]_(Data!vars)
  BY SameSteps DEF Next, vars, cardvars, Card!vars, Data!vars
<1>3. Data!CardKept => CardKept
  BY SameCard DEF Data!CardKept, CardKept, Card!CardKept
<1> QED BY <1>1, <1>2, <1>3, SameAssumption, Data!CardKeepsItsLog, PTL DEF Spec, Data!Spec

(* The card keeps its types.                                               *)
LEMMA CardTypedOnBench == Spec => []Card!TypeOK
<1>1. Init => Data!Init
  BY SameCard DEF Init, Card!Init, Data!Init
<1>2. [Next]_vars => [Data!Next]_(Data!vars)
  BY SameSteps DEF Next, vars, cardvars, Card!vars, Data!vars
<1>3. Data!TypeOK => Card!TypeOK
  BY SameCard DEF Data!TypeOK, Card!TypeOK
<1> QED BY <1>1, <1>2, <1>3, SameAssumption, Data!CardTypes, PTL DEF Spec, Data!Spec

-----------------------------------------------------------------------------
(* The bench: the component that runs keeps its types.                     *)
(* The components.                                                         *)
Units == {"faults", "gps", "heading", "link", "card", "budget", "station"}

(* One of them runs.                                                       *)
LEMMA UnitStays == Spec => [](unit \in Units)
<1>1. Init => unit \in Units
  BY DEF Init, Units
<1>2. unit \in Units /\ [Next]_vars => (unit \in Units)'
  BY DEF Next, vars, Units
<1> QED BY <1>1, <1>2, PTL DEF Spec

(* Every component keeps its types, the one that runs among them           *)
(* (fault_manager.cpp, gps_parser.cpp, orientation.cpp, framing.cpp,       *)
(* sd_card.cpp, config.cpp, validator.py).                                 *)
THEOREM BenchTyped == Spec => []TypeOK
<1>1. Spec => []Faults!TypeOK
  <2>1. Init => Faults!Init
    BY DEF Init
  <2>2. [Next]_vars => [Faults!Next]_(Faults!vars)
    BY DEF Next, vars, faults, Faults!vars
  <2> QED BY <2>1, <2>2, FaultsTyped, PTL DEF Spec, Faults!Spec
<1>2. Spec => []Position!TypeOK
  <2>1. Init => Position!Init
    BY DEF Init
  <2>2. [Next]_vars => [Position!Next]_(Position!vars)
    BY DEF Next, vars, position, Position!vars
  <2> QED BY <2>1, <2>2, PositionTyped, PTL DEF Spec, Position!Spec
<1>3. Spec => []Attitude!TypeOK
  <2>1. Init => Attitude!Init
    BY DEF Init
  <2>2. [Next]_vars => [Attitude!Next]_(Attitude!vars)
    BY DEF Next, vars, attitude, Attitude!vars, Attitude!estimator,
           Attitude!build, Attitude!sweep, Attitude!cog
  <2> QED BY <2>1, <2>2, HeadingTyped, PTL DEF Spec, Attitude!Spec
<1>4. Spec => []Budget!TypeOK
  <2>1. Init => Budget!Init
    BY DEF Init
  <2>2. [Next]_vars => [Budget!Next]_(Budget!vars)
    BY DEF Next, vars, budget, Budget!vars
  <2> QED BY <2>1, <2>2, AcceptedFlies, PTL DEF Spec, Budget!Spec
<1>5. Spec => []Station!TypeOK
  <2>1. Init => Station!Init
    BY DEF Init
  <2>2. [Next]_vars => [Station!Next]_(Station!vars)
    BY DEF Next, vars, station, Station!vars
  <2> QED BY <2>1, <2>2, StationTyped, PTL DEF Spec, Station!Spec
<1>6. /\ Faults!TypeOK /\ Position!TypeOK /\ Attitude!TypeOK /\ Budget!TypeOK
      /\ Station!TypeOK /\ Link!TypeOK /\ Card!TypeOK /\ unit \in Units
      => TypeOK
  BY DEF TypeOK, Units
<1> QED
  BY <1>1, <1>2, <1>3, <1>4, <1>5, <1>6, LinkTypedOnBench, CardTypedOnBench, UnitStays, PTL
=============================================================================
