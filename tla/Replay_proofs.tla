---------------------------- MODULE Replay_proofs ----------------------------
(***************************************************************************)
(* For every recording, whatever its time stamps, resampling reads only    *)
(* samples that exist, divides by no zero and stays on the recorded path;  *)
(* what is handed over is flyable, and it is what the tool has shown.      *)
(***************************************************************************)
EXTENDS Replay, SequenceTheorems, WellFoundedInduction, TLAPS

(* Rounding the k-th part of a down leaves k targets at or before a. *)
LEMMA TargetsInside ==
  ASSUME NEW a \in Nat, NEW d \in Nat \ {0}, NEW k \in Nat, k < a \div d + 1
  PROVE  k * d <= a
<1> DEFINE q == a \div d
<1>1. q \in Int /\ d * q <= a
  OBVIOUS
<1>2. k <= q
  OBVIOUS
<1>3. k * d <= q * d
  BY <1>1, <1>2
<1> QED
  BY <1>1, <1>3

(* The n-th of d parts of a distance is no longer than the distance. *)
LEMMA PartOfDistance ==
  ASSUME NEW n \in Int, NEW d \in Int, NEW D \in Int, 0 < n, n < d
  PROVE  /\ (n * D) \div d \in Int
         /\ D >= 0 => 0 <= (n * D) \div d /\ (n * D) \div d <= D
         /\ D <= 0 => D <= (n * D) \div d /\ (n * D) \div d <= 0
<1> DEFINE q == (n * D) \div d
<1>1. n * D \in Int
  OBVIOUS
<1>2. q \in Int /\ d * q <= n * D /\ n * D < d * q + d
  BY <1>1
<1>3. CASE D >= 0
  <2>1. 0 <= n * D /\ n * D <= d * D
    BY <1>3
  <2>2. 0 <= q
    <3>1. SUFFICES ASSUME q <= -1 PROVE FALSE
      BY <1>2
    <3>2. d * q <= d * (-1)
      BY <1>2, <3>1
    <3> QED
      BY <1>2, <2>1, <3>2
  <2>3. q <= D
    <3>1. SUFFICES ASSUME q >= D + 1 PROVE FALSE
      BY <1>2
    <3>2. d * q >= d * (D + 1)
      BY <1>2, <3>1
    <3> QED
      BY <1>2, <2>1, <3>2
  <2> QED
    BY <1>2, <1>3, <2>2, <2>3
<1>4. CASE D <= 0
  <2>1. n * D <= 0 /\ d * D <= n * D
    BY <1>4
  <2>2. q <= 0
    <3>1. SUFFICES ASSUME q >= 1 PROVE FALSE
      BY <1>2
    <3>2. d * q >= d
      BY <1>2, <3>1
    <3> QED
      BY <1>2, <2>1, <3>2
  <2>3. D <= q
    <3>1. SUFFICES ASSUME q <= D - 1 PROVE FALSE
      BY <1>2
    <3>2. d * q <= d * (D - 1)
      BY <1>2, <3>1
    <3> QED
      BY <1>2, <2>1, <3>2
  <2> QED
    BY <1>2, <1>4, <2>2, <2>3
<1> QED
  BY <1>2, <1>3, <1>4

(* An interpolated coordinate lies between the two it is made of. *)
LEMMA BetweenInHull ==
  ASSUME NEW a \in Coordinates, NEW b \in Coordinates,
         NEW n \in Int, NEW d \in Int, 0 < n, n < d
  PROVE  /\ Between(a, b, n, d) \in Coordinates
         /\ InHull(Between(a, b, n, d), a, b)
<1>1. CASE NonFinite \in {a, b}
  BY <1>1 DEF Between, InHull, Coordinates
<1>2. CASE NonFinite \notin {a, b}
  <2>1. a \in Int /\ b \in Int /\ b - a \in Int
    BY <1>2 DEF Coordinates
  <2> DEFINE q == (n * (b - a)) \div d
  <2>2. /\ q \in Int
        /\ b - a >= 0 => 0 <= q /\ q <= b - a
        /\ b - a <= 0 => b - a <= q /\ q <= 0
    BY <2>1, PartOfDistance
  <2>3. Between(a, b, n, d) = a + q
    BY <1>2 DEF Between
  <2> HIDE DEF q
  <2>4. a + q \in Int
    BY <2>1, <2>2
  <2>5. (a <= a + q /\ a + q <= b) \/ (b <= a + q /\ a + q <= a)
    BY <2>1, <2>2
  <2> QED
    BY <1>2, <2>3, <2>4, <2>5 DEF InHull, Coordinates
<1> QED
  BY <1>1, <1>2

-----------------------------------------------------------------------------
(* The actions *)

LEMMA RecordedTimes ==
  ASSUME NEW s \in Seq(Recorded)
  PROVE  \A i \in 1..Len(s) : s[i] \in Recorded /\ s[i].elapsed_us \in Nat
<1> SUFFICES ASSUME NEW i \in 1..Len(s)
             PROVE  s[i] \in Recorded /\ s[i].elapsed_us \in Nat
  OBVIOUS
<1>1. s[i] \in Recorded
  OBVIOUS
<1>2. s[i].elapsed_us \in 0..(WordSize - 1)
  BY <1>1 DEF Recorded
<1>3. WordSize \in Nat
  BY ReplayAssumption
<1> QED
  BY <1>1, <1>2, <1>3

LEMMA InitEstablishes == Init => IndInv
BY ReplayAssumption
   DEF Init, IndInv, TypeOK, SearchInv, OnRecordedPath, Recorded, Resampled

(* Giving up frees both trajectories. *)
LEMMA RejectPreserves ==
  ASSUME IndInv, Reject
  PROVE  IndInv'
BY DEF IndInv, TypeOK, SearchInv, OnRecordedPath, Reject, context

LEMMA LoadLogPreserves ==
  ASSUME IndInv, LoadLog
  PROVE  IndInv'
BY DEF IndInv, TypeOK, SearchInv, OnRecordedPath, Supported, LoadLog, context

LEMMA LoadFailsPreserves ==
  ASSUME IndInv, LoadFails
  PROVE  IndInv'
<1>1. CASE Reject
  BY <1>1, RejectPreserves
<1>2. CASE ~Reject
  <2>1. PICK n \in 0..Len(recording) : local_positions' = SubSeq(recording, 1, n)
    BY <1>2 DEF LoadFails
  <2>2. local_positions' \in Seq(Positions)
    BY <2>1 DEF IndInv, TypeOK
  <2> QED
    BY <1>2, <2>2
       DEF IndInv, TypeOK, SearchInv, OnRecordedPath, Supported, LoadFails, context
<1> QED
  BY <1>1, <1>2

(* The trajectory that was shown is kept; everything else starts over. *)
LEMMA FlyPreviewedPreserves ==
  ASSUME IndInv, FlyPreviewed
  PROVE  IndInv'
BY ReplayAssumption
   DEF IndInv, TypeOK, SearchInv, OnRecordedPath, Supported, FlyPreviewed

LEMMA FromFlightDataPreserves ==
  ASSUME IndInv, FromFlightData
  PROVE  IndInv'
<1> USE DEF IndInv, FromFlightData, context
<1>1. /\ local_positions \in Seq(Positions) /\ local_positions # <<>>
      /\ output = <<>> /\ output' = <<>> /\ upper = 1 /\ upper' = 1
      /\ phase' = "resample"
      /\ trajectory' = RelativeTrajectory(local_positions)
  BY DEF TypeOK, SearchInv
<1> DEFINE p == local_positions
<1>2. /\ Len(p) \in Nat \ {0}
      /\ DOMAIN p = 1..Len(p)
      /\ \A i \in 1..Len(p) : p[i] \in Positions
  BY <1>1
<1>3. /\ WordSize \in Nat \ {0}
      /\ \A i \in 1..Len(p) :
           (p[i].timestamp_us - p[1].timestamp_us) % WordSize
             \in 0..(WordSize - 1)
  BY <1>2, ReplayAssumption DEF Positions
<1>4. \A i \in 1..Len(p) :
        /\ Minus(p[i].x, p[1].x) \in Coordinates
        /\ Minus(p[i].z, p[1].z) \in Coordinates
  BY <1>2, ReplayAssumption DEF Positions, Minus, Coordinates
<1>5. trajectory' \in Seq(Recorded) /\ Len(trajectory') = Len(p)
  BY <1>1, <1>2, <1>3, <1>4 DEF RelativeTrajectory, Recorded
<1>6. trajectory'[1].elapsed_us = 0
  BY <1>1, <1>2, <1>3 DEF RelativeTrajectory, Positions
<1>7. trajectory'[Len(trajectory')].elapsed_us \in Nat
  BY <1>2, <1>5, RecordedTimes
<1>8. TypeOK'
  BY <1>1, <1>5 DEF TypeOK
<1>9. SearchInv'
  BY <1>1, <1>2, <1>5, <1>6, <1>7, ReplayAssumption DEF SearchInv, Target
<1>10. OnRecordedPath'
  BY <1>1 DEF OnRecordedPath
<1> QED
  BY <1>8, <1>9, <1>10

LEMMA AdvancePreserves ==
  ASSUME IndInv, Advance
  PROVE  IndInv'
<1> USE DEF IndInv, Advance, context
<1>1. /\ upper \in Nat \ {0} /\ upper' = upper + 1
      /\ upper <= Len(trajectory)
      /\ trajectory[upper].elapsed_us < Target
      /\ trajectory \in Seq(Recorded)
  BY DEF TypeOK, Searching
<1>2. TypeOK'
  BY DEF TypeOK
<1>3. SearchInv'
  BY <1>1 DEF SearchInv, Target, OutputCount
<1>4. OnRecordedPath'
  BY DEF OnRecordedPath, Supported
<1> QED
  BY <1>2, <1>3, <1>4

(* The heart of the argument: when the inner loop stops it has found a      *)
(* bracket of the target time, because the last sample is not before it.   *)
LEMMA BracketFound ==
  ASSUME IndInv
  PROVE  BracketExists
<1> SUFFICES ASSUME phase = "resample", Len(output) < OutputCount(trajectory), ~Searching
             PROVE  /\ upper <= Len(trajectory)
                    /\ ~Exact =>
                         /\ upper > 1
                         /\ trajectory[upper - 1].elapsed_us < Target
                         /\ Target < trajectory[upper].elapsed_us
  BY DEF BracketExists
<1>1. /\ trajectory \in Seq(Recorded) /\ trajectory # <<>>
      /\ output \in Seq(Resampled)
      /\ upper \in Nat \ {0} /\ upper <= Len(trajectory) + 1
      /\ upper > 1 => trajectory[upper - 1].elapsed_us < Target
      /\ Target <= trajectory[Len(trajectory)].elapsed_us
      /\ trajectory[1].elapsed_us = 0
  BY DEF IndInv, TypeOK, SearchInv
<1>2. /\ Len(trajectory) \in Nat \ {0}
      /\ \A i \in 1..Len(trajectory) : trajectory[i].elapsed_us \in Nat
  BY <1>1, RecordedTimes
<1>3. Len(output) \in Nat /\ Target \in Nat
  BY <1>1, ReplayAssumption DEF Target
<1>4. upper <= Len(trajectory)
  <2> SUFFICES ASSUME upper = Len(trajectory) + 1 PROVE FALSE
    BY <1>1, <1>2
  <2>1. trajectory[Len(trajectory)].elapsed_us < Target
    BY <1>1, <1>2
  <2> QED
    BY <1>1, <1>2, <1>3, <2>1
<1>5. ~(trajectory[upper].elapsed_us < Target)
  BY <1>4 DEF Searching
<1>6. ASSUME ~Exact
      PROVE  upper > 1 /\ Target < trajectory[upper].elapsed_us
  BY <1>1, <1>2, <1>3, <1>4, <1>5, <1>6 DEF Exact
<1> QED
  BY <1>1, <1>4, <1>6

LEMMA SamplePreserves ==
  ASSUME IndInv, Sample
  PROVE  IndInv'
<1> USE DEF IndInv, Sample, context
<1>1. /\ phase = "resample" /\ phase' = "resample"
      /\ trajectory' = trajectory /\ upper' = upper
      /\ trajectory \in Seq(Recorded) /\ trajectory # <<>>
      /\ output \in Seq(Resampled)
      /\ upper \in Nat \ {0}
      /\ checked \in Nat /\ checked' = checked
      /\ Len(output) < OutputCount(trajectory)
  BY DEF TypeOK, SearchInv
<1>2. BracketExists
  BY BracketFound
<1>3. /\ upper \in 1..Len(trajectory)
      /\ ~Exact =>
           /\ upper - 1 \in 1..Len(trajectory)
           /\ upper \in 2..Len(trajectory)
           /\ trajectory[upper - 1].elapsed_us < Target
           /\ Target < trajectory[upper].elapsed_us
  BY <1>1, <1>2 DEF BracketExists
<1> DEFINE a == trajectory[upper - 1]
           b == trajectory[upper]
           p == IF Exact THEN b ELSE Interpolated(Target, a, b)
<1>4. Target \in Nat
  BY <1>1, ReplayAssumption DEF Target
<1>5. p \in Resampled /\ p.elapsed_us = Target /\ Supported(p)
  <2>1. CASE Exact
    <3>1. b \in Recorded
      BY <1>1, <1>3
    <3>2. b \in Resampled
      BY <3>1, ReplayAssumption DEF Recorded, Resampled
    <3>3. b.elapsed_us = Target
      BY <2>1 DEF Exact
    <3>4. Supported(b)
      BY <1>1, <1>3 DEF Supported
    <3> QED
      BY <2>1, <3>2, <3>3, <3>4
  <2>2. CASE ~Exact
    <3>1. a \in Recorded /\ b \in Recorded
      BY <1>1, <1>3, <2>2
    <3>2. /\ a.elapsed_us \in Nat /\ b.elapsed_us \in Nat
          /\ a.x \in Coordinates /\ b.x \in Coordinates
          /\ a.z \in Coordinates /\ b.z \in Coordinates
      BY <3>1 DEF Recorded
    <3> DEFINE n == Target - a.elapsed_us
               d == b.elapsed_us - a.elapsed_us
    <3>3. n \in Int /\ d \in Int /\ 0 < n /\ n < d
      BY <1>3, <1>4, <2>2, <3>2
    <3> HIDE DEF n, d
    <3>4. /\ Between(a.x, b.x, n, d) \in Coordinates
          /\ InHull(Between(a.x, b.x, n, d), a.x, b.x)
          /\ Between(a.z, b.z, n, d) \in Coordinates
          /\ InHull(Between(a.z, b.z, n, d), a.z, b.z)
      BY <3>2, <3>3, BetweenInHull
    <3>5. p = [elapsed_us |-> Target,
               x |-> Between(a.x, b.x, n, d), z |-> Between(a.z, b.z, n, d)]
      BY <2>2 DEF Interpolated, n, d
    <3> HIDE DEF p
    <3>6. p \in Resampled /\ p.elapsed_us = Target
      BY <1>4, <3>4, <3>5 DEF Resampled
    <3>7. Supported(p)
      BY <1>3, <2>2, <3>4, <3>5 DEF Supported
    <3> QED
      BY <3>6, <3>7
  <2> QED
    BY <2>1, <2>2
<1>6. output' = Append(output, p)
  BY <1>1
<1> HIDE DEF p
<1>7. output' \in Seq(Resampled) /\ Len(output') = Len(output) + 1
  BY <1>1, <1>5, <1>6
<1>8. TypeOK'
  BY <1>1, <1>7 DEF TypeOK
<1>9. SearchInv'
  <2> DEFINE last == trajectory[Len(trajectory)].elapsed_us
             count == last \div Interval + 1
  <2>1. last \in Nat
    BY <1>1, RecordedTimes
  <2>2. Len(output') < count => Len(output') * Interval <= last
    <3>1. Len(output') \in Nat /\ Interval \in Nat \ {0}
      BY <1>1, <1>7, ReplayAssumption
    <3> HIDE DEF last
    <3> QED
      BY <2>1, <3>1, TargetsInside
  <2>3. Len(output) * Interval <= Len(output') * Interval
    BY <1>1, <1>7, ReplayAssumption
  <2>4. upper > 1 =>
          trajectory[upper - 1].elapsed_us < Len(output') * Interval
    <3> SUFFICES ASSUME upper > 1
                 PROVE  trajectory[upper - 1].elapsed_us < Len(output') * Interval
      OBVIOUS
    <3>1. trajectory[upper - 1].elapsed_us \in Nat
      BY <1>1, <1>3, RecordedTimes
    <3>2. trajectory[upper - 1].elapsed_us < Len(output) * Interval
      BY <1>1 DEF SearchInv, Target
    <3>3. Len(output) * Interval \in Nat /\ Len(output') * Interval \in Nat
      BY <1>1, <1>7, ReplayAssumption
    <3> QED
      BY <2>3, <3>1, <3>2, <3>3
  <2> QED
    BY <1>1, <1>3, <2>2, <2>4 DEF SearchInv, Target, OutputCount
<1>10. OnRecordedPath'
  <2> SUFFICES ASSUME NEW i \in DOMAIN output'
               PROVE  /\ output'[i].elapsed_us = (i - 1) * Interval
                      /\ Supported(output[i])'
    BY DEF OnRecordedPath
  <2>1. i \in 1..(Len(output) + 1)
    BY <1>7
  <2>2. CASE i <= Len(output)
    <3>1. i \in DOMAIN output /\ output'[i] = output[i]
      BY <1>1, <1>6, <2>1, <2>2
    <3>2. /\ output[i].elapsed_us = (i - 1) * Interval
          /\ Supported(output[i])
      BY <1>1, <3>1 DEF OnRecordedPath
    <3> QED
      BY <1>1, <3>1, <3>2 DEF Supported
  <2>3. CASE i = Len(output) + 1
    <3>1. output'[i] = p
      BY <1>1, <1>5, <1>6, <2>3
    <3>2. p.elapsed_us = (i - 1) * Interval
      BY <1>1, <1>5, <2>3 DEF Target
    <3> QED
      BY <1>1, <1>5, <3>1, <3>2 DEF Supported
  <2> QED
    BY <1>1, <2>1, <2>2, <2>3
<1> QED
  BY <1>8, <1>9, <1>10

LEMMA NextPreserves == IndInv /\ [Next]_vars => IndInv'
<1> SUFFICES ASSUME IndInv, [Next]_vars
             PROVE  IndInv'
  OBVIOUS
<1>1. CASE FromFlightData
  BY <1>1, FromFlightDataPreserves
<1>2. CASE PreparationFails
  BY <1>2, RejectPreserves DEF PreparationFails
<1>3. CASE Advance
  BY <1>3, AdvancePreserves
<1>4. CASE Sample
  BY <1>4, SamplePreserves
<1>5. CASE StartValidate
  <2>1. CASE Reject
    BY <2>1, RejectPreserves
  <2>2. CASE ~Reject
    <3>1. /\ phase = "resample" /\ phase' = "validate" /\ checked' = checked
          /\ UNCHANGED <<local_positions, trajectory, output, upper>>
          /\ UNCHANGED <<context, exit_status>>
      BY <1>5, <2>2 DEF StartValidate, data
    <3>2. checked = 0
      BY <3>1 DEF IndInv, SearchInv
    <3> QED
      BY <3>1, <3>2
         DEF context, IndInv, TypeOK, SearchInv, OnRecordedPath, Supported
  <2> QED
    BY <2>1, <2>2
<1>6. CASE Validate
  <2>1. CASE Reject
    BY <2>1, RejectPreserves
  <2>2. CASE ~Reject
    <3>1. /\ phase = "validate" /\ phase' = "validate"
          /\ checked < Len(output) /\ checked' = checked + 1
          /\ UNCHANGED <<context, exit_status>>
          /\ UNCHANGED <<local_positions, trajectory, output, upper>>
      BY <1>6, <2>2 DEF Validate
    <3>2. checked \in Nat /\ Len(output) \in Nat
      BY DEF IndInv, TypeOK
    <3>3. TypeOK'
      BY <3>1, <3>2 DEF context, IndInv, TypeOK
    <3>4. SearchInv' /\ OnRecordedPath'
      BY <3>1 DEF IndInv, SearchInv, OnRecordedPath, Supported
    <3> QED
      BY <3>3, <3>4 DEF IndInv
  <2> QED
    BY <2>1, <2>2
<1>7. CASE Finish
  <2>1. CASE Reject
    BY <2>1, RejectPreserves
  <2>2. CASE ~Reject
    BY <1>7, <2>2
       DEF Finish, context, data, IndInv, TypeOK, SearchInv, OnRecordedPath, Supported
  <2> QED
    BY <2>1, <2>2
<1>8. CASE Done \/ UNCHANGED vars
  BY <1>8
     DEF Done, vars, context, data, IndInv, TypeOK, SearchInv, OnRecordedPath, Supported, Target,
         OutputCount
<1>9. CASE LoadLog \/ LoadFails \/ FlyPreviewed
  BY <1>9, LoadLogPreserves, LoadFailsPreserves, FlyPreviewedPreserves
<1> QED
  BY <1>1, <1>2, <1>3, <1>4, <1>5, <1>6, <1>7, <1>8, <1>9 DEF Next

-----------------------------------------------------------------------------
(* The results *)

(* The invariant holds of every state that preparation can reach.           *)
THEOREM PreparationInvariant == Spec => []IndInv
<1>1. Init => IndInv
  BY InitEstablishes
<1>2. IndInv /\ [Next]_vars => IndInv'
  BY NextPreserves
<1> QED
  BY <1>1, <1>2, PTL DEF Spec

(* Resampling never reads past the recorded samples and never divides by a  *)
(* time of zero, whatever the order of the recorded time stamps.           *)
THEOREM ResamplingInBounds == Spec => []BracketExists
<1>1. IndInv => BracketExists
  BY BracketFound
<1> QED
  BY <1>1, PreparationInvariant, PTL

(* Everything that is flown was recorded or lies between two consecutive    *)
(* recorded samples.                                                       *)
THEOREM FlownWasRecorded == Spec => []OnRecordedPath
<1>1. IndInv => OnRecordedPath
  BY DEF IndInv
<1> QED
  BY <1>1, PreparationInvariant, PTL

(* Every variable of the preparation stays in its range. *)
THEOREM PreparationTypeCorrect == Spec => []TypeOK
<1>1. IndInv => TypeOK
  BY DEF IndInv
<1> QED
  BY <1>1, PreparationInvariant, PTL

-----------------------------------------------------------------------------
(* Speed: what holds between neighbours holds between any two samples *)

(* The sum of two ways of lengths at most M and N is at most M + N long.    *)
LEMMA WaysAdd ==
  ASSUME NEW a \in Int, NEW b \in Int, NEW c \in Int, NEW d \in Int,
         NEW M \in Nat, NEW N \in Nat,
         a * a + b * b <= M * M, c * c + d * d <= N * N
  PROVE  (a + c) * (a + c) + (b + d) * (b + d) <= (M + N) * (M + N)
<1> DEFINE p == a * a + b * b
           q == c * c + d * d
           r == a * c + b * d
           s == a * d - b * c
           MM == M * M
           NN == N * N
           MN == M * N
<1>1. /\ p \in Nat /\ q \in Nat /\ r \in Int /\ MM \in Nat /\ NN \in Nat
      /\ MN \in Nat /\ s \in Int /\ s * s >= 0
  OBVIOUS
<1>2. p * q = r * r + s * s
  OBVIOUS
<1>3. MM * NN = MN * MN
  OBVIOUS
<1>4. (a + c) * (a + c) + (b + d) * (b + d) = p + 2 * r + q
  OBVIOUS
<1>5. (M + N) * (M + N) = MM + 2 * MN + NN
  OBVIOUS
<1>6. p <= MM /\ q <= NN
  OBVIOUS
<1> HIDE DEF p, q, r, s, MM, NN, MN
<1>7. p * q <= MM * NN
  <2>1. p * q <= MM * q
    BY <1>1, <1>6
  <2>2. MM * q <= MM * NN
    BY <1>1, <1>6
  <2> QED
    BY <1>1, <2>1, <2>2
<1>8. r * r <= MN * MN
  <2>1. s * s \in Int /\ r * r \in Int /\ p * q \in Int /\ MN * MN \in Int
    BY <1>1
  <2> QED
    BY <1>1, <1>2, <1>3, <1>7, <2>1
<1>9. r <= MN
  <2> SUFFICES ASSUME r >= MN + 1 PROVE FALSE
    BY <1>1
  <2>1. r * r >= r * (MN + 1)
    BY <1>1
  <2>2. r * (MN + 1) >= (MN + 1) * (MN + 1)
    BY <1>1
  <2>3. (MN + 1) * (MN + 1) = MN * MN + 2 * MN + 1
    BY <1>1
  <2> QED
    BY <1>1, <1>8, <2>1, <2>2, <2>3
<1> QED
  BY <1>1, <1>4, <1>5, <1>6, <1>9

(* Samples with finite coordinates *)
FinitePoint(p) == p.elapsed_us \in Nat /\ p.x \in Int /\ p.z \in Int

LEMMA SlowEnoughAdds ==
  ASSUME NEW p, NEW q, NEW r, FinitePoint(p), FinitePoint(q), FinitePoint(r),
         p.elapsed_us <= q.elapsed_us, q.elapsed_us <= r.elapsed_us,
         SlowEnough(p, q), SlowEnough(q, r)
  PROVE  SlowEnough(p, r)
<1> DEFINE a == q.x - p.x
           b == q.z - p.z
           c == r.x - q.x
           d == r.z - q.z
           m == q.elapsed_us - p.elapsed_us
           n == r.elapsed_us - q.elapsed_us
<1>0. /\ p.elapsed_us \in Nat /\ q.elapsed_us \in Nat /\ r.elapsed_us \in Nat
      /\ p.x \in Int /\ q.x \in Int /\ r.x \in Int
      /\ p.z \in Int /\ q.z \in Int /\ r.z \in Int
  BY DEF FinitePoint
<1>1. /\ a \in Int /\ b \in Int /\ c \in Int /\ d \in Int
      /\ m \in Nat /\ n \in Nat /\ Speed \in Nat
      /\ r.x - p.x = a + c /\ r.z - p.z = b + d
      /\ r.elapsed_us - p.elapsed_us = m + n
  <2>1. Speed \in Nat
    BY ReplayAssumption
  <2>2. m \in Nat /\ n \in Nat /\ r.elapsed_us - p.elapsed_us = m + n
    BY <1>0
  <2>3. /\ a \in Int /\ b \in Int /\ c \in Int /\ d \in Int
        /\ r.x - p.x = a + c /\ r.z - p.z = b + d
    BY <1>0
  <2> QED
    BY <2>1, <2>2, <2>3
<1>2. /\ a * a + b * b <= (Speed * m) * (Speed * m)
      /\ c * c + d * d <= (Speed * n) * (Speed * n)
  BY DEF SlowEnough
<1>3. SlowEnough(p, r) <=>
        (r.x - p.x) * (r.x - p.x) + (r.z - p.z) * (r.z - p.z)
          <= (Speed * (r.elapsed_us - p.elapsed_us))
               * (Speed * (r.elapsed_us - p.elapsed_us))
  BY DEF SlowEnough
<1> HIDE DEF a, b, c, d, m, n
<1>4. /\ Speed * m \in Nat /\ Speed * n \in Nat
      /\ Speed * (m + n) = Speed * m + Speed * n
  BY <1>1
<1>5. (a + c) * (a + c) + (b + d) * (b + d)
        <= (Speed * m + Speed * n) * (Speed * m + Speed * n)
  BY <1>1, <1>2, <1>4, WaysAdd
<1> QED
  BY <1>1, <1>3, <1>4, <1>5

(* Validated step by step, slow enough over any number of steps. *)
LEMMA SlowThroughout ==
  ASSUME NEW s \in Seq(Resampled),
         \A i \in DOMAIN s : s[i].elapsed_us = (i - 1) * Interval,
         \A i \in DOMAIN s : Acceptable(s, i)
  PROVE  \A i, j \in DOMAIN s : i < j => SlowEnough(s[i], s[j])
<1> SUFFICES ASSUME NEW i \in DOMAIN s, NEW l \in DOMAIN s, i < l,
                    ~SlowEnough(s[i], s[l])
             PROVE  FALSE
  OBVIOUS
<1>1. Len(s) \in Nat /\ DOMAIN s = 1..Len(s) /\ i \in Nat
  OBVIOUS
<1> DEFINE D == {j \in DOMAIN s : i < j /\ ~SlowEnough(s[i], s[j])}
<1>2. D \subseteq Nat /\ D # {}
  BY <1>1
<1>3. PICK j \in D : \A e \in D : ~(<<e, j>> \in OpToRel(<, Nat))
  BY <1>2, WFMin, NatLessThanWellFounded, Zenon
<1>4. /\ j \in 1..Len(s) /\ i < j /\ j \in Nat
      /\ ~SlowEnough(s[i], s[j])
  BY <1>1
<1>5. j - 1 \in DOMAIN s /\ j - 1 \in Nat /\ i <= j - 1 /\ j > 1
  BY <1>1, <1>4
<1>6. \A k \in DOMAIN s : FinitePoint(s[k])
  <2> SUFFICES ASSUME NEW k \in DOMAIN s PROVE FinitePoint(s[k])
    OBVIOUS
  <2>1. s[k] \in Resampled /\ IsFinite(s[k])
    BY DEF Acceptable
  <2> QED
    BY <2>1 DEF Resampled, FinitePoint, IsFinite, Coordinates
<1>7. SlowEnough(s[j - 1], s[j]) /\ s[j].elapsed_us > s[j - 1].elapsed_us
  BY <1>1, <1>4, <1>5 DEF Acceptable
<1>8. i # j - 1
  BY <1>4, <1>7
<1>9. SlowEnough(s[i], s[j - 1])
  <2> SUFFICES ASSUME ~SlowEnough(s[i], s[j - 1]) PROVE FALSE
    OBVIOUS
  <2>1. j - 1 \in D
    BY <1>5, <1>8
  <2>2. <<j - 1, j>> \in OpToRel(<, Nat)
    BY <1>4, <1>5 DEF OpToRel
  <2> QED
    BY <1>3, <2>1, <2>2
<1>10. s[i].elapsed_us <= s[j - 1].elapsed_us
  <2>1. i - 1 \in Nat /\ j - 2 \in Nat /\ i - 1 <= j - 2 /\ Interval \in Nat
    BY <1>1, <1>5, ReplayAssumption
  <2>2. (i - 1) * Interval <= (j - 2) * Interval
    BY <2>1
  <2> QED
    BY <1>5, <2>2
<1> QED
  BY <1>4, <1>5, <1>6, <1>7, <1>9, <1>10, SlowEnoughAdds DEF FinitePoint

-----------------------------------------------------------------------------
(* What is resampled depends on the recording only *)

(* There is one first sample that is not before the target time. *)
LEMMA ResamplesOnce ==
  ASSUME NEW t \in Seq(Recorded), NEW i \in Nat \ {0},
         NEW p, Resamples(t, i, p), NEW q, Resamples(t, i, q)
  PROVE  p = q
<1> DEFINE T == (i - 1) * Interval
           made(u) == IF t[u].elapsed_us = T THEN t[u]
                      ELSE Interpolated(T, t[u - 1], t[u])
<1>1. PICK u \in DOMAIN t : /\ \A j \in 1..(u - 1) : t[j].elapsed_us < T
                           /\ t[u].elapsed_us >= T
                           /\ p = made(u)
  BY DEF Resamples
<1>2. PICK v \in DOMAIN t : /\ \A j \in 1..(v - 1) : t[j].elapsed_us < T
                           /\ t[v].elapsed_us >= T
                           /\ q = made(v)
  BY DEF Resamples
<1>3. /\ u \in 1..Len(t) /\ v \in 1..Len(t) /\ Len(t) \in Nat
      /\ t[u].elapsed_us \in Nat /\ t[v].elapsed_us \in Nat
      /\ T \in Int
  BY RecordedTimes, ReplayAssumption
<1> HIDE DEF made, T
<1>4. ~(u < v) /\ ~(v < u)
  <2>1. u < v => u \in 1..(v - 1)
    BY <1>3
  <2>2. v < u => v \in 1..(u - 1)
    BY <1>3
  <2> QED
    BY <1>1, <1>2, <1>3, <2>1, <2>2
<1>5. u = v
  BY <1>3, <1>4
<1> QED
  BY <1>1, <1>2, <1>5

(* The first sample is the first recorded one, which is the origin. *)
LEMMA StartsAtOrigin ==
  ASSUME NEW r \in Seq(Positions), r # <<>>,
         RelativeTrajectory(r) \in Seq(Recorded),
         NEW p, Resamples(RelativeTrajectory(r), 1, p)
  PROVE  p.x \in {0, NonFinite} /\ p.z \in {0, NonFinite}
<1> DEFINE t == RelativeTrajectory(r)
<1>1. /\ Len(r) \in Nat \ {0} /\ DOMAIN t = 1..Len(r) /\ 1 \in DOMAIN t
      /\ r[1] \in Positions
      /\ t[1] = [elapsed_us |-> (r[1].timestamp_us - r[1].timestamp_us) % WordSize,
                 x |-> Minus(r[1].x, r[1].x), z |-> Minus(r[1].z, r[1].z)]
  BY DEF RelativeTrajectory
<1>2. t[1].elapsed_us = 0
  <2>1. WordSize \in Nat \ {0} /\ r[1].timestamp_us \in Int
    BY <1>1, ReplayAssumption DEF Positions
  <2>2. (r[1].timestamp_us - r[1].timestamp_us) % WordSize = 0
    BY <2>1
  <2> QED
    BY <1>1, <2>2
<1>3. t[1].x \in {0, NonFinite} /\ t[1].z \in {0, NonFinite}
  <2>1. r[1].x \in Coordinates /\ r[1].z \in Coordinates
    BY <1>1 DEF Positions
  <2> QED
    BY <1>1, <2>1 DEF Minus, Coordinates
<1> HIDE DEF t
<1>4. (1 - 1) * Interval = 0
  BY ReplayAssumption
<1>5. PICK u \in DOMAIN t :
        /\ \A j \in 1..(u - 1) : t[j].elapsed_us < 0
        /\ p = IF t[u].elapsed_us = 0 THEN t[u]
               ELSE Interpolated(0, t[u - 1], t[u])
  BY <1>4 DEF Resamples, t
<1>6. u = 1
  <2> SUFFICES ASSUME u # 1 PROVE FALSE
    OBVIOUS
  <2>1. 1 \in 1..(u - 1)
    BY <1>1, <1>5
  <2> QED
    BY <1>2, <1>5, <2>1
<1> QED
  BY <1>2, <1>3, <1>5, <1>6

(* Two outputs of one trajectory agree as far as both go. *)
LEMMA PreparedAlike ==
  ASSUME NEW t \in Seq(Recorded), NEW a \in Seq(Resampled), NEW b \in Seq(Resampled),
         Prepared(a, t), Prepared(b, t), Len(a) <= Len(b)
  PROVE  a = SubSeq(b, 1, Len(a)) /\ (Len(a) = Len(b) => a = b)
<1>1. Len(a) \in Nat /\ Len(b) \in Nat
  OBVIOUS
<1>2. \A i \in 1..Len(a) : a[i] = b[i]
  <2> SUFFICES ASSUME NEW i \in 1..Len(a) PROVE a[i] = b[i]
    OBVIOUS
  <2>1. i \in DOMAIN a /\ i \in DOMAIN b /\ i \in Nat \ {0}
    BY <1>1
  <2>2. Resamples(t, i, a[i]) /\ Resamples(t, i, b[i])
    BY <2>1 DEF Prepared
  <2> QED
    BY <2>1, <2>2, ResamplesOnce
<1>3. /\ SubSeq(b, 1, Len(a)) \in Seq(Resampled)
      /\ Len(SubSeq(b, 1, Len(a))) = Len(a)
      /\ \A i \in 1..Len(a) : SubSeq(b, 1, Len(a))[i] = b[i]
  BY <1>1, SubSeqProperties
<1>4. a = SubSeq(b, 1, Len(a))
  BY <1>1, <1>2, <1>3, SeqEqual
<1>5. ASSUME Len(a) = Len(b) PROVE a = b
  BY <1>1, <1>2, <1>5, SeqEqual
<1> QED
  BY <1>4, <1>5

LEMMA CountPositive ==
  ASSUME NEW t \in Seq(Recorded), t # <<>>
  PROVE  OutputCount(t) \in Nat \ {0}
<1>1. Len(t) \in 1..Len(t) /\ Interval \in Nat \ {0}
  BY ReplayAssumption
<1>2. t[Len(t)].elapsed_us \in Nat
  BY <1>1, RecordedTimes
<1> DEFINE e == t[Len(t)].elapsed_us
<1> HIDE DEF e
<1>3. e \div Interval \in Nat
  BY <1>1, <1>2 DEF e
<1> QED
  BY <1>3 DEF OutputCount, e

LEMMA AcceptedSamples ==
  ASSUME FlyInv, phase \in {"validate", "ready"}
  PROVE  /\ output \in Seq(Resampled) /\ trajectory \in Seq(Recorded)
         /\ trajectory # <<>> /\ output # <<>>
         /\ Len(output) \in Nat \ {0} /\ DOMAIN output = 1..Len(output)
         /\ trajectory = RelativeTrajectory(local_positions)
         /\ local_positions \in Seq(Positions) /\ local_positions # <<>>
         /\ Prepared(output, trajectory)
         /\ ShortEnough
         /\ \A i \in DOMAIN output : output[i].elapsed_us = (i - 1) * Interval
<1>1. /\ output \in Seq(Resampled) /\ trajectory \in Seq(Recorded)
      /\ local_positions \in Seq(Positions) /\ local_positions # <<>>
      /\ trajectory = RelativeTrajectory(local_positions)
      /\ Len(output) = OutputCount(trajectory)
      /\ Prepared(output, trajectory)
      /\ ShortEnough
  BY DEF FlyInv, IndInv, TypeOK, PipelineInv
<1>2. trajectory # <<>>
  <2>1. DOMAIN trajectory = DOMAIN local_positions
    BY <1>1 DEF RelativeTrajectory
  <2>2. 1 \in DOMAIN local_positions
    BY <1>1
  <2> QED
    BY <2>1, <2>2
<1>3. Len(output) \in Nat \ {0}
  BY <1>1, <1>2, CountPositive
<1>4. \A i \in DOMAIN output : output[i].elapsed_us = (i - 1) * Interval
  BY DEF FlyInv, IndInv, OnRecordedPath
<1> QED
  BY <1>1, <1>2, <1>3, <1>4

LEMMA FlyableWhenReady == FlyInv => ReadyIsFlyable
<1> SUFFICES ASSUME FlyInv, phase = "ready"
             PROVE  /\ output # <<>>
                    /\ output[1].x = 0 /\ output[1].z = 0
                    /\ (Len(output) - 1) * Interval < DurationLimit
                    /\ \A i \in DOMAIN output :
                         IsFinite(output[i]) /\ InsideLimits(output[i])
                    /\ \A i, j \in DOMAIN output :
                         i < j => SlowEnough(output[i], output[j])
  BY DEF ReadyIsFlyable
<1>1. /\ output \in Seq(Resampled) /\ trajectory \in Seq(Recorded)
      /\ output # <<>>
      /\ Len(output) \in Nat \ {0} /\ DOMAIN output = 1..Len(output)
      /\ trajectory = RelativeTrajectory(local_positions)
      /\ local_positions \in Seq(Positions) /\ local_positions # <<>>
      /\ Prepared(output, trajectory)
      /\ ShortEnough
      /\ \A i \in DOMAIN output : output[i].elapsed_us = (i - 1) * Interval
  BY AcceptedSamples
<1>2. \A i \in DOMAIN output : Acceptable(output, i)
  BY <1>1 DEF FlyInv, PipelineInv
<1>3. output[1].x = 0 /\ output[1].z = 0
  <2>1. Resamples(trajectory, 1, output[1])
    BY <1>1 DEF Prepared
  <2>2. output[1].x \in {0, NonFinite} /\ output[1].z \in {0, NonFinite}
    BY <1>1, <2>1, StartsAtOrigin
  <2>3. IsFinite(output[1])
    BY <1>1, <1>2 DEF Acceptable
  <2> QED
    BY <2>2, <2>3 DEF IsFinite
<1>4. (Len(output) - 1) * Interval < DurationLimit
  BY <1>1 DEF ShortEnough
<1>5. \A i \in DOMAIN output : IsFinite(output[i]) /\ InsideLimits(output[i])
  BY <1>2 DEF Acceptable
<1>6. \A i, j \in DOMAIN output : i < j => SlowEnough(output[i], output[j])
  BY <1>1, <1>2, SlowThroughout
<1> QED
  BY <1>1, <1>3, <1>4, <1>5, <1>6

LEMMA PreviewKept == FlyInv => PreviewHolds
<1> SUFFICES ASSUME FlyInv, shown # <<>>
             PROVE  /\ Len(output) <= Len(shown)
                    /\ output = SubSeq(shown, 1, Len(output))
                    /\ phase = "resample" /\ Len(output) = OutputCount(trajectory)
                         => output = shown /\ ShortEnough
                    /\ phase = "validate" =>
                         \A i \in DOMAIN output : Acceptable(output, i)
                    /\ phase = "ready" => output = shown
  BY DEF PreviewHolds
<1> DEFINE t == RelativeTrajectory(recording)
<1>1. /\ program = "controller"
      /\ Prepared(shown, t) /\ Len(shown) = OutputCount(t)
      /\ shown[Len(shown)].elapsed_us < PreviewDuration
      /\ \A i \in DOMAIN shown : Acceptable(shown, i)
      /\ shown \in Seq(Resampled) /\ output \in Seq(Resampled)
      /\ trajectory \in Seq(Recorded)
  BY DEF FlyInv, ShownInv, IndInv, TypeOK
<1>2. Len(shown) \in Nat \ {0} /\ Len(output) \in Nat
  BY <1>1
<1>3. CASE phase \in {"resample", "validate", "ready"}
  <2>1. /\ trajectory = t
        /\ Prepared(output, trajectory)
        /\ Len(output) <= OutputCount(trajectory)
        /\ phase # "resample" => Len(output) = OutputCount(trajectory)
    <3>1. local_positions = recording
      BY <1>1, <1>3 DEF FlyInv, PipelineInv
    <3>2. trajectory = t /\ Prepared(output, trajectory)
      BY <1>3, <3>1 DEF FlyInv, PipelineInv
    <3>3. OutputCount(trajectory) = Len(shown)
      BY <1>1, <3>2
    <3>4. phase = "resample" => Len(output) <= OutputCount(trajectory)
      BY DEF FlyInv, PipelineInv
    <3>5. phase # "resample" => Len(output) = OutputCount(trajectory)
      BY <1>3 DEF FlyInv, PipelineInv
    <3> QED
      BY <1>2, <3>2, <3>3, <3>4, <3>5
  <2>2. Len(output) <= Len(shown)
    BY <1>1, <2>1
  <2>3. /\ output = SubSeq(shown, 1, Len(output))
        /\ Len(output) = Len(shown) => output = shown
    BY <1>1, <2>1, <2>2, PreparedAlike
  <2>4. ASSUME output = shown PROVE ShortEnough
    <3>1. shown[Len(shown)] \in Resampled
      BY <1>1, <1>2
    <3>2. shown[Len(shown)].elapsed_us \in Nat
      BY <3>1 DEF Resampled
    <3> QED
      BY <1>1, <2>4, <3>2, ReplayAssumption DEF ShortEnough, DurationLimit
  <2> QED
    BY <1>1, <2>1, <2>2, <2>3, <2>4
<1>4. CASE phase \notin {"resample", "validate", "ready"}
  <2>1. output = <<>>
    BY <1>4 DEF FlyInv, IndInv, TypeOK, SearchInv, PipelineInv
  <2> QED
    BY <1>2, <1>4, <2>1
<1> QED
  BY <1>3, <1>4

-----------------------------------------------------------------------------
(* The invariant of the whole pipeline *)

LEMMA ShownKept ==
  ASSUME ShownInv, UNCHANGED context
  PROVE  ShownInv'
BY DEF ShownInv, context, Prepared, Resamples

LEMMA FlyInit == Init => FlyInv
<1> SUFFICES ASSUME Init PROVE FlyInv
  OBVIOUS
<1>1. IndInv
  BY InitEstablishes
<1> QED
  BY <1>1 DEF FlyInv, PipelineInv, ShownInv, Init

LEMMA FlyReject ==
  ASSUME FlyInv, Reject
  PROVE  FlyInv'
<1>1. IndInv'
  BY RejectPreserves DEF FlyInv
<1>2. ShownInv'
  BY ShownKept DEF FlyInv, Reject
<1>3. PipelineInv'
  BY DEF PipelineInv, Reject
<1> QED
  BY <1>1, <1>2, <1>3 DEF FlyInv

LEMMA FlyLoad ==
  ASSUME FlyInv, LoadLog \/ LoadFails, ~Reject
  PROVE  PipelineInv' /\ ShownInv'
<1>1. ShownInv'
  BY ShownKept DEF FlyInv, LoadLog, LoadFails
<1>2. PipelineInv'
  BY DEF FlyInv, PipelineInv, LoadLog, LoadFails, context
<1> QED
  BY <1>1, <1>2

LEMMA FlyFromFlightData ==
  ASSUME FlyInv, FromFlightData
  PROVE  PipelineInv' /\ ShownInv'
<1>1. ShownInv'
  BY ShownKept DEF FlyInv, FromFlightData
<1>2. /\ phase = "load" /\ phase' = "resample"
      /\ local_positions # <<>> /\ local_positions' = local_positions
      /\ trajectory' = RelativeTrajectory(local_positions)
      /\ output = <<>> /\ output' = output /\ upper = 1 /\ upper' = upper
      /\ UNCHANGED <<program, recording, exit_status>>
  BY DEF FromFlightData, FlyInv, IndInv, SearchInv, context
<1>3. trajectory' \in Seq(Recorded) /\ trajectory' # <<>>
  BY FromFlightDataPreserves DEF FlyInv, IndInv, TypeOK, SearchInv, FromFlightData
<1>4. OutputCount(trajectory') \in Nat \ {0} /\ Len(output') = 0
  BY <1>2, <1>3, CountPositive
<1>5. Prepared(output', trajectory')
  BY <1>2 DEF Prepared
<1>6. PipelineInv'
  BY <1>2, <1>4, <1>5 DEF FlyInv, PipelineInv
<1> QED
  BY <1>1, <1>6

LEMMA FlyAdvance ==
  ASSUME FlyInv, Advance
  PROVE  PipelineInv' /\ ShownInv'
<1>1. ShownInv'
  BY ShownKept DEF FlyInv, Advance
<1>2. /\ phase = "resample" /\ upper' = upper + 1 /\ upper \in Nat \ {0}
      /\ trajectory[upper].elapsed_us < Target
      /\ UNCHANGED <<phase, local_positions, trajectory, output, checked>>
      /\ UNCHANGED <<program, recording, exit_status>>
  BY DEF FlyInv, IndInv, TypeOK, Advance, Searching, context
<1>3. Target' = Target
  BY <1>2 DEF Target
<1>4. \A j \in 1..(upper' - 1) : trajectory[j].elapsed_us < Target
  BY <1>2 DEF FlyInv, PipelineInv
<1>5. Prepared(output, trajectory)' <=> Prepared(output, trajectory)
  BY <1>2
<1>6. PipelineInv'
  BY <1>2, <1>3, <1>4, <1>5 DEF FlyInv, PipelineInv
<1> QED
  BY <1>1, <1>6

LEMMA FlySample ==
  ASSUME FlyInv, Sample
  PROVE  PipelineInv' /\ ShownInv'
<1>1. ShownInv'
  BY ShownKept DEF FlyInv, Sample
<1> DEFINE p == IF Exact THEN trajectory[upper]
                ELSE Interpolated(Target, trajectory[upper - 1], trajectory[upper])
<1>2. /\ phase = "resample" /\ upper \in Nat \ {0}
      /\ Len(output) < OutputCount(trajectory) /\ ~Searching
      /\ output' = Append(output, p)
      /\ UNCHANGED <<phase, local_positions, trajectory, upper, checked>>
      /\ UNCHANGED <<program, recording, exit_status>>
      /\ output \in Seq(Resampled) /\ trajectory \in Seq(Recorded)
  BY DEF FlyInv, IndInv, TypeOK, Sample, context
<1>3. /\ Len(output) \in Nat /\ Target \in Nat /\ Interval \in Nat
      /\ Target = ((Len(output) + 1) - 1) * Interval
      /\ OutputCount(trajectory) \in Nat
  <2>1. trajectory # <<>>
    BY <1>2 DEF FlyInv, IndInv, SearchInv
  <2>2. OutputCount(trajectory) \in Nat
    BY <1>2, <2>1, CountPositive
  <2>3. Len(output) \in Nat /\ Interval \in Nat
    BY <1>2, ReplayAssumption
  <2> QED
    BY <2>2, <2>3 DEF Target
<1>4. upper \in 1..Len(trajectory)
  <2>1. BracketExists
    BY BracketFound DEF FlyInv
  <2> QED
    BY <1>2, <2>1 DEF BracketExists
<1>5. \A j \in 1..(upper - 1) : trajectory[j].elapsed_us < Target
  BY <1>2 DEF FlyInv, PipelineInv
<1>6. trajectory[upper].elapsed_us >= Target
  BY <1>2, <1>3, <1>4, RecordedTimes DEF Searching
<1>7. Resamples(trajectory, Len(output) + 1, p)
  BY <1>2, <1>3, <1>4, <1>5, <1>6 DEF Resamples, Exact
<1> HIDE DEF p
<1>8. /\ Len(output') = Len(output) + 1
      /\ DOMAIN output' = 1..(Len(output) + 1)
      /\ output'[Len(output) + 1] = p
      /\ \A i \in 1..Len(output) : i \in DOMAIN output /\ output'[i] = output[i]
  <2>1. p \in Resampled
    <3>1. output' \in Seq(Resampled)
      BY SamplePreserves DEF FlyInv, IndInv, TypeOK
    <3>2. /\ Len(output') = Len(output) + 1
          /\ output'[Len(output) + 1] = p
      BY <1>2
    <3>3. Len(output) + 1 \in DOMAIN output'
      BY <1>3, <3>1, <3>2
    <3> QED
      BY <3>1, <3>2, <3>3
  <2> QED
    BY <1>2, <2>1, AppendProperties
<1>9. Prepared(output', trajectory')
  <2> SUFFICES ASSUME NEW i \in DOMAIN output'
               PROVE  Resamples(trajectory, i, output'[i])
    BY <1>2 DEF Prepared
  <2>1. i \in 1..Len(output) \/ i = Len(output) + 1
    BY <1>3, <1>8
  <2>2. \A k \in DOMAIN output : Resamples(trajectory, k, output[k])
    BY <1>2 DEF FlyInv, PipelineInv, Prepared
  <2> QED
    BY <1>7, <1>8, <2>1, <2>2
<1>10. \A j \in 1..(upper' - 1) : trajectory'[j].elapsed_us < Target'
  <2> SUFFICES ASSUME NEW j \in 1..(upper - 1)
               PROVE  trajectory[j].elapsed_us < Target'
    BY <1>2
  <2>1. j \in 1..Len(trajectory) /\ trajectory[j].elapsed_us \in Nat
    BY <1>2, <1>4, RecordedTimes
  <2>2. Target' = Target + Interval
    BY <1>3, <1>8 DEF Target
  <2> QED
    BY <1>3, <1>5, <2>1, <2>2
<1>11. Len(output') <= OutputCount(trajectory')
  BY <1>2, <1>3, <1>8
<1>12. PipelineInv'
  BY <1>2, <1>9, <1>10, <1>11 DEF FlyInv, PipelineInv
<1> QED
  BY <1>1, <1>12

LEMMA FlyValidated ==
  ASSUME FlyInv, StartValidate \/ Validate \/ Finish, ~Reject
  PROVE  PipelineInv' /\ ShownInv'
<1>1. /\ UNCHANGED <<program, recording, shown>>
      /\ UNCHANGED <<local_positions, trajectory, output, upper>>
  BY DEF StartValidate, Validate, Finish, context, data
<1>2. ShownInv'
  BY <1>1, ShownKept DEF FlyInv, context
<1>3. /\ Prepared(output, trajectory)' <=> Prepared(output, trajectory)
      /\ ShortEnough' <=> ShortEnough
      /\ \A i : Acceptable(output, i)' <=> Acceptable(output, i)
  BY <1>1 DEF ShortEnough, DurationLimit
<1>4. CASE StartValidate
  <2>1. /\ phase = "resample" /\ phase' = "validate" /\ checked' = checked
        /\ Len(output) = OutputCount(trajectory) /\ ShortEnough
        /\ exit_status' = exit_status
    BY <1>4 DEF StartValidate, data
  <2>2. checked = 0
    BY <2>1 DEF FlyInv, IndInv, SearchInv
  <2> QED
    BY <1>1, <1>2, <1>3, <2>1, <2>2 DEF FlyInv, PipelineInv
<1>5. CASE Validate
  <2>1. /\ phase = "validate" /\ phase' = phase /\ checked' = checked + 1
        /\ Acceptable(output, checked + 1) /\ exit_status' = exit_status
        /\ checked \in Nat
    BY <1>5 DEF Validate, FlyInv, IndInv, TypeOK
  <2>2. \A i \in 1..checked' : Acceptable(output, i)
    BY <2>1 DEF FlyInv, PipelineInv
  <2> QED
    BY <1>1, <1>2, <1>3, <2>1, <2>2 DEF FlyInv, PipelineInv
<1>6. CASE Finish
  <2>1. /\ phase = "validate" /\ phase' = "ready" /\ checked' = checked
        /\ checked = Len(output)
        /\ exit_status' = exit_status \/ exit_status' = 1
    BY <1>6 DEF Finish, data
  <2> QED
    BY <1>1, <1>2, <1>3, <2>1 DEF FlyInv, PipelineInv, Finish
<1> QED
  BY <1>4, <1>5, <1>6

(* The tool has exited with 0, so it has seen the whole recording. *)
LEMMA FlyPreview ==
  ASSUME FlyInv, FlyPreviewed
  PROVE  PipelineInv' /\ ShownInv'
<1>1. /\ phase = "ready" /\ program = "tool" /\ exit_status = 0
      /\ phase' = "start" /\ program' = "controller" /\ shown' = output
      /\ output' = <<>> /\ recording' = recording
  BY DEF FlyPreviewed
<1>2. local_positions = recording /\ trajectory = RelativeTrajectory(recording)
  BY <1>1 DEF FlyInv, PipelineInv
<1>3. /\ recording # <<>> /\ Prepared(output, trajectory)
      /\ DOMAIN output = 1..Len(output) /\ ShortEnough
  BY <1>1, <1>2, AcceptedSamples
<1>4. /\ Len(output) = OutputCount(trajectory)
      /\ \A i \in DOMAIN output : Acceptable(output, i)
  BY <1>1, <1>3 DEF FlyInv, PipelineInv
<1>5. output[Len(output)].elapsed_us < PreviewDuration
  BY <1>1, <1>3 DEF ShortEnough, DurationLimit
<1>6. PipelineInv'
  BY <1>1 DEF PipelineInv
<1>7. ShownInv'
  BY <1>1, <1>2, <1>3, <1>4, <1>5 DEF ShownInv
<1> QED
  BY <1>6, <1>7

LEMMA FlyNext == FlyInv /\ [Next]_vars => FlyInv'
<1> SUFFICES ASSUME FlyInv, [Next]_vars PROVE FlyInv'
  OBVIOUS
<1>1. IndInv'
  BY NextPreserves DEF FlyInv
<1>2. CASE Reject
  BY <1>2, FlyReject
<1>3. CASE ~Reject /\ (LoadLog \/ LoadFails)
  BY <1>1, <1>3, FlyLoad DEF FlyInv
<1>4. CASE FromFlightData \/ Advance \/ Sample \/ FlyPreviewed
  BY <1>1, <1>4, FlyFromFlightData, FlyAdvance, FlySample, FlyPreview DEF FlyInv
<1>5. CASE ~Reject /\ (StartValidate \/ Validate \/ Finish)
  BY <1>1, <1>5, FlyValidated DEF FlyInv
<1>6. CASE Done \/ UNCHANGED vars
  <2>1. UNCHANGED <<program, recording, shown, exit_status, phase>>
        /\ UNCHANGED <<local_positions, trajectory, output, upper, checked>>
    BY <1>6 DEF Done, vars, context, data
  <2>2. ShownInv'
    BY <2>1, ShownKept DEF FlyInv, context
  <2>3. /\ Prepared(output, trajectory)' <=> Prepared(output, trajectory)
        /\ ShortEnough' <=> ShortEnough
        /\ Target' = Target
        /\ \A i : Acceptable(output, i)' <=> Acceptable(output, i)
    BY <2>1 DEF ShortEnough, DurationLimit, Target
  <2>4. PipelineInv'
    BY <2>1, <2>3 DEF FlyInv, PipelineInv
  <2> QED
    BY <1>1, <2>2, <2>4 DEF FlyInv
<1> QED
  BY <1>2, <1>3, <1>4, <1>5, <1>6 DEF Next, PreparationFails

(* The invariant of both programs, from the log to the trajectory           *)
THEOREM PipelineInvariant == Spec => []FlyInv
<1> QED
  BY FlyInit, FlyNext, PTL DEF Spec

(* Whatever was recorded, a trajectory that is shown or handed over starts  *)
(* at the vehicle, stays inside the limits and is slow enough between any  *)
(* two of its samples, although only neighbours are compared.              *)
THEOREM OnlyFlyableIsFlown == Spec => []ReadyIsFlyable
BY FlyableWhenReady, PipelineInvariant, PTL

(* The controller computes what the tool has shown, and refuses none of it. *)
THEOREM FlownAsShown == Spec => []PreviewHolds
BY PreviewKept, PipelineInvariant, PTL
=============================================================================
