------------------------- MODULE RecordedFlight_proofs -------------------------
(***************************************************************************)
(* The log of a flight, from the recorder to the controller: for every set *)
(* of frames, every size of the reads, every failure and every instant of  *)
(* a kill or a power cut, the file holds what was received first, and what *)
(* the loader makes of any such file accounts for every record.            *)
(***************************************************************************)
EXTENDS RecordedFlight, SequenceTheorems, FiniteSetTheorems,
        WellFoundedInduction, TLAPS

-----------------------------------------------------------------------------
(* Prefixes *)

LEMMA PrefixElements ==
  ASSUME NEW S, NEW s \in Seq(S), NEW t \in Seq(S)
  PROVE  IsPrefix(s, t) <=>
           Len(s) <= Len(t) /\ \A i \in 1..Len(s) : s[i] = t[i]
<1>1. Len(s) \in Nat /\ Len(t) \in Nat
  OBVIOUS
<1>2. SubSeq(s, 1, Len(s)) = s
  BY SubSeqFull
<1>3. ASSUME Len(s) <= Len(t)
      PROVE  /\ SubSeq(t, 1, Len(s)) \in Seq(S)
             /\ Len(SubSeq(t, 1, Len(s))) = Len(s)
             /\ \A i \in 1..Len(s) : SubSeq(t, 1, Len(s))[i] = t[i]
  BY <1>1, <1>3
<1>4. ASSUME Len(s) <= Len(t), \A i \in 1..Len(s) : s[i] = t[i]
      PROVE  s = SubSeq(t, 1, Len(s))
  BY <1>1, <1>3, <1>4, SeqEqual
<1> QED
  BY <1>2, <1>3, <1>4 DEF IsPrefix

LEMMA PrefixOfConcat ==
  ASSUME NEW S, NEW s \in Seq(S), NEW t \in Seq(S), NEW u \in Seq(S),
         IsPrefix(s, t)
  PROVE  IsPrefix(s, t \o u)
<1>1. Len(s) <= Len(t) /\ \A i \in 1..Len(s) : s[i] = t[i]
  BY PrefixElements
<1>2. /\ t \o u \in Seq(S) /\ Len(t \o u) = Len(t) + Len(u)
      /\ \A i \in 1..Len(t) : (t \o u)[i] = t[i]
      /\ Len(s) \in Nat /\ Len(t) \in Nat /\ Len(u) \in Nat
  BY ConcatProperties
<1>3. Len(s) <= Len(t \o u) /\ \A i \in 1..Len(s) : s[i] = (t \o u)[i]
  BY <1>1, <1>2
<1> QED
  BY <1>2, <1>3, PrefixElements

LEMMA PrefixOfItself ==
  ASSUME NEW S, NEW s \in Seq(S)
  PROVE  IsPrefix(s, s)
BY PrefixElements

LEMMA ShorterPrefix ==
  ASSUME NEW S, NEW s \in Seq(S), NEW e \in S, NEW t \in Seq(S),
         IsPrefix(Append(s, e), t)
  PROVE  IsPrefix(s, t)
<1> DEFINE a == Append(s, e)
<1>1. /\ a \in Seq(S) /\ Len(a) = Len(s) + 1 /\ Len(s) \in Nat /\ Len(t) \in Nat
      /\ \A i \in 1..Len(s) : a[i] = s[i]
  BY AppendProperties
<1>2. IsPrefix(a, t)
  OBVIOUS
<1> HIDE DEF a
<1>3. Len(a) <= Len(t) /\ \A i \in 1..Len(a) : a[i] = t[i]
  BY <1>1, <1>2, PrefixElements
<1>4. Len(s) <= Len(t) /\ \A i \in 1..Len(s) : s[i] = t[i]
  BY <1>1, <1>3
<1> QED
  BY <1>4, PrefixElements

(* What is cut off at the end of a prefix leaves a prefix, with or without  *)
(* the element at the cut.                                                 *)
LEMMA CutPrefix ==
  ASSUME NEW S, NEW s \in Seq(S), NEW t \in Seq(S), IsPrefix(s, t),
         NEW n \in 0..Len(s)
  PROVE  /\ SubSeq(s, 1, n) \in Seq(S)
         /\ IsPrefix(SubSeq(s, 1, n), t)
         /\ n < Len(s) => /\ s[n + 1] \in S
                          /\ IsPrefix(Append(SubSeq(s, 1, n), s[n + 1]), t)
<1>1. Len(s) <= Len(t) /\ \A i \in 1..Len(s) : s[i] = t[i]
  BY PrefixElements
<1> DEFINE c == SubSeq(s, 1, n)
<1>2. /\ c \in Seq(S) /\ Len(c) = n /\ \A i \in 1..n : c[i] = s[i]
      /\ Len(s) \in Nat /\ Len(t) \in Nat
  OBVIOUS
<1> HIDE DEF c
<1>3. IsPrefix(c, t)
  <2>1. Len(c) <= Len(t) /\ \A i \in 1..Len(c) : c[i] = t[i]
    BY <1>1, <1>2
  <2> QED
    BY <1>2, <2>1, PrefixElements
<1>4. ASSUME n < Len(s)
      PROVE  s[n + 1] \in S /\ IsPrefix(Append(c, s[n + 1]), t)
  <2>1. n + 1 \in 1..Len(s) /\ s[n + 1] \in S
    BY <1>2, <1>4, ElementOfSeq
  <2>2. /\ Append(c, s[n + 1]) \in Seq(S) /\ Len(Append(c, s[n + 1])) = n + 1
        /\ \A i \in 1..n : Append(c, s[n + 1])[i] = c[i]
        /\ Append(c, s[n + 1])[n + 1] = s[n + 1]
    BY <1>2, <2>1, AppendProperties
  <2>3. \A i \in 1..(n + 1) : Append(c, s[n + 1])[i] = t[i]
    BY <1>1, <1>2, <2>1, <2>2
  <2>4. n + 1 <= Len(t)
    BY <1>1, <1>2, <1>4
  <2> QED
    BY <2>1, <2>2, <2>3, <2>4, PrefixElements
<1> QED
  BY <1>2, <1>3, <1>4 DEF c

(* The head of the second sequence may as well stand at the end of the      *)
(* first.                                                                  *)
LEMMA ShiftHead ==
  ASSUME NEW S, NEW s \in Seq(S), NEW t \in Seq(S), t # <<>>
  PROVE  /\ Head(t) \in S /\ Tail(t) \in Seq(S)
         /\ Append(s, Head(t)) \o Tail(t) = s \o t
<1>1. /\ Head(t) \in S /\ Tail(t) \in Seq(S) /\ Head(t) = t[1]
      /\ Len(Tail(t)) = Len(t) - 1 /\ \A i \in 1..(Len(t) - 1) : Tail(t)[i] = t[i + 1]
      /\ Len(t) \in Nat \ {0} /\ Len(s) \in Nat
  BY HeadTailProperties, EmptySeq
<1> DEFINE a == Append(s, Head(t))
<1>2. /\ a \in Seq(S) /\ Len(a) = Len(s) + 1
      /\ \A i \in 1..Len(s) : a[i] = s[i]
      /\ a[Len(s) + 1] = t[1]
  BY <1>1, AppendProperties
<1> HIDE DEF a
<1>3. /\ a \o Tail(t) \in Seq(S) /\ Len(a \o Tail(t)) = Len(a) + Len(Tail(t))
      /\ \A i \in 1..(Len(a) + Len(Tail(t))) :
           (a \o Tail(t))[i] = IF i <= Len(a) THEN a[i] ELSE Tail(t)[i - Len(a)]
  BY <1>1, <1>2, ConcatProperties
<1>4. /\ s \o t \in Seq(S) /\ Len(s \o t) = Len(s) + Len(t)
      /\ \A i \in 1..(Len(s) + Len(t)) :
           (s \o t)[i] = IF i <= Len(s) THEN s[i] ELSE t[i - Len(s)]
  BY ConcatProperties
<1>5. Len(a \o Tail(t)) = Len(s \o t)
  BY <1>1, <1>2, <1>3, <1>4
<1>6. ASSUME NEW i \in 1..Len(s \o t)
      PROVE  (a \o Tail(t))[i] = (s \o t)[i]
  <2>1. CASE i <= Len(s)
    BY <1>1, <1>2, <1>3, <1>4, <2>1
  <2>2. CASE i = Len(s) + 1
    <3>1. /\ i <= Len(a) /\ i \in 1..(Len(a) + Len(Tail(t)))
          /\ i \in 1..(Len(s) + Len(t)) /\ ~(i <= Len(s)) /\ i - Len(s) = 1
      BY <1>1, <1>2, <2>2
    <3>2. (a \o Tail(t))[i] = a[i] /\ (s \o t)[i] = t[1]
      BY <1>3, <1>4, <3>1
    <3> QED
      BY <1>2, <2>2, <3>2
  <2>3. CASE i > Len(s) + 1
    <3>1. i - Len(a) \in 1..(Len(t) - 1)
      BY <1>1, <1>2, <1>4, <2>3
    <3>2. (i - Len(a)) + 1 = i - Len(s)
      BY <1>1, <1>2
    <3> QED
      BY <1>1, <1>2, <1>3, <1>4, <2>3, <3>1, <3>2
  <2>4. i <= Len(s) \/ i = Len(s) + 1 \/ i > Len(s) + 1
    BY <1>1, <1>4
  <2> QED
    BY <2>1, <2>2, <2>3, <2>4
<1>7. a \o Tail(t) = s \o t
  BY <1>3, <1>4, <1>5, <1>6, SeqEqual
<1> QED
  BY <1>1, <1>7 DEF a

-----------------------------------------------------------------------------
(* The recorder *)

LEMMA RecorderInitInv == RecorderInit => RecorderInv
<1> SUFFICES ASSUME RecorderInit PROVE RecorderInv
  OBVIOUS
<1>1. <<>> \in Seq(Frames) /\ <<>> \o <<>> = <<>>
  BY EmptySeq, ConcatEmptySeq
<1> USE DEF RecorderInit, EmptyLog
<1>2. RecorderTypeOK
  BY <1>1 DEF RecorderTypeOK
<1>3. WrittenInv
  BY <1>1 DEF WrittenInv
<1>4. ArchiveInv
  BY DEF ArchiveInv
<1>5. LogIsPrefix
  BY <1>1, PrefixOfItself DEF LogIsPrefix
<1> QED
  BY <1>2, <1>3, <1>4, <1>5 DEF RecorderInv

(* A step that leaves the log and the history alone keeps LogIsPrefix. *)
LEMMA SameLog ==
  ASSUME LogIsPrefix, UNCHANGED <<file, tail, received>>
  PROVE  LogIsPrefix'
BY DEF LogIsPrefix

LEMMA OpenPreserves ==
  ASSUME RecorderInv, NEW d \in Seconds, Open(d)
  PROVE  RecorderInv'
<1>1. RecorderTypeOK'
  <2>1. /\ UNCHANGED <<stop_requested, running, pending, received, file, tail, buffer>>
        /\ pc' \in {"check", "refused"} /\ session' \in {d, session}
        /\ archive' \in {archive, [archive EXCEPT ![d] = NoLog], [archive EXCEPT ![d] = 0]}
    BY DEF Open, tlog, disk
  <2>2. archive' \in [Seconds -> Nat \cup {NoLog}]
    BY <2>1 DEF RecorderInv, RecorderTypeOK
  <2> QED
    BY <2>1, <2>2 DEF RecorderInv, RecorderTypeOK
<1>2. WrittenInv'
  BY DEF Open, RecorderInv, WrittenInv, tlog
<1>3. ArchiveInv'
  BY DEF Open, RecorderInv, RecorderTypeOK, ArchiveInv, NewDirectory, disk
<1>4. LogIsPrefix'
  BY SameLog DEF Open, RecorderInv, tlog
<1> QED
  BY <1>1, <1>2, <1>3, <1>4 DEF RecorderInv

(* The steps that touch neither the log nor the pending frames *)
LEMMA ControlPreserves ==
  ASSUME RecorderInv, PortFails \/ Check \/ EnterRead \/ ReadFails \/ Interrupt
  PROVE  RecorderInv'
<1>1. /\ UNCHANGED <<running, pending, received, file, tail, buffer, archive, session>>
      /\ pc' # "write" \/ pc = "write"
      /\ pc \notin {"closed", "dead"} /\ pc' \notin {"closed", "dead"}
      /\ pc' \in {"open", "refused", "enter", "read", "write"} /\ pc' # pc
           => running
      /\ pc' \in {"open", "check", "enter", "read", "write", "close", "refused"}
      /\ stop_requested' \in BOOLEAN
  BY DEF PortFails, Check, EnterRead, ReadFails, Interrupt, KeepRunning, RecorderInv,
         RecorderTypeOK, WrittenInv, disk, tlog
<1>2. RecorderTypeOK'
  BY <1>1 DEF RecorderInv, RecorderTypeOK
<1>3. WrittenInv'
  <2>1. pc = "write" => pc' = "write"
    BY DEF PortFails, Check, EnterRead, ReadFails, Interrupt
  <2> QED
    BY <1>1, <2>1 DEF RecorderInv, WrittenInv
<1>4. ArchiveInv'
  <2>1. pc' \in {"open", "refused"} => pc = "open"
    BY <1>1 DEF PortFails, Check, EnterRead, ReadFails, Interrupt
  <2> QED
    BY <1>1, <2>1 DEF RecorderInv, ArchiveInv
<1>5. LogIsPrefix'
  BY <1>1, SameLog DEF RecorderInv
<1> QED
  BY <1>2, <1>3, <1>4, <1>5 DEF RecorderInv

LEMMA ReadBytesPreserves == ASSUME RecorderInv, ReadBytes PROVE RecorderInv'
<1> PICK n \in 0..MaxBatch : \E batch \in [1..n -> Frames] :
      /\ pending' = batch
      /\ received' = received \o batch
      /\ pc' = IF batch = <<>> THEN "check" ELSE "write"
  BY DEF ReadBytes
<1> PICK batch \in [1..n -> Frames] :
      /\ pending' = batch
      /\ received' = received \o batch
      /\ pc' = IF batch = <<>> THEN "check" ELSE "write"
  OBVIOUS
<1>1. /\ pc = "read" /\ running /\ tail = NoFrame /\ buffer = NoFrame
      /\ UNCHANGED <<stop_requested, running, archive, session, file, tail, buffer>>
      /\ pending = <<>> /\ file \o pending = received
      /\ file \in Seq(Frames) /\ received \in Seq(Frames)
  BY DEF ReadBytes, RecorderInv, RecorderTypeOK, WrittenInv, disk, tlog
<1>2. batch \in Seq(Frames)
  BY RecorderAssumption
<1>3. file = received
  BY <1>1, ConcatEmptySeq
<1>4. received' \in Seq(Frames)
  BY <1>1, <1>2, ConcatProperties
<1>5. RecorderTypeOK'
  BY <1>1, <1>2, <1>4 DEF RecorderInv, RecorderTypeOK
<1>6. WrittenInv'
  BY <1>1, <1>3 DEF WrittenInv
<1>7. ArchiveInv'
  BY <1>1 DEF RecorderInv, ArchiveInv
<1>8. LogIsPrefix'
  <2>1. IsPrefix(file, received \o batch)
    BY <1>1, <1>2, <1>3, PrefixOfItself, PrefixOfConcat
  <2> QED
    BY <1>1, <2>1 DEF LogIsPrefix
<1> QED
  BY <1>5, <1>6, <1>7, <1>8 DEF RecorderInv

LEMMA WriteFramePreserves == ASSUME RecorderInv, WriteFrame PROVE RecorderInv'
<1>1. /\ pc = "write" /\ running /\ tail = NoFrame /\ buffer = NoFrame
      /\ pc' \in {"check", "write"}
      /\ UNCHANGED <<stop_requested, received, archive, session>>
      /\ pending # <<>> /\ file \o pending = received
      /\ file \in Seq(Frames) /\ received \in Seq(Frames) /\ pending \in Seq(Frames)
  BY DEF WriteFrame, AfterRecord, StopAfterFailure, RecorderInv, RecorderTypeOK,
         WrittenInv, disk
<1> DEFINE f == Head(pending)
           written == Append(file, f)
<1>2. /\ f \in Frames /\ Tail(pending) \in Seq(Frames)
      /\ written \o Tail(pending) = received
  BY <1>1, ShiftHead
<1>3. written \in Seq(Frames)
  BY <1>1, <1>2, AppendProperties
<1> HIDE DEF f, written
<1>4. IsPrefix(written, received)
  BY <1>2, <1>3, PrefixOfItself, PrefixOfConcat
<1>5. ArchiveInv'
  BY <1>1 DEF RecorderInv, ArchiveInv
<1>6. CASE WriteRecord(f) /\ pending' = Tail(pending) /\ pc' = AfterRecord
             /\ UNCHANGED running
  <2>1. file' = written /\ tail' = NoFrame /\ buffer' = NoFrame /\ running'
    BY <1>1, <1>6 DEF WriteRecord, written
  <2>2. pc' = IF pending' = <<>> THEN "check" ELSE "write"
    BY <1>6 DEF AfterRecord
  <2>3. RecorderTypeOK'
    BY <1>1, <1>2, <1>3, <1>6, <2>1, <2>2 DEF RecorderInv, RecorderTypeOK
  <2>4. WrittenInv'
    BY <1>1, <1>2, <1>6, <2>1, <2>2 DEF WrittenInv
  <2>5. LogIsPrefix'
    BY <1>1, <1>4, <2>1 DEF LogIsPrefix
  <2> QED
    BY <1>5, <2>3, <2>4, <2>5 DEF RecorderInv
<1>7. CASE WriteFails(f) /\ StopAfterFailure
  <2>1. /\ file' = file /\ tail' \in {NoFrame, f} /\ buffer' \in {NoFrame, f}
        /\ running' = FALSE /\ pending' = <<>> /\ pc' = "check"
    BY <1>7 DEF WriteFails, StopAfterFailure
  <2>2. RecorderTypeOK'
    BY <1>1, <1>2, <2>1, EmptySeq DEF RecorderInv, RecorderTypeOK
  <2>3. WrittenInv'
    BY <1>1, <1>4, <2>1 DEF WrittenInv, written
  <2>4. IsPrefix(file, received)
    BY <1>1, <1>2, <1>4, ShorterPrefix DEF written
  <2>5. LogIsPrefix'
    BY <1>1, <1>4, <2>1, <2>4 DEF LogIsPrefix, written
  <2> QED
    BY <1>5, <2>2, <2>3, <2>5 DEF RecorderInv
<1> QED
  BY <1>6, <1>7 DEF WriteFrame, f

LEMMA ClosePreserves == ASSUME RecorderInv, Close PROVE RecorderInv'
<1>1. /\ pc = "close" /\ pc' = "closed" /\ buffer' = NoFrame /\ CloseLog
      /\ UNCHANGED <<stop_requested, running, pending, received, archive, session>>
      /\ file \in Seq(Frames) /\ received \in Seq(Frames)
      /\ buffer \in Frames \cup {NoFrame} /\ tail \in Frames \cup {NoFrame}
      /\ buffer # NoFrame => ~running
      /\ pending = <<>>
  BY DEF Close, CloseLog, RecorderInv, RecorderTypeOK, WrittenInv, disk
<1>2. file' \in Seq(Frames) /\ tail' \in Frames \cup {NoFrame}
  BY <1>1, AppendProperties DEF CloseLog
<1>3. RecorderTypeOK'
  BY <1>1, <1>2 DEF RecorderInv, RecorderTypeOK
<1>4. running => file' = file /\ tail' = tail
  BY <1>1 DEF CloseLog
<1>5. WrittenInv'
  BY <1>1, <1>4 DEF RecorderInv, WrittenInv
<1>6. ArchiveInv'
  BY <1>1 DEF RecorderInv, ArchiveInv
<1>7. LogIsPrefix'
  BY <1>1 DEF CloseLog, RecorderInv, WrittenInv, LogIsPrefix
<1> QED
  BY <1>3, <1>5, <1>6, <1>7 DEF RecorderInv

LEMMA KillPreserves == ASSUME RecorderInv, Kill PROVE RecorderInv'
<1>1. /\ pc' = "dead" /\ buffer' = NoFrame
      /\ UNCHANGED <<stop_requested, running, pending, received, archive, session,
                     file, tail>>
  BY DEF Kill, LoseBuffer, disk
<1>2. RecorderTypeOK'
  BY <1>1 DEF RecorderInv, RecorderTypeOK
<1>3. WrittenInv'
  BY <1>1 DEF RecorderInv, WrittenInv
<1>4. ArchiveInv' /\ LogIsPrefix'
  BY <1>1, SameLog DEF RecorderInv, ArchiveInv
<1> QED
  BY <1>2, <1>3, <1>4 DEF RecorderInv

LEMMA PowerCutPreserves == ASSUME RecorderInv, PowerCut PROVE RecorderInv'
<1>1. /\ pc' = "dead" /\ buffer' = NoFrame /\ LosePower /\ archive' \in Cuts
      /\ UNCHANGED <<stop_requested, running, pending, received>>
      /\ \/ session' = session
         \/ file' = <<>> /\ tail' = NoFrame /\ session' = NoLog
      /\ file \in Seq(Frames) /\ received \in Seq(Frames)
      /\ tail \in Frames \cup {NoFrame}
  BY DEF PowerCut, LosePower, RecorderInv, RecorderTypeOK
<1>2. archive' \in [Seconds -> Nat \cup {NoLog}]
      /\ \A d \in Seconds : archive[d] = NoLog => archive'[d] = NoLog
  <2>1. archive \in [Seconds -> Nat \cup {NoLog}]
    BY DEF RecorderInv, RecorderTypeOK
  <2>2. \A d \in Seconds : Cut(archive[d]) \subseteq Nat \cup {NoLog}
    BY <2>1 DEF Cut
  <2>3. /\ DOMAIN archive' = Seconds /\ archive' = [d \in Seconds |-> archive'[d]]
        /\ \A d \in Seconds : archive'[d] \in Cut(archive[d])
    BY <1>1 DEF Cuts
  <2> QED
    BY <2>2, <2>3 DEF Cut
<1>3. ArchiveInv'
  BY <1>1, <1>2 DEF RecorderInv, RecorderTypeOK, ArchiveInv
<1>4. IsPrefix(file, received)
  BY <1>1, ShorterPrefix DEF RecorderInv, LogIsPrefix
<1>5. PICK n \in 0..Len(file) :
        /\ file' = SubSeq(file, 1, n)
        /\ IF n = Len(file) THEN tail' \in {NoFrame, tail}
                            ELSE tail' \in {NoFrame, file[n + 1]}
  BY <1>1 DEF LosePower
<1>6. /\ file' \in Seq(Frames) /\ IsPrefix(file', received)
      /\ n < Len(file) => /\ file[n + 1] \in Frames
                          /\ IsPrefix(Append(file', file[n + 1]), received)
  BY <1>1, <1>4, <1>5, CutPrefix
<1>7. CASE n = Len(file)
  <2>1. file' = file
    BY <1>1, <1>5, <1>7, SubSeqFull
  <2>2. tail' \in {NoFrame, tail}
    BY <1>5, <1>7
  <2>3. LogIsPrefix'
    BY <1>1, <1>4, <2>1, <2>2 DEF RecorderInv, LogIsPrefix
  <2>4. RecorderTypeOK'
    BY <1>1, <1>2, <2>1, <2>2 DEF RecorderInv, RecorderTypeOK
  <2> QED
    BY <1>1, <1>3, <2>3, <2>4 DEF RecorderInv, WrittenInv
<1>8. CASE n < Len(file)
  <2>1. tail' \in {NoFrame, file[n + 1]}
    BY <1>5, <1>8
  <2>2. LogIsPrefix'
    BY <1>1, <1>6, <1>8, <2>1 DEF LogIsPrefix
  <2>3. RecorderTypeOK'
    BY <1>1, <1>2, <1>6, <1>8, <2>1 DEF RecorderInv, RecorderTypeOK
  <2> QED
    BY <1>1, <1>3, <2>2, <2>3 DEF RecorderInv, WrittenInv
<1> QED
  BY <1>1, <1>5, <1>7, <1>8

LEMMA RestartPreserves == ASSUME RecorderInv, Restart PROVE RecorderInv'
<1>1. /\ pc' = "open" /\ ~stop_requested' /\ running'
      /\ pending' = <<>> /\ received' = <<>>
      /\ session' = NoLog /\ file' = <<>> /\ tail' = NoFrame /\ buffer' = NoFrame
      /\ archive' = IF session = NoLog THEN archive
                    ELSE [archive EXCEPT ![session] = Len(file)]
      /\ stop_requested' \in BOOLEAN /\ running' \in BOOLEAN
  BY DEF Restart
<1>2. <<>> \in Seq(Frames) /\ <<>> \o <<>> = <<>>
  BY EmptySeq, ConcatEmptySeq
<1>3. archive' \in [Seconds -> Nat \cup {NoLog}]
  <2>1. Len(file) \in Nat
    BY DEF RecorderInv, RecorderTypeOK
  <2> QED
    BY <1>1, <2>1 DEF RecorderInv, RecorderTypeOK
<1>4. RecorderTypeOK'
  BY <1>1, <1>2, <1>3 DEF RecorderTypeOK
<1>5. WrittenInv'
  BY <1>1, <1>2 DEF WrittenInv
<1>6. LogIsPrefix'
  BY <1>1, <1>2, PrefixOfItself DEF LogIsPrefix
<1> QED
  BY <1>1, <1>4, <1>5, <1>6 DEF RecorderInv, ArchiveInv

LEMMA RecorderNextInv == RecorderInv /\ [RecorderNext]_recorderVars => RecorderInv'
<1> SUFFICES ASSUME RecorderInv, [RecorderNext]_recorderVars PROVE RecorderInv'
  OBVIOUS
<1>1. CASE UNCHANGED recorderVars
  BY <1>1 DEF recorderVars, recorder, tlog, RecorderInv, RecorderTypeOK, WrittenInv,
              ArchiveInv, LogIsPrefix
<1> QED
  BY <1>1, OpenPreserves, ControlPreserves, ReadBytesPreserves, WriteFramePreserves,
     ClosePreserves, KillPreserves, PowerCutPreserves, RestartPreserves
  DEF RecorderNext, RecorderStep

(* Until a record fails, the file and the batch together are what was       *)
(* received; after it nothing is written (recorder/main.c 97-148).         *)
THEOREM RecorderInvariant == RecorderSpec => []RecorderInv
<1> QED
  BY RecorderInitInv, RecorderNextInv, PTL DEF RecorderSpec

(* Whenever the recorder fails, is killed or loses its power, its log holds *)
(* the frames received first, in order, and at most the next one torn.     *)
THEOREM LogHoldsPrefix == RecorderSpec => []LogIsPrefix
BY RecorderInvariant, PTL DEF RecorderInv

(* Every read begins with everything written, so only the last batch can be *)
(* missing from a log, and nothing is after an orderly stop.               *)
THEOREM ReadsFindAllWritten == RecorderSpec => []NothingUnwritten
<1>1. RecorderInv => NothingUnwritten
  <2> SUFFICES ASSUME RecorderInv PROVE NothingUnwritten
    OBVIOUS
  <2>1. pending = <<>> => file \o pending = file
    BY ConcatEmptySeq DEF RecorderInv, RecorderTypeOK
  <2> QED
    BY <2>1 DEF RecorderInv, WrittenInv, NothingUnwritten
<1> QED
  BY <1>1, RecorderInvariant, PTL

(* No run of the recorder changes the log of an earlier run, whatever the   *)
(* clock says and although all of them share one directory.                *)
THEOREM EarlierLogsUntouched == RecorderSpec => EarlierLogsKept
<1>1. RecorderInv /\ [RecorderNext]_recorderVars
        => [\A d \in Seconds :
              archive[d] # NoLog =>
                archive'[d] = archive[d]
                  \/ (PowerCut /\ archive'[d] \in Cut(archive[d]))]_recorderVars
  <2> SUFFICES ASSUME RecorderInv, RecorderNext, NEW d \in Seconds, archive[d] # NoLog
               PROVE  archive'[d] = archive[d]
                        \/ (PowerCut /\ archive'[d] \in Cut(archive[d]))
    OBVIOUS
  <2>1. CASE \E e \in Seconds : Open(e)
    BY <2>1 DEF Open, NewDirectory, RecorderInv, RecorderTypeOK, disk
  <2>2. CASE PowerCut
    BY <2>2 DEF PowerCut, Cuts
  <2>3. CASE Restart
    BY <2>3 DEF Restart, RecorderInv, RecorderTypeOK, ArchiveInv
  <2>4. CASE PortFails \/ Check \/ EnterRead \/ ReadBytes \/ ReadFails \/ WriteFrame
             \/ Close \/ Interrupt \/ Kill
    BY <2>4 DEF PortFails, Check, EnterRead, ReadBytes, ReadFails, WriteFrame, Close,
                Interrupt, Kill, disk
  <2> QED
    BY <2>1, <2>2, <2>3, <2>4 DEF RecorderNext, RecorderStep
<1> QED
  BY <1>1, RecorderInvariant, PTL DEF RecorderSpec, EarlierLogsKept

(* The recorder implements FlightLog, step by step.                         *)
LEMMA LogInit == RecorderInit => L!Init
BY DEF RecorderInit, EmptyLog, Phase, L!Init

(* What FlightLog adds to a log is the next frame that was received.        *)
LEMMA NextStored ==
  ASSUME NEW S, NEW s \in Seq(S), NEW e \in S, NEW t \in Seq(S),
         IsPrefix(Append(s, e), t)
  PROVE  Len(s) < Len(t) /\ e = t[Len(s) + 1]
<1> DEFINE a == Append(s, e)
<1>1. /\ a \in Seq(S) /\ Len(a) = Len(s) + 1 /\ a[Len(s) + 1] = e
      /\ Len(s) \in Nat /\ Len(t) \in Nat
  BY AppendProperties
<1>2. IsPrefix(a, t)
  OBVIOUS
<1> HIDE DEF a
<1>3. Len(a) <= Len(t) /\ \A i \in 1..Len(a) : a[i] = t[i]
  BY <1>1, <1>2, PrefixElements
<1> QED
  BY <1>1, <1>3

(* Opening a session begins it, leaves an empty log behind, or is refused. *)
LEMMA OpenLogs ==
  ASSUME RecorderInv, NEW d \in Seconds, Open(d)
  PROVE  [L!Next]_(L!flightLog)
<1>1. /\ pc = "open" /\ running /\ session = NoLog
      /\ archive \in [Seconds -> Nat \cup {NoLog}]
      /\ UNCHANGED <<running, received, file>>
      /\ Phase = "ready"
  BY DEF Open, RecorderInv, RecorderTypeOK, WrittenInv, ArchiveInv, Phase, tlog
<1>2. CASE NewDirectory(d) /\ pc' = "check" /\ session' = d
           /\ archive' = [archive EXCEPT ![d] = NoLog]
  <2>1. archive[d] = NoLog /\ archive' = archive
    BY <1>1, <1>2 DEF NewDirectory
  <2>2. Phase' = "recording"
    BY <1>1, <1>2 DEF Phase
  <2>3. L!Begin(d)
    BY <1>1, <1>2, <2>1, <2>2 DEF L!Begin
  <2> QED
    BY <2>3 DEF L!Next
<1>3. CASE NewDirectory(d) /\ pc' = "refused"
           /\ archive' = [archive EXCEPT ![d] = 0] /\ UNCHANGED session
  <2>1. Phase' = "ready"
    BY <1>3 DEF Phase
  <2>2. L!BeginFails(d)
    BY <1>1, <1>3, <2>1 DEF L!BeginFails, NewDirectory
  <2> QED
    BY <2>2 DEF L!Next
<1>4. CASE ~NewDirectory(d) /\ pc' = "refused" /\ UNCHANGED disk
  <2>1. Phase' = "ready"
    BY <1>4 DEF Phase
  <2> QED
    BY <1>1, <1>4, <2>1 DEF L!flightLog, disk
<1> QED
  BY <1>2, <1>3, <1>4 DEF Open

(* The loop's own steps and the signal are none of the log's. *)
LEMMA ControlLogs ==
  ASSUME RecorderInv, PortFails \/ Check \/ EnterRead \/ ReadFails \/ Interrupt
  PROVE  UNCHANGED L!flightLog
<1>1. UNCHANGED <<running, received, file, session, archive>>
  BY DEF PortFails, Check, EnterRead, ReadFails, Interrupt, disk, tlog
<1>2. Phase' = Phase
  BY <1>1 DEF PortFails, Check, EnterRead, ReadFails, Interrupt, Phase
<1> QED
  BY <1>1, <1>2 DEF L!flightLog

LEMMA ReadBytesLogs == ASSUME RecorderInv, ReadBytes PROVE L!Next
<1> PICK n \in 0..MaxBatch : \E batch \in [1..n -> Frames] :
      /\ pending' = batch
      /\ received' = received \o batch
      /\ pc' = IF batch = <<>> THEN "check" ELSE "write"
  BY DEF ReadBytes
<1> PICK batch \in [1..n -> Frames] :
      /\ pending' = batch
      /\ received' = received \o batch
      /\ pc' = IF batch = <<>> THEN "check" ELSE "write"
  OBVIOUS
<1>1. /\ pc = "read" /\ running
      /\ UNCHANGED <<running, archive, session, file>>
      /\ pending = <<>> /\ file \o pending = received
      /\ file \in Seq(Frames) /\ received \in Seq(Frames)
  BY DEF ReadBytes, RecorderInv, RecorderTypeOK, WrittenInv, disk, tlog
<1>2. batch \in Seq(Frames)
  BY RecorderAssumption
<1>3. file = received
  BY <1>1, ConcatEmptySeq
<1>4. received' \in Seq(Frames)
  BY <1>1, <1>2, ConcatProperties
<1>5. L!IsPrefix(received, received')
  BY <1>1, <1>2, PrefixOfItself, PrefixOfConcat DEF IsPrefix, L!IsPrefix
<1>6. Phase = "recording" /\ Phase' = "recording"
  BY <1>1 DEF Phase
<1>7. L!Receive
  BY <1>1, <1>3, <1>4, <1>5, <1>6 DEF L!Receive
<1> QED
  BY <1>7 DEF L!Next

LEMMA WriteFrameLogs == ASSUME RecorderInv, WriteFrame PROVE L!Next
<1>1. /\ pc = "write" /\ running /\ pc' \in {"check", "write"}
      /\ UNCHANGED <<received, archive, session>>
      /\ pending # <<>> /\ file \o pending = received
      /\ file \in Seq(Frames) /\ received \in Seq(Frames) /\ pending \in Seq(Frames)
  BY DEF WriteFrame, AfterRecord, StopAfterFailure, RecorderInv, RecorderTypeOK,
         WrittenInv, disk
<1>2. Phase = "recording"
  BY <1>1 DEF Phase
<1> DEFINE f == Head(pending)
           written == Append(file, f)
<1>3. /\ f \in Frames /\ Tail(pending) \in Seq(Frames)
      /\ written \o Tail(pending) = received
  BY <1>1, ShiftHead
<1>4. written \in Seq(Frames)
  BY <1>1, <1>3, AppendProperties
<1>5. IsPrefix(written, received)
  <2> HIDE DEF f, written
  <2> QED
    BY <1>3, <1>4, PrefixOfItself, PrefixOfConcat
<1> HIDE DEF f
<1>6. Len(file) < Len(received) /\ f = received[Len(file) + 1]
  BY <1>1, <1>3, <1>5, NextStored
<1>7. CASE WriteRecord(f) /\ UNCHANGED running
  <2>1. Phase' = "recording"
    BY <1>1, <1>7 DEF Phase
  <2>2. L!Store
    BY <1>1, <1>2, <1>6, <1>7, <2>1 DEF L!Store, L!StoreNext, WriteRecord
  <2> QED
    BY <2>2 DEF L!Next
<1>8. CASE WriteFails(f) /\ StopAfterFailure
  <2>1. file' = file /\ running' = FALSE
    BY <1>8 DEF WriteFails, StopAfterFailure
  <2>2. Phase' = "failing"
    BY <1>1, <2>1 DEF Phase
  <2>3. file # received
    BY <1>6
  <2>4. L!Fail
    BY <1>1, <1>2, <2>1, <2>2, <2>3 DEF L!Fail
  <2> QED
    BY <2>4 DEF L!Next
<1> QED
  BY <1>7, <1>8 DEF WriteFrame, f

(* Closing a log completes it; after a failure the stdio buffer may still   *)
(* put the frame that failed into it.                                      *)
LEMMA CloseLogs == ASSUME RecorderInv, Close PROVE L!Next
<1>1. /\ pc = "close" /\ pc' = "closed" /\ CloseLog
      /\ UNCHANGED <<running, received, archive, session>>
      /\ file \in Seq(Frames) /\ received \in Seq(Frames)
      /\ buffer \in Frames \cup {NoFrame}
      /\ running \in BOOLEAN
      /\ pending = <<>>
      /\ running => buffer = NoFrame /\ file \o pending = received
      /\ buffer # NoFrame => IsPrefix(Append(file, buffer), received)
  BY DEF Close, RecorderInv, RecorderTypeOK, WrittenInv, disk
<1>2. CASE running
  <2>1. file = received
    BY <1>1, <1>2, ConcatEmptySeq
  <2>2. file' = file
    BY <1>1, <1>2 DEF CloseLog
  <2>3. Phase = "recording" /\ Phase' = "complete"
    BY <1>1, <1>2 DEF Phase
  <2>4. L!Complete
    BY <1>1, <2>1, <2>2, <2>3 DEF L!Complete
  <2> QED
    BY <2>4 DEF L!Next
<1>3. CASE ~running
  <2>1. Phase = "failing" /\ Phase' = "over"
    BY <1>1, <1>3 DEF Phase
  <2>2. L!StoreNext \/ file' = file
    <3>1. CASE buffer # NoFrame /\ file' = Append(file, buffer)
      <4>1. buffer \in Frames /\ IsPrefix(Append(file, buffer), received)
        BY <1>1, <3>1
      <4>2. Len(file) < Len(received) /\ buffer = received[Len(file) + 1]
        BY <1>1, <4>1, NextStored
      <4> QED
        BY <3>1, <4>2 DEF L!StoreNext
    <3>2. CASE file' = file
      BY <3>2
    <3> QED
      BY <1>1, <3>1, <3>2 DEF CloseLog
  <2>3. L!GiveUp
    BY <1>1, <2>1, <2>2 DEF L!GiveUp
  <2> QED
    BY <2>3 DEF L!Next
<1> QED
  BY <1>1, <1>2, <1>3

LEMMA KillLogs == ASSUME RecorderInv, Kill PROVE L!Next
<1>1. /\ pc \in {"check", "enter", "read", "write", "close"} /\ pc' = "dead"
      /\ UNCHANGED <<running, received, archive, session, file>>
  BY DEF Kill, LoseBuffer, disk
<1>2. Phase \in {"recording", "failing"} /\ Phase' = "over"
  BY <1>1 DEF Phase
<1>3. L!Die
  BY <1>1, <1>2 DEF L!Die
<1> QED
  BY <1>3 DEF L!Next

LEMMA PowerCutLogs == ASSUME RecorderInv, PowerCut PROVE L!Next
<1>1. /\ pc' = "dead" /\ LosePower /\ archive' \in Cuts
      /\ UNCHANGED received
      /\ \/ session' = session
         \/ file' = <<>> /\ session' = NoLog
      /\ archive \in [Seconds -> Nat \cup {NoLog}]
  BY DEF PowerCut, RecorderInv, RecorderTypeOK
<1>2. Phase' = "over"
  BY <1>1 DEF Phase
<1>3. \E n \in 0..Len(file) : file' = SubSeq(file, 1, n)
  BY <1>1 DEF LosePower
<1>4. /\ archive' \in [Seconds -> Nat \cup {NoLog}]
      /\ \A d \in Seconds : archive'[d] # NoLog =>
           archive[d] # NoLog /\ archive'[d] <= archive[d]
  <2>1. /\ DOMAIN archive' = Seconds /\ archive' = [d \in Seconds |-> archive'[d]]
        /\ \A d \in Seconds : archive'[d] \in Cut(archive[d])
    BY <1>1 DEF Cuts
  <2>2. \A d \in Seconds : Cut(archive[d]) \subseteq Nat \cup {NoLog}
    BY <1>1 DEF Cut
  <2>3. ASSUME NEW d \in Seconds, archive'[d] # NoLog
        PROVE  archive[d] # NoLog /\ archive'[d] <= archive[d]
    <3>1. archive[d] # NoLog /\ archive'[d] \in 0..archive[d]
      BY <2>1, <2>3 DEF Cut
    <3>2. archive[d] \in Nat
      BY <1>1, <3>1
    <3> QED
      BY <3>1, <3>2
  <2> QED
    BY <2>1, <2>2, <2>3
<1>5. L!LoseEnds
  BY <1>1, <1>2, <1>3, <1>4 DEF L!LoseEnds
<1> QED
  BY <1>5 DEF L!Next

LEMMA RestartLogs == ASSUME RecorderInv, Restart PROVE L!Next
<1>1. /\ RecorderStopped /\ pc' = "open"
      /\ received' = <<>> /\ session' = NoLog /\ file' = <<>>
      /\ archive' = IF session = NoLog THEN archive
                    ELSE [archive EXCEPT ![session] = Len(file)]
      /\ running \in BOOLEAN
  BY DEF Restart, RecorderInv, RecorderTypeOK
<1>2. Phase \in {"ready", "complete", "over"} /\ Phase' = "ready"
  BY <1>1 DEF RecorderStopped, Phase
<1>3. L!StartOver
  BY <1>1, <1>2 DEF L!StartOver
<1> QED
  BY <1>3 DEF L!Next

LEMMA LogStep ==
  ASSUME RecorderInv, [RecorderNext]_recorderVars
  PROVE  [L!Next]_(L!flightLog)
<1>1. CASE UNCHANGED recorderVars
  BY <1>1 DEF recorderVars, recorder, tlog, L!flightLog, Phase
<1> QED
  BY <1>1, OpenLogs, ControlLogs, ReadBytesLogs, WriteFrameLogs, CloseLogs, KillLogs,
     PowerCutLogs, RestartLogs DEF RecorderNext, RecorderStep

(* Every behaviour of the recorder is one of FlightLog: an append-only log  *)
(* that is behind what was received only while a batch is being written.   *)
THEOREM FlightLogImplemented == RecorderSpec => ImplementsFlightLog
<1>1. RecorderInv /\ [RecorderNext]_recorderVars => [L!Next]_(L!flightLog)
  BY LogStep
<1> QED
  BY <1>1, LogInit, RecorderInvariant, PTL DEF RecorderSpec, ImplementsFlightLog, L!Spec

-----------------------------------------------------------------------------
(* The records of a message *)

LEMMA Least ==
  ASSUME NEW D, D \subseteq Nat, D # {}
  PROVE  \E d \in D : \A e \in D : d <= e
<1>1. PICK d \in D : \A e \in D : ~(<<e, d>> \in OpToRel(<, Nat))
  BY WFMin, NatLessThanWellFounded, Zenon
<1>2. \A e \in D : ~(e < d)
  BY <1>1 DEF OpToRel
<1> QED
  BY <1>2

(* k[i] holds the wanted ones of the first i frames of s, for i up to n. *)
Kept(m, s, k, n) ==
  k = [i \in 0..n |->
         IF i = 0 THEN <<>>
         ELSE IF Wanted(m, s[i]) THEN Append(k[i - 1], s[i])
         ELSE k[i - 1]]

LEMMA KeptAt ==
  ASSUME NEW m, NEW s, NEW k, NEW n, Kept(m, s, k, n), NEW i \in 0..n
  PROVE  k[i] = IF i = 0 THEN <<>>
                ELSE IF Wanted(m, s[i]) THEN Append(k[i - 1], s[i])
                ELSE k[i - 1]
BY DEF Kept

LEMMA KeptExists ==
  ASSUME NEW m, NEW s, NEW n \in Nat
  PROVE  \E k : Kept(m, s, k, n)
<1> DEFINE D == {d \in Nat : ~\E k : Kept(m, s, k, d)}
<1> SUFFICES ASSUME D # {} PROVE FALSE
  OBVIOUS
<1>1. PICK d \in D : \A e \in D : d <= e
  <2>1. D \subseteq Nat
    OBVIOUS
  <2> HIDE DEF D
  <2> QED
    BY <2>1, Least
<1>2. d \in Nat /\ ~\E k : Kept(m, s, k, d)
  OBVIOUS
<1>3. CASE d = 0
  <2> DEFINE k == [i \in 0..0 |-> <<>>]
  <2>1. Kept(m, s, k, 0)
    BY DEF Kept
  <2> QED
    BY <1>2, <1>3, <2>1
<1>4. CASE d # 0
  <2>1. d - 1 \in Nat /\ d - 1 \notin D
    BY <1>1, <1>2, <1>4
  <2>2. PICK k : Kept(m, s, k, d - 1)
    BY <2>1
  <2> DEFINE g == [i \in 0..d |->
                     IF i = 0 THEN <<>>
                     ELSE IF Wanted(m, s[i]) THEN Append(k[i - 1], s[i])
                     ELSE k[i - 1]]
  <2>3. \A i \in 0..(d - 1) : g[i] = k[i]
    <3> TAKE i \in 0..(d - 1)
    <3>1. i \in 0..d
      BY <1>2
    <3> QED
      BY <2>2, <3>1, KeptAt
  <2>4. \A i \in 0..d : i # 0 => i - 1 \in 0..(d - 1)
    BY <1>2
  <2>5. g = [i \in 0..d |->
               IF i = 0 THEN <<>>
               ELSE IF Wanted(m, s[i]) THEN Append(g[i - 1], s[i])
               ELSE g[i - 1]]
    <3>1. \A i \in 0..d : i # 0 => g[i - 1] = k[i - 1]
      BY <2>3, <2>4
    <3> QED
      BY <3>1
  <2>6. Kept(m, s, g, d)
    BY <2>5 DEF Kept
  <2> QED
    BY <1>2, <2>6
<1> QED
  BY <1>3, <1>4

(* It depends on these frames only. *)
LEMMA KeptUnique ==
  ASSUME NEW m, NEW s, NEW t, NEW k, NEW j, NEW n \in Nat, NEW p \in Nat,
         n <= p, Kept(m, s, k, n), Kept(m, t, j, p),
         \A i \in 1..n : s[i] = t[i]
  PROVE  \A i \in 0..n : k[i] = j[i]
<1> DEFINE D == {i \in 0..n : k[i] # j[i]}
<1> SUFFICES ASSUME D # {} PROVE FALSE
  OBVIOUS
<1>1. PICK d \in D : \A e \in D : d <= e
  <2>1. D \subseteq Nat
    OBVIOUS
  <2> HIDE DEF D
  <2> QED
    BY <2>1, Least
<1>2. d \in 0..n /\ d \in 0..p /\ k[d] # j[d]
  OBVIOUS
<1>3. d # 0 => d - 1 \in 0..n /\ d - 1 \notin D /\ d \in 1..n
  BY <1>1, <1>2
<1>4. d # 0 => k[d - 1] = j[d - 1] /\ s[d] = t[d]
  BY <1>3
<1>5. /\ k[d] = IF d = 0 THEN <<>>
                ELSE IF Wanted(m, s[d]) THEN Append(k[d - 1], s[d])
                ELSE k[d - 1]
      /\ j[d] = IF d = 0 THEN <<>>
                ELSE IF Wanted(m, t[d]) THEN Append(j[d - 1], t[d])
                ELSE j[d - 1]
  BY <1>2, KeptAt
<1> QED
  BY <1>2, <1>4, <1>5

LEMMA SelectionKept ==
  ASSUME NEW m, NEW s \in Seq(Frames)
  PROVE  \E k : Kept(m, s, k, Len(s)) /\ Selection(m, s) = k[Len(s)]
<1> DEFINE k == CHOOSE k : Kept(m, s, k, Len(s))
<1>1. Len(s) \in Nat
  OBVIOUS
<1>2. Kept(m, s, k, Len(s))
  BY <1>1, KeptExists
<1>3. Selection(m, s) = k[Len(s)]
  BY DEF Selection, Kept
<1> QED
  BY <1>2, <1>3

(* One more frame is read. *)
LEMMA SelectionStep ==
  ASSUME NEW m, NEW s \in Seq(Frames)
  PROVE  /\ Selection(m, <<>>) = <<>>
         /\ \A n \in 0..(Len(s) - 1) :
              LET before == Selection(m, SubSeq(s, 1, n))
                  f == s[n + 1]
              IN  Selection(m, SubSeq(s, 1, n + 1)) =
                    IF Wanted(m, f) THEN Append(before, f) ELSE before
<1>1. Selection(m, <<>>) = <<>>
  <2>1. <<>> \in Seq(Frames) /\ Len(<<>>) = 0
    OBVIOUS
  <2>2. PICK k : Kept(m, <<>>, k, 0) /\ Selection(m, <<>>) = k[0]
    BY <2>1, SelectionKept
  <2>3. 0 \in 0..0
    OBVIOUS
  <2> QED
    BY <2>2, <2>3, KeptAt
<1>2. ASSUME NEW n \in 0..(Len(s) - 1)
      PROVE  LET before == Selection(m, SubSeq(s, 1, n))
                 f == s[n + 1]
             IN  Selection(m, SubSeq(s, 1, n + 1)) =
                   IF Wanted(m, f) THEN Append(before, f) ELSE before
  <2> DEFINE b == SubSeq(s, 1, n)
             a == SubSeq(s, 1, n + 1)
  <2>1. /\ b \in Seq(Frames) /\ Len(b) = n /\ \A i \in 1..n : b[i] = s[i]
        /\ a \in Seq(Frames) /\ Len(a) = n + 1
        /\ \A i \in 1..(n + 1) : a[i] = s[i]
        /\ n \in Nat /\ n + 1 \in 1..(n + 1) /\ n + 1 \in Nat
    OBVIOUS
  <2> HIDE DEF a, b
  <2>2. PICK k : Kept(m, b, k, n) /\ Selection(m, b) = k[n]
    BY <2>1, SelectionKept
  <2>3. PICK j : Kept(m, a, j, n + 1) /\ Selection(m, a) = j[n + 1]
    BY <2>1, SelectionKept
  <2>4. \A i \in 1..n : b[i] = a[i]
    BY <2>1
  <2>5. k[n] = j[n]
    BY <2>1, <2>2, <2>3, <2>4, KeptUnique
  <2>6. n + 1 \in 0..(n + 1) /\ n + 1 # 0 /\ (n + 1) - 1 = n
    BY <2>1
  <2>7. j[n + 1] = IF Wanted(m, a[n + 1]) THEN Append(j[n], a[n + 1])
                   ELSE j[n]
    BY <2>3, <2>6, KeptAt
  <2> QED
    BY <2>1, <2>2, <2>3, <2>5, <2>7 DEF a, b
<1> QED
  BY <1>1, <1>2

(* Records with a property, counted up to n *)
LEMMA CountNext ==
  ASSUME NEW T, NEW n \in Nat
  PROVE  /\ IsFiniteSet(T \cap (1..n)) /\ Cardinality(T \cap (1..n)) \in Nat
         /\ Cardinality(T \cap (1..(n + 1))) =
              Cardinality(T \cap (1..n)) + IF n + 1 \in T THEN 1 ELSE 0
<1> DEFINE A == T \cap (1..n)
           B == T \cap (1..(n + 1))
<1>1. IsFiniteSet(A)
  <2>1. IsFiniteSet(1..n)
    BY FS_Interval
  <2> QED
    BY <2>1, FS_Subset
<1>2. n + 1 \notin A
  OBVIOUS
<1>3. n + 1 \in T => B = A \cup {n + 1}
  OBVIOUS
<1>4. n + 1 \notin T => B = A
  OBVIOUS
<1> HIDE DEF A, B
<1>5. Cardinality(A) \in Nat
  BY <1>1, FS_CardinalityType
<1>6. Cardinality(A \cup {n + 1}) = Cardinality(A) + 1
  BY <1>1, <1>2, FS_AddElement
<1>7. Cardinality(B) = Cardinality(A) + IF n + 1 \in T THEN 1 ELSE 0
  <2>1. CASE n + 1 \in T
    BY <1>3, <1>6, <2>1
  <2>2. CASE n + 1 \notin T
    BY <1>4, <1>5, <2>2
  <2> QED
    BY <2>1, <2>2
<1> QED
  BY <1>1, <1>5, <1>7 DEF A, B

-----------------------------------------------------------------------------
(* The loader: what the next record changes *)

nread == stats.records_read

(* A record is read and counted with its outcomes. *)
RecordRead(outcomes) ==
  /\ More
  /\ stats' = Counted(outcomes)
  /\ UNCHANGED <<result, tlog>>

LEMMA CountersStep ==
  ASSUME LoaderInv, file \in Seq(Frames), NEW outcomes \in SUBSET Counters,
         "records_read" \notin outcomes, RecordRead(outcomes)
  PROVE  /\ nread \in Nat /\ nread < Len(file) /\ nread' = nread + 1 /\ nread + 1 \in 1..Len(file)
         /\ UNCHANGED <<result, file, tail, buffer>> /\ result = "loading"
         /\ Record = file[nread + 1] /\ Record \in Frames
         /\ \A c \in Counters : stats[c] \in Nat /\ stats'[c] \in Nat
         /\ \A c \in outcomes : stats'[c] = stats[c] + 1
         /\ \A c \in Counters \ (outcomes \cup {"records_read"}) :
              stats'[c] = stats[c]
         /\ stats' \in [Counters -> 0..Len(file)]
         /\ \A c \in Counters : stats'[c] <= nread'
<1>1. /\ UNCHANGED <<result, file, tail, buffer>> /\ result = "loading"
      /\ nread < Len(file) /\ Record = file[nread + 1]
      /\ stats' = Counted(outcomes)
  BY DEF RecordRead, More, Record, tlog, nread
<1>2. /\ stats \in [Counters -> 0..Len(file)]
      /\ \A c \in Counters : stats[c] <= nread
      /\ "records_read" \in Counters /\ Len(file) \in Nat
  BY DEF LoaderInv, LoaderTypeOK, Counters, nread
<1>3. nread = stats["records_read"] /\ nread' = stats'["records_read"]
  BY DEF nread
<1>4. /\ DOMAIN stats' = Counters
      /\ \A c \in Counters :
           stats'[c] = stats[c]
                         + IF c \in outcomes \cup {"records_read"} THEN 1 ELSE 0
  BY <1>1, <1>2 DEF Counted
<1>5. nread \in Nat /\ nread' = nread + 1 /\ nread + 1 \in 1..Len(file)
  BY <1>1, <1>2, <1>3, <1>4
<1>6. \A c \in Counters : stats[c] \in Nat /\ stats'[c] \in Nat
  BY <1>2, <1>4
<1>7. \A c \in Counters : stats'[c] <= nread'
  BY <1>2, <1>4, <1>5, <1>6
<1>8. stats' \in [Counters -> 0..Len(file)]
  <2>1. \A c \in Counters : stats'[c] \in 0..Len(file)
    BY <1>1, <1>2, <1>5, <1>6, <1>7
  <2>2. stats' = [c \in Counters |-> stats'[c]]
    BY <1>1, <1>2 DEF Counted
  <2> QED
    BY <2>1, <2>2
<1>9. \A c \in outcomes : stats'[c] = stats[c] + 1
  BY <1>4
<1>10. \A c \in Counters \ (outcomes \cup {"records_read"}) :
         stats'[c] = stats[c]
  BY <1>4, <1>6
<1> QED
  BY <1>1, <1>5, <1>6, <1>7, <1>8, <1>9, <1>10

(* The records with a property: Records(P) by the set of positions with it *)
LEMMA RecordsStep ==
  ASSUME NEW T, nread \in Nat, nread' = nread + 1
  PROVE  /\ Cardinality(T \cap (1..nread)) \in Nat
         /\ Cardinality(T \cap (1..nread')) =
              Cardinality(T \cap (1..nread)) + IF nread + 1 \in T THEN 1 ELSE 0
BY CountNext

Unwanted == {i \in Nat : ValidFrame(file[i]) /\ file[i].msgid \notin StoredMessages}
OfType(m) == {i \in Nat : file[i].msgid = m}

(* StatsAddUp and UnknownCountsExact by these sets *)
LEMMA CountsAsSets ==
  ASSUME nread \in Nat
  PROVE  /\ Records(LAMBDA f : ValidFrame(f) /\ f.msgid \notin StoredMessages)
              = Unwanted \cap (1..nread)
         /\ \A m : Records(LAMBDA f : f.msgid = m) = OfType(m) \cap (1..nread)
<1>1. \A i \in 1..nread : i \in Nat
  OBVIOUS
<1> QED
  BY <1>1 DEF Records, Unwanted, OfType, nread

(* What StatsAddUp says of the counters and of the arrays *)
Sums ==
  /\ nread = stats.unknown_crc + stats.invalid_crc + stats.valid_frames
  /\ stats.valid_frames = Cardinality(Decoded) + stats.decode_failures
       + Cardinality(Unwanted \cap (1..nread))

Arrays ==
  stats.decode_failures = 0 =>
    \A m \in StoredMessages : samples[m] = Selection(m, Read)

LEMMA StatsParts ==
  ASSUME nread \in Nat
  PROVE  StatsAddUp <=> Sums /\ Arrays
BY CountsAsSets DEF StatsAddUp, Sums, Arrays, DecodedTotal, nread

Table ==
  /\ \A i, j \in DOMAIN unknown_messages :
       unknown_messages[i].msgid = unknown_messages[j].msgid => i = j
  /\ \A i \in DOMAIN unknown_messages :
       unknown_messages[i].count =
         Cardinality(OfType(unknown_messages[i].msgid) \cap (1..nread))
  /\ Len(unknown_messages) < MaxUnknownTypes =>
       \A i \in 1..nread : KnownFrame(file[i]) \/ Listed(file[i].msgid)

LEMMA TableParts ==
  ASSUME nread \in Nat
  PROVE  UnknownCountsExact <=> Table
BY CountsAsSets DEF UnknownCountsExact, Table, nread

(* The arrays hold the selection still, if the record is added to its array *)
(* exactly when it is wanted or its failure is counted.                    *)
LEMMA ReadStep ==
  ASSUME file \in Seq(Frames), file' = file, nread \in Nat, nread' = nread + 1,
         nread + 1 \in 1..Len(file), Record = file[nread + 1], NEW m
  PROVE  Selection(m, Read') = IF Wanted(m, Record)
                               THEN Append(Selection(m, Read), Record)
                               ELSE Selection(m, Read)
<1>1. nread \in 0..(Len(file) - 1)
  OBVIOUS
<1>2. Read = SubSeq(file, 1, nread) /\ Read' = SubSeq(file, 1, nread + 1)
  BY DEF Read, nread
<1> QED
  BY <1>1, <1>2, SelectionStep

(* What LoaderInv says of the table and of the arrays *)
Entries == [msgid : {f.msgid : f \in Frames} \ KnownMessages, count : Nat]

TableOK ==
  /\ unknown_messages \in Seq(Entries)
  /\ Len(unknown_messages) <= MaxUnknownTypes
  /\ Table

ArraysOK ==
  /\ samples \in [StoredMessages -> Seq(Frames)]
  /\ capacity \in [StoredMessages -> Nat]
  /\ \A m \in StoredMessages : Len(samples[m]) <= capacity[m]
  /\ IsFiniteSet(Decoded)
  /\ Sums /\ Arrays

(* A known record leaves the table alone: it lists other types. *)
LEMMA KnownTable ==
  ASSUME TableOK, nread \in Nat, nread' = nread + 1, file' = file,
         unknown_messages' = unknown_messages,
         Record = file[nread + 1], KnownFrame(Record)
  PROVE  TableOK'
<1>1. \A m : OfType(m)' = OfType(m)
  BY DEF OfType
<1>2. ASSUME NEW i \in DOMAIN unknown_messages
      PROVE  nread + 1 \notin OfType(unknown_messages[i].msgid)
  <2>1. unknown_messages[i] \in Entries
    BY DEF TableOK
  <2>2. unknown_messages[i].msgid \notin KnownMessages
    BY <2>1 DEF Entries
  <2> QED
    BY <2>2 DEF OfType, KnownFrame
<1>3. ASSUME NEW i \in DOMAIN unknown_messages
      PROVE  unknown_messages[i].count =
               Cardinality(OfType(unknown_messages[i].msgid) \cap (1..nread'))
  <2> DEFINE T == OfType(unknown_messages[i].msgid)
  <2>1. /\ Cardinality(T \cap (1..nread)) \in Nat
        /\ Cardinality(T \cap (1..nread')) =
             Cardinality(T \cap (1..nread)) + IF nread + 1 \in T THEN 1 ELSE 0
    BY RecordsStep
  <2>2. nread + 1 \notin T
    BY <1>2
  <2>3. unknown_messages[i].count = Cardinality(T \cap (1..nread))
    BY DEF TableOK, Table
  <2> HIDE DEF T
  <2>4. unknown_messages[i].count = Cardinality(T \cap (1..nread'))
    BY <2>1, <2>2, <2>3
  <2> QED
    BY <2>4 DEF T
<1>4. \A i \in 1..nread' : i \in 1..nread \/ i = nread + 1
  OBVIOUS
<1>5. Len(unknown_messages) < MaxUnknownTypes =>
        \A i \in 1..nread' : KnownFrame(file[i]) \/ Listed(file[i].msgid)
  BY <1>4 DEF TableOK, Table
<1>6. Table'
  BY <1>1, <1>3, <1>5 DEF Table, TableOK, Listed
<1> QED
  BY <1>6 DEF TableOK

(* An unknown one is counted under its type, which is entered with its      *)
(* first record unless the table is full for good.                         *)
LEMMA UnknownTable ==
  ASSUME TableOK, nread \in Nat, nread' = nread + 1, file' = file,
         Record = file[nread + 1], Record \in Frames, ~KnownFrame(Record),
         unknown_messages' = CountUnknown(Record.msgid)
  PROVE  TableOK'
<1> DEFINE u == unknown_messages
           m == Record.msgid
           C(t) == Cardinality(OfType(t) \cap (1..nread))
           D(t) == Cardinality(OfType(t) \cap (1..nread'))
<1>1. \A t : OfType(t)' = OfType(t)
  BY DEF OfType
<1>2. m \in {f.msgid : f \in Frames} \ KnownMessages
  BY DEF KnownFrame
<1>3. nread + 1 \in OfType(m) /\ \A t : t # m => nread + 1 \notin OfType(t)
  BY DEF OfType
<1>4. /\ u \in Seq(Entries) /\ Len(u) \in Nat /\ DOMAIN u = 1..Len(u)
      /\ Len(u) <= MaxUnknownTypes /\ MaxUnknownTypes \in Nat
      /\ \A i \in DOMAIN u : u[i] \in Entries
  BY LoaderAssumption DEF TableOK
<1>5. \A t : /\ C(t) \in Nat
             /\ t # m => D(t) = C(t)
             /\ D(m) = C(m) + 1
  <2> TAKE t
  <2>1. /\ Cardinality(OfType(t) \cap (1..nread)) \in Nat
        /\ Cardinality(OfType(t) \cap (1..nread')) =
             Cardinality(OfType(t) \cap (1..nread))
               + IF nread + 1 \in OfType(t) THEN 1 ELSE 0
    BY RecordsStep
  <2>2. /\ Cardinality(OfType(m) \cap (1..nread)) \in Nat
        /\ Cardinality(OfType(m) \cap (1..nread')) =
             Cardinality(OfType(m) \cap (1..nread))
               + IF nread + 1 \in OfType(m) THEN 1 ELSE 0
    BY RecordsStep
  <2> QED
    BY <1>3, <2>1, <2>2
<1>6. \A i \in 1..nread' : i \in 1..nread \/ i = nread + 1
  OBVIOUS
<1>7. /\ \A i, j \in DOMAIN u : u[i].msgid = u[j].msgid => i = j
      /\ \A i \in DOMAIN u : u[i].count = C(u[i].msgid)
      /\ Len(u) < MaxUnknownTypes =>
           \A i \in 1..nread : KnownFrame(file[i]) \/ Listed(file[i].msgid)
  BY DEF TableOK, Table
<1>8. CASE Listed(m)
  <2>1. unknown_messages' = [i \in DOMAIN u |->
          IF u[i].msgid = m THEN [u[i] EXCEPT !.count = @ + 1] ELSE u[i]]
    BY <1>8 DEF CountUnknown
  <2>2. \A i \in DOMAIN u :
          /\ unknown_messages'[i].msgid = u[i].msgid
          /\ unknown_messages'[i].count =
               IF u[i].msgid = m THEN u[i].count + 1 ELSE u[i].count
          /\ unknown_messages'[i] \in Entries
    BY <1>4, <2>1 DEF Entries
  <2>3. DOMAIN unknown_messages' = DOMAIN u
    BY <2>1
  <2>4. unknown_messages' \in Seq(Entries) /\ Len(unknown_messages') = Len(u)
    BY <1>4, <2>1, <2>2
  <2>5. \A i \in DOMAIN unknown_messages' :
          unknown_messages'[i].count = D(unknown_messages'[i].msgid)
    <3> HIDE DEF C, D
    <3> TAKE i \in DOMAIN unknown_messages'
    <3>1. u[i].count = C(u[i].msgid)
      BY <1>7, <2>3
    <3>2. CASE u[i].msgid = m
      BY <1>5, <2>2, <2>3, <3>1, <3>2
    <3>3. CASE u[i].msgid # m
      BY <1>5, <2>2, <2>3, <3>1, <3>3
    <3> QED
      BY <3>2, <3>3
  <2>6. \A t : Listed(t)' <=> Listed(t)
    BY <2>2, <2>3 DEF Listed
  <2>7. Table'
    BY <1>1, <1>6, <1>7, <1>8, <2>2, <2>3, <2>4, <2>5, <2>6 DEF Table
  <2> QED
    BY <1>4, <2>4, <2>7 DEF TableOK
<1>9. CASE ~Listed(m) /\ Len(u) < MaxUnknownTypes
  <2> DEFINE e == [msgid |-> m, count |-> 1]
  <2>1. unknown_messages' = Append(u, e) /\ e \in Entries
        /\ e.msgid = m /\ e.count = 1
    BY <1>2, <1>9 DEF CountUnknown, Entries
  <2> HIDE DEF e
  <2>2. /\ unknown_messages' \in Seq(Entries)
        /\ Len(unknown_messages') = Len(u) + 1
        /\ DOMAIN unknown_messages' = 1..(Len(u) + 1)
        /\ unknown_messages'[Len(u) + 1] = e
        /\ \A i \in DOMAIN u : unknown_messages'[i] = u[i]
    BY <1>4, <2>1, AppendProperties
  <2>3. \A i \in DOMAIN unknown_messages' : i \in DOMAIN u \/ i = Len(u) + 1
    BY <1>4, <2>2
  <2>4. \A i \in DOMAIN u : u[i].msgid # m
    BY <1>9 DEF Listed
  <2>5. C(m) = 0
    <3>1. \A i \in 1..nread : file[i].msgid # m
      BY <1>2, <1>7, <1>9 DEF KnownFrame
    <3>2. OfType(m) \cap (1..nread) = {}
      BY <3>1 DEF OfType
    <3> QED
      BY <3>2, FS_EmptySet
  <2>6. \A i \in DOMAIN unknown_messages' :
          unknown_messages'[i].count = D(unknown_messages'[i].msgid)
    <3> HIDE DEF C, D
    <3> TAKE i \in DOMAIN unknown_messages'
    <3>1. CASE i \in DOMAIN u
      BY <1>5, <1>7, <2>2, <2>4, <3>1
    <3>2. CASE i = Len(u) + 1
      BY <1>5, <2>1, <2>2, <2>5, <3>2
    <3> QED
      BY <2>3, <3>1, <3>2
  <2>7. \A i, j \in DOMAIN unknown_messages' :
          unknown_messages'[i].msgid = unknown_messages'[j].msgid => i = j
    BY <1>7, <2>1, <2>2, <2>3, <2>4
  <2>8. \A t : Listed(t) \/ t = m => Listed(t)'
    <3>1. Len(u) + 1 \in DOMAIN unknown_messages'
          /\ \A i \in DOMAIN u : i \in DOMAIN unknown_messages'
      BY <1>4, <2>2
    <3> QED
      BY <2>1, <2>2, <3>1 DEF Listed
  <2>9. \A i \in 1..nread' : KnownFrame(file[i]) \/ Listed(file[i].msgid)'
    BY <1>6, <1>7, <1>9, <2>8
  <2>10. Table'
    BY <1>1, <2>6, <2>7, <2>9 DEF Table, Listed
  <2> QED
    BY <1>4, <1>9, <2>2, <2>10 DEF TableOK
<1>10. CASE ~Listed(m) /\ ~(Len(u) < MaxUnknownTypes)
  <2>1. unknown_messages' = u
    BY <1>10 DEF CountUnknown
  <2>2. \A i \in DOMAIN u : u[i].msgid # m
    BY <1>10 DEF Listed
  <2>3. Table'
    BY <1>1, <1>5, <1>7, <1>10, <2>1, <2>2 DEF Table
  <2> QED
    BY <2>1, <2>3 DEF TableOK
<1> QED
  BY <1>8, <1>9, <1>10

-----------------------------------------------------------------------------
(* The steps of the loader *)

(* LoaderInv with the tables and the arrays as the lemmas above have them. *)
LoaderPartsOK ==
  /\ result \in {"loading", "ok", "error"}
  /\ stats \in [Counters -> 0..Len(file)]
  /\ \A c \in Counters : stats[c] <= nread
  /\ TableOK
  /\ ArraysOK
  /\ result = "ok" => nread = Len(file) /\ tail = NoFrame

LEMMA LoaderIsParts == file \in Seq(Frames) => (LoaderInv <=> LoaderPartsOK)
<1> SUFFICES ASSUME file \in Seq(Frames)
             PROVE  LoaderInv <=> LoaderPartsOK
  OBVIOUS
<1>1. ASSUME stats \in [Counters -> 0..Len(file)] PROVE nread \in Nat
  BY <1>1 DEF nread, Counters
<1>2. ASSUME stats \in [Counters -> 0..Len(file)]
      PROVE  (StatsAddUp <=> Sums /\ Arrays) /\ (UnknownCountsExact <=> Table)
  BY <1>1, <1>2, StatsParts, TableParts
<1> QED
  BY <1>2 DEF LoaderInv, LoaderTypeOK, LoaderPartsOK, TableOK, ArraysOK,
              Entries, nread

LEMMA LoaderIsPartsNext ==
  (file \in Seq(Frames))' => (LoaderInv' <=> LoaderPartsOK')
<1>1. (file \in Seq(Frames) => (LoaderInv <=> LoaderPartsOK))'
  BY LoaderIsParts, PTL
<1> QED
  BY <1>1

LEMMA LoaderParts ==
  ASSUME file \in Seq(Frames), LoaderInv
  PROVE  /\ result \in {"loading", "ok", "error"}
         /\ stats \in [Counters -> 0..Len(file)]
         /\ \A c \in Counters : stats[c] <= nread
         /\ TableOK
         /\ ArraysOK
         /\ result = "ok" => nread = Len(file) /\ tail = NoFrame
BY LoaderIsParts DEF LoaderPartsOK

(* A record whose outcome leaves the arrays alone: it is not wanted, or its *)
(* failure is counted.                                                     *)
LEMMA SkippedRecord ==
  ASSUME LoaderInv, file \in Seq(Frames), NEW outcomes \in SUBSET Counters,
         "records_read" \notin outcomes, RecordRead(outcomes),
         UNCHANGED <<samples, capacity>>,
         \/ outcomes = {"unknown_crc"} /\ ~ValidFrame(Record)
         \/ outcomes = {"invalid_crc"} /\ ~ValidFrame(Record)
         \/ /\ outcomes = {"valid_frames"} /\ ValidFrame(Record)
            /\ Record.msgid \notin StoredMessages
         \/ /\ outcomes = {"valid_frames", "decode_failures"}
            /\ ValidFrame(Record) /\ Record.msgid \in StoredMessages
  PROVE  ArraysOK'
<1>1. /\ nread \in Nat /\ nread' = nread + 1 /\ nread + 1 \in 1..Len(file)
      /\ file' = file /\ Record = file[nread + 1]
      /\ \A c \in Counters : stats[c] \in Nat /\ stats'[c] \in Nat
      /\ \A c \in outcomes : stats'[c] = stats[c] + 1
      /\ \A c \in Counters \ (outcomes \cup {"records_read"}) :
           stats'[c] = stats[c]
  BY CountersStep
<1>2. ArraysOK
  BY LoaderParts
<1>3. Decoded' = Decoded /\ Unwanted' = Unwanted
  BY <1>1 DEF Decoded, Unwanted
<1> DEFINE C == Cardinality(Unwanted \cap (1..nread))
           D == Cardinality(Unwanted \cap (1..nread'))
           d == Cardinality(Decoded)
<1>4. C \in Nat /\ D = C + IF nread + 1 \in Unwanted THEN 1 ELSE 0
  BY <1>1, RecordsStep
<1>5. d \in Nat
  BY <1>2, FS_CardinalityType DEF ArraysOK
<1>6. nread + 1 \in Unwanted <=>
        ValidFrame(Record) /\ Record.msgid \notin StoredMessages
  BY <1>1 DEF Unwanted
<1>7. /\ nread = stats["unknown_crc"] + stats["invalid_crc"] + stats["valid_frames"]
      /\ stats["valid_frames"] = d + stats["decode_failures"] + C
  BY <1>2 DEF ArraysOK, Sums
<1> HIDE DEF C, D, d
<1>8. /\ nread' = stats'["unknown_crc"] + stats'["invalid_crc"]
                    + stats'["valid_frames"]
      /\ stats'["valid_frames"] = d + stats'["decode_failures"] + D
  <2> DEFINE u == stats["unknown_crc"]
             i == stats["invalid_crc"]
             v == stats["valid_frames"]
             e == stats["decode_failures"]
  <2>1. u \in Nat /\ i \in Nat /\ v \in Nat /\ e \in Nat
    BY <1>1 DEF Counters
  <2>2. nread = u + i + v /\ v = d + e + C
    BY <1>7
  <2>3. CASE outcomes = {"unknown_crc"} /\ ~ValidFrame(Record)
    <3>1. /\ stats'["unknown_crc"] = u + 1 /\ stats'["invalid_crc"] = i
          /\ stats'["valid_frames"] = v /\ stats'["decode_failures"] = e
      BY <1>1, <2>3 DEF Counters
    <3>2. D = C
      BY <1>4, <1>6, <2>3
    <3> HIDE DEF u, i, v, e
    <3> QED
      BY <1>1, <1>4, <1>5, <2>1, <2>2, <3>1, <3>2
  <2>4. CASE outcomes = {"invalid_crc"} /\ ~ValidFrame(Record)
    <3>1. /\ stats'["unknown_crc"] = u /\ stats'["invalid_crc"] = i + 1
          /\ stats'["valid_frames"] = v /\ stats'["decode_failures"] = e
      BY <1>1, <2>4 DEF Counters
    <3>2. D = C
      BY <1>4, <1>6, <2>4
    <3> HIDE DEF u, i, v, e
    <3> QED
      BY <1>1, <1>4, <1>5, <2>1, <2>2, <3>1, <3>2
  <2>5. CASE /\ outcomes = {"valid_frames"} /\ ValidFrame(Record)
             /\ Record.msgid \notin StoredMessages
    <3>1. /\ stats'["unknown_crc"] = u /\ stats'["invalid_crc"] = i
          /\ stats'["valid_frames"] = v + 1 /\ stats'["decode_failures"] = e
      BY <1>1, <2>5 DEF Counters
    <3>2. D = C + 1
      BY <1>4, <1>6, <2>5
    <3> HIDE DEF u, i, v, e
    <3> QED
      BY <1>1, <1>4, <1>5, <2>1, <2>2, <3>1, <3>2
  <2>6. CASE /\ outcomes = {"valid_frames", "decode_failures"}
             /\ ValidFrame(Record) /\ Record.msgid \in StoredMessages
    <3>1. /\ stats'["unknown_crc"] = u /\ stats'["invalid_crc"] = i
          /\ stats'["valid_frames"] = v + 1 /\ stats'["decode_failures"] = e + 1
      BY <1>1, <2>6 DEF Counters
    <3>2. D = C
      BY <1>4, <1>6, <2>6
    <3> HIDE DEF u, i, v, e
    <3> QED
      BY <1>1, <1>4, <1>5, <2>1, <2>2, <3>1, <3>2
  <2> QED
    BY <2>3, <2>4, <2>5, <2>6
<1>9. Sums'
  BY <1>3, <1>8 DEF Sums, D, d
<1>10. Arrays'
  <2> SUFFICES ASSUME stats'["decode_failures"] = 0,
                      NEW m \in StoredMessages
               PROVE  samples[m] = Selection(m, Read')
    BY DEF Arrays
  <2>1. "decode_failures" \notin outcomes /\ stats["decode_failures"] = 0
    BY <1>1 DEF Counters
  <2>2. ~Wanted(m, Record)
    BY <2>1 DEF Wanted
  <2>3. samples[m] = Selection(m, Read)
    BY <1>2, <2>1 DEF ArraysOK, Arrays
  <2> QED
    BY <1>1, <2>2, <2>3, ReadStep
<1> QED
  BY <1>2, <1>3, <1>9, <1>10 DEF ArraysOK

LEMMA OneMorePair ==
  ASSUME NEW k, NEW S, NEW x
  PROVE  {k} \X (S \cup {x}) = ({k} \X S) \cup {<<k, x>>}
OBVIOUS

(* A record that is decoded is the next one of its array, for which there   *)
(* is room.                                                                *)
LEMMA StoredArrays ==
  ASSUME LoaderInv, file \in Seq(Frames), StoredRecord
  PROVE  ArraysOK'
<1>0. {"valid_frames"} \in SUBSET Counters /\ "records_read" \notin {"valid_frames"}
      /\ RecordRead({"valid_frames"})
  BY DEF StoredRecord, RecordRead, Counters
<1> DEFINE f == Record
           k == Record.msgid
<1>1. /\ nread \in Nat /\ nread' = nread + 1 /\ nread + 1 \in 1..Len(file)
      /\ file' = file /\ Record = file[nread + 1] /\ f \in Frames
      /\ \A c \in Counters : stats[c] \in Nat /\ stats'[c] \in Nat
      /\ stats'["valid_frames"] = stats["valid_frames"] + 1
      /\ \A c \in Counters \ {"valid_frames", "records_read"} :
           stats'[c] = stats[c]
  <2>1. Counters \ {"valid_frames", "records_read"}
          = Counters \ ({"valid_frames"} \cup {"records_read"})
    OBVIOUS
  <2> QED
    BY <1>0, <2>1, CountersStep
<1>2. ArraysOK
  BY LoaderParts
<1>3. /\ k \in StoredMessages /\ Wanted(k, f) /\ ValidFrame(f)
      /\ samples' = [samples EXCEPT ![k] = Append(@, f)]
      /\ capacity' = [capacity EXCEPT ![k] = GrownCapacity(k)]
  BY DEF StoredRecord, Add, Wanted
<1> HIDE DEF f, k
<1>4. /\ samples[k] \in Seq(Frames) /\ capacity[k] \in Nat
      /\ Len(samples[k]) <= capacity[k] /\ Len(samples[k]) \in Nat
      /\ samples \in [StoredMessages -> Seq(Frames)]
      /\ capacity \in [StoredMessages -> Nat]
  BY <1>2, <1>3 DEF ArraysOK
<1>5. /\ samples'[k] = Append(samples[k], f) /\ samples'[k] \in Seq(Frames)
      /\ Len(samples'[k]) = Len(samples[k]) + 1
      /\ DOMAIN samples'[k] = 1..(Len(samples[k]) + 1)
      /\ DOMAIN samples[k] = 1..Len(samples[k])
      /\ \A m \in StoredMessages \ {k} : samples'[m] = samples[m]
  BY <1>1, <1>3, <1>4, AppendProperties
<1>6. GrownCapacity(k) \in Nat /\ Len(samples[k]) + 1 <= GrownCapacity(k)
  BY <1>4, LoaderAssumption DEF GrownCapacity, Full
<1>7. samples' \in [StoredMessages -> Seq(Frames)]
      /\ capacity' \in [StoredMessages -> Nat]
  BY <1>3, <1>4, <1>5, <1>6
<1>8. \A m \in StoredMessages : Len(samples'[m]) <= capacity'[m]
  BY <1>2, <1>3, <1>4, <1>5, <1>6 DEF ArraysOK
<1>9. /\ Decoded' = Decoded \cup {<<k, Len(samples[k]) + 1>>}
      /\ <<k, Len(samples[k]) + 1>> \notin Decoded
  <2> DEFINE new == <<k, Len(samples[k]) + 1>>
  <2>1. ASSUME NEW m \in StoredMessages
        PROVE  {m} \X DOMAIN samples'[m] =
                 ({m} \X DOMAIN samples[m]) \cup IF m = k THEN {new} ELSE {}
    <3>1. CASE m = k
      <4>1. DOMAIN samples'[k] = DOMAIN samples[k] \cup {Len(samples[k]) + 1}
        <5> DEFINE l == Len(samples[k])
        <5>1. l \in Nat
          BY <1>4
        <5>2. DOMAIN samples'[k] = 1..(l + 1) /\ DOMAIN samples[k] = 1..l
          BY <1>5
        <5> HIDE DEF l
        <5>3. 1..(l + 1) = (1..l) \cup {l + 1}
          BY <5>1
        <5> QED
          BY <5>2, <5>3 DEF l
      <4>2. {k} \X (DOMAIN samples[k] \cup {Len(samples[k]) + 1})
              = ({k} \X DOMAIN samples[k]) \cup {new}
        BY OneMorePair
      <4> HIDE DEF new
      <4>3. {k} \X DOMAIN samples'[k] = ({k} \X DOMAIN samples[k]) \cup {new}
        BY <4>1, <4>2
      <4> QED
        BY <3>1, <4>3
    <3>2. CASE m # k
      BY <1>5, <3>2
    <3> QED
      BY <3>1, <3>2
  <2>2. new \notin Decoded
    <3>1. \A m \in StoredMessages : new \in {m} \X DOMAIN samples[m] =>
            m = k /\ Len(samples[k]) + 1 \in DOMAIN samples[k]
      OBVIOUS
    <3>2. Len(samples[k]) + 1 \notin DOMAIN samples[k]
      BY <1>4, <1>5
    <3> QED
      BY <3>1, <3>2 DEF Decoded
  <2> HIDE DEF new
  <2>3. Decoded' = Decoded \cup {new}
    BY <1>3, <2>1 DEF Decoded
  <2> QED
    BY <2>2, <2>3 DEF new
<1>10. /\ IsFiniteSet(Decoded') /\ Cardinality(Decoded) \in Nat
       /\ Cardinality(Decoded') = Cardinality(Decoded) + 1
  BY <1>2, <1>9, FS_AddElement, FS_CardinalityType DEF ArraysOK
<1>11. Sums'
  <2> DEFINE C == Cardinality(Unwanted \cap (1..nread))
             D == Cardinality(Unwanted \cap (1..nread'))
             d == Cardinality(Decoded)
  <2>1. Unwanted' = Unwanted /\ nread + 1 \notin Unwanted
    BY <1>1, <1>3 DEF Unwanted, f, k
  <2>2. C \in Nat /\ D = C + IF nread + 1 \in Unwanted THEN 1 ELSE 0
    BY <1>1, RecordsStep
  <2>3. /\ nread = stats["unknown_crc"] + stats["invalid_crc"]
                     + stats["valid_frames"]
        /\ stats["valid_frames"] = d + stats["decode_failures"] + C
    BY <1>2 DEF ArraysOK, Sums
  <2>4. d \in Nat
    BY <1>10
  <2> HIDE DEF C, D, d
  <2>5. /\ nread' = stats'["unknown_crc"] + stats'["invalid_crc"]
                      + stats'["valid_frames"]
        /\ stats'["valid_frames"] = (d + 1) + stats'["decode_failures"] + D
    <3>1. /\ stats'["unknown_crc"] = stats["unknown_crc"]
          /\ stats'["invalid_crc"] = stats["invalid_crc"]
          /\ stats'["valid_frames"] = stats["valid_frames"] + 1
          /\ stats'["decode_failures"] = stats["decode_failures"]
          /\ stats["unknown_crc"] \in Nat /\ stats["invalid_crc"] \in Nat
          /\ stats["valid_frames"] \in Nat /\ stats["decode_failures"] \in Nat
      BY <1>1 DEF Counters
    <3>2. D = C
      BY <2>1, <2>2
    <3>3. nread' = nread + 1
      BY <1>1
    <3> DEFINE u == stats["unknown_crc"]
               i == stats["invalid_crc"]
               v == stats["valid_frames"]
               e == stats["decode_failures"]
    <3>4. nread = u + i + v /\ v = d + e + C
      BY <2>3
    <3>5. u \in Nat /\ i \in Nat /\ v \in Nat /\ e \in Nat
      BY <3>1
    <3> HIDE DEF u, i, v, e
    <3>6. nread + 1 = u + i + (v + 1) /\ v + 1 = (d + 1) + e + D
      BY <2>2, <2>4, <3>2, <3>4, <3>5
    <3> QED
      BY <3>1, <3>3, <3>6 DEF u, i, v, e
  <2> QED
    BY <1>10, <2>1, <2>5 DEF Sums, D, d
<1>12. Arrays'
  <2> SUFFICES ASSUME stats'["decode_failures"] = 0,
                      NEW m \in StoredMessages
               PROVE  samples'[m] = Selection(m, Read')
    BY DEF Arrays
  <2>1. samples[m] = Selection(m, Read)
    BY <1>1, <1>2 DEF ArraysOK, Arrays, Counters
  <2>2. Selection(m, Read') = IF Wanted(m, f) THEN Append(Selection(m, Read), f)
                              ELSE Selection(m, Read)
    BY <1>1, ReadStep DEF f
  <2>3. Wanted(m, f) <=> m = k
    BY <1>3 DEF Wanted, k, f
  <2> QED
    BY <1>5, <2>1, <2>2, <2>3
<1> QED
  BY <1>7, <1>8, <1>10, <1>11, <1>12 DEF ArraysOK

(* No record is read. *)
LEMMA NothingRead ==
  ASSUME TableOK, ArraysOK,
         UNCHANGED <<stats, unknown_messages, samples, capacity, file>>
  PROVE  TableOK' /\ ArraysOK' /\ nread' = nread
<1>1. /\ nread' = nread /\ Read' = Read /\ Decoded' = Decoded
      /\ Unwanted' = Unwanted
  BY DEF nread, Read, Decoded, Unwanted
<1>2. \A t : OfType(t)' = OfType(t) /\ (Listed(t)' <=> Listed(t))
  BY DEF OfType, Listed
<1>3. Table'
  BY <1>1, <1>2 DEF TableOK, Table
<1>4. Sums' /\ Arrays'
  BY <1>1 DEF ArraysOK, Sums, Arrays
<1> QED
  BY <1>1, <1>3, <1>4 DEF TableOK, ArraysOK

LEMMA LoadKeeps ==
  ASSUME LoaderInv, file \in Seq(Frames), Load
  PROVE  LoaderInv' /\ UNCHANGED tlog
<1>1. /\ result \in {"loading", "ok", "error"}
      /\ stats \in [Counters -> 0..Len(file)]
      /\ \A c \in Counters : stats[c] <= nread
      /\ TableOK /\ ArraysOK
      /\ result = "ok" => nread = Len(file) /\ tail = NoFrame
  BY LoaderParts
<1>2. ASSUME NEW outcomes \in SUBSET Counters, "records_read" \notin outcomes,
             RecordRead(outcomes), TableOK', ArraysOK'
      PROVE  LoaderInv' /\ UNCHANGED tlog
  <2>1. /\ result' = "loading" /\ UNCHANGED tlog /\ file' = file
        /\ stats' \in [Counters -> 0..Len(file)]
        /\ \A c \in Counters : stats'[c] <= nread'
    BY <1>2, CountersStep DEF RecordRead, tlog
  <2>2. (file \in Seq(Frames))'
    BY <2>1
  <2>3. LoaderPartsOK'
    BY <1>2, <2>1 DEF LoaderPartsOK
  <2> QED
    BY <2>1, <2>2, <2>3, LoaderIsPartsNext
<1>3. CASE UnknownRecord
  <2>1. RecordRead({"unknown_crc"}) /\ {"unknown_crc"} \in SUBSET Counters
    BY <1>3 DEF UnknownRecord, RecordRead, Counters
  <2>2. ~KnownFrame(Record) /\ ~ValidFrame(Record)
        /\ unknown_messages' = CountUnknown(Record.msgid)
        /\ UNCHANGED <<samples, capacity>>
    BY <1>3 DEF UnknownRecord, ValidFrame
  <2>3. /\ nread \in Nat /\ nread' = nread + 1 /\ file' = file
        /\ Record = file[nread + 1] /\ Record \in Frames
    BY <2>1, CountersStep
  <2>4. TableOK'
    BY <1>1, <2>2, <2>3, UnknownTable
  <2>5. ArraysOK'
    BY <2>1, <2>2, SkippedRecord
  <2> QED
    BY <1>2, <2>1, <2>4, <2>5
<1>4. CASE CorruptRecord
  <2>1. RecordRead({"invalid_crc"}) /\ {"invalid_crc"} \in SUBSET Counters
    BY <1>4 DEF CorruptRecord, RecordRead, Counters
  <2>2. KnownFrame(Record) /\ ~ValidFrame(Record)
        /\ UNCHANGED <<unknown_messages, samples, capacity>>
    BY <1>4 DEF CorruptRecord
  <2>3. /\ nread \in Nat /\ nread' = nread + 1 /\ file' = file
        /\ Record = file[nread + 1]
    BY <2>1, CountersStep
  <2>4. TableOK'
    BY <1>1, <2>2, <2>3, KnownTable
  <2>5. ArraysOK'
    BY <2>1, <2>2, SkippedRecord
  <2> QED
    BY <1>2, <2>1, <2>4, <2>5
<1>5. CASE UnwantedRecord
  <2>1. RecordRead({"valid_frames"}) /\ {"valid_frames"} \in SUBSET Counters
    BY <1>5 DEF UnwantedRecord, RecordRead, Counters
  <2>2. /\ KnownFrame(Record) /\ ValidFrame(Record)
        /\ Record.msgid \notin StoredMessages
        /\ UNCHANGED <<unknown_messages, samples, capacity>>
    BY <1>5 DEF UnwantedRecord, ValidFrame
  <2>3. /\ nread \in Nat /\ nread' = nread + 1 /\ file' = file
        /\ Record = file[nread + 1]
    BY <2>1, CountersStep
  <2>4. TableOK'
    BY <1>1, <2>2, <2>3, KnownTable
  <2>5. ArraysOK'
    BY <2>1, <2>2, SkippedRecord
  <2> QED
    BY <1>2, <2>1, <2>4, <2>5
<1>6. CASE StoredRecord
  <2>1. RecordRead({"valid_frames"}) /\ {"valid_frames"} \in SUBSET Counters
    BY <1>6 DEF StoredRecord, RecordRead, Counters
  <2>2. KnownFrame(Record) /\ unknown_messages' = unknown_messages
    BY <1>6 DEF StoredRecord, ValidFrame
  <2>3. /\ nread \in Nat /\ nread' = nread + 1 /\ file' = file
        /\ Record = file[nread + 1]
    BY <2>1, CountersStep
  <2>4. TableOK'
    BY <1>1, <2>2, <2>3, KnownTable
  <2>5. ArraysOK'
    BY <1>6, StoredArrays
  <2> QED
    BY <1>2, <2>1, <2>4, <2>5
<1>7. CASE UnstoredRecord
  <2>1. /\ RecordRead({"valid_frames", "decode_failures"})
        /\ {"valid_frames", "decode_failures"} \in SUBSET Counters
    BY <1>7 DEF UnstoredRecord, RecordRead, Counters
  <2>2. /\ KnownFrame(Record) /\ ValidFrame(Record)
        /\ Record.msgid \in StoredMessages
        /\ UNCHANGED <<unknown_messages, samples, capacity>>
    BY <1>7 DEF UnstoredRecord, ValidFrame
  <2>3. /\ nread \in Nat /\ nread' = nread + 1 /\ file' = file
        /\ Record = file[nread + 1]
    BY <2>1, CountersStep
  <2>4. TableOK'
    BY <1>1, <2>2, <2>3, KnownTable
  <2>5. ArraysOK'
    BY <2>1, <2>2, SkippedRecord
  <2> QED
    BY <1>2, <2>1, <2>4, <2>5
<1>8. CASE EndOfLog \/ ReadError
  <2>1. UNCHANGED <<stats, unknown_messages, samples, capacity, tlog>>
        /\ UNCHANGED <<file, tail>>
    BY <1>8 DEF EndOfLog, ReadError, tlog
  <2>2. TableOK' /\ ArraysOK' /\ nread' = nread
    BY <1>1, <2>1, NothingRead
  <2>3. nread \in 0..Len(file) /\ Len(file) \in Nat
    BY <1>1 DEF nread, Counters
  <2>4. /\ result' \in {"ok", "error"}
        /\ result' = "ok" => nread = Len(file) /\ tail = NoFrame
    BY <1>8, <2>3 DEF EndOfLog, EndResult, ReadError, More, nread
  <2>5. (file \in Seq(Frames))'
    BY <2>1
  <2>6. LoaderPartsOK'
    BY <1>1, <2>1, <2>2, <2>4 DEF LoaderPartsOK
  <2> QED
    BY <2>1, <2>5, <2>6, LoaderIsPartsNext
<1> QED
  BY <1>3, <1>4, <1>5, <1>6, <1>7, <1>8 DEF Load

(* Nothing is read while the recorder runs, so its steps do not matter. *)
LEMMA RecordingKeeps ==
  ASSUME LoaderInv, file \in Seq(Frames), ~Loading, UNCHANGED loader,
         file' \in Seq(Frames)
  PROVE  LoaderInv'
<1>1. /\ stats \in [Counters -> 0..Len(file)]
      /\ \A c \in Counters : stats[c] <= nread
      /\ TableOK /\ ArraysOK
  BY LoaderParts
<1>2. UNCHANGED <<result, stats, unknown_messages, samples, capacity>>
      /\ nread' = nread
  BY DEF loader, nread
<1>3. result = "loading" /\ nread = 0
  BY <1>1 DEF Loading, nread, Counters
<1>4. \A c \in Counters : stats[c] = 0
  BY <1>1, <1>3
<1>5. stats' \in [Counters -> 0..Len(file')]
  <2>1. Len(file') \in Nat
    OBVIOUS
  <2> QED
    BY <1>1, <1>2, <1>4, <2>1
<1>6. \A T : T \cap (1..nread) = {} /\ T \cap (1..nread') = {}
  BY <1>2, <1>3
<1>7. Read = <<>> /\ Read' = <<>>
  BY <1>2, <1>3 DEF Read, nread
<1>8. TableOK'
  <2>1. \A i \in 1..nread' : FALSE
    BY <1>2, <1>3
  <2>2. \A t : /\ OfType(t) \cap (1..nread) = {}
               /\ OfType(t)' \cap (1..nread') = {}
    BY <1>6
  <2>3. Table'
    BY <1>1, <1>2, <2>1, <2>2 DEF TableOK, Table
  <2> QED
    BY <1>1, <1>2, <2>3 DEF TableOK
<1>9. ArraysOK'
  <2>1. Unwanted \cap (1..nread) = {} /\ Unwanted' \cap (1..nread') = {}
    BY <1>6
  <2>2. Sums' /\ Decoded' = Decoded
    BY <1>1, <1>2, <2>1 DEF ArraysOK, Sums, Decoded
  <2>3. Arrays'
    BY <1>1, <1>2, <1>7 DEF ArraysOK, Arrays
  <2> QED
    BY <1>1, <1>2, <2>2, <2>3 DEF ArraysOK
<1>10. LoaderPartsOK'
  BY <1>1, <1>2, <1>3, <1>5, <1>8, <1>9 DEF LoaderPartsOK
<1>11. (file \in Seq(Frames))'
  OBVIOUS
<1> QED
  BY <1>10, <1>11, LoaderIsPartsNext

-----------------------------------------------------------------------------
(* The flight *)

LEMMA LoaderStarts ==
  ASSUME LoaderInit, file = <<>>
  PROVE  LoaderInv
<1>1. Len(file) = 0 /\ file \in Seq(Frames)
  OBVIOUS
<1>2. /\ result = "loading" /\ stats \in [Counters -> 0..Len(file)]
      /\ \A c \in Counters : stats[c] = 0
      /\ unknown_messages = <<>>
      /\ samples = [m \in StoredMessages |-> <<>>]
      /\ capacity = [m \in StoredMessages |-> 0]
  BY <1>1 DEF LoaderInit
<1>3. nread = 0 /\ \A c \in Counters : stats[c] <= nread
  BY <1>2 DEF nread, Counters
<1>4. Decoded = {}
  BY <1>2 DEF Decoded
<1>5. \A T : T \cap (1..nread) = {}
  BY <1>3
<1>6. TableOK
  <2>1. unknown_messages \in Seq(Entries) /\ Len(unknown_messages) = 0
        /\ DOMAIN unknown_messages = {}
    BY <1>2
  <2>2. Table
    BY <1>3, <2>1 DEF Table
  <2> QED
    BY <2>1, <2>2, LoaderAssumption DEF TableOK
<1>7. Sums
  BY <1>2, <1>3, <1>4, <1>5, FS_EmptySet DEF Sums, Counters
<1>8. Arrays
  <2>1. Read = <<>>
    BY <1>1, <1>3 DEF Read, nread
  <2> QED
    BY <1>1, <1>2, <2>1, SelectionStep DEF Arrays
<1>9. ArraysOK
  BY <1>2, <1>4, <1>7, <1>8, FS_EmptySet DEF ArraysOK
<1> QED
  BY <1>1, <1>2, <1>3, <1>6, <1>9, LoaderIsParts DEF LoaderPartsOK

LEMMA FlightInitInv == FlightInit => FlightInv
<1> SUFFICES ASSUME FlightInit PROVE FlightInv
  OBVIOUS
<1>1. RecorderInv
  BY RecorderInitInv DEF FlightInit
<1>2. LoaderInv
  BY LoaderStarts DEF FlightInit, RecorderInit, EmptyLog
<1>3. ~Loading
  BY DEF FlightInit, LoaderInit, Loading, Counters
<1> QED
  BY <1>1, <1>2, <1>3 DEF FlightInv

LEMMA FlightNextInv == FlightInv /\ [FlightNext]_flightVars => FlightInv'
<1> SUFFICES ASSUME FlightInv, [FlightNext]_flightVars PROVE FlightInv'
  OBVIOUS
<1>1. RecorderInv /\ LoaderInv /\ file \in Seq(Frames)
  BY DEF FlightInv, RecorderInv, RecorderTypeOK
<1>2. CASE RecordStep
  <2>1. RecorderInv' /\ file' \in Seq(Frames)
    <3>1. RecorderInv'
      BY <1>1, <1>2, RecorderNextInv DEF RecordStep
    <3> QED
      BY <3>1 DEF RecorderInv, RecorderTypeOK
  <2>2. ~Loading /\ UNCHANGED loader
    BY <1>2 DEF RecordStep
  <2>3. LoaderInv'
    BY <1>1, <2>1, <2>2, RecordingKeeps
  <2>4. ~Loading'
    BY <2>2 DEF Loading, loader
  <2> QED
    BY <2>1, <2>3, <2>4 DEF FlightInv
<1>3. CASE LoadStep
  <2>1. Load /\ RecorderStopped /\ session # NoLog /\ UNCHANGED recorder
    BY <1>3 DEF LoadStep
  <2>2. LoaderInv' /\ UNCHANGED tlog
    BY <1>1, <2>1, LoadKeeps
  <2>3. RecorderInv'
    <3>1. UNCHANGED recorderVars
      BY <2>1, <2>2 DEF recorderVars
    <3> QED
      BY <1>1, <3>1, RecorderNextInv
  <2>4. RecorderStopped' /\ session' # NoLog
    BY <2>1 DEF RecorderStopped, recorder
  <2> QED
    BY <2>2, <2>3, <2>4 DEF FlightInv
<1>4. CASE UNCHANGED flightVars
  <2>1. UNCHANGED recorder /\ UNCHANGED loader /\ UNCHANGED tlog
    BY <1>4 DEF flightVars
  <2>2. RecorderInv'
    BY <1>1, <2>1, RecorderNextInv DEF recorderVars
  <2>3. LoaderInv'
    <3>1. UNCHANGED <<result, stats, unknown_messages, samples, capacity, file, tail>>
      BY <2>1 DEF loader, tlog
    <3>2. LoaderPartsOK
      BY <1>1, LoaderIsParts
    <3>3. TableOK' /\ ArraysOK' /\ nread' = nread
      BY <3>1, <3>2, NothingRead DEF LoaderPartsOK
    <3>4. LoaderPartsOK'
      BY <3>1, <3>2, <3>3 DEF LoaderPartsOK
    <3>5. (file \in Seq(Frames))'
      BY <1>1, <3>1
    <3> QED
      BY <3>4, <3>5, LoaderIsPartsNext
  <2>4. Loading' = Loading /\ RecorderStopped' = RecorderStopped
        /\ session' = session
    BY <2>1 DEF Loading, RecorderStopped, recorder, loader
  <2> QED
    BY <2>2, <2>3, <2>4 DEF FlightInv
<1> QED
  BY <1>2, <1>3, <1>4 DEF FlightNext

(* The invariant of a flight from its recording to the loaded log           *)
THEOREM FlightInvariant == FlightSpec => []FlightInv
<1> QED
  BY FlightInitInv, FlightNextInv, PTL DEF FlightSpec

(* The whole flight is a run of the recorder: loading its log is none of    *)
(* its steps, so all that is proved of it holds of the flight.             *)
THEOREM FlightRunsTheRecorder == FlightSpec => RecorderSpec
<1>1. FlightInit => RecorderInit
  BY DEF FlightInit
<1>2. FlightInv /\ [FlightNext]_flightVars => [RecorderNext]_recorderVars
  <2> SUFFICES ASSUME FlightInv, [FlightNext]_flightVars
               PROVE  [RecorderNext]_recorderVars
    OBVIOUS
  <2>1. CASE RecordStep
    BY <2>1 DEF RecordStep
  <2>2. CASE LoadStep
    <3>1. UNCHANGED tlog
      BY <2>2, LoadKeeps DEF LoadStep, FlightInv, RecorderInv, RecorderTypeOK
    <3> QED
      BY <2>2, <3>1 DEF LoadStep, recorderVars
  <2>3. CASE UNCHANGED flightVars
    BY <2>3 DEF flightVars, recorderVars
  <2> QED
    BY <2>1, <2>2, <2>3 DEF FlightNext
<1> QED
  BY <1>1, <1>2, FlightInvariant, PTL DEF FlightSpec, RecorderSpec

(* No counter leaves its range and no array overflows its capacity, however *)
(* long the log and in whatever order its records come.                    *)
THEOREM FlightTypes == FlightSpec => []FlightTypeOK
<1>1. FlightInv => FlightTypeOK
  BY DEF FlightInv, RecorderInv, LoaderInv, FlightTypeOK
<1> QED
  BY <1>1, FlightInvariant, PTL

(* The validator's summary accounts for every record of every log that can  *)
(* be recorded, and without failures the arrays are complete.              *)
THEOREM StatisticsAddUp == FlightSpec => []StatsAddUp
<1>1. FlightInv => StatsAddUp
  BY DEF FlightInv, LoaderInv
<1> QED
  BY <1>1, FlightInvariant, PTL

(* The table of unknown types is exact for every size of it.                *)
THEOREM UnknownCounts == FlightSpec => []UnknownCountsExact
<1>1. FlightInv => UnknownCountsExact
  BY DEF FlightInv, LoaderInv
<1> QED
  BY <1>1, FlightInvariant, PTL

(* What is replayed is the flight: the recorder's and the loader's          *)
(* invariants together, through the file.                                  *)
THEOREM ReplayedAsFlown == FlightSpec => []ReplaysTheFlight
<1>1. FlightInv => ReplaysTheFlight
  <2> SUFFICES ASSUME FlightInv, Accepted, stats.decode_failures = 0
               PROVE  /\ \E n \in 0..Len(received) :
                           samples[LocalPosition] =
                             Positions(SubSeq(received, 1, n))
                      /\ pc = "closed" /\ running =>
                           samples[LocalPosition] = Positions(received)
    BY DEF ReplaysTheFlight
  <2>1. /\ RecorderInv /\ LoaderInv /\ result = "ok"
        /\ file \in Seq(Frames) /\ received \in Seq(Frames)
    BY DEF FlightInv, RecorderInv, RecorderTypeOK, Accepted
  <2>2. nread = Len(file) /\ tail = NoFrame /\ ArraysOK
    BY <2>1, LoaderParts
  <2>3. Read = file
    BY <2>1, <2>2, SubSeqFull DEF Read, nread
  <2>4. samples[LocalPosition] = Positions(file)
    BY <2>2, <2>3, LoaderAssumption DEF ArraysOK, Arrays, Positions
  <2>5. IsPrefix(file, received)
    BY <2>1, <2>2 DEF RecorderInv, LogIsPrefix
  <2>6. /\ Len(file) \in Nat /\ Len(received) \in Nat
        /\ Len(file) <= Len(received)
        /\ SubSeq(received, 1, Len(file)) = SubSeq(file, 1, Len(file))
    BY <2>1, <2>5 DEF IsPrefix
  <2>7. SubSeq(received, 1, Len(file)) = file
    BY <2>1, <2>6, SubSeqFull
  <2>8. Len(file) \in 0..Len(received)
    BY <2>6
  <2>9. ASSUME pc = "closed", running PROVE file = received
    <3>1. pending = <<>> /\ file \o pending = received
      BY <2>1, <2>9 DEF RecorderInv, WrittenInv
    <3> QED
      BY <2>1, <3>1, ConcatEmptySeq
  <2> QED
    BY <2>4, <2>7, <2>8, <2>9
<1> QED
  BY <1>1, FlightInvariant, PTL
=============================================================================
