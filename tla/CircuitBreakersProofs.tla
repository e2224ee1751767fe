----------------------- MODULE CircuitBreakersProofs -----------------------
(***************************************************************************)
(* Theorems of CircuitBreakers and of its history of withdrawals, for      *)
(* every threshold, window, amount and price.                              *)
(***************************************************************************)
EXTENDS BreakerHistory, SumTheorems, SequenceTheorems, TLAPS

USE DEF vars

(***************************************************************************)
(* The operators of circuit_breakers.rs keep the record well typed.        *)
(***************************************************************************)

LEMMA OracleTyped ==
  ASSUME NEW b \in Breaker, NEW price \in Nat
  PROVE  /\ RecordOraclePrice(b, price) \in Breaker
         /\ RecordOraclePrice(b, price).xlm = b.xlm
<1>1. CASE Deviates(b, price)
  BY <1>1 DEF Breaker, RecordOraclePrice
<1>2. CASE ~Deviates(b, price)
  BY <1>2 DEF Breaker, RecordOraclePrice
<1> QED
  BY <1>1, <1>2

LEMMA VelocityTyped ==
  ASSUME NEW b \in Breaker, NEW amount \in Nat, NEW now \in Nat
  PROVE  /\ RecordWithdrawalVelocity(b, amount, now) \in Breaker
         /\ ResumeAfterVelocityCheck(b, now) \in Breaker
         /\ RecordWithdrawalVelocity(b, amount, now).xlm = b.xlm
         /\ ResumeAfterVelocityCheck(b, now).xlm = b.xlm
<1> DEFINE expired  == Expired(b.VelWinSt, VELOCITY_WINDOW, now)
           accum    == amount + IF expired THEN 0 ELSE b.VelAccum
           breached == b.TvlSnap > 0 /\ Reaches(accum, b.TvlSnap, TVL_DRAIN_BPS)
           start    == IF expired THEN now ELSE b.VelWinSt
           paused   == b.SoftPa \/ breached
<1>1. accum \in Nat /\ start \in Nat \cup {Unset}
  BY DEF Breaker
<1>2. paused \in BOOLEAN
  OBVIOUS
<1>3. RecordWithdrawalVelocity(b, amount, now)
        = [b EXCEPT !.VelWinSt = start, !.VelAccum = accum, !.SoftPa = paused]
  BY DEF RecordWithdrawalVelocity
<1>4. RecordWithdrawalVelocity(b, amount, now) \in Breaker
  <2> HIDE DEF accum, start, paused
  <2> QED
    BY <1>1, <1>2, <1>3 DEF Breaker
<1>5. ResumeAfterVelocityCheck(b, now) \in Breaker
  BY DEF Breaker, ResumeAfterVelocityCheck
<1>6. /\ RecordWithdrawalVelocity(b, amount, now).xlm = b.xlm
      /\ ResumeAfterVelocityCheck(b, now).xlm = b.xlm
  BY DEF Breaker, RecordWithdrawalVelocity, ResumeAfterVelocityCheck
<1> QED
  BY <1>4, <1>5, <1>6

LEMMA DisputeTyped ==
  ASSUME NEW b \in Breaker, NEW active \in Nat, NEW now \in Nat
  PROVE  /\ RecordDispute(b, active, now) \in Breaker
         /\ ResumeGrantInitialization(b, now) \in Breaker
         /\ RecordDispute(b, active, now).xlm = b.xlm
         /\ ResumeGrantInitialization(b, now).xlm = b.xlm
<1> DEFINE expired  == Expired(b.DispWin, DISPUTE_WINDOW, now)
           disputes == IF expired THEN 1 ELSE b.DispAcc + 1
           snapshot == IF expired \/ b.DispAcc = 0 THEN active ELSE b.ActGntSn
           breached == /\ snapshot > 0
                       /\ Reaches(disputes, snapshot, DISPUTE_THRESHOLD_BPS)
           start    == IF expired THEN now ELSE b.DispWin
           halted   == b.GntHalt \/ breached
<1>1. disputes \in Nat /\ snapshot \in Nat /\ start \in Nat \cup {Unset}
  BY DEF Breaker
<1>2. halted \in BOOLEAN
  OBVIOUS
<1>3. RecordDispute(b, active, now)
        = [b EXCEPT !.DispWin = start, !.DispAcc = disputes,
                    !.ActGntSn = snapshot, !.GntHalt = halted]
  BY DEF RecordDispute
<1>4. RecordDispute(b, active, now) \in Breaker
  <2> HIDE DEF disputes, snapshot, start, halted
  <2> QED
    BY <1>1, <1>2, <1>3 DEF Breaker
<1>5. ResumeGrantInitialization(b, now) \in Breaker
  BY DEF Breaker, ResumeGrantInitialization
<1>6. /\ RecordDispute(b, active, now).xlm = b.xlm
      /\ ResumeGrantInitialization(b, now).xlm = b.xlm
  BY DEF Breaker, RecordDispute, ResumeGrantInitialization
<1> QED
  BY <1>4, <1>5, <1>6

LEMMA RentTyped ==
  ASSUME NEW b \in Breaker
  PROVE  /\ CheckRentBalance(b) \in Breaker
         /\ DisableRentPreservationMode(b) \in Breaker
         /\ CheckRentBalance(b).xlm = b.xlm
         /\ DisableRentPreservationMode(b).xlm = b.xlm
<1> DEFINE low == b.xlm < RENT_BUFFER
<1>1. low \in BOOLEAN
  OBVIOUS
<1>2. CheckRentBalance(b) = [b EXCEPT !.RentPreservationMode = low]
  BY DEF CheckRentBalance
<1>3. CheckRentBalance(b) \in Breaker
  <2> HIDE DEF low
  <2> QED
    BY <1>1, <1>2 DEF Breaker
<1>4. DisableRentPreservationMode(b) \in Breaker
  BY DEF Breaker, DisableRentPreservationMode
<1>5. /\ CheckRentBalance(b).xlm = b.xlm
      /\ DisableRentPreservationMode(b).xlm = b.xlm
  BY DEF Breaker, CheckRentBalance, DisableRentPreservationMode
<1> QED
  BY <1>3, <1>4, <1>5

(***************************************************************************)
(* Type correctness.                                                       *)
(***************************************************************************)

(* Every step keeps the breakers' keys well typed.                         *)
LEMMA TypeStep == TypeOK /\ [Next]_vars => TypeOK'
<1> SUFFICES ASSUME TypeOK, [Next]_vars
             PROVE  TypeOK'
  OBVIOUS
<1> USE DEF TypeOK
<1>1. ASSUME NEW amount \in Amounts, Withdraw(amount)
      PROVE  TypeOK'
  <2>1. /\ RecordWithdrawalVelocity(breaker, amount, time) \in Breaker
        /\ RecordWithdrawalVelocity(breaker, amount, time).xlm = breaker.xlm
    BY CircuitBreakersAssumption, VelocityTyped
  <2> QED
    BY <1>1, <2>1, RentTyped DEF Withdraw
<1>2. ASSUME NEW active \in ActiveCounts, TriggerGrantDispute(active)
      PROVE  TypeOK'
  BY <1>2, CircuitBreakersAssumption, DisputeTyped DEF TriggerGrantDispute
<1>3. ASSUME NEW price \in Prices, SubmitOraclePrice(price)
      PROVE  TypeOK'
  BY <1>3, CircuitBreakersAssumption, OracleTyped DEF SubmitOraclePrice
<1>4. ASSUME NEW oracle \in SanityOracles, DesignateSanityOracle(oracle)
      PROVE  TypeOK'
  BY <1>4 DEF DesignateSanityOracle, SetSanityOracle, Breaker
<1>5. ASSUME NEW liquidity \in Liquidities, SnapshotTvl(liquidity)
      PROVE  TypeOK'
  BY <1>5, CircuitBreakersAssumption DEF SnapshotTvl, UpdateTvlSnapshot, Breaker
<1>6. CASE ResumeVelocity
  BY <1>6, VelocityTyped DEF ResumeVelocity
<1>7. CASE ResumeInitialization
  BY <1>7, DisputeTyped DEF ResumeInitialization
<1>8. CASE CheckRent \/ DisableRentPreservation
  BY <1>8, RentTyped DEF CheckRent, DisableRentPreservation
<1>9. ASSUME NEW xlm \in 0..MaxXlm, NativeTransfer(xlm)
      PROVE  TypeOK'
  BY <1>9, CircuitBreakersAssumption DEF NativeTransfer, Breaker
<1>10. CASE Tick
  BY <1>10 DEF Tick
<1>11. CASE UNCHANGED vars
  BY <1>11
<1> QED
  BY <1>1, <1>2, <1>3, <1>4, <1>5, <1>6, <1>7, <1>8, <1>9, <1>10, <1>11 DEF Next

LEMMA InitTyped == Init => TypeOK
BY CircuitBreakersAssumption DEF Init, TypeOK, Breaker, FreshBreaker

(* The breakers' keys always hold values of their declared types: no       *)
(* counter is ever decremented below zero, no window start is lost.        *)
THEOREM TypeCorrect == Spec => []TypeOK
BY InitTyped, TypeStep, PTL DEF Spec

(***************************************************************************)
(* The mass dispute trigger.                                               *)
(***************************************************************************)

(* record_dispute leaves GntHalt clear only below the threshold, whatever  *)
(* it finds in the record: an expired window, a stale snapshot, a halt.    *)
LEMMA DisputeHaltsAtThreshold ==
  ASSUME NEW b \in Breaker, NEW active \in Nat, NEW now \in Nat,
         ~RecordDispute(b, active, now).GntHalt,
         RecordDispute(b, active, now).ActGntSn > 0
  PROVE  ~Reaches(RecordDispute(b, active, now).DispAcc,
                  RecordDispute(b, active, now).ActGntSn, DISPUTE_THRESHOLD_BPS)
BY DEF Breaker, RecordDispute

(* While grant initialization is open, the disputes counted are below the  *)
(* threshold share of the snapshot of active grants.                       *)
THEOREM OpenMeansBelowThreshold == Spec => []UnhaltedBelowThreshold
<1>1. Init => UnhaltedBelowThreshold
  BY DEF Init, FreshBreaker, UnhaltedBelowThreshold
<1>2. TypeOK /\ UnhaltedBelowThreshold /\ [Next]_vars => UnhaltedBelowThreshold'
  <2> SUFFICES ASSUME TypeOK, UnhaltedBelowThreshold, [Next]_vars
               PROVE  UnhaltedBelowThreshold'
    OBVIOUS
  <2> DEFINE SameDisputes ==
        /\ breaker'.GntHalt = breaker.GntHalt
        /\ breaker'.ActGntSn = breaker.ActGntSn
        /\ breaker'.DispAcc = breaker.DispAcc
  <2>1. ASSUME SameDisputes
        PROVE  UnhaltedBelowThreshold'
    BY <2>1 DEF UnhaltedBelowThreshold
  <2>2. ASSUME NEW active \in ActiveCounts, TriggerGrantDispute(active)
        PROVE  UnhaltedBelowThreshold'
    BY <2>2, CircuitBreakersAssumption, DisputeHaltsAtThreshold
    DEF TypeOK, TriggerGrantDispute, UnhaltedBelowThreshold
  <2>3. CASE ResumeInitialization
    BY <2>3 DEF TypeOK, Breaker, ResumeInitialization, ResumeGrantInitialization,
                UnhaltedBelowThreshold
  <2>4. ASSUME NEW amount \in Amounts, Withdraw(amount)
        PROVE  SameDisputes
    BY <2>4 DEF TypeOK, Breaker, Withdraw, RecordWithdrawalVelocity, CheckRentBalance
  <2>5. ASSUME NEW price \in Prices, SubmitOraclePrice(price)
        PROVE  SameDisputes
    BY <2>5 DEF TypeOK, Breaker, SubmitOraclePrice, RecordOraclePrice
  <2>6. ASSUME NEW oracle \in SanityOracles, DesignateSanityOracle(oracle)
        PROVE  SameDisputes
    BY <2>6 DEF TypeOK, Breaker, DesignateSanityOracle, SetSanityOracle
  <2>7. ASSUME NEW liquidity \in Liquidities, SnapshotTvl(liquidity)
        PROVE  SameDisputes
    BY <2>7 DEF TypeOK, Breaker, SnapshotTvl, UpdateTvlSnapshot
  <2>8. CASE ResumeVelocity
    <3>1. SameDisputes
      BY <2>8 DEF TypeOK, Breaker, ResumeVelocity, ResumeAfterVelocityCheck
    <3> QED
      BY <2>1, <3>1
  <2>9. CASE CheckRent \/ DisableRentPreservation
    <3>1. SameDisputes
      BY <2>9 DEF TypeOK, Breaker, CheckRent, CheckRentBalance,
                  DisableRentPreservation, DisableRentPreservationMode
    <3> QED
      BY <2>1, <3>1
  <2>10. ASSUME NEW xlm \in 0..MaxXlm, NativeTransfer(xlm)
         PROVE  SameDisputes
    BY <2>10 DEF TypeOK, Breaker, NativeTransfer
  <2>11. CASE Tick \/ UNCHANGED vars
    BY <2>1, <2>11 DEF Tick
  <2> QED
    BY <2>1, <2>2, <2>3, <2>4, <2>5, <2>6, <2>7, <2>8, <2>9, <2>10, <2>11 DEF Next
<1> QED
  BY <1>1, <1>2, TypeCorrect, PTL DEF Spec

(***************************************************************************)
(* The velocity breaker and what was really withdrawn.                     *)
(***************************************************************************)

Withdrawal == [ts : Nat, amount : Nat, tvl : Nat]

(* No withdrawal lies after the window in force, so that none is counted   *)
(* in the window that follows.                                             *)
InWindow ==
  /\ \A i \in DOMAIN log : log[i].ts <= time
  /\ breaker.VelWinSt # Unset =>
       /\ breaker.VelWinSt <= time
       /\ \A i \in DOMAIN log : log[i].ts < breaker.VelWinSt + VELOCITY_WINDOW

(* Against the snapshot all withdrawals were made under, the total of the  *)
(* window reaches the limit only with SoftPause engaged, and without the   *)
(* last withdrawal not at all.                                             *)
Undrained ==
  \A T \in Nat \ {0} :
    log # <<>> /\ (\A i \in DOMAIN log : log[i].tvl = T) =>
      /\ ~breaker.SoftPa => ~Reaches(breaker.VelAccum, T, TVL_DRAIN_BPS)
      /\ ~Reaches(Withdrawn(Front(log), WindowStart), T, TVL_DRAIN_BPS)

HTyped == TypeOK /\ log \in Seq(Withdrawal)

HInv == HTyped /\ InWindow /\ AccumulatorIsWindowTotal /\ Undrained

Counted(seq, from) ==
  [i \in DOMAIN seq |-> IF seq[i].ts >= from THEN seq[i].amount ELSE 0]

LEMMA WithdrawalTyped ==
  ASSUME NEW seq \in Seq(Withdrawal)
  PROVE  /\ DOMAIN seq = 1..Len(seq) /\ Len(seq) \in Nat /\ IsFiniteSet(DOMAIN seq)
         /\ \A i \in DOMAIN seq :
              seq[i].ts \in Nat /\ seq[i].amount \in Nat /\ seq[i].tvl \in Nat
<1>1. DOMAIN seq = 1..Len(seq) /\ Len(seq) \in Nat
  BY LenProperties
<1>2. \A i \in DOMAIN seq : seq[i] \in Withdrawal
  BY <1>1, ElementOfSeq
<1>3. IsFiniteSet(DOMAIN seq)
  BY <1>1, FS_Interval
<1> QED
  BY <1>1, <1>2, <1>3 DEF Withdrawal

LEMMA CountedTyped ==
  ASSUME NEW seq \in Seq(Withdrawal), NEW from \in Nat
  PROVE  /\ \A i \in DOMAIN seq : Counted(seq, from)[i] \in Nat
         /\ Withdrawn(seq, from) = SumFunctionOnSet(Counted(seq, from), DOMAIN seq)
         /\ Withdrawn(seq, from) \in Nat
<1>1. \A i \in DOMAIN seq : Counted(seq, from)[i] \in Nat
  BY WithdrawalTyped DEF Counted
<1>2. Withdrawn(seq, from) = SumFunctionOnSet(Counted(seq, from), DOMAIN seq)
  BY DEF Withdrawn, SumFunction, Counted
<1>3. SumFunctionOnSet(Counted(seq, from), DOMAIN seq) \in Nat
  BY <1>1, WithdrawalTyped, SumNat
<1> QED
  BY <1>1, <1>2, <1>3

LEMMA WithdrawnBefore ==
  ASSUME NEW seq \in Seq(Withdrawal), NEW from \in Nat, \A i \in DOMAIN seq : seq[i].ts < from
  PROVE  Withdrawn(seq, from) = 0
<1>1. \A i \in DOMAIN seq : Counted(seq, from)[i] = 0
  BY WithdrawalTyped DEF Counted
<1> QED
  BY <1>1, CountedTyped, WithdrawalTyped, SumZero

LEMMA WithdrawnNothing ==
  ASSUME NEW from \in Nat
  PROVE  Withdrawn(<<>>, from) = 0
<1>1. <<>> \in Seq(Withdrawal) /\ DOMAIN <<>> = {}
  OBVIOUS
<1> QED
  BY <1>1, CountedTyped, SumEmpty

LEMMA WithdrawnMore ==
  ASSUME NEW seq \in Seq(Withdrawal), NEW w \in Withdrawal, NEW from \in Nat, w.ts >= from
  PROVE  Withdrawn(Append(seq, w), from) = Withdrawn(seq, from) + w.amount
<1> DEFINE n == Len(seq)
           more == Append(seq, w)
           f == Counted(seq, from)
           g == Counted(more, from)
<1>1. /\ more \in Seq(Withdrawal) /\ Len(more) = n + 1
      /\ more[n + 1] = w /\ \A i \in 1..n : more[i] = seq[i]
  BY AppendProperties
<1>2. n \in Nat /\ DOMAIN seq = 1..n /\ DOMAIN more = 1..(n + 1)
  BY <1>1, WithdrawalTyped
<1> HIDE DEF more
<1>3. \A i \in 1..n : f[i] \in Int /\ g[i] = f[i]
  <2> SUFFICES ASSUME NEW i \in 1..n PROVE f[i] \in Int /\ g[i] = f[i]
    OBVIOUS
  <2>1. i \in DOMAIN seq /\ i \in DOMAIN more /\ more[i] = seq[i]
    BY <1>1, <1>2
  <2>2. f[i] \in Nat
    BY <2>1, CountedTyped
  <2> QED
    BY <2>1, <2>2 DEF Counted
<1>4. g[n + 1] = w.amount /\ w.amount \in Int
  BY <1>1, <1>2 DEF Counted, Withdrawal
<1> HIDE DEF n, f, g
<1>5. SumFunctionOnSet(g, 1..(n + 1)) = SumFunctionOnSet(f, 1..n) + g[n + 1]
  BY <1>2, <1>3, <1>4, SumAppend
<1> QED
  BY <1>1, <1>2, <1>4, <1>5, CountedTyped DEF f, g, more

LEMMA FrontOfAppend ==
  ASSUME NEW seq \in Seq(Withdrawal), NEW w \in Withdrawal
  PROVE  Front(Append(seq, w)) = seq
<1> DEFINE more == Append(seq, w)
<1>1. /\ more \in Seq(Withdrawal) /\ Len(more) = Len(seq) + 1 /\ Len(seq) \in Nat
      /\ \A i \in 1..Len(seq) : more[i] = seq[i]
  BY AppendProperties, LenProperties
<1> HIDE DEF more
<1>2. /\ SubSeq(more, 1, Len(seq)) \in Seq(Withdrawal)
      /\ Len(SubSeq(more, 1, Len(seq))) = Len(seq)
      /\ \A i \in 1..Len(seq) : SubSeq(more, 1, Len(seq))[i] = more[i]
  BY <1>1, SubSeqProperties
<1>3. SubSeq(more, 1, Len(seq)) = seq
  BY <1>1, <1>2, SeqEqual
<1>4. Front(more) = SubSeq(more, 1, Len(seq))
  BY <1>1 DEF Front
<1> QED
  BY <1>3, <1>4 DEF more

LEMMA NothingReaches ==
  ASSUME NEW T \in Nat \ {0}
  PROVE  ~Reaches(0, T, TVL_DRAIN_BPS)
<1>1. (0 * BPS_UNIT) \div T = 0
  BY BreakerAssumption
<1> QED
  BY <1>1, BreakerAssumption DEF Reaches

(* What a withdrawal does to the breakers.                                 *)
LEMMA VelocityRecorded ==
  ASSUME NEW amount \in Amounts, TypeOK, Withdraw(amount)
  PROVE  LET expired == Expired(breaker.VelWinSt, VELOCITY_WINDOW, time)
             accum   == amount + IF expired THEN 0 ELSE breaker.VelAccum IN
         /\ ~breaker.SoftPa /\ time' = time
         /\ breaker'.VelWinSt = IF expired THEN time ELSE breaker.VelWinSt
         /\ breaker'.VelAccum = accum
         /\ breaker'.TvlSnap = breaker.TvlSnap
         /\ ~breaker'.SoftPa =>
              ~(breaker.TvlSnap > 0 /\ Reaches(accum, breaker.TvlSnap, TVL_DRAIN_BPS))
BY DEF TypeOK, Breaker, Withdraw, WithdrawalsAllowed, RecordWithdrawalVelocity, CheckRentBalance

LEMMA WithdrawalKeeps ==
  ASSUME HInv, NEW amount \in Amounts, LoggedWithdraw(amount), TypeOK'
  PROVE  HInv'
<1> DEFINE expired == Expired(breaker.VelWinSt, VELOCITY_WINDOW, time)
           accum   == amount + IF expired THEN 0 ELSE breaker.VelAccum
           w       == [ts |-> time, amount |-> amount, tvl |-> breaker.TvlSnap]
<1>1. /\ TypeOK /\ log \in Seq(Withdrawal) /\ time \in Nat /\ amount \in Nat
      /\ breaker.VelWinSt \in Nat \cup {Unset} /\ breaker.TvlSnap \in Nat
      /\ breaker.VelAccum \in Nat
  BY CircuitBreakersAssumption DEF HInv, HTyped, TypeOK, Breaker
<1>2. /\ ~breaker.SoftPa /\ time' = time
      /\ breaker'.VelWinSt = IF expired THEN time ELSE breaker.VelWinSt
      /\ breaker'.VelAccum = accum
      /\ breaker'.TvlSnap = breaker.TvlSnap
      /\ ~breaker'.SoftPa =>
           ~(breaker.TvlSnap > 0 /\ Reaches(accum, breaker.TvlSnap, TVL_DRAIN_BPS))
  BY <1>1, VelocityRecorded DEF LoggedWithdraw
<1>3. w \in Withdrawal /\ w.ts = time /\ w.amount = amount /\ w.tvl = breaker.TvlSnap
  BY <1>1 DEF Withdrawal
<1>4. log' = Append(log, w)
  BY DEF LoggedWithdraw
<1>5. expired <=> breaker.VelWinSt # Unset /\ time - breaker.VelWinSt >= VELOCITY_WINDOW
  BY <1>1, BreakerAssumption DEF Expired, WithDefault
<1> HIDE DEF expired, w
<1>6. /\ log' \in Seq(Withdrawal) /\ Len(log') = Len(log) + 1 /\ Len(log) \in Nat
      /\ log'[Len(log) + 1] = w /\ \A i \in 1..Len(log) : log'[i] = log[i]
      /\ DOMAIN log = 1..Len(log) /\ DOMAIN log' = 1..(Len(log) + 1)
  BY <1>1, <1>3, <1>4, AppendProperties, WithdrawalTyped
<1>7. \A i \in DOMAIN log : log[i].ts \in Nat /\ log[i].ts <= time
  BY <1>1, WithdrawalTyped DEF HInv, InWindow
<1>8. expired => \A i \in DOMAIN log : log[i].ts < time
  <2> SUFFICES ASSUME expired, NEW i \in DOMAIN log PROVE log[i].ts < time
    OBVIOUS
  <2>1. breaker.VelWinSt \in Nat /\ log[i].ts < breaker.VelWinSt + VELOCITY_WINDOW
    BY <1>1, <1>5 DEF HInv, InWindow
  <2> QED
    BY <1>1, <1>5, <1>7, <2>1, BreakerAssumption
<1>9. HTyped'
  BY <1>6 DEF HTyped
<1>10. InWindow'
  <2>1. \A i \in DOMAIN log' : log'[i].ts <= time
    BY <1>1, <1>3, <1>6, <1>7
  <2>2. ASSUME breaker'.VelWinSt # Unset
        PROVE  /\ breaker'.VelWinSt \in Nat /\ breaker'.VelWinSt <= time
               /\ time < breaker'.VelWinSt + VELOCITY_WINDOW
    BY <1>1, <1>2, <1>5, <2>2, BreakerAssumption DEF HInv, InWindow
  <2>3. ASSUME breaker'.VelWinSt # Unset, NEW i \in DOMAIN log'
        PROVE  log'[i].ts < breaker'.VelWinSt + VELOCITY_WINDOW
    <3>1. log'[i].ts \in Nat
      BY <1>6, WithdrawalTyped
    <3> QED
      BY <1>1, <2>1, <2>2, <2>3, <3>1, BreakerAssumption
  <2> QED
    BY <1>2, <2>1, <2>2, <2>3 DEF InWindow
<1> DEFINE from == WithDefault(breaker.VelWinSt, 0)
           to   == WithDefault(breaker'.VelWinSt, 0)
<1>11. from \in Nat /\ to \in Nat /\ to <= time
  BY <1>1, <1>2, <1>10 DEF WithDefault, InWindow
<1>12. to = IF expired THEN time ELSE from
  BY <1>1, <1>2, BreakerAssumption DEF WithDefault
<1>13. Withdrawn(log, to) = IF expired THEN 0 ELSE breaker.VelAccum
  <2>1. CASE expired
    BY <1>1, <1>8, <1>12, <2>1, WithdrawnBefore
  <2>2. CASE ~expired
    BY <1>12, <2>2 DEF HInv, AccumulatorIsWindowTotal, WindowStart
  <2> QED
    BY <2>1, <2>2
<1> HIDE DEF from, to
<1>14. Withdrawn(log', to) = Withdrawn(log, to) + amount
  BY <1>1, <1>3, <1>4, <1>11, WithdrawnMore
<1>15. AccumulatorIsWindowTotal'
  BY <1>1, <1>2, <1>13, <1>14 DEF AccumulatorIsWindowTotal, WindowStart, to
<1>16. Undrained'
  <2> SUFFICES ASSUME NEW T \in Nat \ {0}, \A i \in DOMAIN log' : log'[i].tvl = T
               PROVE  /\ ~breaker'.SoftPa => ~Reaches(breaker'.VelAccum, T, TVL_DRAIN_BPS)
                      /\ ~Reaches(Withdrawn(log, to), T, TVL_DRAIN_BPS)
    BY <1>1, <1>3, <1>4, FrontOfAppend DEF Undrained, WindowStart, to
  <2>1. T = breaker.TvlSnap /\ \A i \in DOMAIN log : log[i].tvl = T
    BY <1>3, <1>6
  <2>2. ~breaker'.SoftPa => ~Reaches(breaker'.VelAccum, T, TVL_DRAIN_BPS)
    BY <1>2, <2>1
  <2>3. CASE expired
    BY <1>13, <2>2, <2>3, NothingReaches
  <2>4. CASE ~expired /\ log = <<>>
    BY <1>11, <2>2, <2>4, NothingReaches, WithdrawnNothing
  <2>5. CASE ~expired /\ log # <<>>
    BY <1>2, <1>13, <2>1, <2>2, <2>5 DEF HInv, Undrained
  <2> QED
    BY <2>2, <2>3, <2>4, <2>5
<1> QED
  BY <1>9, <1>10, <1>15, <1>16 DEF HInv

(* A history step is a step of the breakers.                               *)
LEMMA HistoryRefines == [HNext]_hvars => [Next]_vars
BY DEF HNext, hvars, Next, LoggedWithdraw, LoggedResume, LoggedSnapshot, LoggedTick, LoggedOther

LEMMA HistoryKept == HInv /\ [HNext]_hvars => HInv'
<1> SUFFICES ASSUME HInv, [HNext]_hvars PROVE HInv'
  OBVIOUS
<1>1. TypeOK /\ TypeOK' /\ log \in Seq(Withdrawal)
  BY HistoryRefines, TypeStep DEF HInv, HTyped
<1>2. ASSUME NEW amount \in Amounts, LoggedWithdraw(amount)
      PROVE  HInv'
  BY <1>1, <1>2, WithdrawalKeeps
<1>3. CASE LoggedResume
  <2>1. /\ breaker'.VelWinSt = time /\ breaker'.VelAccum = 0 /\ time' = time /\ log' = <<>>
        /\ time \in Nat
    BY <1>1, <1>3 DEF LoggedResume, ResumeVelocity, ResumeAfterVelocityCheck, TypeOK, Breaker
  <2>2. Withdrawn(<<>>, time) = 0 /\ time # Unset
    BY <2>1, WithdrawnNothing, BreakerAssumption
  <2>3. AccumulatorIsWindowTotal'
    BY <2>1, <2>2 DEF AccumulatorIsWindowTotal, WindowStart, WithDefault
  <2>4. log' \in Seq(Withdrawal) /\ DOMAIN log' = {}
    BY <2>1
  <2>5. HTyped'
    BY <1>1, <2>4 DEF HTyped
  <2>6. InWindow'
    BY <2>1, <2>4 DEF InWindow
  <2>7. Undrained'
    BY <2>1 DEF Undrained
  <2> QED
    BY <2>3, <2>5, <2>6, <2>7 DEF HInv
<1>4. ASSUME UNCHANGED log, time <= time',
             breaker'.VelWinSt = breaker.VelWinSt, breaker'.VelAccum = breaker.VelAccum,
             breaker'.SoftPa = breaker.SoftPa
      PROVE  HInv'
  <2>1. time \in Nat /\ time' \in Nat /\ breaker.VelWinSt \in Nat \cup {Unset}
    BY <1>1 DEF TypeOK, Breaker
  <2>2. \A i \in DOMAIN log : log[i].ts \in Nat
    BY <1>1, WithdrawalTyped
  <2>3. InWindow'
    BY <1>4, <2>1, <2>2 DEF HInv, InWindow
  <2>4. AccumulatorIsWindowTotal'
    BY <1>4 DEF HInv, AccumulatorIsWindowTotal, WindowStart
  <2>5. Undrained'
    BY <1>4 DEF HInv, Undrained, WindowStart
  <2> QED
    BY <1>1, <1>4, <2>3, <2>4, <2>5 DEF HInv, HTyped
<1>5. time \in Nat
  BY <1>1 DEF TypeOK
<1>6. ASSUME NEW liquidity \in Liquidities, LoggedSnapshot(liquidity)
      PROVE  HInv'
  BY <1>1, <1>4, <1>5, <1>6 DEF LoggedSnapshot, SnapshotTvl, UpdateTvlSnapshot, TypeOK, Breaker
<1>7. CASE LoggedTick
  BY <1>4, <1>5, <1>7 DEF LoggedTick, Tick
<1>8. CASE LoggedOther
  <2> DEFINE SameVelocity ==
        /\ breaker'.VelWinSt = breaker.VelWinSt
        /\ breaker'.VelAccum = breaker.VelAccum
        /\ breaker'.SoftPa = breaker.SoftPa
        /\ time' = time
  <2>1. ASSUME NEW active \in ActiveCounts, TriggerGrantDispute(active)
        PROVE  SameVelocity
    BY <1>1, <2>1 DEF TriggerGrantDispute, RecordDispute, TypeOK, Breaker
  <2>2. ASSUME NEW price \in Prices, SubmitOraclePrice(price)
        PROVE  SameVelocity
    BY <1>1, <2>2 DEF SubmitOraclePrice, RecordOraclePrice, TypeOK, Breaker
  <2>3. ASSUME NEW oracle \in SanityOracles, DesignateSanityOracle(oracle)
        PROVE  SameVelocity
    BY <1>1, <2>3 DEF DesignateSanityOracle, SetSanityOracle, TypeOK, Breaker
  <2>4. ASSUME ResumeInitialization
        PROVE  SameVelocity
    BY <1>1, <2>4 DEF ResumeInitialization, ResumeGrantInitialization, TypeOK, Breaker
  <2>5. ASSUME CheckRent \/ DisableRentPreservation
        PROVE  SameVelocity
    BY <1>1, <2>5
    DEF CheckRent, CheckRentBalance, DisableRentPreservation, DisableRentPreservationMode,
        TypeOK, Breaker
  <2>6. ASSUME NEW xlm \in 0..MaxXlm, NativeTransfer(xlm)
        PROVE  SameVelocity
    BY <1>1, <2>6 DEF NativeTransfer, TypeOK, Breaker
  <2>7. SameVelocity /\ UNCHANGED log
    BY <1>8, <2>1, <2>2, <2>3, <2>4, <2>5, <2>6 DEF LoggedOther
  <2> QED
    BY <1>4, <1>5, <2>7
<1>9. CASE UNCHANGED hvars
  BY <1>4, <1>5, <1>9 DEF hvars
<1> QED
  BY <1>2, <1>3, <1>6, <1>7, <1>8, <1>9 DEF HNext

LEMMA HistoryInit == HInit => HInv
<1> SUFFICES ASSUME HInit PROVE HInv
  OBVIOUS
<1>1. /\ breaker.VelWinSt = Unset /\ breaker.VelAccum = 0
      /\ log = <<>> /\ log \in Seq(Withdrawal) /\ DOMAIN log = {}
  BY DEF HInit, Init, FreshBreaker
<1>2. TypeOK
  BY InitTyped DEF HInit
<1>3. AccumulatorIsWindowTotal
  BY <1>1, WithdrawnNothing DEF AccumulatorIsWindowTotal, WindowStart, WithDefault
<1> QED
  BY <1>1, <1>3, <1>2 DEF HInv, HTyped, InWindow, Undrained

(* The accumulator of the velocity breaker is the total of its window, for *)
(* every history of withdrawals (record_withdrawal_velocity,               *)
(* resume_after_velocity_check).                                           *)
THEOREM AccumulatorExact == HSpec => []AccumulatorIsWindowTotal
<1>1. HInv => AccumulatorIsWindowTotal
  BY DEF HInv
<1> QED
  BY <1>1, HistoryInit, HistoryKept, PTL DEF HSpec

(* With an unchanged snapshot the drain limit is passed with at most one   *)
(* withdrawal in a window, the one that engages SoftPause.                 *)
THEOREM LimitPassedOnce == HSpec => []LimitPassedByOneWithdrawal
<1>1. HInv => LimitPassedByOneWithdrawal
  BY DEF HInv, HTyped, TypeOK, Breaker, Undrained, LimitPassedByOneWithdrawal, SnapshotStable
<1> QED
  BY <1>1, HistoryInit, HistoryKept, PTL DEF HSpec

=============================================================================
