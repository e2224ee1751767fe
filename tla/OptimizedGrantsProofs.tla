----------------------- MODULE OptimizedGrantsProofs -----------------------
(***************************************************************************)
(* Theorems of OptimizedGrants and MultiTokenGrants, for any ids, oracles, *)
(* tokens, amounts, rates, masks and deadlines. Those of the bit-mask      *)
(* grants rest on an invariant of a stored grant and its auxiliary         *)
(* variables, Sound, those of the multi-token grants on one of a grant and *)
(* token, TokenSound. GrantPrograms implements both specifications, so     *)
(* that each program keeps its promises beside the other.                  *)
(***************************************************************************)
EXTENDS GrantPrograms, SumTheorems, SequenceTheorems, TLAPS

Exits      == [withdrawn : Nat, transferred : Int, kind : {"Open", "RageQuit", "SelfTerminated"}]
Signatures == SUBSET (Oracles \X Hashes \X Nat)

(* The books of a grant, settled no later than now.                        *)
Booked(g, t) ==
  g \in Grant /\ g.last_update_ts <= t /\ Accounted(g) <= g.total_amount

(* What the next settlement may add, which the flow rate has given.        *)
Pending(g, t) == IF "ACTIVE" \in g.status_mask THEN g.flow_rate * (t - g.last_update_ts) ELSE 0
Backed(g, t, e) == Accounted(g) + Pending(g, t) <= e

(* The recorded approvers are listed and signed the evidence now stored.   *)
Agreed(g, s) ==
  /\ \A o \in g.approvers : o \in g.oracles /\ <<o, g.evidence, g.window_end>> \in s
  /\ g.met => Cardinality(g.approvers) >= g.threshold

(* What ExitIsFinal says of a grant that the grantee has left.             *)
Left(g, x) ==
  /\ g.status_mask \cap Moving = {}
  /\ g.withdrawn = x.withdrawn
  /\ x.kind = "SelfTerminated" => x.withdrawn + x.transferred = g.total_amount

Sound(g, t, e, x, s, l, f) ==
  /\ Booked(g, t)
  /\ ~l => Backed(g, t, e)
  /\ Agreed(g, s)
  /\ x.kind # "Open" /\ ~f => Left(g, x)

SoundAt(id) ==
  IF grants[id] = None THEN exit[id] = NoExit
  ELSE Sound(grants[id], now, earned[id], exit[id], signed[id], lapse[id], flagged[id])

IInv == TypeOK /\ \A id \in Ids : SoundAt(id)

(* Updates, kept folded where lemmas are applied.                          *)
Put(function, id, value) == [function EXCEPT ![id] = value]
Rewrite(g, m, r, c, w) ==
  [g EXCEPT !.status_mask = m, !.flow_rate = r, !.claimable = c, !.withdrawn = w]

(***************************************************************************)
(* What the invariant says of one stored grant.                            *)
(***************************************************************************)

LEMMA StoredSound ==
  ASSUME IInv, NEW id \in Ids, Stored(id)
  PROVE  /\ grants[id] \in Grant /\ now \in Nat /\ earned[id] \in Nat
         /\ exit[id] \in Exits /\ signed[id] \in Signatures
         /\ lapse[id] \in BOOLEAN /\ flagged[id] \in BOOLEAN
         /\ Sound(grants[id], now, earned[id], exit[id], signed[id], lapse[id], flagged[id])
BY DEF IInv, TypeOK, SoundAt, Stored, Exits, Signatures

(* An action that writes one grant, and its auxiliary variables with it,   *)
(* leaves the invariant of the others alone.                               *)
LEMMA Written ==
  ASSUME OptimizedAssumption, IInv, NEW id \in Ids, NEW g \in Grant, Write(id, g),
         NEW x \in Exits, NEW s \in Signatures, NEW l \in BOOLEAN, NEW f \in BOOLEAN,
         UNCHANGED <<now, earned>>,
         exit' = Put(exit, id, x), signed' = Put(signed, id, s),
         lapse' = Put(lapse, id, l), flagged' = Put(flagged, id, f),
         Sound(g, now, earned[id], x, s, l, f)
  PROVE  IInv'
<1>1. TypeOK
  BY DEF IInv
<1>2. TypeOK'
  BY <1>1 DEF TypeOK, Write, Exits, Signatures, Put
<1>3. SoundAt(id)'
  <2>1. /\ grants'[id] = g /\ exit'[id] = x /\ signed'[id] = s
        /\ lapse'[id] = l /\ flagged'[id] = f /\ now' = now /\ earned' = earned
    BY <1>1 DEF TypeOK, Write, Put
  <2>2. g # None
    BY DEF OptimizedAssumption
  <2> QED
    BY <2>1, <2>2 DEF SoundAt, Sound, Booked, Backed, Pending, Accounted, Agreed, Left
<1>4. ASSUME NEW other \in Ids, other # id
      PROVE  SoundAt(other)'
  <2>1. SoundAt(other)
    BY DEF IInv
  <2>2. /\ grants'[other] = grants[other] /\ exit'[other] = exit[other]
        /\ signed'[other] = signed[other] /\ lapse'[other] = lapse[other]
        /\ flagged'[other] = flagged[other] /\ now' = now /\ earned' = earned
    BY <1>1, <1>4 DEF TypeOK, Write, Put
  <2> QED
    BY <2>1, <2>2 DEF SoundAt, Sound, Booked, Backed, Pending, Accounted, Agreed, Left, NoExit
<1> QED
  BY <1>2, <1>3, <1>4 DEF IInv

(* The same for an action that writes no auxiliary variable.               *)
LEMMA WrittenAlone ==
  ASSUME OptimizedAssumption, IInv, NEW id \in Ids, Stored(id), NEW g \in Grant, Write(id, g),
         UNCHANGED <<now, aux>>,
         Sound(g, now, earned[id], exit[id], signed[id], lapse[id], flagged[id])
  PROVE  IInv'
<1>1. TypeOK
  BY DEF IInv
<1>2. /\ exit[id] \in Exits /\ signed[id] \in Signatures
      /\ lapse[id] \in BOOLEAN /\ flagged[id] \in BOOLEAN
  BY StoredSound
<1>3. /\ exit' = Put(exit, id, exit[id]) /\ signed' = Put(signed, id, signed[id])
      /\ lapse' = Put(lapse, id, lapse[id])
      /\ flagged' = Put(flagged, id, flagged[id])
  BY <1>1 DEF TypeOK, aux, Put
<1>4. UNCHANGED <<now, earned>>
  BY DEF aux
<1> QED
  BY <1>2, <1>3, <1>4, Written

(***************************************************************************)
(* settle_grant.                                                           *)
(***************************************************************************)

(* What every writer of a settled grant keeps of it.                       *)
Same(g, h) ==
  /\ h.total_amount = g.total_amount /\ h.threshold = g.threshold /\ h.met = g.met
  /\ h.evidence = g.evidence /\ h.window_end = g.window_end
  /\ h.oracles = g.oracles /\ h.approvers = g.approvers

LEMMA SettledGrant ==
  ASSUME NEW g \in Grant, NEW ts \in Nat, CanSettle(g, ts), Accounted(g) <= g.total_amount
  PROVE  LET s == Settle(g, ts) IN
         /\ s \in Grant /\ Same(g, s)
         /\ s.last_update_ts = ts /\ s.withdrawn = g.withdrawn /\ s.flow_rate = g.flow_rate
         /\ s.claimable >= g.claimable
         /\ Accounted(s) <= s.total_amount
         /\ Accounted(s) <= Accounted(g) + Pending(g, ts)
         /\ s.status_mask \in {g.status_mask, Completed(g.status_mask)}
         /\ "ACTIVE" \notin g.status_mask =>
              s.claimable = g.claimable /\ s.status_mask = g.status_mask
<1> DEFINE s       == Settle(g, ts)
           accrued == g.flow_rate * (ts - g.last_update_ts)
           delta   == IF accrued > Remaining(g) THEN Remaining(g) ELSE accrued
           mask    == IF delta = Remaining(g) THEN Completed(g.status_mask) ELSE g.status_mask
<1>1. /\ g.claimable \in Nat /\ g.withdrawn \in Nat /\ g.total_amount \in Nat
      /\ g.flow_rate \in Nat /\ g.last_update_ts \in Nat /\ g.status_mask \in SUBSET Flags
      /\ ts >= g.last_update_ts
  BY DEF Grant, CanSettle
<1>2. accrued \in Nat
  <2> DEFINE span == ts - g.last_update_ts
  <2>1. span \in Nat
    BY <1>1
  <2> HIDE DEF span
  <2>2. g.flow_rate * span \in Nat
    BY <1>1, <2>1
  <2> QED
    BY <2>2 DEF span
<1>3. Remaining(g) \in Nat /\ Remaining(g) = g.total_amount - (g.withdrawn + g.claimable)
  BY <1>1 DEF Remaining, Accounted
<1>4. "ACTIVE" \in g.status_mask => Pending(g, ts) = accrued
  BY DEF Pending
<1>5. "ACTIVE" \notin g.status_mask => Pending(g, ts) = 0
  BY DEF Pending
<1> HIDE DEF accrued
<1>6. delta \in Nat /\ delta <= Remaining(g) /\ delta <= accrued
  BY <1>2, <1>3
<1>7. Completed(g.status_mask) \in SUBSET Flags /\ mask \in SUBSET Flags
  BY <1>1 DEF Completed, Flags
<1>8. CASE Accrues(g, ts)
  <2>1. s = [g EXCEPT !.last_update_ts = ts, !.claimable = g.claimable + delta,
                      !.status_mask = mask]
    BY <1>8 DEF Settle, accrued
  <2>2. "ACTIVE" \in g.status_mask
    BY <1>8 DEF Accrues
  <2>3. mask \in {g.status_mask, Completed(g.status_mask)}
    OBVIOUS
  <2> HIDE DEF s, delta, mask
  <2>4. s \in Grant
    <3> DEFINE s1 == [g EXCEPT !.last_update_ts = ts]
               s2 == [s1 EXCEPT !.claimable = g.claimable + delta]
    <3>1. s1 \in Grant
      BY DEF Grant
    <3>2. s2 \in Grant
      <4> HIDE DEF s1
      <4> QED
        BY <1>1, <1>6, <3>1 DEF Grant
    <3>3. [s2 EXCEPT !.status_mask = mask] \in Grant
      <4> HIDE DEF s2
      <4> QED
        BY <1>7, <3>2 DEF Grant
    <3> QED
      BY <2>1, <3>3
  <2>5. /\ s.last_update_ts = ts /\ s.claimable = g.claimable + delta /\ s.status_mask = mask
        /\ s.withdrawn = g.withdrawn /\ s.flow_rate = g.flow_rate /\ Same(g, s)
        /\ s.total_amount = g.total_amount
    BY <2>1 DEF Grant, Same
  <2>6. s.claimable >= g.claimable /\ Accounted(s) <= s.total_amount
        /\ Accounted(s) <= Accounted(g) + Pending(g, ts)
    BY <1>1, <1>2, <1>3, <1>4, <1>6, <2>2, <2>5 DEF Accounted
  <2> QED
    BY <2>2, <2>3, <2>4, <2>5, <2>6 DEF s
<1>9. CASE ~Accrues(g, ts)
  <2>1. s = [g EXCEPT !.last_update_ts = ts]
    BY <1>9 DEF Settle
  <2> HIDE DEF s
  <2>2. s \in Grant
    BY <2>1 DEF Grant
  <2>3. /\ s.last_update_ts = ts /\ s.claimable = g.claimable /\ s.status_mask = g.status_mask
        /\ s.withdrawn = g.withdrawn /\ s.flow_rate = g.flow_rate /\ Same(g, s)
        /\ s.total_amount = g.total_amount
    BY <2>1 DEF Grant, Same
  <2>4. Pending(g, ts) \in Nat
    BY <1>2, <1>4, <1>5
  <2>5. s.claimable >= g.claimable /\ Accounted(s) <= s.total_amount
        /\ Accounted(s) <= Accounted(g) + Pending(g, ts)
    BY <1>1, <2>3, <2>4 DEF Accounted
  <2> QED
    BY <2>2, <2>3, <2>5 DEF s
<1> QED
  BY <1>8, <1>9

LEMMA PendingGrows ==
  ASSUME NEW g \in Grant, NEW t \in Nat, NEW u \in Nat, g.last_update_ts <= t, t <= u
  PROVE  /\ Pending(g, t) \in Nat /\ Pending(g, u) \in Nat
         /\ Pending(g, t) <= Pending(g, u)
         /\ g.last_update_ts = t => Pending(g, t) = 0
<1> DEFINE a == t - g.last_update_ts
           b == u - g.last_update_ts
           r == g.flow_rate
<1>1. g.flow_rate \in Nat /\ g.last_update_ts \in Nat
  BY DEF Grant
<1>2. r \in Nat /\ a \in Nat /\ b \in Nat /\ a <= b /\ (g.last_update_ts = t => a = 0)
  BY <1>1
<1>3. /\ Pending(g, t) = IF "ACTIVE" \in g.status_mask THEN r * a ELSE 0
      /\ Pending(g, u) = IF "ACTIVE" \in g.status_mask THEN r * b ELSE 0
  BY DEF Pending
<1> HIDE DEF a, b, r
<1>4. r * a \in Nat /\ r * b \in Nat
  BY <1>2
<1>5. r * a <= r * b
  BY <1>2
<1>6. a = 0 => r * a = 0
  BY <1>2
<1> QED
  BY <1>2, <1>3, <1>4, <1>5, <1>6

(* An action that settles a grant and writes it back with no more on its   *)
(* books keeps it sound.                                                   *)
LEMMA SettledSound ==
  ASSUME IInv, NEW id \in Ids, Stored(id),
         NEW ts \in Nat, ts <= now, CanSettle(grants[id], ts),
         NEW h \in Grant, Same(grants[id], h), h.last_update_ts = ts,
         ts = now \/ "ACTIVE" \notin h.status_mask,
         Accounted(h) <= Accounted(Settle(grants[id], ts)),
         NEW x, NEW f, x.kind # "Open" /\ ~f => Left(h, x)
  PROVE  Sound(h, now, earned[id], x, signed[id], lapse[id], f)
<1> DEFINE g == grants[id]
           s == Settle(g, ts)
<1>1. /\ g \in Grant /\ now \in Nat /\ earned[id] \in Nat
      /\ Sound(g, now, earned[id], exit[id], signed[id], lapse[id], flagged[id])
  BY StoredSound
<1>2. g.last_update_ts <= now /\ Accounted(g) <= g.total_amount
  BY <1>1 DEF Sound, Booked
<1>3. g.last_update_ts <= ts
  BY DEF CanSettle
<1>4. /\ Accounted(s) <= s.total_amount /\ s.total_amount = g.total_amount
      /\ Accounted(s) <= Accounted(g) + Pending(g, ts) /\ s \in Grant
  BY <1>1, <1>2, SettledGrant DEF Same
<1>5. /\ Accounted(g) \in Nat /\ Accounted(h) \in Nat /\ Accounted(s) \in Nat
      /\ g.total_amount \in Nat /\ h.total_amount = g.total_amount
  <2> HIDE DEF s, g
  <2> QED
    BY <1>1, <1>4 DEF Accounted, Grant, Same, g
<1>6. Pending(g, ts) \in Nat /\ Pending(g, now) \in Nat /\ Pending(g, ts) <= Pending(g, now)
  BY <1>1, <1>3, PendingGrows
<1>7. Pending(h, now) = 0
  <2>1. CASE ts = now
    BY <1>1, <2>1, PendingGrows
  <2>2. CASE "ACTIVE" \notin h.status_mask
    BY <2>2 DEF Pending
  <2> QED
    BY <2>1, <2>2
<1>8. Accounted(h) <= Accounted(s)
  OBVIOUS
<1>9. ~lapse[id] => Accounted(g) + Pending(g, now) <= earned[id]
  BY <1>1 DEF Sound, Backed
<1>10. Agreed(h, signed[id])
  BY <1>1 DEF Sound, Agreed, Same
<1> HIDE DEF g, s
<1>11. Booked(h, now)
  BY <1>4, <1>5, <1>8 DEF Booked
<1>12. ~lapse[id] => Backed(h, now, earned[id])
  BY <1>1, <1>4, <1>5, <1>6, <1>7, <1>8, <1>9 DEF Backed
<1> QED
  BY <1>10, <1>11, <1>12 DEF Sound

(* An action on milestones leaves the books as they are.                   *)
LEMMA MilestoneSound ==
  ASSUME NEW g, NEW t, NEW e, NEW x, NEW s, NEW l, NEW f, NEW h \in Grant, NEW s2,
         Sound(g, t, e, x, s, l, f),
         h.status_mask = g.status_mask, h.withdrawn = g.withdrawn,
         h.claimable = g.claimable, h.total_amount = g.total_amount,
         h.flow_rate = g.flow_rate, h.last_update_ts = g.last_update_ts,
         Agreed(h, s2)
  PROVE  Sound(h, t, e, x, s2, l, f)
BY DEF Sound, Booked, Backed, Pending, Accounted, Left

LEMMA NotLeft ==
  ASSUME IInv, NEW id \in Ids, Stored(id), grants[id].status_mask \cap Moving # {}
  PROVE  ~(exit[id].kind # "Open" /\ ~flagged[id])
BY StoredSound DEF Sound, Left

(* A record with its mask, rate, claimable and withdrawn amounts replaced. *)
LEMMA Rewritten ==
  ASSUME NEW s \in Grant, NEW m \in SUBSET Flags, NEW r \in Nat, NEW c \in Nat, NEW w \in Nat
  PROVE  LET h == Rewrite(s, m, r, c, w)
         IN  /\ h \in Grant /\ h.status_mask = m /\ h.flow_rate = r /\ h.claimable = c
             /\ h.withdrawn = w /\ h.last_update_ts = s.last_update_ts
             /\ Same(s, h)
<1> DEFINE h1 == [s EXCEPT !.status_mask = m]
           h2 == [h1 EXCEPT !.flow_rate = r]
           h3 == [h2 EXCEPT !.claimable = c]
           h  == [h3 EXCEPT !.withdrawn = w]
<1>1. h1 \in Grant
  BY DEF Grant
<1>2. h2 \in Grant
  <2> HIDE DEF h1
  <2> QED
    BY <1>1 DEF Grant
<1>3. h3 \in Grant
  <2> HIDE DEF h2
  <2> QED
    BY <1>2 DEF Grant
<1>4. h \in Grant
  <2> HIDE DEF h3
  <2> QED
    BY <1>3 DEF Grant
<1>5. h = Rewrite(s, m, r, c, w)
  BY DEF Rewrite
<1>6. /\ h.status_mask = m /\ h.flow_rate = r /\ h.claimable = c
      /\ h.withdrawn = w /\ h.last_update_ts = s.last_update_ts
      /\ h.total_amount = s.total_amount /\ h.threshold = s.threshold /\ h.met = s.met
      /\ h.evidence = s.evidence /\ h.window_end = s.window_end
      /\ h.oracles = s.oracles /\ h.approvers = s.approvers
  BY DEF Grant
<1> HIDE DEF h
<1>7. Same(s, h)
  BY <1>6 DEF Same
<1> QED
  BY <1>4, <1>5, <1>6, <1>7

LEMMA SettledWritten ==
  ASSUME OptimizedAssumption, IInv, NEW id \in Ids, Stored(id),
         NEW ts \in Nat, ts <= now, CanSettle(grants[id], ts),
         NEW m \in SUBSET Flags, NEW r \in Nat, NEW c \in Nat, NEW w \in Nat,
         NEW x \in Exits, NEW f \in BOOLEAN,
         Write(id, Rewrite(Settle(grants[id], ts), m, r, c, w)),
         w + c <= Accounted(Settle(grants[id], ts)),
         ts = now \/ "ACTIVE" \notin m,
         UNCHANGED <<now, earned, signed, lapse>>,
         exit' = Put(exit, id, x), flagged' = Put(flagged, id, f),
         x.kind # "Open" /\ ~f =>
           /\ m \cap Moving = {} /\ w = x.withdrawn
           /\ x.kind = "SelfTerminated" => x.withdrawn + x.transferred = grants[id].total_amount
  PROVE  IInv'
<1> DEFINE s == Settle(grants[id], ts)
           h == Rewrite(s, m, r, c, w)
<1>1. /\ grants[id] \in Grant /\ signed[id] \in Signatures /\ lapse[id] \in BOOLEAN
      /\ Accounted(grants[id]) <= grants[id].total_amount
  BY StoredSound DEF Sound, Booked
<1>2. s \in Grant /\ Same(grants[id], s) /\ s.last_update_ts = ts
  BY <1>1, SettledGrant
<1>3. Write(id, h) /\ w + c <= Accounted(s)
  OBVIOUS
<1> HIDE DEF s
<1>4. /\ h \in Grant /\ h.status_mask = m /\ h.claimable = c /\ h.withdrawn = w
      /\ h.last_update_ts = ts /\ Same(grants[id], h)
  <2>1. /\ h \in Grant /\ h.status_mask = m /\ h.claimable = c /\ h.withdrawn = w
        /\ h.last_update_ts = s.last_update_ts /\ Same(s, h)
    BY <1>2, Rewritten
  <2> HIDE DEF h
  <2>2. Same(grants[id], h)
    BY <1>2, <2>1 DEF Same
  <2> QED
    BY <1>2, <2>1, <2>2
<1> HIDE DEF h
<1>5. Accounted(h) <= Accounted(s)
  BY <1>3, <1>4 DEF Accounted
<1>6. x.kind # "Open" /\ ~f => Left(h, x)
  BY <1>4 DEF Left, Same
<1>7. Sound(h, now, earned[id], x, signed[id], lapse[id], f)
  BY <1>4, <1>5, <1>6, SettledSound DEF s
<1>8. TypeOK
  BY DEF IInv
<1>9. /\ signed' = Put(signed, id, signed[id])
      /\ lapse' = Put(lapse, id, lapse[id])
      /\ UNCHANGED <<now, earned>>
      /\ exit' = Put(exit, id, x) /\ flagged' = Put(flagged, id, f)
  BY <1>8 DEF TypeOK, Put
<1> QED
  BY <1>1, <1>3, <1>4, <1>7, <1>9, Written

(***************************************************************************)
(* The actions.                                                            *)
(***************************************************************************)

LEMMA CreateKeeps ==
  ASSUME OptimizedAssumption, IInv, NEW id \in Ids, NEW total \in Totals, NEW rate \in Rates,
         NEW mask \in Masks, CreateGrant(id, total, rate, mask)
  PROVE  IInv'
<1> DEFINE h == [status_mask |-> mask, total_amount |-> total, withdrawn |-> 0,
                 claimable |-> 0, flow_rate |-> rate, last_update_ts |-> now,
                 deadline |-> 0, met |-> FALSE, threshold |-> 0, window |-> 0,
                 window_end |-> 0, evidence |-> None, oracles |-> {}, approvers |-> {}]
<1>1. TypeOK /\ now \in Nat /\ grants[id] = None /\ exit[id] = NoExit
  BY DEF IInv, TypeOK, SoundAt, CreateGrant, Stored
<1>2. /\ mask \in SUBSET Flags /\ total \in Nat /\ rate \in Nat
  BY DEF OptimizedAssumption
<1>3. h \in Grant
  BY <1>1, <1>2 DEF Grant
<1>4. earned[id] \in Nat /\ signed[id] \in Signatures /\ lapse[id] \in BOOLEAN
      /\ flagged[id] \in BOOLEAN /\ exit[id] \in Exits
  BY <1>1 DEF TypeOK, Signatures, Exits
<1>5. Pending(h, now) = 0
  BY <1>1, <1>3, PendingGrows
<1>6. Sound(h, now, earned[id], exit[id], signed[id], lapse[id], flagged[id])
  BY <1>1, <1>2, <1>3, <1>4, <1>5 DEF Sound, Booked, Backed, Accounted, Agreed, NoExit
<1>7. Write(id, h) /\ UNCHANGED <<now, earned>>
      /\ exit' = Put(exit, id, exit[id]) /\ signed' = Put(signed, id, signed[id])
      /\ lapse' = Put(lapse, id, lapse[id])
      /\ flagged' = Put(flagged, id, flagged[id])
  BY <1>1 DEF CreateGrant, aux, TypeOK, Put
<1> QED
  BY <1>3, <1>4, <1>6, <1>7, Written

(* What is known of a grant that an action settles until now.              *)
LEMMA SettledNow ==
  ASSUME OptimizedAssumption, IInv, NEW id \in Ids, Stored(id), NEW ts \in Nat,
         CanSettle(grants[id], ts)
  PROVE  LET g == grants[id]
             s == Settle(g, ts)
         IN  /\ g \in Grant /\ s \in Grant /\ now \in Nat
             /\ s.status_mask \in SUBSET Flags /\ s.flow_rate \in Nat
             /\ s.claimable \in Nat /\ s.withdrawn \in Nat /\ s.total_amount \in Nat
             /\ g.status_mask \in SUBSET Flags
             /\ s.withdrawn = g.withdrawn /\ s.total_amount = g.total_amount
             /\ s.withdrawn + s.claimable = Accounted(s)
             /\ Accounted(s) <= g.total_amount
             /\ s.claimable >= g.claimable
             /\ s.status_mask \in {g.status_mask, Completed(g.status_mask)}
             /\ exit[id] \in Exits /\ flagged[id] \in BOOLEAN
             /\ exit' = exit => exit' = Put(exit, id, exit[id])
             /\ flagged' = flagged => flagged' = Put(flagged, id, flagged[id])
             /\ exit[id].kind # "Open" /\ ~flagged[id] =>
                  /\ g.status_mask \cap Moving = {} /\ s.status_mask = g.status_mask
                  /\ g.withdrawn = exit[id].withdrawn
                  /\ exit[id].kind = "SelfTerminated" =>
                       exit[id].withdrawn + exit[id].transferred = g.total_amount
<1> DEFINE g == grants[id]
           s == Settle(g, ts)
<1>1. /\ g \in Grant /\ now \in Nat /\ exit[id] \in Exits /\ flagged[id] \in BOOLEAN
      /\ Accounted(g) <= g.total_amount
      /\ exit[id].kind # "Open" /\ ~flagged[id] => Left(g, exit[id])
  BY StoredSound DEF Sound, Booked
<1>2. /\ s \in Grant /\ Same(g, s) /\ s.withdrawn = g.withdrawn /\ s.flow_rate = g.flow_rate
      /\ Accounted(s) <= s.total_amount /\ s.claimable >= g.claimable
      /\ s.status_mask \in {g.status_mask, Completed(g.status_mask)}
      /\ "ACTIVE" \notin g.status_mask => s.status_mask = g.status_mask
  BY <1>1, SettledGrant
<1> HIDE DEF s, g
<1>3. /\ s.status_mask \in SUBSET Flags /\ s.flow_rate \in Nat
      /\ s.claimable \in Nat /\ s.withdrawn \in Nat /\ s.total_amount \in Nat
      /\ g.status_mask \in SUBSET Flags /\ s.total_amount = g.total_amount
  BY <1>1, <1>2 DEF Grant, Same
<1>4. s.withdrawn + s.claimable = Accounted(s)
  BY DEF Accounted
<1>5. /\ exit' = exit => exit' = Put(exit, id, exit[id])
      /\ flagged' = flagged => flagged' = Put(flagged, id, flagged[id])
  BY DEF IInv, TypeOK, Put
<1>6. exit[id].kind # "Open" /\ ~flagged[id] =>
        /\ g.status_mask \cap Moving = {} /\ s.status_mask = g.status_mask
        /\ g.withdrawn = exit[id].withdrawn
        /\ exit[id].kind = "SelfTerminated" =>
             exit[id].withdrawn + exit[id].transferred = g.total_amount
  BY <1>1, <1>2 DEF Left, Moving
<1> QED
  BY <1>1, <1>2, <1>3, <1>4, <1>5, <1>6 DEF g, s

(* An action that settles and rewrites a grant and is not an exit.         *)
LEMMA SettledRewrite ==
  ASSUME OptimizedAssumption, IInv, NEW id \in Ids, Stored(id),
         NEW ts \in Nat, ts <= now, CanSettle(grants[id], ts),
         NEW m \in SUBSET Flags, NEW r \in Nat, NEW c \in Nat, NEW w \in Nat,
         NEW h, h = Rewrite(Settle(grants[id], ts), m, r, c, w), Write(id, h),
         w + c <= Accounted(Settle(grants[id], ts)),
         ts = now \/ "ACTIVE" \notin m,
         UNCHANGED <<now, aux>>,
         grants[id].status_mask \cap Moving = {} =>
           m \cap Moving = {} /\ w = grants[id].withdrawn
  PROVE  IInv'
<1>1. UNCHANGED <<now, earned, signed, lapse>> /\ exit' = exit /\ flagged' = flagged
  BY DEF aux
<1>2. exit[id].kind # "Open" /\ ~flagged[id] =>
        /\ grants[id].status_mask \cap Moving = {}
        /\ grants[id].withdrawn = exit[id].withdrawn
        /\ exit[id].kind = "SelfTerminated" =>
             exit[id].withdrawn + exit[id].transferred = grants[id].total_amount
  BY SettledNow
<1>3. exit' = Put(exit, id, exit[id]) /\ flagged' = Put(flagged, id, flagged[id])
      /\ exit[id] \in Exits /\ flagged[id] \in BOOLEAN
  BY <1>1, SettledNow
<1>4. exit[id].kind # "Open" /\ ~flagged[id] =>
        /\ m \cap Moving = {} /\ w = exit[id].withdrawn
        /\ exit[id].kind = "SelfTerminated" =>
             exit[id].withdrawn + exit[id].transferred = grants[id].total_amount
  BY <1>2
<1>5. Write(id, Rewrite(Settle(grants[id], ts), m, r, c, w))
  OBVIOUS
<1> QED
  BY <1>1, <1>3, <1>4, <1>5, SettledWritten

LEMMA CancelKeeps ==
  ASSUME OptimizedAssumption, IInv, NEW id \in Ids, CancelGrant(id)
  PROVE  IInv'
<1> DEFINE g == grants[id]
           s == Settle(g, now)
           m == g.status_mask \cup {"CANCELLED"}
           h == [s EXCEPT !.status_mask = m, !.flow_rate = 0]
<1>1. Stored(id) /\ CanSettle(g, now) /\ UNCHANGED <<now, aux>> /\ Write(id, h)
  BY DEF CancelGrant
<1>2. now \in Nat
  BY <1>1, StoredSound
<1>3. /\ s \in Grant /\ g.status_mask \in SUBSET Flags /\ s.claimable \in Nat
      /\ s.withdrawn \in Nat /\ s.withdrawn = g.withdrawn
      /\ s.withdrawn + s.claimable = Accounted(s)
  BY <1>1, <1>2, SettledNow
<1>4. h = Rewrite(s, m, 0, s.claimable, s.withdrawn)
  <2> HIDE DEF s, m
  <2> QED
    BY <1>3 DEF Grant, Rewrite
<1>5. m \in SUBSET Flags /\ (g.status_mask \cap Moving = {} => m \cap Moving = {})
  BY <1>3 DEF Flags, Moving
<1>6. 0 \in Nat /\ now <= now /\ s.withdrawn + s.claimable <= Accounted(s)
  BY <1>2, <1>3
<1> HIDE DEF h, m
<1> QED
  BY <1>1, <1>2, <1>3, <1>4, <1>5, <1>6, SettledRewrite

LEMMA PauseKeeps ==
  ASSUME OptimizedAssumption, IInv, NEW id \in Ids, PauseGrant(id) \/ ResumeGrant(id)
  PROVE  IInv'
<1> DEFINE g == grants[id]
           s == Settle(g, now)
<1>1. PICK m : /\ Stored(id) /\ CanSettle(g, now) /\ UNCHANGED <<now, aux>>
               /\ Write(id, [s EXCEPT !.status_mask = m])
               /\ g.status_mask \cap Moving # {}
               /\ m \subseteq g.status_mask \cup Moving
  BY DEF PauseGrant, ResumeGrant, Has, Moving
<1> DEFINE h == [s EXCEPT !.status_mask = m]
<1>2. now \in Nat
  BY <1>1, StoredSound
<1>3. /\ s \in Grant /\ g.status_mask \in SUBSET Flags /\ s.claimable \in Nat
      /\ s.flow_rate \in Nat /\ s.withdrawn \in Nat
      /\ s.withdrawn + s.claimable = Accounted(s)
  BY <1>1, <1>2, SettledNow
<1>4. h = Rewrite(s, m, s.flow_rate, s.claimable, s.withdrawn)
  <2> HIDE DEF s
  <2> QED
    BY <1>3 DEF Grant, Rewrite
<1>5. m \in SUBSET Flags
  BY <1>1, <1>3 DEF Flags, Moving
<1>6. now <= now /\ s.withdrawn + s.claimable <= Accounted(s) /\ Write(id, h)
  BY <1>1, <1>2, <1>3
<1> HIDE DEF h
<1> QED
  BY <1>1, <1>2, <1>3, <1>4, <1>5, <1>6, SettledRewrite

LEMMA FlagsKeep ==
  ASSUME OptimizedAssumption, IInv, NEW id \in Ids, NEW mask \in Masks, SetGrantFlags(id, mask)
  PROVE  IInv'
<1> DEFINE g == grants[id]
           s == Settle(g, now)
           h == [s EXCEPT !.status_mask = mask]
<1>1. /\ Stored(id) /\ CanSettle(g, now) /\ Write(id, h)
      /\ flagged' = Put(flagged, id, TRUE)
      /\ UNCHANGED <<now, earned, signed, lapse>> /\ exit' = exit
  BY DEF SetGrantFlags, Put
<1>2. now \in Nat
  BY <1>1, StoredSound
<1>3. /\ s \in Grant /\ s.claimable \in Nat /\ s.flow_rate \in Nat /\ s.withdrawn \in Nat
      /\ s.withdrawn + s.claimable = Accounted(s)
      /\ exit[id] \in Exits /\ exit' = Put(exit, id, exit[id])
  BY <1>1, <1>2, SettledNow
<1>4. h = Rewrite(s, mask, s.flow_rate, s.claimable, s.withdrawn)
  <2> HIDE DEF s
  <2> QED
    BY <1>3 DEF Grant, Rewrite
<1>5. mask \in SUBSET Flags /\ TRUE \in BOOLEAN
  BY DEF OptimizedAssumption
<1>6. now <= now /\ s.withdrawn + s.claimable <= Accounted(s)
      /\ Write(id, Rewrite(s, mask, s.flow_rate, s.claimable, s.withdrawn))
  BY <1>1, <1>2, <1>3, <1>4
<1> HIDE DEF h
<1> QED
  BY <1>1, <1>2, <1>3, <1>5, <1>6, SettledWritten

LEMMA RateKeeps ==
  ASSUME OptimizedAssumption, IInv, NEW id \in Ids, NEW rate \in Rates, UpdateRate(id, rate)
  PROVE  IInv'
<1> DEFINE g == grants[id]
           s == Settle(g, now)
           h == [s EXCEPT !.flow_rate = rate]
<1>1. /\ Stored(id) /\ CanSettle(g, now) /\ Write(id, h) /\ UNCHANGED <<now, aux>>
      /\ g.status_mask \cap Moving # {}
  BY DEF UpdateRate
<1>2. now \in Nat
  BY <1>1, StoredSound
<1>3. /\ s \in Grant /\ s.claimable \in Nat /\ s.withdrawn \in Nat
      /\ s.status_mask \in SUBSET Flags
      /\ s.withdrawn + s.claimable = Accounted(s)
  BY <1>1, <1>2, SettledNow
<1>4. h = Rewrite(s, s.status_mask, rate, s.claimable, s.withdrawn)
  <2> HIDE DEF s
  <2> QED
    BY <1>3 DEF Grant, Rewrite
<1>5. rate \in Nat
  BY DEF OptimizedAssumption
<1>6. now <= now /\ s.withdrawn + s.claimable <= Accounted(s)
  BY <1>2, <1>3
<1> HIDE DEF h
<1> QED
  BY <1>1, <1>2, <1>3, <1>4, <1>5, <1>6, SettledRewrite

LEMMA ExpiryKeeps ==
  ASSUME OptimizedAssumption, IInv, NEW id \in Ids, ProcessMilestoneExpiry(id)
  PROVE  IInv'
<1> DEFINE g  == grants[id]
           ts == IF g.last_update_ts < g.deadline THEN g.deadline ELSE g.last_update_ts
           s  == Settle(g, ts)
           m  == (s.status_mask \cup {"CANCELLED"}) \ Moving
           h  == [s EXCEPT !.status_mask = m, !.flow_rate = 0]
<1>1. /\ Stored(id) /\ CanSettle(g, ts) /\ Write(id, h) /\ UNCHANGED <<now, aux>>
      /\ now > g.deadline
  BY DEF ProcessMilestoneExpiry, Expired
<1>2. /\ now \in Nat /\ g \in Grant
      /\ g.last_update_ts <= now
  BY <1>1, StoredSound DEF Sound, Booked
<1>3. ts \in Nat /\ ts <= now
  BY <1>1, <1>2 DEF Grant
<1> HIDE DEF ts
<1>4. /\ s \in Grant /\ s.claimable \in Nat /\ s.withdrawn \in Nat
      /\ s.status_mask \in SUBSET Flags /\ s.withdrawn = g.withdrawn
      /\ s.withdrawn + s.claimable = Accounted(s)
  BY <1>1, <1>3, SettledNow
<1>5. h = Rewrite(s, m, 0, s.claimable, s.withdrawn)
  <2> HIDE DEF s, m
  <2> QED
    BY <1>4 DEF Grant, Rewrite
<1>6. m \in SUBSET Flags /\ m \cap Moving = {} /\ "ACTIVE" \notin m
  BY <1>4 DEF Flags, Moving
<1>7. 0 \in Nat /\ s.withdrawn + s.claimable <= Accounted(s)
  BY <1>4
<1> HIDE DEF h, m
<1> QED
  BY <1>1, <1>3, <1>4, <1>5, <1>6, <1>7, SettledRewrite

LEMMA WithdrawKeeps ==
  ASSUME OptimizedAssumption, IInv, NEW id \in Ids, NEW amount \in 1..MaxTime,
         Withdraw(id, amount)
  PROVE  IInv'
<1> DEFINE g == grants[id]
           s == Settle(g, now)
           b == [s EXCEPT !.claimable = @ - amount, !.withdrawn = @ + amount]
           m == IF Accounted(b) = b.total_amount THEN Completed(s.status_mask)
                                                 ELSE s.status_mask
           h == IF Accounted(b) = b.total_amount
                THEN [b EXCEPT !.status_mask = Completed(@)] ELSE b
           c == s.claimable - amount
           w == s.withdrawn + amount
<1>1. /\ Stored(id) /\ CanSettle(g, now) /\ Write(id, h) /\ UNCHANGED <<now, aux>>
      /\ "ACTIVE" \in g.status_mask /\ amount <= s.claimable
  BY DEF Withdraw, Has
<1>2. now \in Nat /\ amount \in Nat
  BY <1>1, StoredSound DEF OptimizedAssumption
<1>3. /\ s \in Grant /\ s.claimable \in Nat /\ s.withdrawn \in Nat
      /\ s.status_mask \in SUBSET Flags /\ s.flow_rate \in Nat
      /\ s.withdrawn + s.claimable = Accounted(s)
  BY <1>1, <1>2, SettledNow
<1>4. c \in Nat /\ w \in Nat /\ w + c <= Accounted(s)
  <2> HIDE DEF s
  <2>1. c \in Nat /\ w \in Nat
    BY <1>1, <1>2, <1>3
  <2>2. w + c = s.withdrawn + s.claimable
    BY <1>2, <1>3
  <2>3. s.withdrawn + s.claimable \in Nat
    BY <1>3
  <2> QED
    BY <1>3, <2>1, <2>2, <2>3
<1>5. h = Rewrite(s, m, s.flow_rate, c, w)
  <2> HIDE DEF s
  <2>1. b = [s EXCEPT !.claimable = c, !.withdrawn = w]
    BY <1>3 DEF Grant
  <2>2. b.status_mask = s.status_mask
    BY <1>3 DEF Grant
  <2>3. h = [b EXCEPT !.status_mask = m]
    BY <1>3, <2>2 DEF Grant
  <2> HIDE DEF b, m, h, c, w
  <2> QED
    BY <1>3, <2>1, <2>3 DEF Grant, Rewrite
<1>6. m \in SUBSET Flags
  BY <1>3 DEF Completed, Flags
<1>7. now <= now /\ g.status_mask \cap Moving # {}
  BY <1>1, <1>2 DEF Moving
<1> HIDE DEF h, m, c, w
<1> QED
  BY <1>1, <1>2, <1>3, <1>4, <1>5, <1>6, <1>7, SettledRewrite

LEMMA ClawbackKeeps ==
  ASSUME OptimizedAssumption, IInv, NEW id \in Ids, ClawbackMilestone(id)
  PROVE  IInv'
<1> DEFINE g == grants[id]
           s == Settle(g, now)
           c == 0
           h == [s EXCEPT !.claimable = c]
<1>1. Stored(id) /\ CanSettle(g, now) /\ Write(id, h) /\ UNCHANGED <<now, aux>>
  BY DEF ClawbackMilestone
<1>2. now \in Nat
  BY <1>1, StoredSound
<1>3. /\ s \in Grant /\ s.claimable \in Nat /\ s.withdrawn \in Nat
      /\ s.status_mask \in SUBSET Flags /\ s.flow_rate \in Nat
      /\ s.withdrawn + s.claimable = Accounted(s)
  BY <1>1, <1>2, SettledNow
<1>4. h = Rewrite(s, s.status_mask, s.flow_rate, c, s.withdrawn)
  <2> HIDE DEF s
  <2> QED
    BY <1>3 DEF Grant, Rewrite
<1>5. g.status_mask \cap Moving = {} =>
        s.status_mask \cap Moving = {} /\ s.withdrawn = g.withdrawn
  <2>1. /\ s.withdrawn = g.withdrawn
        /\ s.status_mask \in {g.status_mask, Completed(g.status_mask)}
    BY <1>1, <1>2, SettledNow
  <2> QED
    BY <2>1 DEF Completed, Moving
<1>6. c \in Nat /\ now <= now /\ s.withdrawn + c <= Accounted(s)
  <2> HIDE DEF s
  <2> QED
    BY <1>2, <1>3
<1> HIDE DEF h, c
<1> QED
  BY <1>1, <1>2, <1>3, <1>4, <1>5, <1>6, SettledRewrite

LEMMA RageQuitKeeps ==
  ASSUME OptimizedAssumption, IInv, NEW id \in Ids, RageQuit(id)
  PROVE  IInv'
<1> DEFINE g == grants[id]
           s == Settle(g, now)
           m == (s.status_mask \cup {"COMPLETED", "RAGE_QUIT"}) \ Moving
           c == 0
           w == s.withdrawn + s.claimable
           h == [s EXCEPT !.status_mask = m, !.flow_rate = c, !.withdrawn = w, !.claimable = c]
           x == [withdrawn |-> w, transferred |-> 0, kind |-> "RageQuit"]
<1>1. /\ Stored(id) /\ CanSettle(g, now) /\ exit' = Put(exit, id, x)
      /\ UNCHANGED <<now, earned, signed, lapse>> /\ flagged' = flagged
  BY DEF RageQuit, Put
<1>2. now \in Nat
  BY <1>1, StoredSound
<1>3. /\ s \in Grant /\ s.claimable \in Nat /\ s.withdrawn \in Nat
      /\ s.status_mask \in SUBSET Flags
      /\ s.withdrawn + s.claimable = Accounted(s)
      /\ flagged[id] \in BOOLEAN /\ flagged' = Put(flagged, id, flagged[id])
  BY <1>1, <1>2, SettledNow
<1>4. Write(id, Rewrite(s, m, c, c, w))
  <2>1. Write(id, [s EXCEPT !.status_mask = (@ \cup {"COMPLETED", "RAGE_QUIT"}) \ Moving,
                            !.flow_rate = 0, !.withdrawn = @ + s.claimable, !.claimable = 0])
    BY DEF RageQuit
  <2>2. [s EXCEPT !.status_mask = (@ \cup {"COMPLETED", "RAGE_QUIT"}) \ Moving,
                  !.flow_rate = 0, !.withdrawn = @ + s.claimable, !.claimable = 0] = h
    <3> HIDE DEF s
    <3> QED
      BY <1>3 DEF Grant
  <2>3. h = Rewrite(s, m, c, c, w)
    <3> HIDE DEF s, m, c, w
    <3> QED
      BY <1>3 DEF Grant, Rewrite
  <2> QED
    BY <2>1, <2>2, <2>3
<1>5. w \in Nat /\ c \in Nat /\ w + c <= Accounted(s)
  <2> HIDE DEF s
  <2> QED
    BY <1>3
<1>6. m \in SUBSET Flags /\ m \cap Moving = {}
  BY <1>3 DEF Flags, Moving
<1>7. x \in Exits /\ w = x.withdrawn /\ x.kind # "SelfTerminated" /\ now <= now
  <2> HIDE DEF w
  <2> QED
    BY <1>2, <1>5 DEF Exits
<1> HIDE DEF m, c, w, x, h
<1> QED
  BY <1>1, <1>2, <1>3, <1>4, <1>5, <1>6, <1>7, SettledWritten

LEMMA SelfTerminateKeeps ==
  ASSUME OptimizedAssumption, IInv, NEW id \in Ids, SelfTerminate(id)
  PROVE  IInv'
<1> DEFINE g == grants[id]
           s == Settle(g, now)
           m == (s.status_mask \cup {"RAGE_QUIT"}) \ Moving
           h == [s EXCEPT !.status_mask = m, !.flow_rate = 0]
           x == [withdrawn |-> s.withdrawn, transferred |-> Payout(s), kind |-> "SelfTerminated"]
<1>1. /\ Stored(id) /\ CanSettle(g, now) /\ exit' = Put(exit, id, x)
      /\ UNCHANGED <<now, earned, signed, lapse>> /\ flagged' = flagged
      /\ Write(id, h)
  BY DEF SelfTerminate, Put
<1>2. now \in Nat
  BY <1>1, StoredSound
<1>3. /\ s \in Grant /\ s.claimable \in Nat /\ s.withdrawn \in Nat
      /\ s.total_amount \in Nat /\ s.total_amount = g.total_amount
      /\ s.status_mask \in SUBSET Flags
      /\ s.withdrawn + s.claimable = Accounted(s) /\ Accounted(s) <= g.total_amount
      /\ flagged[id] \in BOOLEAN /\ flagged' = Put(flagged, id, flagged[id])
  BY <1>1, <1>2, SettledNow
<1>4. h = Rewrite(s, m, 0, s.claimable, s.withdrawn)
  <2> HIDE DEF s, m
  <2> QED
    BY <1>3 DEF Grant, Rewrite
<1>5. Payout(s) \in Int /\ s.withdrawn + Payout(s) = g.total_amount
  <2>1. Remaining(s) = g.total_amount - (s.withdrawn + s.claimable)
        /\ s.withdrawn + s.claimable <= g.total_amount
    BY <1>3 DEF Remaining
  <2> HIDE DEF s, g
  <2> QED
    BY <1>3, <2>1 DEF Payout, FinalPayment
<1>6. m \in SUBSET Flags /\ m \cap Moving = {}
  BY <1>3 DEF Flags, Moving
<1>7. /\ x \in Exits /\ s.withdrawn = x.withdrawn
      /\ x.withdrawn + x.transferred = grants[id].total_amount
  BY <1>3, <1>5 DEF Exits
<1>8. 0 \in Nat /\ now <= now /\ s.withdrawn + s.claimable <= Accounted(s)
      /\ Write(id, Rewrite(s, m, 0, s.claimable, s.withdrawn))
  BY <1>1, <1>2, <1>3, <1>4
<1> HIDE DEF m, x, h
<1> QED
  BY <1>1, <1>2, <1>3, <1>6, <1>7, <1>8, SettledWritten

(* What an action writes that touches only the milestone of a grant.       *)
LEMMA MilestoneWritten ==
  ASSUME OptimizedAssumption, IInv, NEW id \in Ids, Stored(id), UNCHANGED <<now, aux>>,
         NEW h \in Grant, Write(id, h), Agreed(h, signed[id]),
         h.status_mask = grants[id].status_mask, h.withdrawn = grants[id].withdrawn,
         h.claimable = grants[id].claimable, h.total_amount = grants[id].total_amount,
         h.flow_rate = grants[id].flow_rate, h.last_update_ts = grants[id].last_update_ts
  PROVE  IInv'
<1>1. Sound(grants[id], now, earned[id], exit[id], signed[id], lapse[id], flagged[id])
  BY StoredSound
<1>2. Sound(h, now, earned[id], exit[id], signed[id], lapse[id], flagged[id])
  BY <1>1, MilestoneSound
<1> QED
  BY <1>2, WrittenAlone

LEMMA DeadlineKeeps ==
  ASSUME OptimizedAssumption, IInv, NEW id \in Ids, NEW deadline \in Deadlines,
         SetMilestoneDeadline(id, deadline)
  PROVE  IInv'
<1> DEFINE g  == grants[id]
           h1 == [g EXCEPT !.deadline = deadline]
           h  == [h1 EXCEPT !.met = FALSE]
<1>1. Stored(id) /\ UNCHANGED <<now, aux>> /\ Write(id, h) /\ deadline \in Nat
  BY DEF SetMilestoneDeadline, OptimizedAssumption
<1>2. g \in Grant /\ Agreed(g, signed[id])
  BY <1>1, StoredSound DEF Sound
<1>3. h1 \in Grant
  BY <1>1, <1>2 DEF Grant
<1>4. h \in Grant
  <2> HIDE DEF h1
  <2> QED
    BY <1>3 DEF Grant
<1>5. /\ h.status_mask = g.status_mask /\ h.withdrawn = g.withdrawn
      /\ h.claimable = g.claimable /\ h.total_amount = g.total_amount
      /\ h.flow_rate = g.flow_rate /\ h.last_update_ts = g.last_update_ts
      /\ h.met = FALSE /\ h.approvers = g.approvers /\ h.oracles = g.oracles
      /\ h.evidence = g.evidence /\ h.window_end = g.window_end
  BY <1>2 DEF Grant
<1> HIDE DEF h
<1>6. Agreed(h, signed[id])
  BY <1>2, <1>5 DEF Agreed
<1> QED
  BY <1>1, <1>4, <1>5, <1>6, MilestoneWritten

LEMMA SubmitKeeps ==
  ASSUME OptimizedAssumption, IInv, NEW id \in Ids, NEW hash \in Hashes,
         SubmitMilestoneEvidence(id, hash)
  PROVE  IInv'
<1> DEFINE g   == grants[id]
           end == now + g.window
           h1  == [g EXCEPT !.evidence = hash]
           h2  == [h1 EXCEPT !.window_end = end]
           h3  == [h2 EXCEPT !.approvers = {}]
           h   == [h3 EXCEPT !.met = FALSE]
<1>1. Stored(id) /\ UNCHANGED <<now, aux>> /\ Write(id, h)
  BY DEF SubmitMilestoneEvidence
<1>2. g \in Grant /\ now \in Nat
  BY <1>1, StoredSound
<1>3. end \in Nat
  BY <1>2 DEF Grant
<1> HIDE DEF end
<1>4. h1 \in Grant
  BY <1>2 DEF Grant
<1>5. h2 \in Grant
  <2> HIDE DEF h1
  <2> QED
    BY <1>3, <1>4 DEF Grant
<1>6. h3 \in Grant
  <2> HIDE DEF h2
  <2> QED
    BY <1>5 DEF Grant
<1>7. h \in Grant
  <2> HIDE DEF h3
  <2> QED
    BY <1>6 DEF Grant
<1>8. /\ h.status_mask = g.status_mask /\ h.withdrawn = g.withdrawn
      /\ h.claimable = g.claimable /\ h.total_amount = g.total_amount
      /\ h.flow_rate = g.flow_rate /\ h.last_update_ts = g.last_update_ts
      /\ h.met = FALSE /\ h.approvers = {}
  BY <1>2 DEF Grant
<1> HIDE DEF h
<1>9. Agreed(h, signed[id])
  BY <1>8 DEF Agreed
<1> QED
  BY <1>1, <1>7, <1>8, <1>9, MilestoneWritten

LEMMA ConfigureKeeps ==
  ASSUME OptimizedAssumption, IInv, NEW id \in Ids, NEW oracles \in OracleSets,
         NEW n \in Thresholds, NEW window \in Windows,
         ConfigureMilestoneOracles(id, oracles, n, window)
  PROVE  IInv'
<1> DEFINE g  == grants[id]
           h1 == [g EXCEPT !.oracles = oracles]
           h2 == [h1 EXCEPT !.threshold = n]
           h3 == [h2 EXCEPT !.window = window]
           h4 == [h3 EXCEPT !.evidence = None]
           h5 == [h4 EXCEPT !.window_end = 0]
           h6 == [h5 EXCEPT !.approvers = {}]
           h  == [h6 EXCEPT !.met = FALSE]
<1>1. Stored(id) /\ UNCHANGED <<now, aux>> /\ Write(id, h)
  BY DEF ConfigureMilestoneOracles
<1>2. oracles \in SUBSET Oracles /\ n \in Nat /\ window \in Nat
  BY DEF OptimizedAssumption
<1>3. g \in Grant
  BY <1>1, StoredSound
<1>4. h1 \in Grant
  BY <1>2, <1>3 DEF Grant
<1>5. h2 \in Grant
  <2> HIDE DEF h1
  <2> QED
    BY <1>2, <1>4 DEF Grant
<1>6. h3 \in Grant
  <2> HIDE DEF h2
  <2> QED
    BY <1>2, <1>5 DEF Grant
<1>7. h4 \in Grant
  <2> HIDE DEF h3
  <2> QED
    BY <1>6 DEF Grant
<1>8. h5 \in Grant
  <2> HIDE DEF h4
  <2> QED
    BY <1>7 DEF Grant
<1>9. h6 \in Grant
  <2> HIDE DEF h5
  <2> QED
    BY <1>8 DEF Grant
<1>10. h \in Grant
  <2> HIDE DEF h6
  <2> QED
    BY <1>9 DEF Grant
<1>11. /\ h.status_mask = g.status_mask /\ h.withdrawn = g.withdrawn
       /\ h.claimable = g.claimable /\ h.total_amount = g.total_amount
       /\ h.flow_rate = g.flow_rate /\ h.last_update_ts = g.last_update_ts
       /\ h.met = FALSE /\ h.approvers = {}
  BY <1>3 DEF Grant
<1> HIDE DEF h
<1>12. Agreed(h, signed[id])
  BY <1>11 DEF Agreed
<1> QED
  BY <1>1, <1>10, <1>11, <1>12, MilestoneWritten

(* The approval that meets the threshold has every approver's signature    *)
(* behind it; it may lift a pause, and then the grant has lapsed.          *)
LEMMA ApproveKeeps ==
  ASSUME OptimizedAssumption, IInv, NEW id \in Ids, NEW oracle \in Oracles,
         ApproveMilestone(id, oracle)
  PROVE  IInv'
<1> DEFINE g    == grants[id]
           all  == g.approvers \cup {oracle}
           met  == Cardinality(all) >= g.threshold
           wake == met /\ "PAUSED" \in g.status_mask
           m    == IF wake THEN (g.status_mask \cup {"ACTIVE"}) \ {"PAUSED"} ELSE g.status_mask
           s    == signed[id] \cup {<<oracle, g.evidence, g.window_end>>}
           l    == lapse[id] \/ wake
           h1   == [g EXCEPT !.approvers = all]
           h2   == [h1 EXCEPT !.met = met]
           h    == [h2 EXCEPT !.status_mask = m]
<1>1. /\ Stored(id) /\ oracle \in g.oracles /\ g.evidence # None
      /\ Write(id, h) /\ signed' = Put(signed, id, s) /\ lapse' = Put(lapse, id, l)
      /\ UNCHANGED <<now, earned>> /\ exit' = exit /\ flagged' = flagged
  BY DEF ApproveMilestone, Has, Put
<1>2. /\ g \in Grant /\ signed[id] \in Signatures /\ lapse[id] \in BOOLEAN
      /\ exit[id] \in Exits /\ flagged[id] \in BOOLEAN /\ now \in Nat
      /\ Sound(g, now, earned[id], exit[id], signed[id], lapse[id], flagged[id])
  BY <1>1, StoredSound
<1>3. all \in SUBSET Oracles /\ met \in BOOLEAN /\ m \in SUBSET Flags
  BY <1>2 DEF Grant, Flags
<1>4. s \in Signatures
  BY <1>1, <1>2 DEF Grant, Signatures
<1>5. l \in BOOLEAN
  BY <1>2
<1>6. exit' = Put(exit, id, exit[id]) /\ flagged' = Put(flagged, id, flagged[id])
  BY <1>1 DEF IInv, TypeOK, Put
<1> HIDE DEF all, met, m
<1>7. h1 \in Grant
  BY <1>2, <1>3 DEF Grant
<1>8. h2 \in Grant
  <2> HIDE DEF h1
  <2> QED
    BY <1>3, <1>7 DEF Grant
<1>9. h \in Grant
  <2> HIDE DEF h2
  <2> QED
    BY <1>3, <1>8 DEF Grant
<1>10. /\ h.withdrawn = g.withdrawn /\ h.claimable = g.claimable
       /\ h.total_amount = g.total_amount /\ h.flow_rate = g.flow_rate
       /\ h.last_update_ts = g.last_update_ts
       /\ h.oracles = g.oracles /\ h.evidence = g.evidence
       /\ h.window_end = g.window_end /\ h.threshold = g.threshold
       /\ h.approvers = all /\ h.met = met /\ h.status_mask = m
  BY <1>2 DEF Grant
<1> HIDE DEF h
<1>11. Agreed(h, s)
  <2>1. Agreed(g, signed[id])
    BY <1>2 DEF Sound
  <2>2. ASSUME NEW o \in h.approvers
        PROVE  o \in h.oracles /\ <<o, h.evidence, h.window_end>> \in s
    BY <1>1, <1>10, <2>1, <2>2 DEF Agreed, all
  <2>3. h.met => Cardinality(h.approvers) >= h.threshold
    BY <1>10 DEF met
  <2> QED
    BY <2>2, <2>3 DEF Agreed
<1>12. Sound(h, now, earned[id], exit[id], s, l, flagged[id])
  <2>1. CASE wake
    <3>1. l = TRUE
      BY <2>1
    <3>2. Booked(h, now)
      BY <1>2, <1>9, <1>10 DEF Sound, Booked, Accounted
    <3>3. ~(exit[id].kind # "Open" /\ ~flagged[id])
      BY <1>1, <2>1, NotLeft DEF Moving
    <3> QED
      BY <1>11, <3>1, <3>2, <3>3 DEF Sound
  <2>2. CASE ~wake
    <3>1. m = g.status_mask
      BY <2>2 DEF m
    <3>2. Sound(h, now, earned[id], exit[id], s, lapse[id], flagged[id])
      BY <1>2, <1>9, <1>10, <1>11, <3>1, MilestoneSound
    <3> QED
      BY <3>2 DEF Sound
  <2> QED
    BY <2>1, <2>2
<1> HIDE DEF s, l
<1> QED
  BY <1>1, <1>2, <1>4, <1>5, <1>6, <1>9, <1>12, Written

LEMMA TickKeeps ==
  ASSUME IInv, Tick
  PROVE  IInv'
<1>1. TypeOK /\ now \in Nat /\ now' = now + 1
  BY DEF IInv, TypeOK, Tick
<1>2. ASSUME NEW id \in Ids, Stored(id)
      PROVE  /\ Sound(grants[id], now + 1, earned'[id], exit[id], signed[id],
                      lapse[id], flagged[id])
             /\ earned'[id] \in Nat
  <2> DEFINE g == grants[id]
             a == now - g.last_update_ts
             r == g.flow_rate
  <2>1. /\ g \in Grant /\ earned[id] \in Nat
        /\ Sound(g, now, earned[id], exit[id], signed[id], lapse[id], flagged[id])
    BY <1>2, StoredSound
  <2>2. earned'[id] = IF "ACTIVE" \in g.status_mask THEN earned[id] + r ELSE earned[id]
    BY <1>2 DEF Tick, Has
  <2>3. /\ r \in Nat /\ g.last_update_ts \in Nat /\ g.last_update_ts <= now
        /\ Accounted(g) \in Nat
    BY <2>1 DEF Grant, Sound, Booked, Accounted
  <2>4. a \in Nat /\ (now + 1) - g.last_update_ts = a + 1
    BY <1>1, <2>3
  <2>5. /\ Pending(g, now) = IF "ACTIVE" \in g.status_mask THEN r * a ELSE 0
        /\ Pending(g, now + 1) = IF "ACTIVE" \in g.status_mask THEN r * (a + 1) ELSE 0
    BY <2>4 DEF Pending
  <2>6. ~lapse[id] => Accounted(g) + Pending(g, now) <= earned[id]
    BY <2>1 DEF Sound, Backed
  <2> HIDE DEF a, r, g
  <2>7. r * (a + 1) = r * a + r /\ r * a \in Nat
    BY <2>3, <2>4
  <2>8. ~lapse[id] => Accounted(g) + Pending(g, now + 1) <= earned'[id]
    BY <2>1, <2>2, <2>3, <2>5, <2>6, <2>7
  <2>9. Booked(g, now + 1)
    BY <1>1, <2>1, <2>3 DEF Sound, Booked
  <2>10. earned'[id] \in Nat
    BY <2>1, <2>2, <2>3
  <2> QED
    BY <2>1, <2>8, <2>9, <2>10 DEF Sound, Backed, g
<1>3. TypeOK'
  <2>1. ASSUME NEW id \in Ids
        PROVE  earned'[id] \in Nat
    BY <1>1, <1>2 DEF TypeOK, Tick
  <2>2. earned' \in [Ids -> Nat]
    BY <2>1 DEF Tick
  <2> QED
    BY <1>1, <2>2 DEF TypeOK, Tick
<1>4. ASSUME NEW id \in Ids
      PROVE  SoundAt(id)'
  <2>1. /\ grants' = grants /\ exit' = exit /\ signed' = signed
        /\ lapse' = lapse /\ flagged' = flagged
    BY DEF Tick
  <2>2. CASE grants[id] = None
    BY <2>1, <2>2 DEF IInv, SoundAt, NoExit
  <2>3. CASE grants[id] # None
    <3>1. Sound(grants[id], now + 1, earned'[id], exit[id], signed[id], lapse[id], flagged[id])
      BY <1>2, <2>3 DEF Stored
    <3> QED
      BY <1>1, <2>1, <2>3, <3>1
         DEF SoundAt, Sound, Booked, Backed, Pending, Accounted, Agreed, Left
  <2> QED
    BY <2>2, <2>3
<1> QED
  BY <1>3, <1>4 DEF IInv

(***************************************************************************)
(* The theorems.                                                           *)
(***************************************************************************)

LEMMA OptimizedInductive ==
  ASSUME OptimizedAssumption
  PROVE  /\ Init => IInv
         /\ IInv /\ [Next]_vars => IInv'
<1>1. Init => IInv
  BY DEF Init, IInv, TypeOK, SoundAt, NoExit
<1>2. ASSUME IInv, [Next]_vars
      PROVE  IInv'
  <2>1. CASE UNCHANGED vars
    BY <1>2, <2>1 DEF vars, aux, IInv, TypeOK, SoundAt, Sound, Booked, Backed, Pending,
                      Accounted, Agreed, Left, NoExit
  <2>2. CASE Tick
    BY <1>2, <2>2, TickKeeps
  <2>3. ASSUME NEW id \in Ids, AdminNext(id)
        PROVE  IInv'
    BY <1>2, <2>3, CreateKeeps, CancelKeeps, PauseKeeps, FlagsKeep, RateKeeps, DeadlineKeeps,
       ConfigureKeeps, ClawbackKeeps DEF AdminNext
  <2>4. ASSUME NEW id \in Ids, GranteeNext(id)
        PROVE  IInv'
    BY <1>2, <2>4, WithdrawKeeps, SubmitKeeps, ApproveKeeps, ExpiryKeeps, RageQuitKeeps,
       SelfTerminateKeeps DEF GranteeNext
  <2> QED
    BY <1>2, <2>1, <2>2, <2>3, <2>4 DEF Next
<1> QED
  BY <1>1, <1>2

LEMMA InvariantHolds == Spec => []IInv
<1>1. Init => IInv
  BY OptimizedInductive, OptimizedAssumption
<1>2. IInv /\ [Next]_vars => IInv'
  BY OptimizedInductive, OptimizedAssumption
<1> QED
  BY <1>1, <1>2, PTL DEF Spec

(* Every field keeps its type; no amount on the books becomes negative.    *)
THEOREM TypeCorrect == Spec => []TypeOK
<1>1. IInv => TypeOK
  BY DEF IInv
<1> QED
  BY <1>1, InvariantHolds, PTL

(* settle_grant and its callers never book more than total_amount, nor     *)
(* more than the flow rate gave while ACTIVE; only approve_milestone can   *)
(* break the second part.                                                  *)
THEOREM EarningsBounded == Spec => []EarnedWithinTotal
<1>1. IInv => EarnedWithinTotal
  <2> SUFFICES ASSUME IInv, NEW id \in Ids, Stored(id)
               PROVE  /\ Accounted(grants[id]) <= grants[id].total_amount
                      /\ ~lapse[id] => Accounted(grants[id]) <= earned[id]
    BY DEF EarnedWithinTotal
  <2> DEFINE g == grants[id]
  <2>1. /\ g \in Grant /\ now \in Nat /\ earned[id] \in Nat
        /\ Sound(g, now, earned[id], exit[id], signed[id], lapse[id], flagged[id])
    BY StoredSound
  <2> HIDE DEF g
  <2>2. g.last_update_ts <= now /\ Accounted(g) <= g.total_amount
    BY <2>1 DEF Sound, Booked
  <2>3. Pending(g, now) \in Nat
    BY <2>1, <2>2, PendingGrows
  <2>4. Accounted(g) \in Nat
    BY <2>1 DEF Accounted, Grant
  <2>5. ~lapse[id] => Accounted(g) + Pending(g, now) <= earned[id]
    BY <2>1 DEF Sound, Backed
  <2>6. ~lapse[id] => Accounted(g) <= earned[id]
    BY <2>1, <2>3, <2>4, <2>5
  <2> QED
    BY <2>2, <2>6 DEF g
<1> QED
  BY <1>1, InvariantHolds, PTL

(* approve_milestone counts signatures over the evidence that is stored    *)
(* when the milestone is met, whatever was submitted and configured before.*)
THEOREM ConsensusCounts == Spec => []ConsensusBehindMilestone
<1>1. IInv => ConsensusBehindMilestone
  <2> SUFFICES ASSUME IInv, NEW id \in Ids, Stored(id), grants[id].met
               PROVE  LET g == grants[id] IN
                      Cardinality({o \in g.oracles : <<o, g.evidence, g.window_end>> \in signed[id]})
                        >= g.threshold
    BY DEF ConsensusBehindMilestone
  <2> DEFINE g      == grants[id]
             behind == {o \in g.oracles : <<o, g.evidence, g.window_end>> \in signed[id]}
  <2>1. g \in Grant /\ Agreed(g, signed[id])
    BY StoredSound DEF Sound
  <2>2. behind \subseteq Oracles /\ g.threshold \in Nat
    BY <2>1 DEF Grant
  <2>3. g.approvers \subseteq behind
    BY <2>1 DEF Agreed
  <2>4. IsFiniteSet(behind)
    BY <2>2, FS_Subset, OptimizedAssumption DEF OptimizedAssumption
  <2>5. IsFiniteSet(g.approvers) /\ Cardinality(g.approvers) <= Cardinality(behind)
    BY <2>3, <2>4, FS_Subset
  <2>6. Cardinality(g.approvers) \in Nat /\ Cardinality(behind) \in Nat
    BY <2>4, <2>5, FS_CardinalityType
  <2>7. Cardinality(g.approvers) >= g.threshold
    BY <2>1 DEF Agreed
  <2> HIDE DEF g, behind
  <2>8. Cardinality(behind) >= g.threshold
    BY <2>2, <2>5, <2>6, <2>7
  <2> QED
    BY <2>8 DEF g, behind
<1> QED
  BY <1>1, InvariantHolds, PTL

(* After rage_quit_bitmask or self_terminate nothing is booked any more,   *)
(* and a self-termination has paid out the whole of total_amount.          *)
THEOREM ExitsAreFinal == Spec => []ExitIsFinal
<1>1. IInv => ExitIsFinal
  BY StoredSound DEF ExitIsFinal, Sound, Left
<1> QED
  BY <1>1, InvariantHolds, PTL

(* Beside multi-token grants a bit-mask grant behaves as by itself: they   *)
(* share a key and the clock, and neither's steps touch the other's grant. *)
THEOREM ProgramsShareNothing == PSpec => Spec
<1>1. PInit => Init
  BY DEF PInit
<1>2. [PNext]_<<vars, tokenVars>> => [Next]_vars
  <2> SUFFICES ASSUME [PNext]_<<vars, tokenVars>> PROVE [Next]_vars
    OBVIOUS
  <2>1. CASE OptimizedStep
    BY <2>1 DEF OptimizedStep, Next
  <2>2. CASE MultiTokenStep
    <3>1. PICK id \in Ids : MT!MultiTokenNext(id)
      BY <2>2 DEF MultiTokenStep
    <3>2. now' = now
      BY <3>1 DEF MT!MultiTokenNext, MT!CreateMultiTokenGrant, MT!MultiTokenWithdraw,
                  MT!UpdateMultiTokenRates, MT!AddTokenToGrant, MT!RemoveTokenFromGrant
    <3> QED
      BY <2>2, <3>2 DEF MultiTokenStep, vars
  <2>3. CASE AssetStep
    <3>1. now' = now
      BY <2>3 DEF AssetStep, MT!AssetNext, MT!ConfigureWrappedAsset, MT!SetAssetHalt
    <3> QED
      BY <2>3, <3>1 DEF AssetStep, vars
  <2>4. CASE Tick /\ MT!MTick
    BY <2>4 DEF Next
  <2>5. CASE UNCHANGED <<vars, tokenVars>>
    BY <2>5
  <2> QED
    BY <2>1, <2>2, <2>3, <2>4, <2>5 DEF PNext
<1> QED
  BY <1>1, <1>2, PTL DEF PSpec, Spec

(* So the invariants also hold of the two programs together.               *)
THEOREM ProgramsAreSound ==
  PSpec => [](EarnedWithinTotal /\ ConsensusBehindMilestone /\ ExitIsFinal)
BY ProgramsShareNothing, EarningsBounded, ConsensusCounts, ExitsAreFinal, PTL

(***************************************************************************)
(* The multi-token grants. Their invariant says of a token of a grant what *)
(* the two properties say, counting what the rate gave since the grant was *)
(* last settled, which the next settlement may still credit.               *)
(***************************************************************************)

Due(g, t, ts) ==
  IF "ACTIVE" \in g.status_mask THEN g.tokens[t].flow_rate * (ts - g.last_update_ts) ELSE 0

TokenSound(g, t, o, gave, sent, ts) ==
  /\ \/ MT!Booked(g.tokens[t]) <= g.tokens[t].total_amount
     \/ MT!Booked(g.tokens[t]) <= o.preset
  /\ ~o.late => MT!Booked(g.tokens[t]) + Due(g, t, ts) <= o.preset + gave
  /\ g.tokens[t].withdrawn = o.withdrawn + sent

(* An id that was never used has been given and paid nothing.              *)
TokensSound(id) ==
  IF mgrants[id] = None
  THEN \A t \in Tokens : given[<<id, t>>] = 0 /\ paid[<<id, t>>] = 0
  ELSE /\ mgrants[id].last_update_ts <= now
       /\ \A t \in DOMAIN mgrants[id].tokens :
            TokenSound(mgrants[id], t, opening[<<id, t>>], given[<<id, t>>], paid[<<id, t>>], now)

MInv == MT!MTypeOK /\ \A id \in Ids : TokensSound(id)

Openings == [preset : Int, withdrawn : Int, late : BOOLEAN]

LEMMA TokenGrantStored ==
  ASSUME MInv, NEW id \in Ids, MT!MStored(id)
  PROVE  /\ \E S \in SUBSET Tokens : mgrants[id] \in MT!TokenGrant(S)
         /\ now \in Nat /\ mgrants[id].last_update_ts <= now
         /\ \A t \in DOMAIN mgrants[id].tokens :
              TokenSound(mgrants[id], t, opening[<<id, t>>], given[<<id, t>>], paid[<<id, t>>], now)
BY DEF MInv, MT!MTypeOK, TokensSound, MT!MStored

(* An action that writes one grant leaves the others alone.                *)
LEMMA TokensWritten ==
  ASSUME TokensAssumption, MInv, NEW id \in Ids, NEW S \in SUBSET Tokens,
         NEW g \in MT!TokenGrant(S), mgrants' = [mgrants EXCEPT ![id] = g],
         now' = now, g.last_update_ts <= now,
         wrapped' \in [Tokens -> {None, "Live", "Halted"}], balance' \in [Tokens -> Nat],
         opening' \in [Ids \X Tokens -> Openings],
         given' \in [Ids \X Tokens -> Nat], paid' \in [Ids \X Tokens -> Nat],
         \A k \in Ids \X Tokens : k[1] # id =>
           opening'[k] = opening[k] /\ given'[k] = given[k] /\ paid'[k] = paid[k],
         \A t \in S : TokenSound(g, t, opening'[<<id, t>>], given'[<<id, t>>],
                                 paid'[<<id, t>>], now)
  PROVE  MInv'
<1>1. MT!MTypeOK
  BY DEF MInv
<1>2. /\ DOMAIN mgrants = Ids /\ DOMAIN mgrants' = Ids /\ mgrants'[id] = g
      /\ \A other \in Ids : other # id => mgrants'[other] = mgrants[other]
  BY <1>1 DEF MT!MTypeOK
<1>3. MT!MTypeOK'
  <2>1. \A other \in Ids : mgrants'[other] # None =>
          \E R \in SUBSET Tokens : mgrants'[other] \in MT!TokenGrant(R)
    BY <1>1, <1>2 DEF MT!MTypeOK
  <2>2. now \in Nat
    BY <1>1 DEF MT!MTypeOK
  <2>3. now' \in Nat
    BY <2>2
  <2> QED
    BY <1>2, <2>1, <2>3 DEF MT!MTypeOK, Openings
<1>4. TokensSound(id)'
  <2>1. g # None
    BY TokensAssumption DEF MT!MultiTokenAssumption
  <2>2. DOMAIN g.tokens = S
    BY DEF MT!TokenGrant
  <2> QED
    BY <1>2, <2>1, <2>2 DEF TokensSound, TokenSound, Due, MT!Booked
<1>5. ASSUME NEW other \in Ids, other # id
      PROVE  TokensSound(other)'
  <2>1. TokensSound(other)
    BY DEF MInv
  <2>2. mgrants'[other] = mgrants[other]
    BY <1>2, <1>5
  <2>3. \A t \in Tokens : /\ opening'[<<other, t>>] = opening[<<other, t>>]
                          /\ given'[<<other, t>>] = given[<<other, t>>]
                          /\ paid'[<<other, t>>] = paid[<<other, t>>]
    BY <1>5
  <2>4. mgrants[other] # None => DOMAIN mgrants[other].tokens \subseteq Tokens
    BY <1>1 DEF MT!MTypeOK, MT!TokenGrant
  <2> QED
    BY <2>1, <2>2, <2>3, <2>4 DEF TokensSound, TokenSound, Due, MT!Booked
<1> QED
  BY <1>3, <1>4, <1>5 DEF MInv

(* The same for an action that leaves the other variables alone.           *)
LEMMA TokensWrittenAlone ==
  ASSUME TokensAssumption, MInv, NEW id \in Ids, NEW S \in SUBSET Tokens,
         NEW g \in MT!TokenGrant(S), mgrants' = [mgrants EXCEPT ![id] = g],
         UNCHANGED <<now, wrapped, balance, opening, given, paid>>, g.last_update_ts <= now,
         \A t \in S : TokenSound(g, t, opening[<<id, t>>], given[<<id, t>>],
                                 paid[<<id, t>>], now)
  PROVE  MInv'
<1>1. MT!MTypeOK
  BY DEF MInv
<1>2. /\ wrapped' = wrapped /\ balance' = balance /\ opening' = opening /\ given' = given
      /\ paid' = paid /\ now' = now
  OBVIOUS
<1>3. /\ wrapped' \in [Tokens -> {None, "Live", "Halted"}] /\ balance' \in [Tokens -> Nat]
      /\ opening' \in [Ids \X Tokens -> Openings]
      /\ given' \in [Ids \X Tokens -> Nat] /\ paid' \in [Ids \X Tokens -> Nat]
  BY <1>1, <1>2 DEF MT!MTypeOK, Openings
<1>4. \A t \in S : TokenSound(g, t, opening'[<<id, t>>], given'[<<id, t>>],
                              paid'[<<id, t>>], now)
  BY <1>2
<1>5. \A k \in Ids \X Tokens : k[1] # id =>
        opening'[k] = opening[k] /\ given'[k] = given[k] /\ paid'[k] = paid[k]
  BY <1>2
<1> QED
  BY <1>2, <1>3, <1>4, <1>5, TokensWritten

LEMMA AccrueExact ==
  ASSUME NEW b \in MT!Balance, NEW elapsed \in Nat,
         elapsed > 0 => (b.flow_rate > 0 => MT!Booked(b) <= b.total_amount)
  PROVE  LET c == MT!Accrue(b, elapsed) IN
         /\ c \in MT!Balance
         /\ c.total_amount = b.total_amount /\ c.withdrawn = b.withdrawn
         /\ c.flow_rate = b.flow_rate
         /\ MT!Booked(c) <= MT!Booked(b) + b.flow_rate * elapsed
         /\ c = b \/ MT!Booked(c) <= b.total_amount
<1> DEFINE accrued   == b.flow_rate * elapsed
           remaining == b.total_amount - MT!Booked(b)
           more      == IF accrued > remaining THEN remaining ELSE accrued
           c         == MT!Accrue(b, elapsed)
<1>1. /\ b.total_amount \in Nat /\ b.withdrawn \in Int /\ b.claimable \in Int
      /\ b.flow_rate \in Nat
  BY DEF MT!Balance
<1>2. accrued \in Nat
  <2>1. \A m, n \in Nat : m * n \in Nat
    OBVIOUS
  <2> QED
    BY <1>1, <2>1
<1>3. MT!Booked(b) = b.withdrawn + b.claimable
  BY DEF MT!Booked
<1>4. c = IF accrued = 0 THEN b ELSE [b EXCEPT !.claimable = b.claimable + more]
  BY DEF MT!Accrue
<1>5. accrued # 0 => MT!Booked(b) <= b.total_amount
  <2>1. elapsed = 0 \/ b.flow_rate = 0 => accrued = 0
    BY <1>1
  <2> QED
    BY <1>1, <2>1
<1>6. CASE accrued = 0
  <2>1. c = b
    BY <1>4, <1>6
  <2>2. MT!Booked(b) <= MT!Booked(b) + accrued
    BY <1>1, <1>2, <1>3
  <2> HIDE DEF c, accrued
  <2>3. /\ c \in MT!Balance
        /\ c.total_amount = b.total_amount /\ c.withdrawn = b.withdrawn
        /\ c.flow_rate = b.flow_rate /\ MT!Booked(c) <= MT!Booked(b) + accrued
    BY <2>1, <2>2
  <2> QED
    BY <2>1, <2>3 DEF c, accrued
<1>7. CASE accrued # 0
  <2> HIDE DEF accrued
  <2>1. more \in Nat /\ more <= accrued /\ more <= remaining
    BY <1>1, <1>2, <1>3, <1>5, <1>7
  <2>2. c = [b EXCEPT !.claimable = b.claimable + more]
    BY <1>4, <1>7
  <2> HIDE DEF more, c
  <2>3. /\ c \in MT!Balance /\ c.total_amount = b.total_amount /\ c.withdrawn = b.withdrawn
        /\ c.flow_rate = b.flow_rate /\ c.claimable = b.claimable + more
    BY <1>1, <2>1, <2>2 DEF MT!Balance
  <2>4. MT!Booked(c) = MT!Booked(b) + more
    BY <1>1, <1>3, <2>1, <2>3 DEF MT!Booked
  <2>5. MT!Booked(c) <= MT!Booked(b) + accrued /\ MT!Booked(c) <= b.total_amount
    BY <1>1, <1>2, <1>3, <2>1, <2>4
  <2> QED
    BY <2>3, <2>5 DEF accrued, c
<1> QED
  BY <1>6, <1>7

LEMMA TokensSettled ==
  ASSUME now \in Nat, NEW S \in SUBSET Tokens, NEW g \in MT!TokenGrant(S), MT!CanSettleTokens(g)
  PROVE  LET s == MT!SettleTokens(g) IN
         /\ s \in MT!TokenGrant(S)
         /\ s.last_update_ts = now /\ s.status_mask = g.status_mask
         /\ \A t \in S, gave, sent \in Nat, o \in Openings :
              TokenSound(g, t, o, gave, sent, now) => TokenSound(s, t, o, gave, sent, now)
<1> DEFINE s == MT!SettleTokens(g)
           elapsed == MT!Elapsed(g)
<1>1. /\ g.tokens \in [S -> MT!Balance] /\ DOMAIN g.tokens = S
      /\ g.last_update_ts \in Nat /\ now >= g.last_update_ts
  BY DEF MT!TokenGrant, MT!CanSettleTokens
<1>2. elapsed \in Nat
  BY <1>1 DEF MT!Elapsed
<1>3. ASSUME NEW t \in S
      PROVE  LET b == g.tokens[t]
                 c == MT!Accrue(b, elapsed)
             IN  /\ b \in MT!Balance /\ c \in MT!Balance
                 /\ c.total_amount = b.total_amount /\ c.withdrawn = b.withdrawn
                 /\ c.flow_rate = b.flow_rate
                 /\ MT!Booked(c) <= MT!Booked(b) + b.flow_rate * elapsed
                 /\ c = b \/ MT!Booked(c) <= b.total_amount
  <2>1. g.tokens[t] \in MT!Balance
    BY <1>1
  <2>2. elapsed > 0 =>
          (g.tokens[t].flow_rate > 0 => MT!Booked(g.tokens[t]) <= g.tokens[t].total_amount)
    BY <1>1 DEF MT!CanSettleTokens
  <2> HIDE DEF elapsed
  <2> QED
    BY <1>2, <2>1, <2>2, AccrueExact
<1>4. /\ s = [g EXCEPT !.last_update_ts = now, !.tokens = s.tokens]
      /\ s.tokens = [t \in S |-> MT!Accrue(g.tokens[t], elapsed)]
  BY <1>1 DEF MT!SettleTokens, MT!TokenGrant
<1> HIDE DEF s, elapsed
<1>5. s.tokens \in [S -> MT!Balance]
  BY <1>3, <1>4
<1>6. s \in MT!TokenGrant(S) /\ s.last_update_ts = now /\ s.status_mask = g.status_mask
  BY <1>4, <1>5 DEF MT!TokenGrant
<1>7. ASSUME NEW t \in S, NEW gave \in Nat, NEW sent \in Nat, NEW o \in Openings,
             TokenSound(g, t, o, gave, sent, now)
      PROVE  TokenSound(s, t, o, gave, sent, now)
  <2> DEFINE b == g.tokens[t]
             c == s.tokens[t]
  <2>1. c = MT!Accrue(b, elapsed)
    BY <1>4
  <2> HIDE DEF b, c
  <2>2. /\ b \in MT!Balance /\ c \in MT!Balance
        /\ c.total_amount = b.total_amount /\ c.withdrawn = b.withdrawn
        /\ MT!Booked(c) <= MT!Booked(b) + b.flow_rate * elapsed
        /\ c = b \/ MT!Booked(c) <= b.total_amount
    BY <1>3, <2>1 DEF b
  <2>3. MT!Booked(c) \in Int /\ MT!Booked(b) \in Int /\ b.flow_rate \in Nat
        /\ o.preset \in Int
    BY <2>2 DEF MT!Balance, MT!Booked, Openings
  <2>4. Due(g, t, now) = b.flow_rate * elapsed
    BY <1>1, <2>3 DEF Due, b, elapsed, MT!Elapsed
  <2>5. Due(s, t, now) = 0
    <3>1. c.flow_rate \in Nat /\ now - now = 0 /\ \A n \in Nat : n * 0 = 0
      BY <2>2 DEF MT!Balance
    <3> QED
      BY <1>6, <3>1 DEF Due, c
  <2>6. MT!Booked(c) <= c.total_amount \/ MT!Booked(c) <= o.preset
    BY <1>7, <2>2 DEF TokenSound, b
  <2>7. ~o.late => MT!Booked(c) + Due(s, t, now) <= o.preset + gave
    <3>1. b.flow_rate * elapsed \in Int
      BY <1>2, <2>3
    <3>2. SUFFICES ASSUME ~o.late
                   PROVE  MT!Booked(c) <= o.preset + gave
      BY <2>3, <2>5
    <3>3. MT!Booked(b) + b.flow_rate * elapsed <= o.preset + gave
      BY <1>7, <2>4, <3>2 DEF TokenSound, b
    <3> DEFINE accrued == b.flow_rate * elapsed
    <3> HIDE DEF accrued
    <3>4. /\ MT!Booked(c) <= MT!Booked(b) + accrued /\ accrued \in Int
          /\ MT!Booked(b) + accrued <= o.preset + gave
      BY <2>2, <3>1, <3>3 DEF accrued
    <3> QED
      BY <2>3, <3>4
  <2>8. c.withdrawn = o.withdrawn + sent
    BY <1>7, <2>2 DEF TokenSound, b
  <2> QED
    BY <2>6, <2>7, <2>8 DEF TokenSound, c
<1> QED
  BY <1>6, <1>7 DEF s

(* The books of a batch, whatever its requests: what is called withdrawn   *)
(* grows by what is sent, out of what could be claimed.                    *)
Batches(S, tokens) ==
  {batch \in [tokens : [S -> MT!Balance], sent : [Tokens -> Nat]] :
     /\ \A t \in S : LET b == batch.tokens[t] IN
          /\ b.withdrawn = tokens[t].withdrawn + batch.sent[t]
          /\ MT!Booked(b) = MT!Booked(tokens[t])
          /\ b.total_amount = tokens[t].total_amount /\ b.flow_rate = tokens[t].flow_rate
     /\ \A t \in Tokens \ S : batch.sent[t] = 0}

LEMMA RequestBooked ==
  ASSUME NEW S \in SUBSET Tokens, NEW tokens \in [S -> MT!Balance],
         NEW batch \in Batches(S, tokens), NEW r \in [token : Tokens, amount : Nat]
  PROVE  MT!ProcessTokenWithdrawal(batch, r) \in Batches(S, tokens)
<1>1. /\ batch \in [tokens : [S -> MT!Balance], sent : [Tokens -> Nat]]
      /\ DOMAIN batch.tokens = S
  BY DEF Batches
<1>2. CASE MT!Rejected(batch, r)
  BY <1>2 DEF MT!ProcessTokenWithdrawal
<1>3. CASE ~MT!Rejected(batch, r)
  <2> DEFINE e == r.token
             b == batch.tokens[e]
             c == [b EXCEPT !.claimable = b.claimable - r.amount,
                            !.withdrawn = b.withdrawn + r.amount]
             next == MT!ProcessTokenWithdrawal(batch, r)
  <2>1. e \in S /\ r.amount \in Nat /\ r.amount <= b.claimable /\ b \in MT!Balance
    <3>1. e \in S /\ b \in MT!Balance
      BY <1>1, <1>3 DEF MT!Rejected
    <3>2. b.claimable \in Int /\ r.amount \in Nat /\ ~(r.amount > b.claimable)
      BY <1>3, <3>1 DEF MT!Rejected, MT!Balance
    <3> QED
      BY <3>1, <3>2
  <2>2. next = [tokens |-> [batch.tokens EXCEPT ![e] = c],
                sent |-> [batch.sent EXCEPT ![e] = batch.sent[e] + r.amount]]
    BY <1>3 DEF MT!ProcessTokenWithdrawal
  <2>3. /\ c \in MT!Balance /\ c.withdrawn = b.withdrawn + r.amount
        /\ MT!Booked(c) = MT!Booked(b)
        /\ c.total_amount = b.total_amount /\ c.flow_rate = b.flow_rate
    <3> HIDE DEF b
    <3>1. /\ b.total_amount \in Nat /\ b.withdrawn \in Int /\ b.claimable \in Int
          /\ b.flow_rate \in Nat
      BY <2>1 DEF MT!Balance
    <3>2. b.claimable - r.amount \in Int /\ b.withdrawn + r.amount \in Int
      BY <2>1, <3>1
    <3>3. /\ c \in MT!Balance /\ c.withdrawn = b.withdrawn + r.amount
          /\ c.claimable = b.claimable - r.amount
          /\ c.total_amount = b.total_amount /\ c.flow_rate = b.flow_rate
      BY <2>1, <3>2 DEF MT!Balance
    <3> HIDE DEF c
    <3>4. MT!Booked(c) = MT!Booked(b)
      BY <2>1, <3>1, <3>3 DEF MT!Booked
    <3> QED
      BY <3>3, <3>4
  <2> HIDE DEF c, next
  <2>4. next \in [tokens : [S -> MT!Balance], sent : [Tokens -> Nat]]
    <3>1. [batch.tokens EXCEPT ![e] = c] \in [S -> MT!Balance]
      BY <1>1, <2>3
    <3>2. batch.sent[e] + r.amount \in Nat
      BY <1>1, <2>1
    <3>3. [batch.sent EXCEPT ![e] = batch.sent[e] + r.amount] \in [Tokens -> Nat]
      BY <1>1, <3>2
    <3> QED
      BY <2>2, <3>1, <3>3
  <2>5. /\ next.tokens[e] = c /\ next.sent[e] = batch.sent[e] + r.amount
        /\ \A t \in Tokens : t # e => next.sent[t] = batch.sent[t]
        /\ \A t \in S : t # e => next.tokens[t] = batch.tokens[t]
    BY <1>1, <2>1, <2>2
  <2>6. ASSUME NEW t \in S
        PROVE  LET d == next.tokens[t] IN
               /\ d.withdrawn = tokens[t].withdrawn + next.sent[t]
               /\ MT!Booked(d) = MT!Booked(tokens[t])
               /\ d.total_amount = tokens[t].total_amount
               /\ d.flow_rate = tokens[t].flow_rate
    <3>1. LET d == batch.tokens[t] IN
          /\ d.withdrawn = tokens[t].withdrawn + batch.sent[t]
          /\ MT!Booked(d) = MT!Booked(tokens[t])
          /\ d.total_amount = tokens[t].total_amount /\ d.flow_rate = tokens[t].flow_rate
      BY DEF Batches
    <3>2. CASE t # e
      BY <2>5, <3>1, <3>2
    <3>3. CASE t = e
      <4>1. /\ tokens[t].withdrawn \in Int /\ batch.sent[e] \in Nat /\ r.amount \in Nat
        BY <1>1 DEF MT!Balance
      <4>2. c.withdrawn = tokens[t].withdrawn + (batch.sent[e] + r.amount)
        BY <2>3, <3>1, <3>3, <4>1
      <4> QED
        BY <2>3, <2>5, <3>1, <3>3, <4>2
    <3> QED
      BY <3>2, <3>3
  <2>7. \A t \in Tokens \ S : next.sent[t] = 0
    <3>1. \A t \in Tokens \ S : batch.sent[t] = 0
      BY DEF Batches
    <3> QED
      BY <2>1, <2>5, <3>1
  <2> QED
    BY <2>4, <2>6, <2>7 DEF Batches, next
<1> QED
  BY <1>2, <1>3

LEMMA BatchBooked ==
  ASSUME NEW S \in SUBSET Tokens, NEW tokens \in [S -> MT!Balance],
         NEW requests \in Seq([token : Tokens, amount : Nat])
  PROVE  MT!Batch(tokens, requests) \in Batches(S, tokens)
<1> DEFINE n == Len(requests)
           X == Batches(S, tokens)
           base == MT!Untouched(tokens)
           step == [kx \in (1..n) \X X |-> MT!ProcessTokenWithdrawal(kx[2], requests[kx[1]])]
           Rule(f) == f = [k \in 0..n |->
             IF k = 0 THEN base ELSE MT!ProcessTokenWithdrawal(f[k - 1], requests[k])]
<1>1. n \in Nat /\ \A k \in 1..n : requests[k] \in [token : Tokens, amount : Nat]
  BY LenProperties, ElementOfSeq
<1>2. base \in X
  <2>1. base \in [tokens : [S -> MT!Balance], sent : [Tokens -> Nat]]
    BY DEF MT!Untouched
  <2>2. \A t \in S : tokens[t].withdrawn \in Int
    BY DEF MT!Balance
  <2> QED
    BY <2>1, <2>2 DEF Batches, MT!Untouched
<1>3. step \in [(1..n) \X X -> X]
  BY <1>1, RequestBooked
<1> HIDE DEF n, X, base
<1>4. PICK it \in [0..n -> X] : Iterated(n, base, step, it)
  <2> HIDE DEF step
  <2>1. n \in Nat
    BY <1>1
  <2> QED
    BY <1>2, <1>3, <2>1, CountedRecursionDefined
<1>5. \A k \in 1..n : it[k] = MT!ProcessTokenWithdrawal(it[k - 1], requests[k])
  <2>1. \A k \in 1..n : it[k - 1] \in X
    BY <1>1
  <2> QED
    BY <1>4, <2>1 DEF Iterated
<1>6. Rule(it)
  <2>1. \A k \in 0..n : it[k] =
          IF k = 0 THEN base ELSE MT!ProcessTokenWithdrawal(it[k - 1], requests[k])
    BY <1>1, <1>4, <1>5 DEF Iterated
  <2> QED
    BY <2>1
<1> DEFINE after == CHOOSE f : Rule(f)
<1>7. Rule(after)
  BY <1>6
<1>8. MT!Batch(tokens, requests) = after[n]
  BY DEF MT!Batch, n, base
<1>9. after[n] \in X
  <2> DEFINE A == {k \in Nat : k <= n => after[k] \in X}
  <2> HIDE DEF after
  <2>1. 0 \in A
    BY <1>1, <1>2, <1>7
  <2>2. ASSUME NEW k \in A
        PROVE  k + 1 \in A
    <3>1. SUFFICES ASSUME k + 1 <= n
                   PROVE  after[k + 1] \in X
      OBVIOUS
    <3>2. k + 1 \in 0..n /\ k + 1 \in 1..n /\ (k + 1) - 1 = k /\ k + 1 # 0 /\ after[k] \in X
      BY <1>1, <3>1
    <3>3. after[k + 1] = MT!ProcessTokenWithdrawal(after[k], requests[k + 1])
      BY <1>7, <3>2
    <3> QED
      BY <1>1, <3>2, <3>3, RequestBooked DEF X
  <2>3. A = Nat
    <3> HIDE DEF A
    <3>1. A \in SUBSET Nat
      BY DEF A
    <3> QED
      BY <2>1, <2>2, <3>1, SetInduction
  <2>4. n \in Nat /\ n <= n
    BY <1>1
  <2>5. n \in A
    BY <2>3, <2>4
  <2> QED
    BY <2>4, <2>5
<1> QED
  BY <1>8, <1>9 DEF X

(***************************************************************************)
(* The actions of the multi-token grants.                                  *)
(***************************************************************************)

LEMMA CreateTokensKeeps ==
  ASSUME TokensAssumption, MInv, NEW id \in Ids, NEW S \in SUBSET Tokens,
         NEW tokens \in [S -> Balances], NEW mask \in TokenMasks,
         MT!CreateMultiTokenGrant(id, tokens, mask)
  PROVE  MInv'
<1> DEFINE g == [tokens |-> tokens, last_update_ts |-> now, status_mask |-> mask]
<1>1. MT!MTypeOK /\ now \in Nat
  BY DEF MInv, MT!MTypeOK
<1>2. /\ mgrants[id] = None /\ mgrants' = [mgrants EXCEPT ![id] = g]
      /\ now' = now /\ wrapped' = wrapped /\ balance' = balance
      /\ given' = given /\ paid' = paid
  BY DEF MT!CreateMultiTokenGrant, MT!MStored
<1>3. /\ tokens \in [S -> MT!Balance]
      /\ mask \in SUBSET MT!StatusBits
  BY TokensAssumption DEF MT!MultiTokenAssumption
<1>4. g \in MT!TokenGrant(S)
  BY <1>1, <1>3 DEF MT!TokenGrant
<1>5. ASSUME NEW t \in S
      PROVE  /\ MT!Opening(tokens[t], FALSE) \in Openings
             /\ opening'[<<id, t>>] = MT!Opening(tokens[t], FALSE)
  <2>1. tokens[t] \in MT!Balance /\ DOMAIN tokens = S
    BY <1>3
  <2>2. MT!Opening(tokens[t], FALSE) \in Openings
    BY <2>1 DEF MT!Opening, MT!Booked, MT!Balance, Openings
  <2> QED
    BY <2>1, <2>2 DEF MT!CreateMultiTokenGrant
<1>6. /\ opening' \in [Ids \X Tokens -> Openings]
      /\ \A k \in Ids \X Tokens : k[1] # id => opening'[k] = opening[k]
  <2>1. opening' = [k \in Ids \X Tokens |->
          IF k[1] = id /\ k[2] \in DOMAIN tokens THEN MT!Opening(tokens[k[2]], FALSE)
                                                 ELSE opening[k]]
    BY DEF MT!CreateMultiTokenGrant
  <2>2. DOMAIN tokens = S
    BY <1>3
  <2>3. opening \in [Ids \X Tokens -> Openings]
    BY <1>1 DEF MT!MTypeOK, Openings
  <2> QED
    BY <1>5, <2>1, <2>2, <2>3
<1>7. ASSUME NEW t \in S
      PROVE  TokenSound(g, t, opening'[<<id, t>>], given'[<<id, t>>], paid'[<<id, t>>], now)
  <2>1. given'[<<id, t>>] = 0 /\ paid'[<<id, t>>] = 0
    BY <1>2 DEF MInv, TokensSound
  <2>2. tokens[t] \in MT!Balance /\ g.tokens[t] = tokens[t] /\ g.last_update_ts = now
    BY <1>3
  <2>3. MT!Booked(tokens[t]) \in Int /\ tokens[t].flow_rate \in Nat /\ tokens[t].withdrawn \in Int
    BY <2>2 DEF MT!Balance, MT!Booked
  <2>4. Due(g, t, now) = 0
    <3>1. now - now = 0 /\ tokens[t].flow_rate * 0 = 0
      BY <1>1, <2>3
    <3> QED
      BY <2>2, <3>1 DEF Due
  <2>5. /\ opening'[<<id, t>>].preset = MT!Booked(tokens[t])
        /\ opening'[<<id, t>>].withdrawn = tokens[t].withdrawn
    <3>1. opening'[<<id, t>>] = MT!Opening(tokens[t], FALSE)
      BY <1>5
    <3> QED
      BY <3>1 DEF MT!Opening
  <2> HIDE DEF g
  <2> QED
    BY <2>1, <2>2, <2>3, <2>4, <2>5 DEF TokenSound
<1>8. /\ wrapped' \in [Tokens -> {None, "Live", "Halted"}] /\ balance' \in [Tokens -> Nat]
      /\ given' \in [Ids \X Tokens -> Nat] /\ paid' \in [Ids \X Tokens -> Nat]
  BY <1>1, <1>2 DEF MT!MTypeOK
<1>9. g.last_update_ts <= now
  BY <1>1
<1> HIDE DEF g
<1> QED
  BY <1>2, <1>4, <1>6, <1>7, <1>8, <1>9, TokensWritten

LEMMA RatesKeepTokens ==
  ASSUME TokensAssumption, MInv, NEW id \in Ids, NEW t \in Tokens, NEW rate \in TokenRates,
         MT!UpdateMultiTokenRates(id, [u \in {t} |-> rate])
  PROVE  MInv'
<1> DEFINE rates == [u \in {t} |-> rate]
           g == MT!SettleTokens(mgrants[id])
           h == [g EXCEPT !.tokens =
                  [u \in DOMAIN g.tokens |-> IF u \in DOMAIN rates
                                             THEN [g.tokens[u] EXCEPT !.flow_rate = rates[u]]
                                             ELSE g.tokens[u]]]
<1>1. MT!MStored(id) /\ MT!CanSettleTokens(mgrants[id])
  BY DEF MT!UpdateMultiTokenRates
<1>2. PICK S \in SUBSET Tokens : mgrants[id] \in MT!TokenGrant(S)
  BY <1>1, TokenGrantStored
<1>3. now \in Nat /\ DOMAIN mgrants[id].tokens = S
  BY <1>1, <1>2, TokenGrantStored DEF MT!TokenGrant
<1>4. /\ g \in MT!TokenGrant(S) /\ g.last_update_ts = now
      /\ \A u \in S, gave, sent \in Nat, o \in Openings :
           TokenSound(mgrants[id], u, o, gave, sent, now) => TokenSound(g, u, o, gave, sent, now)
  BY <1>1, <1>2, <1>3, TokensSettled
<1>5. /\ mgrants' = [mgrants EXCEPT ![id] = h]
      /\ UNCHANGED <<now, wrapped, balance, opening, given, paid>>
  BY DEF MT!UpdateMultiTokenRates, MT!maux
<1> HIDE DEF g
<1>6. DOMAIN g.tokens = S /\ \A u \in S : g.tokens[u] \in MT!Balance
  BY <1>4 DEF MT!TokenGrant
<1>7. rate \in Nat
  BY TokensAssumption DEF MT!MultiTokenAssumption
<1>8. \A u \in S : /\ h.tokens[u] \in MT!Balance
                   /\ h.tokens[u].total_amount = g.tokens[u].total_amount
                   /\ h.tokens[u].withdrawn = g.tokens[u].withdrawn
                   /\ h.tokens[u].claimable = g.tokens[u].claimable
  BY <1>4, <1>6, <1>7 DEF MT!TokenGrant, MT!Balance
<1>9. h \in MT!TokenGrant(S) /\ h.last_update_ts = now
  <2>1. h.tokens \in [S -> MT!Balance]
    <3>1. h.tokens = [u \in S |-> h.tokens[u]]
      BY <1>4, <1>6 DEF MT!TokenGrant
    <3> HIDE DEF h
    <3> QED
      BY <1>8, <3>1
  <2>2. h = [g EXCEPT !.tokens = h.tokens]
    BY <1>4 DEF MT!TokenGrant
  <2> HIDE DEF h
  <2> QED
    BY <1>4, <2>1, <2>2 DEF MT!TokenGrant
<1>10. ASSUME NEW u \in S
       PROVE  TokenSound(h, u, opening[<<id, u>>], given[<<id, u>>], paid[<<id, u>>], now)
  <2>1. /\ opening[<<id, u>>] \in Openings /\ given[<<id, u>>] \in Nat
        /\ paid[<<id, u>>] \in Nat
    BY DEF MInv, MT!MTypeOK, Openings
  <2>2. TokenSound(g, u, opening[<<id, u>>], given[<<id, u>>], paid[<<id, u>>], now)
    <3>1. TokenSound(mgrants[id], u, opening[<<id, u>>], given[<<id, u>>], paid[<<id, u>>], now)
      BY <1>1, <1>3, TokenGrantStored
    <3> QED
      BY <1>4, <2>1, <3>1
  <2> HIDE DEF h
  <2>3. Due(h, u, now) = 0 /\ Due(g, u, now) = 0
    <3>1. now - now = 0 /\ \A n \in Nat : n * 0 = 0
      BY <1>3
    <3>2. h.tokens[u].flow_rate \in Nat /\ g.tokens[u].flow_rate \in Nat
      BY <1>6, <1>8 DEF MT!Balance
    <3> QED
      BY <1>4, <1>9, <3>1, <3>2 DEF Due
  <2>4. MT!Booked(h.tokens[u]) = MT!Booked(g.tokens[u])
    BY <1>8 DEF MT!Booked
  <2> QED
    BY <1>8, <2>2, <2>3, <2>4 DEF TokenSound
<1>11. h.last_update_ts <= now
  BY <1>3, <1>9
<1> HIDE DEF h
<1> QED
  BY <1>5, <1>9, <1>10, <1>11, TokensWrittenAlone

LEMMA AddTokenKeeps ==
  ASSUME TokensAssumption, MInv, NEW id \in Ids, NEW t \in Tokens, NEW b \in Balances,
         MT!AddTokenToGrant(id, t, b)
  PROVE  MInv'
<1> DEFINE g == mgrants[id]
           h == [g EXCEPT !.tokens =
                  [u \in DOMAIN g.tokens \cup {t} |-> IF u = t THEN b ELSE g.tokens[u]]]
           o == MT!Opening(b, now > g.last_update_ts)
<1>1. MT!MStored(id) /\ ~MT!Lists(id, t)
  BY DEF MT!AddTokenToGrant
<1>2. PICK R \in SUBSET Tokens : g \in MT!TokenGrant(R)
  BY <1>1, TokenGrantStored
<1>3. now \in Nat /\ g.last_update_ts <= now /\ DOMAIN g.tokens = R /\ t \notin R
      /\ g.last_update_ts \in Nat
  BY <1>1, <1>2, TokenGrantStored DEF MT!TokenGrant, MT!Lists
<1>4. b \in MT!Balance
  BY TokensAssumption DEF MT!MultiTokenAssumption
<1>5. /\ mgrants' = [mgrants EXCEPT ![id] = h]
      /\ opening' = [opening EXCEPT ![<<id, t>>] = o]
      /\ given' = [given EXCEPT ![<<id, t>>] = 0] /\ paid' = [paid EXCEPT ![<<id, t>>] = 0]
      /\ now' = now /\ wrapped' = wrapped /\ balance' = balance
  BY DEF MT!AddTokenToGrant
<1> DEFINE S == R \cup {t}
<1>6. S \in SUBSET Tokens
  OBVIOUS
<1>7. /\ h \in MT!TokenGrant(S) /\ h.last_update_ts = g.last_update_ts
      /\ h.status_mask = g.status_mask
      /\ h.tokens[t] = b /\ \A u \in R : h.tokens[u] = g.tokens[u]
  <2> DEFINE tokens == [u \in S |-> IF u = t THEN b ELSE g.tokens[u]]
  <2> HIDE DEF g
  <2>1. tokens \in [S -> MT!Balance]
    BY <1>2, <1>4 DEF MT!TokenGrant
  <2>2. h = [g EXCEPT !.tokens = tokens]
    BY <1>3
  <2>3. tokens[t] = b /\ \A u \in R : tokens[u] = g.tokens[u]
    BY <1>3
  <2> HIDE DEF tokens, h, S
  <2> QED
    BY <1>2, <2>1, <2>2, <2>3 DEF MT!TokenGrant
<1> HIDE DEF h
<1>8. o \in Openings /\ o.preset = MT!Booked(b) /\ o.withdrawn = b.withdrawn
      /\ o.late = (now > g.last_update_ts)
  BY <1>4 DEF MT!Opening, MT!Booked, MT!Balance, Openings
<1> HIDE DEF o
<1>9. MT!MTypeOK
  BY DEF MInv
<1>10. /\ opening' \in [Ids \X Tokens -> Openings]
       /\ given' \in [Ids \X Tokens -> Nat] /\ paid' \in [Ids \X Tokens -> Nat]
       /\ \A k \in Ids \X Tokens : k # <<id, t>> =>
            opening'[k] = opening[k] /\ given'[k] = given[k] /\ paid'[k] = paid[k]
       /\ opening'[<<id, t>>] = o /\ given'[<<id, t>>] = 0 /\ paid'[<<id, t>>] = 0
  BY <1>5, <1>8, <1>9 DEF MT!MTypeOK, Openings
<1>11. ASSUME NEW u \in S
       PROVE  TokenSound(h, u, opening'[<<id, u>>], given'[<<id, u>>], paid'[<<id, u>>], now)
  <2>1. CASE u = t
    <3>1. MT!Booked(b) \in Int /\ b.flow_rate \in Nat /\ b.withdrawn \in Int
      BY <1>4 DEF MT!Balance, MT!Booked
    <3>2. ~o.late => Due(h, t, now) = 0
      <4>1. SUFFICES ASSUME ~o.late PROVE Due(h, t, now) = 0
        OBVIOUS
      <4>2. now - h.last_update_ts = 0
        <5>1. ~(now > g.last_update_ts)
          BY <1>8, <4>1, Zenon
        <5> HIDE DEF g
        <5> QED
          BY <1>3, <1>7, <5>1
      <4>3. b.flow_rate * 0 = 0
        BY <3>1
      <4> QED
        BY <1>7, <4>2, <4>3 DEF Due
    <3>3. TokenSound(h, t, o, 0, 0, now)
      <4>1. MT!Booked(b) <= o.preset
        BY <1>8, <3>1
      <4>2. ~o.late => MT!Booked(b) + Due(h, t, now) <= o.preset + 0
        BY <1>8, <3>1, <3>2
      <4>3. b.withdrawn = o.withdrawn + 0
        BY <1>8, <3>1
      <4> QED
        BY <1>7, <4>1, <4>2, <4>3 DEF TokenSound
    <3> QED
      BY <1>10, <2>1, <3>3
  <2>2. CASE u # t
    <3>1. u \in R /\ h.tokens[u] = g.tokens[u]
      BY <1>7, <2>2
    <3>2. TokenSound(g, u, opening[<<id, u>>], given[<<id, u>>], paid[<<id, u>>], now)
      BY <1>1, <1>3, <3>1, TokenGrantStored
    <3>3. /\ opening'[<<id, u>>] = opening[<<id, u>>] /\ given'[<<id, u>>] = given[<<id, u>>]
          /\ paid'[<<id, u>>] = paid[<<id, u>>]
      BY <1>10, <2>2
    <3> HIDE DEF g
    <3>4. Due(h, u, now) = Due(g, u, now)
      BY <1>7, <3>1 DEF Due
    <3> QED
      BY <3>1, <3>2, <3>3, <3>4 DEF TokenSound
  <2> QED
    BY <2>1, <2>2
<1>12. /\ wrapped' \in [Tokens -> {None, "Live", "Halted"}] /\ balance' \in [Tokens -> Nat]
       /\ h.last_update_ts <= now
       /\ \A k \in Ids \X Tokens : k[1] # id =>
            opening'[k] = opening[k] /\ given'[k] = given[k] /\ paid'[k] = paid[k]
  <2>1. \A k \in Ids \X Tokens : k[1] # id => k # <<id, t>>
    OBVIOUS
  <2> QED
    BY <1>3, <1>5, <1>7, <1>9, <1>10, <2>1 DEF MT!MTypeOK
<1>13. mgrants' = [mgrants EXCEPT ![id] = h] /\ now' = now
  BY <1>5
<1>14. h \in MT!TokenGrant(S)
  BY <1>7
<1> HIDE DEF S, g
<1> QED
  BY <1>6, <1>10, <1>11, <1>12, <1>13, <1>14, TokensWritten

LEMMA RemoveTokenKeeps ==
  ASSUME TokensAssumption, MInv, NEW id \in Ids, NEW t \in Tokens,
         MT!RemoveTokenFromGrant(id, t)
  PROVE  MInv'
<1> DEFINE g == MT!SettleTokens(mgrants[id])
           h == [g EXCEPT !.tokens = [u \in DOMAIN g.tokens \ {t} |-> g.tokens[u]]]
<1>1. MT!MStored(id) /\ MT!CanSettleTokens(mgrants[id])
  BY DEF MT!RemoveTokenFromGrant, MT!Lists
<1>2. PICK R \in SUBSET Tokens : mgrants[id] \in MT!TokenGrant(R)
  BY <1>1, TokenGrantStored
<1>3. now \in Nat /\ DOMAIN mgrants[id].tokens = R
  BY <1>1, <1>2, TokenGrantStored DEF MT!TokenGrant
<1>4. /\ g \in MT!TokenGrant(R) /\ g.last_update_ts = now
      /\ \A u \in R, gave, sent \in Nat, o \in Openings :
           TokenSound(mgrants[id], u, o, gave, sent, now) => TokenSound(g, u, o, gave, sent, now)
  BY <1>1, <1>2, <1>3, TokensSettled
<1>5. /\ mgrants' = [mgrants EXCEPT ![id] = h]
      /\ UNCHANGED <<now, wrapped, balance, opening, given, paid>>
  BY DEF MT!RemoveTokenFromGrant, MT!maux
<1> HIDE DEF g
<1> DEFINE S == R \ {t}
<1>6. /\ h \in MT!TokenGrant(S) /\ h.last_update_ts = now /\ h.status_mask = g.status_mask
      /\ \A u \in S : h.tokens[u] = g.tokens[u]
  <2> DEFINE tokens == [u \in S |-> g.tokens[u]]
  <2>1. tokens \in [S -> MT!Balance] /\ DOMAIN g.tokens = R
    BY <1>4 DEF MT!TokenGrant
  <2>2. h = [g EXCEPT !.tokens = tokens] /\ \A u \in S : tokens[u] = g.tokens[u]
    BY <2>1
  <2> HIDE DEF tokens, h, S
  <2> QED
    BY <1>4, <2>1, <2>2 DEF MT!TokenGrant
<1> HIDE DEF h
<1>7. ASSUME NEW u \in S
      PROVE  TokenSound(h, u, opening[<<id, u>>], given[<<id, u>>], paid[<<id, u>>], now)
  <2>1. /\ opening[<<id, u>>] \in Openings /\ given[<<id, u>>] \in Nat
        /\ paid[<<id, u>>] \in Nat
    BY DEF MInv, MT!MTypeOK, Openings
  <2>2. TokenSound(mgrants[id], u, opening[<<id, u>>], given[<<id, u>>], paid[<<id, u>>], now)
    BY <1>1, <1>3, TokenGrantStored
  <2>3. TokenSound(g, u, opening[<<id, u>>], given[<<id, u>>], paid[<<id, u>>], now)
    BY <1>4, <2>1, <2>2
  <2>4. Due(h, u, now) = Due(g, u, now) /\ h.tokens[u] = g.tokens[u]
    BY <1>4, <1>6 DEF Due
  <2> QED
    BY <2>3, <2>4 DEF TokenSound
<1>8. h.last_update_ts <= now /\ S \in SUBSET Tokens
  BY <1>3, <1>6
<1> HIDE DEF S
<1> QED
  BY <1>5, <1>6, <1>7, <1>8, TokensWrittenAlone

LEMMA TokensWithdrawKeeps ==
  ASSUME TokensAssumption, MInv, NEW id \in Ids, NEW requests \in Requests,
         MT!MultiTokenWithdraw(id, requests)
  PROVE  MInv'
<1> DEFINE g     == MT!SettleTokens(mgrants[id])
           batch == MT!Batch(g.tokens, requests)
           mask  == IF MT!FullyWithdrawn(batch.tokens)
                    THEN (g.status_mask \cup {"COMPLETED"}) \ {"ACTIVE"} ELSE g.status_mask
           h     == [g EXCEPT !.tokens = batch.tokens, !.status_mask = mask]
<1>1. MT!MStored(id) /\ MT!CanSettleTokens(mgrants[id])
  BY DEF MT!MultiTokenWithdraw
<1>2. PICK S \in SUBSET Tokens : mgrants[id] \in MT!TokenGrant(S)
  BY <1>1, TokenGrantStored
<1>3. now \in Nat /\ DOMAIN mgrants[id].tokens = S
  BY <1>1, <1>2, TokenGrantStored DEF MT!TokenGrant
<1>4. /\ g \in MT!TokenGrant(S) /\ g.last_update_ts = now
      /\ \A u \in S, gave, sent \in Nat, o \in Openings :
           TokenSound(mgrants[id], u, o, gave, sent, now) => TokenSound(g, u, o, gave, sent, now)
  BY <1>1, <1>2, <1>3, TokensSettled
<1>5. batch \in Batches(S, g.tokens)
  <2>1. requests \in Seq([token : Tokens, amount : Nat])
    BY TokensAssumption DEF MT!MultiTokenAssumption
  <2>2. g.tokens \in [S -> MT!Balance]
    BY <1>4 DEF MT!TokenGrant
  <2> HIDE DEF g
  <2> QED
    BY <2>1, <2>2, BatchBooked
<1>6. /\ mgrants' = [mgrants EXCEPT ![id] = h]
      /\ now' = now /\ wrapped' = wrapped /\ opening' = opening /\ given' = given
      /\ \A u \in Tokens : batch.sent[u] <= balance[u]
      /\ balance' = [u \in Tokens |-> balance[u] - batch.sent[u]]
      /\ paid' = [k \in Ids \X Tokens |->
           IF k[1] = id THEN paid[k] + batch.sent[k[2]] ELSE paid[k]]
  BY DEF MT!MultiTokenWithdraw
<1> HIDE DEF g, batch
<1>7. /\ batch.tokens \in [S -> MT!Balance] /\ batch.sent \in [Tokens -> Nat]
      /\ \A u \in S : LET b == batch.tokens[u] IN
           /\ b.withdrawn = g.tokens[u].withdrawn + batch.sent[u]
           /\ MT!Booked(b) = MT!Booked(g.tokens[u])
           /\ b.total_amount = g.tokens[u].total_amount /\ b.flow_rate = g.tokens[u].flow_rate
  BY <1>5 DEF Batches
<1>8. /\ h \in MT!TokenGrant(S) /\ h.last_update_ts = now /\ h.tokens = batch.tokens
      /\ h.status_mask = g.status_mask \/ "ACTIVE" \notin h.status_mask
  <2>1. /\ mask \in SUBSET MT!StatusBits
        /\ mask = g.status_mask \/ "ACTIVE" \notin mask
    BY <1>4 DEF MT!TokenGrant, MT!StatusBits
  <2> HIDE DEF mask
  <2> QED
    BY <1>4, <1>7, <2>1 DEF MT!TokenGrant
<1> HIDE DEF h
<1>9. MT!MTypeOK
  BY DEF MInv
<1>10. balance' \in [Tokens -> Nat]
  <2>1. \A u \in Tokens : balance[u] \in Nat /\ batch.sent[u] \in Nat
    BY <1>7, <1>9 DEF MT!MTypeOK
  <2>2. \A u \in Tokens : balance[u] - batch.sent[u] \in Nat
    BY <1>6, <2>1
  <2> QED
    BY <1>6, <2>2
<1>11. paid' \in [Ids \X Tokens -> Nat]
  <2>1. paid \in [Ids \X Tokens -> Nat] /\ \A u \in Tokens : batch.sent[u] \in Nat
    BY <1>7, <1>9 DEF MT!MTypeOK
  <2>2. \A k \in Ids \X Tokens : k[2] \in Tokens /\ paid[k] \in Nat
    BY <2>1
  <2>3. \A k \in Ids \X Tokens : paid[k] + batch.sent[k[2]] \in Nat
    BY <2>1, <2>2
  <2> QED
    BY <1>6, <2>2, <2>3
<1>12. ASSUME NEW u \in S
       PROVE  TokenSound(h, u, opening'[<<id, u>>], given'[<<id, u>>], paid'[<<id, u>>], now)
  <2>1. /\ opening[<<id, u>>] \in Openings /\ given[<<id, u>>] \in Nat
        /\ paid[<<id, u>>] \in Nat /\ batch.sent[u] \in Nat
    BY <1>7, <1>9 DEF MT!MTypeOK, Openings
  <2>2. TokenSound(mgrants[id], u, opening[<<id, u>>], given[<<id, u>>], paid[<<id, u>>], now)
    BY <1>1, <1>3, TokenGrantStored
  <2>3. TokenSound(g, u, opening[<<id, u>>], given[<<id, u>>], paid[<<id, u>>], now)
    BY <1>4, <2>1, <2>2
  <2>4. paid'[<<id, u>>] = paid[<<id, u>>] + batch.sent[u]
    BY <1>6
  <2>5. /\ g.tokens[u] \in MT!Balance /\ batch.tokens[u] \in MT!Balance
    BY <1>4, <1>7 DEF MT!TokenGrant
  <2>6. Due(h, u, now) = 0 /\ Due(g, u, now) = 0
    <3>1. now - now = 0 /\ \A n \in Nat : n * 0 = 0
      BY <1>3
    <3>2. h.tokens[u].flow_rate \in Nat /\ g.tokens[u].flow_rate \in Nat
      BY <1>8, <2>5 DEF MT!Balance
    <3> QED
      BY <1>4, <1>8, <3>1, <3>2 DEF Due
  <2>7. h.tokens[u].withdrawn = opening[<<id, u>>].withdrawn + paid'[<<id, u>>]
    <3>1. g.tokens[u].withdrawn = opening[<<id, u>>].withdrawn + paid[<<id, u>>]
      BY <2>3 DEF TokenSound
    <3>2. h.tokens[u].withdrawn = g.tokens[u].withdrawn + batch.sent[u]
      BY <1>7, <1>8
    <3>3. opening[<<id, u>>].withdrawn \in Int
      BY <2>1 DEF Openings
    <3> QED
      BY <2>1, <2>4, <3>1, <3>2, <3>3
  <2> QED
    BY <1>6, <1>7, <1>8, <2>3, <2>6, <2>7 DEF TokenSound
<1>13. /\ wrapped' \in [Tokens -> {None, "Live", "Halted"}] /\ h.last_update_ts <= now
       /\ opening' \in [Ids \X Tokens -> Openings] /\ given' \in [Ids \X Tokens -> Nat]
       /\ \A k \in Ids \X Tokens : k[1] # id =>
            opening'[k] = opening[k] /\ given'[k] = given[k] /\ paid'[k] = paid[k]
  BY <1>3, <1>6, <1>8, <1>9 DEF MT!MTypeOK, Openings
<1>14. mgrants' = [mgrants EXCEPT ![id] = h] /\ now' = now /\ h \in MT!TokenGrant(S)
  BY <1>6, <1>8
<1> QED
  BY <1>10, <1>11, <1>12, <1>13, <1>14, TokensWritten

(* A second adds to what is due and to what is given alike.                *)
LEMMA TokensTickKeeps ==
  ASSUME TokensAssumption, MInv, MT!MTick
  PROVE  MInv'
<1>1. /\ now' = now + 1 /\ mgrants' = mgrants /\ wrapped' = wrapped /\ balance' = balance
      /\ opening' = opening /\ paid' = paid
      /\ given' = [k \in Ids \X Tokens |->
           IF MT!Lists(k[1], k[2]) /\ "ACTIVE" \in mgrants[k[1]].status_mask
           THEN given[k] + mgrants[k[1]].tokens[k[2]].flow_rate ELSE given[k]]
  BY DEF MT!MTick
<1>2. MT!MTypeOK
  BY DEF MInv
<1>3. ASSUME NEW id \in Ids, NEW t \in Tokens
      PROVE  /\ given[<<id, t>>] \in Nat
             /\ given'[<<id, t>>] =
                  IF MT!Lists(id, t) /\ "ACTIVE" \in mgrants[id].status_mask
                  THEN given[<<id, t>>] + mgrants[id].tokens[t].flow_rate ELSE given[<<id, t>>]
             /\ MT!Lists(id, t) => mgrants[id].tokens[t] \in MT!Balance
  BY <1>1, <1>2 DEF MT!MTypeOK, MT!Lists, MT!MStored, MT!TokenGrant
<1>4. given' \in [Ids \X Tokens -> Nat]
  <2>1. ASSUME NEW id \in Ids, NEW t \in Tokens
        PROVE  given'[<<id, t>>] \in Nat
    <3>1. MT!Lists(id, t) => mgrants[id].tokens[t].flow_rate \in Nat
      BY <1>3 DEF MT!Balance
    <3> QED
      BY <1>3, <3>1
  <2>2. \A k \in Ids \X Tokens : given'[k] \in Nat
    BY <2>1
  <2>3. given' = [k \in Ids \X Tokens |-> given'[k]]
    BY <1>1
  <2> QED
    BY <2>2, <2>3
<1>5. now \in Nat /\ now' \in Nat
  BY <1>1, <1>2 DEF MT!MTypeOK
<1>6. MT!MTypeOK'
  BY <1>1, <1>2, <1>4, <1>5 DEF MT!MTypeOK
<1>7. ASSUME NEW id \in Ids
      PROVE  TokensSound(id)'
  <2>1. TokensSound(id)
    BY DEF MInv
  <2>2. CASE mgrants[id] = None
    BY <1>1, <1>3, <2>1, <2>2 DEF TokensSound, MT!Lists, MT!MStored
  <2>3. CASE mgrants[id] # None
    <3> DEFINE g == mgrants[id]
    <3>1. PICK S \in SUBSET Tokens : g \in MT!TokenGrant(S)
      BY <1>2, <2>3 DEF MT!MTypeOK
    <3>2. DOMAIN g.tokens = S /\ g.last_update_ts \in Nat /\ g.last_update_ts <= now
      BY <2>1, <2>3, <3>1 DEF MT!TokenGrant, TokensSound
    <3>3. ASSUME NEW t \in S
          PROVE  TokenSound(g, t, opening[<<id, t>>], given'[<<id, t>>], paid[<<id, t>>], now')
      <4>1. TokenSound(g, t, opening[<<id, t>>], given[<<id, t>>], paid[<<id, t>>], now)
        BY <2>1, <2>3, <3>2 DEF TokensSound
      <4>2. MT!Lists(id, t) /\ g.tokens[t] \in MT!Balance
        BY <1>3, <2>3, <3>2 DEF MT!Lists, MT!MStored
      <4>3. g.tokens[t].flow_rate \in Nat /\ MT!Booked(g.tokens[t]) \in Int
            /\ opening[<<id, t>>].preset \in Int
        BY <1>2, <4>2 DEF MT!Balance, MT!Booked, MT!MTypeOK
      <4>4. Due(g, t, now') + given[<<id, t>>] = Due(g, t, now) + given'[<<id, t>>]
            /\ Due(g, t, now) \in Int /\ Due(g, t, now') \in Int
            /\ given[<<id, t>>] \in Nat /\ given'[<<id, t>>] \in Nat
        <5>1. CASE "ACTIVE" \in g.status_mask
          <6> DEFINE span == now - g.last_update_ts
                     rate == g.tokens[t].flow_rate
          <6>1. span \in Nat /\ now' - g.last_update_ts = span + 1
            BY <1>1, <1>5, <3>2
          <6>2. Due(g, t, now) = rate * span /\ Due(g, t, now') = rate * (span + 1)
            BY <5>1, <6>1 DEF Due
          <6>3. rate * (span + 1) = rate * span + rate /\ rate * span \in Int
            <7> HIDE DEF span, rate
            <7>1. rate \in Nat
              BY <4>3 DEF rate
            <7> QED
              BY <6>1, <7>1
          <6>4. given'[<<id, t>>] = given[<<id, t>>] + rate /\ given[<<id, t>>] \in Nat
            BY <1>3, <4>2, <5>1
          <6> DEFINE due == rate * span
          <6> HIDE DEF due
          <6>5. Due(g, t, now) = due /\ Due(g, t, now') = due + rate /\ due \in Int
            BY <6>2, <6>3 DEF due
          <6> HIDE DEF rate
          <6>6. rate \in Nat
            BY <4>3 DEF rate
          <6> QED
            BY <6>4, <6>5, <6>6
        <5>2. CASE "ACTIVE" \notin g.status_mask
          BY <1>3, <5>2 DEF Due
        <5> QED
          BY <5>1, <5>2
      <4>5. ~opening[<<id, t>>].late =>
              MT!Booked(g.tokens[t]) + Due(g, t, now') <=
                opening[<<id, t>>].preset + given'[<<id, t>>]
        <5>1. SUFFICES ASSUME ~opening[<<id, t>>].late
                       PROVE  MT!Booked(g.tokens[t]) + Due(g, t, now') <=
                                opening[<<id, t>>].preset + given'[<<id, t>>]
          OBVIOUS
        <5>2. MT!Booked(g.tokens[t]) + Due(g, t, now) <=
                opening[<<id, t>>].preset + given[<<id, t>>]
          BY <4>1, <5>1 DEF TokenSound
        <5> QED
          BY <4>3, <4>4, <5>2
      <4> QED
        BY <4>1, <4>5 DEF TokenSound
    <3>4. g.last_update_ts <= now'
      BY <1>1, <1>5, <3>2
    <3>5. mgrants'[id] = g /\ opening' = opening /\ paid' = paid
      BY <1>1
    <3>6. \A t \in S : TokenSound(g, t, opening'[<<id, t>>], given'[<<id, t>>],
                                  paid'[<<id, t>>], now')
      BY <3>3, <3>5
    <3>7. \A t \in DOMAIN mgrants'[id].tokens :
            TokenSound(mgrants'[id], t, opening'[<<id, t>>], given'[<<id, t>>],
                       paid'[<<id, t>>], now')
      BY <3>2, <3>5, <3>6
    <3> QED
      BY <2>3, <3>4, <3>5, <3>7 DEF TokensSound, TokenSound, Due, MT!Booked
  <2> QED
    BY <2>2, <2>3
<1> QED
  BY <1>6, <1>7 DEF MInv

LEMMA TokensInductive ==
  ASSUME TokensAssumption
  PROVE  /\ MT!MInit => MInv
         /\ MInv /\ [MT!MNext]_(MT!mvars) => MInv'
<1>1. MT!MInit => MInv
  <2> SUFFICES ASSUME MT!MInit PROVE MInv
    OBVIOUS
  <2>1. Funds \in Nat
    BY TokensAssumption DEF MT!MultiTokenAssumption
  <2>2. MT!Nothing \in Openings
    BY DEF MT!Nothing, Openings
  <2>3. MT!MTypeOK
    <3>1. /\ now \in Nat /\ wrapped \in [Tokens -> {None, "Live", "Halted"}]
          /\ balance \in [Tokens -> Nat] /\ opening \in [Ids \X Tokens -> Openings]
          /\ given \in [Ids \X Tokens -> Nat] /\ paid \in [Ids \X Tokens -> Nat]
      BY <2>1, <2>2 DEF MT!MInit
    <3>2. DOMAIN mgrants = Ids /\ \A id \in Ids : mgrants[id] = None
      BY DEF MT!MInit
    <3> QED
      BY <3>1, <3>2 DEF MT!MTypeOK, Openings
  <2> QED
    BY <2>3 DEF MInv, TokensSound, MT!MInit
<1>2. ASSUME MInv, [MT!MNext]_(MT!mvars)
      PROVE  MInv'
  <2>1. CASE UNCHANGED MT!mvars
    BY <1>2, <2>1 DEF MT!mvars, MT!maux, MInv, MT!MTypeOK, TokensSound, TokenSound, Due,
                      MT!Booked, MT!TokenGrant, MT!Balance
  <2>2. CASE MT!MTick
    BY <1>2, <2>2, TokensTickKeeps
  <2>3. CASE MT!AssetNext
    <3>1. /\ now' = now /\ mgrants' = mgrants /\ balance' = balance
          /\ opening' = opening /\ given' = given /\ paid' = paid
      BY <2>3 DEF MT!AssetNext, MT!ConfigureWrappedAsset, MT!SetAssetHalt, MT!maux
    <3>2. wrapped' \in [Tokens -> {None, "Live", "Halted"}]
      BY <1>2, <2>3 DEF MT!AssetNext, MT!ConfigureWrappedAsset, MT!SetAssetHalt, MInv,
                        MT!MTypeOK
    <3> QED
      BY <1>2, <3>1, <3>2 DEF MInv, MT!MTypeOK, TokensSound, TokenSound, Due, MT!Booked,
                              MT!TokenGrant, MT!Balance
  <2>4. ASSUME NEW id \in Ids, MT!MultiTokenNext(id)
        PROVE  MInv'
    <3>1. CASE \E S \in SUBSET Tokens \ {{}} : \E tokens \in [S -> Balances], mask \in TokenMasks :
                 MT!CreateMultiTokenGrant(id, tokens, mask)
      BY <1>2, <3>1, CreateTokensKeeps
    <3>2. CASE \E requests \in Requests : MT!MultiTokenWithdraw(id, requests)
      BY <1>2, <3>2, TokensWithdrawKeeps
    <3>3. CASE \E t \in Tokens, rate \in TokenRates :
                 MT!UpdateMultiTokenRates(id, [u \in {t} |-> rate])
      BY <1>2, <3>3, RatesKeepTokens
    <3>4. CASE \E t \in Tokens, b \in Balances : MT!AddTokenToGrant(id, t, b)
      BY <1>2, <3>4, AddTokenKeeps
    <3>5. CASE \E t \in Tokens : MT!RemoveTokenFromGrant(id, t)
      BY <1>2, <3>5, RemoveTokenKeeps
    <3> QED
      BY <2>4, <3>1, <3>2, <3>3, <3>4, <3>5 DEF MT!MultiTokenNext
  <2> QED
    BY <1>2, <2>1, <2>2, <2>3, <2>4 DEF MT!MNext
<1> QED
  BY <1>1, <1>2

LEMMA TokensInvariantHolds == MT!MSpec => []MInv
<1>1. MT!MInit => MInv
  BY TokensInductive, TokensAssumption
<1>2. MInv /\ [MT!MNext]_(MT!mvars) => MInv'
  BY TokensInductive, TokensAssumption
<1> QED
  BY <1>1, <1>2, PTL DEF MT!MSpec

(* Beside the bit-mask grants, the multi-token grants behave as they do    *)
(* alone.                                                                  *)
THEOREM TokensShareNothing == PSpec => MT!MSpec
<1>1. PInit => MT!MInit
  BY DEF PInit
<1>2. [PNext]_<<vars, tokenVars>> => [MT!MNext]_(MT!mvars)
  <2> SUFFICES ASSUME [PNext]_<<vars, tokenVars>> PROVE [MT!MNext]_(MT!mvars)
    OBVIOUS
  <2>1. CASE OptimizedStep
    <3>1. PICK id \in Ids : AdminNext(id) \/ GranteeNext(id)
      BY <2>1 DEF OptimizedStep
    <3>2. now' = now
      <4>1. CASE AdminNext(id)
        BY <4>1 DEF AdminNext, CreateGrant, CancelGrant, PauseGrant, ResumeGrant, SetGrantFlags,
                    UpdateRate, SetMilestoneDeadline, ConfigureMilestoneOracles,
                    ClawbackMilestone
      <4>2. CASE GranteeNext(id)
        BY <4>2 DEF GranteeNext, Withdraw, SubmitMilestoneEvidence, ApproveMilestone,
                    ProcessMilestoneExpiry, RageQuit, SelfTerminate
      <4> QED
        BY <3>1, <4>1, <4>2
    <3> QED
      BY <2>1, <3>2 DEF OptimizedStep, tokenVars, MT!mvars, MT!maux
  <2>2. CASE MultiTokenStep
    BY <2>2 DEF MultiTokenStep, MT!MNext
  <2>3. CASE AssetStep
    BY <2>3 DEF AssetStep, MT!MNext
  <2>4. CASE Tick /\ MT!MTick
    BY <2>4 DEF MT!MNext
  <2>5. CASE UNCHANGED <<vars, tokenVars>>
    BY <2>5 DEF vars, tokenVars, MT!mvars, MT!maux
  <2> QED
    BY <2>1, <2>2, <2>3, <2>4, <2>5 DEF PNext
<1> QED
  BY <1>1, <1>2, PTL DEF PSpec, MT!MSpec

(* No order of withdrawals, rate changes, additions and removals credits a *)
(* recipient more of a token than its total or what it was opened with,    *)
(* nor more than was opened plus what its rate gave.                       *)
THEOREM TokenBooksBounded == PSpec => []TokensWithinTotal
<1>1. MInv => TokensWithinTotal
  <2> SUFFICES ASSUME MInv, NEW id \in Ids, NEW t \in Tokens, MT!Lists(id, t)
               PROVE  LET b == mgrants[id].tokens[t] IN
                      /\ MT!Booked(b) <= b.total_amount \/ MT!Booked(b) <= opening[<<id, t>>].preset
                      /\ ~opening[<<id, t>>].late =>
                           MT!Booked(b) <= opening[<<id, t>>].preset + given[<<id, t>>]
    BY DEF TokensWithinTotal, MT!TokensWithinTotal
  <2> DEFINE g == mgrants[id]
             b == g.tokens[t]
             o == opening[<<id, t>>]
  <2>1. TokenSound(g, t, o, given[<<id, t>>], paid[<<id, t>>], now)
    BY TokenGrantStored DEF MT!Lists
  <2>2. b \in MT!Balance /\ now \in Nat /\ g.last_update_ts <= now /\ g.last_update_ts \in Nat
    BY TokenGrantStored DEF MT!Lists, MT!TokenGrant
  <2>3. o.preset \in Int /\ given[<<id, t>>] \in Nat
    BY DEF MInv, MT!MTypeOK
  <2> HIDE DEF g
  <2>4. Due(g, t, now) \in Nat
    <3>1. now - g.last_update_ts \in Nat /\ b.flow_rate \in Nat
      BY <2>2 DEF MT!Balance
    <3>2. \A m, n \in Nat : m * n \in Nat
      OBVIOUS
    <3>3. b.flow_rate * (now - g.last_update_ts) \in Nat
      BY <3>1, <3>2
    <3> QED
      BY <3>3 DEF Due
  <2>5. MT!Booked(b) \in Int
    BY <2>2 DEF MT!Balance, MT!Booked
  <2>6. ~o.late => MT!Booked(b) <= o.preset + given[<<id, t>>]
    <3>1. SUFFICES ASSUME ~o.late
                   PROVE  MT!Booked(b) <= o.preset + given[<<id, t>>]
      OBVIOUS
    <3>2. MT!Booked(b) + Due(g, t, now) <= o.preset + given[<<id, t>>]
      BY <2>1, <3>1 DEF TokenSound
    <3> QED
      BY <2>3, <2>4, <2>5, <3>2
  <2>7. MT!Booked(b) <= b.total_amount \/ MT!Booked(b) <= o.preset
    BY <2>1 DEF TokenSound
  <2> QED
    BY <2>6, <2>7 DEF g
<1> QED
  BY <1>1, TokensInvariantHolds, TokensShareNothing, PTL

(* What the books call withdrawn was transferred, request by request.      *)
THEOREM TokenBooksMatch == PSpec => []BooksMatchTransfers
<1>1. MInv => BooksMatchTransfers
  <2> SUFFICES ASSUME MInv, NEW id \in Ids, NEW t \in Tokens, MT!Lists(id, t)
               PROVE  mgrants[id].tokens[t].withdrawn =
                        opening[<<id, t>>].withdrawn + paid[<<id, t>>]
    BY DEF BooksMatchTransfers, MT!BooksMatchTransfers
  <2> QED
    BY TokenGrantStored DEF MT!Lists, TokenSound
<1> QED
  BY <1>1, TokensInvariantHolds, TokensShareNothing, PTL


=============================================================================
