--------------------------- MODULE MissionsProofs ---------------------------
(***************************************************************************)
(* Proofs about Missions, for every value of its constants.  Payments on   *)
(* chain (ChainPayments): what a run builds is worked out first: lots,     *)
(* fan-outs, minutes and anchors, and what each spends.  Every set of      *)
(* transactions that holds what its members spend from and no output spent *)
(* twice then pays each record of a complete run once; that pool and mined *)
(* are such sets, and that what a run still has to send is all that the    *)
(* network lacks, is the invariant.  A mission's schedule (LongHaul), the  *)
(* fragments of a gateway (Reassembly), the receipt files of a spacecraft  *)
(* (CfsCustody), the packets that were lost (PacketBlame) and the bundles  *)
(* that are stamped while they arrive (BundleStream) follow, each          *)
(* with an invariant of its own.                                           *)
(***************************************************************************)
EXTENDS Missions, FiniteSetTheorems, SequenceTheorems, WellFoundedInduction, TLAPS

-----------------------------------------------------------------------------
(* Numbers.                                                                *)

\* An operator's choice, or the whole flight.
IsChoice(o) == o.batch \in Nat \ {0} /\ o.limit \in 1 .. Len(FlightReceipts)

\* What an operator may ask for is within the flight.
LEMMA ChoicesAre ==
  /\ \A o \in PayOptions : IsChoice(o)
  /\ IsChoice(WholeFlight)
  /\ Len(FlightReceipts) \in Nat /\ DOMAIN FlightReceipts = 1 .. Len(FlightReceipts)
<1>1. Len(FlightReceipts) \in Nat /\ DOMAIN FlightReceipts = 1 .. Len(FlightReceipts) /\ Len(FlightReceipts) # 0
  BY ChainAssumption, EmptySeq
<1> QED
  BY <1>1, ChainAssumption DEF IsChoice, WholeFlight

\* The smaller of two numbers.
LEMMA MinOfTwo ==
  ASSUME NEW a \in Int, NEW b \in Int
  PROVE  Min({a, b}) = IF a <= b THEN a ELSE b
<1> DEFINE m == IF a <= b THEN a ELSE b
<1>1. m \in {a, b} /\ \A y \in {a, b} : m <= y
  OBVIOUS
<1>2. \A x, y \in {a, b} : x <= y /\ y <= x => x = y
  OBVIOUS
<1> HIDE DEF m
<1>3. \A x \in {a, b} : (\A y \in {a, b} : x <= y) => x = m
  BY <1>1, <1>2
<1>4. Min({a, b}) = m
  BY <1>1, <1>3 DEF Min
<1> QED
  BY <1>4 DEF m

\* Rounding up.
LEMMA RoundedUp ==
  ASSUME NEW n \in Nat \ {0}, NEW w \in Nat \ {0}
  PROVE  LET c == (n + w - 1) \div w
         IN  c \in Nat \ {0} /\ (c - 1) * w < n /\ n <= c * w
<1> DEFINE a == n + w - 1
           c == a \div w
           r == a % w
<1>1. a \in Nat /\ c \in Int /\ r \in 0 .. w - 1 /\ a = w * c + r
  OBVIOUS
<1> HIDE DEF c, r
<1>2. w * c >= n
  BY <1>1
<1>3. c > 0
  <2>1. SUFFICES ASSUME c <= 0 PROVE FALSE
    BY <1>1
  <2>2. w * c <= 0
    BY <2>1, <1>1
  <2> QED
    BY <2>2, <1>1, <1>2
<1>4. (c - 1) * w = w * c - w /\ c * w = w * c
  BY <1>1
<1>5. w * c - w < n
  BY <1>1
<1> QED
  BY <1>1, <1>2, <1>3, <1>4, <1>5 DEF c

\* A number counted in rows.
RowNo(g, w) == (g - 1) \div w + 1
InRow(g, w) == (g - 1) % w

\* Places g = 1, 2, ... in rows of w: each has a row and a place in it ...
LEMMA RowOf ==
  ASSUME NEW g \in Nat \ {0}, NEW w \in Nat \ {0}
  PROVE  /\ RowNo(g, w) \in Nat \ {0} /\ InRow(g, w) \in 0 .. w - 1
         /\ g = (RowNo(g, w) - 1) * w + InRow(g, w) + 1
<1> DEFINE k == (g - 1) \div w + 1
           n == (g - 1) % w
           q == (g - 1) \div w
<1>1. q \in Int /\ n \in 0 .. w - 1 /\ g - 1 = w * q + n
  OBVIOUS
<1>2. q >= 0
  OBVIOUS
<1>3. k = q + 1
  OBVIOUS
<1> HIDE DEF k, n, q
<1>4. (k - 1) * w = w * q
  BY <1>1, <1>3
<1> QED
  BY <1>1, <1>2, <1>3, <1>4 DEF k, n, RowNo, InRow

\* ... and no two places have the same.
LEMMA RowsApart ==
  ASSUME NEW w \in Nat \ {0}, NEW a \in Nat, NEW b \in Nat, NEW m \in 0 .. w - 1, NEW n \in 0 .. w - 1,
         a * w + m = b * w + n
  PROVE  a = b /\ m = n
<1>1. ~(a < b)
  <2> SUFFICES ASSUME a < b PROVE FALSE
    OBVIOUS
  <2>1. (b - a - 1) * w >= 0
    OBVIOUS
  <2> QED
    BY <2>1
<1>2. ~(b < a)
  <2> SUFFICES ASSUME b < a PROVE FALSE
    OBVIOUS
  <2>1. (a - b - 1) * w >= 0
    OBVIOUS
  <2> QED
    BY <2>1
<1> QED
  BY <1>1, <1>2

-----------------------------------------------------------------------------
(* The lots and the fan-outs.                                              *)

\* Every lot but the last is a full batch.
LEMMA LotsAre ==
  ASSUME NEW o, IsChoice(o)
  PROVE  /\ LotCount(o) \in Nat \ {0}
         /\ (LotCount(o) - 1) * o.batch < o.limit /\ o.limit <= LotCount(o) * o.batch
         /\ \A g \in 1 .. LotCount(o) :
              /\ Lot(o, g) = (g - 1) * o.batch + 1 .. (IF g < LotCount(o) THEN g * o.batch ELSE o.limit)
              /\ Cardinality(Lot(o, g)) =
                   IF g < LotCount(o) THEN o.batch ELSE o.limit - (LotCount(o) - 1) * o.batch
<1> DEFINE L == LotCount(o)
           b == o.batch
           lim == o.limit
<1>0. b \in Nat \ {0} /\ lim \in Nat \ {0}
  BY ChoicesAre DEF IsChoice
<1>1. L \in Nat \ {0} /\ (L - 1) * b < lim /\ lim <= L * b
  BY <1>0, RoundedUp DEF LotCount
<1> HIDE DEF L, b, lim
<1>2. ASSUME NEW g \in 1 .. L
      PROVE  /\ (IF g * b <= lim THEN g * b ELSE lim) = IF g < L THEN g * b ELSE lim
             /\ (g - 1) * b + 1 <= (IF g < L THEN g * b ELSE lim)
             /\ g * b = (g - 1) * b + b
  <2>1. g * b = (g - 1) * b + b /\ g * b \in Nat /\ (g - 1) * b \in Nat
    BY <1>0
  <2>2. CASE g < L
    <3>1. (L - 1) * b = g * b + (L - 1 - g) * b
      BY <1>0, <1>1
    <3>2. (L - 1 - g) * b >= 0
      BY <1>0, <1>1, <2>2
    <3>3. (L - 1) * b \in Nat /\ (L - 1 - g) * b \in Nat
      BY <1>0, <1>1, <2>2
    <3> QED
      BY <1>0, <1>1, <2>1, <2>2, <3>1, <3>2, <3>3
  <2>3. CASE g = L
    BY <1>0, <1>1, <2>1, <2>3
  <2> QED
    BY <1>1, <2>2, <2>3
<1>3. ASSUME NEW g \in 1 .. L
      PROVE  Lot(o, g) = (g - 1) * b + 1 .. (IF g < L THEN g * b ELSE lim)
  <2>1. g * b \in Int
    BY <1>0, <1>1
  <2>2. Min({g * b, lim}) = IF g * b <= lim THEN g * b ELSE lim
    BY <1>0, <2>1, MinOfTwo
  <2> QED
    BY <1>2, <2>2 DEF Lot, b, lim
<1>4. ASSUME NEW g \in 1 .. L
      PROVE  Cardinality(Lot(o, g)) = IF g < L THEN b ELSE lim - (L - 1) * b
  <2> DEFINE lo == (g - 1) * b + 1
             hi == IF g < L THEN g * b ELSE lim
  <2>1. lo \in Int /\ hi \in Int /\ lo <= hi
    BY <1>0, <1>1, <1>2
  <2>2. Lot(o, g) = lo .. hi
    BY <1>3
  <2>3. hi - lo + 1 = IF g < L THEN b ELSE lim - (L - 1) * b
    <3>1. CASE g < L
      BY <1>0, <1>1, <1>2, <3>1
    <3>2. CASE ~(g < L)
      <4>1. g = L
        BY <1>1, <3>2
      <4> QED
        BY <1>0, <1>1, <1>2, <3>2, <4>1
    <3> QED
      BY <3>1, <3>2
  <2> HIDE DEF lo, hi
  <2>4. Cardinality(lo .. hi) = hi - lo + 1
    BY <2>1, FS_Interval
  <2> QED
    BY <2>2, <2>3, <2>4
<1> QED
  BY <1>1, <1>3, <1>4 DEF L, b, lim

\* Every record is in one lot.
LEMMA LotsPartition ==
  ASSUME NEW o, IsChoice(o), NEW r \in 1 .. o.limit
  PROVE  \E g \in 1 .. LotCount(o) : r \in Lot(o, g) /\ \A h \in 1 .. LotCount(o) : r \in Lot(o, h) => h = g
<1> DEFINE L == LotCount(o)
           b == o.batch
           lim == o.limit
<1>0. b \in Nat \ {0} /\ lim \in Nat \ {0} /\ L \in Nat \ {0} /\ (L - 1) * b < lim /\ lim <= L * b
  BY ChoicesAre, LotsAre, SMTT(60) DEF IsChoice
<1>0a. \A g \in 1 .. L : Lot(o, g) = (g - 1) * b + 1 .. (IF g < L THEN g * b ELSE lim)
  BY LotsAre
<1>0b. r \in 1 .. lim
  OBVIOUS
<1> HIDE DEF L, b, lim
<1>1. PICK k \in Nat \ {0}, n \in 0 .. b - 1 : r = (k - 1) * b + n + 1
  <2>1. r \in Nat \ {0}
    BY <1>0, <1>0b
  <2>2. b \in Nat \ {0}
    BY <1>0
  <2>3. RowNo(r, b) \in Nat \ {0} /\ InRow(r, b) \in 0 .. b - 1 /\ r = (RowNo(r, b) - 1) * b + InRow(r, b) + 1
    BY <2>1, <2>2, RowOf
  <2> QED
    BY <2>3
<1>2. k <= L
  <2> SUFFICES ASSUME k > L PROVE FALSE
    BY <1>0
  <2>1. (k - 1) * b = L * b + (k - 1 - L) * b /\ (k - 1 - L) * b >= 0 /\ L * b \in Nat
    BY <1>0
  <2> QED
    BY <1>0, <1>0b, <1>1, <2>1
<1>3. k * b = (k - 1) * b + b /\ (k - 1) * b \in Nat
  BY <1>0
<1>4. r \in Lot(o, k)
  BY <1>0, <1>0a, <1>0b, <1>1, <1>2, <1>3
<1>5. ASSUME NEW h \in 1 .. L, r \in Lot(o, h) PROVE h = k
  <2>1. h * b = (h - 1) * b + b /\ (h - 1) * b \in Nat /\ h - 1 \in Nat
    BY <1>0
  <2>2. r > (h - 1) * b /\ r <= h * b
    BY <1>0, <1>0a, <1>0b, <1>5, <2>1
  <2> DEFINE m == r - 1 - (h - 1) * b
  <2>3. m \in 0 .. b - 1
    BY <1>0, <1>0b, <2>1, <2>2
  <2>4. (h - 1) * b + m = (k - 1) * b + n
    BY <1>0b, <1>1, <1>3, <2>1
  <2> HIDE DEF m
  <2>5. h - 1 = k - 1
    BY <1>0, <2>1, <2>3, <2>4, RowsApart, k - 1 \in Nat
  <2> QED
    BY <2>5
<1> QED
  BY <1>2, <1>4, <1>5 DEF L

LotsOnFan(o, k) == Min({FanWidth(o), LotCount(o) - (k - 1) * FanWidth(o)})
Amounts(o, k) == [n \in 1 .. LotsOnFan(o, k) |-> Cardinality(Lot(o, (k - 1) * FanWidth(o) + n))]

\* Every fan-out but the last is full; batches have only one.
LEMMA FansAre ==
  ASSUME NEW o, IsChoice(o)
  PROVE  /\ FanWidth(o) \in Nat \ {0} /\ FanCount(o) \in Nat \ {0}
         /\ (FanCount(o) - 1) * FanWidth(o) < LotCount(o) /\ LotCount(o) <= FanCount(o) * FanWidth(o)
         /\ o.batch > 1 => FanCount(o) = 1
         /\ o.batch = 1 => FanWidth(o) = PerFan
         /\ \A k \in 1 .. FanCount(o) :
              /\ LotsOnFan(o, k) = IF k < FanCount(o) THEN FanWidth(o)
                               ELSE LotCount(o) - (FanCount(o) - 1) * FanWidth(o)
              /\ LotsOnFan(o, k) \in 1 .. FanWidth(o)
<1> DEFINE L == LotCount(o)
           W == FanWidth(o)
           C == FanCount(o)
<1>0. L \in Nat \ {0} /\ o.batch \in Nat \ {0}
  BY LotsAre DEF IsChoice
<1>1. W \in Nat \ {0} /\ (o.batch > 1 => W = L) /\ (o.batch = 1 => W = PerFan)
  BY <1>0, ChainAssumption DEF FanWidth
<1>2. C \in Nat \ {0} /\ (C - 1) * W < L /\ L <= C * W
  BY <1>0, <1>1, RoundedUp DEF FanCount
<1> HIDE DEF L, W, C
<1>3. o.batch > 1 => C = 1
  <2> SUFFICES ASSUME W = L, C > 1 PROVE FALSE
    BY <1>1, <1>2
  <2>1. (C - 1) * W = W + (C - 2) * W /\ (C - 2) * W >= 0
    BY <1>1, <1>2
  <2> QED
    BY <1>0, <1>1, <1>2, <2>1
<1>4. ASSUME NEW k \in 1 .. C
      PROVE  /\ LotsOnFan(o, k) = IF k < C THEN W ELSE L - (C - 1) * W
             /\ LotsOnFan(o, k) \in 1 .. W
  <2>1. (k - 1) * W \in Nat /\ k * W = (k - 1) * W + W
    BY <1>1
  <2>2. LotsOnFan(o, k) = IF W <= L - (k - 1) * W THEN W ELSE L - (k - 1) * W
    BY <1>0, <1>1, <2>1, MinOfTwo DEF LotsOnFan, W, L
  <2>3. CASE k < C
    <3>1. (C - 1) * W = k * W + (C - 1 - k) * W /\ (C - 1 - k) * W >= 0
      BY <1>1, <1>2, <2>3
    <3> QED
      BY <1>0, <1>1, <1>2, <2>1, <2>2, <2>3, <3>1
  <2>4. CASE k = C
    BY <1>0, <1>1, <1>2, <2>1, <2>2, <2>4
  <2> QED
    BY <1>2, <2>3, <2>4
<1> QED
  BY <1>0, <1>1, <1>2, <1>3, <1>4 DEF L, W, C

\* A fan-out of a run is its lots in their order.
LEMMA FanIs ==
  ASSUME NEW o, IsChoice(o), NEW f, NEW k \in 1 .. FanCount(o)
  PROVE  FanTxs(o, f)[k] = Fan(f, k, Amounts(o, k)) /\ Len(Amounts(o, k)) = LotsOnFan(o, k)
<1>1. LotsOnFan(o, k) \in Nat
  BY FansAre
<1>2. Len(Amounts(o, k)) = LotsOnFan(o, k)
  BY <1>1 DEF Amounts
<1> QED
  BY <1>2 DEF FanTxs, Amounts, LotsOnFan

\* A fan-out that another one follows is full.
LEMMA FollowedIsFull ==
  ASSUME NEW o, IsChoice(o), NEW f, NEW k \in 1 .. FanCount(o), k < FanCount(o)
  PROVE  FanTxs(o, f)[k] = FullFan(f, k)
<1>1. o.batch = 1 /\ FanWidth(o) = PerFan /\ LotsOnFan(o, k) = PerFan
  BY FansAre, SMTT(60) DEF IsChoice
<1>2. ASSUME NEW n \in 1 .. PerFan PROVE Cardinality(Lot(o, (k - 1) * PerFan + n)) = 1
  <2> DEFINE g == (k - 1) * PerFan + n
             L == LotCount(o)
             C == FanCount(o)
  <2>1. C \in Nat \ {0} /\ L \in Nat \ {0} /\ (C - 1) * PerFan < L /\ PerFan \in Nat \ {0}
    BY <1>1, FansAre, LotsAre, ChainAssumption
  <2>2. (L - 1) * 1 < o.limit /\ o.limit <= L * 1 /\ o.limit \in Nat
    BY <1>1, LotsAre, ChoicesAre, SMTT(60) DEF IsChoice
  <2> HIDE DEF L, C
  <2>3. (C - 1) * PerFan = k * PerFan + (C - 1 - k) * PerFan /\ (C - 1 - k) * PerFan >= 0
    BY <2>1 DEF C
  <2>4. k * PerFan = (k - 1) * PerFan + PerFan /\ (k - 1) * PerFan \in Nat
    BY <2>1
  <2>5. g \in 1 .. L
    BY <2>1, <2>3, <2>4
  <2> HIDE DEF g
  <2>6. Cardinality(Lot(o, g)) = IF g < L THEN 1 ELSE o.limit - (L - 1) * 1
    BY <1>1, <2>5, LotsAre DEF L
  <2> QED
    BY <2>1, <2>2, <2>6 DEF g
<1> QED
  BY <1>1, <1>2, FanIs DEF FullFan, Amounts

\* The place of a payment, and the payment of a place.
LEMMA PlacesAre ==
  ASSUME NEW o, IsChoice(o), NEW f
  PROVE  /\ \A g \in 1 .. LotCount(o) : \E k \in 1 .. FanCount(o), n \in 0 .. FanWidth(o) - 1 :
              /\ n < LotsOnFan(o, k) /\ g = (k - 1) * FanWidth(o) + n + 1
              /\ Payments(o, f)[g] = Payment(FanTxs(o, f)[k], n, Lot(o, g), o.batch > 1)
         /\ \A k \in 1 .. FanCount(o) : \A n \in 0 .. LotsOnFan(o, k) - 1 : \E g \in 1 .. LotCount(o) :
              Payments(o, f)[g] = Payment(FanTxs(o, f)[k], n, Lot(o, g), o.batch > 1)
<1> DEFINE L == LotCount(o)
           W == FanWidth(o)
           C == FanCount(o)
<1>0. /\ L \in Nat \ {0} /\ W \in Nat \ {0} /\ C \in Nat \ {0}
      /\ (C - 1) * W < L /\ L <= C * W
      /\ \A k \in 1 .. C : LotsOnFan(o, k) = IF k < C THEN W ELSE L - (C - 1) * W
  BY FansAre, LotsAre
<1>1. \A g \in 1 .. L : Payments(o, f)[g] =
        Payment(FanTxs(o, f)[RowNo(g, W)], InRow(g, W), Lot(o, g), o.batch > 1)
  BY DEF Payments, RowNo, InRow
<1> HIDE DEF L, W, C
<1>2. ASSUME NEW g \in 1 .. L
      PROVE  \E k \in 1 .. C, n \in 0 .. W - 1 :
               /\ n < LotsOnFan(o, k) /\ g = (k - 1) * W + n + 1
               /\ Payments(o, f)[g] = Payment(FanTxs(o, f)[k], n, Lot(o, g), o.batch > 1)
  <2> DEFINE k == RowNo(g, W)
             n == InRow(g, W)
  <2>0. g \in Nat \ {0} /\ W \in Nat \ {0}
    BY <1>0
  <2>1. k \in Nat \ {0} /\ n \in 0 .. W - 1 /\ g = (k - 1) * W + n + 1
    BY <2>0, RowOf
  <2>2. Payments(o, f)[g] = Payment(FanTxs(o, f)[k], n, Lot(o, g), o.batch > 1)
    BY <1>1
  <2> HIDE DEF k, n
  <2>3. k <= C
    <3> SUFFICES ASSUME k > C PROVE FALSE
      BY <1>0, <2>1
    <3>1. (k - 1) * W = C * W + (k - 1 - C) * W /\ (k - 1 - C) * W >= 0 /\ C * W \in Nat
      BY <1>0, <2>1
    <3> QED
      BY <1>0, <2>1, <3>1
  <2>4. n < LotsOnFan(o, k)
    <3>1. CASE k < C
      BY <1>0, <2>1, <3>1
    <3>2. CASE k = C
      <4>1. (C - 1) * W \in Nat
        BY <1>0
      <4> QED
        BY <1>0, <2>1, <3>2, <4>1
    <3> QED
      BY <1>0, <2>1, <2>3, <3>1, <3>2
  <2> QED
    BY <1>0, <2>1, <2>2, <2>3, <2>4
<1>3. ASSUME NEW k \in 1 .. C, NEW n \in 0 .. LotsOnFan(o, k) - 1
      PROVE  \E g \in 1 .. L : Payments(o, f)[g] = Payment(FanTxs(o, f)[k], n, Lot(o, g), o.batch > 1)
  <2> DEFINE g == (k - 1) * W + n + 1
  <2>0. LotsOnFan(o, k) \in 1 .. W
    BY FansAre DEF W, C
  <2>1. n \in 0 .. W - 1
    BY <1>0, <2>0
  <2>2. (k - 1) * W \in Nat /\ k - 1 \in Nat
    BY <1>0
  <2>3. g \in 1 .. L
    <3>1. CASE k < C
      <4>1. (C - 1) * W = (k - 1) * W + W + (C - 1 - k) * W /\ (C - 1 - k) * W >= 0
        BY <1>0, <3>1
      <4> QED
        BY <1>0, <2>1, <2>2, <4>1
    <3>2. CASE k = C
      BY <1>0, <2>1, <2>2, <3>2
    <3> QED
      BY <1>0, <3>1, <3>2
  <2> HIDE DEF g
  <2>4. PICK j \in Nat \ {0}, m \in 0 .. W - 1 :
          /\ g = (j - 1) * W + m + 1
          /\ j = RowNo(g, W) /\ m = InRow(g, W)
    <3>1. g \in Nat \ {0} /\ W \in Nat \ {0}
      BY <1>0, <2>3
    <3> QED
      BY <3>1, RowOf
  <2>5. (j - 1) * W + m = (k - 1) * W + n
    BY <1>0, <2>1, <2>2, <2>4 DEF g
  <2>6. j - 1 = k - 1 /\ m = n
    <3> DEFINE a == j - 1
               c == k - 1
    <3>1. a \in Nat /\ c \in Nat /\ a * W + m = c * W + n
      BY <2>2, <2>4, <2>5
    <3> HIDE DEF a, c
    <3>2. a = c /\ m = n
      BY <1>0, <2>1, <2>4, <3>1, RowsApart
    <3> QED
      BY <3>2 DEF a, c
  <2>7. j = k /\ m = n
    BY <1>0, <2>6
  <2> QED
    BY <1>1, <2>3, <2>4, <2>7
<1> QED
  BY <1>2, <1>3 DEF L, W, C

-----------------------------------------------------------------------------
(* The minutes and the anchors.                                            *)

\* Of the numbers up to a bound, any that are such have a first.
LEMMA FirstIsThere ==
  ASSUME NEW N \in Nat, NEW S, S \subseteq 0 .. N, S # {}
  PROVE  \E m \in S : \A x \in S : m <= x
<1> DEFINE below(m) == {x \in S : x <= m}
           T == {below(m) : m \in S}
<1>1. T \subseteq SUBSET S /\ T # {}
  OBVIOUS
<1>2. IsFiniteSet(S)
  <2>1. IsFiniteSet(0 .. N)
    BY FS_Interval
  <2> QED
    BY <2>1, FS_Subset
<1>3. IsWellFoundedOn(StrictSubsetOrdering(S), SUBSET S)
  BY <1>2, FS_FiniteSubsetsOfFinite, FS_StrictSubsetOrderingWellFounded
<1> HIDE DEF T
<1>4. PICK U \in T : \A V \in T : ~(<<V, U>> \in StrictSubsetOrdering(S))
  BY <1>1, <1>3, WFMin
<1>5. PICK m \in S : U = below(m)
  BY <1>4 DEF T
<1>6. ASSUME NEW y \in S, y < m PROVE FALSE
  <2>1. below(y) \in T
    BY DEF T
  <2>2. y \in Nat /\ m \in Nat /\ \A x \in S : x \in Nat
    OBVIOUS
  <2>3. below(y) \subseteq below(m) /\ m \in below(m) /\ m \notin below(y)
    <3>1. \A x \in S : x <= y => x <= m
      BY <1>6, <2>2
    <3>2. m <= m /\ ~(m <= y)
      BY <1>6, <2>2
    <3> QED
      BY <3>1, <3>2
  <2>4. below(y) # below(m)
    BY <2>3
  <2>5. <<below(y), below(m)>> \in StrictSubsetOrdering(S)
    BY <2>3, <2>4 DEF StrictSubsetOrdering
  <2> QED
    BY <1>4, <1>5, <2>1, <2>5
<1>7. m \in Nat /\ \A x \in S : x \in Nat
  OBVIOUS
<1> QED
  BY <1>6, <1>7

\* A set of numbers up to N has a greatest one.
LEMMA MaxIsThere ==
  ASSUME NEW N \in Nat, NEW S, S \subseteq 0 .. N, S # {}
  PROVE  Max(S) \in S /\ \A x \in S : x <= Max(S)
<1> DEFINE T == {y \in 0 .. N : N - y \in S}
<1>1. T # {}
  <2>1. PICK x \in S : TRUE
    OBVIOUS
  <2>2. N - x \in 0 .. N /\ N - (N - x) = x
    OBVIOUS
  <2> QED
    BY <2>2
<1>2. PICK m \in T : \A y \in T : m <= y
  <2>1. T \subseteq 0 .. N
    OBVIOUS
  <2> HIDE DEF T
  <2> QED
    BY <1>1, <2>1, FirstIsThere
<1>3. ASSUME NEW x \in S PROVE x <= N - m
  <2>1. N - x \in 0 .. N /\ N - (N - x) = x
    OBVIOUS
  <2>2. N - x \in T
    BY <2>1
  <2> QED
    BY <1>2, <2>1, <2>2
<1>4. N - m \in S
  BY <1>2
<1>5. \E x \in S : \A y \in S : x >= y
  BY <1>3, <1>4
<1> QED
  BY <1>5 DEF Max

\* The minutes of the records paid are 1 to the last of them.
LEMMA MinutesAre ==
  ASSUME NEW o, IsChoice(o)
  PROVE  /\ Minutes(o) \in Nat \ {0}
         /\ \A i \in 1 .. o.limit : FlightReceipts[i] \in 1 .. Minutes(o)
<1> DEFINE S == {FlightReceipts[i] : i \in 1 .. o.limit}
<1>1. o.limit \in Nat \ {0} /\ \A i \in 1 .. o.limit : i \in DOMAIN FlightReceipts
  BY ChoicesAre DEF IsChoice
<1>2. \A i \in 1 .. o.limit : FlightReceipts[i] \in 1 .. o.limit
  BY <1>1, ChainAssumption
<1>3. S \subseteq 0 .. o.limit /\ S # {}
  BY <1>1, <1>2
<1>4. Minutes(o) = Max(S)
  BY DEF Minutes
<1>5. \A i \in 1 .. o.limit : FlightReceipts[i] \in S
  OBVIOUS
<1>6. \A x \in S : x \in 1 .. o.limit
  BY <1>2
<1> HIDE DEF S
<1>7. Max(S) \in S /\ \A x \in S : x <= Max(S)
  BY <1>1, <1>3, MaxIsThere
<1> QED
  BY <1>1, <1>4, <1>5, <1>6, <1>7

\* The records of a minute, and those of the minutes up to one.
RecordsOf(o, m) == {i \in 1 .. o.limit : FlightReceipts[i] = m}
Roots(o, k) == [m \in 1 .. k |-> RecordsOf(o, m)]

\* The k-th anchor carries the roots of the first k minutes.
LEMMA AnchorIs ==
  ASSUME NEW o, IsChoice(o), NEW f, NEW node, NEW k \in 1 .. Minutes(o)
  PROVE  /\ AnchorBatches(o, f, node)[k] = Anchor(f, AnchorFund(o, f, node), Roots(o, k))
         /\ Len(Roots(o, k)) = k /\ Last(Roots(o, k)) = RecordsOf(o, k)
         /\ k > 1 => Front(Roots(o, k)) = Roots(o, k - 1)
<1>1. k \in Nat \ {0}
  BY MinutesAre
<1>2. Len(Roots(o, k)) = k /\ Last(Roots(o, k)) = RecordsOf(o, k)
  BY <1>1 DEF Roots, Last
<1>3. AnchorBatches(o, f, node)[k] = Anchor(f, AnchorFund(o, f, node), Roots(o, k))
  BY DEF AnchorBatches, Roots, RecordsOf
<1>4. ASSUME k > 1 PROVE Front(Roots(o, k)) = Roots(o, k - 1)
  <2>1. Front(Roots(o, k)) = SubSeq(Roots(o, k), 1, k - 1)
    BY <1>2 DEF Front
  <2> DEFINE R == Roots(o, k)
             T == {R[i] : i \in 1 .. k - 1}
             F == SubSeq(R, 1, k - 1)
  <2>2. \A i \in 1 .. k - 1 : R[i] \in T
    OBVIOUS
  <2> HIDE DEF T, R
  <2>3. F \in Seq(T) /\ Len(F) = k - 1 /\ \A i \in 1 .. k - 1 : F[i] = R[i]
    <3>1. 1 \in Int /\ k - 1 \in Int
      BY <1>1
    <3>2. /\ F \in Seq(T)
          /\ Len(F) = IF 1 <= k - 1 THEN k - 1 - 1 + 1 ELSE 0
          /\ \A i \in 1 .. k - 1 - 1 + 1 : F[i] = R[1 + i - 1]
      BY <2>2, <3>1, SubSeqProperties
    <3> QED
      BY <1>1, <1>4, <3>2
  <2> HIDE DEF F
  <2>4. F = [i \in 1 .. k - 1 |-> F[i]]
    BY <2>3
  <2>5. \A i \in 1 .. k - 1 : F[i] = RecordsOf(o, i)
    <3>1. \A i \in 1 .. k : R[i] = RecordsOf(o, i)
      BY DEF R, Roots
    <3>2. \A i \in 1 .. k - 1 : i \in 1 .. k
      BY <1>1
    <3> QED
      BY <2>3, <3>1, <3>2
  <2>6. F = Roots(o, k - 1)
    BY <2>4, <2>5 DEF Roots
  <2> QED
    BY <2>1, <2>6 DEF F, R
<1> QED
  BY <1>2, <1>3, <1>4

\* The last fan-out tells how many records a run is about.
LEMMA LimitOfLast ==
  ASSUME NEW o, IsChoice(o)
  PROVE  LET s == Amounts(o, FanCount(o))
         IN  o.limit = (FanCount(o) - 1) * PerFan + (Len(s) - 1) * s[1] + s[Len(s)]
<1> DEFINE C == FanCount(o)
           W == FanWidth(o)
           L == LotCount(o)
           w == LotsOnFan(o, C)
           s == Amounts(o, C)
<1>1. /\ C \in Nat \ {0} /\ W \in Nat \ {0} /\ L \in Nat \ {0}
      /\ w = L - (C - 1) * W /\ w \in Nat \ {0}
      /\ o.batch > 1 => C = 1
      /\ o.batch = 1 => W = PerFan
      /\ o.batch \in Nat \ {0} /\ o.limit \in Nat \ {0} /\ PerFan \in Nat \ {0}
      /\ (L - 1) * o.batch < o.limit /\ o.limit <= L * o.batch
  <2>1. C \in 1 .. C /\ C \in Nat \ {0}
    BY FansAre
  <2>2. w = L - (C - 1) * W /\ w \in 1 .. W /\ W \in Nat \ {0}
    BY <2>1, FansAre
  <2> HIDE DEF w, C, W
  <2>3. w \in Nat \ {0}
    BY <2>2
  <2>4. (o.batch > 1 => C = 1) /\ (o.batch = 1 => W = PerFan)
    BY FansAre DEF C, W
  <2>5. L \in Nat \ {0} /\ (L - 1) * o.batch < o.limit /\ o.limit <= L * o.batch
    BY LotsAre
  <2>6. o.batch \in Nat \ {0} /\ o.limit \in Nat \ {0} /\ PerFan \in Nat \ {0}
    BY ChoicesAre, ChainAssumption, SMTT(60) DEF IsChoice
  <2> HIDE DEF L
  <2> QED
    BY <2>1, <2>2, <2>3, <2>4, <2>5, <2>6
<1>2. \A g \in 1 .. L : Cardinality(Lot(o, g)) = IF g < L THEN o.batch ELSE o.limit - (L - 1) * o.batch
  BY LotsAre
<1>3. Len(s) = w /\ \A n \in 1 .. w : s[n] = Cardinality(Lot(o, (C - 1) * W + n))
  BY <1>1 DEF Amounts
<1> HIDE DEF C, W, L, w, s
<1>4. CASE o.batch > 1
  <2>1. C = 1 /\ w = L /\ (C - 1) * PerFan = 0 /\ (C - 1) * W = 0
    BY <1>1, <1>4
  <2>2. \A n \in 1 .. L : s[n] = IF n < L THEN o.batch ELSE o.limit - (L - 1) * o.batch
    BY <1>1, <1>2, <1>3, <2>1
  <2>3. s[L] = o.limit - (L - 1) * o.batch /\ (L > 1 => s[1] = o.batch)
    BY <1>1, <2>2
  <2>4. (L - 1) * s[1] = (L - 1) * o.batch
    <3>1. CASE L > 1
      BY <2>3, <3>1
    <3>2. CASE L = 1
      <4>1. s[1] \in Int
        BY <1>1, <2>3, <3>2
      <4> QED
        BY <1>1, <3>2, <4>1
    <3> QED
      BY <1>1, <3>1, <3>2
  <2>5. (L - 1) * o.batch \in Int
    BY <1>1
  <2> QED
    BY <1>1, <1>3, <2>1, <2>3, <2>4, <2>5 DEF C, s
<1>5. CASE o.batch = 1
  <2>1. o.limit = L /\ W = PerFan /\ L = (C - 1) * PerFan + w
    BY <1>1, <1>5
  <2>2. (C - 1) * W \in Nat
    BY <1>1
  <2>3. \A n \in 1 .. w : s[n] = 1
    BY <1>1, <1>2, <1>3, <1>5, <2>1, <2>2
  <2>4. s[1] = 1 /\ s[w] = 1
    BY <1>1, <2>3
  <2> QED
    BY <1>1, <1>3, <2>1, <2>4, SMTT(60) DEF C, s
<1> QED
  BY <1>1, <1>4, <1>5, SMTT(60)

\* The amounts of the last fan-out tell how many records its run pays.
LEMMA SameLastSameLimit ==
  ASSUME NEW o, IsChoice(o), NEW p, IsChoice(p), NEW f,
         FanTxs(o, f)[FanCount(o)] = FanTxs(p, f)[FanCount(p)]
  PROVE  o.limit = p.limit
<1>1. FanCount(o) \in 1 .. FanCount(o) /\ FanCount(p) \in 1 .. FanCount(p)
  BY FansAre
<1>2. Fan(f, FanCount(o), Amounts(o, FanCount(o))) = Fan(f, FanCount(p), Amounts(p, FanCount(p)))
  BY <1>1, FanIs
<1>3. FanCount(o) = FanCount(p) /\ Amounts(o, FanCount(o)) = Amounts(p, FanCount(p))
  BY <1>2 DEF Fan
<1> QED
  BY <1>3, LimitOfLast

-----------------------------------------------------------------------------
(* What a transaction spends.                                              *)

\* A fan-out spends the change of the one before it, or the funding output.
LEMMA FanSpends ==
  ASSUME NEW o, IsChoice(o), NEW f, NEW k \in 1 .. FanCount(o)
  PROVE  LET tx == FanTxs(o, f)[k]
         IN  /\ tx.kind = "fan" /\ tx.fund = f /\ tx.k = k /\ Change(tx) = LotsOnFan(o, k)
             /\ Gives(tx) = 0 .. LotsOnFan(o, k)
             /\ Spends(tx) = IF k = 1 THEN Coin(f, 0) ELSE Out(FullFan(f, k - 1), PerFan)
<1> DEFINE tx == FanTxs(o, f)[k]
<1>1. tx = Fan(f, k, Amounts(o, k)) /\ Len(Amounts(o, k)) = LotsOnFan(o, k)
  BY FanIs
<1> HIDE DEF tx
<1>2. tx.kind = "fan" /\ tx.fund = f /\ tx.k = k /\ tx.amounts = Amounts(o, k)
  BY <1>1 DEF Fan
<1>3. Change(FullFan(f, k - 1)) = PerFan
  BY ChainAssumption DEF Change, FullFan, Fan
<1>4. Spends(tx) = IF k = 1 THEN Coin(f, 0) ELSE Out(FullFan(f, k - 1), PerFan)
  BY <1>2, <1>3 DEF Spends
<1>5. Gives(tx) = 0 .. LotsOnFan(o, k)
  BY <1>1, <1>2 DEF Gives
<1> QED
  BY <1>1, <1>2, <1>4, <1>5 DEF tx, Change

\* A payment spends an output of its fan-out.
LEMMA PaymentSpends ==
  ASSUME NEW fan, NEW n, NEW lot, NEW batched
  PROVE  LET tx == Payment(fan, n, lot, batched)
         IN  tx.kind = "payment" /\ tx.fund = fan.fund /\ tx.lot = lot /\ Spends(tx) = Out(fan, n)
<1> DEFINE tx == Payment(fan, n, lot, batched)
<1>1. tx.kind = "payment" /\ tx.fund = fan.fund /\ tx.lot = lot /\ tx.fan = fan /\ tx.n = n
  BY DEF Payment
<1> HIDE DEF tx
<1>2. Spends(tx) = Out(fan, n)
  BY <1>1 DEF Spends
<1> QED
  BY <1>1, <1>2 DEF tx

\* An anchor spends the one before it; the first, what the run has for it.
LEMMA AnchorSpends ==
  ASSUME NEW o, IsChoice(o), NEW f, NEW node, NEW k \in 1 .. Minutes(o)
  PROVE  LET tx == AnchorBatches(o, f, node)[k]
         IN  /\ tx.kind = "anchor" /\ tx.fund = f
             /\ Last(tx.roots) = RecordsOf(o, k)
             /\ Gives(tx) = {1}
             /\ Spends(tx) = IF k = 1 THEN AnchorFund(o, f, node)
                             ELSE Out(AnchorBatches(o, f, node)[k - 1], 1)
<1> DEFINE tx == AnchorBatches(o, f, node)[k]
           from == AnchorFund(o, f, node)
<1>1. tx = Anchor(f, from, Roots(o, k)) /\ Len(Roots(o, k)) = k
      /\ Last(Roots(o, k)) = RecordsOf(o, k)
      /\ (k > 1 => Front(Roots(o, k)) = Roots(o, k - 1))
  BY AnchorIs
<1>2. k \in Nat \ {0} /\ Minutes(o) \in Nat
  BY MinutesAre
<1>3. ASSUME k # 1 PROVE AnchorBatches(o, f, node)[k - 1] = Anchor(f, from, Roots(o, k - 1))
  <2>1. k - 1 \in 1 .. Minutes(o)
    BY <1>2, <1>3
  <2> QED
    BY <2>1, AnchorIs
<1> HIDE DEF tx, from
<1>4. tx.kind = "anchor" /\ tx.fund = f /\ tx.from = from /\ tx.roots = Roots(o, k)
  BY <1>1 DEF Anchor
<1>5. Spends(tx) = IF k = 1 THEN from ELSE Out(Anchor(f, from, Front(Roots(o, k))), 1)
  BY <1>1, <1>4 DEF Spends
<1>6. Gives(tx) = {1}
  BY <1>4 DEF Gives
<1>7. Spends(tx) = IF k = 1 THEN from ELSE Out(AnchorBatches(o, f, node)[k - 1], 1)
  BY <1>1, <1>2, <1>3, <1>5
<1> QED
  BY <1>1, <1>4, <1>6, <1>7 DEF tx, from

\* The node of a funding, the options it may have, and the transactions.
NodeOf(f) == IF f = 0 THEN "arcade" ELSE "teranode"
OptionsOf(f) == IF f = 0 THEN PayOptions ELSE {WholeFlight}
TxsOf(o, f) == ToSet(AllTxs(o, f, NodeOf(f)))

\* The options of a funding are within the flight.
LEMMA ChoiceIs == \A f : \A o \in OptionsOf(f) : IsChoice(o)
BY ChoicesAre DEF OptionsOf

\* All transactions of a run: fan-outs, payments, anchors, in this order.
LEMMA AllAre ==
  ASSUME NEW o, IsChoice(o), NEW f, NEW node
  PROVE  /\ Len(AllTxs(o, f, node)) = FanCount(o) + LotCount(o) + Minutes(o)
         /\ DOMAIN AllTxs(o, f, node) = 1 .. FanCount(o) + LotCount(o) + Minutes(o)
         /\ \A k \in 1 .. FanCount(o) : AllTxs(o, f, node)[k] = FanTxs(o, f)[k]
         /\ \A g \in 1 .. LotCount(o) : AllTxs(o, f, node)[FanCount(o) + g] = Payments(o, f)[g]
         /\ \A k \in 1 .. Minutes(o) :
              AllTxs(o, f, node)[FanCount(o) + LotCount(o) + k] = AnchorBatches(o, f, node)[k]
<1> DEFINE C == FanCount(o)
           L == LotCount(o)
           M == Minutes(o)
           F == FanTxs(o, f)
           P == Payments(o, f)
           A == AnchorBatches(o, f, node)
           T == {F[k] : k \in 1 .. C} \cup {P[g] : g \in 1 .. L} \cup {A[k] : k \in 1 .. M}
<1>1. C \in Nat /\ L \in Nat /\ M \in Nat
  BY FansAre, LotsAre, MinutesAre
<1>2. F \in Seq(T) /\ Len(F) = C
  <2>1. F \in [1 .. C -> T]
    <3>1. \A k \in 1 .. C : F[k] \in T
      OBVIOUS
    <3> QED
      BY <3>1 DEF FanTxs
  <2> QED
    BY <1>1, <2>1, SeqDef, LenProperties
<1>3. P \in Seq(T) /\ Len(P) = L
  <2>1. P \in [1 .. L -> T]
    <3>1. \A k \in 1 .. L : P[k] \in T
      OBVIOUS
    <3> QED
      BY <3>1 DEF Payments
  <2> QED
    BY <1>1, <2>1, SeqDef, LenProperties
<1>4. A \in Seq(T) /\ Len(A) = M
  <2>1. A \in [1 .. M -> T]
    <3>1. \A k \in 1 .. M : A[k] \in T
      OBVIOUS
    <3> QED
      BY <3>1 DEF AnchorBatches
  <2> QED
    BY <1>1, <2>1, SeqDef, LenProperties
<1>5. AllTxs(o, f, node) = (F \o P) \o A
  BY DEF AllTxs
<1> HIDE DEF C, L, M, F, P, A, T
<1>6. /\ F \o P \in Seq(T) /\ Len(F \o P) = C + L
      /\ \A i \in 1 .. C + L : (F \o P)[i] = IF i <= C THEN F[i] ELSE P[i - C]
  BY <1>2, <1>3, ConcatProperties
<1> DEFINE FP == F \o P
           B == FP \o A
<1>6a. FP \in Seq(T) /\ Len(FP) = C + L /\ \A i \in 1 .. C + L : FP[i] = IF i <= C THEN F[i] ELSE P[i - C]
  BY <1>6
<1> HIDE DEF FP
<1>7. /\ B \in Seq(T) /\ Len(B) = C + L + M
      /\ \A i \in 1 .. C + L + M : B[i] = IF i <= C + L THEN FP[i] ELSE A[i - (C + L)]
  <2>1. /\ FP \o A \in Seq(T) /\ Len(FP \o A) = Len(FP) + Len(A)
        /\ \A i \in 1 .. Len(FP) + Len(A) : (FP \o A)[i] = IF i <= Len(FP) THEN FP[i] ELSE A[i - Len(FP)]
    BY <1>4, <1>6a, ConcatProperties
  <2>2. Len(FP) = C + L /\ Len(A) = M
    BY <1>4, <1>6a
  <2> QED
    BY <2>1, <2>2
<1> HIDE DEF B
<1>8. DOMAIN B = 1 .. C + L + M
  BY <1>7, LenProperties
<1>9. \A k \in 1 .. C : B[k] = F[k]
  BY <1>1, <1>6a, <1>7
<1>10. \A g \in 1 .. L : B[C + g] = P[g]
  <2> SUFFICES ASSUME NEW g \in 1 .. L PROVE B[C + g] = P[g]
    OBVIOUS
  <2>1. C + g \in 1 .. C + L /\ C + g \in 1 .. C + L + M /\ ~(C + g <= C) /\ C + g - C = g
    BY <1>1
  <2> QED
    BY <1>1, <1>6a, <1>7, <2>1
<1>11. \A k \in 1 .. M : B[C + L + k] = A[k]
  <2> SUFFICES ASSUME NEW k \in 1 .. M PROVE B[C + L + k] = A[k]
    OBVIOUS
  <2>1. C + L + k \in 1 .. C + L + M /\ ~(C + L + k <= C + L) /\ C + L + k - (C + L) = k
    BY <1>1
  <2> QED
    BY <1>1, <1>7, <2>1
<1>12. B = AllTxs(o, f, node)
  BY <1>5 DEF B, FP
<1> QED
  BY <1>7, <1>8, <1>9, <1>10, <1>11, <1>12 DEF C, L, M, F, P, A

\* The same as sets.
LEMMA OfARun ==
  ASSUME NEW o, IsChoice(o), NEW f, NEW node
  PROVE  /\ ToSet(AllTxs(o, f, node)) =
              {FanTxs(o, f)[k] : k \in 1 .. FanCount(o)} \cup {Payments(o, f)[g] : g \in 1 .. LotCount(o)}
              \cup {AnchorBatches(o, f, node)[k] : k \in 1 .. Minutes(o)}
         /\ Wanted(o, f, node) = {Payments(o, f)[g] : g \in 1 .. LotCount(o)}
              \cup {AnchorBatches(o, f, node)[k] : k \in 1 .. Minutes(o)}
<1> DEFINE B == AllTxs(o, f, node)
           C == FanCount(o)
           L == LotCount(o)
           M == Minutes(o)
<1>1. /\ DOMAIN B = 1 .. C + L + M
      /\ \A k \in 1 .. C : B[k] = FanTxs(o, f)[k]
      /\ \A g \in 1 .. L : B[C + g] = Payments(o, f)[g]
      /\ \A k \in 1 .. M : B[C + L + k] = AnchorBatches(o, f, node)[k]
      /\ C \in Nat /\ L \in Nat /\ M \in Nat
  BY AllAre, FansAre, LotsAre, MinutesAre, SMTT(60)
<1>2. ToSet(Payments(o, f)) = {Payments(o, f)[g] : g \in 1 .. L}
  BY DEF ToSet, Payments
<1>3. ToSet(AnchorBatches(o, f, node)) = {AnchorBatches(o, f, node)[k] : k \in 1 .. M}
  BY DEF ToSet, AnchorBatches
<1> DEFINE S == {FanTxs(o, f)[k] : k \in 1 .. C} \cup {Payments(o, f)[g] : g \in 1 .. L}
              \cup {AnchorBatches(o, f, node)[k] : k \in 1 .. M}
<1> HIDE DEF B, C, L, M
<1>4. \A i \in 1 .. C + L + M : B[i] \in S
  <2> SUFFICES ASSUME NEW i \in 1 .. C + L + M PROVE B[i] \in S
    OBVIOUS
  <2>1. CASE i <= C
    BY <1>1, <2>1
  <2>2. CASE i > C /\ i <= C + L
    <3>1. i - C \in 1 .. L /\ C + (i - C) = i
      BY <1>1, <2>2
    <3> QED
      BY <1>1, <3>1, SMTT(60)
  <2>3. CASE i > C + L
    <3>1. i - C - L \in 1 .. M /\ C + L + (i - C - L) = i
      BY <1>1, <2>3
    <3> QED
      BY <1>1, <3>1
  <2> QED
    BY <1>1, <2>1, <2>2, <2>3
<1>5. \A k \in 1 .. C : k \in 1 .. C + L + M
  BY <1>1
<1>6. \A g \in 1 .. L : C + g \in 1 .. C + L + M
  BY <1>1
<1>7. \A k \in 1 .. M : C + L + k \in 1 .. C + L + M
  BY <1>1
<1>8. S \subseteq {B[i] : i \in 1 .. C + L + M}
  BY <1>1, <1>5, <1>6, <1>7
<1>9. ToSet(B) = {B[i] : i \in 1 .. C + L + M}
  BY <1>1 DEF ToSet
<1>10. ToSet(B) = S
  BY <1>4, <1>8, <1>9, ZenonT(60)
<1> QED
  BY <1>2, <1>3, <1>10 DEF Wanted, B, C, L, M

-----------------------------------------------------------------------------
(* Nothing is paid or anchored twice.                                      *)

\* Each transaction is one that a run builds, of a run on a funding.
Built(tx) == \E f \in Nat : \E o \in OptionsOf(f) : tx \in TxsOf(o, f)

\* What a network holds: all that a transaction spends from, and each output
\* spent once.
SpentOnce(M) ==
  /\ \A tx \in M : Built(tx)
  /\ \A tx \in M : Spends(tx).of.kind # "funding" => Spends(tx).of \in M
  /\ \A s, t \in M : Spends(s) = Spends(t) => s = t

\* A transaction is of the funding of its run, and is a fan-out, a payment or
\* an anchor of it.
LEMMA KindsAre ==
  ASSUME NEW o, IsChoice(o), NEW f, NEW tx \in TxsOf(o, f)
  PROVE  /\ tx.fund = f /\ tx.kind \in {"fan", "payment", "anchor"}
         /\ tx.kind = "fan" => \E k \in 1 .. FanCount(o) : tx = FanTxs(o, f)[k]
         /\ tx.kind = "payment" => \E g \in 1 .. LotCount(o) : tx = Payments(o, f)[g]
         /\ tx.kind = "anchor" => \E k \in 1 .. Minutes(o) : tx = AnchorBatches(o, f, NodeOf(f))[k]
<1>1. \/ \E k \in 1 .. FanCount(o) : tx = FanTxs(o, f)[k]
      \/ \E g \in 1 .. LotCount(o) : tx = Payments(o, f)[g]
      \/ \E k \in 1 .. Minutes(o) : tx = AnchorBatches(o, f, NodeOf(f))[k]
  BY OfARun DEF TxsOf
<1>2. CASE \E k \in 1 .. FanCount(o) : tx = FanTxs(o, f)[k]
  <2>1. tx.fund = f /\ tx.kind = "fan"
    BY <1>2, FanSpends
  <2> QED
    BY <1>2, <2>1
<1>3. CASE \E g \in 1 .. LotCount(o) : tx = Payments(o, f)[g]
  <2>0. PICK g \in 1 .. LotCount(o) : tx = Payments(o, f)[g]
    BY <1>3
  <2>1. PICK k \in 1 .. FanCount(o), n \in 0 .. FanWidth(o) - 1 :
          tx = Payment(FanTxs(o, f)[k], n, Lot(o, g), o.batch > 1)
    BY <2>0, PlacesAre
  <2>2. FanTxs(o, f)[k].fund = f
    BY FanSpends
  <2>3. tx.fund = f /\ tx.kind = "payment"
    BY <2>1, <2>2, PaymentSpends
  <2> QED
    BY <1>3, <2>3
<1>4. CASE \E k \in 1 .. Minutes(o) : tx = AnchorBatches(o, f, NodeOf(f))[k]
  <2>1. tx.fund = f /\ tx.kind = "anchor"
    BY <1>4, AnchorSpends
  <2> QED
    BY <1>4, <2>1
<1> QED
  BY <1>1, <1>2, <1>3, <1>4

\* A transaction of a funding is one of the options of that funding.
LEMMA BuiltIs ==
  ASSUME NEW tx, Built(tx)
  PROVE  tx.fund \in Nat /\ \E o \in OptionsOf(tx.fund) : tx \in TxsOf(o, tx.fund)
BY ChoiceIs, KindsAre DEF Built

\* Once all that a run was to pay and to anchor is there, the fan-outs of its
\* funding are those of the run: any other would hang on the change of its
\* last one, which its first anchor has spent.
LEMMA OneChain ==
  ASSUME NEW M, SpentOnce(M), NEW o \in OptionsOf(0), Wanted(o, 0, NodeOf(0)) \subseteq M
  PROVE  /\ \A k \in 1 .. FanCount(o) : FanTxs(o, 0)[k] \in M
         /\ \A fan \in M : fan.kind = "fan" /\ fan.fund = 0 =>
              fan.k \in 1 .. FanCount(o) /\ fan = FanTxs(o, 0)[fan.k]
<1> DEFINE C == FanCount(o)
           F == FanTxs(o, 0)
<1>0. IsChoice(o) /\ C \in Nat \ {0}
  BY ChoiceIs, FansAre
<1>1. ASSUME NEW k \in 1 .. C PROVE F[k] \in M
  <2>1. 0 \in 0 .. LotsOnFan(o, k) - 1
    <3>1. LotsOnFan(o, k) \in 1 .. FanWidth(o) /\ FanWidth(o) \in Nat
      BY <1>0, FansAre
    <3> QED
      BY <3>1
  <2>2. PICK g \in 1 .. LotCount(o) : Payments(o, 0)[g] = Payment(F[k], 0, Lot(o, g), o.batch > 1)
    BY <1>0, <2>1, PlacesAre
  <2>3. Payments(o, 0)[g] \in M
    BY <1>0, OfARun
  <2>4. Spends(Payments(o, 0)[g]) = Out(F[k], 0)
    BY <2>2, PaymentSpends
  <2>5. Spends(Payments(o, 0)[g]).of = F[k]
    BY <2>4 DEF Out
  <2>6. F[k].kind = "fan"
    BY <1>0, FanSpends
  <2> QED
    BY <2>3, <2>5, <2>6 DEF SpentOnce
<1>2. ASSUME NEW fan \in M, fan.kind = "fan", fan.fund = 0
      PROVE  \E p : IsChoice(p) /\ fan.k \in 1 .. FanCount(p) /\ fan = FanTxs(p, 0)[fan.k]
  <2>1. PICK p \in OptionsOf(0) : fan \in TxsOf(p, 0)
    BY <1>2, BuiltIs DEF SpentOnce
  <2>2. IsChoice(p)
    BY ChoiceIs
  <2>3. PICK k \in 1 .. FanCount(p) : fan = FanTxs(p, 0)[k]
    BY <1>2, <2>1, <2>2, KindsAre
  <2>4. fan.k = k
    BY <2>2, <2>3, FanSpends
  <2> QED
    BY <2>2, <2>3, <2>4
<1>3. ASSUME NEW fan \in M, fan.kind = "fan", fan.fund = 0
      PROVE  /\ fan.k \in Nat \ {0}
             /\ Spends(fan) = IF fan.k = 1 THEN Coin(0, 0) ELSE Out(FullFan(0, fan.k - 1), PerFan)
  <2>1. PICK p : IsChoice(p) /\ fan.k \in 1 .. FanCount(p) /\ fan = FanTxs(p, 0)[fan.k]
    BY <1>2, <1>3
  <2>2. FanCount(p) \in Nat
    BY <2>1, FansAre
  <2> QED
    BY <2>1, <2>2, FanSpends
<1>4. ASSUME NEW fan \in M, fan.kind = "fan", fan.fund = 0, fan.k <= C PROVE fan = F[fan.k]
  <2>1. fan.k \in 1 .. C
    BY <1>0, <1>3, <1>4
  <2>2. Spends(F[fan.k]) = Spends(fan)
    BY <1>0, <1>3, <1>4, <2>1, FanSpends
  <2> QED
    BY <1>1, <2>1, <2>2 DEF SpentOnce
<1>5. ASSUME NEW fan \in M, fan.kind = "fan", fan.fund = 0 PROVE fan.k <= C
  <2> DEFINE S == {i \in C + 1 .. fan.k : \E t \in M : t.kind = "fan" /\ t.fund = 0 /\ t.k = i}
  <2> SUFFICES ASSUME ~(fan.k <= C) PROVE FALSE
    OBVIOUS
  <2>1. fan.k \in S /\ S \subseteq 0 .. fan.k /\ fan.k \in Nat
    BY <1>0, <1>3, <1>5
  <2>1a. \A i \in S : i \in C + 1 .. fan.k /\ \E t \in M : t.kind = "fan" /\ t.fund = 0 /\ t.k = i
    OBVIOUS
  <2>1b. \A i \in C + 1 .. fan.k : (\E t \in M : t.kind = "fan" /\ t.fund = 0 /\ t.k = i) => i \in S
    OBVIOUS
  <2> HIDE DEF S, C, F
  <2>2. PICK m \in S : \A i \in S : m <= i
    BY <2>1, FirstIsThere
  <2>3. PICK t \in M : t.kind = "fan" /\ t.fund = 0 /\ t.k = m
    BY <2>1a
  <2>4. m \in Nat \ {0, 1} /\ m >= C + 1 /\ m <= fan.k
    BY <1>0, <2>1, <2>1a
  <2> DEFINE prev == FullFan(0, m - 1)
  <2>5. Spends(t) = Out(prev, PerFan)
    BY <1>3, <2>3, <2>4
  <2>6. prev.kind = "fan" /\ prev.fund = 0 /\ prev.k = m - 1
    BY DEF FullFan, Fan
  <2> HIDE DEF prev
  <2>7. prev \in M
    BY <2>5, <2>6 DEF SpentOnce, Out
  <2>8. m = C + 1
    <3> SUFFICES ASSUME m # C + 1 PROVE FALSE
      OBVIOUS
    <3>1. m - 1 \in C + 1 .. fan.k
      BY <1>0, <2>1, <2>4
    <3>2. m - 1 \in S
      BY <2>1b, <2>6, <2>7, <3>1
    <3> QED
      BY <2>2, <2>4, <3>2
  <2>9. prev = F[C]
    <3>1. prev.k = C
      BY <1>0, <2>6, <2>8
    <3> QED
      BY <1>0, <1>4, <2>6, <2>7, <3>1
  <2> DEFINE first == AnchorBatches(o, 0, NodeOf(0))[1]
  <2>10. 1 \in 1 .. Minutes(o) /\ C \in 1 .. FanCount(o)
    BY <1>0, MinutesAre DEF C
  <2>11. first \in M
    BY <1>0, <2>10, OfARun
  <2>12. first.kind = "anchor" /\ Spends(first) = AnchorFund(o, 0, NodeOf(0))
    BY <1>0, <2>10, AnchorSpends
  <2>13. AnchorFund(o, 0, NodeOf(0)) = Out(F[C], Change(F[C]))
    BY DEF AnchorFund, NodeOf, F, C
  <2>14. Change(F[C]) = PerFan
    BY <2>9, ChainAssumption DEF prev, Change, FullFan, Fan
  <2> HIDE DEF first
  <2>15. first = t
    BY <2>5, <2>9, <2>11, <2>12, <2>13, <2>14 DEF SpentOnce
  <2> QED
    BY <2>3, <2>12, <2>15
<1>6. ASSUME NEW fan \in M, fan.kind = "fan", fan.fund = 0
      PROVE  fan.k \in 1 .. C /\ fan = F[fan.k]
  BY <1>0, <1>3, <1>4, <1>5, <1>6
<1> QED
  BY <1>1, <1>6

\* Beside a complete run the network holds no payment of the same funding: it
\* would hang on another fan-out, and its chain would spend what this one spends.
LEMMA OnlyItsPayments ==
  ASSUME NEW M, SpentOnce(M), NEW f \in Nat, NEW o \in OptionsOf(f), Wanted(o, f, NodeOf(f)) \subseteq M,
         NEW tx \in M, tx.kind = "payment", tx.fund = f
  PROVE  \E g \in 1 .. LotCount(o) : tx = Payments(o, f)[g]
<1>1. PICK p \in OptionsOf(f) : tx \in TxsOf(p, f)
  BY BuiltIs DEF SpentOnce
<1>2. IsChoice(p) /\ IsChoice(o)
  BY ChoiceIs
<1>3. PICK h \in 1 .. LotCount(p) : tx = Payments(p, f)[h]
  BY <1>1, <1>2, KindsAre
<1>4. CASE f # 0
  BY <1>3, <1>4 DEF OptionsOf
<1>5. CASE f = 0
  <2>1. PICK k \in 1 .. FanCount(p), n \in 0 .. FanWidth(p) - 1 :
          n < LotsOnFan(p, k) /\ tx = Payment(FanTxs(p, 0)[k], n, Lot(p, h), p.batch > 1)
    BY <1>2, <1>3, <1>5, PlacesAre
  <2> DEFINE fan == FanTxs(p, 0)[k]
  <2>2. fan.kind = "fan" /\ fan.fund = 0 /\ fan.k = k /\ Change(fan) = LotsOnFan(p, k)
    BY <1>2, FanSpends
  <2>3. Spends(tx) = Out(fan, n)
    BY <2>1, PaymentSpends
  <2> HIDE DEF fan
  <2>4. fan \in M
    BY <2>2, <2>3 DEF SpentOnce, Out
  <2>5. k \in 1 .. FanCount(o) /\ fan = FanTxs(o, 0)[k]
    BY <1>5, <2>2, <2>4, OneChain
  <2>6. Change(fan) = LotsOnFan(o, k)
    BY <1>2, <2>5, FanSpends
  <2>7. n \in 0 .. LotsOnFan(o, k) - 1
    <3>1. LotsOnFan(o, k) \in 1 .. FanWidth(o) /\ FanWidth(o) \in Nat /\ FanWidth(p) \in Nat
      BY <1>2, <2>5, FansAre
    <3> QED
      BY <2>1, <2>2, <2>6, <3>1
  <2>8. PICK g \in 1 .. LotCount(o) : Payments(o, 0)[g] = Payment(FanTxs(o, 0)[k], n, Lot(o, g), o.batch > 1)
    BY <1>2, <2>5, <2>7, PlacesAre
  <2>9. Spends(Payments(o, 0)[g]) = Out(fan, n)
    BY <2>5, <2>8, PaymentSpends
  <2>10. Payments(o, 0)[g] \in M
    BY <1>2, <1>5, OfARun
  <2>11. tx = Payments(o, 0)[g]
    BY <2>3, <2>9, <2>10 DEF SpentOnce
  <2> QED
    BY <1>5, <2>11
<1> QED
  BY <1>4, <1>5

\* Nor another anchor, whose first would spend from another last fan-out.
LEMMA OnlyItsAnchors ==
  ASSUME NEW M, SpentOnce(M), NEW f \in Nat, NEW o \in OptionsOf(f), Wanted(o, f, NodeOf(f)) \subseteq M,
         NEW tx \in M, tx.kind = "anchor", tx.fund = f
  PROVE  \E k \in 1 .. Minutes(o) : tx = AnchorBatches(o, f, NodeOf(f))[k]
<1>1. PICK p \in OptionsOf(f) : tx \in TxsOf(p, f)
  BY BuiltIs DEF SpentOnce
<1>2. IsChoice(p) /\ IsChoice(o)
  BY ChoiceIs
<1>3. PICK h \in 1 .. Minutes(p) : tx = AnchorBatches(p, f, NodeOf(f))[h]
  BY <1>1, <1>2, KindsAre
<1>4. CASE f # 0
  BY <1>3, <1>4 DEF OptionsOf
<1>5. CASE f = 0
  <2> DEFINE A(j) == AnchorBatches(p, 0, NodeOf(0))[j]
             S == {j \in 1 .. h : A(j) \in M}
             last == FanTxs(p, 0)[FanCount(p)]
             C == FanCount(p)
  <2>0. C \in Nat \ {0} /\ C \in 1 .. C /\ h \in Nat \ {0} /\ Minutes(p) \in Nat /\ FanCount(o) \in Nat \ {0}
    BY <1>2, FansAre, MinutesAre
  <2>1. h \in S /\ S \subseteq 0 .. h
    BY <1>3, <1>5, <2>0
  <2>2. \A j \in S : j \in 1 .. h /\ A(j) \in M
    OBVIOUS
  <2>3. \A j \in 1 .. h : A(j) \in M => j \in S
    OBVIOUS
  <2>4. \A j \in 1 .. h : /\ A(j).kind = "anchor"
                          /\ Spends(A(j)) = IF j = 1 THEN AnchorFund(p, 0, NodeOf(0)) ELSE Out(A(j - 1), 1)
    <3>1. \A j \in 1 .. h : j \in 1 .. Minutes(p)
      BY <2>0
    <3> QED
      BY <1>2, <3>1, AnchorSpends
  <2>5. AnchorFund(p, 0, NodeOf(0)) = Out(last, Change(last))
    BY DEF AnchorFund, NodeOf
  <2>6. last.kind = "fan" /\ last.fund = 0 /\ last.k = C
    BY <1>2, <2>0, FanSpends
  <2> HIDE DEF S, A, last
  <2>7. PICK m \in S : \A j \in S : m <= j
    BY <2>0, <2>1, FirstIsThere
  <2>8. m = 1
    <3> SUFFICES ASSUME m # 1 PROVE FALSE
      OBVIOUS
    <3>1. m - 1 \in 1 .. h /\ m \in 1 .. h
      BY <2>0, <2>2
    <3>2. A(m).kind = "anchor" /\ Spends(A(m)) = Out(A(m - 1), 1) /\ A(m - 1).kind = "anchor"
      BY <2>4, <3>1
    <3>3. Spends(A(m)).of = A(m - 1)
      BY <3>2 DEF Out
    <3>4. A(m - 1) \in M
      BY <2>2, <3>2, <3>3 DEF SpentOnce
    <3>5. m - 1 \in S
      BY <2>3, <3>1, <3>4
    <3> QED
      BY <2>7, <3>1, <3>5
  <2>9. A(1) \in M /\ A(1).kind = "anchor" /\ Spends(A(1)) = Out(last, Change(last))
    BY <2>0, <2>2, <2>4, <2>5, <2>8
  <2>10. Spends(A(1)).of = last
    BY <2>9 DEF Out
  <2>11. last \in M
    BY <2>6, <2>9, <2>10 DEF SpentOnce
  <2> HIDE DEF C
  <2>12. C \in 1 .. FanCount(o) /\ last = FanTxs(o, 0)[C]
    BY <1>5, <2>6, <2>11, OneChain
  <2>13. C = FanCount(o)
    <3> SUFFICES ASSUME C # FanCount(o) PROVE FALSE
      OBVIOUS
    <3> DEFINE j == C + 1
    <3>1. C < FanCount(o) /\ j \in 1 .. FanCount(o) /\ j # 1 /\ j - 1 = C
      BY <2>0, <2>12
    <3> HIDE DEF j
    <3>2. last = FullFan(0, C)
      BY <1>2, <2>12, <3>1, FollowedIsFull
    <3>3. Change(last) = PerFan
      BY <3>2, ChainAssumption DEF Change, FullFan, Fan
    <3> DEFINE next == FanTxs(o, 0)[j]
    <3>4. next \in M
      BY <1>5, <3>1, OneChain
    <3>5. next.kind = "fan" /\ Spends(next) = Out(FullFan(0, C), PerFan)
      BY <1>2, <3>1, FanSpends
    <3> HIDE DEF next
    <3>6. next = A(1)
      BY <2>9, <3>2, <3>3, <3>4, <3>5 DEF SpentOnce
    <3> QED
      BY <2>9, <3>5, <3>6
  <2>14. FanTxs(o, 0)[FanCount(o)] = FanTxs(p, 0)[FanCount(p)]
    BY <2>12, <2>13 DEF last, C
  <2>15. o.limit = p.limit
    BY <1>2, <2>14, SameLastSameLimit
  <2>16. AnchorBatches(p, 0, NodeOf(0)) = AnchorBatches(o, 0, NodeOf(0)) /\ Minutes(o) = Minutes(p)
    BY <2>14, <2>15 DEF AnchorBatches, Minutes, AnchorFund
  <2> QED
    BY <1>3, <1>5, <2>16
<1> QED
  BY <1>4, <1>5

\* The records of a run are each paid and anchored once by what is there.
OnceIn(M, f, o) ==
  \A r \in 1 .. o.limit :
    /\ Cardinality({tx \in {t \in M : t.fund = f /\ t.kind = "payment"} : r \in tx.lot}) = 1
    /\ Cardinality({tx \in {t \in M : t.fund = f /\ t.kind = "anchor"} : r \in Last(tx.roots)}) = 1

\* So each record is paid and anchored once.
LEMMA WantedIsOnce ==
  ASSUME NEW M, SpentOnce(M), NEW f \in Nat, NEW o \in OptionsOf(f), Wanted(o, f, NodeOf(f)) \subseteq M
  PROVE  OnceIn(M, f, o)
<1>0. IsChoice(o)
  BY ChoiceIs
<1>1. SUFFICES ASSUME NEW r \in 1 .. o.limit
      PROVE  /\ Cardinality({tx \in {t \in M : t.fund = f /\ t.kind = "payment"} : r \in tx.lot}) = 1
             /\ Cardinality({tx \in {t \in M : t.fund = f /\ t.kind = "anchor"} : r \in Last(tx.roots)}) = 1
  BY DEF OnceIn
<1>2. ASSUME NEW g \in 1 .. LotCount(o)
      PROVE  /\ Payments(o, f)[g].kind = "payment" /\ Payments(o, f)[g].fund = f
             /\ Payments(o, f)[g].lot = Lot(o, g)
  <2>1. PICK k \in 1 .. FanCount(o), n \in 0 .. FanWidth(o) - 1 :
          Payments(o, f)[g] = Payment(FanTxs(o, f)[k], n, Lot(o, g), o.batch > 1)
    BY <1>0, PlacesAre
  <2>2. FanTxs(o, f)[k].fund = f
    BY <1>0, FanSpends
  <2> QED
    BY <2>1, <2>2, PaymentSpends
<1>3. PICK g \in 1 .. LotCount(o) : r \in Lot(o, g) /\ \A h \in 1 .. LotCount(o) : r \in Lot(o, h) => h = g
  BY <1>0, LotsPartition
<1>4. {tx \in {t \in M : t.fund = f /\ t.kind = "payment"} : r \in tx.lot} = {Payments(o, f)[g]}
  <2>1. Payments(o, f)[g] \in M
    BY <1>0, OfARun
  <2>2. ASSUME NEW tx \in M, tx.fund = f, tx.kind = "payment", r \in tx.lot PROVE tx = Payments(o, f)[g]
    <3>1. PICK h \in 1 .. LotCount(o) : tx = Payments(o, f)[h]
      BY <2>2, OnlyItsPayments
    <3> QED
      BY <1>2, <1>3, <2>2, <3>1
  <2> QED
    BY <1>2, <1>3, <2>1, <2>2
<1> DEFINE k == FlightReceipts[r]
           anchor(j) == AnchorBatches(o, f, NodeOf(f))[j]
<1>5. k \in 1 .. Minutes(o)
  BY <1>0, MinutesAre
<1>6. \A j \in 1 .. Minutes(o) :
        /\ anchor(j).kind = "anchor" /\ anchor(j).fund = f /\ anchor(j) \in M
        /\ r \in Last(anchor(j).roots) <=> j = k
  BY <1>0, AnchorSpends, OfARun DEF RecordsOf
<1>7. {tx \in {t \in M : t.fund = f /\ t.kind = "anchor"} : r \in Last(tx.roots)} = {anchor(k)}
  <2>1. ASSUME NEW tx \in M, tx.fund = f, tx.kind = "anchor", r \in Last(tx.roots) PROVE tx = anchor(k)
    <3>0. \E j \in 1 .. Minutes(o) : tx = AnchorBatches(o, f, NodeOf(f))[j]
      BY <2>1, OnlyItsAnchors
    <3>1. PICK j \in 1 .. Minutes(o) : tx = anchor(j)
      BY <3>0
    <3> HIDE DEF anchor, k
    <3> QED
      BY <1>6, <2>1, <3>1
  <2> HIDE DEF anchor, k
  <2> QED
    BY <1>5, <1>6, <2>1
<1> QED
  BY <1>4, <1>7, FS_Singleton

-----------------------------------------------------------------------------
(* The transactions of a run spend apart.                                  *)

\* Fundings do not mix.
LEMMA SpendsAreOfTheFunding ==
  ASSUME NEW tx, Built(tx)
  PROVE  Spends(tx).of.fund = tx.fund
<1>1a. PICK f \in Nat : \E o \in OptionsOf(f) : tx \in TxsOf(o, f)
  BY DEF Built
<1>1. PICK o \in OptionsOf(f) : tx \in TxsOf(o, f)
  BY <1>1a
<1>2. IsChoice(o)
  BY ChoiceIs
<1>3. tx.fund = f /\ tx.kind \in {"fan", "payment", "anchor"}
  BY <1>1, <1>2, KindsAre
<1>4. CASE tx.kind = "fan"
  <2>1. PICK k \in 1 .. FanCount(o) : tx = FanTxs(o, f)[k]
    BY <1>1, <1>2, <1>4, KindsAre
  <2>2. Spends(tx) = Coin(f, 0) \/ Spends(tx) = Out(FullFan(f, k - 1), PerFan)
    BY <1>2, <2>1, FanSpends
  <2> QED
    BY <1>3, <2>2 DEF Coin, Out, FullFan, Fan
<1>5. CASE tx.kind = "payment"
  <2>1. PICK g \in 1 .. LotCount(o) : tx = Payments(o, f)[g]
    BY <1>1, <1>2, <1>5, KindsAre
  <2>2. PICK k \in 1 .. FanCount(o), n \in 0 .. FanWidth(o) - 1 :
          tx = Payment(FanTxs(o, f)[k], n, Lot(o, g), o.batch > 1)
    BY <1>2, <2>1, PlacesAre
  <2>3. Spends(tx) = Out(FanTxs(o, f)[k], n) /\ FanTxs(o, f)[k].fund = f
    BY <1>2, <2>2, PaymentSpends, FanSpends
  <2> QED
    BY <1>3, <2>3 DEF Out
<1>6. CASE tx.kind = "anchor"
  <2>1. PICK k \in 1 .. Minutes(o) : tx = AnchorBatches(o, f, NodeOf(f))[k]
    BY <1>1, <1>2, <1>6, KindsAre
  <2>2. k \in Nat \ {0} /\ Minutes(o) \in Nat /\ FanCount(o) \in 1 .. FanCount(o)
    BY <1>2, MinutesAre, FansAre
  <2>3. CASE k = 1
    <3>1. Spends(tx) = AnchorFund(o, f, NodeOf(f))
      BY <1>2, <2>1, <2>3, AnchorSpends
    <3>2. FanTxs(o, f)[FanCount(o)].fund = f
      BY <1>2, <2>2, FanSpends
    <3> QED
      BY <1>3, <3>1, <3>2 DEF AnchorFund, Coin, Out
  <2>4. CASE k # 1
    <3>1. k - 1 \in 1 .. Minutes(o)
      BY <2>2, <2>4
    <3>2. AnchorBatches(o, f, NodeOf(f))[k - 1].fund = f
      BY <1>2, <3>1, AnchorSpends
    <3>3. Spends(tx) = Out(AnchorBatches(o, f, NodeOf(f))[k - 1], 1)
      BY <1>2, <2>1, <2>4, AnchorSpends
    <3> QED
      BY <1>3, <3>2, <3>3 DEF Out
  <2> QED
    BY <2>3, <2>4
<1> QED
  BY <1>3, <1>4, <1>5, <1>6

\* An output: a place of the run, the change of a fan-out or of an anchor.
LEMMA SpendsDiffer ==
  ASSUME NEW o \in PayOptions, NEW s \in TxsOf(o, 0), NEW t \in TxsOf(o, 0), Spends(s) = Spends(t)
  PROVE  s = t
<1> DEFINE F(k) == FanTxs(o, 0)[k]
           P(g) == Payments(o, 0)[g]
           A(k) == AnchorBatches(o, 0, NodeOf(0))[k]
           C == FanCount(o)
           L == LotCount(o)
           W == FanWidth(o)
           M == Minutes(o)
           w(k) == LotsOnFan(o, k)
<1>0. /\ IsChoice(o) /\ C \in Nat \ {0} /\ M \in Nat \ {0} /\ W \in Nat \ {0} /\ L \in Nat \ {0}
      /\ \A k \in 1 .. C : w(k) \in 1 .. W /\ (k < C => w(k) = W)
  BY ChoicesAre, FansAre, MinutesAre, LotsAre
<1>1. \A k \in 1 .. C : /\ F(k).kind = "fan" /\ F(k).k = k
                         /\ Spends(F(k)) = IF k = 1 THEN Coin(0, 0) ELSE Out(F(k - 1), w(k - 1))
  <2> SUFFICES ASSUME NEW k \in 1 .. C
               PROVE  /\ F(k).kind = "fan" /\ F(k).k = k
                      /\ Spends(F(k)) = IF k = 1 THEN Coin(0, 0) ELSE Out(F(k - 1), w(k - 1))
    OBVIOUS
  <2>1. F(k).kind = "fan" /\ F(k).k = k
        /\ Spends(F(k)) = IF k = 1 THEN Coin(0, 0) ELSE Out(FullFan(0, k - 1), PerFan)
    BY <1>0, FanSpends
  <2>2. ASSUME k # 1 PROVE FullFan(0, k - 1) = F(k - 1) /\ w(k - 1) = PerFan
    <3>1. k - 1 \in 1 .. C /\ k - 1 < C /\ C # 1
      BY <1>0, <2>2
    <3>2. FullFan(0, k - 1) = F(k - 1)
      BY <1>0, <3>1, FollowedIsFull
    <3>3. w(k - 1) = W
      BY <1>0, <3>1
    <3>4. W = PerFan
      <4>1. o.batch \in Nat \ {0}
        BY <1>0 DEF IsChoice
      <4>2. (o.batch > 1 => C = 1) /\ (o.batch = 1 => W = PerFan)
        BY <1>0, FansAre
      <4> QED
        BY <3>1, <4>1, <4>2
    <3> QED
      BY <3>2, <3>3, <3>4
  <2> QED
    BY <2>1, <2>2
<1>2. \A g \in 1 .. L : /\ P(g).kind = "payment"
                         /\ \E k \in 1 .. C, n \in Nat : /\ n < w(k) /\ g = (k - 1) * W + n + 1
                                                         /\ Spends(P(g)) = Out(F(k), n)
  <2> SUFFICES ASSUME NEW g \in 1 .. L
               PROVE  /\ P(g).kind = "payment"
                      /\ \E k \in 1 .. C, n \in Nat : /\ n < w(k) /\ g = (k - 1) * W + n + 1
                                                      /\ Spends(P(g)) = Out(F(k), n)
    OBVIOUS
  <2>1. PICK k \in 1 .. C, n \in 0 .. W - 1 :
          n < w(k) /\ g = (k - 1) * W + n + 1 /\ P(g) = Payment(F(k), n, Lot(o, g), o.batch > 1)
    BY <1>0, PlacesAre
  <2>2. P(g).kind = "payment" /\ Spends(P(g)) = Out(F(k), n)
    BY <2>1, PaymentSpends
  <2>3. n \in Nat
    BY <1>0
  <2> QED
    BY <2>1, <2>2, <2>3
<1>3. \A k \in 1 .. M : /\ A(k).kind = "anchor" /\ Len(A(k).roots) = k
                         /\ Spends(A(k)) = IF k = 1 THEN Out(F(C), w(C)) ELSE Out(A(k - 1), 1)
  <2> SUFFICES ASSUME NEW k \in 1 .. M
               PROVE  /\ A(k).kind = "anchor" /\ Len(A(k).roots) = k
                      /\ Spends(A(k)) = IF k = 1 THEN Out(F(C), w(C)) ELSE Out(A(k - 1), 1)
    OBVIOUS
  <2>1. C \in 1 .. C
    BY <1>0
  <2>2. Change(F(C)) = w(C)
    BY <1>0, <2>1, FanSpends
  <2>3. AnchorFund(o, 0, NodeOf(0)) = Out(F(C), w(C))
    BY <2>2 DEF AnchorFund, NodeOf
  <2>4. A(k) = Anchor(0, AnchorFund(o, 0, NodeOf(0)), Roots(o, k)) /\ Len(Roots(o, k)) = k
    BY <1>0, AnchorIs
  <2>5. Len(A(k).roots) = k
    BY <2>4 DEF Anchor
  <2>6. A(k).kind = "anchor" /\ Spends(A(k)) = IF k = 1 THEN AnchorFund(o, 0, NodeOf(0)) ELSE Out(A(k - 1), 1)
    BY <1>0, AnchorSpends
  <2> QED
    BY <2>3, <2>5, <2>6
<1>4. \A tx \in TxsOf(o, 0) : \/ \E k \in 1 .. C : tx = F(k)
                              \/ \E g \in 1 .. L : tx = P(g)
                              \/ \E k \in 1 .. M : tx = A(k)
  BY <1>0, OfARun DEF TxsOf
<1>5. \A x, y, m, n : Out(x, m) = Out(y, n) => x = y /\ m = n
  BY DEF Out
<1>6. \A x, n : x.kind # "funding" => Coin(0, 0) # Out(x, n)
  BY DEF Coin, Out
<1> HIDE DEF F, P, A, C, L, W, M, w
<1>7. ASSUME NEW k \in 1 .. C, NEW j \in 1 .. C, Spends(F(k)) = Spends(F(j)) PROVE k = j
  <2>1. CASE k = 1 \/ j = 1
    BY <1>0, <1>1, <1>6, <1>7, <2>1
  <2>2. CASE k # 1 /\ j # 1
    <3>1. k - 1 \in 1 .. C /\ j - 1 \in 1 .. C
      BY <1>0, <2>2
    <3>2. F(k - 1) = F(j - 1)
      BY <1>1, <1>5, <1>7, <2>2
    <3>3. k - 1 = j - 1
      BY <1>1, <3>1, <3>2
    <3> QED
      BY <1>0, <3>3
  <2> QED
    BY <2>1, <2>2
<1>8. ASSUME NEW k \in 1 .. C, NEW g \in 1 .. L, Spends(F(k)) = Spends(P(g)) PROVE FALSE
  <2>1. PICK j \in 1 .. C, n \in Nat : n < w(j) /\ Spends(P(g)) = Out(F(j), n)
    BY <1>2
  <2>2. k # 1
    BY <1>1, <1>6, <1>8, <2>1
  <2>3. F(k - 1) = F(j) /\ w(k - 1) = n
    BY <1>1, <1>5, <1>8, <2>1, <2>2
  <2>4. k - 1 \in 1 .. C
    BY <1>0, <2>2
  <2>5. k - 1 = j
    BY <1>1, <2>3, <2>4
  <2> QED
    BY <2>1, <2>3, <2>5
<1>9. ASSUME NEW k \in 1 .. C, NEW j \in 1 .. M, Spends(F(k)) = Spends(A(j)) PROVE FALSE
  <2>0. C \in 1 .. C
    BY <1>0
  <2>1. k # 1
    <3>1. j # 1 => j - 1 \in 1 .. M
      BY <1>0
    <3> QED
      BY <1>1, <1>3, <1>6, <1>9, <2>0, <3>1
  <2>2. k - 1 \in 1 .. C /\ k - 1 # C
    BY <1>0, <2>1
  <2>3. CASE j = 1
    <3>1. F(k - 1) = F(C)
      BY <1>1, <1>3, <1>5, <1>9, <2>1, <2>3
    <3> QED
      BY <1>1, <2>0, <2>2, <3>1
  <2>4. CASE j # 1
    <3>1. F(k - 1) = A(j - 1)
      BY <1>1, <1>3, <1>5, <1>9, <2>1, <2>4
    <3>2. j - 1 \in 1 .. M
      BY <1>0, <2>4
    <3> QED
      BY <1>1, <1>3, <2>2, <3>1, <3>2
  <2> QED
    BY <2>3, <2>4
<1>10. ASSUME NEW g \in 1 .. L, NEW h \in 1 .. L, Spends(P(g)) = Spends(P(h)) PROVE g = h
  <2>1. PICK k \in 1 .. C, n \in Nat : g = (k - 1) * W + n + 1 /\ Spends(P(g)) = Out(F(k), n)
    BY <1>2
  <2>2. PICK j \in 1 .. C, m \in Nat : h = (j - 1) * W + m + 1 /\ Spends(P(h)) = Out(F(j), m)
    BY <1>2
  <2>3. F(k) = F(j) /\ m = n
    BY <1>5, <1>10, <2>1, <2>2
  <2>4. k = j
    BY <1>1, <2>3
  <2> QED
    BY <2>1, <2>2, <2>3, <2>4
<1>11. ASSUME NEW g \in 1 .. L, NEW j \in 1 .. M, Spends(P(g)) = Spends(A(j)) PROVE FALSE
  <2>1. PICK k \in 1 .. C, n \in Nat : n < w(k) /\ Spends(P(g)) = Out(F(k), n)
    BY <1>2
  <2>2. CASE j = 1
    <3>0. Out(F(k), n) = Out(F(C), w(C))
      BY <1>3, <1>11, <2>1, <2>2
    <3>1. F(k) = F(C) /\ n = w(C)
      BY <1>5, <3>0
    <3>2. C \in 1 .. C
      BY <1>0
    <3>3. k = C
      BY <1>1, <3>1, <3>2
    <3> QED
      BY <2>1, <3>1, <3>3
  <2>3. CASE j # 1
    <3>0. Out(F(k), n) = Out(A(j - 1), 1)
      BY <1>3, <1>11, <2>1, <2>3
    <3>1. F(k) = A(j - 1)
      BY <1>5, <3>0
    <3>2. j - 1 \in 1 .. M
      BY <1>0, <2>3
    <3> QED
      BY <1>1, <1>3, <3>1, <3>2
  <2> QED
    BY <2>2, <2>3
<1>12. ASSUME NEW k \in 1 .. M, NEW j \in 1 .. M, Spends(A(k)) = Spends(A(j)) PROVE k = j
  <2>0. C \in 1 .. C /\ (k # 1 => k - 1 \in 1 .. M) /\ (j # 1 => j - 1 \in 1 .. M)
    BY <1>0
  <2>1. CASE k = 1
    BY <1>1, <1>3, <1>5, <1>12, <2>0, <2>1
  <2>2. CASE j = 1
    BY <1>1, <1>3, <1>5, <1>12, <2>0, <2>2
  <2>3. CASE k # 1 /\ j # 1
    <3>1. A(k - 1) = A(j - 1)
      BY <1>3, <1>5, <1>12, <2>3
    <3>2. k - 1 = j - 1
      BY <1>3, <2>0, <2>3, <3>1
    <3> QED
      BY <1>0, <3>2
  <2> QED
    BY <2>1, <2>2, <2>3
<1>13. CASE \E k \in 1 .. C : s = F(k)
  BY <1>4, <1>7, <1>8, <1>9, <1>13
<1>14. CASE \E g \in 1 .. L : s = P(g)
  BY <1>4, <1>8, <1>10, <1>11, <1>14
<1>15. CASE \E k \in 1 .. M : s = A(k)
  BY <1>4, <1>9, <1>11, <1>12, <1>15
<1> QED
  BY <1>4, <1>13, <1>14, <1>15

-----------------------------------------------------------------------------
(* The network and the tool.                                               *)

\* The options of every run, and the transactions one may build.
Options == PayOptions \cup {WholeFlight}
AnyTx == {tx \in UNION {TxsOf(o, f) : o \in Options, f \in Nat} : Built(tx)}

\* The last part of a list, still to be sent.
RestOf(s, all) == Len(s) <= Len(all) /\ \A j \in 1 .. Len(s) : s[j] = all[Len(all) - Len(s) + j]

\* A run, with its lists and with what its options build.
Runs ==
  [pc : {"fans", "pays", "anchors"}, node : {"arcade", "teranode"}, opt : Options, fund : Nat,
   fans : Seq(AnyTx), pays : SUBSET AnyTx, anchors : Seq(AnyTx), rejected : SUBSET AnyTx, pass : Nat]

ARun(t) ==
  /\ t \in Runs
  /\ t.node = NodeOf(t.fund) /\ t.opt \in OptionsOf(t.fund)
  /\ RestOf(t.fans, FanTxs(t.opt, t.fund)) /\ (t.pc = "fans" <=> t.fans # <<>>)
  /\ t.pays \cup {tx \in t.rejected : tx.kind = "payment"} \subseteq ToSet(Payments(t.opt, t.fund))
  /\ t.pc # "anchors" => \A tx \in t.rejected : tx.kind = "payment"
  /\ t.pc = "anchors" => t.pays = {}
  /\ RestOf(t.anchors, AnchorBatches(t.opt, t.fund, t.node))

\* A resend of a saved run.
Resends == [pc : {"resend"}, opt : PayOptions, due : SUBSET AnyTx]

\* The tool is idle, on a run or resending one; a saved run was a broadcaster's.
ChainTypeOK ==
  /\ payRuns \in Nat /\ payFailures \in Nat
  /\ tool = Idle \/ ARun(tool) \/ (tool \in Resends /\ tool.due \subseteq TxsOf(tool.opt, 0))
  /\ saved = NoRecord \/ saved \in [pc : {"saved"}, opt : PayOptions, rejected : SUBSET AnyTx]

\* Mined is what was accepted, and both are whole.
NetworkSound == SpentOnce(pool) /\ SpentOnce(mined) /\ mined \subseteq pool

\* A confirmation speaks of what is mined.
ReportTrue ==
  report # NoRecord =>
    /\ report.fund \in Nat /\ report.opt \in OptionsOf(report.fund)
    /\ Wanted(report.opt, report.fund, NodeOf(report.fund)) \subseteq mined

\* Nothing failed and nothing but the transactions of these options has
\* spent from the funding output of the broadcaster's runs.
Undisturbed(o) == payFailures = 0 /\ \A tx \in pool : tx.fund = 0 => tx \in TxsOf(o, 0)

\* In a run that nothing disturbs every transaction is accepted or still to be sent.
NothingLeftOut ==
  ARun(tool) /\ tool.fund = 0 /\ Undisturbed(tool.opt) =>
    /\ tool.rejected = {}
    /\ TxsOf(tool.opt, 0) \subseteq pool \cup ToSet(tool.fans) \cup tool.pays \cup ToSet(tool.anchors)

\* And such a run saves that nothing was rejected.
SavedClean == saved # NoRecord /\ Undisturbed(saved.opt) => saved.rejected = {}

\* The inductive invariant.
ChainInvariant == ChainTypeOK /\ NetworkSound /\ ReportTrue /\ NothingLeftOut /\ SavedClean

\* The invariant is strong enough.
LEMMA ChainSafe == ChainInvariant => PaidOnChain
<1>1. ASSUME ChainInvariant PROVE EachPaidOnce
  <2>1. SUFFICES ASSUME report # NoRecord
                 PROVE  OnceIn(mined, report.fund, report.opt)
    BY DEF EachPaidOnce, OnceIn
  <2>2. /\ SpentOnce(mined) /\ report.fund \in Nat /\ report.opt \in OptionsOf(report.fund)
        /\ Wanted(report.opt, report.fund, NodeOf(report.fund)) \subseteq mined
    BY <1>1, <2>1 DEF ChainInvariant, NetworkSound, ReportTrue
  <2> QED
    BY <2>2, WantedIsOnce
<1>2. ASSUME ChainInvariant PROVE NothingRefused
  <2>1. SUFFICES ASSUME saved # NoRecord, payFailures = 0,
                        pool \subseteq ToSet(AllTxs(saved.opt, 0, "arcade")) \cup {tx \in pool : tx.fund # 0}
                 PROVE  saved.rejected = {}
    BY DEF NothingRefused
  <2>2. Undisturbed(saved.opt)
    BY <2>1 DEF Undisturbed, TxsOf, NodeOf
  <2> QED
    BY <1>2, <2>1, <2>2 DEF ChainInvariant, SavedClean
<1> QED
  BY <1>1, <1>2 DEF PaidOnChain

\* It holds at the start.
LEMMA ChainStart == PayInit => ChainInvariant
<1> SUFFICES ASSUME PayInit PROVE ChainInvariant
  OBVIOUS
<1>1. ChainTypeOK
  BY DEF PayInit, ChainTypeOK
<1>2. NetworkSound /\ ReportTrue /\ SavedClean
  BY DEF PayInit, NetworkSound, ReportTrue, SavedClean, SpentOnce
<1>3. ~ARun(tool)
  BY DEF PayInit, ARun, Runs, Idle
<1> QED
  BY <1>1, <1>2, <1>3 DEF ChainInvariant, NothingLeftOut

-----------------------------------------------------------------------------
(* A transaction sent.                                                     *)

\* A call leaves the network sound, and what is acceptable fails only by a fault.
LEMMA SubmitKeeps ==
  ASSUME NetworkSound, payFailures \in Nat, NEW tx, Built(tx), NEW ok \in BOOLEAN, Submit(tx, ok), mined' = mined
  PROVE  /\ NetworkSound' /\ pool \subseteq pool' /\ pool' \subseteq pool \cup {tx} /\ (ok => tx \in pool')
         /\ payFailures' \in Nat /\ (payFailures' = 0 => payFailures = 0)
         /\ (payFailures' = 0 /\ Acceptable(tx) => ok)
<1>1. /\ pool \subseteq pool' /\ pool' \subseteq pool \cup {tx} /\ (ok => tx \in pool')
      /\ payFailures' \in Nat /\ (payFailures' = 0 => payFailures = 0)
      /\ (payFailures' = 0 /\ Acceptable(tx) => ok)
      /\ pool' = pool \/ (Acceptable(tx) /\ pool' = pool \cup {tx})
  BY DEF Submit
<1>2. CASE pool' = pool
  BY <1>1, <1>2 DEF NetworkSound, SpentOnce
<1>3. CASE Acceptable(tx) /\ pool' = pool \cup {tx}
  <2>1. CASE tx \in pool
    BY <1>1, <1>3, <2>1 DEF NetworkSound, SpentOnce
  <2>2. CASE tx \notin pool
    <3>1. /\ Spends(tx).of.kind # "funding" => Spends(tx).of \in pool
          /\ \A other \in pool : Spends(other) # Spends(tx)
      BY <1>3, <2>2 DEF Acceptable
    <3>2. SpentOnce(pool \cup {tx})
      <4>1. \A t \in pool \cup {tx} : Built(t)
        BY DEF NetworkSound, SpentOnce
      <4>2. \A t \in pool \cup {tx} : Spends(t).of.kind # "funding" => Spends(t).of \in pool \cup {tx}
        BY <3>1 DEF NetworkSound, SpentOnce
      <4>3. \A s, t \in pool \cup {tx} : Spends(s) = Spends(t) => s = t
        BY <3>1 DEF NetworkSound, SpentOnce
      <4> QED
        BY <4>1, <4>2, <4>3 DEF SpentOnce
    <3> QED
      BY <1>1, <1>3, <3>2 DEF NetworkSound
  <2> QED
    BY <2>1, <2>2
<1> QED
  BY <1>1, <1>2, <1>3

\* What was undisturbed after a step was undisturbed before it.
LEMMA SavedStays ==
  ASSUME SavedClean, payFailures \in Nat, payFailures' = 0 => payFailures = 0,
         payFailures' = 0 => pool \subseteq pool', saved' = saved
  PROVE  SavedClean'
<1> SUFFICES ASSUME saved # NoRecord, Undisturbed(saved.opt)' PROVE saved.rejected = {}
  BY DEF SavedClean
<1>1. payFailures' = 0 /\ payFailures = 0 /\ pool \subseteq pool'
  BY DEF Undisturbed
<1>2. Undisturbed(saved.opt)
  BY <1>1 DEF Undisturbed
<1> QED
  BY <1>2 DEF SavedClean

\* What some run builds, as a set.
LEMMA BuiltIsAny == \A tx : Built(tx) <=> tx \in AnyTx
<1> SUFFICES ASSUME NEW tx, Built(tx) PROVE tx \in AnyTx
  BY DEF AnyTx
<1>1. PICK f \in Nat : \E o \in OptionsOf(f) : tx \in TxsOf(o, f)
  BY DEF Built
<1>2. PICK o \in OptionsOf(f) : tx \in TxsOf(o, f)
  BY <1>1
<1>3. o \in Options
  BY DEF OptionsOf, Options
<1> QED
  BY <1>2, <1>3 DEF AnyTx

\* The lists of a run are lists of such transactions.
LEMMA RunIsBuilt ==
  ASSUME NEW f \in Nat, NEW o \in OptionsOf(f)
  PROVE  /\ TxsOf(o, f) \subseteq AnyTx
         /\ TxsOf(o, f) = ToSet(FanTxs(o, f)) \cup ToSet(Payments(o, f)) \cup ToSet(AnchorBatches(o, f, NodeOf(f)))
         /\ FanTxs(o, f) \in Seq(AnyTx) /\ Len(FanTxs(o, f)) = FanCount(o)
         /\ AnchorBatches(o, f, NodeOf(f)) \in Seq(AnyTx) /\ Len(AnchorBatches(o, f, NodeOf(f))) = Minutes(o)
         /\ ToSet(Payments(o, f)) \subseteq AnyTx
<1> DEFINE F == FanTxs(o, f)
           A == AnchorBatches(o, f, NodeOf(f))
           P == Payments(o, f)
<1>0. IsChoice(o) /\ FanCount(o) \in Nat /\ Minutes(o) \in Nat
  BY ChoiceIs, FansAre, MinutesAre
<1>1. /\ DOMAIN F = 1 .. FanCount(o) /\ DOMAIN P = 1 .. LotCount(o) /\ DOMAIN A = 1 .. Minutes(o)
      /\ F = [k \in 1 .. FanCount(o) |-> F[k]] /\ A = [k \in 1 .. Minutes(o) |-> A[k]]
  BY DEF FanTxs, Payments, AnchorBatches
<1>2. TxsOf(o, f) = {F[k] : k \in 1 .. FanCount(o)} \cup {P[g] : g \in 1 .. LotCount(o)}
                    \cup {A[k] : k \in 1 .. Minutes(o)}
  BY <1>0, OfARun DEF TxsOf
<1>3. TxsOf(o, f) \subseteq AnyTx
  BY BuiltIsAny DEF Built
<1> HIDE DEF F, A, P
<1>4. TxsOf(o, f) = ToSet(F) \cup ToSet(P) \cup ToSet(A)
  BY <1>1, <1>2 DEF ToSet
<1>5. F \in [1 .. FanCount(o) -> AnyTx] /\ A \in [1 .. Minutes(o) -> AnyTx]
  BY <1>1, <1>2, <1>3
<1>6. F \in Seq(AnyTx) /\ Len(F) = FanCount(o) /\ A \in Seq(AnyTx) /\ Len(A) = Minutes(o)
  BY <1>0, <1>5, SeqDef, LenProperties
<1> QED
  BY <1>3, <1>4, <1>6 DEF F, A, P

\* What is left after the first of a list is sent.
LEMMA RestOfTail ==
  ASSUME NEW S, NEW s \in Seq(S), s # <<>>, NEW all, Len(all) \in Nat, RestOf(s, all)
  PROVE  /\ Head(s) = all[Len(all) - Len(s) + 1] /\ Len(all) - Len(s) + 1 \in 1 .. Len(all)
         /\ Head(s) \in S /\ Tail(s) \in Seq(S) /\ RestOf(Tail(s), all)
         /\ ToSet(s) = {Head(s)} \cup ToSet(Tail(s))
         /\ Len(s) = 1 => Tail(s) = <<>>
         /\ Len(s) # 1 => Tail(s) # <<>>
<1> DEFINE t == Tail(s)
<1>1. Len(s) \in Nat \ {0} /\ Len(t) = Len(s) - 1 /\ t \in Seq(S) /\ Head(s) \in S
      /\ Head(s) = s[1] /\ \A j \in 1 .. Len(t) : t[j] = s[j + 1]
  <2>1. Len(s) \in Nat /\ Len(s) # 0
    BY EmptySeq
  <2> QED
    BY <2>1, HeadTailProperties
<1> HIDE DEF t
<1>2. Head(s) = all[Len(all) - Len(s) + 1] /\ Len(all) - Len(s) + 1 \in 1 .. Len(all)
  BY <1>1 DEF RestOf
<1>3. RestOf(t, all)
  <2> SUFFICES ASSUME NEW j \in 1 .. Len(t) PROVE t[j] = all[Len(all) - Len(t) + j]
    BY <1>1 DEF RestOf
  <2> DEFINE i == j + 1
  <2>1. i \in 1 .. Len(s) /\ t[j] = s[i] /\ Len(all) - Len(s) + i = Len(all) - Len(t) + j
    BY <1>1
  <2> HIDE DEF i
  <2> QED
    BY <2>1 DEF RestOf
<1>4. DOMAIN s = 1 .. Len(s) /\ DOMAIN t = 1 .. Len(t)
  BY <1>1, LenProperties
<1>5. ToSet(s) = {Head(s)} \cup ToSet(t)
  <2>1. \A i \in 1 .. Len(s) : i = 1 \/ (i - 1 \in 1 .. Len(t) /\ s[i] = t[i - 1])
    BY <1>1
  <2>2. \A j \in 1 .. Len(t) : j + 1 \in 1 .. Len(s) /\ t[j] = s[j + 1]
    BY <1>1
  <2>3. 1 \in 1 .. Len(s)
    BY <1>1
  <2>4. ToSet(s) = {s[i] : i \in 1 .. Len(s)} /\ ToSet(t) = {t[j] : j \in 1 .. Len(t)}
    BY <1>4 DEF ToSet
  <2> QED
    BY <1>1, <2>1, <2>2, <2>3, <2>4, SMTT(60)
<1>6. (Len(s) = 1 => t = <<>>) /\ (Len(s) # 1 => t # <<>>)
  BY <1>1, EmptySeq
<1> QED
  BY <1>1, <1>2, <1>3, <1>5, <1>6 DEF t

\* What is left of a list is in it, at its end.
LEMMA RestIsIn ==
  ASSUME NEW S, NEW s \in Seq(S), NEW all, Len(all) \in Nat, RestOf(s, all)
  PROVE  /\ Len(s) \in 0 .. Len(all)
         /\ \A t \in ToSet(s) : \E i \in Len(all) - Len(s) + 1 .. Len(all) : t = all[i]
<1>1. Len(s) \in 0 .. Len(all) /\ DOMAIN s = 1 .. Len(s)
  BY LenProperties DEF RestOf
<1>2. ToSet(s) = {s[j] : j \in 1 .. Len(s)}
  BY <1>1 DEF ToSet
<1>3. \A j \in 1 .. Len(s) : /\ s[j] = all[Len(all) - Len(s) + j]
                              /\ Len(all) - Len(s) + j \in Len(all) - Len(s) + 1 .. Len(all)
  BY <1>1 DEF RestOf
<1> QED
  BY <1>1, <1>2, <1>3

\* What is still to be sent of a run, by kinds.
LEMMA KindsOfRest ==
  ASSUME ARun(tool), NEW f \in Nat, f = tool.fund, NEW o \in OptionsOf(f), o = tool.opt
  PROVE  /\ Len(tool.fans) \in 0 .. FanCount(o) /\ Len(tool.anchors) \in 0 .. Minutes(o)
         /\ \A t \in ToSet(tool.fans) : \E i \in FanCount(o) - Len(tool.fans) + 1 .. FanCount(o) : t = FanTxs(o, f)[i]
         /\ \A t \in tool.pays : t.kind = "payment"
         /\ \A t \in ToSet(tool.anchors) :
              \E i \in Minutes(o) - Len(tool.anchors) + 1 .. Minutes(o) : t = AnchorBatches(o, f, NodeOf(f))[i]
<1>0. IsChoice(o) /\ FanCount(o) \in Nat /\ Minutes(o) \in Nat
  BY ChoiceIs, FansAre, MinutesAre
<1>1. Len(FanTxs(o, f)) = FanCount(o) /\ Len(AnchorBatches(o, f, NodeOf(f))) = Minutes(o)
  BY RunIsBuilt
<1>2. tool.fans \in Seq(AnyTx) /\ RestOf(tool.fans, FanTxs(o, f))
  BY DEF ARun, Runs
<1>3. tool.anchors \in Seq(AnyTx) /\ RestOf(tool.anchors, AnchorBatches(o, f, NodeOf(f)))
  BY DEF ARun, Runs
<1>4. tool.pays \subseteq ToSet(Payments(o, f))
  BY DEF ARun
<1>5. \A t \in ToSet(Payments(o, f)) : t.kind = "payment"
  <2>1. \A g \in 1 .. LotCount(o) : Payments(o, f)[g].kind = "payment"
    BY DEF Payments, Payment
  <2>2. DOMAIN Payments(o, f) = 1 .. LotCount(o)
    BY DEF Payments
  <2> HIDE DEF Payments
  <2> QED
    BY <2>1, <2>2 DEF ToSet
<1>6. /\ Len(tool.fans) \in 0 .. FanCount(o)
      /\ \A t \in ToSet(tool.fans) : \E i \in FanCount(o) - Len(tool.fans) + 1 .. FanCount(o) : t = FanTxs(o, f)[i]
  BY <1>0, <1>1, <1>2, RestIsIn, SMTT(60)
<1>7. /\ Len(tool.anchors) \in 0 .. Minutes(o)
      /\ \A t \in ToSet(tool.anchors) :
           \E i \in Minutes(o) - Len(tool.anchors) + 1 .. Minutes(o) : t = AnchorBatches(o, f, NodeOf(f))[i]
  BY <1>0, <1>1, <1>3, RestIsIn, SMTT(60)
<1> QED
  BY <1>4, <1>5, <1>6, <1>7

\* Undisturbed, nothing else spends what a transaction of the run spends.
LEMMA NoOtherSpends ==
  ASSUME NetworkSound, NEW o \in PayOptions, Undisturbed(o), NEW tx \in TxsOf(o, 0), tx \notin pool
  PROVE  \A other \in pool : Spends(other) # Spends(tx)
<1> SUFFICES ASSUME NEW other \in pool, Spends(other) = Spends(tx) PROVE FALSE
  OBVIOUS
<1>1. Built(other) /\ Built(tx)
  BY DEF NetworkSound, SpentOnce, Built, OptionsOf
<1>2. tx.fund = 0
  BY ChoicesAre, KindsAre
<1>3. other.fund = 0
  BY <1>1, <1>2, SpendsAreOfTheFunding
<1>4. other \in TxsOf(o, 0)
  BY <1>3 DEF Undisturbed
<1> QED
  BY <1>4, SpendsDiffer

\* A fan-out that is not to be sent any more has been accepted.
LEMMA EarlierFanIsThere ==
  ASSUME NothingLeftOut, ARun(tool), tool.fund = 0, Undisturbed(tool.opt),
         NEW o \in OptionsOf(0), o = tool.opt, NEW j \in 1 .. FanCount(o), j <= FanCount(o) - Len(tool.fans)
  PROVE  FanTxs(o, 0)[j] \in pool
<1>0. IsChoice(o) /\ FanCount(o) \in Nat /\ 0 \in Nat /\ Minutes(o) \in Nat
  BY ChoiceIs, FansAre, MinutesAre
<1>1. FanTxs(o, 0)[j].k = j /\ FanTxs(o, 0)[j].kind = "fan"
  BY <1>0, FanSpends
<1>2. FanTxs(o, 0)[j] \notin ToSet(tool.fans)
  <2> SUFFICES ASSUME FanTxs(o, 0)[j] \in ToSet(tool.fans) PROVE FALSE
    OBVIOUS
  <2>1. PICK i \in FanCount(o) - Len(tool.fans) + 1 .. FanCount(o) : FanTxs(o, 0)[j] = FanTxs(o, 0)[i]
    BY <1>0, KindsOfRest, SMTT(60)
  <2>2. i \in 1 .. FanCount(o) /\ i # j
    BY <1>0, KindsOfRest
  <2>3. FanTxs(o, 0)[i].k = i
    BY <1>0, <2>2, FanSpends
  <2> QED
    BY <1>1, <2>1, <2>2, <2>3
<1>3. FanTxs(o, 0)[j] \notin tool.pays
  BY <1>0, <1>1, KindsOfRest
<1>4. FanTxs(o, 0)[j] \notin ToSet(tool.anchors)
  <2> SUFFICES ASSUME FanTxs(o, 0)[j] \in ToSet(tool.anchors) PROVE FALSE
    OBVIOUS
  <2>1. PICK i \in Minutes(o) - Len(tool.anchors) + 1 .. Minutes(o) :
          FanTxs(o, 0)[j] = AnchorBatches(o, 0, NodeOf(0))[i]
    BY <1>0, KindsOfRest
  <2>2. i \in 1 .. Minutes(o)
    BY <1>0, KindsOfRest
  <2>3. AnchorBatches(o, 0, NodeOf(0))[i].kind = "anchor"
    BY <1>0, <2>2, AnchorSpends
  <2> QED
    BY <1>1, <2>1, <2>3
<1>5. FanTxs(o, 0)[j] \in TxsOf(o, 0)
  BY <1>0, OfARun DEF TxsOf
<1> QED
  BY <1>2, <1>3, <1>4, <1>5 DEF NothingLeftOut

\* A payment after the fan-outs and the next anchor after the payments are
\* accepted of a run that nothing disturbs.
LEMMA PaymentsAcceptable ==
  ASSUME NetworkSound, NothingLeftOut, ARun(tool), tool.pc = "pays", tool.fund = 0, Undisturbed(tool.opt),
         NEW tx \in tool.pays
  PROVE  Acceptable(tx)
<1>1. PICK o : o = tool.opt
  OBVIOUS
<1>2. o \in PayOptions /\ o \in OptionsOf(0) /\ IsChoice(o) /\ Undisturbed(o) /\ 0 \in Nat
  BY <1>1, ChoicesAre DEF ARun, OptionsOf
<1>3. tx \in ToSet(Payments(o, 0)) /\ tool.fans = <<>>
  BY <1>1 DEF ARun
<1>4. tx \in TxsOf(o, 0)
  BY <1>2, <1>3, RunIsBuilt
<1>5. PICK g \in 1 .. LotCount(o) : tx = Payments(o, 0)[g]
  <2>1. DOMAIN Payments(o, 0) = 1 .. LotCount(o)
    BY DEF Payments
  <2> QED
    BY <1>3, <2>1 DEF ToSet
<1>6. PICK k \in 1 .. FanCount(o), n \in 0 .. FanWidth(o) - 1 :
        n < LotsOnFan(o, k) /\ tx = Payment(FanTxs(o, 0)[k], n, Lot(o, g), o.batch > 1)
  BY <1>2, <1>5, PlacesAre
<1>7. Spends(tx) = Out(FanTxs(o, 0)[k], n)
  BY <1>6, PaymentSpends
<1>8. n \in Gives(FanTxs(o, 0)[k])
  <2>1. LotsOnFan(o, k) \in 1 .. FanWidth(o) /\ FanWidth(o) \in Nat /\ Gives(FanTxs(o, 0)[k]) = 0 .. LotsOnFan(o, k)
    BY <1>2, FansAre, FanSpends
  <2> QED
    BY <1>6, <2>1
<1>9. FanTxs(o, 0)[k] \in pool
  <2>1. FanCount(o) \in Nat /\ Len(tool.fans) = 0
    BY <1>2, <1>3, FansAre
  <2>2. k <= FanCount(o) - Len(tool.fans)
    BY <2>1
  <2> QED
    BY <1>1, <1>2, <2>2, EarlierFanIsThere
<1>10. CASE tx \in pool
  BY <1>10 DEF Acceptable
<1>11. CASE tx \notin pool
  BY <1>2, <1>4, <1>7, <1>8, <1>9, <1>11, NoOtherSpends DEF Acceptable, Out
<1> QED
  BY <1>10, <1>11

\* Nor is its next anchor: what it spends from was accepted before it.
LEMMA NextAnchorAcceptable ==
  ASSUME NetworkSound, NothingLeftOut, ARun(tool), tool.pc = "anchors", tool.anchors # <<>>, tool.fund = 0,
         Undisturbed(tool.opt)
  PROVE  Acceptable(Head(tool.anchors))
<1>1. PICK o : o = tool.opt
  OBVIOUS
<1>2. o \in PayOptions /\ o \in OptionsOf(0) /\ IsChoice(o) /\ Undisturbed(o) /\ 0 \in Nat
  BY <1>1, ChoicesAre DEF ARun, OptionsOf
<1>3. PICK s : s = tool.anchors
  OBVIOUS
<1> DEFINE A == AnchorBatches(o, 0, NodeOf(0))
           M == Minutes(o)
           k == M - Len(s) + 1
           C == FanCount(o)
           last == FanTxs(o, 0)[C]
<1>4. s \in Seq(AnyTx) /\ s # <<>> /\ RestOf(s, A) /\ tool.fans = <<>> /\ tool.pays = {}
  BY <1>1, <1>3 DEF ARun, Runs
<1>5. Len(A) = M /\ M \in Nat \ {0} /\ Len(s) \in Nat /\ C \in Nat \ {0}
  BY <1>2, <1>4, RunIsBuilt, MinutesAre, FansAre, LenProperties
<1>6. A[k] = Head(s) /\ k \in 1 .. M
  <2>1. Len(A) \in Nat
    BY <1>5
  <2>2. Head(s) = A[Len(A) - Len(s) + 1] /\ Len(A) - Len(s) + 1 \in 1 .. Len(A)
    BY <1>4, <2>1, RestOfTail
  <2> QED
    BY <1>5, <2>2
<1>7. Spends(A[k]) = IF k = 1 THEN AnchorFund(o, 0, NodeOf(0)) ELSE Out(A[k - 1], 1)
  BY <1>2, <1>6, AnchorSpends
<1>7a. ASSUME NEW i \in 1 .. M
       PROVE  A[i].kind = "anchor" /\ Gives(A[i]) = {1} /\ A[i].roots = Roots(o, i) /\ Len(Roots(o, i)) = i
  <2>1. A[i] = Anchor(0, AnchorFund(o, 0, NodeOf(0)), Roots(o, i)) /\ Len(Roots(o, i)) = i
    BY <1>2, AnchorIs
  <2>2. IsChoice(o) /\ i \in 1 .. Minutes(o)
    BY <1>2
  <2>3. Gives(AnchorBatches(o, 0, NodeOf(0))[i]) = {1}
    BY <2>2, AnchorSpends, SMTT(60)
  <2> QED
    BY <2>1, <2>3 DEF Anchor
<1>8. CASE Head(s) \in pool
  BY <1>3, <1>8 DEF Acceptable
<1>9. CASE Head(s) \notin pool
  <2>1. Head(s) \in TxsOf(o, 0)
    BY <1>2, <1>6, OfARun DEF TxsOf
  <2>2. \A other \in pool : Spends(other) # Spends(Head(s))
    BY <1>2, <1>9, <2>1, NoOtherSpends
  <2>3. CASE k = 1
    <3>1. AnchorFund(o, 0, NodeOf(0)) = Out(last, Change(last))
      BY DEF AnchorFund, NodeOf
    <3>2. C \in 1 .. C /\ C <= C - Len(tool.fans)
      BY <1>4, <1>5
    <3>3. last \in pool
      BY <1>1, <1>2, <3>2, EarlierFanIsThere
    <3>4. Change(last) \in Gives(last)
      <4>1. Change(last) = LotsOnFan(o, C) /\ Gives(last) = 0 .. LotsOnFan(o, C) /\ LotsOnFan(o, C) \in 1 .. FanWidth(o)
        BY <1>2, <3>2, FanSpends, FansAre, SMTT(60)
      <4> QED
        BY <4>1
    <3> HIDE DEF last, A, k
    <3>5. Spends(Head(s)).of = last /\ Spends(Head(s)).n = Change(last)
      BY <1>6, <1>7, <2>3, <3>1 DEF Out
    <3> QED
      BY <1>3, <2>2, <3>3, <3>4, <3>5 DEF Acceptable
  <2>4. CASE k # 1
    <3> DEFINE j == k - 1
    <3>1. j \in 1 .. M /\ j <= M - Len(s)
      BY <1>5, <1>6, <2>4, SMTT(60)
    <3> HIDE DEF j, k
    <3>2. A[j].kind = "anchor" /\ Gives(A[j]) = {1}
      BY <1>7a, <3>1
    <3>3. \A i \in 1 .. M : A[i] = A[j] => i = j
      <4>1. \A i \in 1 .. M : A[i].roots = Roots(o, i) /\ Len(Roots(o, i)) = i
        BY <1>7a
      <4> HIDE DEF A
      <4> QED
        BY <3>1, <4>1
    <3>4. A[j] \notin ToSet(tool.anchors)
      <4> SUFFICES ASSUME A[j] \in ToSet(tool.anchors) PROVE FALSE
        OBVIOUS
      <4>1. PICK i \in M - Len(s) + 1 .. M : A[j] = A[i]
        BY <1>1, <1>2, <1>3, KindsOfRest
      <4>2. Len(s) \in 0 .. M
        BY <1>1, <1>2, <1>3, KindsOfRest
      <4>3. i \in 1 .. M /\ i # j
        BY <1>5, <3>1, <4>2
      <4> QED
        BY <3>3, <4>1, <4>3
    <3>5. A[j] \in TxsOf(o, 0)
      BY <1>2, <3>1, OfARun DEF TxsOf
    <3>6. tool.pays = {} /\ ToSet(tool.fans) = {}
      BY <1>4 DEF ToSet
    <3>7. A[j] \in pool
      BY <1>1, <3>4, <3>5, <3>6 DEF NothingLeftOut
    <3> HIDE DEF A
    <3>8. Spends(Head(s)).of = A[j] /\ Spends(Head(s)).n = 1
      BY <1>6, <1>7, <2>4 DEF Out, j
    <3> QED
      BY <1>3, <2>2, <3>2, <3>7, <3>8 DEF Acceptable
  <2> QED
    BY <2>3, <2>4
<1> QED
  BY <1>8, <1>9

-----------------------------------------------------------------------------
(* Every step keeps the books.                                             *)

\* A run is not idle, nor is it a resend.
LEMMA NoRunIsIdle == ~ARun(Idle) /\ \A t \in Resends : ~ARun(t)
BY DEF ARun, Runs, Idle, Resends

\* What has fan-outs, payments or anchors to send is a run.
LEMMA ToolIsARun ==
  ASSUME ChainTypeOK, tool.pc \in {"fans", "pays", "anchors"}
  PROVE  ARun(tool)
BY DEF ChainTypeOK, Idle, Resends

\* A run starts with all it builds still to be sent.
LEMMA StartRunKeeps ==
  ASSUME ChainInvariant, NEW node \in {"arcade", "teranode"},
         NEW o, o \in IF node = "teranode" THEN {WholeFlight} ELSE PayOptions, StartRun(o, node)
  PROVE  ChainInvariant'
<1>0. /\ payRuns \in Nat /\ payRuns' = payRuns + 1 /\ payFailures' = payFailures /\ payFailures \in Nat
      /\ pool' = pool /\ mined' = mined /\ saved' = saved /\ report' = report
  BY DEF StartRun, ChainInvariant, ChainTypeOK
<1>1. PICK f : f = IF node = "teranode" THEN payRuns + 1 ELSE 0
  OBVIOUS
<1>2. f \in Nat /\ node = NodeOf(f) /\ o \in OptionsOf(f) /\ o \in Options
  BY <1>0, <1>1 DEF NodeOf, OptionsOf, Options
<1>3. tool' = [pc |-> "fans", node |-> node, opt |-> o, fund |-> f, fans |-> FanTxs(o, f),
               pays |-> ToSet(Payments(o, f)), anchors |-> AnchorBatches(o, f, node), rejected |-> {}, pass |-> 0]
  BY <1>1 DEF StartRun
<1>4. /\ FanTxs(o, f) \in Seq(AnyTx) /\ Len(FanTxs(o, f)) = FanCount(o) /\ FanCount(o) \in Nat \ {0}
      /\ AnchorBatches(o, f, node) \in Seq(AnyTx) /\ Len(AnchorBatches(o, f, node)) = Minutes(o)
      /\ Minutes(o) \in Nat /\ ToSet(Payments(o, f)) \subseteq AnyTx
      /\ TxsOf(o, f) = ToSet(FanTxs(o, f)) \cup ToSet(Payments(o, f)) \cup ToSet(AnchorBatches(o, f, node))
  BY <1>2, RunIsBuilt, ChoiceIs, FansAre, MinutesAre
<1>5. RestOf(FanTxs(o, f), FanTxs(o, f)) /\ RestOf(AnchorBatches(o, f, node), AnchorBatches(o, f, node))
  BY <1>4 DEF RestOf
<1>6. FanTxs(o, f) # <<>>
  BY <1>4
<1>7. ARun(tool)'
  <2>1. tool' \in Runs
    BY <1>2, <1>3, <1>4 DEF Runs
  <2> QED
    BY <1>2, <1>3, <1>5, <1>6, <2>1 DEF ARun
<1>8. ChainTypeOK'
  BY <1>0, <1>7 DEF ChainTypeOK, ChainInvariant
<1>9. NetworkSound' /\ ReportTrue' /\ SavedClean'
  BY <1>0 DEF ChainInvariant, NetworkSound, ReportTrue, SavedClean, Undisturbed
<1>10. NothingLeftOut'
  <2> SUFFICES ASSUME f = 0
               PROVE  /\ tool'.rejected = {}
                      /\ TxsOf(o, 0) \subseteq pool' \cup ToSet(tool'.fans) \cup tool'.pays \cup ToSet(tool'.anchors)
    BY <1>3 DEF NothingLeftOut
  <2> QED
    BY <1>3, <1>4
<1> QED
  BY <1>8, <1>9, <1>10 DEF ChainInvariant

\* The tool stops, or looks at what is mined and sends nothing yet.
LEMMA StopKeeps ==
  ASSUME ChainInvariant, tool' = Idle, UNCHANGED <<pool, mined, saved, payFailures>>,
         payRuns' \in Nat, ReportTrue'
  PROVE  ChainInvariant'
<1>1. ChainTypeOK'
  BY DEF ChainInvariant, ChainTypeOK
<1>2. NetworkSound' /\ SavedClean'
  BY DEF ChainInvariant, NetworkSound, SavedClean, Undisturbed
<1>3. NothingLeftOut'
  BY NoRunIsIdle DEF NothingLeftOut
<1> QED
  BY <1>1, <1>2, <1>3 DEF ChainInvariant

\* Killed: what was sent stays, and the books speak of nothing else.
LEMMA KillKeeps == ChainInvariant /\ Kill => ChainInvariant'
<1> SUFFICES ASSUME ChainInvariant, Kill PROVE ChainInvariant'
  OBVIOUS
<1>1. ReportTrue'
  BY DEF Kill, ChainInvariant, ReportTrue
<1>2. payRuns' \in Nat
  BY DEF Kill, ChainInvariant, ChainTypeOK
<1> QED
  BY <1>1, <1>2, StopKeeps DEF Kill

\* The state of a run after one of its transactions.
LEMMA SendKeeps ==
  ASSUME ChainInvariant, NEW tx, Built(tx), NEW ok \in BOOLEAN, Submit(tx, ok),
         UNCHANGED <<mined, saved, report, payRuns>>,
         tool' = Idle \/ ARun(tool)' \/ (tool' \in Resends /\ tool'.due \subseteq TxsOf(tool'.opt, 0)),
         ARun(tool)' => NothingLeftOut'
  PROVE  ChainInvariant'
<1>1. NetworkSound /\ payFailures \in Nat
  BY DEF ChainInvariant, ChainTypeOK
<1>2. NetworkSound' /\ pool \subseteq pool' /\ payFailures' \in Nat /\ (payFailures' = 0 => payFailures = 0)
  BY <1>1, SubmitKeeps
<1>3. ChainTypeOK'
  BY <1>2 DEF ChainInvariant, ChainTypeOK
<1>4. SavedClean'
  BY <1>1, <1>2, SavedStays DEF ChainInvariant
<1>5. ReportTrue'
  BY DEF ChainInvariant, ReportTrue
<1>6. NothingLeftOut'
  BY DEF NothingLeftOut
<1> QED
  BY <1>2, <1>3, <1>4, <1>5, <1>6 DEF ChainInvariant

\* A fan-out is accepted, or the run ends.
LEMMA SendFanKeeps == ChainInvariant /\ SendFan => ChainInvariant'
<1> SUFFICES ASSUME ChainInvariant, SendFan PROVE ChainInvariant'
  OBVIOUS
<1>1. ARun(tool) /\ tool.pc = "fans"
  BY ToolIsARun DEF SendFan, ChainInvariant
<1>2. PICK ok \in BOOLEAN :
        /\ Submit(Head(tool.fans), ok)
        /\ tool' = IF ~ok THEN Idle
                   ELSE [tool EXCEPT !.fans = Tail(@), !.pc = IF Len(tool.fans) = 1 THEN "pays" ELSE @]
  BY DEF SendFan
<1>3. UNCHANGED <<mined, saved, report, payRuns>>
  BY DEF SendFan
<1>4. PICK o, f : o = tool.opt /\ f = tool.fund
  OBVIOUS
<1>5. f \in Nat /\ o \in OptionsOf(f) /\ tool \in Runs /\ tool.fans \in Seq(AnyTx) /\ tool.fans # <<>>
      /\ RestOf(tool.fans, FanTxs(o, f))
  BY <1>1, <1>4 DEF ARun, Runs
<1>6. Len(FanTxs(o, f)) \in Nat
  BY <1>5, RunIsBuilt, ChoiceIs, FansAre
<1>7. /\ Head(tool.fans) \in AnyTx /\ Tail(tool.fans) \in Seq(AnyTx)
      /\ RestOf(Tail(tool.fans), FanTxs(o, f))
      /\ ToSet(tool.fans) = {Head(tool.fans)} \cup ToSet(Tail(tool.fans))
      /\ Len(tool.fans) = 1 => Tail(tool.fans) = <<>>
      /\ Len(tool.fans) # 1 => Tail(tool.fans) # <<>>
  BY <1>5, <1>6, RestOfTail
<1>8. PICK tx : tx = Head(tool.fans)
  OBVIOUS
<1>9. Built(tx)
  BY <1>7, <1>8, BuiltIsAny
<1>10. CASE ~ok
  BY <1>1, <1>2, <1>3, <1>8, <1>9, <1>10, SendKeeps, NoRunIsIdle
<1>11. CASE ok
  <2>1. tool' = [tool EXCEPT !.fans = Tail(@), !.pc = IF Len(tool.fans) = 1 THEN "pays" ELSE @]
    BY <1>2, <1>11
  <2>2. /\ tool' \in Runs /\ tool'.fans = Tail(tool.fans) /\ tool'.node = tool.node /\ tool'.opt = tool.opt
        /\ tool'.fund = tool.fund /\ tool'.pays = tool.pays /\ tool'.anchors = tool.anchors
        /\ tool'.rejected = tool.rejected /\ tool'.pc = IF Len(tool.fans) = 1 THEN "pays" ELSE "fans"
    BY <1>1, <1>5, <1>7, <2>1 DEF Runs
  <2>3. ARun(tool)'
    <3>1. \A t \in tool'.rejected : t.kind = "payment"
      BY <1>1, <2>2 DEF ARun
    <3> QED
      BY <1>1, <1>4, <1>7, <2>2, <3>1 DEF ARun
  <2>4. NothingLeftOut'
    <3> SUFFICES ASSUME f = 0, Undisturbed(o)'
                 PROVE  /\ tool'.rejected = {}
                        /\ TxsOf(o, 0) \subseteq pool' \cup ToSet(tool'.fans) \cup tool'.pays \cup ToSet(tool'.anchors)
      BY <1>4, <2>2 DEF NothingLeftOut
    <3>0. NetworkSound /\ payFailures \in Nat /\ Submit(tx, ok) /\ payFailures' = 0
      BY <1>2, <1>8 DEF ChainInvariant, ChainTypeOK, Undisturbed
    <3>1. pool \subseteq pool' /\ tx \in pool' /\ payFailures = 0
      BY <1>3, <1>9, <1>11, <3>0, SubmitKeeps
    <3>2. Undisturbed(o)
      BY <3>1 DEF Undisturbed
    <3>3. tool.rejected = {} /\ TxsOf(o, 0) \subseteq pool \cup ToSet(tool.fans) \cup tool.pays \cup ToSet(tool.anchors)
      BY <1>1, <1>4, <3>2 DEF NothingLeftOut, ChainInvariant
    <3> QED
      BY <1>7, <1>8, <2>2, <3>1, <3>3
  <2> QED
    BY <1>1, <1>2, <1>3, <1>8, <1>9, <2>3, <2>4, SendKeeps
<1> QED
  BY <1>10, <1>11

\* A payment is accepted, or noted as rejected.
LEMMA SendPaymentKeeps == ChainInvariant /\ SendPayment => ChainInvariant'
<1> SUFFICES ASSUME ChainInvariant, SendPayment PROVE ChainInvariant'
  OBVIOUS
<1>1. ARun(tool) /\ tool.pc = "pays"
  BY ToolIsARun DEF SendPayment, ChainInvariant
<1>2. PICK tx \in tool.pays, ok \in BOOLEAN :
        /\ Submit(tx, ok)
        /\ tool' = [tool EXCEPT !.pays = @ \ {tx}, !.rejected = IF ok THEN @ ELSE @ \cup {tx}]
  BY DEF SendPayment
<1>3. UNCHANGED <<mined, saved, report, payRuns>>
  BY DEF SendPayment
<1>4. PICK o, f : o = tool.opt /\ f = tool.fund
  OBVIOUS
<1>5. f \in Nat /\ o \in OptionsOf(f) /\ tool \in Runs /\ tool.pays \subseteq AnyTx
  BY <1>1, <1>4 DEF ARun, Runs
<1>6. Built(tx) /\ tx \in AnyTx
  BY <1>5, BuiltIsAny
<1>7. tx.kind = "payment" /\ tx \in ToSet(Payments(o, f))
  BY <1>1, <1>4, <1>5, KindsOfRest DEF ARun
<1>8. /\ tool' \in Runs /\ tool'.fans = tool.fans /\ tool'.node = tool.node /\ tool'.opt = tool.opt
      /\ tool'.fund = tool.fund /\ tool'.pays = tool.pays \ {tx} /\ tool'.anchors = tool.anchors
      /\ tool'.rejected = (IF ok THEN tool.rejected ELSE tool.rejected \cup {tx}) /\ tool'.pc = "pays"
  BY <1>1, <1>2, <1>5, <1>6 DEF Runs
<1>9. ARun(tool)'
  <2>1. tool'.pays \cup {t \in tool'.rejected : t.kind = "payment"} \subseteq ToSet(Payments(o, f))
    BY <1>1, <1>4, <1>7, <1>8 DEF ARun
  <2>2. \A t \in tool'.rejected : t.kind = "payment"
    BY <1>1, <1>7, <1>8 DEF ARun
  <2> QED
    BY <1>1, <1>4, <1>8, <2>1, <2>2 DEF ARun
<1>10. NothingLeftOut'
  <2> SUFFICES ASSUME f = 0, Undisturbed(o)'
               PROVE  /\ tool'.rejected = {}
                      /\ TxsOf(o, 0) \subseteq pool' \cup ToSet(tool'.fans) \cup tool'.pays \cup ToSet(tool'.anchors)
    BY <1>4, <1>8 DEF NothingLeftOut
  <2>0. NetworkSound /\ payFailures \in Nat /\ Submit(tx, ok) /\ payFailures' = 0
    BY <1>2 DEF ChainInvariant, ChainTypeOK, Undisturbed
  <2>1. pool \subseteq pool' /\ payFailures = 0 /\ (ok => tx \in pool') /\ (Acceptable(tx) => ok)
    BY <1>3, <1>6, <2>0, SubmitKeeps
  <2>2. Undisturbed(o)
    BY <2>1 DEF Undisturbed
  <2>3. Acceptable(tx)
    BY <1>1, <1>4, <2>2, PaymentsAcceptable DEF ChainInvariant
  <2>4. tool.rejected = {} /\ TxsOf(o, 0) \subseteq pool \cup ToSet(tool.fans) \cup tool.pays \cup ToSet(tool.anchors)
    BY <1>1, <1>4, <2>2 DEF NothingLeftOut, ChainInvariant
  <2> QED
    BY <1>8, <2>1, <2>3, <2>4
<1> QED
  BY <1>1, <1>2, <1>3, <1>6, <1>9, <1>10, SendKeeps

\* Another pass, or on to the anchors.
LEMMA SendAgainKeeps == ChainInvariant /\ SendAgain => ChainInvariant'
<1> SUFFICES ASSUME ChainInvariant, SendAgain PROVE ChainInvariant'
  OBVIOUS
<1>1. ARun(tool) /\ tool.pc = "pays" /\ tool.pays = {}
  BY ToolIsARun DEF SendAgain, ChainInvariant
<1>2. UNCHANGED <<pool, mined, saved, report, payRuns, payFailures>>
  BY DEF SendAgain
<1>3. \/ /\ tool.node = "teranode"
         /\ tool' = [tool EXCEPT !.pays = tool.rejected, !.rejected = {}, !.pass = @ + 1]
      \/ tool' = [tool EXCEPT !.pc = "anchors"]
  BY DEF SendAgain
<1>4. tool \in Runs
  BY <1>1 DEF ARun
<1>5. ARun(tool)' /\ (ARun(tool)' => NothingLeftOut')
  <2>1. CASE /\ tool.node = "teranode"
             /\ tool' = [tool EXCEPT !.pays = tool.rejected, !.rejected = {}, !.pass = @ + 1]
    <3>1. /\ tool' \in Runs /\ tool'.fans = tool.fans /\ tool'.node = tool.node /\ tool'.opt = tool.opt
          /\ tool'.fund = tool.fund /\ tool'.pays = tool.rejected /\ tool'.anchors = tool.anchors
          /\ tool'.rejected = {} /\ tool'.pc = "pays"
      <4>1. tool.pass + 1 \in Nat /\ tool.rejected \in SUBSET AnyTx
        BY <1>4 DEF Runs
      <4> QED
        BY <1>1, <1>4, <2>1, <4>1 DEF Runs
    <3>2. tool.rejected \subseteq ToSet(Payments(tool.opt, tool.fund))
      BY <1>1 DEF ARun
    <3>3. ARun(tool)'
      BY <1>1, <3>1, <3>2 DEF ARun
    <3>4. tool.fund # 0
      BY <1>1, <2>1 DEF ARun, NodeOf
    <3> QED
      BY <3>1, <3>3, <3>4 DEF NothingLeftOut
  <2>2. CASE tool' = [tool EXCEPT !.pc = "anchors"]
    <3>1. /\ tool' \in Runs /\ tool'.fans = tool.fans /\ tool'.node = tool.node /\ tool'.opt = tool.opt
          /\ tool'.fund = tool.fund /\ tool'.pays = tool.pays /\ tool'.anchors = tool.anchors
          /\ tool'.rejected = tool.rejected /\ tool'.pc = "anchors"
      BY <1>1, <1>4, <2>2 DEF Runs
    <3>2. ARun(tool)'
      BY <1>1, <3>1 DEF ARun
    <3> QED
      BY <1>1, <1>2, <3>1, <3>2 DEF ChainInvariant, NothingLeftOut, Undisturbed
  <2> QED
    BY <1>3, <2>1, <2>2
<1>6. ChainTypeOK'
  BY <1>2, <1>5 DEF ChainInvariant, ChainTypeOK
<1>7. NetworkSound' /\ ReportTrue' /\ SavedClean'
  BY <1>2 DEF ChainInvariant, NetworkSound, ReportTrue, SavedClean, Undisturbed
<1> QED
  BY <1>5, <1>6, <1>7 DEF ChainInvariant

\* An anchor is accepted, or noted, or on a node of one's own the run ends.
LEMMA SendAnchorKeeps == ChainInvariant /\ SendAnchor => ChainInvariant'
<1> SUFFICES ASSUME ChainInvariant, SendAnchor PROVE ChainInvariant'
  OBVIOUS
<1>1. ARun(tool) /\ tool.pc = "anchors" /\ tool.anchors # <<>>
  BY ToolIsARun DEF SendAnchor, ChainInvariant
<1>2. PICK ok \in BOOLEAN :
        /\ Submit(Head(tool.anchors), ok)
        /\ tool' = IF tool.node = "teranode" /\ ~ok THEN Idle
                   ELSE [tool EXCEPT !.anchors = Tail(@),
                                     !.rejected = IF ok THEN @ ELSE @ \cup {Head(tool.anchors)}]
  BY DEF SendAnchor
<1>3. UNCHANGED <<mined, saved, report, payRuns>>
  BY DEF SendAnchor
<1>4. PICK o, f : o = tool.opt /\ f = tool.fund
  OBVIOUS
<1>5. f \in Nat /\ o \in OptionsOf(f) /\ tool \in Runs /\ tool.anchors \in Seq(AnyTx)
      /\ RestOf(tool.anchors, AnchorBatches(o, f, NodeOf(f))) /\ tool.node = NodeOf(f)
  BY <1>1, <1>4 DEF ARun, Runs
<1>6. Len(AnchorBatches(o, f, NodeOf(f))) \in Nat
  BY <1>5, RunIsBuilt, ChoiceIs, MinutesAre
<1>7. /\ Head(tool.anchors) \in AnyTx /\ Tail(tool.anchors) \in Seq(AnyTx)
      /\ RestOf(Tail(tool.anchors), AnchorBatches(o, f, NodeOf(f)))
      /\ ToSet(tool.anchors) = {Head(tool.anchors)} \cup ToSet(Tail(tool.anchors))
  BY <1>1, <1>5, <1>6, RestOfTail
<1>8. PICK tx : tx = Head(tool.anchors)
  OBVIOUS
<1>9. Built(tx) /\ tx \in ToSet(tool.anchors)
  BY <1>7, <1>8, BuiltIsAny
<1>10. tx.kind = "anchor"
  <2>1. IsChoice(o) /\ Minutes(o) \in Nat
    BY <1>5, ChoiceIs, MinutesAre
  <2>2. Len(tool.anchors) \in 0 .. Minutes(o)
    BY <1>1, <1>4, <1>5, KindsOfRest
  <2>3. PICK i \in Minutes(o) - Len(tool.anchors) + 1 .. Minutes(o) : tx = AnchorBatches(o, f, NodeOf(f))[i]
    BY <1>1, <1>4, <1>5, <1>9, KindsOfRest
  <2>4. i \in 1 .. Minutes(o)
    BY <2>1, <2>2
  <2> QED
    BY <2>1, <2>3, <2>4, AnchorSpends
<1>11. CASE tool.node = "teranode" /\ ~ok
  BY <1>1, <1>2, <1>3, <1>8, <1>9, <1>11, SendKeeps, NoRunIsIdle
<1>12. CASE ~(tool.node = "teranode" /\ ~ok)
  <2>1. tool' = [tool EXCEPT !.anchors = Tail(@), !.rejected = IF ok THEN @ ELSE @ \cup {tx}]
    BY <1>2, <1>8, <1>12
  <2>2. /\ tool' \in Runs /\ tool'.fans = tool.fans /\ tool'.node = tool.node /\ tool'.opt = tool.opt
        /\ tool'.fund = tool.fund /\ tool'.pays = tool.pays /\ tool'.anchors = Tail(tool.anchors)
        /\ tool'.rejected = (IF ok THEN tool.rejected ELSE tool.rejected \cup {tx}) /\ tool'.pc = "anchors"
    BY <1>1, <1>5, <1>7, <1>8, <2>1 DEF Runs
  <2>3. ARun(tool)'
    <3>1. {t \in tool'.rejected : t.kind = "payment"} = {t \in tool.rejected : t.kind = "payment"}
      BY <1>10, <2>2
    <3> QED
      BY <1>1, <1>4, <1>5, <1>7, <2>2, <3>1 DEF ARun
  <2>4. NothingLeftOut'
    <3> SUFFICES ASSUME f = 0, Undisturbed(o)'
                 PROVE  /\ tool'.rejected = {}
                        /\ TxsOf(o, 0) \subseteq pool' \cup ToSet(tool'.fans) \cup tool'.pays \cup ToSet(tool'.anchors)
      BY <1>4, <2>2 DEF NothingLeftOut
    <3>0. NetworkSound /\ payFailures \in Nat /\ Submit(tx, ok) /\ payFailures' = 0
      BY <1>2, <1>8 DEF ChainInvariant, ChainTypeOK, Undisturbed
    <3>1. pool \subseteq pool' /\ payFailures = 0 /\ (ok => tx \in pool') /\ (Acceptable(tx) => ok)
      BY <1>3, <1>9, <3>0, SubmitKeeps
    <3>2. Undisturbed(o)
      BY <3>1 DEF Undisturbed
    <3>3. Acceptable(tx)
      BY <1>1, <1>4, <1>8, <3>2, NextAnchorAcceptable DEF ChainInvariant
    <3>4. tool.rejected = {} /\ TxsOf(o, 0) \subseteq pool \cup ToSet(tool.fans) \cup tool.pays \cup ToSet(tool.anchors)
      BY <1>1, <1>4, <3>2 DEF NothingLeftOut, ChainInvariant
    <3> QED
      BY <1>7, <1>8, <2>2, <3>1, <3>3, <3>4
  <2> QED
    BY <1>1, <1>2, <1>3, <1>8, <1>9, <2>3, <2>4, SendKeeps
<1> QED
  BY <1>11, <1>12

\* A run that nothing disturbed saves that nothing was rejected.
LEMMA SaveKeeps == ChainInvariant /\ Save => ChainInvariant'
<1> SUFFICES ASSUME ChainInvariant, Save PROVE ChainInvariant'
  OBVIOUS
<1>1. ARun(tool) /\ tool.fund = 0 /\ tool.opt \in PayOptions /\ tool.rejected \in SUBSET AnyTx
  <2>1. ARun(tool) /\ tool.node = "arcade"
    BY ToolIsARun DEF Save, ChainInvariant
  <2>2. tool.fund = 0
    BY <2>1 DEF ARun, NodeOf
  <2> QED
    BY <2>1, <2>2 DEF ARun, Runs, OptionsOf
<1>2. /\ saved' = [pc |-> "saved", opt |-> tool.opt, rejected |-> tool.rejected] /\ tool' = Idle
      /\ UNCHANGED <<pool, mined, report, payRuns, payFailures>>
  BY DEF Save
<1>3. ChainTypeOK'
  BY <1>1, <1>2 DEF ChainInvariant, ChainTypeOK
<1>4. NetworkSound' /\ ReportTrue'
  BY <1>2 DEF ChainInvariant, NetworkSound, ReportTrue
<1>5. NothingLeftOut'
  BY <1>2, NoRunIsIdle DEF NothingLeftOut
<1>6. SavedClean'
  <2> SUFFICES ASSUME Undisturbed(tool.opt) PROVE tool.rejected = {}
    BY <1>2 DEF SavedClean, Undisturbed
  <2> QED
    BY <1>1 DEF ChainInvariant, NothingLeftOut
<1> QED
  BY <1>3, <1>4, <1>5, <1>6 DEF ChainInvariant
\* A confirmation finds all well only when all that it wants is mined.
LEMMA ConfirmPaymentsKeeps == ChainInvariant /\ ConfirmPayments => ChainInvariant'
<1> SUFFICES ASSUME ChainInvariant, ConfirmPayments PROVE ChainInvariant'
  OBVIOUS
<1>1. /\ tool' = tool /\ tool = Idle /\ saved # NoRecord
      /\ UNCHANGED <<pool, mined, saved, payRuns, payFailures>>
      /\ Confirms(saved.opt, 0, "arcade", saved.rejected)
  BY DEF ConfirmPayments
<1>2. saved.opt \in OptionsOf(0) /\ NodeOf(0) = "arcade"
  BY <1>1 DEF ChainInvariant, ChainTypeOK, OptionsOf, NodeOf
<1>3. ReportTrue'
  BY <1>1, <1>2 DEF Confirms, IsMined, ReportTrue
<1>4. payRuns' \in Nat
  BY <1>1 DEF ChainInvariant, ChainTypeOK
<1> QED
  BY <1>1, <1>3, <1>4, StopKeeps

\* The same at the end of a run on a node of one's own.
LEMMA ConfirmOwnKeeps == ChainInvariant /\ ConfirmOwn => ChainInvariant'
<1> SUFFICES ASSUME ChainInvariant, ConfirmOwn PROVE ChainInvariant'
  OBVIOUS
<1>1. /\ tool' = Idle /\ tool.node = "teranode"
      /\ UNCHANGED <<pool, mined, saved, payRuns, payFailures>>
      /\ Confirms(tool.opt, tool.fund, "teranode", tool.rejected)
  BY DEF ConfirmOwn
<1>2. ARun(tool)
  BY ToolIsARun DEF ConfirmOwn, ChainInvariant
<1>3. tool.fund \in Nat /\ tool.opt \in OptionsOf(tool.fund) /\ NodeOf(tool.fund) = "teranode"
  BY <1>1, <1>2 DEF ARun, Runs
<1>4. ReportTrue'
  BY <1>1, <1>3 DEF Confirms, IsMined, ReportTrue
<1>5. payRuns' \in Nat
  BY <1>1 DEF ChainInvariant, ChainTypeOK
<1> QED
  BY <1>1, <1>4, <1>5, StopKeeps

\* What is to be resent was built by the run of the state file.
LEMMA RebroadcastKeeps == ChainInvariant /\ Rebroadcast => ChainInvariant'
<1> SUFFICES ASSUME ChainInvariant, Rebroadcast PROVE ChainInvariant'
  OBVIOUS
<1>1. /\ saved # NoRecord /\ payRuns' = payRuns + 1
      /\ tool' = [pc |-> "resend", opt |-> saved.opt,
                  due |-> {tx \in ToSet(AllTxs(saved.opt, 0, "arcade")) : ~IsMined(tx)}]
      /\ UNCHANGED <<pool, mined, saved, report, payFailures>>
  BY DEF Rebroadcast
<1>2. saved.opt \in PayOptions /\ payRuns' \in Nat
  BY <1>1 DEF ChainInvariant, ChainTypeOK
<1>3. TxsOf(saved.opt, 0) = ToSet(AllTxs(saved.opt, 0, "arcade"))
  BY DEF TxsOf, NodeOf
<1>4. TxsOf(saved.opt, 0) \subseteq AnyTx
  <2>1. saved.opt \in OptionsOf(0) /\ 0 \in Nat
    BY <1>2 DEF OptionsOf
  <2> QED
    BY <2>1, RunIsBuilt
<1>5. tool' \in Resends /\ tool'.due \subseteq TxsOf(tool'.opt, 0)
  BY <1>1, <1>2, <1>3, <1>4 DEF Resends
<1>6. ChainTypeOK'
  BY <1>1, <1>2, <1>5 DEF ChainInvariant, ChainTypeOK
<1>7. NetworkSound' /\ ReportTrue' /\ SavedClean'
  BY <1>1 DEF ChainInvariant, NetworkSound, ReportTrue, SavedClean, Undisturbed
<1>8. NothingLeftOut'
  BY <1>5, NoRunIsIdle DEF NothingLeftOut
<1> QED
  BY <1>6, <1>7, <1>8 DEF ChainInvariant

\* One of them is sent.
LEMMA ResendKeeps == ChainInvariant /\ Resend => ChainInvariant'
<1> SUFFICES ASSUME ChainInvariant, Resend PROVE ChainInvariant'
  OBVIOUS
<1>1. tool \in Resends /\ tool.due \subseteq TxsOf(tool.opt, 0) /\ tool.opt \in PayOptions
  <2>1. tool.pc = "resend"
    BY DEF Resend
  <2>2. tool # Idle /\ ~ARun(tool)
    BY <2>1 DEF Idle, ARun, Runs
  <2> QED
    BY <2>2 DEF ChainInvariant, ChainTypeOK, Resends
<1>2. UNCHANGED <<mined, saved, report, payRuns>>
  BY DEF Resend
<1>3. CASE tool' = Idle /\ UNCHANGED <<pool, payFailures>>
  <2>1. ReportTrue' /\ payRuns' \in Nat
    BY <1>2 DEF ChainInvariant, ReportTrue, ChainTypeOK
  <2> QED
    BY <1>2, <1>3, <2>1, StopKeeps
<1>4. ASSUME NEW tx \in tool.due, NEW ok \in BOOLEAN, Submit(tx, ok), tool' = [tool EXCEPT !.due = @ \ {tx}]
      PROVE  ChainInvariant'
  <2>1. Built(tx)
    BY <1>1, BuiltIsAny DEF Resends
  <2>2. tool' \in Resends /\ tool'.due \subseteq TxsOf(tool'.opt, 0)
    BY <1>1, <1>4 DEF Resends
  <2>3. ~ARun(tool)'
    BY <2>2, NoRunIsIdle
  <2> QED
    BY <1>2, <1>4, <2>1, <2>2, <2>3, SendKeeps
<1> QED
  BY <1>3, <1>4 DEF Resend

\* A block confirms what was accepted.
LEMMA MineKeeps == ChainInvariant /\ MineBlock => ChainInvariant'
<1> SUFFICES ASSUME ChainInvariant, MineBlock PROVE ChainInvariant'
  OBVIOUS
<1>1. mined' = pool /\ mined \subseteq pool /\ UNCHANGED <<pool, tool, saved, report, payRuns, payFailures>>
  BY DEF MineBlock, ChainInvariant, NetworkSound
<1>2. ChainTypeOK' /\ SavedClean' /\ NetworkSound'
  BY <1>1 DEF ChainInvariant, ChainTypeOK, SavedClean, Undisturbed, NetworkSound
<1>3. ReportTrue'
  BY <1>1 DEF ChainInvariant, ReportTrue
<1>4. NothingLeftOut'
  BY <1>1 DEF ChainInvariant, NothingLeftOut, Undisturbed
<1> QED
  BY <1>2, <1>3, <1>4 DEF ChainInvariant

\* What is dropped takes along all that spends from it, and counts as a fault.
LEMMA ForgetKeeps == ChainInvariant /\ Forget => ChainInvariant'
<1> SUFFICES ASSUME ChainInvariant, Forget PROVE ChainInvariant'
  OBVIOUS
<1>1. PICK gone \in SUBSET (pool \ mined) :
        /\ \A tx \in pool : Spends(tx).of \in gone => tx \in gone
        /\ pool' = pool \ gone
  BY DEF Forget
<1>2. payFailures' = payFailures + 1 /\ UNCHANGED <<mined, tool, saved, report, payRuns>>
  BY DEF Forget
<1>3. payFailures' \in Nat /\ payFailures' # 0
  BY <1>2 DEF ChainInvariant, ChainTypeOK
<1>4. ChainTypeOK' /\ ReportTrue'
  BY <1>2, <1>3 DEF ChainInvariant, ChainTypeOK, ReportTrue
<1>5. SavedClean' /\ NothingLeftOut'
  BY <1>3 DEF SavedClean, NothingLeftOut, Undisturbed
<1>6. SpentOnce(pool')
  BY <1>1 DEF ChainInvariant, NetworkSound, SpentOnce
<1>7. NetworkSound'
  BY <1>1, <1>2, <1>6 DEF ChainInvariant, NetworkSound
<1> QED
  BY <1>4, <1>5, <1>7 DEF ChainInvariant

\* Every step of the payments.
LEMMA ChainStep == ChainInvariant /\ [PayNext]_payvars => ChainInvariant'
<1> SUFFICES ASSUME ChainInvariant, [PayNext]_payvars PROVE ChainInvariant'
  OBVIOUS
<1>1. ASSUME NEW o \in PayOptions, StartRun(o, "arcade") PROVE ChainInvariant'
  BY <1>1, StartRunKeeps
<1>2. CASE StartRun(WholeFlight, "teranode")
  BY <1>2, StartRunKeeps
<1>3. CASE SendFan \/ SendPayment \/ SendAgain \/ SendAnchor
  BY <1>3, SendFanKeeps, SendPaymentKeeps, SendAgainKeeps, SendAnchorKeeps
<1>4. CASE Save \/ Kill \/ ConfirmPayments \/ ConfirmOwn
  BY <1>4, SaveKeeps, KillKeeps, ConfirmPaymentsKeeps, ConfirmOwnKeeps
<1>5. CASE Rebroadcast \/ Resend
  BY <1>5, RebroadcastKeeps, ResendKeeps
<1>6. CASE MineBlock \/ Forget
  BY <1>6, MineKeeps, ForgetKeeps
<1>7. CASE UNCHANGED payvars
  BY <1>7 DEF payvars, ChainInvariant, ChainTypeOK, NetworkSound, ReportTrue, NothingLeftOut, SavedClean, Undisturbed
<1> QED
  BY <1>1, <1>2, <1>3, <1>4, <1>5, <1>6, <1>7 DEF PayNext

\* A confirmation that finds all well means that every record of the run is
\* paid and anchored on the chain exactly once, and a run that nothing disturbs
\* has nothing refused (ttn-run.mjs:198-278, 323-338, 417-444,
\* teranode-run.mjs:226).
THEOREM ConfirmedIsPaidOnce == Spec => []PaidOnChain
<1>1. Init => ChainInvariant
  BY ChainStart DEF Init
<1>2. ChainInvariant /\ [Next]_vars => ChainInvariant'
  <2> SUFFICES ASSUME ChainInvariant, [Next]_vars PROVE ChainInvariant'
    OBVIOUS
  <2>1. PayNext \/ UNCHANGED payvars
    BY DEF Next, Fly, PayUp, RunSpike, GrowTree, KeepKeys, Stamp, Haul, Account, PutTogether, vars
  <2> QED
    BY <2>1, ChainStep, SMTT(60)
<1> QED
  BY <1>1, <1>2, ChainSafe, PTL DEF Spec

-----------------------------------------------------------------------------
(* To a Voyager: windows, links, and what is sent over them.               *)

\* What is assumed of a mission, one by one.
LEMMA HaulConstants ==
  /\ Days \in Nat /\ DayLength \in Nat /\ TrackStart \in Nat /\ TrackHours \in Nat /\ LightTime \in Nat
  /\ GroundTx \in Nat /\ GroundDelay \in Nat
  /\ TrackHours < DayLength /\ LightTime <= TrackStart
  /\ Len(SpaceTx) \in Nat \ {0} /\ BundleIds = 1 .. Len(SpaceTx)
  /\ \A i \in BundleIds : SpaceTx[i] \in Nat \ {0}
  /\ \A n \in 1 .. Len(SpaceTx) : NackTx(n) \in Nat
  /\ ReadyAt["down"] \in Nat /\ ReadyAt["up"] \in Nat
<1>1. SpaceTx \in Seq(Nat \ {0}) /\ SpaceTx # <<>>
  BY HaulAssumption
<1>2. Len(SpaceTx) \in Nat /\ DOMAIN SpaceTx = 1 .. Len(SpaceTx) /\ Len(SpaceTx) # 0
  BY <1>1
<1>3. \A i \in 1 .. Len(SpaceTx) : SpaceTx[i] \in Nat \ {0}
  BY <1>1
<1> QED
  BY <1>2, <1>3, HaulAssumption DEF BundleIds

\* The greater of two numbers.
LEMMA MaxOfTwo ==
  ASSUME NEW a \in Int, NEW b \in Int
  PROVE  Max({a, b}) \in {a, b} /\ a <= Max({a, b}) /\ b <= Max({a, b})
<1>1. \E x \in {a, b} : \A y \in {a, b} : x >= y
  BY DEF Max
<1> QED
  BY <1>1 DEF Max

\* Windows known by their days, none of which touches the next.
IsSchedule(windows) ==
  /\ DOMAIN windows \subseteq 0 .. Days - 1
  /\ \A w \in DOMAIN windows : /\ windows[w].from \in Nat /\ windows[w].to \in Nat
                               /\ windows[w].from <= windows[w].to
  /\ \A v, w \in DOMAIN windows : v < w => windows[v].to < windows[w].from

\* A day is over before the next one begins.
LEMMA DaysAreApart ==
  ASSUME NEW a \in Nat, NEW b \in Nat, NEW c \in Nat, a < b
  PROVE  a * c \in Nat /\ b * c \in Nat /\ a * c + c <= b * c
<1>1. PICK k \in Nat : b = a + 1 + k
  <2>1. b - a - 1 \in Nat /\ b = a + 1 + (b - a - 1)
    OBVIOUS
  <2> QED
    BY <2>1
<1>2. b * c = a * c + c + k * c
  BY <1>1
<1>3. a * c \in Nat /\ k * c \in Nat /\ b * c \in Nat
  OBVIOUS
<1> QED
  BY <1>2, <1>3

\* The tracks of a mission, and what is sent a light time before them.
LEMMA TracksAre ==
  ASSUME NEW d \in 0 .. Days - 1
  PROVE  /\ Track(d).from \in Nat /\ Track(d).to \in Nat
         /\ LightTime <= Track(d).from /\ Track(d).from <= Track(d).to
         /\ \A e \in 0 .. Days - 1 : d < e => Track(d).to < Track(e).from
<1>1. d \in Nat /\ d * DayLength \in Nat
  BY HaulConstants
<1>2. ASSUME NEW e \in 0 .. Days - 1, d < e PROVE Track(d).to < Track(e).from
  <2>1. e \in Nat
    BY HaulConstants
  <2>2. e * DayLength \in Nat /\ d * DayLength + DayLength <= e * DayLength
    BY <1>1, <1>2, <2>1, HaulConstants, DaysAreApart
  <2> DEFINE x == d * DayLength
             y == e * DayLength
  <2>3. x \in Nat /\ y \in Nat /\ x + DayLength <= y
    BY <1>1, <2>2
  <2>4. Track(d).to = x + TrackStart + TrackHours /\ Track(e).from = y + TrackStart
    BY DEF Track
  <2> HIDE DEF x, y
  <2> QED
    BY <2>3, <2>4, HaulConstants
<1> DEFINE z == d * DayLength
<1>3. z \in Nat
  BY <1>1
<1>4. Track(d).from = z + TrackStart /\ Track(d).to = z + TrackStart + TrackHours
  BY DEF Track
<1> HIDE DEF z
<1> QED
  BY <1>2, <1>3, <1>4, HaulConstants

\* So are the windows of each link.
LEMMA SchedulesAre == IsSchedule(UpWindows) /\ IsSchedule(DownWindows) /\ IsSchedule(NoWindows)
<1>1. TrackDays \subseteq 0 .. Days - 1
  BY DEF TrackDays
<1>2. IsSchedule(UpWindows)
  BY <1>1, TracksAre DEF IsSchedule, UpWindows
<1>3. IsSchedule(DownWindows)
  <2>1. DOMAIN DownWindows = TrackDays
    BY DEF DownWindows
  <2>2. \A d \in TrackDays : /\ DownWindows[d].from = Track(d).from - LightTime
                             /\ DownWindows[d].to = Track(d).to - LightTime
    BY DEF DownWindows
  <2>3. \A d \in TrackDays : /\ DownWindows[d].from \in Nat /\ DownWindows[d].to \in Nat
                             /\ DownWindows[d].from <= DownWindows[d].to
    <3> SUFFICES ASSUME NEW d \in TrackDays
                 PROVE  /\ DownWindows[d].from \in Nat /\ DownWindows[d].to \in Nat
                        /\ DownWindows[d].from <= DownWindows[d].to
      OBVIOUS
    <3>1. /\ Track(d).from \in Nat /\ Track(d).to \in Nat
          /\ LightTime <= Track(d).from /\ Track(d).from <= Track(d).to
      BY <1>1, TracksAre
    <3>2. DownWindows[d].from = Track(d).from - LightTime /\ DownWindows[d].to = Track(d).to - LightTime
      BY <2>2
    <3> QED
      BY <3>1, <3>2, HaulConstants, SMTT(60)
  <2>4. \A d, e \in TrackDays : d < e => DownWindows[d].to < DownWindows[e].from
    <3> SUFFICES ASSUME NEW d \in TrackDays, NEW e \in TrackDays, d < e
                 PROVE  DownWindows[d].to < DownWindows[e].from
      OBVIOUS
    <3>1. Track(d).to \in Nat /\ Track(e).from \in Nat /\ Track(d).to < Track(e).from
      BY <1>1, TracksAre
    <3>2. DownWindows[d].to = Track(d).to - LightTime /\ DownWindows[e].from = Track(e).from - LightTime
      BY <2>2
    <3> QED
      BY <3>1, <3>2, HaulConstants
  <2> QED
    BY <1>1, <2>1, <2>3, <2>4 DEF IsSchedule
<1>4. IsSchedule(NoWindows)
  BY DEF IsSchedule, NoWindows
<1> QED
  BY <1>2, <1>3, <1>4

Directions == {"down", "up", "ack"}

IsLink(link) ==
  /\ link.space \in BOOLEAN /\ link.delay \in Nat
  /\ IsSchedule(link.windows) /\ IsSchedule(link.reverse)

\* The links of each path.
LEMMA LinksAre ==
  ASSUME NEW dir \in Directions
  PROVE  /\ Len(Links(dir)) \in Nat \ {0} /\ 1 \in 1 .. Len(Links(dir))
         /\ \A k \in 1 .. Len(Links(dir)) : IsLink(Links(dir)[k])
<1>1. IsLink(Ground)
  BY SchedulesAre, HaulConstants DEF IsLink, Ground
<1>2. ASSUME NEW w, NEW r, IsSchedule(w), IsSchedule(r) PROVE IsLink(SpaceLink(w, r))
  BY <1>2, HaulConstants DEF IsLink, SpaceLink
<1>3. /\ IsLink(SpaceLink(DownWindows, UpWindows)) /\ IsLink(SpaceLink(UpWindows, DownWindows))
      /\ IsLink(SpaceLink(DownWindows, NoWindows))
  BY <1>2, SchedulesAre
<1>4. CASE dir = "down"
  <2>1. Links(dir) = <<SpaceLink(DownWindows, UpWindows), Ground, Ground>>
    BY <1>4 DEF Links
  <2> QED
    BY <1>1, <1>3, <2>1
<1>5. CASE dir = "up"
  <2>1. Links(dir) = <<Ground, SpaceLink(UpWindows, DownWindows)>>
    BY <1>5 DEF Links
  <2> QED
    BY <1>1, <1>3, <2>1
<1>6. CASE dir = "ack"
  <2>1. Links(dir) = <<SpaceLink(DownWindows, NoWindows), Ground>>
    BY <1>6 DEF Links
  <2> QED
    BY <1>1, <1>3, <2>1
<1> QED
  BY <1>4, <1>5, <1>6 DEF Directions

\* Among some of the windows there is a first one.
LEMMA FirstWindow ==
  ASSUME NEW windows, IsSchedule(windows), NEW S, S \subseteq DOMAIN windows, S # {}
  PROVE  Min(S) \in S
<1>1. S \subseteq 0 .. Days /\ Days \in Nat
  BY HaulConstants DEF IsSchedule
<1>2. \E m \in S : \A y \in S : m <= y
  BY <1>1, FirstIsThere
<1> QED
  BY <1>2 DEF Min

\* A transmission fits where NextStart puts it.
LEMMA NextStartFits ==
  ASSUME NEW windows, IsSchedule(windows), NEW t \in Nat, NEW tx \in Nat,
         NextStart(windows, t, tx) # NoTime
  PROVE  /\ NextStart(windows, t, tx) \in Nat /\ t <= NextStart(windows, t, tx)
         /\ \E w \in DOMAIN windows : /\ windows[w].from <= NextStart(windows, t, tx)
                                      /\ NextStart(windows, t, tx) + tx <= windows[w].to
<1> DEFINE start(w) == Max({t, windows[w].from})
           fits == {w \in DOMAIN windows : start(w) + tx <= windows[w].to}
<1>1. fits # {} /\ NextStart(windows, t, tx) = start(Min(fits))
  BY SMTT(60) DEF NextStart
<1>2. Min(fits) \in fits
  BY <1>1, FirstWindow
<1> DEFINE w == Min(fits)
<1>3. w \in DOMAIN windows /\ NextStart(windows, t, tx) = start(w) /\ start(w) + tx <= windows[w].to
  BY <1>1, <1>2
<1> HIDE DEF w
<1>4. windows[w].from \in Nat
  BY <1>3 DEF IsSchedule
<1>5. start(w) \in Nat /\ t <= start(w) /\ windows[w].from <= start(w)
  <2> DEFINE f == windows[w].from
  <2>1. f \in Nat
    BY <1>4
  <2> HIDE DEF f
  <2>2. Max({t, f}) \in {t, f} /\ t <= Max({t, f}) /\ f <= Max({t, f})
    BY <2>1, MaxOfTwo
  <2>3. Max({t, f}) \in Nat
    BY <2>1, <2>2
  <2> QED
    BY <2>2, <2>3 DEF f
<1>6. /\ windows[w].from <= NextStart(windows, t, tx)
      /\ NextStart(windows, t, tx) + tx <= windows[w].to
  <2> HIDE DEF start
  <2> QED
    BY <1>3, <1>5
<1>7. NextStart(windows, t, tx) \in Nat /\ t <= NextStart(windows, t, tx)
  <2> HIDE DEF start
  <2> QED
    BY <1>3, <1>5
<1> QED
  BY <1>3, <1>6, <1>7

\* The window of a start within one.
LEMMA WindowIsThere ==
  ASSUME NEW windows, NEW start, \E w \in DOMAIN windows : windows[w].from <= start /\ start < windows[w].to
  PROVE  /\ WindowOf(windows, start) \in DOMAIN windows
         /\ windows[WindowOf(windows, start)].from <= start /\ start < windows[WindowOf(windows, start)].to
BY DEF WindowOf

\* The pause before a window is backed by the schedule.
LEMMA PausesAreBacked ==
  ASSUME NEW gap, gap.dir \in Directions, gap.leg \in 1 .. Len(Links(gap.dir)),
         NEW w \in DOMAIN Links(gap.dir)[gap.leg].windows,
         gap.upAt = Links(gap.dir)[gap.leg].windows[w].from,
         gap.downAt = ClosedBefore(Links(gap.dir)[gap.leg].windows, w)
  PROVE  Backed(gap)
<1> DEFINE windows == Links(gap.dir)[gap.leg].windows
           earlier == {v \in DOMAIN windows : v < w}
<1>1. IsSchedule(windows)
  BY LinksAre, SMTT(60) DEF IsLink
<1>2. DOMAIN windows \subseteq Int /\ w \in DOMAIN windows
  BY <1>1, HaulConstants DEF IsSchedule
<1>3. /\ gap.upAt = windows[w].from
      /\ gap.downAt = IF earlier = {} THEN NoTime ELSE windows[Max(earlier)].to
  BY DEF ClosedBefore
<1> HIDE DEF windows
<1>4. \A v \in DOMAIN windows : windows[v].from \in Nat /\ windows[v].to \in Nat /\ windows[v].from <= windows[v].to
  BY <1>1 DEF IsSchedule
<1>5. \A v \in DOMAIN windows : ~(v < w) => windows[w].from <= windows[v].from
  <2> SUFFICES ASSUME NEW v \in DOMAIN windows, ~(v < w) PROVE windows[w].from <= windows[v].from
    OBVIOUS
  <2>1. v = w \/ w < v
    BY <1>2
  <2>2. w < v => windows[w].to < windows[v].from
    BY <1>1, <1>2, SMTT(60) DEF IsSchedule
  <2> QED
    BY <1>2, <1>4, <2>1, <2>2
<1>6. CASE earlier = {}
  <2>1. gap.downAt = NoTime /\ \A v \in DOMAIN windows : windows[v].from >= gap.upAt
    BY <1>2, <1>3, <1>4, <1>5, <1>6
  <2>2. ~ContactAt(windows, 2 * gap.upAt - 1)
    BY <1>2, <1>3, <1>4, <2>1, SMTT(60) DEF ContactAt
  <2> QED
    BY <2>1, <2>2 DEF Backed, windows
<1>7. CASE earlier # {}
  <2> DEFINE m == Max(earlier)
  <2>1. earlier \subseteq 0 .. Days /\ Days \in Nat
    BY <1>1, HaulConstants DEF IsSchedule
  <2>2. m \in earlier /\ \A v \in earlier : v <= m
    BY <1>7, <2>1, MaxIsThere
  <2>3. m \in DOMAIN windows /\ m < w /\ gap.downAt = windows[m].to
    BY <1>3, <1>7, <2>2
  <2>4. \A v \in DOMAIN windows : v < w => v <= m
    BY <2>2
  <2> HIDE DEF m
  <2>5. windows[m].to < windows[w].from
    BY <1>1, <1>2, <2>3 DEF IsSchedule
  <2>6. \A v \in DOMAIN windows : v < w => windows[v].to <= windows[m].to
    <3> SUFFICES ASSUME NEW v \in DOMAIN windows, v < w PROVE windows[v].to <= windows[m].to
      OBVIOUS
    <3>1. v = m \/ v < m
      BY <1>2, <2>3, <2>4
    <3>2. v < m => windows[v].to < windows[m].from
      BY <1>1, <2>3 DEF IsSchedule
    <3> QED
      BY <1>4, <2>3, <3>1, <3>2
  <2>7. gap.downAt # NoTime
    BY <1>4, <2>3 DEF NoTime
  <2>8. \A v \in DOMAIN windows : windows[v].from >= gap.upAt \/ windows[v].to <= gap.downAt
    BY <1>2, <1>3, <1>4, <1>5, <2>3, <2>6
  <2>9. gap.upAt \in Nat /\ gap.downAt \in Nat /\ gap.downAt < gap.upAt
    BY <1>2, <1>3, <1>4, <2>3, <2>5, SMTT(60)
  <2>10. ~ContactAt(windows, gap.downAt + gap.upAt)
    <3> SUFFICES ASSUME NEW v \in DOMAIN windows, 2 * windows[v].from <= gap.downAt + gap.upAt,
                        gap.downAt + gap.upAt < 2 * windows[v].to
                 PROVE  FALSE
      BY DEF ContactAt
    <3> QED
      BY <1>4, <2>8, <2>9, SMTT(60)
  <2> QED
    BY <2>7, <2>8, <2>10 DEF Backed, windows
<1> QED
  BY <1>6, <1>7
-----------------------------------------------------------------------------
(* The invariant of a mission.                                             *)

HaulTyped ==
  /\ direction \in Directions /\ leg \in 1 .. Len(Links(direction))
  /\ round \in Nat \ {0}
  /\ waiting \subseteq Carried(direction) /\ lost \subseteq Carried(direction)
  /\ lost # {} => Link.space /\ direction # "ack"
  /\ free \in Nat \cup {NoTime} /\ landed \in Nat \cup {NoTime}
  /\ readyNow \in [Carried(direction) -> Nat]

IsSend(s) ==
  /\ s.dir \in Directions /\ s.leg \in 1 .. Len(Links(s.dir))
  /\ s.item \in Carried(s.dir) /\ s.round \in Nat \ {0}
  /\ s.had \in Nat /\ s.start \in Nat /\ s.end \in Nat /\ s.arrive \in Nat
  /\ s.start <= s.arrive

\* What was sent over the link in use.
LegSends == {s \in sends : s.dir = direction /\ s.leg = leg}

\* Nothing was sent over a link that is still to come.
SendsAreVisited ==
  \A s \in sends : IsSend(s) /\ ((s.dir = direction /\ s.leg <= leg) \/ (s.dir = "up" /\ direction = "ack"))

\* The link is free again after all of them, and what was sent in a round has
\* landed, and a NACK has travelled back, before one of the next may go.
RoundsAreApart ==
  /\ \A s \in LegSends :
       /\ s.end <= free /\ s.round <= round
       /\ s.round = round => s.arrive <= landed
       /\ s.round < round => \A i \in waiting : s.arrive + LightTime <= readyNow[i]
  /\ lost # {} => \E s \in LegSends : s.round = round

AllGoThrough ==
  \A i \in Carried(direction) : i \in waiting \cup lost \/ \E s \in LegSends : s.item = i /\ ~s.lost

\* No window held it from when it was there until it went.
HeldOver(s) == \A w \in DOMAIN WindowsOf(s) : ~(WindowsOf(s)[w].from <= s.had /\ s.start < WindowsOf(s)[w].to)

\* It was there before this window of the link opened, and went out in it.
WaitedFor(w, s) ==
  /\ w \in DOMAIN Link.windows
  /\ s.had < Link.windows[w].from /\ Link.windows[w].from <= s.start /\ s.start < Link.windows[w].to

DelaysAreNoted ==
  /\ \A d \in delayedBy : Link.space /\ \E s \in LegSends : s.item = d.item /\ WaitedFor(d.w, s)
  /\ \A s \in LegSends : OverSpace(s) /\ HeldOver(s) =>
       \E d \in delayedBy : d.item = s.item /\ WaitedFor(d.w, s)

HaulInvariant ==
  HaulTyped /\ SendsAreVisited /\ RoundsAreApart /\ AllGoThrough /\ DelaysAreNoted /\ ScheduleKept

\* A mission follows one schedule.
LEMMA ScheduleStays ==
  ASSUME UNCHANGED missed
  PROVE  /\ \A dir : Links(dir)' = Links(dir)
         /\ \A s : OverSpace(s)' = OverSpace(s) /\ WindowsOf(s)' = WindowsOf(s) /\ IsSend(s)' = IsSend(s)
         /\ \A s : HeldOver(s)' = HeldOver(s)
         /\ \A gap : Backed(gap)' = Backed(gap) /\ \A s : EndsWait(gap, s)' = EndsWait(gap, s)
<1>1. UpWindows' = UpWindows /\ DownWindows' = DownWindows
  BY DEF UpWindows, DownWindows, TrackDays, Track
<1>2. \A dir : Links(dir)' = Links(dir)
  BY <1>1 DEF Links, SpaceLink, Ground, NoWindows, Track
<1>3. \A s : OverSpace(s)' = OverSpace(s) /\ WindowsOf(s)' = WindowsOf(s) /\ IsSend(s)' = IsSend(s)
  BY <1>2 DEF OverSpace, WindowsOf, IsSend, Directions, Carried, BundleIds
<1>4. \A s : HeldOver(s)' = HeldOver(s)
  BY <1>3 DEF HeldOver
<1>5. \A gap : Backed(gap)' = Backed(gap) /\ \A s : EndsWait(gap, s)' = EndsWait(gap, s)
  BY <1>2, <1>3 DEF Backed, ContactAt, EndsWait
<1> QED
  BY <1>2, <1>3, <1>4, <1>5

\* A path has begun.
LEMMA HaulBegins == HaulInit => HaulInvariant
<1> SUFFICES ASSUME HaulInit PROVE HaulInvariant
  OBVIOUS
<1>1. direction \in {"down", "up"} /\ readyNow = [i \in BundleIds |-> ReadyAt[direction]]
  BY DEF HaulInit
<1>2. /\ waiting = BundleIds /\ leg = 1 /\ round = 1 /\ free = NoTime /\ lost = {} /\ landed = NoTime
      /\ delayedBy = {} /\ sends = {} /\ gaps = {}
  BY DEF HaulInit
<1>3. Carried(direction) = BundleIds /\ direction \in Directions
  BY <1>1 DEF Carried, Directions
<1>4. ReadyAt[direction] \in Nat /\ 1 \in 1 .. Len(Links(direction))
  BY <1>1, <1>3, HaulConstants, LinksAre
<1>5. HaulTyped
  BY <1>1, <1>2, <1>3, <1>4 DEF HaulTyped
<1>6. SendsAreVisited /\ RoundsAreApart /\ DelaysAreNoted /\ AllGoThrough
  BY <1>2, <1>3 DEF SendsAreVisited, RoundsAreApart, DelaysAreNoted, AllGoThrough, LegSends
<1>7. ScheduleKept
  BY <1>2 DEF ScheduleKept, TracksAreKept, WaitsAreRecorded
<1> QED
  BY <1>5, <1>6, <1>7 DEF HaulInvariant

SendOf(i, start, tx, gone) ==
  [dir |-> direction, leg |-> leg, item |-> i, round |-> round, had |-> readyNow[i], start |-> start,
   end |-> start + tx, arrive |-> start + tx + Link.delay, lost |-> gone]

\* A bundle that goes out: when it is there and the link is free, within a
\* window; noted if this window opened after it was there.
GoesOut(i, start, tx, gone) ==
  /\ readyNow[i] <= start /\ free <= start
  /\ Link.space => \E w \in DOMAIN Link.windows : Link.windows[w].from <= start /\ start + tx <= Link.windows[w].to
  /\ waiting' = waiting \ {i} /\ free' = start + tx
  /\ landed' \in Nat /\ landed <= landed' /\ start + tx + Link.delay <= landed'
  /\ gone => Link.space /\ direction # "ack"
  /\ lost' = (IF gone THEN lost \cup {i} ELSE lost)
  /\ sends' = sends \cup {SendOf(i, start, tx, gone)}
  /\ \/ /\ delayedBy' = delayedBy
        /\ Link.space => \E w \in DOMAIN Link.windows : /\ Link.windows[w].from <= readyNow[i]
                                                        /\ start < Link.windows[w].to
     \/ /\ Link.space
        /\ \E w \in DOMAIN Link.windows :
             /\ readyNow[i] < Link.windows[w].from
             /\ Link.windows[w].from <= start /\ start < Link.windows[w].to
             /\ delayedBy' = delayedBy \cup {[w |-> w, item |-> i]}
  /\ UNCHANGED <<direction, missed, leg, round, readyNow, gaps, outcome>>

\* A transmission is one of these, or the end of the run.
LEMMA TransmitIs ==
  ASSUME HaulTyped, Transmit
  PROVE  \/ outcome = "running" /\ outcome' = "failed"
            /\ UNCHANGED <<direction, missed, leg, round, waiting, free, lost, landed, readyNow, delayedBy,
                           sends, gaps>>
         \/ \E i \in waiting, start \in Nat, tx \in Nat, gone \in BOOLEAN : GoesOut(i, start, tx, gone)
<1>1. IsLink(Link)
  BY LinksAre, SMTT(60) DEF HaulTyped, Link
<1>2. PICK i \in waiting :
        LET tx == Tx(Link, i)
            from == Max({readyNow[i], free})
            start == IF Link.space THEN NextStart(Link.windows, from, tx) ELSE from
            w == WindowOf(Link.windows, start)
            late == Link.space /\ start > readyNow[i] /\ Link.windows[w].from > readyNow[i]
        IN  IF start = NoTime
            THEN outcome' = "failed" /\ UNCHANGED <<waiting, free, landed, delayedBy, sends, lost>>
            ELSE /\ waiting' = waiting \ {i}
                 /\ free' = start + tx
                 /\ landed' = Max({landed, start + tx + Link.delay})
                 /\ delayedBy' = IF late THEN delayedBy \cup {[w |-> w, item |-> i]} ELSE delayedBy
                 /\ \E gone \in BOOLEAN :
                      /\ gone => Link.space /\ direction # "ack" /\ Losses < MaxLosses
                      /\ lost' = IF gone THEN lost \cup {i} ELSE lost
                      /\ sends' = sends \cup {SendOf(i, start, tx, gone)}
                 /\ UNCHANGED outcome
  BY DEF Transmit, SendOf
<1>3. outcome = "running" /\ UNCHANGED <<direction, missed, leg, round, readyNow, gaps>>
  BY DEF Transmit, Running
<1> DEFINE tx == Tx(Link, i)
           from == Max({readyNow[i], free})
           start == IF Link.space THEN NextStart(Link.windows, from, tx) ELSE from
           w == WindowOf(Link.windows, start)
           late == Link.space /\ start > readyNow[i] /\ Link.windows[w].from > readyNow[i]
<1>4. readyNow[i] \in Nat /\ i \in BundleIds
  <2>1. i \in Carried(direction) /\ Carried(direction) \subseteq BundleIds
    BY HaulConstants DEF HaulTyped, Carried
  <2> QED
    BY <2>1 DEF HaulTyped
<1>5. from \in Nat /\ readyNow[i] <= from /\ free <= from
  <2> DEFINE r == readyNow[i]
  <2>1. r \in Nat /\ (free \in Nat \/ free = -1)
    BY <1>4 DEF HaulTyped, NoTime
  <2> HIDE DEF r
  <2>2. r \in Int /\ free \in Int
    BY <2>1
  <2>3. Max({r, free}) \in {r, free} /\ r <= Max({r, free}) /\ free <= Max({r, free})
    BY ONLY <2>2, MaxOfTwo
  <2>4. Max({r, free}) \in Nat
    BY <2>1, <2>3
  <2> QED
    BY <2>3, <2>4 DEF r
<1>6. tx \in Nat /\ (Link.space => tx # 0)
  BY <1>4, HaulConstants DEF Tx
<1>7. CASE start = NoTime
  BY <1>2, <1>3, <1>7
<1>8. CASE start # NoTime
  <2>1. PICK gone \in BOOLEAN :
          /\ gone => Link.space /\ direction # "ack"
          /\ lost' = IF gone THEN lost \cup {i} ELSE lost
          /\ sends' = sends \cup {SendOf(i, start, tx, gone)}
    BY <1>2, <1>8, SMTT(60)
  <2>2. /\ waiting' = waiting \ {i} /\ free' = start + tx /\ UNCHANGED outcome
        /\ landed' = Max({landed, start + tx + Link.delay})
        /\ delayedBy' = IF late THEN delayedBy \cup {[w |-> w, item |-> i]} ELSE delayedBy
    BY <1>2, <1>8
  <2> HIDE DEF from, tx
  <2>3. Link.space => /\ start \in Nat /\ from <= start
                      /\ \E v \in DOMAIN Link.windows :
                           Link.windows[v].from <= start /\ start + tx <= Link.windows[v].to
    BY <1>1, <1>5, <1>6, <1>8, NextStartFits DEF IsLink
  <2>4. start \in Nat /\ from <= start
    BY <1>1, <1>5, <2>3 DEF IsLink
  <2> HIDE DEF start
  <2>5. Link.space => /\ w \in DOMAIN Link.windows /\ Link.windows[w].from \in Nat
                      /\ Link.windows[w].from <= start /\ start < Link.windows[w].to
    <3> SUFFICES ASSUME Link.space
                 PROVE  /\ w \in DOMAIN Link.windows /\ Link.windows[w].from \in Nat
                        /\ Link.windows[w].from <= start /\ start < Link.windows[w].to
      OBVIOUS
    <3>1. PICK v \in DOMAIN Link.windows : Link.windows[v].from <= start /\ start + tx <= Link.windows[v].to
      BY <2>3
    <3>2. Link.windows[v].to \in Nat
      BY <1>1 DEF IsLink, IsSchedule
    <3>3. start < Link.windows[v].to
      BY <1>6, <2>4, <3>1, <3>2
    <3>4. /\ WindowOf(Link.windows, start) \in DOMAIN Link.windows
          /\ Link.windows[WindowOf(Link.windows, start)].from <= start
          /\ start < Link.windows[WindowOf(Link.windows, start)].to
      BY <3>1, <3>3, WindowIsThere
    <3> QED
      BY <1>1, <3>4 DEF IsLink, IsSchedule
  <2> DEFINE there == start + tx + Link.delay
  <2>6. there \in Nat /\ landed \in Int
    BY <1>1, <1>6, <2>4 DEF IsLink, HaulTyped, NoTime
  <2>7. landed' \in Nat /\ landed <= landed' /\ there <= landed'
    <3> HIDE DEF there
    <3>1. Max({landed, there}) \in {landed, there} /\ landed <= Max({landed, there}) /\ there <= Max({landed, there})
      BY <2>6, MaxOfTwo
    <3>2. landed' = Max({landed, there})
      BY <2>2 DEF there
    <3> QED
      BY <2>6, <3>1, <3>2
  <2> HIDE DEF w
  <2>8. \/ /\ delayedBy' = delayedBy
           /\ Link.space => \E v \in DOMAIN Link.windows : /\ Link.windows[v].from <= readyNow[i]
                                                           /\ start < Link.windows[v].to
        \/ /\ Link.space
           /\ \E v \in DOMAIN Link.windows :
                /\ readyNow[i] < Link.windows[v].from
                /\ Link.windows[v].from <= start /\ start < Link.windows[v].to
                /\ delayedBy' = delayedBy \cup {[w |-> v, item |-> i]}
    <3>1. CASE late
      BY <2>2, <2>5, <3>1
    <3>2. CASE ~late
      <4>1. Link.space => Link.windows[w].from <= readyNow[i]
        BY <1>4, <1>5, <2>4, <2>5, <3>2
      <4> QED
        BY <2>2, <2>5, <3>2, <4>1
    <3> QED
      BY <3>1, <3>2
  <2>9. readyNow[i] <= start /\ free <= start
    BY <1>4, <1>5, <2>4 DEF HaulTyped, NoTime
  <2>10. GoesOut(i, start, tx, gone)
    BY <1>3, <2>1, <2>2, <2>3, <2>7, <2>8, <2>9 DEF GoesOut
  <2> QED
    BY <1>6, <2>4, <2>10
<1> QED
  BY <1>7, <1>8

\* What was sent then, and the bundle that goes out now.
LEMMA OneMoreIsSent ==
  ASSUME HaulTyped, SendsAreVisited,
         NEW i \in waiting, NEW start \in Nat, NEW tx \in Nat, NEW gone \in BOOLEAN, GoesOut(i, start, tx, gone)
  PROVE  LET n == SendOf(i, start, tx, gone)
         IN  /\ IsSend(n) /\ n.dir = direction /\ n.leg = leg /\ n.item = i /\ n.round = round
             /\ n.had = readyNow[i] /\ n.start = start /\ n.end = start + tx /\ n.lost = gone
             /\ n.arrive = start + tx + Link.delay
             /\ OverSpace(n) = Link.space /\ WindowsOf(n) = Link.windows
             /\ sends' = sends \cup {n} /\ LegSends' = LegSends \cup {n} /\ n \in LegSends'
<1> DEFINE n == SendOf(i, start, tx, gone)
<1>1. /\ n.dir = direction /\ n.leg = leg /\ n.item = i /\ n.round = round
      /\ n.had = readyNow[i] /\ n.start = start /\ n.end = start + tx /\ n.lost = gone
      /\ n.arrive = start + tx + Link.delay
  BY DEF SendOf
<1> HIDE DEF n
<1>2. sends' = sends \cup {n} /\ UNCHANGED <<direction, leg, missed>>
  BY DEF GoesOut, n
<1>3. OverSpace(n) = Link.space /\ WindowsOf(n) = Link.windows
  BY <1>1 DEF OverSpace, WindowsOf, Link
<1>4. Link.delay \in Nat
  BY LinksAre DEF HaulTyped, Link, IsLink
<1>5. i \in Carried(direction) /\ readyNow[i] \in Nat
  BY DEF HaulTyped
<1>6. IsSend(n)
  BY <1>1, <1>4, <1>5 DEF IsSend, HaulTyped
<1>7. LegSends' = LegSends \cup {n}
  BY <1>1, <1>2 DEF LegSends
<1> QED
  BY <1>1, <1>2, <1>3, <1>6, <1>7 DEF n

\* A bundle goes out within a window, when the link is free.
LEMMA GoesOutOnTrack ==
  ASSUME HaulInvariant,
         NEW i \in waiting, NEW start \in Nat, NEW tx \in Nat, NEW gone \in BOOLEAN, GoesOut(i, start, tx, gone)
  PROVE  TracksAreKept'
<1>0. HaulTyped /\ SendsAreVisited /\ RoundsAreApart /\ TracksAreKept
  BY DEF HaulInvariant, ScheduleKept
<1> DEFINE n == SendOf(i, start, tx, gone)
<1>1. /\ n.dir = direction /\ n.leg = leg /\ n.item = i /\ n.round = round
      /\ n.had = readyNow[i] /\ n.start = start /\ n.end = start + tx
      /\ OverSpace(n) = Link.space /\ WindowsOf(n) = Link.windows /\ sends' = sends \cup {n}
  BY <1>0, OneMoreIsSent
<1> HIDE DEF n
<1>2. readyNow[i] \in Nat /\ readyNow[i] <= start /\ free <= start /\ free \in Int
  BY <1>0 DEF GoesOut, HaulTyped, NoTime
<1>3. OverSpace(n) =>
        \E w \in DOMAIN WindowsOf(n) : WindowsOf(n)[w].from <= n.start /\ n.end <= WindowsOf(n)[w].to
  BY <1>1 DEF GoesOut
<1>4. ASSUME NEW t \in sends, t.dir = n.dir, t.leg = n.leg
      PROVE  /\ t.end <= n.start
             /\ n.round > t.round => n.start >= t.arrive + LightTime
             /\ ~(t.round > n.round)
  <2>1. t \in LegSends /\ IsSend(t)
    BY <1>0, <1>1, <1>4 DEF LegSends, SendsAreVisited
  <2>2. t.end <= free /\ t.round <= round /\ (t.round < round => t.arrive + LightTime <= readyNow[i])
    BY <1>0, <2>1 DEF RoundsAreApart
  <2>3. t.end \in Nat /\ t.round \in Nat /\ round \in Nat /\ t.arrive + LightTime \in Nat
    <3>1. t.end \in Nat /\ t.round \in Nat /\ t.arrive \in Nat
      BY <2>1 DEF IsSend
    <3>2. round \in Nat
      BY <1>0 DEF HaulTyped
    <3>3. LightTime \in Nat
      BY HaulConstants
    <3> QED BY <3>1, <3>2, <3>3
  <2> QED
    BY <1>1, <1>2, <2>2, <2>3
<1>5. \A s : OverSpace(s)' = OverSpace(s) /\ WindowsOf(s)' = WindowsOf(s)
  BY ScheduleStays DEF GoesOut
<1> SUFFICES ASSUME NEW s \in sends'
             PROVE  /\ s.had <= s.start
                    /\ OverSpace(s) =>
                         \E w \in DOMAIN WindowsOf(s) : WindowsOf(s)[w].from <= s.start /\ s.end <= WindowsOf(s)[w].to
                    /\ \A t \in sends' \ {s} :
                         t.dir = s.dir /\ t.leg = s.leg =>
                           /\ t.end <= s.start \/ s.end <= t.start
                           /\ s.round > t.round => s.start >= t.arrive + LightTime
  BY <1>5 DEF TracksAreKept
<1>6. s \in sends \/ s = n
  BY <1>1
<1>7. /\ s.had <= s.start
      /\ OverSpace(s) =>
           \E w \in DOMAIN WindowsOf(s) : WindowsOf(s)[w].from <= s.start /\ s.end <= WindowsOf(s)[w].to
  BY <1>0, <1>1, <1>2, <1>3, <1>6 DEF TracksAreKept
<1>8. ASSUME NEW t \in sends' \ {s}, t.dir = s.dir, t.leg = s.leg
      PROVE  /\ t.end <= s.start \/ s.end <= t.start
             /\ s.round > t.round => s.start >= t.arrive + LightTime
  <2>1. t \in sends \/ t = n
    BY <1>1
  <2>2. CASE s = n
    BY <1>4, <1>8, <2>1, <2>2
  <2>3. CASE t = n
    BY <1>4, <1>6, <1>8, <2>3
  <2>4. CASE s \in sends /\ t \in sends
    BY <1>0, <1>8, <2>4 DEF TracksAreKept
  <2> QED
    BY <1>6, <2>1, <2>2, <2>3, <2>4
<1> QED
  BY <1>7, <1>8

\* A bundle that goes out now is in the round, gets through or is lost.
LEMMA GoesOutInRound ==
  ASSUME HaulInvariant,
         NEW i \in waiting, NEW start \in Nat, NEW tx \in Nat, NEW gone \in BOOLEAN, GoesOut(i, start, tx, gone)
  PROVE  HaulTyped' /\ SendsAreVisited' /\ RoundsAreApart' /\ AllGoThrough'
<1>0. HaulTyped /\ SendsAreVisited /\ RoundsAreApart /\ AllGoThrough
  BY DEF HaulInvariant
<1> DEFINE n == SendOf(i, start, tx, gone)
<1>1. /\ IsSend(n) /\ n.dir = direction /\ n.leg = leg /\ n.item = i /\ n.round = round /\ n.lost = gone
      /\ n.start = start /\ n.end = start + tx /\ n.arrive = start + tx + Link.delay
      /\ sends' = sends \cup {n} /\ LegSends' = LegSends \cup {n}
  BY <1>0, OneMoreIsSent
<1> HIDE DEF n
<1>2. /\ UNCHANGED <<direction, missed, leg, round, readyNow>>
      /\ waiting' = waiting \ {i} /\ free' = start + tx
      /\ landed' \in Nat /\ landed <= landed' /\ n.arrive <= landed'
      /\ gone => Link.space /\ direction # "ack"
      /\ lost' = IF gone THEN lost \cup {i} ELSE lost
  BY <1>1 DEF GoesOut
<1>3. Links(direction)' = Links(direction) /\ Link' = Link /\ Carried(direction)' = Carried(direction)
  BY <1>2, ScheduleStays DEF Link, Carried, BundleIds
<1>4. HaulTyped'
  BY <1>0, <1>2, <1>3 DEF HaulTyped
<1>5. SendsAreVisited'
  <2>1. \A s : IsSend(s)' = IsSend(s)
    BY <1>2, ScheduleStays
  <2>2. leg <= leg
    BY <1>0, LinksAre DEF HaulTyped
  <2> QED
    BY <1>0, <1>1, <1>2, <2>1, <2>2 DEF SendsAreVisited
<1>6. RoundsAreApart'
  <2>1. ASSUME NEW s \in LegSends
        PROVE  /\ s.end <= free' /\ s.round <= round
               /\ s.round = round => s.arrive <= landed'
               /\ s.round < round => \A j \in waiting' : s.arrive + LightTime <= readyNow[j]
    <3>1. /\ s.end <= free /\ s.round <= round
          /\ s.round = round => s.arrive <= landed
          /\ s.round < round => \A j \in waiting : s.arrive + LightTime <= readyNow[j]
      BY <1>0 DEF RoundsAreApart
    <3>2. free \in Int /\ landed \in Int /\ s.end \in Nat /\ s.arrive \in Nat /\ free <= start
      BY <1>0 DEF HaulTyped, NoTime, SendsAreVisited, IsSend, LegSends, GoesOut
    <3> QED
      BY <1>2, <3>1, <3>2
  <2>2. n.end <= free' /\ n.round <= round /\ n.arrive <= landed' /\ ~(n.round < round)
    BY <1>0, <1>1, <1>2 DEF HaulTyped
  <2>3. \A s \in LegSends' : /\ s.end <= free' /\ s.round <= round'
                             /\ s.round = round' => s.arrive <= landed'
                             /\ s.round < round' => \A j \in waiting' : s.arrive + LightTime <= readyNow'[j]
    BY <1>1, <1>2, <2>1, <2>2
  <2>4. \E s \in LegSends' : s.round = round'
    BY <1>1, <1>2
  <2> QED
    BY <2>3, <2>4 DEF RoundsAreApart
<1>7. AllGoThrough'
  <2> SUFFICES ASSUME NEW j \in Carried(direction)
               PROVE  j \in waiting' \cup lost' \/ \E s \in LegSends' : s.item = j /\ ~s.lost
    BY <1>2, <1>3 DEF AllGoThrough
  <2>1. CASE j = i
    BY <1>1, <1>2, <2>1
  <2>2. CASE j # i
    BY <1>0, <1>1, <1>2, <2>2 DEF AllGoThrough
  <2> QED
    BY <2>1, <2>2
<1> QED
  BY <1>4, <1>5, <1>6, <1>7

\* It is noted if it waited for its window.
LEMMA GoesOutNoted ==
  ASSUME HaulInvariant,
         NEW i \in waiting, NEW start \in Nat, NEW tx \in Nat, NEW gone \in BOOLEAN, GoesOut(i, start, tx, gone)
  PROVE  DelaysAreNoted'
<1>0. HaulTyped /\ SendsAreVisited /\ DelaysAreNoted
  BY DEF HaulInvariant
<1> DEFINE n == SendOf(i, start, tx, gone)
<1>1. /\ n.item = i /\ n.had = readyNow[i] /\ n.start = start
      /\ OverSpace(n) = Link.space /\ WindowsOf(n) = Link.windows /\ LegSends' = LegSends \cup {n}
  BY <1>0, OneMoreIsSent, SMTT(60)
<1> HIDE DEF n
<1>2. /\ Link' = Link
      /\ \A s : OverSpace(s)' = OverSpace(s) /\ HeldOver(s)' = HeldOver(s)
      /\ \A w, s : WaitedFor(w, s)' = WaitedFor(w, s)
  BY ScheduleStays DEF GoesOut, Link, WaitedFor
<1>3. delayedBy \subseteq delayedBy'
  BY DEF GoesOut
<1>4. ASSUME NEW d \in delayedBy'
      PROVE  Link.space /\ \E s \in LegSends' : s.item = d.item /\ WaitedFor(d.w, s)
  <2>1. CASE d \in delayedBy
    BY <1>0, <1>1, <2>1 DEF DelaysAreNoted
  <2>2. CASE d \notin delayedBy
    <3>1. PICK w \in DOMAIN Link.windows :
            /\ Link.space /\ readyNow[i] < Link.windows[w].from
            /\ Link.windows[w].from <= start /\ start < Link.windows[w].to
            /\ d = [w |-> w, item |-> i]
      BY <2>2 DEF GoesOut
    <3> QED
      BY <1>1, <3>1 DEF WaitedFor
  <2> QED
    BY <2>1, <2>2
<1>5. ASSUME NEW s \in LegSends', OverSpace(s), HeldOver(s)
      PROVE  \E d \in delayedBy' : d.item = s.item /\ WaitedFor(d.w, s)
  <2>1. CASE s \in LegSends
    BY <1>0, <1>3, <1>5, <2>1 DEF DelaysAreNoted
  <2>2. CASE s = n
    <3>1. /\ Link.space
          /\ \A w \in DOMAIN Link.windows : ~(Link.windows[w].from <= readyNow[i] /\ start < Link.windows[w].to)
      BY <1>1, <1>5, <2>2 DEF HeldOver
    <3>2. PICK w \in DOMAIN Link.windows :
            /\ readyNow[i] < Link.windows[w].from
            /\ Link.windows[w].from <= start /\ start < Link.windows[w].to
            /\ delayedBy' = delayedBy \cup {[w |-> w, item |-> i]}
      BY <3>1 DEF GoesOut
    <3> DEFINE d == [w |-> w, item |-> i]
    <3>3. d \in delayedBy' /\ d.item = i /\ d.w = w
      BY <3>2
    <3> HIDE DEF d
    <3> QED
      BY <1>1, <2>2, <3>2, <3>3 DEF WaitedFor
  <2> QED
    BY <1>1, <2>1, <2>2
<1> QED
  BY <1>2, <1>4, <1>5 DEF DelaysAreNoted

\* Records that stay, of a link that is not over.
LEMMA RecordsStay ==
  ASSUME WaitsAreRecorded, UNCHANGED <<missed, gaps, direction, leg>>,
         outcome = "running", outcome' # "carried", sends \subseteq sends',
         \A s \in sends' \ sends : s.dir = direction /\ s.leg = leg, leg \in Nat
  PROVE  WaitsAreRecorded'
<1>1. \A s : OverSpace(s)' = OverSpace(s) /\ WindowsOf(s)' = WindowsOf(s)
  BY ScheduleStays
<1>2. \A gap : Backed(gap)' = Backed(gap) /\ \A s : EndsWait(gap, s)' = EndsWait(gap, s)
  BY ScheduleStays
<1>3. \A s \in sends' : s.dir # direction \/ s.leg < leg => s \in sends
  OBVIOUS
<1> QED
  BY <1>1, <1>2, <1>3 DEF WaitsAreRecorded

\* The next bundle goes out.
LEMMA TransmitKeeps == HaulInvariant /\ Transmit => HaulInvariant'
<1> SUFFICES ASSUME HaulInvariant, Transmit PROVE HaulInvariant'
  OBVIOUS
<1>1. HaulTyped /\ SendsAreVisited /\ leg \in Nat /\ WaitsAreRecorded /\ outcome = "running"
  BY LinksAre DEF HaulInvariant, HaulTyped, ScheduleKept, Transmit, Running
<1>2. CASE /\ outcome' = "failed"
           /\ UNCHANGED <<direction, missed, leg, round, waiting, free, lost, landed, readyNow, delayedBy,
                          sends, gaps>>
  <2>1. /\ Link' = Link /\ LegSends' = LegSends /\ Carried(direction)' = Carried(direction)
        /\ Links(direction)' = Links(direction)
        /\ \A s : OverSpace(s)' = OverSpace(s) /\ WindowsOf(s)' = WindowsOf(s) /\ IsSend(s)' = IsSend(s)
        /\ \A s : HeldOver(s)' = HeldOver(s)
        /\ \A w, s : WaitedFor(w, s)' = WaitedFor(w, s)
    BY <1>2, ScheduleStays DEF Link, LegSends, Carried, BundleIds, WaitedFor
  <2>2. WaitsAreRecorded'
    BY <1>1, <1>2, RecordsStay
  <2>3. HaulTyped' /\ SendsAreVisited' /\ RoundsAreApart' /\ AllGoThrough'
    BY <1>2, <2>1 DEF HaulInvariant, HaulTyped, SendsAreVisited, RoundsAreApart, AllGoThrough
  <2>4. DelaysAreNoted' /\ TracksAreKept'
    BY <1>2, <2>1 DEF HaulInvariant, DelaysAreNoted, ScheduleKept, TracksAreKept
  <2> QED
    BY <2>2, <2>3, <2>4 DEF HaulInvariant, ScheduleKept
<1>3. ASSUME NEW i \in waiting, NEW start \in Nat, NEW tx \in Nat, NEW gone \in BOOLEAN, GoesOut(i, start, tx, gone)
      PROVE  HaulInvariant'
  <2>1. LET n == SendOf(i, start, tx, gone) IN n.dir = direction /\ n.leg = leg /\ sends' = sends \cup {n}
    BY <1>1, <1>3, OneMoreIsSent
  <2>2. sends \subseteq sends' /\ \A s \in sends' \ sends : s.dir = direction /\ s.leg = leg
    BY <2>1
  <2>3. UNCHANGED <<missed, gaps, direction, leg>> /\ outcome' # "carried"
    BY <1>1, <1>3 DEF GoesOut
  <2>4. WaitsAreRecorded'
    BY <1>1, <2>2, <2>3, RecordsStay
  <2> QED
    BY <1>3, <2>4, GoesOutOnTrack, GoesOutInRound, GoesOutNoted DEF HaulInvariant, ScheduleKept
<1> QED
  BY <1>1, <1>2, <1>3, TransmitIs, SMTT(60)

\* A round begins when the NACK for what the last one lost is here.
LEMMA AskAgainKeeps == HaulInvariant /\ AskAgain => HaulInvariant'
<1> SUFFICES ASSUME HaulInvariant, AskAgain PROVE HaulInvariant'
  OBVIOUS
<1>0. /\ HaulTyped /\ SendsAreVisited /\ RoundsAreApart /\ AllGoThrough /\ DelaysAreNoted
      /\ TracksAreKept /\ WaitsAreRecorded
  BY DEF HaulInvariant, ScheduleKept
<1> DEFINE tx == NackTx(Cardinality(lost))
           start == NextStart(Link.reverse, landed, tx)
           here == start + tx + LightTime
<1>1. /\ waiting = {} /\ lost # {} /\ outcome = "running"
      /\ UNCHANGED <<direction, missed, leg, free, delayedBy, sends, gaps>>
  BY DEF AskAgain, Running
<1>2. /\ Link' = Link /\ LegSends' = LegSends /\ Carried(direction)' = Carried(direction)
      /\ Links(direction)' = Links(direction)
      /\ \A s : OverSpace(s)' = OverSpace(s) /\ WindowsOf(s)' = WindowsOf(s) /\ IsSend(s)' = IsSend(s)
      /\ \A s : HeldOver(s)' = HeldOver(s)
      /\ \A w, s : WaitedFor(w, s)' = WaitedFor(w, s)
  BY <1>1, ScheduleStays DEF Link, LegSends, Carried, BundleIds, WaitedFor
<1>3. outcome' # "carried" /\ leg \in Nat
  BY <1>0, <1>1, LinksAre, SMTT(60) DEF AskAgain, HaulTyped
<1>4. SendsAreVisited' /\ DelaysAreNoted' /\ TracksAreKept'
  BY <1>0, <1>1, <1>2 DEF SendsAreVisited, DelaysAreNoted, TracksAreKept
<1>5. WaitsAreRecorded'
  BY <1>0, <1>1, <1>3, RecordsStay
<1>6. CASE UNCHANGED <<readyNow, waiting, round, lost, landed>>
  <2>1. HaulTyped' /\ RoundsAreApart' /\ AllGoThrough'
    BY <1>0, <1>1, <1>2, <1>6 DEF HaulTyped, RoundsAreApart, AllGoThrough
  <2> QED
    BY <1>4, <1>5, <2>1 DEF HaulInvariant, ScheduleKept
<1>7. CASE /\ start # NoTime
           /\ readyNow' = [i \in BundleIds |-> IF i \in lost THEN here ELSE readyNow[i]]
           /\ waiting' = lost /\ round' = round + 1 /\ lost' = {} /\ landed' = NoTime
  <2>1. tx \in Nat
    <3>1. lost \subseteq 1 .. Len(SpaceTx) /\ Len(SpaceTx) \in Nat
      BY <1>0, <1>1, HaulConstants DEF HaulTyped, Carried
    <3>2. IsFiniteSet(1 .. Len(SpaceTx)) /\ Cardinality(1 .. Len(SpaceTx)) = Len(SpaceTx)
      BY <3>1, FS_Interval, SMTT(60)
    <3>3. IsFiniteSet(lost) /\ Cardinality(lost) <= Len(SpaceTx)
      BY <3>1, <3>2, FS_Subset, ZenonT(60)
    <3>4. Cardinality(lost) \in Nat /\ Cardinality(lost) # 0
      BY <1>1, <3>3, FS_CardinalityType, FS_EmptySet
    <3> QED
      BY <3>1, <3>3, <3>4, HaulConstants
  <2>2. PICK last \in LegSends : last.round = round
    BY <1>0, <1>1 DEF RoundsAreApart
  <2>3. /\ landed \in Nat /\ last.arrive <= landed /\ last.arrive \in Nat
        /\ last.start <= last.arrive /\ last.start \in Nat
    <3>1. last.arrive <= landed
      BY <1>0, <2>2 DEF RoundsAreApart
    <3>2. IsSend(last)
      BY <1>0, <2>2 DEF LegSends, SendsAreVisited
    <3> QED
      BY <1>0, <3>1, <3>2 DEF IsSend, HaulTyped, NoTime
  <2>4. IsSchedule(Link.reverse)
    BY <1>0, LinksAre DEF HaulTyped, Link, IsLink
  <2> HIDE DEF tx
  <2>5. start \in Nat /\ landed <= start
    BY <1>7, <2>1, <2>3, <2>4, NextStartFits
  <2> HIDE DEF start
  <2>6. here \in Nat /\ landed + LightTime <= here
    BY <2>1, <2>3, <2>5, HaulConstants
  <2> HIDE DEF here
  <2>7. Carried(direction) = BundleIds /\ lost \subseteq BundleIds
    BY <1>0, <1>1 DEF HaulTyped, Carried
  <2>8. readyNow' \in [BundleIds -> Nat] /\ \A i \in lost : readyNow'[i] = here
    BY <1>0, <1>7, <2>6, <2>7 DEF HaulTyped
  <2>9. HaulTyped'
    BY <1>0, <1>1, <1>2, <1>7, <2>7, <2>8 DEF HaulTyped
  <2>10. ASSUME NEW s \in LegSends PROVE s.arrive + LightTime <= here /\ s.round < round + 1 /\ s.end <= free
    <3>1. /\ s.end <= free /\ s.round <= round
          /\ s.round = round => s.arrive <= landed
      BY <1>0 DEF RoundsAreApart
    <3>2. s.arrive \in Nat /\ s.round \in Nat /\ round \in Nat
      BY <1>0 DEF SendsAreVisited, IsSend, LegSends, HaulTyped
    <3>3. s.round < round => s.arrive + LightTime <= last.start
      <4> SUFFICES ASSUME s.round < round PROVE s.arrive + LightTime <= last.start
        OBVIOUS
      <4>1. last # s /\ last \in sends /\ s \in sends /\ s.dir = last.dir /\ s.leg = last.leg /\ last.round > s.round
        BY <2>2, <3>2 DEF LegSends
      <4> QED
        BY <1>0, <4>1 DEF TracksAreKept
    <3> QED
      BY <2>3, <2>6, <3>1, <3>2, <3>3, HaulConstants, SMTT(60)
  <2>11. RoundsAreApart'
    <3> SUFFICES ASSUME NEW s \in LegSends
                 PROVE  /\ s.end <= free' /\ s.round <= round'
                        /\ s.round = round' => s.arrive <= landed'
                        /\ s.round < round' => \A i \in waiting' : s.arrive + LightTime <= readyNow'[i]
      BY <1>2, <1>7 DEF RoundsAreApart
    <3>1. s.round \in Nat /\ round \in Nat
      BY <1>0 DEF SendsAreVisited, IsSend, LegSends, HaulTyped
    <3> QED
      BY <1>1, <1>7, <2>8, <2>10, <3>1
  <2>12. AllGoThrough'
    BY <1>0, <1>1, <1>2, <1>7 DEF AllGoThrough
  <2> QED
    BY <1>4, <1>5, <2>9, <2>11, <2>12 DEF HaulInvariant, ScheduleKept
<1> QED
  BY <1>6, <1>7 DEF AskAgain

\* The gap records of a link hold who waited, and are backed.
LEMMA GapsOfLink ==
  ASSUME HaulTyped, SendsAreVisited, DelaysAreNoted
  PROVE  /\ \A gap \in GapRecords :
              Backed(gap) /\ \A i \in gap.held : \E s \in sends : s.item = i /\ EndsWait(gap, s)
         /\ \A s \in LegSends : OverSpace(s) /\ HeldOver(s) => \E gap \in GapRecords : EndsWait(gap, s)
<1> DEFINE record(d) == [dir |-> direction, leg |-> leg,
                         downAt |-> ClosedBefore(Link.windows, d.w),
                         upAt |-> Link.windows[d.w].from,
                         held |-> {e.item : e \in {x \in delayedBy : x.w = d.w}}]
<1>0. \A s \in LegSends : s \in sends /\ s.dir = direction /\ s.leg = leg /\ WindowsOf(s) = Link.windows
  BY DEF LegSends, WindowsOf, Link
<1>1. ASSUME NEW gap \in GapRecords
      PROVE  Backed(gap) /\ \A i \in gap.held : \E s \in sends : s.item = i /\ EndsWait(gap, s)
  <2>1. PICK d \in delayedBy : gap = record(d)
    BY DEF GapRecords
  <2>2. /\ gap.dir = direction /\ gap.leg = leg /\ gap.upAt = Link.windows[d.w].from
        /\ gap.downAt = ClosedBefore(Link.windows, d.w)
        /\ gap.held = {e.item : e \in {x \in delayedBy : x.w = d.w}}
    BY <2>1
  <2>3. d.w \in DOMAIN Link.windows
    BY DEF DelaysAreNoted, WaitedFor
  <2>4. Backed(gap)
    BY <2>2, <2>3, PausesAreBacked DEF Link, HaulTyped
  <2>5. ASSUME NEW i \in gap.held
        PROVE  \E s \in sends : s.item = i /\ EndsWait(gap, s)
    <3>1. PICK e \in delayedBy : e.w = d.w /\ e.item = i
      BY <2>2, <2>5
    <3>2. PICK s \in LegSends : s.item = e.item /\ WaitedFor(e.w, s)
      BY DEF DelaysAreNoted
    <3>3. EndsWait(gap, s)
      BY <1>0, <2>2, <2>5, <3>1, <3>2 DEF WaitedFor, EndsWait
    <3> QED
      BY <1>0, <3>1, <3>2, <3>3
  <2> QED
    BY <2>4, <2>5
<1>2. ASSUME NEW s \in LegSends, OverSpace(s), HeldOver(s)
      PROVE  \E gap \in GapRecords : EndsWait(gap, s)
  <2>1. PICK d \in delayedBy : d.item = s.item /\ WaitedFor(d.w, s)
    BY <1>2 DEF DelaysAreNoted
  <2> DEFINE gap == record(d)
  <2>2. gap \in GapRecords
    BY DEF GapRecords
  <2>3. /\ gap.dir = direction /\ gap.leg = leg /\ gap.upAt = Link.windows[d.w].from
        /\ gap.held = {e.item : e \in {x \in delayedBy : x.w = d.w}}
    OBVIOUS
  <2>4. s.item \in {e.item : e \in {x \in delayedBy : x.w = d.w}}
    BY <2>1
  <2> HIDE DEF gap
  <2>5. EndsWait(gap, s)
    BY <1>0, <2>1, <2>3, <2>4 DEF WaitedFor, EndsWait
  <2> QED
    BY <2>2, <2>5
<1> QED
  BY <1>1, <1>2

\* When a link is over, its waits are on record.
LEMMA LinkIsRecorded ==
  ASSUME HaulTyped, SendsAreVisited, DelaysAreNoted, WaitsAreRecorded,
         outcome = "running", UNCHANGED <<missed, sends>>, gaps' = gaps \cup GapRecords
  PROVE  WaitsAreRecorded'
<1>1. /\ \A s : OverSpace(s)' = OverSpace(s) /\ WindowsOf(s)' = WindowsOf(s)
      /\ \A gap : Backed(gap)' = Backed(gap) /\ \A s : EndsWait(gap, s)' = EndsWait(gap, s)
  BY ScheduleStays
<1>2. ASSUME NEW gap \in gaps'
      PROVE  Backed(gap) /\ \A i \in gap.held : \E s \in sends : s.item = i /\ EndsWait(gap, s)
  <2>1. CASE gap \in gaps
    BY <2>1 DEF WaitsAreRecorded
  <2>2. CASE gap \in GapRecords
    BY <2>2, GapsOfLink
  <2> QED
    BY <2>1, <2>2
<1>3. ASSUME NEW s \in sends, OverSpace(s), HeldOver(s)
      PROVE  \/ ~(s.dir # direction \/ s.leg < leg) /\ s \notin LegSends
             \/ \E gap \in gaps' : EndsWait(gap, s)
  <2>1. CASE s \in LegSends
    BY <1>3, <2>1, GapsOfLink
  <2>2. CASE s.dir # direction \/ s.leg < leg
    BY <1>3, <2>2 DEF WaitsAreRecorded, HeldOver
  <2> QED
    BY <2>1, <2>2
<1>4. \A s \in sends : s.dir # direction \/ s.leg < leg \/ s \in LegSends
  <2> SUFFICES ASSUME NEW s \in sends, s.dir = direction, ~(s.leg < leg) PROVE s.leg = leg
    BY DEF LegSends
  <2>1. s.leg \in Nat /\ leg \in Nat /\ (s.leg <= leg \/ (s.dir = "up" /\ direction = "ack"))
    BY LinksAre DEF SendsAreVisited, IsSend, HaulTyped
  <2> QED
    BY <2>1
<1>5. \A s \in sends : OverSpace(s) /\ HeldOver(s) => \E gap \in gaps' : EndsWait(gap, s)
  BY <1>3, <1>4
<1> QED
  BY <1>1, <1>2, <1>5 DEF WaitsAreRecorded, HeldOver

\* Numbers in a row are bounded.
LEMMA RowsAreBounded ==
  ASSUME NEW n \in Nat, NEW at \in [1 .. n -> Nat]
  PROVE  \E m \in Nat : \A i \in 1 .. n : at[i] <= m
<1> DEFINE T == {k \in 0 .. n : ~\E m \in Nat : \A i \in 1 .. k : at[i] <= m}
<1>1. CASE T = {}
  <2>1. n \in 0 .. n
    OBVIOUS
  <2> QED
    BY <1>1, <2>1
<1>2. CASE T # {}
  <2>1. PICK k \in T : \A y \in T : k <= y
    <3>1. T \subseteq 0 .. n
      OBVIOUS
    <3> HIDE DEF T
    <3> QED
      BY <1>2, <3>1, FirstIsThere
  <2>2. k \in 0 .. n /\ k # 0
    <3>1. \A i \in 1 .. 0 : at[i] <= 0
      OBVIOUS
    <3> QED
      BY <2>1, <3>1
  <2>3. k - 1 \in 0 .. n /\ ~(k <= k - 1)
    BY <2>2
  <2>4. k - 1 \notin T
    BY <2>1, <2>3
  <2>5. PICK m \in Nat : \A i \in 1 .. k - 1 : at[i] <= m
    BY <2>3, <2>4
  <2>6. at[k] \in Nat
    BY <2>2
  <2> DEFINE b == m + at[k]
  <2>7. b \in Nat /\ m <= b /\ at[k] <= b
    BY <2>5, <2>6
  <2>8. \A i \in 1 .. k : at[i] <= b
    <3> SUFFICES ASSUME NEW i \in 1 .. k PROVE at[i] <= b
      OBVIOUS
    <3>1. i = k \/ i \in 1 .. k - 1
      BY <2>2
    <3>2. at[i] \in Nat
      BY <2>2
    <3> HIDE DEF b
    <3> QED
      BY <2>5, <2>7, <3>1, <3>2
  <2> HIDE DEF b
  <2> QED
    BY <2>1, <2>7, <2>8
<1> QED
  BY <1>1, <1>2

\* All are through: the next link, the receipt, or the end.
LEMMA NextLegKeeps == HaulInvariant /\ NextLeg => HaulInvariant'
<1> SUFFICES ASSUME HaulInvariant, NextLeg PROVE HaulInvariant'
  OBVIOUS
<1>0. /\ HaulTyped /\ SendsAreVisited /\ RoundsAreApart /\ AllGoThrough /\ DelaysAreNoted
      /\ TracksAreKept /\ WaitsAreRecorded
  BY DEF HaulInvariant, ScheduleKept
<1> DEFINE at == [i \in Carried(direction) |-> Through(direction, leg, i).arrive]
<1>1. /\ waiting = {} /\ lost = {} /\ outcome = "running"
      /\ UNCHANGED <<missed, sends>> /\ gaps' = gaps \cup GapRecords
  BY DEF NextLeg, Running
<1>2. /\ \A dir : Links(dir)' = Links(dir)
      /\ \A s : OverSpace(s)' = OverSpace(s) /\ WindowsOf(s)' = WindowsOf(s) /\ IsSend(s)' = IsSend(s)
      /\ \A s : HeldOver(s)' = HeldOver(s)
      /\ \A dir : Carried(dir)' = Carried(dir)
  BY <1>1, ScheduleStays DEF Carried, BundleIds
<1>3. WaitsAreRecorded' /\ TracksAreKept'
  BY <1>0, <1>1, <1>2, LinkIsRecorded DEF TracksAreKept
<1>4. at \in [Carried(direction) -> Nat]
  <2> SUFFICES ASSUME NEW i \in Carried(direction) PROVE Through(direction, leg, i).arrive \in Nat
    OBVIOUS
  <2>1. \E s \in LegSends : s.item = i /\ ~s.lost
    BY <1>0, <1>1 DEF AllGoThrough
  <2>2. Through(direction, leg, i) \in sends
    BY <2>1 DEF Through, LegSends
  <2> QED
    BY <1>0, <2>2 DEF SendsAreVisited, IsSend
<1>5. leg \in Nat \ {0} /\ direction \in Directions /\ Len(Links(direction)) \in Nat /\ leg <= Len(Links(direction))
  BY <1>0, LinksAre DEF HaulTyped
<1>6. \A s \in sends : IsSend(s) /\ ((s.dir = direction /\ s.leg <= leg) \/ (s.dir = "up" /\ direction = "ack"))
                       /\ s.leg \in Nat
  <2>1. \A s \in sends : IsSend(s) => s.leg \in Nat
    BY LinksAre DEF IsSend
  <2> QED
    BY <1>0, <2>1 DEF SendsAreVisited
<1> HIDE DEF at
<1>7. CASE /\ leg < Len(Links(direction))
           /\ leg' = leg + 1 /\ round' = 1 /\ readyNow' = at /\ waiting' = DOMAIN at
           /\ free' = NoTime /\ landed' = NoTime /\ delayedBy' = {}
           /\ UNCHANGED <<direction, lost, outcome>>
  <2>1. HaulTyped'
    BY <1>0, <1>1, <1>2, <1>4, <1>5, <1>7 DEF HaulTyped
  <2>2. LegSends' = {}
    BY <1>1, <1>5, <1>6, <1>7 DEF LegSends
  <2>3. SendsAreVisited'
    BY <1>1, <1>2, <1>5, <1>6, <1>7 DEF SendsAreVisited
  <2>4. RoundsAreApart' /\ AllGoThrough' /\ DelaysAreNoted'
    BY <1>1, <1>2, <1>4, <1>7, <2>2 DEF RoundsAreApart, AllGoThrough, DelaysAreNoted
  <2> QED
    BY <1>3, <2>1, <2>3, <2>4 DEF HaulInvariant, ScheduleKept
<1>8. CASE /\ direction = "up" /\ leg = Len(Links(direction))
           /\ Begin("ack", [i \in {1} |-> Max(Range(at))]) /\ UNCHANGED outcome
  <2>1. /\ direction' = "ack" /\ leg' = 1 /\ round' = 1 /\ readyNow' = [i \in {1} |-> Max(Range(at))]
        /\ waiting' = {1} /\ free' = NoTime /\ lost' = {} /\ landed' = NoTime /\ delayedBy' = {}
    BY <1>8 DEF Begin
  <2>2. Max(Range(at)) \in Nat
    <3>1. at \in [1 .. Len(SpaceTx) -> Nat] /\ Len(SpaceTx) \in Nat \ {0}
      BY <1>4, <1>8, HaulConstants DEF Carried
    <3>2. PICK m \in Nat : \A i \in 1 .. Len(SpaceTx) : at[i] <= m
      BY <3>1, RowsAreBounded
    <3>3. Range(at) \subseteq 0 .. m /\ Range(at) # {}
      <4>1. Range(at) = {at[i] : i \in 1 .. Len(SpaceTx)}
        BY <3>1 DEF Range
      <4>2. 1 \in 1 .. Len(SpaceTx) /\ \A i \in 1 .. Len(SpaceTx) : at[i] \in 0 .. m
        BY <3>1, <3>2
      <4> QED
        BY <4>1, <4>2
    <3> QED
      BY <3>3, MaxIsThere
  <2>3. direction' \in Directions /\ Carried("ack") = {1} /\ 1 \in 1 .. Len(Links("ack"))
    BY <2>1, LinksAre DEF Directions, Carried
  <2>4. Len(Links(direction))' = Len(Links("ack")) /\ Carried(direction)' = {1}
    BY <1>2, <2>1, <2>3
  <2>5. HaulTyped'
    BY <2>1, <2>2, <2>3, <2>4 DEF HaulTyped
  <2>6. LegSends' = {}
    BY <1>1, <1>6, <1>8, <2>1 DEF LegSends
  <2>7. SendsAreVisited'
    BY <1>1, <1>2, <1>6, <1>8, <2>1 DEF SendsAreVisited
  <2>8. RoundsAreApart' /\ AllGoThrough' /\ DelaysAreNoted'
    BY <2>1, <2>4, <2>6 DEF RoundsAreApart, AllGoThrough, DelaysAreNoted
  <2> QED
    BY <1>3, <2>5, <2>7, <2>8 DEF HaulInvariant, ScheduleKept
<1>9. CASE UNCHANGED <<direction, leg, round, waiting, free, lost, landed, readyNow, delayedBy>>
  <2>1. Link' = Link /\ LegSends' = LegSends /\ \A w, s : WaitedFor(w, s)' = WaitedFor(w, s)
    BY <1>1, <1>2, <1>9 DEF Link, LegSends, WaitedFor
  <2>2. HaulTyped' /\ SendsAreVisited' /\ RoundsAreApart' /\ AllGoThrough' /\ DelaysAreNoted'
    BY <1>0, <1>1, <1>2, <1>9, <2>1 DEF HaulTyped, SendsAreVisited, RoundsAreApart, AllGoThrough, DelaysAreNoted
  <2> QED
    BY <1>3, <2>2 DEF HaulInvariant, ScheduleKept
<1>10. \/ leg < Len(Links(direction))
       \/ direction = "up" /\ leg = Len(Links(direction))
       \/ ~(leg < Len(Links(direction))) /\ ~(leg = Len(Links(direction)) /\ direction = "up")
  OBVIOUS
<1> QED
  BY <1>5, <1>7, <1>8, <1>9, <1>10 DEF NextLeg, at

\* Every step of a mission.
LEMMA HaulStep == HaulInvariant /\ [HaulNext]_haulVars => HaulInvariant'
<1> SUFFICES ASSUME HaulInvariant, [HaulNext]_haulVars PROVE HaulInvariant'
  OBVIOUS
<1>1. CASE Transmit \/ AskAgain \/ NextLeg
  BY <1>1, TransmitKeeps, AskAgainKeeps, NextLegKeeps
<1>2. CASE UNCHANGED haulVars
  <2>1. UNCHANGED <<direction, missed, leg, round, waiting, free, lost, landed, readyNow, delayedBy,
                    sends, gaps, outcome>>
    BY <1>2 DEF haulVars
  <2>2. /\ \A s : OverSpace(s)' = OverSpace(s) /\ WindowsOf(s)' = WindowsOf(s) /\ IsSend(s)' = IsSend(s)
        /\ \A s : HeldOver(s)' = HeldOver(s)
        /\ \A gap : Backed(gap)' = Backed(gap) /\ \A s : EndsWait(gap, s)' = EndsWait(gap, s)
        /\ \A w, s : WaitedFor(w, s)' = WaitedFor(w, s)
        /\ Link' = Link /\ Links(direction)' = Links(direction) /\ LegSends' = LegSends
        /\ Carried(direction)' = Carried(direction)
    BY <2>1, ScheduleStays DEF Link, LegSends, Carried, BundleIds, WaitedFor
  <2>3. HaulTyped' /\ SendsAreVisited' /\ RoundsAreApart' /\ AllGoThrough' /\ DelaysAreNoted'
    BY <2>1, <2>2 DEF HaulInvariant, HaulTyped, SendsAreVisited, RoundsAreApart, AllGoThrough, DelaysAreNoted
  <2>4. ScheduleKept'
    BY <2>1, <2>2 DEF HaulInvariant, ScheduleKept, TracksAreKept, WaitsAreRecorded
  <2> QED
    BY <2>3, <2>4 DEF HaulInvariant
<1> QED
  BY <1>1, <1>2 DEF HaulNext

\* The links of a mission are used as its signed schedule says, and every wait
\* for a window, that of a bundle sent again too, is in a record that ends with
\* it, backed by the schedule (schedule.mjs:1-4, link.mjs:1-13, 60-67,
\* mission.mjs:85).
THEOREM ScheduleIsKept == Spec => []ScheduleKept
<1>1. Init => HaulInvariant
  BY HaulBegins DEF Init
<1>2. HaulInvariant /\ [Next]_vars => HaulInvariant'
  <2> SUFFICES ASSUME HaulInvariant, [Next]_vars PROVE HaulInvariant'
    OBVIOUS
  <2>1. HaulNext \/ UNCHANGED haulVars
    BY DEF Next, Fly, PayUp, RunSpike, GrowTree, KeepKeys, Stamp, Haul, Account, PutTogether, vars
  <2> QED
    BY <2>1, HaulStep
<1>3. HaulInvariant => ScheduleKept
  BY DEF HaulInvariant
<1> QED
  BY <1>1, <1>2, <1>3, PTL DEF Spec

-----------------------------------------------------------------------------
(* Fragments put together.                                                 *)

Parts == [at : Nat, len : Nat]

\* Parts that follow each other without a hole leave no byte out: behind the
\* first byte left out would begin the next part, out of reach of all before.
LEMMA CompleteCovers ==
  ASSUME NEW parts, parts \subseteq Parts, NEW total \in Nat, Complete(parts, total)
  PROVE  Covers(parts, total)
<1> SUFFICES ASSUME NEW byte \in 0 .. total - 1,
                    \A p \in parts : ~(p.at <= byte /\ byte < p.at + p.len)
             PROVE  FALSE
  BY DEF Covers
<1>1. PICK end \in parts : total <= end.at + end.len
  BY DEF Complete
<1>2. byte \in Nat /\ byte < total
  OBVIOUS
<1>3. \A p \in parts : p.at \in Nat /\ p.len \in Nat
  BY DEF Parts
<1> DEFINE S == {n \in 0 .. end.at : byte < n /\ \E p \in parts : p.at = n}
<1>4. end.at \in S
  <2>1. byte < end.at
    BY <1>1, <1>2, <1>3
  <2> QED
    BY <1>3, <2>1
<1>5. PICK m \in S : \A n \in S : m <= n
  <2>1. S \subseteq 0 .. end.at /\ end.at \in Nat
    BY <1>3
  <2> HIDE DEF S
  <2> QED
    BY <1>4, <2>1, FirstIsThere
<1>6. PICK p \in parts : p.at = m /\ byte < m /\ m <= end.at /\ m \in Nat
  BY <1>5
<1>7. PICK q \in parts : q.at < m /\ m <= q.at + q.len
  BY <1>2, <1>6 DEF Complete
<1>8. q.at \notin S
  BY <1>3, <1>5, <1>6, <1>7
<1>9. q.at <= byte
  BY <1>2, <1>3, <1>6, <1>7, <1>8
<1> QED
  BY <1>2, <1>3, <1>6, <1>7, <1>9

\* And the other way: parts within a bundle that cover it have no hole.
LEMMA CoversIsComplete ==
  ASSUME NEW parts, parts \subseteq Parts, NEW total \in Nat \ {0}, Covers(parts, total),
         \A p \in parts : p.at + p.len <= total
  PROVE  Complete(parts, total) /\ \E p \in parts : p.at = 0
<1>1. \A p \in parts : p.at \in Nat /\ p.len \in Nat
  BY DEF Parts
<1>2. PICK end \in parts : end.at <= total - 1 /\ total - 1 < end.at + end.len
  <2>1. total - 1 \in 0 .. total - 1
    OBVIOUS
  <2> QED
    BY <2>1 DEF Covers
<1>3. PICK begin \in parts : begin.at <= 0 /\ 0 < begin.at + begin.len
  <2>1. 0 \in 0 .. total - 1
    OBVIOUS
  <2> QED
    BY <2>1 DEF Covers
<1>4. ASSUME NEW p \in parts, p.at # 0
      PROVE  \E q \in parts : q.at < p.at /\ p.at <= q.at + q.len
  <2>1. p.at - 1 \in 0 .. total - 1
    BY <1>1, <1>4
  <2>2. PICK q \in parts : q.at <= p.at - 1 /\ p.at - 1 < q.at + q.len
    BY <2>1 DEF Covers
  <2> QED
    BY <1>1, <2>2
<1>5. total <= end.at + end.len /\ begin.at = 0
  BY <1>1, <1>2, <1>3
<1> QED
  BY <1>4, <1>5 DEF Complete

\* An open set is within its bundle and not complete, and of every piece that
\* came for it there is a part with that offset.
IsOpen(e, came) ==
  /\ e.total \in Nat \ {0} /\ e.parts \subseteq Parts /\ came \subseteq Parts
  /\ \A p \in e.parts : p.at + p.len <= e.total
  /\ \A p \in e.parts : p.at = 0 => e.first
  /\ \A x \in came : \E p \in e.parts : p.at = x.at
  /\ ~(Complete(e.parts, e.total) /\ e.first)

IsSet(e, came) == IsOpen(e, came) \/ (e = Closed /\ came = {})

PieceInvariant ==
  /\ \A k \in Adus : IsSet(partial[k], cameIn[k])
  /\ \A b \in rebuilt : /\ b.total \in Nat /\ b.parts \subseteq Parts /\ Complete(b.parts, b.total)
                        /\ \A p \in b.parts : p.at + p.len <= b.total

\* What is rebuilt is whole, and a set stays open for a reason.
LEMMA PiecesSafe == PieceInvariant => RebuiltIsWhole
<1> SUFFICES ASSUME PieceInvariant PROVE RebuiltIsWhole
  OBVIOUS
<1>1. ASSUME NEW b \in rebuilt PROVE Covers(b.parts, b.total) /\ \A p \in b.parts : p.at + p.len <= b.total
  BY CompleteCovers DEF PieceInvariant
<1>2. ASSUME NEW k \in Adus, partial[k].total > 0, Covers(cameIn[k], partial[k].total)
      PROVE  \E x \in cameIn[k], p \in partial[k].parts : x.at = p.at /\ x.len > p.len
  <2> SUFFICES ASSUME \A x \in cameIn[k], p \in partial[k].parts : ~(x.at = p.at /\ x.len > p.len)
               PROVE  FALSE
    OBVIOUS
  <2> DEFINE e == partial[k]
  <2>1. IsOpen(e, cameIn[k])
    <3>1. e # Closed
      BY <1>2 DEF Closed
    <3> QED
      BY <3>1 DEF PieceInvariant, IsSet
  <2>2. /\ e.total \in Nat \ {0} /\ e.parts \subseteq Parts /\ cameIn[k] \subseteq Parts
        /\ \A p \in e.parts : p.at + p.len <= e.total
        /\ \A p \in e.parts : p.at = 0 => e.first
        /\ \A x \in cameIn[k] : \E p \in e.parts : p.at = x.at
        /\ ~(Complete(e.parts, e.total) /\ e.first)
    BY <2>1 DEF IsOpen
  <2>3. Covers(e.parts, e.total)
    <3> SUFFICES ASSUME NEW byte \in 0 .. e.total - 1
                 PROVE  \E p \in e.parts : p.at <= byte /\ byte < p.at + p.len
      BY DEF Covers
    <3>1. PICK x \in cameIn[k] : x.at <= byte /\ byte < x.at + x.len
      BY <1>2 DEF Covers
    <3>2. PICK p \in e.parts : p.at = x.at
      BY <2>2
    <3>3. ~(x.len > p.len) /\ x.len \in Nat /\ p.len \in Nat /\ p.at \in Nat /\ x.at \in Nat
      BY <2>2, <3>2 DEF Parts
    <3>4. byte \in Int
      OBVIOUS
    <3> QED
      BY <3>1, <3>2, <3>3, <3>4
  <2> HIDE DEF e
  <2> QED
    BY <2>2, <2>3, CoversIsComplete
<1> QED
  BY <1>1, <1>2 DEF RebuiltIsWhole

\* A piece that is within its total.
LEMMA PieceTaken ==
  ASSUME PieceInvariant, NEW x \in Pieces, x.total # 0, x.at + x.len <= x.total, TakePiece(x)
  PROVE  PieceInvariant'
<1> DEFINE fresh == [k \in Adus |-> IF Stale(k) THEN Closed ELSE partial[k]]
           came == [k \in Adus |-> IF Stale(k) THEN {} ELSE cameIn[k]]
           e == IF fresh[x.adu].total > 0 THEN fresh[x.adu]
                ELSE [Closed EXCEPT !.total = x.total, !.since = pieceTime]
           new == ~\E p \in e.parts : p.at = x.at
           fits == Kept + x.len <= MaxReassemblyBytes
           piece == [at |-> x.at, len |-> x.len]
           parts == IF new THEN e.parts \cup {piece} ELSE e.parts
           more == IF new THEN x.len ELSE 0
           first == e.first \/ x.at = 0
<1>1. x.adu \in Adus /\ x.total \in Nat \ {0} /\ x.at \in Nat /\ x.len \in Nat /\ piece \in Parts
  BY PieceAssumption DEF Parts
<1>2. \A k \in Adus : IsSet(fresh[k], came[k])
  BY DEF IsSet, PieceInvariant
<1>3. IsOpen(e, came[x.adu])
  <2>1. CASE fresh[x.adu].total > 0
    <3>1. fresh[x.adu] # Closed
      BY <2>1 DEF Closed
    <3> HIDE DEF fresh, came
    <3> QED
      BY <1>1, <1>2, <2>1, <3>1 DEF IsSet
  <2>2. CASE ~(fresh[x.adu].total > 0)
    <3>1. fresh[x.adu] = Closed /\ came[x.adu] = {}
      <4> HIDE DEF fresh, came
      <4> QED
        BY <1>1, <1>2, <2>2 DEF IsSet, IsOpen
    <3>2. e.total = x.total /\ e.parts = {}
      BY <2>2 DEF Closed
    <3> HIDE DEF e, came
    <3> QED
      BY <1>1, <3>1, <3>2 DEF IsOpen, Complete
  <2> QED
    BY <2>1, <2>2
<1>4. DOMAIN fresh = Adus /\ DOMAIN came = Adus
  OBVIOUS
<1>5. \/ /\ e.total # x.total \/ (new /\ ~fits)
         /\ partial' = [fresh EXCEPT ![x.adu] = e] /\ cameIn' = came /\ rebuilt' = rebuilt
      \/ /\ e.total = x.total /\ Complete(parts, e.total) /\ first
         /\ partial' = [fresh EXCEPT ![x.adu] = Closed]
         /\ cameIn' = [came EXCEPT ![x.adu] = {}]
         /\ rebuilt' = rebuilt \cup {[total |-> e.total, parts |-> parts]}
      \/ /\ e.total = x.total /\ ~(Complete(parts, e.total) /\ first)
         /\ partial' = [fresh EXCEPT ![x.adu] = [e EXCEPT !.parts = parts, !.bytes = @ + more, !.first = first]]
         /\ cameIn' = [came EXCEPT ![x.adu] = @ \cup {piece}] /\ rebuilt' = rebuilt
  BY ZenonT(60) DEF TakePiece
<1>6. e.total = x.total =>
        /\ parts \subseteq Parts /\ e.total \in Nat \ {0}
        /\ \A p \in parts : p.at + p.len <= e.total
        /\ \A p \in parts : p.at = 0 => first
        /\ \A y \in came[x.adu] \cup {piece} : y \in Parts /\ \E p \in parts : p.at = y.at
  <2> SUFFICES ASSUME e.total = x.total
               PROVE  /\ parts \subseteq Parts /\ e.total \in Nat \ {0}
                      /\ \A p \in parts : p.at + p.len <= e.total
                      /\ \A p \in parts : p.at = 0 => first
                      /\ \A y \in came[x.adu] \cup {piece} : y \in Parts /\ \E p \in parts : p.at = y.at
    OBVIOUS
  <2>1. piece.at = x.at /\ piece.len = x.len
    OBVIOUS
  <2> HIDE DEF e, fresh, came, piece
  <2>2. /\ e.total \in Nat \ {0} /\ e.parts \subseteq Parts /\ came[x.adu] \subseteq Parts
        /\ \A p \in e.parts : p.at + p.len <= e.total
        /\ \A p \in e.parts : p.at = 0 => e.first
        /\ \A y \in came[x.adu] : \E p \in e.parts : p.at = y.at
    BY <1>3 DEF IsOpen
  <2>3. CASE new
    BY <1>1, <2>1, <2>2, <2>3
  <2>4. CASE ~new
    BY <1>1, <2>1, <2>2, <2>4
  <2> QED
    BY <2>3, <2>4, SMTT(60)
<1>7. [e EXCEPT !.parts = parts, !.bytes = @ + more, !.first = first].parts = parts
      /\ [e EXCEPT !.parts = parts, !.bytes = @ + more, !.first = first].first = first
      /\ [e EXCEPT !.parts = parts, !.bytes = @ + more, !.first = first].total = e.total
  OBVIOUS
<1> HIDE DEF fresh, came, e, new, fits, piece, parts, more, first
<1>8. ASSUME e.total # x.total \/ (new /\ ~fits),
             partial' = [fresh EXCEPT ![x.adu] = e], cameIn' = came, rebuilt' = rebuilt
      PROVE  PieceInvariant'
  <2>1. \A k \in Adus : IsSet(partial'[k], cameIn'[k])
    BY <1>1, <1>2, <1>3, <1>4, <1>8 DEF IsSet
  <2> QED
    BY <1>8, <2>1 DEF PieceInvariant
<1>9. ASSUME e.total = x.total, Complete(parts, e.total),
              partial' = [fresh EXCEPT ![x.adu] = Closed], cameIn' = [came EXCEPT ![x.adu] = {}],
              rebuilt' = rebuilt \cup {[total |-> e.total, parts |-> parts]}
       PROVE  PieceInvariant'
  <2>1. \A k \in Adus : IsSet(partial'[k], cameIn'[k])
    BY <1>1, <1>2, <1>4, <1>9 DEF IsSet
  <2> QED
    BY <1>6, <1>9, <2>1 DEF PieceInvariant
<1>10. ASSUME e.total = x.total, ~(Complete(parts, e.total) /\ first),
              partial' = [fresh EXCEPT ![x.adu] = [e EXCEPT !.parts = parts, !.bytes = @ + more, !.first = first]],
              cameIn' = [came EXCEPT ![x.adu] = @ \cup {piece}], rebuilt' = rebuilt
       PROVE  PieceInvariant'
  <2> DEFINE grown == [e EXCEPT !.parts = parts, !.bytes = @ + more, !.first = first]
  <2>1. IsOpen(grown, came[x.adu] \cup {piece})
    <3>1. grown.total = e.total /\ grown.parts = parts /\ grown.first = first
      BY <1>7
    <3> HIDE DEF grown
    <3> QED
      BY <1>6, <1>10, <3>1 DEF IsOpen
  <2>2. partial' = [fresh EXCEPT ![x.adu] = grown]
    BY <1>10
  <2> HIDE DEF grown
  <2>3. \A k \in Adus : IsSet(partial'[k], cameIn'[k])
    BY <1>1, <1>2, <1>4, <1>10, <2>1, <2>2 DEF IsSet
  <2> QED
    BY <1>10, <2>3 DEF PieceInvariant
<1> QED
  BY <1>5, <1>8, <1>9, <1>10

\* Every step of the reassembly.
LEMMA PieceStep == PieceInvariant /\ [PieceNext]_pieceVars => PieceInvariant'
<1> SUFFICES ASSUME PieceInvariant, [PieceNext]_pieceVars PROVE PieceInvariant'
  OBVIOUS
<1>1. CASE UNCHANGED <<partial, cameIn, rebuilt>>
  BY <1>1 DEF PieceInvariant
<1>2. CASE GatewayRestart
  BY <1>2 DEF PieceInvariant, GatewayRestart, IsSet
<1>3. CASE PieceArrives
  <2>1. PICK x \in Pieces : IF x.total = 0 \/ x.at + x.len > x.total
                            THEN UNCHANGED <<partial, partialBytes, cameIn, rebuilt>>
                            ELSE TakePiece(x)
    BY <1>3 DEF PieceArrives
  <2>2. x.total \in Nat /\ x.at \in Nat /\ x.len \in Nat
    BY PieceAssumption
  <2>3. CASE x.total # 0 /\ x.at + x.len <= x.total
    <3>1. TakePiece(x)
      BY <2>1, <2>2, <2>3
    <3> QED
      BY <2>3, <3>1, PieceTaken
  <2> QED
    BY <1>1, <2>1, <2>2, <2>3
<1> QED
  BY <1>1, <1>2, <1>3 DEF PieceNext, PieceTick, pieceVars

\* What the gateway hands on as a bundle has every byte of it, and a set that
\* stays open with enough received lost a piece to a shorter one of the same
\* offset (gateway.mjs:210-235).
THEOREM FragmentsAreWhole == Spec => []RebuiltIsWhole
<1>1. Init => PieceInvariant
  BY DEF Init, PieceInit, PieceInvariant, IsSet
<1>2. PieceInvariant /\ [Next]_vars => PieceInvariant'
  <2> SUFFICES ASSUME PieceInvariant, [Next]_vars PROVE PieceInvariant'
    OBVIOUS
  <2>1. PieceNext \/ UNCHANGED pieceVars
    BY DEF Next, Fly, PayUp, RunSpike, GrowTree, KeepKeys, Stamp, Haul, Account, PutTogether, vars
  <2> QED
    BY <2>1, PieceStep
<1>3. PieceInvariant => RebuiltIsWhole
  BY PiecesSafe
<1> QED
  BY <1>1, <1>2, <1>3, PTL DEF Spec

-----------------------------------------------------------------------------
(* The receipt files of a spacecraft.                                      *)

OnFile == (1 .. MaxSignCmds) \X Seeds

\* What is in a file answers a command that was sent, and what was announced
\* answers one that was sent after all that the files above answer.
FilesInvariant ==
  /\ cmds \in 0 .. MaxSignCmds
  /\ announced \in Seq(OnFile) /\ app.signed = Len(announced) /\ app.signed <= cmds
  /\ app \in [up : BOOLEAN, tested : BOOLEAN, key : Seeds \cup {NoSeed}, signed : Nat, errors : Nat]
  /\ keyFile \in Seeds \cup {NoSeed}
  /\ cf \in [Numbers -> OnFile \cup {Empty, Torn}]
  /\ \A m \in Numbers : cf[m] \notin {Empty, Torn} => cf[m][1] <= cmds
  /\ FilesAreNumbered

\* The application starts.
LEMMA FilesStart == CfsInit => FilesInvariant
<1> SUFFICES ASSUME CfsInit PROVE FilesInvariant
  OBVIOUS
<1>1. PICK tested \in BOOLEAN : app = Started(tested)
  BY DEF CfsInit
<1>2. /\ keyFile \in Seeds \cup {NoSeed} /\ cf = [n \in Numbers |-> Empty] /\ cmds = 0 /\ announced = <<>>
  BY DEF CfsInit
<1>3. app.signed = 0 /\ app \in [up : BOOLEAN, tested : BOOLEAN, key : Seeds \cup {NoSeed}, signed : Nat, errors : Nat]
  BY <1>1, <1>2 DEF Started
<1>4. announced \in Seq(OnFile) /\ Len(announced) = 0 /\ DOMAIN announced = {}
  BY <1>2
<1> QED
  BY <1>2, <1>3, <1>4, CfsAssumption DEF FilesInvariant, FilesAreNumbered

\* A command is refused.
LEMMA RefuseKeeps ==
  ASSUME FilesInvariant, Refuse, cmds < MaxSignCmds, cmds' = cmds + 1, UNCHANGED keyFile
  PROVE  FilesInvariant'
<1>1. app' = [app EXCEPT !.errors = @ + 1] /\ UNCHANGED <<cf, announced>>
  BY DEF Refuse
<1>2. /\ app'.signed = app.signed
      /\ app' \in [up : BOOLEAN, tested : BOOLEAN, key : Seeds \cup {NoSeed}, signed : Nat, errors : Nat]
  BY <1>1 DEF FilesInvariant
<1>3. cmds' \in 0 .. MaxSignCmds /\ app.signed <= cmds'
  BY CfsAssumption DEF FilesInvariant
<1>4. \A m \in Numbers : cf[m] \notin {Empty, Torn} => cf[m][1] <= cmds'
  <2> SUFFICES ASSUME NEW m \in Numbers, cf[m] \notin {Empty, Torn} PROVE cf[m][1] <= cmds'
    OBVIOUS
  <2>1. cf[m] \in OnFile /\ cf[m][1] <= cmds /\ cmds \in Nat
    BY DEF FilesInvariant
  <2>2. cf[m][1] \in Nat
    BY <2>1 DEF OnFile
  <2> QED
    BY <2>1, <2>2
<1>5. FilesAreNumbered'
  BY <1>1, <1>2 DEF FilesInvariant, FilesAreNumbered
<1> QED
  BY <1>1, <1>2, <1>3, <1>4, <1>5 DEF FilesInvariant, Numbers

\* A receipt is written to the next file.
LEMMA WriteKeeps ==
  ASSUME FilesInvariant, Signs, NEW whole \in BOOLEAN, Write(<<cmds + 1, app.key>>, TRUE, whole),
         cmds < MaxSignCmds, cmds' = cmds + 1, UNCHANGED keyFile
  PROVE  FilesInvariant'
<1> DEFINE n == app.signed + 1
           receipt == <<cmds + 1, app.key>>
           written == IF whole THEN receipt ELSE Torn
<1>1. cf' = [cf EXCEPT ![n] = written] /\ app' = [app EXCEPT !.signed = n] /\ announced' = Append(announced, receipt)
  BY DEF Write
<1>2. cmds \in Nat /\ app.signed \in Nat /\ n \in Numbers /\ n <= cmds + 1 /\ cmds' \in 0 .. MaxSignCmds
  BY CfsAssumption DEF FilesInvariant, Numbers
<1>3. receipt \in OnFile /\ receipt[1] = cmds + 1
  <2>1. cmds + 1 \in 1 .. MaxSignCmds
    BY <1>2, CfsAssumption
  <2>2. app.key \in Seeds
    BY DEF Signs, FilesInvariant
  <2> QED
    BY <2>1, <2>2 DEF OnFile
<1>4. /\ app'.signed = n
      /\ app' \in [up : BOOLEAN, tested : BOOLEAN, key : Seeds \cup {NoSeed}, signed : Nat, errors : Nat]
  BY <1>1, <1>2, SMTT(60) DEF FilesInvariant
<1>5. /\ announced' \in Seq(OnFile) /\ Len(announced') = n /\ DOMAIN announced' = 1 .. n
      /\ announced'[n] = receipt /\ \A i \in 1 .. app.signed : announced'[i] = announced[i]
      /\ DOMAIN announced = 1 .. app.signed
  BY <1>1, <1>2, <1>3 DEF FilesInvariant
<1>6. cf' \in [Numbers -> OnFile \cup {Empty, Torn}] /\ cf'[n] = written /\ \A m \in Numbers \ {n} : cf'[m] = cf[m]
  BY <1>1, <1>2, <1>3 DEF FilesInvariant
<1>7. written \in {receipt, Torn}
  OBVIOUS
<1> HIDE DEF n, receipt, written
<1>8. \A m \in Numbers \ {n} : cf[m] \notin {Empty, Torn} => cf[m][1] \in Nat /\ cf[m][1] < cmds + 1
  <2> SUFFICES ASSUME NEW m \in Numbers, cf[m] \notin {Empty, Torn} PROVE cf[m][1] \in Nat /\ cf[m][1] < cmds + 1
    OBVIOUS
  <2>1. cf[m] \in OnFile /\ cf[m][1] <= cmds
    BY DEF FilesInvariant
  <2>2. cf[m][1] \in Nat
    BY <2>1 DEF OnFile
  <2> QED
    BY <1>2, <2>1, <2>2
<1>9. \A m \in Numbers : cf'[m] \notin {Empty, Torn} => cf'[m][1] <= cmds'
  <2> SUFFICES ASSUME NEW m \in Numbers, cf'[m] \notin {Empty, Torn} PROVE cf'[m][1] <= cmds'
    OBVIOUS
  <2>1. CASE m = n
    BY <1>2, <1>3, <1>6, <1>7, <2>1
  <2>2. CASE m # n
    BY <1>2, <1>6, <1>8, <2>2
  <2> QED
    BY <2>1, <2>2
<1>10. \A i \in 1 .. n : cf'[i] \in {announced'[i], Torn}
  <2> SUFFICES ASSUME NEW i \in 1 .. n PROVE cf'[i] \in {announced'[i], Torn}
    OBVIOUS
  <2>1. CASE i = n
    BY <1>5, <1>6, <1>7, <2>1
  <2>2. CASE i # n
    <3>1. i \in 1 .. app.signed
      BY <1>2, <2>2 DEF n
    <3>2. i \in Numbers
      BY <1>2, CfsAssumption DEF Numbers
    <3>3. cf[i] \in {announced[i], Torn}
      BY <1>5, <3>1 DEF FilesInvariant, FilesAreNumbered
    <3> QED
      BY <1>5, <1>6, <2>2, <3>1, <3>2, <3>3
  <2> QED
    BY <2>1, <2>2
<1>11. \A i \in 1 .. n : \A m \in Numbers : m > n /\ cf'[m] \notin {Empty, Torn} => cf'[m][1] < announced'[i][1]
  <2> SUFFICES ASSUME NEW i \in 1 .. n, NEW m \in Numbers, m > n, cf'[m] \notin {Empty, Torn}
               PROVE  cf'[m][1] < announced'[i][1]
    OBVIOUS
  <2>1. m # n /\ cf'[m] = cf[m] /\ m > app.signed
    BY <1>2, <1>6 DEF n, Numbers
  <2>2. CASE i = n
    BY <1>3, <1>5, <1>8, <2>1, <2>2
  <2>3. CASE i # n
    <3>1. i \in 1 .. app.signed
      BY <1>2, <2>3 DEF n
    <3> QED
      BY <1>5, <2>1, <3>1 DEF FilesInvariant, FilesAreNumbered
  <2> QED
    BY <2>2, <2>3
<1>12. FilesAreNumbered'
  <2>1. Numbers' = Numbers /\ Empty' = Empty /\ Torn' = Torn
    BY DEF Numbers, Empty, Torn
  <2> QED
    BY <1>4, <1>5, <1>10, <1>11, <2>1 DEF FilesAreNumbered
<1>13. n <= cmds'
  BY <1>2
<1>14. Numbers' = Numbers /\ OnFile' = OnFile /\ Empty' = Empty /\ Torn' = Torn
  BY DEF Numbers, OnFile, Empty, Torn
<1> QED
  BY <1>2, <1>4, <1>5, <1>6, <1>9, <1>12, <1>13, <1>14 DEF FilesInvariant

\* Every step of the application.
LEMMA FilesStep == FilesInvariant /\ [CfsNext]_cfsVars => FilesInvariant'
<1> SUFFICES ASSUME FilesInvariant, [CfsNext]_cfsVars PROVE FilesInvariant'
  OBVIOUS
<1>1. CASE CfsRestart
  <2>1. /\ app' = Started(app.tested) /\ announced' = <<>> /\ UNCHANGED <<keyFile, cf, cmds>>
    BY <1>1 DEF CfsRestart
  <2>2. /\ app'.signed = 0
        /\ app' \in [up : BOOLEAN, tested : BOOLEAN, key : Seeds \cup {NoSeed}, signed : Nat, errors : Nat]
    BY <2>1 DEF Started, FilesInvariant
  <2>3. announced' \in Seq(OnFile) /\ Len(announced') = 0 /\ DOMAIN announced' = {}
    BY <2>1
  <2> QED
    BY <2>1, <2>2, <2>3 DEF FilesInvariant, FilesAreNumbered, Numbers
<1>2. CASE CfsExit
  <2>1. app' = [app EXCEPT !.up = FALSE] /\ UNCHANGED <<keyFile, cf, cmds, announced>>
    BY <1>2 DEF CfsExit
  <2>2. /\ app'.signed = app.signed
        /\ app' \in [up : BOOLEAN, tested : BOOLEAN, key : Seeds \cup {NoSeed}, signed : Nat, errors : Nat]
    BY <2>1 DEF FilesInvariant
  <2> QED
    BY <2>1, <2>2 DEF FilesInvariant, FilesAreNumbered, Numbers
<1>3. CASE NewKeyFile
  BY <1>3 DEF NewKeyFile, FilesInvariant, FilesAreNumbered, Numbers
<1>4. CASE SignCommand
  <2>1. app.up /\ cmds < MaxSignCmds /\ cmds' = cmds + 1 /\ UNCHANGED keyFile
    BY <1>4 DEF SignCommand
  <2>2. CASE Refuse
    BY <2>1, <2>2, RefuseKeeps
  <2>3. ASSUME Signs, NEW opens \in BOOLEAN, NEW whole \in BOOLEAN, Write(<<cmds + 1, app.key>>, opens, whole)
        PROVE  FilesInvariant'
    <3>1. CASE opens
      <4>1. opens = TRUE
        BY <3>1
      <4> QED
        BY <2>1, <2>3, <4>1, WriteKeeps
    <3>2. CASE ~opens
      BY <2>1, <2>3, <3>2, RefuseKeeps DEF Write
    <3> QED
      BY <3>1, <3>2
  <2> QED
    BY <1>4, <2>2, <2>3 DEF SignCommand
<1>5. CASE UNCHANGED cfsVars
  BY <1>5 DEF cfsVars, FilesInvariant, FilesAreNumbered, Numbers
<1> QED
  BY <1>1, <1>2, <1>3, <1>4, <1>5 DEF CfsNext

\* The files up to the number announced hold this life's receipts in order, and
\* those above are older, whatever restarts, keys and file faults there were
\* (custody_app.c, README.md of flight/cfs).
THEOREM FilesAreInOrder == Spec => []FilesAreNumbered
<1>1. Init => FilesInvariant
  BY FilesStart DEF Init, AuditInit
<1>2. FilesInvariant /\ [Next]_vars => FilesInvariant'
  <2> SUFFICES ASSUME FilesInvariant, [Next]_vars PROVE FilesInvariant'
    OBVIOUS
  <2>1. CfsNext \/ UNCHANGED cfsVars
    <3>1. AuditNext \/ UNCHANGED auditVars
      BY DEF Next, Fly, PayUp, RunSpike, GrowTree, KeepKeys, Stamp, Haul, Account, PutTogether, vars
    <3> QED
      BY <3>1 DEF AuditNext, auditVars
  <2> QED
    BY <2>1, FilesStep
<1>3. FilesInvariant => FilesAreNumbered
  BY DEF FilesInvariant
<1> QED
  BY <1>1, <1>2, <1>3, PTL DEF Spec

-----------------------------------------------------------------------------
(* Packets that reached no application.                                    *)

Hops == [node : Int, t : Int]

\* A packet at a router came over the link before it, and its last arrival was
\* there.
LastArrived(p) ==
  \/ hops[p] = <<>> /\ place[p].at = 1
  \/ hops[p] # <<>> /\ place[p].at \in Nat \ {0, 1} /\ Last(hops[p]).node = place[p].at

\* The log has a drop or a loss of a packet only where it was dropped or lost.
IsTracked(p) ==
  /\ place[p] = [in |-> place[p].in, at |-> place[p].at] /\ hops[p] \in Seq(Hops)
  /\ \A d \in drops : d.packet = p => place[p].in = "dropped" /\ d.node = place[p].at
  /\ \A x \in lostInTransit : x.packet = p => place[p].in = "lost" /\ x.link = place[p].at
  /\ \/ place[p].in = "nowhere" /\ hops[p] = <<>> /\ transit[p] = 0
     \/ place[p].in \in {"node", "dropped"} /\ LastArrived(p) /\ transit[p] = place[p].at - 1
     \/ place[p].in \in {"link", "lost"} /\ LastArrived(p) /\ transit[p] = place[p].at
     \/ place[p].in = "delivered"
  /\ place[p].in = "dropped" => \E d \in drops : d.packet = p
  /\ place[p].in = "lost" => \E x \in lostInTransit : x.packet = p

BlameInvariant ==
  /\ logTime \in Nat
  /\ DOMAIN place = Packets /\ DOMAIN hops = Packets /\ DOMAIN transit = Packets
  /\ place = [p \in Packets |-> place[p]] /\ hops = [p \in Packets |-> hops[p]]
  /\ transit = [p \in Packets |-> transit[p]]
  /\ \A p \in Packets : IsTracked(p)

\* Whoever had it last is blamed.
LEMMA BlameSafe == BlameInvariant => LastIsBlamed
<1> SUFFICES ASSUME BlameInvariant, NEW p \in Packets, place[p].in \notin {"nowhere", "delivered"}
             PROVE  LET b == Blame(p)
                    IN  /\ b.who = place[p].at
                        /\ place[p].in = "lost" <=> b.why = "lost"
                        /\ b.why = "lost" => \E x \in lostInTransit : x.packet = p
                        /\ \A x \in lostInTransit : x.packet = p => x.link = b.who
                        /\ b.why = "dropped" => place[p].in = "dropped"
                        /\ place[p].in = "dropped" => b.why = (IF b.who = 1 THEN "not yet sent" ELSE "dropped")
                        /\ place[p].in = "link" <=> b.why = "in flight" \/ (b.why = "held" /\ transit[p] = b.who)
  BY DEF LastIsBlamed
<1> DEFINE b == Blame(p)
           wasLost == \E x \in lostInTransit : x.packet = p
           wasDropped == \E d \in drops : d.packet = p /\ d.node = place[p].at
<1>1. IsTracked(p)
  BY DEF BlameInvariant
<1>2. /\ LastArrived(p)
      /\ \/ place[p].in \in {"node", "dropped"} /\ transit[p] = place[p].at - 1
         \/ place[p].in \in {"link", "lost"} /\ transit[p] = place[p].at
  BY <1>1 DEF IsTracked
<1>3. /\ wasLost <=> place[p].in = "lost"
      /\ wasDropped <=> place[p].in = "dropped"
      /\ \A x \in lostInTransit : x.packet = p => x.link = place[p].at
  BY <1>1 DEF IsTracked
<1>4. hops[p] = <<>> =>
        b.who = 1 /\ b.why = IF transit[p] = 0 THEN "not yet sent" ELSE IF wasLost THEN "lost" ELSE "in flight"
  BY DEF Blame
<1>5. hops[p] # <<>> /\ Last(hops[p]).node = place[p].at =>
        b.who = place[p].at /\ b.why = IF wasDropped THEN "dropped" ELSE IF wasLost THEN "lost" ELSE "held"
  BY DEF Blame
<1> HIDE DEF b, wasLost, wasDropped
<1>6. /\ b.who = place[p].at
      /\ place[p].in = "lost" <=> b.why = "lost"
      /\ b.why = "dropped" => place[p].in = "dropped"
      /\ place[p].in = "dropped" => b.why = (IF b.who = 1 THEN "not yet sent" ELSE "dropped")
      /\ place[p].in = "link" <=> (b.why = "in flight" \/ (b.why = "held" /\ transit[p] = b.who))
  <2>1. CASE hops[p] = <<>>
    <3>1. place[p].at = 1
      BY <1>2, <2>1 DEF LastArrived
    <3>2. transit[p] = 0 <=> place[p].in \in {"node", "dropped"}
      BY <1>2, <3>1
    <3> QED
      BY <1>2, <1>3, <1>4, <2>1, <3>1, <3>2
  <2>2. CASE hops[p] # <<>>
    <3>1. place[p].at \in Nat \ {0, 1} /\ Last(hops[p]).node = place[p].at
      BY <1>2, <2>2 DEF LastArrived
    <3>2. transit[p] = place[p].at <=> place[p].in \in {"link", "lost"}
      BY <1>2, <3>1
    <3> QED
      BY <1>2, <1>3, <1>5, <2>2, <3>1, <3>2
  <2> QED
    BY <2>1, <2>2
<1>7. /\ b.why = "lost" => \E x \in lostInTransit : x.packet = p
      /\ \A x \in lostInTransit : x.packet = p => x.link = b.who
  BY <1>3, <1>6 DEF wasLost
<1> QED
  BY <1>6, <1>7 DEF b

\* A packet that an entry is not about.
LEMMA OthersStay ==
  ASSUME NEW q, IsTracked(q), place'[q] = place[q], hops'[q] = hops[q], transit'[q] = transit[q],
         drops \subseteq drops', \A d \in drops' \ drops : d.packet # q,
         lostInTransit \subseteq lostInTransit', \A x \in lostInTransit' \ lostInTransit : x.packet # q
  PROVE  IsTracked(q)'
BY DEF IsTracked, LastArrived

\* No packet is there yet.
LEMMA BlameStart == BlameInit => BlameInvariant
<1> SUFFICES ASSUME BlameInit PROVE BlameInvariant
  OBVIOUS
<1>1. /\ logTime = 0 /\ place = [p \in Packets |-> [in |-> "nowhere", at |-> 0]]
      /\ hops = [p \in Packets |-> <<>>] /\ transit = [p \in Packets |-> 0] /\ drops = {} /\ lostInTransit = {}
  BY DEF BlameInit
<1>2. \A p \in Packets : IsTracked(p)
  BY <1>1 DEF IsTracked
<1> QED
  BY <1>1, <1>2 DEF BlameInvariant

\* An entry about one packet.
LEMMA EntryKeeps ==
  ASSUME BlameInvariant, NEW p \in Packets,
         Created(p) \/ InTransit(p) \/ InNode(p) \/ Dropped(p) \/ LostInTransit(p) \/ DeliveredToApplication(p)
  PROVE  BlameInvariant'
<1>1. IsTracked(p) /\ logTime \in Nat
  BY DEF BlameInvariant
<1>2. ASSUME NEW now, place' = [place EXCEPT ![p] = now], UNCHANGED logTime,
             hops' = hops \/ \E a : hops' = [hops EXCEPT ![p] = a],
             transit' = transit \/ \E l : transit' = [transit EXCEPT ![p] = l],
             drops \subseteq drops', \A d \in drops' \ drops : d.packet = p,
             lostInTransit \subseteq lostInTransit', \A x \in lostInTransit' \ lostInTransit : x.packet = p,
             IsTracked(p)'
      PROVE  BlameInvariant'
  <2>1. ASSUME NEW q \in Packets, q # p PROVE IsTracked(q)'
    <3>1. place'[q] = place[q] /\ hops'[q] = hops[q] /\ transit'[q] = transit[q]
      BY <1>2, <2>1 DEF BlameInvariant
    <3>2. (\A d \in drops' \ drops : d.packet # q) /\ \A x \in lostInTransit' \ lostInTransit : x.packet # q
      BY <1>2, <2>1
    <3> QED
      BY <1>2, <3>1, <3>2, OthersStay DEF BlameInvariant
  <2>2. /\ DOMAIN place' = Packets /\ DOMAIN hops' = Packets /\ DOMAIN transit' = Packets
        /\ place' = [q \in Packets |-> place'[q]] /\ hops' = [q \in Packets |-> hops'[q]]
        /\ transit' = [q \in Packets |-> transit'[q]]
    BY <1>2 DEF BlameInvariant
  <2> QED
    BY <1>2, <2>1, <2>2 DEF BlameInvariant
<1>3. CASE Created(p)
  <2>1. /\ place[p].in = "nowhere" /\ place' = [place EXCEPT ![p] = [in |-> "node", at |-> 1]]
        /\ UNCHANGED <<logTime, hops, transit, drops, lostInTransit>>
    BY <1>3 DEF Created
  <2>2. place'[p] = [in |-> "node", at |-> 1]
    BY <2>1 DEF BlameInvariant
  <2>3. IsTracked(p)'
    BY <1>1, <2>1, <2>2 DEF IsTracked, LastArrived
  <2> QED
    BY <1>2, <2>1, <2>3
<1>4. CASE InTransit(p)
  <2>1. /\ place[p].in = "node" /\ place' = [place EXCEPT ![p] = [in |-> "link", at |-> place[p].at]]
        /\ transit' = [transit EXCEPT ![p] = place[p].at]
        /\ UNCHANGED <<logTime, hops, drops, lostInTransit>>
    BY <1>4 DEF InTransit
  <2>2. place'[p] = [in |-> "link", at |-> place[p].at] /\ transit'[p] = place[p].at
    BY <2>1 DEF BlameInvariant
  <2>3. IsTracked(p)'
    BY <1>1, <2>1, <2>2 DEF IsTracked, LastArrived
  <2> QED
    BY <1>2, <2>1, <2>3
<1>5. CASE InNode(p)
  <2> DEFINE n == place[p].at + 1
             arrival == [node |-> n, t |-> logTime]
  <2>1. /\ place[p].in = "link" /\ hops' = [hops EXCEPT ![p] = Append(@, arrival)]
        /\ UNCHANGED <<logTime, transit, lostInTransit>>
        /\ \/ place' = [place EXCEPT ![p] = [in |-> "node", at |-> n]] /\ UNCHANGED drops
           \/ /\ place' = [place EXCEPT ![p] = [in |-> "dropped", at |-> n]]
              /\ drops' = drops \cup {[packet |-> p, node |-> n, reason |-> "DroppedOnArrival"]}
    BY <1>5 DEF InNode
  <2>2. place[p].at \in Nat \ {0} /\ transit[p] = n - 1 /\ n \in Nat \ {0, 1} /\ arrival \in Hops
    BY <1>1, <2>1 DEF IsTracked, LastArrived, Hops
  <2>3. hops'[p] = Append(hops[p], arrival)
    BY <2>1 DEF BlameInvariant
  <2>4. hops'[p] \in Seq(Hops) /\ hops'[p] # <<>> /\ Last(hops'[p]).node = n
    <3>1. hops[p] \in Seq(Hops)
      BY <1>1 DEF IsTracked
    <3> HIDE DEF arrival
    <3>2. /\ Append(hops[p], arrival) \in Seq(Hops) /\ Len(Append(hops[p], arrival)) = Len(hops[p]) + 1
          /\ Append(hops[p], arrival)[Len(hops[p]) + 1] = arrival /\ Len(hops[p]) \in Nat
      BY <2>2, <3>1
    <3>3. Append(hops[p], arrival) # <<>>
      BY <3>2
    <3>4. arrival.node = n
      BY DEF arrival
    <3> QED
      BY <2>3, <3>2, <3>3, <3>4 DEF Last
  <2>5. /\ \A d \in drops : d.packet # p
        /\ \A x \in lostInTransit : x.packet # p
    BY <1>1, <2>1 DEF IsTracked
  <2>6. CASE place' = [place EXCEPT ![p] = [in |-> "node", at |-> n]] /\ UNCHANGED drops
    <3>1. place'[p] = [in |-> "node", at |-> n]
      BY <2>6 DEF BlameInvariant
    <3>2. IsTracked(p)'
      BY <2>1, <2>2, <2>4, <2>5, <2>6, <3>1 DEF IsTracked, LastArrived
    <3> QED
      BY <1>2, <2>1, <2>6, <3>2
  <2>7. CASE /\ place' = [place EXCEPT ![p] = [in |-> "dropped", at |-> n]]
             /\ drops' = drops \cup {[packet |-> p, node |-> n, reason |-> "DroppedOnArrival"]}
    <3>1. place'[p] = [in |-> "dropped", at |-> n]
      BY <2>7 DEF BlameInvariant
    <3>2. /\ drops \subseteq drops' /\ \A d \in drops' \ drops : d.packet = p /\ d.node = n
          /\ \E d \in drops' : d.packet = p
      <4> DEFINE drop == [packet |-> p, node |-> n, reason |-> "DroppedOnArrival"]
      <4>1. drop.packet = p /\ drop.node = n /\ drops' = drops \cup {drop}
        BY <2>7
      <4> HIDE DEF drop
      <4> QED
        BY <4>1
    <3>3. IsTracked(p)'
      BY <2>1, <2>2, <2>4, <2>5, <3>1, <3>2 DEF IsTracked, LastArrived
    <3> QED
      BY <1>2, <2>1, <2>7, <3>2, <3>3
  <2> QED
    BY <2>1, <2>6, <2>7
<1>6. CASE Dropped(p)
  <2>1. /\ place[p].in = "node" /\ place' = [place EXCEPT ![p].in = "dropped"]
        /\ drops' = drops \cup {[packet |-> p, node |-> place[p].at, reason |-> "buffer"]}
        /\ UNCHANGED <<logTime, hops, transit, lostInTransit>>
    BY <1>6 DEF Dropped
  <2>2. place' = [place EXCEPT ![p] = [in |-> "dropped", at |-> place[p].at]]
    <3>1. place[p] = [in |-> place[p].in, at |-> place[p].at]
      BY <1>1 DEF IsTracked
    <3>2. [place[p] EXCEPT !.in = "dropped"] = [in |-> "dropped", at |-> place[p].at]
      BY <3>1
    <3> QED
      BY <2>1, <3>2
  <2>3. place'[p] = [in |-> "dropped", at |-> place[p].at]
    BY <2>2 DEF BlameInvariant
  <2>4. /\ drops \subseteq drops' /\ \A d \in drops' \ drops : d.packet = p /\ d.node = place[p].at
        /\ \E d \in drops' : d.packet = p
    <3> DEFINE drop == [packet |-> p, node |-> place[p].at, reason |-> "buffer"]
    <3>1. drop.packet = p /\ drop.node = place[p].at /\ drops' = drops \cup {drop}
      BY <2>1
    <3> HIDE DEF drop
    <3> QED
      BY <3>1
  <2>5. IsTracked(p)'
    <3>1. UNCHANGED <<hops, transit, lostInTransit>>
      BY <2>1
    <3> QED
      BY <1>1, <2>1, <2>3, <2>4, <3>1 DEF IsTracked, LastArrived
  <2> QED
    BY <1>2, <2>1, <2>2, <2>4, <2>5
<1>7. CASE LostInTransit(p)
  <2>1. /\ place[p].in = "link" /\ place' = [place EXCEPT ![p].in = "lost"]
        /\ lostInTransit' = lostInTransit \cup {[packet |-> p, link |-> place[p].at, t |-> logTime]}
        /\ UNCHANGED <<logTime, hops, transit, drops>>
    BY <1>7 DEF LostInTransit
  <2>2. place' = [place EXCEPT ![p] = [in |-> "lost", at |-> place[p].at]]
    <3>1. place[p] = [in |-> place[p].in, at |-> place[p].at]
      BY <1>1 DEF IsTracked
    <3>2. [place[p] EXCEPT !.in = "lost"] = [in |-> "lost", at |-> place[p].at]
      BY <3>1
    <3> QED
      BY <2>1, <3>2
  <2>3. place'[p] = [in |-> "lost", at |-> place[p].at]
    BY <2>2 DEF BlameInvariant
  <2>4. /\ lostInTransit \subseteq lostInTransit'
        /\ \A x \in lostInTransit' \ lostInTransit : x.packet = p /\ x.link = place[p].at
        /\ \E x \in lostInTransit' : x.packet = p
    <3> DEFINE loss == [packet |-> p, link |-> place[p].at, t |-> logTime]
    <3>1. loss.packet = p /\ loss.link = place[p].at /\ lostInTransit' = lostInTransit \cup {loss}
      BY <2>1
    <3> HIDE DEF loss
    <3> QED
      BY <3>1
  <2>5. IsTracked(p)'
    <3>1. UNCHANGED <<hops, transit, drops>>
      BY <2>1
    <3> QED
      BY <1>1, <2>1, <2>3, <2>4, <3>1 DEF IsTracked, LastArrived
  <2> QED
    BY <1>2, <2>1, <2>2, <2>4, <2>5
<1>8. CASE DeliveredToApplication(p)
  <2>1. /\ place[p].in = "node" /\ place' = [place EXCEPT ![p].in = "delivered"]
        /\ UNCHANGED <<logTime, hops, transit, drops, lostInTransit>>
    BY <1>8 DEF DeliveredToApplication
  <2>2. place' = [place EXCEPT ![p] = [in |-> "delivered", at |-> place[p].at]]
    <3>1. place[p] = [in |-> place[p].in, at |-> place[p].at]
      BY <1>1 DEF IsTracked
    <3>2. [place[p] EXCEPT !.in = "delivered"] = [in |-> "delivered", at |-> place[p].at]
      BY <3>1
    <3> QED
      BY <2>1, <3>2
  <2>3. place'[p] = [in |-> "delivered", at |-> place[p].at]
    BY <2>2 DEF BlameInvariant
  <2>4. IsTracked(p)'
    BY <1>1, <2>1, <2>3 DEF IsTracked, LastArrived
  <2> QED
    BY <1>2, <2>1, <2>2, <2>4
<1> QED
  BY <1>3, <1>4, <1>5, <1>6, <1>7, <1>8

\* Every entry of the log.
LEMMA BlameStep == BlameInvariant /\ [BlameNext]_blameVars => BlameInvariant'
<1> SUFFICES ASSUME BlameInvariant, [BlameNext]_blameVars PROVE BlameInvariant'
  OBVIOUS
<1>1. CASE LogTick \/ UNCHANGED blameVars
  <2>1. UNCHANGED <<place, hops, transit, drops, lostInTransit>> /\ logTime' \in Nat
    BY <1>1 DEF LogTick, blameVars, BlameInvariant
  <2>2. \A p \in Packets : IsTracked(p)'
    BY <2>1, OthersStay DEF BlameInvariant
  <2> QED
    BY <2>1, <2>2 DEF BlameInvariant
<1> QED
  BY <1>1, EntryKeeps DEF BlameNext

\* A packet that reached no application is laid to the router that had it last,
\* with what became of it there (receipts.mjs:14-16).
THEOREM LastHolderIsBlamed == Spec => []LastIsBlamed
<1>1. Init => BlameInvariant
  BY BlameStart DEF Init, AuditInit
<1>2. BlameInvariant /\ [Next]_vars => BlameInvariant'
  <2> SUFFICES ASSUME BlameInvariant, [Next]_vars PROVE BlameInvariant'
    OBVIOUS
  <2>1. BlameNext \/ UNCHANGED blameVars
    <3>1. AuditNext \/ UNCHANGED auditVars
      BY DEF Next, Fly, PayUp, RunSpike, GrowTree, KeepKeys, Stamp, Haul, Account, PutTogether, vars
    <3> QED
      BY <3>1 DEF AuditNext, auditVars
  <2> QED
    BY <2>1, BlameStep
<1>3. BlameInvariant => LastIsBlamed
  BY BlameSafe
<1> QED
  BY <1>1, <1>2, <1>3, PTL DEF Spec

-----------------------------------------------------------------------------
(* Bundles that come in parts (BundleStream). First the functions by which *)
(* the operators on blocks are defined: their values, one after the other. *)

\* A set that holds 0, and each number's successor with it, holds every number.
LEMMA Induction ==
  ASSUME NEW P, 0 \in P, \A n \in Nat : n \in P => n + 1 \in P
  PROVE  \A n \in Nat : n \in P
<1> DEFINE Q == {n \in Nat : n \notin P}
<1>1. SUFFICES ASSUME Q # {} PROVE FALSE
  OBVIOUS
<1>2. PICK m \in Q : \A k \in Q : ~(<<k, m>> \in OpToRel(<, Nat))
  BY <1>1, NatLessThanWellFounded, WFMin
<1>3. m # 0 /\ m - 1 \in Nat
  OBVIOUS
<1>4. m - 1 \notin Q
  <2>1. m - 1 < m
    BY <1>3
  <2> QED BY <1>2, <1>3, <2>1 DEF OpToRel
<1>5. m - 1 \in P
  BY <1>3, <1>4
<1>6. (m - 1) + 1 \in P
  BY <1>3, <1>5
<1> QED
  BY <1>3, <1>6

\* The values of Only on the beginnings of a sequence.
OnlyRun(blocks, S, h) ==
  /\ h[0] = <<>> /\ h[Len(blocks)] = Only(blocks, S)
  /\ \A i \in 1 .. Len(blocks) :
       h[i] = IF blocks[i] \in S THEN Append(h[i - 1], blocks[i]) ELSE h[i - 1]

\* The function by which Only is defined exists.
LEMMA OnlyRuns ==
  ASSUME NEW U, NEW blocks \in Seq(U), NEW S
  PROVE  \E h : OnlyRun(blocks, S, h)
<1> DEFINE N == Len(blocks)
           Then(i, x) == IF blocks[i] \in S THEN Append(x, blocks[i]) ELSE x
           Unrolled(g) == [i \in 0 .. N |-> IF i = 0 THEN <<>>
                         ELSE IF blocks[i] \in S THEN Append(g[i - 1], blocks[i]) ELSE g[i - 1]]
           at == CHOOSE g : g = Unrolled(g)
           Upto(m, h) == h[0] = <<>> /\ \A i \in 1 .. m : h[i] = Then(i, h[i - 1])
           P == {m \in Nat : \E h : h = [i \in 0 .. m |-> h[i]] /\ Upto(m, h)}
<1>0. N \in Nat
  OBVIOUS
<1>1. 0 \in P
  <2>1. [i \in 0 .. 0 |-> <<>>] = [i \in 0 .. 0 |-> [j \in 0 .. 0 |-> <<>>][i]]
    OBVIOUS
  <2>2. Upto(0, [i \in 0 .. 0 |-> <<>>])
    OBVIOUS
  <2> HIDE DEF Upto
  <2> QED BY <2>1, <2>2
<1>2. ASSUME NEW m \in Nat, m \in P PROVE m + 1 \in P
  <2>1. PICK h : h = [i \in 0 .. m |-> h[i]] /\ Upto(m, h)
    <3> HIDE DEF Upto
    <3> QED BY <1>2
  <2> PICK f : f = [i \in 0 .. m + 1 |-> IF i <= m THEN h[i] ELSE Then(i, h[i - 1])]
    OBVIOUS
  <2>2. \A i \in 0 .. m : f[i] = h[i]
    <3> HIDE DEF Then
    <3> QED OBVIOUS
  <2>3. f[m + 1] = Then(m + 1, h[m])
    <3> HIDE DEF Then
    <3> QED OBVIOUS
  <2>4. \A i \in 1 .. m + 1 : f[i] = Then(i, f[i - 1])
    <3>1. SUFFICES ASSUME NEW i \in 1 .. m + 1 PROVE f[i] = Then(i, f[i - 1])
      <4> HIDE DEF Then
      <4> QED OBVIOUS
    <3>2. f[i - 1] = h[i - 1]
      BY <2>2
    <3>3. CASE i <= m
      <4>1. h[i] = Then(i, h[i - 1]) /\ f[i] = h[i]
        <5> HIDE DEF Then
        <5> QED BY <2>1, <2>2, <3>3, SMTT(60)
      <4> HIDE DEF Then
      <4> QED BY <3>2, <4>1
    <3>4. CASE i = m + 1
      <4> HIDE DEF Then
      <4> QED BY <2>3, <3>2, <3>4
    <3> QED BY <3>3, <3>4
  <2>5. Upto(m + 1, f) /\ f = [i \in 0 .. m + 1 |-> f[i]]
    <3>1. f[0] = <<>>
      BY <2>1, <2>2
    <3> HIDE DEF Then
    <3> QED BY <2>4, <3>1
  <2> HIDE DEF Upto
  <2> QED BY <2>5
<1>3. PICK h : h = [i \in 0 .. N |-> h[i]] /\ Upto(N, h)
  <2>1. N \in P
    <3> HIDE DEF P, N
    <3> QED BY <1>0, <1>1, <1>2, Induction
  <2> HIDE DEF Upto
  <2> QED BY <2>1
<1>4. h = Unrolled(h)
  <2>1. \A i \in 0 .. N : h[i] = IF i = 0 THEN <<>> ELSE Then(i, h[i - 1])
    <3>1. \A i \in 0 .. N : i = 0 \/ i \in 1 .. N
      BY <1>0
    <3> HIDE DEF N, Then
    <3> QED BY <1>3, <3>1
  <2>2. Unrolled(h) = [i \in 0 .. N |-> h[i]]
    <3> HIDE DEF N
    <3> QED BY <2>1
  <2> HIDE DEF Unrolled, N
  <2> QED BY <1>3, <2>2
<1>5. at = Unrolled(at)
  <2> HIDE DEF Unrolled
  <2> QED BY <1>4
<1>6. Only(blocks, S) = at[N]
  BY DEF Only
<1>7. \A i \in 0 .. N : at[i] = Unrolled(at)[i]
  <2> HIDE DEF at, Unrolled
  <2> QED BY <1>5
<1>8. at[0] = <<>> /\ \A i \in 1 .. N : at[i] = Then(i, at[i - 1])
  <2> HIDE DEF at
  <2>1. at[0] = <<>>
    BY <1>0, <1>7
  <2>2. ASSUME NEW i \in 1 .. N PROVE at[i] = Then(i, at[i - 1])
    <3>1. i \in 0 .. N /\ i # 0
      BY <1>0
    <3> HIDE DEF N
    <3> QED BY <1>7, <3>1
  <2> QED BY <2>1, <2>2
<1> HIDE DEF at
<1> QED
  BY <1>6, <1>8 DEF OnlyRun

\* h goes through the values of an iteration of n steps from b on.
Iterates(h, b, n, F) == h[0] = b /\ \A i \in 1 .. n : h[i] = F[<<h[i - 1], i>>]

\* An iteration of any step exists.
LEMMA StepsExist ==
  ASSUME NEW V, NEW b \in V, NEW n \in Nat, NEW F \in [V \X (1 .. n) -> V]
  PROVE  \E h \in [0 .. n -> V] : Iterates(h, b, n, F)
<1> DEFINE Good(m, h) == h[0] = b /\ \A i \in 1 .. m : h[i] = F[<<h[i - 1], i>>]
           P == {m \in Nat : m <= n => \E h \in [0 .. m -> V] : Good(m, h)}
<1>1. 0 \in P
  <2> PICK h : h = [i \in 0 .. 0 |-> b]
    OBVIOUS
  <2>1. h \in [0 .. 0 -> V] /\ Good(0, h)
    OBVIOUS
  <2> HIDE DEF Good
  <2> QED BY <2>1
<1>2. ASSUME NEW m \in Nat, m \in P PROVE m + 1 \in P
  <2>1. SUFFICES ASSUME m + 1 <= n PROVE \E h \in [0 .. m + 1 -> V] : Good(m + 1, h)
    <3> HIDE DEF Good
    <3> QED OBVIOUS
  <2>2. PICK h \in [0 .. m -> V] : Good(m, h)
    <3> HIDE DEF Good
    <3> QED BY <1>2, <2>1
  <2>3. m + 1 \in 1 .. n /\ h[m] \in V
    BY <2>1
  <2>4. F[<<h[m], m + 1>>] \in V
    BY <2>3
  <2> PICK f : f = [i \in 0 .. m + 1 |-> IF i <= m THEN h[i] ELSE F[<<h[m], m + 1>>]]
    OBVIOUS
  <2>5. f \in [0 .. m + 1 -> V]
    <3>1. \A i \in 0 .. m + 1 : (IF i <= m THEN h[i] ELSE F[<<h[m], m + 1>>]) \in V
      BY <2>4
    <3> QED BY <3>1
  <2>6. (\A i \in 0 .. m : f[i] = h[i]) /\ f[m + 1] = F[<<h[m], m + 1>>]
    OBVIOUS
  <2>7. \A i \in 1 .. m + 1 : f[i] = F[<<f[i - 1], i>>]
    <3>1. SUFFICES ASSUME NEW i \in 1 .. m + 1 PROVE f[i] = F[<<f[i - 1], i>>]
      OBVIOUS
    <3>2. f[i - 1] = h[i - 1]
      BY <2>6
    <3>3. CASE i <= m
      <4>1. f[i] = h[i] /\ h[i] = F[<<h[i - 1], i>>]
        BY <2>2, <2>6, <3>3
      <4> QED BY <3>2, <4>1
    <3>4. CASE i = m + 1
      <4>1. i - 1 = m
        BY <3>4
      <4> QED BY <2>6, <3>2, <3>4, <4>1
    <3> QED BY <3>3, <3>4
  <2>8. Good(m + 1, f)
    <3>1. f[0] = b
      BY <2>2, <2>6
    <3> QED BY <2>7, <3>1
  <2> HIDE DEF Good
  <2> QED BY <2>5, <2>8
<1>3. n \in P
  <2> HIDE DEF P
  <2> QED BY <1>1, <1>2, Induction
<1> QED
  BY <1>3 DEF Iterates

\* The values that FlattenSeq goes through.
FlattenRun(seqs, h) ==
  /\ h[0] = <<>> /\ h[Len(seqs)] = FlattenSeq(seqs)
  /\ \A i \in 1 .. Len(seqs) : h[i] = h[i - 1] \o seqs[i]

\* The function by which FlattenSeq is defined exists.
LEMMA FlattenRuns ==
  ASSUME NEW U, NEW seqs \in Seq(Seq(U))
  PROVE  \E h \in [0 .. Len(seqs) -> Seq(U)] : FlattenRun(seqs, h)
<1> DEFINE N == Len(seqs)
           V == Seq(U)
           F == [p \in V \X (1 .. N) |-> p[1] \o seqs[p[2]]]
           Unrolled(g) == [i \in 1 .. N |-> IF i = 1 THEN seqs[i] ELSE g[i - 1] \o seqs[i]]
           at == CHOOSE g : g = Unrolled(g)
<1>0. N \in Nat /\ <<>> \in V /\ \A i \in 1 .. N : seqs[i] \in V
  OBVIOUS
<1>1. \A x \in V, y \in V : x \o y \in V
  BY ConcatProperties
<1>2. F \in [V \X (1 .. N) -> V] /\ \A x \in V : \A i \in 1 .. N : F[<<x, i>>] = x \o seqs[i]
  <2> HIDE DEF V, N
  <2> QED BY <1>0, <1>1
<1>3. PICK h \in [0 .. N -> V] : h[0] = <<>> /\ \A i \in 1 .. N : h[i] = F[<<h[i - 1], i>>]
  <2>2. SUFFICES \E h \in [0 .. N -> V] : Iterates(h, <<>>, N, F)
    <3> HIDE DEF F, V, N
    <3> QED BY DEF Iterates
  <2>1. F \in [V \X (1 .. N) -> V] /\ N \in Nat /\ <<>> \in V
    BY <1>0, <1>2
  <2> HIDE DEF F, V, N
  <2> QED BY <2>1, StepsExist
<1>4. \A i \in 1 .. N : h[i] = h[i - 1] \o seqs[i]
  <2>1. \A i \in 1 .. N : h[i - 1] \in V
    <3> HIDE DEF V, F, N
    <3> QED BY <1>0, <1>3
  <2> HIDE DEF F, V, N
  <2> QED BY <1>2, <1>3, <2>1
<1> PICK g : g = [i \in 1 .. N |-> h[i]]
  OBVIOUS
<1>5. g = Unrolled(g)
  <2>1. ASSUME NEW i \in 1 .. N PROVE h[i] = IF i = 1 THEN seqs[i] ELSE g[i - 1] \o seqs[i]
    <3>1. CASE i = 1
      <4>0. 1 \in 1 .. N /\ 1 - 1 = 0 /\ h[0] = <<>>
        BY <1>3, <3>1
      <4>1. h[1] = <<>> \o seqs[1] /\ seqs[1] \in Seq(U)
        <5>1. h[1] = h[1 - 1] \o seqs[1] /\ seqs[1] \in V
          <6> HIDE DEF N, V
          <6> QED BY <1>0, <1>4, <4>0
        <5> QED BY <4>0, <5>1
      <4> QED BY <3>1, <4>1, ConcatEmptySeq
    <3>2. CASE i # 1
      <4>1. i - 1 \in 1 .. N
        BY <1>0, <3>2
      <4>2. g[i - 1] = h[i - 1]
        BY <4>1
      <4> QED BY <1>4, <3>2, <4>2
    <3> QED BY <3>1, <3>2
  <2>2. Unrolled(g) = [i \in 1 .. N |-> h[i]]
    <3> HIDE DEF N
    <3> QED BY <2>1
  <2> HIDE DEF Unrolled
  <2> QED BY <2>2
<1>6. at = Unrolled(at)
  <2> HIDE DEF Unrolled
  <2> QED BY <1>5
<1>7. FlattenSeq(seqs) = IF N = 0 THEN seqs ELSE at[N]
  BY DEF FlattenSeq
<1>8. \A i \in 1 .. N : at[i] = Unrolled(at)[i]
  <2> HIDE DEF at, Unrolled
  <2> QED BY <1>6
<1> HIDE DEF at
<1>9. \A i \in 1 .. N : at[i] = IF i = 1 THEN seqs[i] ELSE at[i - 1] \o seqs[i]
  BY <1>8
<1> DEFINE Q == {k \in Nat : k + 1 <= N => at[k + 1] = h[k + 1]}
<1>10. \A i \in 1 .. N : g[i] = h[i] /\ h[i] = IF i = 1 THEN seqs[i] ELSE h[i - 1] \o seqs[i]
  <2>1. \A i \in 1 .. N : g[i] = Unrolled(g)[i] /\ g[i] = h[i]
    <3> HIDE DEF Unrolled
    <3> QED BY <1>5
  <2>2. ASSUME NEW i \in 1 .. N, i # 1 PROVE g[i - 1] = h[i - 1]
    BY <1>0, <2>2
  <2> QED BY <2>1, <2>2
<1>11. 0 \in Q
  <2>1. SUFFICES ASSUME 1 <= N PROVE at[1] = h[1]
    OBVIOUS
  <2>2. 1 \in 1 .. N
    BY <1>0, <2>1
  <2>3. at[1] = seqs[1] /\ h[1] = seqs[1]
    <3> HIDE DEF N
    <3> QED BY <1>9, <1>10, <2>2
  <2> QED BY <2>3
<1>12. ASSUME NEW k \in Nat, k \in Q PROVE k + 1 \in Q
  <2>1. SUFFICES ASSUME (k + 1) + 1 <= N PROVE at[(k + 1) + 1] = h[(k + 1) + 1]
    OBVIOUS
  <2>2. (k + 1) + 1 \in 1 .. N /\ (k + 1) + 1 # 1 /\ ((k + 1) + 1) - 1 = k + 1 /\ k + 1 <= N
    BY <1>0, <2>1
  <2>3. at[k + 1] = h[k + 1]
    BY <1>12, <2>2
  <2> QED BY <1>9, <1>10, <2>2, <2>3
<1>13. h[N] = FlattenSeq(seqs)
  <2>1. CASE N = 0
    <3>1. seqs = <<>>
      BY <2>1, EmptySeq
    <3> QED BY <1>3, <1>7, <2>1, <3>1
  <2>2. CASE N # 0
    <3>1. N - 1 \in Nat /\ (N - 1) + 1 = N
      BY <1>0, <2>2
    <3>2. N - 1 \in Q
      <4> HIDE DEF Q, N
      <4> QED BY <1>11, <1>12, <3>1, Induction
    <3>3. at[N] = h[N]
      <4> HIDE DEF N
      <4> QED BY <1>0, <3>1, <3>2
    <3> QED BY <1>7, <2>2, <3>3
  <2> QED BY <2>1, <2>2
<1> QED
  BY <1>3, <1>4, <1>13 DEF FlattenRun

\* Items reads what begins at the second cell.
ItemsRun(w, from) ==
  /\ Items(w) = from[2]
  /\ \A p \in 2 .. Len(w) + 2 :
       from[p] = IF p > Len(w) THEN Refused
                 ELSE IF w[p] = Close THEN IF p = Len(w) THEN Taken(<<>>) ELSE Refused
                 ELSE IF ~WholeAt(w, p) THEN Refused
                 ELSE IF from[p + Width(w[p].block)].ok
                      THEN Taken(<<w[p].block>> \o from[p + Width(w[p].block)].blocks) ELSE Refused

\* The function by which Items is defined exists.
LEMMA ItemsRuns ==
  ASSUME NEW U, NEW w \in Seq(U),
         \A p \in 2 .. Len(w) : w[p] # Close => Width(w[p].block) \in Nat \ {0}
  PROVE  \E from : ItemsRun(w, from)
<1> DEFINE L == Len(w)
           Item(p, rest) == IF rest.ok THEN Taken(<<w[p].block>> \o rest.blocks) ELSE Refused
           Read(p, f) == IF p > L THEN Refused
                         ELSE IF w[p] = Close THEN IF p = L THEN Taken(<<>>) ELSE Refused
                         ELSE IF ~WholeAt(w, p) THEN Refused
                         ELSE Item(p, f[p + Width(w[p].block)])
           Unrolled(g) == [p \in 2 .. L + 2 |->
                         IF p > L THEN Refused
                         ELSE IF w[p] = Close THEN IF p = L THEN Taken(<<>>) ELSE Refused
                         ELSE IF ~WholeAt(w, p) THEN Refused
                         ELSE IF g[p + Width(w[p].block)].ok
                              THEN Taken(<<w[p].block>> \o g[p + Width(w[p].block)].blocks) ELSE Refused]
           at == CHOOSE g : g = Unrolled(g)
           Behind(m, f) == \A p \in 2 .. L + 2 : p >= L + 2 - m => f[p] = Read(p, f)
           Fun(f) == f = [p \in 2 .. L + 2 |-> f[p]]
           P == {m \in Nat : \E f : Fun(f) /\ Behind(m, f)}
<1>0. L \in Nat /\ DOMAIN w = 1 .. L
  OBVIOUS
<1>1. \A p \in 2 .. L : w[p] # Close /\ WholeAt(w, p) =>
        p + Width(w[p].block) \in 2 .. L + 1 /\ p + Width(w[p].block) > p
  BY <1>0 DEF WholeAt
<1>2. ASSUME NEW f, NEW g, NEW p \in 2 .. L + 2, \A q \in 2 .. L + 1 : q > p => f[q] = g[q]
      PROVE  Read(p, f) = Read(p, g)
  <2>1. CASE p \in 2 .. L /\ w[p] # Close /\ WholeAt(w, p)
    <3>1. f[p + Width(w[p].block)] = g[p + Width(w[p].block)]
      BY <1>1, <1>2, <2>1
    <3> HIDE DEF Item, L
    <3> QED BY <3>1
  <2>2. CASE ~(p \in 2 .. L /\ w[p] # Close /\ WholeAt(w, p))
    <3>1. CASE p > L
      <4> HIDE DEF Item, L
      <4> QED BY <3>1
    <3>2. CASE p \in 2 .. L /\ w[p] = Close
      <4> HIDE DEF Item, L
      <4> QED BY <1>0, <3>2
    <3>3. CASE p \in 2 .. L /\ w[p] # Close /\ ~WholeAt(w, p)
      <4> HIDE DEF Item, L
      <4> QED BY <1>0, <3>3
    <3>4. p > L \/ p \in 2 .. L
      BY <1>0
    <3> HIDE DEF Read, L
    <3> QED BY <2>2, <3>1, <3>2, <3>3, <3>4
  <2> QED BY <2>1, <2>2
<1>3. 0 \in P
  <2> PICK f : f = [p \in 2 .. L + 2 |-> Refused]
    OBVIOUS
  <2>1. \A p \in 2 .. L + 2 : f[p] = Refused
    OBVIOUS
  <2>2. Fun(f)
    BY <2>1
  <2>3. Behind(0, f)
    <3>1. ASSUME NEW p \in 2 .. L + 2, p >= L + 2 - 0 PROVE f[p] = Read(p, f)
      <4>1. p > L
        BY <1>0, <3>1, SMTT(60)
      <4> HIDE DEF Item, L
      <4> QED BY <2>1, <4>1
    <3> HIDE DEF Read, L
    <3> QED BY <3>1
  <2> HIDE DEF Behind, Fun
  <2> QED BY <2>2, <2>3
<1>4. ASSUME NEW m \in Nat, m \in P PROVE m + 1 \in P
  <2>1. PICK f : Fun(f) /\ Behind(m, f)
    <3> HIDE DEF Behind, Fun
    <3> QED BY <1>4
  <2> PICK c : c = L + 2 - (m + 1)
    OBVIOUS
  <2> PICK g : g = [p \in 2 .. L + 2 |-> IF p = c THEN Read(c, f) ELSE f[p]]
    <3> HIDE DEF Read
    <3> QED OBVIOUS
  <2>2. \A p \in 2 .. L + 2 : g[p] = IF p = c THEN Read(c, f) ELSE f[p]
    <3> HIDE DEF Read, L
    <3> QED OBVIOUS
  <2>3. g = [p \in 2 .. L + 2 |-> g[p]]
    <3> HIDE DEF Read, L
    <3> QED BY <2>2
  <2>4. ASSUME NEW p \in 2 .. L + 2, p >= c PROVE g[p] = Read(p, g)
    <3>1. \A q \in 2 .. L + 1 : q > p => f[q] = g[q]
      <4> HIDE DEF Read
      <4> QED BY <1>0, <2>2, <2>4
    <3>2. Read(p, f) = Read(p, g)
      <4> HIDE DEF Read, L
      <4> QED BY <1>2, <3>1
    <3>3. CASE p = c
      <4> HIDE DEF Read, L
      <4> QED BY <2>2, <3>2, <3>3
    <3>4. CASE p # c
      <4>1. p >= L + 2 - m
        <5> HIDE DEF L, Read
        <5> QED BY <1>0, <2>4, <3>4
      <4>2. f[p] = Read(p, f)
        <5> HIDE DEF Read, L
        <5> QED BY <2>1, <4>1
      <4> HIDE DEF Read, L
      <4> QED BY <2>2, <3>2, <3>4, <4>2
    <3> QED BY <3>3, <3>4
  <2>5. Behind(m + 1, g)
    <3> HIDE DEF Read, L
    <3> QED BY <2>4, SMTT(60)
  <2>6. Fun(g)
    BY <2>3
  <2> HIDE DEF Behind, Fun
  <2> QED BY <2>5, <2>6
<1>5. PICK f : f = [p \in 2 .. L + 2 |-> f[p]] /\ Behind(L + 2, f)
  <2>1. L + 2 \in P
    <3>1. L + 2 \in Nat
      BY <1>0
    <3> HIDE DEF P, L
    <3> QED BY <1>3, <1>4, <3>1, Induction
  <2>2. \E f : Fun(f) /\ Behind(L + 2, f)
    <3> HIDE DEF Behind, Fun, L
    <3> QED BY <2>1
  <2> HIDE DEF Behind, L
  <2> QED BY <2>2
<1>6. \A p \in 2 .. L + 2 : f[p] = Read(p, f)
  <2>1. \A p \in 2 .. L + 2 : p >= L + 2 - (L + 2)
    BY <1>0
  <2> HIDE DEF Read, L
  <2> QED BY <1>5, <2>1
<1>7. f = Unrolled(f)
  <2>1. Unrolled(f) = [p \in 2 .. L + 2 |-> Read(p, f)]
    <3> HIDE DEF L
    <3> QED OBVIOUS
  <2>2. [p \in 2 .. L + 2 |-> Read(p, f)] = [p \in 2 .. L + 2 |-> f[p]]
    <3> HIDE DEF L, Read
    <3> QED BY <1>6
  <2> HIDE DEF Unrolled, Read, L
  <2> QED BY <1>5, <2>1, <2>2
<1>8. at = Unrolled(at)
  <2> HIDE DEF Unrolled
  <2> QED BY <1>7
<1>9. Items(w) = at[2]
  BY DEF Items
<1>10. \A p \in 2 .. L + 2 : at[p] = Unrolled(at)[p]
  <2> HIDE DEF at, Unrolled
  <2> QED BY <1>8
<1> HIDE DEF at
<1>11. \A p \in 2 .. L + 2 : at[p] = Read(p, at)
  <2> HIDE DEF L
  <2> QED BY <1>10
<1> HIDE DEF L
<1> QED
  BY <1>9, <1>11 DEF ItemsRun, L

-----------------------------------------------------------------------------
(* The blocks of a type, and a custody block that is put among them.       *)

\* r is what Only takes of blocks: pos tells from where.
Picks(blocks, S, r, pos) ==
  /\ \A j \in 1 .. Len(r) : pos[j] \in 1 .. Len(blocks) /\ r[j] = blocks[pos[j]] /\ blocks[pos[j]] \in S
  /\ \A i, j \in 1 .. Len(r) : i < j => pos[i] < pos[j]
  /\ \A i \in 1 .. Len(blocks) : blocks[i] \in S => \E j \in 1 .. Len(r) : pos[j] = i

PicksUpto(blocks, S, r, pos, m) ==
  /\ \A j \in 1 .. Len(r) : pos[j] \in 1 .. m /\ r[j] = blocks[pos[j]] /\ blocks[pos[j]] \in S
  /\ \A i, j \in 1 .. Len(r) : i < j => pos[i] < pos[j]
  /\ \A i \in 1 .. m : blocks[i] \in S => \E j \in 1 .. Len(r) : pos[j] = i

\* Another block is kept, or passed over.
LEMMA PicksMore ==
  ASSUME NEW U, NEW blocks \in Seq(U), NEW S, NEW r \in Seq(U), NEW pos, NEW m \in Nat,
         m + 1 <= Len(blocks), PicksUpto(blocks, S, r, pos, m)
  PROVE  IF blocks[m + 1] \in S
         THEN Append(r, blocks[m + 1]) \in Seq(U)
              /\ \E new : PicksUpto(blocks, S, Append(r, blocks[m + 1]), new, m + 1)
         ELSE PicksUpto(blocks, S, r, pos, m + 1)
<1> PICK b : b = blocks[m + 1]
  OBVIOUS
<1>0. b \in U /\ Len(r) \in Nat /\ Len(blocks) \in Nat
  <2>1. m + 1 \in 1 .. Len(blocks)
    OBVIOUS
  <2> QED BY <2>1, ElementOfSeq
<1>1. CASE b \in S
  <2> PICK q : q = Append(r, b)
    OBVIOUS
  <2>1. q \in Seq(U) /\ Len(q) = Len(r) + 1 /\ q[Len(r) + 1] = b /\ \A j \in 1 .. Len(r) : q[j] = r[j]
    BY <1>0, AppendProperties
  <2> PICK new : new = [j \in 1 .. Len(r) + 1 |-> IF j <= Len(r) THEN pos[j] ELSE m + 1]
    OBVIOUS
  <2>2. new[Len(r) + 1] = m + 1 /\ \A j \in 1 .. Len(r) : new[j] = pos[j]
    BY <1>0
  <2>3. \A j \in 1 .. Len(q) : j \in 1 .. Len(r) \/ j = Len(r) + 1
    BY <1>0, <2>1
  <2>4. \A j \in 1 .. Len(r) : pos[j] \in 1 .. m /\ r[j] = blocks[pos[j]] /\ blocks[pos[j]] \in S
    BY DEF PicksUpto
  <2>5. \A j \in 1 .. Len(q) : new[j] \in 1 .. m + 1 /\ q[j] = blocks[new[j]] /\ blocks[new[j]] \in S
    BY <1>0, <1>1, <2>1, <2>2, <2>3, <2>4
  <2>6. \A i, j \in 1 .. Len(q) : i < j => new[i] < new[j]
    <3>1. ASSUME NEW i \in 1 .. Len(q), NEW j \in 1 .. Len(q), i < j PROVE new[i] < new[j]
      <4>1. i \in 1 .. Len(r) /\ new[i] = pos[i] /\ pos[i] \in 1 .. m
        <5>1. i # Len(r) + 1
          BY <1>0, <2>1, <3>1
        <5> QED BY <2>2, <2>3, <2>4, <5>1
      <4>2. CASE j = Len(r) + 1
        BY <2>2, <4>1, <4>2
      <4>3. CASE j \in 1 .. Len(r)
        BY <2>2, <3>1, <4>1, <4>3 DEF PicksUpto
      <4> QED BY <2>3, <4>2, <4>3
    <3> QED BY <3>1
  <2>7. ASSUME NEW i \in 1 .. m + 1, blocks[i] \in S PROVE \E j \in 1 .. Len(q) : new[j] = i
    <3>1. CASE i = m + 1
      BY <1>0, <2>1, <2>2, <3>1
    <3>2. CASE i \in 1 .. m
      <4>1. PICK j \in 1 .. Len(r) : pos[j] = i
        BY <2>7, <3>2 DEF PicksUpto
      <4> QED BY <1>0, <2>1, <2>2, <4>1
    <3> QED BY <3>1, <3>2
  <2>8. PicksUpto(blocks, S, q, new, m + 1)
    BY <2>5, <2>6, <2>7 DEF PicksUpto
  <2> QED BY <1>1, <2>1, <2>8
<1>2. CASE b \notin S
  <2>1. \A j \in 1 .. Len(r) : pos[j] \in 1 .. m + 1
    BY DEF PicksUpto
  <2>2. \A i \in 1 .. m + 1 : blocks[i] \in S => i \in 1 .. m
    BY <1>2
  <2> QED BY <1>2, <2>1, <2>2 DEF PicksUpto
<1> QED
  BY <1>1, <1>2

\* What Only keeps, at which places.
LEMMA OnlyPicks ==
  ASSUME NEW U, NEW blocks \in Seq(U), NEW S
  PROVE  Only(blocks, S) \in Seq(U) /\ \E pos : Picks(blocks, S, Only(blocks, S), pos)
<1> DEFINE Is(r, m) == r \in Seq(U) /\ \E pos : PicksUpto(blocks, S, r, pos, m)
           n == Len(blocks)
<1> PICK h : OnlyRun(blocks, S, h)
  BY OnlyRuns
<1> DEFINE P == {m \in Nat : m <= n => Is(h[m], m)}
<1>1. 0 \in P
  <2>1. h[0] = <<>>
    BY DEF OnlyRun
  <2>2. PicksUpto(blocks, S, <<>>, <<>>, 0)
    BY DEF PicksUpto
  <2>3. <<>> \in Seq(U)
    OBVIOUS
  <2> QED BY <2>1, <2>2, <2>3
<1>2. ASSUME NEW m \in Nat, m \in P PROVE m + 1 \in P
  <2>1. SUFFICES ASSUME m + 1 <= n PROVE Is(h[m + 1], m + 1)
    <3> HIDE DEF Is
    <3> QED OBVIOUS
  <2>2. Is(h[m], m)
    <3> HIDE DEF Is
    <3> QED BY <1>2, <2>1
  <2>3. h[m + 1] = IF blocks[m + 1] \in S THEN Append(h[m], blocks[m + 1]) ELSE h[m]
    <3>1. m + 1 \in 1 .. n /\ (m + 1) - 1 = m
      BY <2>1
    <3> QED BY <3>1 DEF OnlyRun
  <2> PICK r : r = h[m]
    OBVIOUS
  <2>4. PICK pos : r \in Seq(U) /\ PicksUpto(blocks, S, r, pos, m)
    BY <2>2
  <2>5. IF blocks[m + 1] \in S
        THEN Append(r, blocks[m + 1]) \in Seq(U)
             /\ \E new : PicksUpto(blocks, S, Append(r, blocks[m + 1]), new, m + 1)
        ELSE PicksUpto(blocks, S, r, pos, m + 1)
    BY <2>1, <2>4, PicksMore
  <2>6. CASE blocks[m + 1] \in S
    BY <2>3, <2>5, <2>6
  <2>7. CASE blocks[m + 1] \notin S
    BY <2>3, <2>4, <2>5, <2>7
  <2> HIDE DEF Is
  <2> QED BY <2>6, <2>7
<1>3. Is(h[n], n)
  <2>1. n \in P /\ n \in Nat
    <3> HIDE DEF P
    <3> QED BY <1>1, <1>2, Induction
  <2> HIDE DEF Is
  <2> QED BY <2>1
<1>4. h[n] = Only(blocks, S)
  BY DEF OnlyRun
<1>5. \A r, pos : PicksUpto(blocks, S, r, pos, n) => Picks(blocks, S, r, pos)
  BY DEF PicksUpto, Picks
<1> QED
  BY <1>3, <1>4, <1>5

\* The block at f is the first in S, and the only one.
IsFirst(blocks, S, f) ==
  f \in 1 .. Len(blocks) /\ blocks[f] \in S /\ \A i \in 1 .. f - 1 : blocks[i] \notin S

IsOnly(blocks, S, f) ==
  f \in 1 .. Len(blocks) /\ \A i \in 1 .. Len(blocks) : blocks[i] \in S <=> i = f

\* None, the first, and the only one of them.
LEMMA OnlyNone ==
  ASSUME NEW U, NEW blocks \in Seq(U), NEW S
  PROVE  Only(blocks, S) = <<>> <=> \A i \in 1 .. Len(blocks) : blocks[i] \notin S
<1> PICK r : r = Only(blocks, S)
  OBVIOUS
<1>1. r \in Seq(U) /\ \E pos : Picks(blocks, S, r, pos)
  BY OnlyPicks
<1>2. PICK pos : Picks(blocks, S, r, pos)
  BY <1>1
<1>3. CASE r = <<>>
  BY <1>2, <1>3 DEF Picks
<1>4. CASE r # <<>>
  <2>1. 1 \in 1 .. Len(r)
    BY <1>1, <1>4, EmptySeq
  <2> QED BY <1>2, <1>4, <2>1 DEF Picks
<1> QED
  BY <1>3, <1>4

\* The first that is kept.
LEMMA OnlyFirst ==
  ASSUME NEW U, NEW blocks \in Seq(U), NEW S, NEW f, IsFirst(blocks, S, f)
  PROVE  Only(blocks, S) # <<>> /\ Head(Only(blocks, S)) = blocks[f]
<1> PICK r : r = Only(blocks, S)
  OBVIOUS
<1>1. r \in Seq(U) /\ \E pos : Picks(blocks, S, r, pos)
  BY OnlyPicks
<1>2. PICK pos : Picks(blocks, S, r, pos)
  BY <1>1
<1>3. PICK j \in 1 .. Len(r) : pos[j] = f
  BY <1>2 DEF Picks, IsFirst
<1>4. 1 \in 1 .. Len(r) /\ r # <<>>
  BY <1>1, <1>3
<1>5. pos[1] \in 1 .. Len(blocks) /\ r[1] = blocks[pos[1]] /\ blocks[pos[1]] \in S
  BY <1>2, <1>4 DEF Picks
<1>6. pos[1] <= f
  <2>1. CASE j = 1
    BY <1>3, <1>5, <2>1
  <2>2. CASE j # 1
    <3>1. 1 < j /\ j \in 1 .. Len(r)
      BY <2>2
    <3>2. pos[1] < pos[j]
      BY <1>2, <1>4, <3>1 DEF Picks
    <3> QED BY <1>3, <1>5, <3>2 DEF IsFirst
  <2> QED BY <2>1, <2>2
<1>7. pos[1] = f
  BY <1>5, <1>6 DEF IsFirst
<1> QED
  BY <1>1, <1>4, <1>5, <1>7

\* There is one when there is exactly one.
LEMMA OnlyOne ==
  ASSUME NEW U, NEW blocks \in Seq(U), NEW S
  PROVE  Len(Only(blocks, S)) = 1 <=> \E f : IsOnly(blocks, S, f)
<1> PICK r : r = Only(blocks, S)
  OBVIOUS
<1>1. r \in Seq(U) /\ Len(r) \in Nat /\ \E pos : Picks(blocks, S, r, pos)
  BY OnlyPicks
<1>2. PICK pos : Picks(blocks, S, r, pos)
  BY <1>1
<1>3. ASSUME Len(r) = 1 PROVE \E f : IsOnly(blocks, S, f)
  <2>1. pos[1] \in 1 .. Len(blocks) /\ blocks[pos[1]] \in S
    BY <1>2, <1>3 DEF Picks
  <2>2. \A i \in 1 .. Len(blocks) : blocks[i] \in S => i = pos[1]
    BY <1>2, <1>3 DEF Picks
  <2>3. IsOnly(blocks, S, pos[1])
    BY <2>1, <2>2 DEF IsOnly
  <2> QED BY <2>3
<1>4. ASSUME NEW f, IsOnly(blocks, S, f) PROVE Len(r) = 1
  <2>1. PICK j \in 1 .. Len(r) : pos[j] = f
    BY <1>2, <1>4 DEF Picks, IsOnly
  <2>2. \A k \in 1 .. Len(r) : pos[k] = f
    BY <1>2, <1>4 DEF Picks, IsOnly
  <2>3. ASSUME Len(r) # 1 PROVE FALSE
    <3>1. 1 \in 1 .. Len(r) /\ 2 \in 1 .. Len(r) /\ 1 < 2
      <4> PICK n : n = Len(r)
        OBVIOUS
      <4>1. n \in Nat /\ j \in 1 .. n /\ n # 1
        BY <1>1, <2>1, <2>3
      <4> QED BY <4>1
    <3>2. pos[1] < pos[2]
      BY <1>2, <3>1 DEF Picks
    <3> QED BY <1>4, <2>2, <3>1, <3>2 DEF IsOnly
  <2> QED BY <2>3
<1> QED
  BY <1>3, <1>4

\* It holds those that are in S.
LEMMA OnlyHas ==
  ASSUME NEW U, NEW blocks \in Seq(U), NEW S
  PROVE  ToSet(Only(blocks, S)) = {b \in ToSet(blocks) : b \in S}
<1> PICK r : r = Only(blocks, S)
  OBVIOUS
<1>1. r \in Seq(U) /\ DOMAIN r = 1 .. Len(r) /\ \E pos : Picks(blocks, S, r, pos)
  BY OnlyPicks
<1>2. PICK pos : Picks(blocks, S, r, pos)
  BY <1>1
<1>3. DOMAIN blocks = 1 .. Len(blocks)
  OBVIOUS
<1>4. \A j \in 1 .. Len(r) : r[j] \in ToSet(blocks) /\ r[j] \in S
  BY <1>2, <1>3 DEF Picks, ToSet
<1>5. ASSUME NEW i \in 1 .. Len(blocks), blocks[i] \in S PROVE blocks[i] \in ToSet(r)
  <2>1. PICK j \in 1 .. Len(r) : pos[j] = i
    BY <1>2, <1>5 DEF Picks
  <2>2. r[j] = blocks[i]
    BY <1>2, <2>1 DEF Picks
  <2> QED BY <1>1, <2>2 DEF ToSet
<1> QED
  BY <1>1, <1>3, <1>4, <1>5 DEF ToSet

\* The blocks of a type: none, the first, the only one.
Typed(blocks, type) == {b \in ToSet(blocks) : b.type = type}

\* The blocks of a type are those that are in a set.
LEMMA TypesIn ==
  ASSUME NEW U, NEW blocks \in Seq(U), NEW type
  PROVE  /\ OfType(blocks, type) = Only(blocks, Typed(blocks, type))
         /\ \A i \in 1 .. Len(blocks) : blocks[i] \in Typed(blocks, type) <=> blocks[i].type = type
<1>1. \A i \in 1 .. Len(blocks) : blocks[i] \in ToSet(blocks)
  BY DEF ToSet
<1> QED
  BY <1>1 DEF OfType, Typed

\* None of a type.
LEMMA TypeNone ==
  ASSUME NEW U, NEW blocks \in Seq(U), NEW type
  PROVE  OfType(blocks, type) = <<>> <=> \A i \in 1 .. Len(blocks) : blocks[i].type # type
<1> PICK S : S = Typed(blocks, type)
  OBVIOUS
<1>1. OfType(blocks, type) = Only(blocks, S) /\ \A i \in 1 .. Len(blocks) : blocks[i] \in S <=> blocks[i].type = type
  BY TypesIn
<1> QED
  BY <1>1, OnlyNone

FirstTyped(blocks, type, f) ==
  f \in 1 .. Len(blocks) /\ blocks[f].type = type /\ \A i \in 1 .. f - 1 : blocks[i].type # type

\* The first of a type.
LEMMA TypeFirst ==
  ASSUME NEW U, NEW blocks \in Seq(U), NEW type, NEW f, FirstTyped(blocks, type, f)
  PROVE  OfType(blocks, type) # <<>> /\ Head(OfType(blocks, type)) = blocks[f]
<1> PICK S : S = Typed(blocks, type)
  OBVIOUS
<1>1. OfType(blocks, type) = Only(blocks, S) /\ \A i \in 1 .. Len(blocks) : blocks[i] \in S <=> blocks[i].type = type
  BY TypesIn
<1>2. f \in 1 .. Len(blocks) /\ \A i \in 1 .. f - 1 : i \in 1 .. Len(blocks)
  BY DEF FirstTyped
<1>3. IsFirst(blocks, S, f)
  BY <1>1, <1>2 DEF FirstTyped, IsFirst
<1> QED
  BY <1>1, <1>3, OnlyFirst

OnlyTyped(blocks, type, f) ==
  f \in 1 .. Len(blocks) /\ \A i \in 1 .. Len(blocks) : blocks[i].type = type <=> i = f

\* The only one of a type.
LEMMA TypeOne ==
  ASSUME NEW U, NEW blocks \in Seq(U), NEW type
  PROVE  Len(OfType(blocks, type)) = 1 <=> \E f : OnlyTyped(blocks, type, f)
<1> PICK S : S = Typed(blocks, type)
  OBVIOUS
<1>1. OfType(blocks, type) = Only(blocks, S) /\ \A i \in 1 .. Len(blocks) : blocks[i] \in S <=> blocks[i].type = type
  BY TypesIn
<1>2. Len(Only(blocks, S)) = 1 <=> \E f : IsOnly(blocks, S, f)
  BY OnlyOne
<1>3. \A f : IsOnly(blocks, S, f) <=> OnlyTyped(blocks, type, f)
  BY <1>1 DEF IsOnly, OnlyTyped
<1> QED
  BY <1>1, <1>2, <1>3

\* There is a first block of a type.
LEMMA FirstOfType ==
  ASSUME NEW U, NEW blocks \in Seq(U), NEW type, OfType(blocks, type) # <<>>
  PROVE  \E f : FirstTyped(blocks, type, f) /\ Head(OfType(blocks, type)) = blocks[f]
<1> PICK S : S = Typed(blocks, type)
  OBVIOUS
<1>1. OfType(blocks, type) = Only(blocks, S) /\ \A i \in 1 .. Len(blocks) : blocks[i] \in S <=> blocks[i].type = type
  BY TypesIn
<1> PICK r : r = Only(blocks, S)
  OBVIOUS
<1>2. r \in Seq(U) /\ \E pos : Picks(blocks, S, r, pos)
  BY OnlyPicks
<1>3. PICK pos : Picks(blocks, S, r, pos)
  BY <1>2
<1>4. 1 \in 1 .. Len(r)
  BY <1>1, <1>2, EmptySeq
<1>5. pos[1] \in 1 .. Len(blocks) /\ r[1] = blocks[pos[1]] /\ blocks[pos[1]] \in S
  BY <1>3, <1>4 DEF Picks
<1>6. ASSUME NEW i \in 1 .. pos[1] - 1, blocks[i].type = type PROVE FALSE
  <2>1. i \in 1 .. Len(blocks) /\ i < pos[1]
    BY <1>5
  <2>2. PICK j \in 1 .. Len(r) : pos[j] = i
    BY <1>1, <1>3, <1>6, <2>1 DEF Picks
  <2>3. j = 1 \/ 1 < j
    OBVIOUS
  <2>4. 1 < j => pos[1] < pos[j]
    BY <1>3, <1>4 DEF Picks
  <2> QED BY <1>5, <2>1, <2>2, <2>3, <2>4
<1>7. Head(r) = r[1]
  BY <1>2, <1>4
<1>8. FirstTyped(blocks, type, pos[1])
  BY <1>1, <1>5, <1>6 DEF FirstTyped
<1> QED
  BY <1>1, <1>5, <1>7, <1>8

\* All of a type.
LEMMA TypeHas ==
  ASSUME NEW U, NEW blocks \in Seq(U), NEW type
  PROVE  ToSet(OfType(blocks, type)) = Typed(blocks, type)
<1> PICK S : S = Typed(blocks, type)
  OBVIOUS
<1>1. ToSet(Only(blocks, S)) = {b \in ToSet(blocks) : b \in S}
  BY OnlyHas
<1>2. S \subseteq ToSet(blocks)
  BY DEF Typed
<1> QED
  BY <1>1, <1>2, TypesIn

\* Where the blocks of new were in bs, that is new but for x before the last.
Others(new) == (1 .. Len(new)) \ {Len(new) - 1}

Moved(bs, new, q, x) ==
  /\ Len(new) \in Nat /\ Len(new) >= 3 /\ new[Len(new) - 1] = x /\ x.type = Custody
  /\ \A j \in Others(new) : q[j] \in 1 .. Len(bs) /\ new[j] = bs[q[j]] /\ bs[q[j]].type # Custody
  /\ \A i, j \in Others(new) : i < j => q[i] < q[j]
  /\ \A i \in 1 .. Len(bs) : bs[i].type # Custody => \E j \in Others(new) : q[j] = i
  /\ q[1] = 1 /\ q[Len(new)] = Len(bs)

PutNumber(blocks) ==
  IF OfType(blocks, Custody) = <<>> THEN NextNumber(blocks) ELSE Head(OfType(blocks, Custody)).number

\* pos tells from where the blocks of others are: all that are no custody blocks.
From(bs, others, pos) ==
  /\ \A j \in 1 .. Len(others) : pos[j] \in 1 .. Len(bs) /\ others[j] = bs[pos[j]] /\ bs[pos[j]].type # Custody
  /\ \A i, j \in 1 .. Len(others) : i < j => pos[i] < pos[j]
  /\ \A i \in 1 .. Len(bs) : bs[i].type # Custody => \E j \in 1 .. Len(others) : pos[j] = i
  /\ pos[1] = 1 /\ pos[Len(others)] = Len(bs)

NotCustody(bs) == {b \in ToSet(bs) : b.type # Custody}

\* The blocks beside the custody blocks, and the places they come from.
LEMMA OthersAre ==
  ASSUME NEW U, NEW bs \in Seq(U), Len(bs) >= 2, bs[1].type # Custody, bs[Len(bs)].type # Custody,
         NEW others, others = Only(bs, NotCustody(bs))
  PROVE  others \in Seq(U) /\ Len(others) >= 2 /\ \E pos : From(bs, others, pos)
<1>s. PICK S : S = NotCustody(bs)
  OBVIOUS
<1>n. PICK n : n = Len(bs)
  OBVIOUS
<1>0. n \in Nat /\ n >= 2 /\ 1 \in 1 .. n /\ n \in 1 .. n /\ DOMAIN bs = 1 .. n
  BY <1>n
<1>1. \A i \in 1 .. n : bs[i] \in S <=> bs[i].type # Custody
  BY <1>s, <1>0 DEF ToSet, NotCustody
<1>2. others \in Seq(U) /\ Len(others) \in Nat /\ \E pos : Picks(bs, S, others, pos)
  BY <1>s, OnlyPicks
<1>3. PICK pos : Picks(bs, S, others, pos)
  BY <1>2
<1>m. PICK m : m = Len(others)
  OBVIOUS
<1>4. \A j \in 1 .. m : pos[j] \in 1 .. n /\ others[j] = bs[pos[j]] /\ bs[pos[j]].type # Custody
  BY <1>m, <1>n, <1>1, <1>3 DEF Picks
<1>5. \A i, j \in 1 .. m : i < j => pos[i] < pos[j]
  BY <1>m, <1>3 DEF Picks
<1>6. \A i \in 1 .. n : bs[i].type # Custody => \E j \in 1 .. m : pos[j] = i
  BY <1>m, <1>n, <1>1, <1>3 DEF Picks
<1>7. PICK a \in 1 .. m : pos[a] = 1
  BY <1>0, <1>6
<1>8. PICK z \in 1 .. m : pos[z] = n
  BY <1>n, <1>0, <1>6
<1>9. m \in Nat /\ 1 \in 1 .. m /\ m \in 1 .. m
  BY <1>m, <1>2, <1>7
<1>10. pos[1] = 1
  <2>1. 1 < a => pos[1] < 1
    BY <1>5, <1>7, <1>9
  <2>2. pos[1] \in 1 .. n
    BY <1>4, <1>9
  <2> QED BY <1>7, <2>1, <2>2
<1>11. pos[m] = n
  <2>1. z < m => n < pos[m]
    BY <1>5, <1>8, <1>9
  <2>2. pos[m] \in 1 .. n
    BY <1>4, <1>9
  <2> QED BY <1>0, <1>8, <1>9, <2>1, <2>2
<1>12. m >= 2
  <2>1. m # 1
    BY <1>0, <1>10, <1>11
  <2> QED BY <1>9, <2>1
<1>13. From(bs, others, pos)
  BY <1>m, <1>n, <1>4, <1>5, <1>6, <1>10, <1>11 DEF From
<1> QED
  BY <1>m, <1>2, <1>12, <1>13

\* x is before the last of the others.
PutBetween(others, x, new) ==
  LET L == Len(others)
  IN  /\ Len(new) = L + 1 /\ new[L] = x /\ new[L + 1] = others[L]
      /\ \A j \in 1 .. L - 1 : new[j] = others[j]

\* What stands where after a block was put before the last.
LEMMA Between ==
  ASSUME NEW U, NEW others \in Seq(U), Len(others) >= 2, NEW x,
         NEW new, new = Front(others) \o <<x, Last(others)>>
  PROVE  new \in Seq(U \cup {x}) /\ PutBetween(others, x, new)
<1>l. PICK L : L = Len(others)
  OBVIOUS
<1>w. PICK W : W = U \cup {x}
  OBVIOUS
<1>0. L \in Nat /\ L >= 2 /\ \A i \in 1 .. L : others[i] \in W
  <2>1. L \in Nat /\ L >= 2
    BY <1>l
  <2>2. \A i \in 1 .. L : others[i] \in U
    BY <1>l
  <2> QED BY <1>w, <2>1, <2>2
<1>f. PICK front : front = Front(others)
  OBVIOUS
<1>1. front \in Seq(W) /\ Len(front) = L - 1 /\ \A i \in 1 .. L - 1 : front[i] = others[i]
  <2>1. \A i \in 1 .. L - 1 : others[i] \in W
    BY <1>0
  <2>2. front = SubSeq(others, 1, L - 1)
    BY <1>l, <1>f DEF Front
  <2>3. 1 \in Int /\ L - 1 \in Int /\ 1 <= L - 1 /\ (L - 1) - 1 + 1 = L - 1
    BY <1>0
  <2>4. /\ SubSeq(others, 1, L - 1) \in Seq(W)
        /\ Len(SubSeq(others, 1, L - 1)) = IF 1 <= L - 1 THEN (L - 1) - 1 + 1 ELSE 0
        /\ \A i \in 1 .. (L - 1) - 1 + 1 : SubSeq(others, 1, L - 1)[i] = others[1 + i - 1]
    BY <2>1, <2>3, SubSeqProperties
  <2>5. \A i \in 1 .. L - 1 : 1 + i - 1 = i
    BY <1>0
  <2> QED BY <2>2, <2>3, <2>4, <2>5
<1>b. PICK back : back = <<x, Last(others)>>
  OBVIOUS
<1>2. back \in Seq(W) /\ Len(back) = 2 /\ back[1] = x /\ back[2] = others[L]
  <2>1. L \in 1 .. L
    BY <1>0
  <2>2. others[L] \in W /\ Last(others) = others[L] /\ x \in W
    BY <1>l, <1>w, <1>0, <2>1 DEF Last
  <2> QED BY <1>b, <2>2
<1>3. /\ new \in Seq(W) /\ Len(new) = (L - 1) + 2
      /\ \A i \in 1 .. (L - 1) + 2 : new[i] = IF i <= L - 1 THEN front[i] ELSE back[i - (L - 1)]
  <2>1. new = front \o back
    BY <1>f, <1>b
  <2>2. /\ front \o back \in Seq(W) /\ Len(front \o back) = Len(front) + Len(back)
        /\ \A i \in 1 .. Len(front) + Len(back) :
             (front \o back)[i] = IF i <= Len(front) THEN front[i] ELSE back[i - Len(front)]
    BY <1>1, <1>2, ConcatProperties
  <2> QED BY <1>1, <1>2, <2>1, <2>2
<1>4. new[L] = back[1] /\ new[L + 1] = back[2]
  <2>1. L \in 1 .. (L - 1) + 2 /\ L + 1 \in 1 .. (L - 1) + 2 /\ L - (L - 1) = 1 /\ L + 1 - (L - 1) = 2
        /\ ~(L <= L - 1) /\ ~(L + 1 <= L - 1)
    BY <1>0
  <2>2. ASSUME NEW i \in 1 .. (L - 1) + 2, NEW d, ~(i <= L - 1), i - (L - 1) = d PROVE new[i] = back[d]
    <3>1. new[i] = back[i - (L - 1)]
      BY <1>3, <2>2
    <3> QED BY <2>2, <3>1
  <2>3. new[L] = back[1]
    BY <2>1, <2>2
  <2>4. new[L + 1] = back[2]
    <3>1. PICK i : i = L + 1
      OBVIOUS
    <3>2. i \in 1 .. (L - 1) + 2 /\ ~(i <= L - 1) /\ i - (L - 1) = 2
      BY <2>1, <3>1
    <3>3. new[i] = back[2]
      BY <2>2, <3>2
    <3> QED BY <3>1, <3>3
  <2> QED BY <2>3, <2>4
<1>5. ASSUME NEW j \in 1 .. L - 1 PROVE new[j] = others[j]
  <2>1. j \in 1 .. (L - 1) + 2 /\ j <= L - 1
    BY <1>0
  <2> QED BY <1>1, <1>3, <2>1
<1>6. (L - 1) + 2 = L + 1
  BY <1>0
<1> QED
  BY <1>l, <1>w, <1>2, <1>3, <1>4, <1>5, <1>6 DEF PutBetween

\* A custody block is put before the last block.
LEMMA PutMoves ==
  ASSUME NEW U, NEW bs \in Seq(U), Len(bs) >= 2, bs[1].type # Custody, bs[Len(bs)].type # Custody,
         NEW crc, NEW data, NEW x, x = Block(Custody, PutNumber(bs), crc, data),
         NEW new, new = PutBlock(bs, Custody, crc, data)
  PROVE  new \in Seq(U \cup {x}) /\ \E q : Moved(bs, new, q, x)
<1>o. PICK others : others = Only(bs, NotCustody(bs))
  OBVIOUS
<1>1. new = Front(others) \o <<x, Last(others)>>
  BY <1>o DEF PutBlock, PutNumber, NotCustody
<1>2. others \in Seq(U) /\ Len(others) >= 2 /\ \E pos : From(bs, others, pos)
  BY <1>o, OthersAre
<1>3. PICK pos : From(bs, others, pos)
  BY <1>2
<1>l. PICK L : L = Len(others)
  OBVIOUS
<1>4. L \in Nat /\ L >= 2
  BY <1>l, <1>2
<1>5. /\ new \in Seq(U \cup {x}) /\ Len(new) = L + 1 /\ new[L] = x /\ new[L + 1] = others[L]
      /\ \A j \in 1 .. L - 1 : new[j] = others[j]
  <2>1. others \in Seq(U) /\ Len(others) >= 2
    BY <1>2
  <2>2. new \in Seq(U \cup {x}) /\ PutBetween(others, x, new)
    BY <1>1, <2>1, Between
  <2> QED BY <1>l, <2>2 DEF PutBetween
<1>q. PICK q : q = [j \in 1 .. L + 1 |-> IF j = L + 1 THEN pos[L] ELSE pos[j]]
  OBVIOUS
<1>6. Others(new) = (1 .. L - 1) \cup {L + 1}
  BY <1>4, <1>5 DEF Others
<1>7. q[L + 1] = pos[L] /\ \A j \in 1 .. L - 1 : q[j] = pos[j]
  BY <1>4, <1>q
<1>8. /\ \A j \in 1 .. L : pos[j] \in 1 .. Len(bs) /\ others[j] = bs[pos[j]] /\ bs[pos[j]].type # Custody
      /\ \A i, j \in 1 .. L : i < j => pos[i] < pos[j]
      /\ \A i \in 1 .. Len(bs) : bs[i].type # Custody => \E j \in 1 .. L : pos[j] = i
      /\ pos[1] = 1 /\ pos[L] = Len(bs)
  BY <1>l, <1>3 DEF From
<1>9. \A j \in Others(new) : q[j] \in 1 .. Len(bs) /\ new[j] = bs[q[j]] /\ bs[q[j]].type # Custody
  <2>1. ASSUME NEW j \in 1 .. L - 1 PROVE q[j] \in 1 .. Len(bs) /\ new[j] = bs[q[j]] /\ bs[q[j]].type # Custody
    <3>1. j \in 1 .. L
      BY <1>4
    <3> QED BY <1>5, <1>7, <1>8, <3>1
  <2>2. L \in 1 .. L
    BY <1>4
  <2>3. q[L + 1] \in 1 .. Len(bs) /\ new[L + 1] = bs[q[L + 1]] /\ bs[q[L + 1]].type # Custody
    BY <1>5, <1>7, <1>8, <2>2
  <2> QED BY <1>6, <2>1, <2>3
<1>10. ASSUME NEW i \in Others(new), NEW j \in Others(new), i < j PROVE q[i] < q[j]
  <2>1. i \in 1 .. L - 1 /\ q[i] = pos[i] /\ i \in 1 .. L
    <3>1. i # L + 1
      BY <1>4, <1>6, <1>10
    <3>2. i \in 1 .. L - 1
      BY <1>6, <3>1
    <3> QED BY <1>4, <1>7, <3>2
  <2>2. CASE j = L + 1
    <3>1. i < L /\ L \in 1 .. L
      BY <1>4, <2>1
    <3> QED BY <1>7, <1>8, <2>1, <2>2, <3>1
  <2>3. CASE j \in 1 .. L - 1
    <3>1. j \in 1 .. L
      BY <1>4, <2>3
    <3> QED BY <1>7, <1>8, <1>10, <2>1, <2>3, <3>1
  <2> QED BY <1>6, <2>2, <2>3
<1>11. ASSUME NEW i \in 1 .. Len(bs), bs[i].type # Custody PROVE \E j \in Others(new) : q[j] = i
  <2>1. PICK j \in 1 .. L : pos[j] = i
    BY <1>8, <1>11
  <2>2. CASE j = L
    BY <1>6, <1>7, <2>1, <2>2
  <2>3. CASE j # L
    <3>1. j \in 1 .. L - 1
      BY <1>4, <2>3
    <3> QED BY <1>6, <1>7, <2>1, <3>1
  <2> QED BY <2>2, <2>3
<1>12. q[1] = 1 /\ q[L + 1] = Len(bs)
  <2>1. 1 \in 1 .. L - 1
    BY <1>4
  <2> QED BY <1>7, <1>8, <2>1
<1>13. x.type = Custody
  BY DEF Block
<1>14. Len(new) \in Nat /\ Len(new) >= 3 /\ Len(new) - 1 = L
  BY <1>4, <1>5
<1>15. Moved(bs, new, q, x)
  BY <1>5, <1>9, <1>10, <1>11, <1>12, <1>13, <1>14 DEF Moved
<1> QED
  BY <1>5, <1>15

\* Blocks as they may be on their way, each with a number, the primary's 0.
IsBlock(b) ==
  /\ b.number \in Nat /\ (b.type = "primary" => b.number = 0)
  /\ b.crc \in {"none", "good", "bad", "unknown"}
  /\ b.type = Payload => b.data \in Seq(ToSet(b.data))
  /\ b.type = Custody => b.data.receipts \in Seq(ToSet(b.data.receipts))

AreBlocks(bs) == bs \in Seq(ToSet(bs)) /\ \A i \in 1 .. Len(bs) : IsBlock(bs[i])

\* A set of numbers has a least one.
LEMMA LeastIs ==
  ASSUME NEW S \in SUBSET Nat, S # {}
  PROVE  Min(S) \in S /\ \A y \in S : Min(S) <= y
<1>1. PICK m \in S : \A k \in S : ~(<<k, m>> \in OpToRel(<, Nat))
  BY NatLessThanWellFounded, WFMin
<1>2. \A y \in S : m <= y
  <2>1. ASSUME NEW y \in S PROVE m <= y
    <3>1. y \in Nat /\ m \in Nat
      OBVIOUS
    <3>2. ~(y < m)
      BY <1>1, <3>1 DEF OpToRel
    <3> QED BY <3>1, <3>2
  <2> QED BY <2>1
<1> QED
  BY <1>2 DEF Min

\* A new block's number is free: more are tried than there are blocks.
LEMMA NumberIsFree ==
  ASSUME NEW bs, AreBlocks(bs), Len(bs) >= 1, bs[1].type = "primary"
  PROVE  NextNumber(bs) \in Nat /\ \A i \in 1 .. Len(bs) : bs[i].number # NextNumber(bs)
<1>n. PICK n : n = Len(bs)
  OBVIOUS
<1>0. n \in Nat /\ n >= 1 /\ DOMAIN bs = 1 .. n /\ \A i \in 1 .. n : bs[i].number \in Nat
  BY <1>n DEF AreBlocks, IsBlock
<1>1. bs[1].number = 0
  BY <1>n, <1>0 DEF AreBlocks, IsBlock
<1> DEFINE Free == {k \in 2 .. n + 1 : \A i \in 1 .. n : bs[i].number # k}
           f == [k \in 2 .. n + 1 |-> CHOOSE i \in 2 .. n : bs[i].number = k]
<1>2. ASSUME Free = {} PROVE FALSE
  <2>1. ASSUME NEW k \in 2 .. n + 1 PROVE f[k] \in 2 .. n /\ bs[f[k]].number = k
    <3>1. PICK i \in 1 .. n : bs[i].number = k
      BY <1>2
    <3>2. i \in 2 .. n
      <4>1. i # 1
        BY <1>1, <3>1
      <4> QED BY <4>1
    <3> QED BY <3>1, <3>2
  <2>2. f \in [2 .. n + 1 -> 2 .. n]
    <3> HIDE DEF f
    <3>1. f = [k \in 2 .. n + 1 |-> f[k]]
      BY DEF f
    <3> QED BY <2>1, <3>1
  <2>3. /\ IsFiniteSet(2 .. n + 1) /\ IsFiniteSet(2 .. n)
        /\ Cardinality(2 .. n) < Cardinality(2 .. n + 1)
    <3>1. 2 \in Int /\ n \in Int /\ n + 1 \in Int
      BY <1>0
    <3>2. Cardinality(2 .. n + 1) = IF 2 > n + 1 THEN 0 ELSE (n + 1) - 2 + 1
      BY <3>1, FS_Interval
    <3>3. Cardinality(2 .. n) = IF 2 > n THEN 0 ELSE n - 2 + 1
      BY <3>1, FS_Interval
    <3>4. IsFiniteSet(2 .. n + 1) /\ IsFiniteSet(2 .. n)
      BY <3>1, FS_Interval
    <3> QED BY <1>0, <3>2, <3>3, <3>4
  <2>4. \E x, y \in 2 .. n + 1 : x # y /\ f[x] = f[y]
    <3>s. PICK S : S = 2 .. n + 1
      OBVIOUS
    <3>t. PICK T : T = 2 .. n
      OBVIOUS
    <3>g. PICK g : g = f
      OBVIOUS
    <3>1. IsFiniteSet(S) /\ IsFiniteSet(T) /\ Cardinality(T) < Cardinality(S) /\ g \in [S -> T]
      BY <3>s, <3>t, <3>g, <2>2, <2>3
    <3>2. \E x, y \in S : x # y /\ g[x] = g[y]
      BY <3>1, FS_PigeonHole
    <3> HIDE DEF f
    <3> QED BY <3>s, <3>g, <3>2
  <2> HIDE DEF f
  <2> QED BY <2>1, <2>4
<1>3. Free \in SUBSET Nat
  BY <1>0
<1>4. NextNumber(bs) = Min(Free)
  BY <1>n, <1>0 DEF NextNumber
<1>5. Min(Free) \in Free
  <2> HIDE DEF Free
  <2> QED BY <1>2, <1>3, LeastIs
<1> QED
  BY <1>n, <1>3, <1>4, <1>5

\* The numbers of all but the first are different.
Apart(bs) == \A i, j \in 2 .. Len(bs) : bs[i].number = bs[j].number => i = j

\* The check of decodeBundle, as places.
LEMMA ApartIs ==
  ASSUME NEW U, NEW bs \in Seq(U), Len(bs) >= 1
  PROVE  DistinctNumbers(Tail(bs)) <=> Apart(bs)
<1>t. PICK t : t = Tail(bs)
  OBVIOUS
<1>n. PICK n : n = Len(bs)
  OBVIOUS
<1>0. n \in Nat /\ n >= 1
  BY <1>n
<1>1. t \in Seq(U) /\ Len(t) = n - 1 /\ \A i \in 1 .. n - 1 : t[i] = bs[i + 1]
  <2>1. bs # <<>>
    BY <1>0, <1>n, EmptySeq
  <2>2. Tail(bs) \in Seq(U) /\ Len(Tail(bs)) = Len(bs) - 1 /\ \A i \in 1 .. Len(Tail(bs)) : Tail(bs)[i] = bs[i + 1]
    BY <2>1, HeadTailProperties
  <2> QED BY <1>t, <1>n, <2>2
<1>2. DOMAIN t = 1 .. n - 1
  BY <1>1
<1>3. ASSUME DistinctNumbers(t), NEW i \in 2 .. n, NEW j \in 2 .. n, bs[i].number = bs[j].number PROVE i = j
  <2>1. i - 1 \in 1 .. n - 1 /\ j - 1 \in 1 .. n - 1 /\ (i - 1) + 1 = i /\ (j - 1) + 1 = j
    BY <1>0
  <2>2. t[i - 1] = bs[i] /\ t[j - 1] = bs[j]
    BY <1>1, <2>1
  <2>3. i - 1 = j - 1
    BY <1>2, <1>3, <2>1, <2>2 DEF DistinctNumbers
  <2> QED BY <2>1, <2>3
<1>4. ASSUME Apart(bs), NEW i \in 1 .. n - 1, NEW j \in 1 .. n - 1, t[i].number = t[j].number PROVE i = j
  <2>1. i + 1 \in 2 .. n /\ j + 1 \in 2 .. n
    BY <1>0
  <2>2. bs[i + 1].number = bs[j + 1].number
    BY <1>1, <1>4
  <2>3. i + 1 = j + 1
    BY <1>n, <1>4, <2>1, <2>2 DEF Apart
  <2> QED BY <2>3
<1>5. DistinctNumbers(t) => Apart(bs)
  BY <1>n, <1>3 DEF Apart
<1>6. Apart(bs) => DistinctNumbers(t)
  BY <1>2, <1>4 DEF DistinctNumbers
<1> QED
  BY <1>t, <1>5, <1>6

\* What decodeBundle takes.
Decodes(bs) ==
  /\ Len(bs) >= 2 /\ bs[1].type = "primary" /\ bs[Len(bs)].type = Payload
  /\ \A i \in 1 .. Len(bs) : Sound(bs[i])
  /\ Apart(bs)

\* What is put has a number that no other block has.
LEMMA PutNumberIs ==
  ASSUME NEW bs, AreBlocks(bs), Decodes(bs)
  PROVE  /\ PutNumber(bs) \in Nat
         /\ \A i \in 2 .. Len(bs) : bs[i].type # Custody => bs[i].number # PutNumber(bs)
         /\ \/ PutNumber(bs) = NextNumber(bs)
            \/ \E i \in 1 .. Len(bs) : bs[i].type = Custody /\ bs[i].number = PutNumber(bs)
<1>0. bs \in Seq(ToSet(bs)) /\ Len(bs) \in Nat /\ Len(bs) >= 2 /\ bs[1].type = "primary"
  BY DEF AreBlocks, Decodes
<1>1. CASE OfType(bs, Custody) = <<>>
  <2>1. NextNumber(bs) \in Nat /\ \A i \in 1 .. Len(bs) : bs[i].number # NextNumber(bs)
    BY <1>0, NumberIsFree
  <2> QED BY <1>0, <1>1, <2>1 DEF PutNumber
<1>2. CASE OfType(bs, Custody) # <<>>
  <2>1. PICK f : FirstTyped(bs, Custody, f) /\ Head(OfType(bs, Custody)) = bs[f]
    BY <1>0, <1>2, FirstOfType
  <2>2. f \in 1 .. Len(bs) /\ bs[f].type = Custody /\ PutNumber(bs) = bs[f].number
    BY <1>2, <2>1 DEF FirstTyped, PutNumber
  <2>3. f # 1
    BY <1>0, <2>2 DEF Custody
  <2>4. f \in 2 .. Len(bs)
    BY <1>0, <2>2, <2>3
  <2>5. \A i \in 2 .. Len(bs) : bs[i].number = bs[f].number => i = f
    BY <2>4 DEF Decodes, Apart
  <2>6. bs[f].number \in Nat
    BY <2>2 DEF AreBlocks, IsBlock
  <2> QED BY <2>2, <2>5, <2>6
<1> QED
  BY <1>1, <1>2

\* A sequence is one over what it has.
LEMMA OfItsOwn ==
  ASSUME NEW U, NEW s \in Seq(U)
  PROVE  s \in Seq(ToSet(s)) /\ \A i \in 1 .. Len(s) : s[i] \in ToSet(s)
<1>1. DOMAIN s = 1 .. Len(s) /\ Len(s) \in Nat /\ s \in [1 .. Len(s) -> U]
  BY LenProperties
<1>2. \A i \in 1 .. Len(s) : s[i] \in ToSet(s)
  BY <1>1 DEF ToSet
<1>3. s \in [1 .. Len(s) -> ToSet(s)]
  BY <1>1, <1>2, SMTT(60)
<1>4. s \in UNION {[1 .. n -> ToSet(s)] : n \in Nat}
  BY <1>1, <1>3
<1> QED
  BY <1>2, <1>4, SeqDef

\* The others keep their order, so that the first of some stays the first.
IsLeast(I, f) == f \in I /\ \A i \in I : f <= i

Follow(bs, new, q, I, J) ==
  /\ I \subseteq 1 .. Len(bs) /\ \A i \in I : bs[i].type # Custody
  /\ J \subseteq Others(new) /\ \A j \in Others(new) : j \in J <=> q[j] \in I

CameTo(new, q, J, f, g) == g \in Others(new) /\ IsLeast(J, g) /\ q[g] = f

\* The first among some others is the first among them still.
LEMMA FirstMoves ==
  ASSUME NEW bs, NEW new, NEW q, NEW x, Moved(bs, new, q, x),
         NEW I, NEW J, Follow(bs, new, q, I, J), NEW f, IsLeast(I, f)
  PROVE  \E g : CameTo(new, q, J, f, g)
<1>0. /\ I \subseteq 1 .. Len(bs) /\ \A i \in I : bs[i].type # Custody
      /\ J \subseteq Others(new) /\ \A j \in Others(new) : j \in J <=> q[j] \in I
  BY DEF Follow
<1>1. PICK g \in Others(new) : q[g] = f
  BY <1>0 DEF Moved, IsLeast
<1>2. g \in J
  BY <1>0, <1>1 DEF IsLeast
<1>3. ASSUME NEW j \in J, ~(g <= j) PROVE FALSE
  <2>1. j \in Others(new) /\ j \in Int /\ g \in Int
    BY <1>0 DEF Others, Moved
  <2>2. j < g
    BY <1>3, <2>1
  <2>3. q[j] < q[g] /\ q[j] \in I
    BY <1>0, <1>1, <2>1, <2>2 DEF Moved
  <2>4. q[j] \in 1 .. Len(bs) /\ f \in 1 .. Len(bs)
    BY <1>0, <2>3 DEF IsLeast
  <2> QED BY <1>1, <2>3, <2>4 DEF IsLeast
<1> QED
  BY <1>1, <1>2, <1>3 DEF IsLeast, CameTo

\* So the first of a type, custody aside, is the same.
LEMMA TypeMoves ==
  ASSUME NEW bs, NEW new, NEW q, NEW x, Moved(bs, new, q, x), Len(bs) \in Nat,
         NEW type, type # Custody, NEW f, FirstTyped(bs, type, f)
  PROVE  \E g : FirstTyped(new, type, g) /\ new[g] = bs[f]
<1>i. PICK I : I = {i \in 1 .. Len(bs) : bs[i].type = type}
  OBVIOUS
<1>j. PICK J : J = {j \in Others(new) : new[j].type = type}
  OBVIOUS
<1>1. I \subseteq 1 .. Len(bs) /\ \A i \in I : bs[i].type # Custody
  BY <1>i
<1>2. J \subseteq Others(new) /\ \A j \in Others(new) : j \in J <=> q[j] \in I
  BY <1>i, <1>j DEF Moved
<1>3. IsLeast(I, f)
  <2>1. f \in I
    BY <1>i DEF FirstTyped
  <2>2. ASSUME NEW i \in I, ~(f <= i) PROVE FALSE
    <3>1. i \in 1 .. f - 1 /\ bs[i].type = type
      BY <1>i, <2>1, <2>2
    <3> QED BY <3>1 DEF FirstTyped
  <2> QED BY <2>1, <2>2 DEF IsLeast
<1>f. Follow(bs, new, q, I, J)
  BY <1>1, <1>2 DEF Follow
<1>g. PICK g : CameTo(new, q, J, f, g)
  BY <1>3, <1>f, FirstMoves
<1>4. g \in Others(new) /\ IsLeast(J, g) /\ q[g] = f
  BY <1>g DEF CameTo
<1>5. g \in 1 .. Len(new) /\ new[g].type = type /\ new[g] = bs[f]
  BY <1>j, <1>4 DEF IsLeast, Others, Moved
<1>6. ASSUME NEW i \in 1 .. g - 1, new[i].type = type PROVE FALSE
  <2>1. i \in 1 .. Len(new)
    BY <1>5 DEF Moved
  <2>2. i # Len(new) - 1
    BY <1>6 DEF Moved
  <2>3. i \in J
    BY <1>j, <1>6, <2>1, <2>2 DEF Others
  <2> QED BY <1>4, <1>5, <2>3 DEF IsLeast
<1> QED
  BY <1>5, <1>6 DEF FirstTyped

\* What is put is the only one of its type.
LEMMA PutAlone ==
  ASSUME NEW U, NEW new \in Seq(U), NEW bs, NEW q, NEW x, Moved(bs, new, q, x)
  PROVE  Len(OfType(new, Custody)) = 1 /\ OfType(new, Custody) # <<>> /\ Head(OfType(new, Custody)) = x
<1>n. PICK n : n = Len(new)
  OBVIOUS
<1>1. n \in Nat /\ n >= 3 /\ n - 1 \in 1 .. n /\ new[n - 1] = x /\ x.type = Custody
  BY <1>n DEF Moved
<1>2. \A i \in 1 .. n : new[i].type = Custody <=> i = n - 1
  <2>1. ASSUME NEW i \in 1 .. n, i # n - 1 PROVE new[i].type # Custody
    <3>1. i \in Others(new)
      BY <1>n, <2>1 DEF Others
    <3> QED BY <3>1 DEF Moved
  <2> QED BY <1>1, <2>1
<1>3. OnlyTyped(new, Custody, n - 1)
  BY <1>n, <1>1, <1>2 DEF OnlyTyped
<1>4. FirstTyped(new, Custody, n - 1)
  <2>1. \A i \in 1 .. (n - 1) - 1 : i \in 1 .. n /\ i # n - 1
    BY <1>1
  <2> QED BY <1>n, <1>1, <1>2, <2>1 DEF FirstTyped
<1>5. Len(OfType(new, Custody)) = 1
  BY <1>3, TypeOne
<1> QED
  BY <1>1, <1>4, <1>5, TypeFirst

\* The payload is the same.
LEMMA PayloadMoves ==
  ASSUME NEW bs, AreBlocks(bs), NEW U, NEW new \in Seq(U), NEW q, NEW x, Moved(bs, new, q, x),
         bs[Len(bs)].type = Payload, Len(bs) >= 1
  PROVE  PayloadOf(new) = PayloadOf(bs)
<1>1. bs \in Seq(ToSet(bs)) /\ Len(bs) \in Nat
  BY DEF AreBlocks
<1>2. OfType(bs, Payload) # <<>>
  <2>1. Len(bs) \in 1 .. Len(bs)
    BY <1>1
  <2> QED BY <1>1, <2>1, TypeNone
<1>3. PICK f : FirstTyped(bs, Payload, f) /\ Head(OfType(bs, Payload)) = bs[f]
  BY <1>1, <1>2, FirstOfType
<1>4. Payload # Custody
  BY DEF Payload, Custody
<1>5. PICK g : FirstTyped(new, Payload, g) /\ new[g] = bs[f]
  BY <1>1, <1>3, <1>4, TypeMoves
<1>6. Head(OfType(new, Payload)) = new[g]
  BY <1>5, TypeFirst
<1> QED
  BY <1>3, <1>5, <1>6 DEF PayloadOf

\* The bundle decodes as before.
LEMMA MovedDecodes ==
  ASSUME NEW bs, AreBlocks(bs), Decodes(bs), NEW q, NEW x, IsBlock(x), Sound(x),
         \A i \in 2 .. Len(bs) : bs[i].type # Custody => bs[i].number # x.number,
         NEW U, NEW new \in Seq(U), Moved(bs, new, q, x)
  PROVE  AreBlocks(new) /\ Decodes(new)
<1>n. PICK n : n = Len(new)
  OBVIOUS
<1>m. PICK m : m = Len(bs)
  OBVIOUS
<1>1. n \in Nat /\ n >= 3 /\ new[n - 1] = x /\ x.type = Custody
  BY <1>n DEF Moved
<1>2. \A j \in 1 .. n : j # n - 1 => q[j] \in 1 .. m /\ new[j] = bs[q[j]] /\ bs[q[j]].type # Custody
  BY <1>n, <1>m DEF Moved, Others
<1>3. q[1] = 1 /\ q[n] = m
  BY <1>n, <1>m DEF Moved
<1>4. \A j \in 1 .. n : IsBlock(new[j]) /\ Sound(new[j])
  <2>1. ASSUME NEW j \in 1 .. n, j # n - 1 PROVE IsBlock(new[j]) /\ Sound(new[j])
    BY <1>m, <1>2, <2>1 DEF AreBlocks, Decodes
  <2> QED BY <1>1, <2>1
<1>5. AreBlocks(new)
  BY <1>n, <1>4, OfItsOwn DEF AreBlocks
<1>6. new[1] = bs[1] /\ new[n] = bs[m]
  <2>1. 1 \in 1 .. n /\ 1 # n - 1 /\ n \in 1 .. n /\ n # n - 1
    BY <1>1
  <2> QED BY <1>2, <1>3, <2>1
<1>7. ASSUME NEW j \in 2 .. n, j # n - 1 PROVE q[j] \in 2 .. m /\ new[j] = bs[q[j]] /\ bs[q[j]].type # Custody
  <2>1. 1 \in Others(new) /\ j \in Others(new) /\ 1 < j
    BY <1>n, <1>1, <1>7 DEF Others
  <2>2. q[1] < q[j]
    BY <2>1 DEF Moved
  <2>3. j \in 1 .. n
    OBVIOUS
  <2>4. q[j] \in 1 .. m /\ new[j] = bs[q[j]] /\ bs[q[j]].type # Custody
    BY <1>2, <1>7, <2>3
  <2> QED BY <1>3, <2>2, <2>4
<1>8. ASSUME NEW i \in 2 .. n, NEW j \in 2 .. n, new[i].number = new[j].number, i < j PROVE FALSE
  <2>1. CASE i # n - 1 /\ j # n - 1
    <3>1. q[i] \in 2 .. m /\ q[j] \in 2 .. m /\ bs[q[i]].number = bs[q[j]].number
      BY <1>7, <1>8, <2>1
    <3>2. q[i] = q[j]
      BY <1>m, <3>1 DEF Decodes, Apart
    <3>3. i \in Others(new) /\ j \in Others(new)
      BY <1>n, <2>1 DEF Others
    <3>4. q[i] < q[j]
      BY <1>8, <3>3 DEF Moved
    <3> QED BY <3>1, <3>2, <3>4
  <2>2. CASE i = n - 1
    <3>1. j # n - 1
      BY <1>1, <1>8, <2>2
    <3> QED BY <1>1, <1>m, <1>7, <1>8, <2>2, <3>1
  <2>3. CASE j = n - 1
    <3>1. i # n - 1
      BY <1>1, <1>8, <2>3
    <3> QED BY <1>1, <1>m, <1>7, <1>8, <2>3, <3>1
  <2> QED BY <2>1, <2>2, <2>3
<1>9. Apart(new)
  <2>1. ASSUME NEW i \in 2 .. n, NEW j \in 2 .. n, new[i].number = new[j].number PROVE i = j
    <3>1. ~(i < j) /\ ~(j < i)
      BY <1>8, <2>1
    <3> QED BY <3>1
  <2> QED BY <1>n, <2>1 DEF Apart
<1>10. Decodes(new)
  BY <1>m, <1>n, <1>1, <1>4, <1>6, <1>9 DEF Decodes
<1> QED
  BY <1>5, <1>10

\* There is a first one in S.
LEMMA FirstIn ==
  ASSUME NEW U, NEW blocks \in Seq(U), NEW S, Only(blocks, S) # <<>>
  PROVE  \E f : IsFirst(blocks, S, f)
<1>i. PICK I : I = {i \in 1 .. Len(blocks) : blocks[i] \in S}
  OBVIOUS
<1>1. I \in SUBSET Nat /\ I # {}
  BY <1>i, OnlyNone
<1>2. Min(I) \in I /\ \A y \in I : Min(I) <= y
  BY <1>1, LeastIs
<1>f. PICK f : f = Min(I)
  OBVIOUS
<1>3. f \in 1 .. Len(blocks) /\ blocks[f] \in S
  BY <1>f, <1>i, <1>2
<1>4. ASSUME NEW i \in 1 .. f - 1, blocks[i] \in S PROVE FALSE
  <2>1. i \in I /\ i < f
    BY <1>i, <1>3, <1>4
  <2> QED BY <1>f, <1>2, <1>3, <2>1
<1> QED
  BY <1>3, <1>4 DEF IsFirst

\* The first block of a number.
FirstNumbered(blocks, n, f) ==
  f \in 1 .. Len(blocks) /\ blocks[f].number = n /\ \A i \in 1 .. f - 1 : blocks[i].number # n

\* Numbered blocks begin with the first that has the number.
LEMMA NumberFirst ==
  ASSUME NEW U, NEW blocks \in Seq(U), NEW n
  PROVE  /\ \A f : FirstNumbered(blocks, n, f) => Numbered(blocks, n) # <<>> /\ Head(Numbered(blocks, n)) = blocks[f]
         /\ Numbered(blocks, n) # <<>> => \E f : FirstNumbered(blocks, n, f)
<1>s. PICK S : S = {b \in ToSet(blocks) : b.number = n}
  OBVIOUS
<1>1. Numbered(blocks, n) = Only(blocks, S)
  BY <1>s DEF Numbered
<1>2. \A i \in 1 .. Len(blocks) : blocks[i] \in S <=> blocks[i].number = n
  BY <1>s, OfItsOwn
<1>3. \A f : FirstNumbered(blocks, n, f) <=> IsFirst(blocks, S, f)
  <2>1. ASSUME NEW f, f \in 1 .. Len(blocks) PROVE \A i \in 1 .. f - 1 : i \in 1 .. Len(blocks)
    BY <2>1
  <2> QED BY <1>2, <2>1 DEF FirstNumbered, IsFirst
<1>4. ASSUME NEW f, FirstNumbered(blocks, n, f)
      PROVE  Numbered(blocks, n) # <<>> /\ Head(Numbered(blocks, n)) = blocks[f]
  BY <1>1, <1>3, <1>4, OnlyFirst
<1>5. ASSUME Numbered(blocks, n) # <<>> PROVE \E f : FirstNumbered(blocks, n, f)
  BY <1>1, <1>3, <1>5, FirstIn
<1> QED
  BY <1>4, <1>5

\* No integrity block covers a custody block.
NoMacOnCustody(bs) ==
  \A i \in 1 .. Len(bs) : bs[i].type = Bib =>
    \A mac \in bs[i].data.macs : \A j \in 1 .. Len(bs) :
      bs[j].type = Custody => bs[j].number # mac.number

\* What an integrity block says of a target still holds.
MacHolds(bs, b, mac) ==
  /\ Numbered(bs, mac.number) # <<>> /\ ~HasCrc(Head(Numbered(bs, mac.number)))
  /\ mac = Ippt(bs, mac.number, b.number)

\* A MAC over other blocks holds as before.
LEMMA MacMoves ==
  ASSUME NEW bs, AreBlocks(bs), Decodes(bs), NEW U, NEW new \in Seq(U), NEW q, NEW x, Moved(bs, new, q, x),
         NEW b, NEW mac, MacHolds(bs, b, mac), x.number # mac.number,
         \A j \in 1 .. Len(bs) : bs[j].type = Custody => bs[j].number # mac.number
  PROVE  MacHolds(new, b, mac)
<1>k. PICK k : k = mac.number
  OBVIOUS
<1>0. bs \in Seq(ToSet(bs)) /\ Len(bs) \in Nat
  BY DEF AreBlocks
<1>1. PICK f : FirstNumbered(bs, k, f)
  BY <1>0, <1>k, NumberFirst DEF MacHolds
<1>2. Head(Numbered(bs, k)) = bs[f]
  BY <1>0, <1>1, NumberFirst
<1>i. PICK I : I = {i \in 1 .. Len(bs) : bs[i].number = k}
  OBVIOUS
<1>j. PICK J : J = {j \in Others(new) : new[j].number = k}
  OBVIOUS
<1>3. Follow(bs, new, q, I, J)
  <2>1. I \subseteq 1 .. Len(bs) /\ \A i \in I : bs[i].type # Custody
    BY <1>k, <1>i
  <2>2. J \subseteq Others(new) /\ \A j \in Others(new) : j \in J <=> q[j] \in I
    BY <1>i, <1>j DEF Moved
  <2> QED BY <2>1, <2>2 DEF Follow
<1>4. IsLeast(I, f)
  <2>1. f \in I
    BY <1>i, <1>1 DEF FirstNumbered
  <2>2. ASSUME NEW i \in I, ~(f <= i) PROVE FALSE
    <3>1. i \in 1 .. f - 1 /\ bs[i].number = k
      BY <1>i, <2>1, <2>2
    <3> QED BY <1>1, <3>1 DEF FirstNumbered
  <2> QED BY <2>1, <2>2 DEF IsLeast
<1>5. PICK g : CameTo(new, q, J, f, g)
  BY <1>3, <1>4, FirstMoves
<1>6. g \in 1 .. Len(new) /\ new[g].number = k /\ new[g] = bs[f]
  BY <1>j, <1>5 DEF CameTo, IsLeast, Others, Moved
<1>7. ASSUME NEW i \in 1 .. g - 1, new[i].number = k PROVE FALSE
  <2>1. i \in 1 .. Len(new)
    BY <1>6 DEF Moved
  <2>2. i # Len(new) - 1
    BY <1>k, <1>7 DEF Moved
  <2>3. i \in J
    BY <1>j, <1>7, <2>1, <2>2 DEF Others
  <2> QED BY <1>5, <1>6, <2>3 DEF IsLeast, CameTo
<1>8. FirstNumbered(new, k, g)
  BY <1>6, <1>7 DEF FirstNumbered
<1>9. Numbered(new, k) # <<>> /\ Head(Numbered(new, k)) = bs[f]
  BY <1>6, <1>8, NumberFirst
<1>10. new[1] = bs[1]
  <2>1. 1 \in Others(new) /\ q[1] = 1
    BY DEF Others, Moved
  <2> QED BY <2>1 DEF Moved
<1>11. Ippt(new, k, b.number) = Ippt(bs, k, b.number)
  BY <1>2, <1>9, <1>10 DEF Ippt
<1> QED
  BY <1>k, <1>2, <1>9, <1>11 DEF MacHolds

\* The integrity blocks hold as before.
LEMMA BibsMove ==
  ASSUME NEW bs, AreBlocks(bs), Decodes(bs), NEW q, NEW x, x.number = PutNumber(bs),
         NEW U, NEW new \in Seq(U), Moved(bs, new, q, x), BibsVerify(bs), NoMacOnCustody(bs)
  PROVE  BibsVerify(new) /\ NoMacOnCustody(new)
<1>0. bs \in Seq(ToSet(bs)) /\ Len(bs) \in Nat /\ \A i \in 1 .. Len(bs) : bs[i] \in ToSet(bs)
  BY OfItsOwn DEF AreBlocks
<1>1. Bib # Custody
  BY DEF Bib, Custody
<1>2. ASSUME NEW j \in 1 .. Len(new), new[j].type = Bib
      PROVE  q[j] \in 1 .. Len(bs) /\ new[j] = bs[q[j]] /\ bs[q[j]].type = Bib
  <2>1. j # Len(new) - 1
    BY <1>1, <1>2 DEF Moved
  <2>2. j \in Others(new)
    BY <2>1 DEF Others
  <2> QED BY <1>2, <2>2 DEF Moved
<1>3. ASSUME NEW i \in 1 .. Len(bs), bs[i].type = Bib, NEW mac \in bs[i].data.macs
      PROVE  /\ MacHolds(bs, bs[i], mac) /\ x.number # mac.number
             /\ \A j \in 1 .. Len(bs) : bs[j].type = Custody => bs[j].number # mac.number
  <2>1. bs[i] \in ToSet(OfType(bs, Bib))
    BY <1>0, <1>3, TypeHas DEF Typed
  <2>2. MacHolds(bs, bs[i], mac)
    BY <1>3, <2>1 DEF BibsVerify, MacHolds
  <2>3. \A j \in 1 .. Len(bs) : bs[j].type = Custody => bs[j].number # mac.number
    BY <1>3 DEF NoMacOnCustody
  <2>4. PICK f : FirstNumbered(bs, mac.number, f)
    BY <1>0, <2>2, NumberFirst DEF MacHolds
  <2>5. f \in 1 .. Len(bs) /\ bs[f].number = mac.number
    BY <2>4 DEF FirstNumbered
  <2>6. x.number # mac.number
    <3>1. CASE PutNumber(bs) = NextNumber(bs)
      <4>1. \A k \in 1 .. Len(bs) : bs[k].number # NextNumber(bs)
        BY NumberIsFree DEF Decodes
      <4> QED BY <2>5, <3>1, <4>1
    <3>2. CASE \E k \in 1 .. Len(bs) : bs[k].type = Custody /\ bs[k].number = PutNumber(bs)
      BY <2>3, <3>2
    <3> QED BY <3>1, <3>2, PutNumberIs
  <2> QED BY <2>2, <2>3, <2>6
<1>4. ASSUME NEW j \in 1 .. Len(new), new[j].type = Bib, NEW mac \in new[j].data.macs
      PROVE  MacHolds(new, new[j], mac) /\ x.number # mac.number
  <2>i. PICK i : i = q[j]
    OBVIOUS
  <2>1. i \in 1 .. Len(bs) /\ new[j] = bs[i] /\ bs[i].type = Bib /\ mac \in bs[i].data.macs
    BY <2>i, <1>2, <1>4
  <2>b. PICK b : b = bs[i]
    OBVIOUS
  <2>2. /\ MacHolds(bs, b, mac) /\ x.number # mac.number
        /\ \A k \in 1 .. Len(bs) : bs[k].type = Custody => bs[k].number # mac.number
    BY <2>b, <1>3, <2>1
  <2>3. MacHolds(new, b, mac)
    BY <2>2, MacMoves
  <2> QED BY <2>b, <2>1, <2>2, <2>3
<1>5. OfType(new, Bib) # <<>>
  <2>1. OfType(bs, Bib) # <<>>
    BY DEF BibsVerify
  <2>2. PICK f : FirstTyped(bs, Bib, f)
    BY <1>0, <2>1, FirstOfType
  <2>3. PICK g : FirstTyped(new, Bib, g)
    BY <1>0, <1>1, <2>2, TypeMoves
  <2> QED BY <2>3, TypeFirst
<1>6. ASSUME NEW b \in ToSet(OfType(new, Bib)), NEW mac \in b.data.macs PROVE MacHolds(new, b, mac)
  <2>1. b \in ToSet(new) /\ b.type = Bib
    BY TypeHas DEF Typed
  <2>2. PICK j \in 1 .. Len(new) : b = new[j]
    BY <2>1 DEF ToSet
  <2> QED BY <1>4, <1>6, <2>1, <2>2
<1>7. BibsVerify(new)
  BY <1>5, <1>6 DEF BibsVerify, MacHolds
<1>8. NoMacOnCustody(new)
  <2>1. ASSUME NEW j \in 1 .. Len(new), new[j].type = Bib, NEW mac \in new[j].data.macs,
               NEW k \in 1 .. Len(new), new[k].type = Custody
        PROVE  new[k].number # mac.number
    <3>1. k = Len(new) - 1
      <4>1. ASSUME k # Len(new) - 1 PROVE FALSE
        <5>1. k \in Others(new)
          BY <4>1 DEF Others
        <5> QED BY <2>1, <5>1 DEF Moved
      <4> QED BY <4>1
    <3>2. new[k] = x
      BY <3>1 DEF Moved
    <3> QED BY <1>4, <2>1, <3>2
  <2> QED BY <2>1 DEF NoMacOnCustody
<1> QED
  BY <1>7, <1>8

-----------------------------------------------------------------------------
(* The cells on the wire, and what decodeBundle makes of them.             *)

\* A block has at least two cells.
LEMMA WidthIs ==
  ASSUME NEW b, IsBlock(b)
  PROVE  Width(b) \in Nat /\ Width(b) >= 2
<1>1. CASE b.type = Payload
  <2>1. Len(b.data) \in Nat
    BY <1>1 DEF IsBlock
  <2>c. PICK c : c = IF HasCrc(b) THEN 1 ELSE 0
    OBVIOUS
  <2>d. PICK d : d = Len(b.data)
    OBVIOUS
  <2>2. Width(b) = 2 + d + c
    BY <2>c, <2>d, <1>1 DEF Width
  <2>3. c \in Nat /\ d \in Nat
    BY <2>c, <2>d, <2>1
  <2> QED BY <2>2, <2>3
<1>2. CASE b.type # Payload
  BY <1>2 DEF Width
<1> QED
  BY <1>1, <1>2

\* Where the blocks start, and what the cells are.
Starts(bs, st) ==
  /\ st[1] = 2 /\ \A i \in 1 .. Len(bs) + 1 : st[i] \in Nat /\ st[i] >= 2
  /\ \A i \in 1 .. Len(bs) : st[i + 1] = st[i] + Width(bs[i])

CellsAt(w, bs, st) ==
  \A i \in 1 .. Len(bs) : \A k \in 1 .. Width(bs[i]) :
    st[i] + k - 1 <= Len(w) => w[st[i] + k - 1] = [block |-> bs[i], k |-> k]

EndsAt(w, e) ==
  /\ Len(w) <= e + 1 /\ (e <= Len(w) => w[e] = Close)
  /\ \A p \in 2 .. Len(w) :
       (w[p] = Close => p >= e) /\ (w[p] # Close => Width(w[p].block) \in Nat \ {0})

Laid(w, bs, st) ==
  /\ w \in Seq(ToSet(w)) /\ Starts(bs, st) /\ CellsAt(w, bs, st) /\ EndsAt(w, st[Len(bs) + 1])

\* A cell is none of the two marks.
LEMMA CellsDiffer ==
  ASSUME NEW c, NEW S, c \in [block : S, k : Nat]
  PROVE  c # Close /\ c.block \in S /\ c = [block |-> c.block, k |-> c.k]
<1>1. c.k \in Nat /\ Close.k = -1
  BY DEF Close
<1> QED
  BY <1>1

CellSet(bs) == [block : ToSet(bs), k : Nat]

\* The cells of one block.
LEMMA CellsAre ==
  ASSUME NEW bs, AreBlocks(bs), NEW i \in 1 .. Len(bs)
  PROVE  /\ Cells(bs[i]) \in Seq(CellSet(bs)) /\ Len(Cells(bs[i])) = Width(bs[i])
         /\ \A k \in 1 .. Width(bs[i]) : Cells(bs[i])[k] = [block |-> bs[i], k |-> k]
<1>b. PICK b : b = bs[i]
  OBVIOUS
<1>w. PICK n : n = Width(b)
  OBVIOUS
<1>1. n \in Nat
  BY <1>b, <1>w, WidthIs DEF AreBlocks
<1>2. b \in ToSet(bs)
  BY <1>b, OfItsOwn DEF AreBlocks
<1>3. Cells(b) = [k \in 1 .. n |-> [block |-> b, k |-> k]]
  BY <1>w DEF Cells
<1>4. \A k \in 1 .. n : [block |-> b, k |-> k] \in CellSet(bs)
  BY <1>1, <1>2 DEF CellSet
<1>5. Cells(b) \in [1 .. n -> CellSet(bs)]
  BY <1>3, <1>4
<1>6. Cells(b) \in Seq(CellSet(bs))
  BY <1>1, <1>5, SeqDef
<1>7. Len(Cells(b)) = n
  BY <1>1, <1>5, <1>6
<1> QED
  BY <1>b, <1>w, <1>3, <1>6, <1>7

\* What FlattenSeq goes through: each value begins with the ones before.
Begins(s, t) == Len(s) <= Len(t) /\ \A p \in 1 .. Len(s) : t[p] = s[p]

Grown(seqs, h, n) ==
  /\ \A i \in 1 .. n : Len(h[i]) = Len(h[i - 1]) + Len(seqs[i])
  /\ \A i \in 1 .. n : \A k \in 1 .. Len(seqs[i]) : h[i][Len(h[i - 1]) + k] = seqs[i][k]
  /\ \A i \in 0 .. n : Begins(h[i], h[n])

\* Each beginning is in the whole, longer by the next sequence.
LEMMA Begun ==
  ASSUME NEW C, NEW seqs \in Seq(Seq(C)), NEW h \in [0 .. Len(seqs) -> Seq(C)], FlattenRun(seqs, h)
  PROVE  Grown(seqs, h, Len(seqs))
<1>n. PICK n : n = Len(seqs)
  OBVIOUS
<1>0. n \in Nat /\ (\A i \in 0 .. n : h[i] \in Seq(C) /\ Len(h[i]) \in Nat)
     /\ \A i \in 1 .. n : seqs[i] \in Seq(C) /\ Len(seqs[i]) \in Nat
  <2>1. n \in Nat /\ (\A i \in 0 .. n : h[i] \in Seq(C)) /\ \A i \in 1 .. n : seqs[i] \in Seq(C)
    BY <1>n, ElementOfSeq, SMTT(60)
  <2>2. \A s \in Seq(C) : Len(s) \in Nat
    OBVIOUS
  <2> QED BY <2>1, <2>2
<1>1. ASSUME NEW i \in 1 .. n
      PROVE  /\ Len(h[i]) = Len(h[i - 1]) + Len(seqs[i])
             /\ \A k \in 1 .. Len(seqs[i]) : h[i][Len(h[i - 1]) + k] = seqs[i][k]
             /\ Begins(h[i - 1], h[i])
  <2>s. PICK s : s = h[i - 1]
    OBVIOUS
  <2>t. PICK t : t = seqs[i]
    OBVIOUS
  <2>1. h[i] = s \o t
    BY <1>n, <2>s, <2>t DEF FlattenRun
  <2>2. i - 1 \in 0 .. n
    BY <1>0
  <2>3. s \in Seq(C) /\ t \in Seq(C) /\ Len(s) \in Nat /\ Len(t) \in Nat
    BY <1>0, <2>s, <2>t, <2>2
  <2>4. /\ Len(s \o t) = Len(s) + Len(t)
        /\ \A p \in 1 .. Len(s) + Len(t) : (s \o t)[p] = IF p <= Len(s) THEN s[p] ELSE t[p - Len(s)]
    BY <2>3, ConcatProperties
  <2>u. PICK u : u = s \o t
    OBVIOUS
  <2>5. \A k \in 1 .. Len(t) : u[Len(s) + k] = t[k]
    <3>1. ASSUME NEW k \in 1 .. Len(t) PROVE u[Len(s) + k] = t[k]
      <4>1. Len(s) + k \in 1 .. Len(s) + Len(t) /\ ~(Len(s) + k <= Len(s)) /\ (Len(s) + k) - Len(s) = k
        BY <2>3
      <4> QED BY <2>u, <2>4, <4>1
    <3> QED BY <3>1
  <2>6. Begins(s, u)
    <3>1. \A p \in 1 .. Len(s) : p \in 1 .. Len(s) + Len(t) /\ p <= Len(s)
      BY <2>3
    <3> QED BY <2>u, <2>3, <2>4, <3>1 DEF Begins
  <2> QED BY <2>s, <2>t, <2>u, <2>1, <2>4, <2>5, <2>6
<1>2. ASSUME NEW i \in 0 .. n PROVE Begins(h[i], h[n])
  <2> DEFINE P == {m \in Nat : i + m <= n => Begins(h[i], h[i + m])}
  <2>1. 0 \in P
    <3>1. i + 0 = i
      BY <1>0
    <3> QED BY <1>0, <3>1 DEF Begins
  <2>2. ASSUME NEW m \in Nat, m \in P PROVE m + 1 \in P
    <3>1. SUFFICES ASSUME i + (m + 1) <= n PROVE Begins(h[i], h[i + (m + 1)])
      OBVIOUS
    <3>2. i + (m + 1) \in 1 .. n /\ (i + (m + 1)) - 1 = i + m /\ i + m <= n /\ i + m \in 0 .. n
      BY <1>0, <3>1
    <3>3. Begins(h[i], h[i + m]) /\ Begins(h[i + m], h[i + (m + 1)])
      BY <1>1, <2>2, <3>2
    <3>4. Len(h[i]) \in Nat /\ Len(h[i + m]) \in Nat /\ Len(h[i + (m + 1)]) \in Nat
      <4>1. i + (m + 1) \in 0 .. n
        BY <3>2
      <4> QED BY <1>0, <3>2, <4>1
    <3> QED BY <3>3, <3>4, SMTT(60) DEF Begins
  <2>3. n - i \in P /\ n - i \in Nat /\ i + (n - i) = n
    <3>1. n - i \in Nat /\ i + (n - i) = n
      BY <1>0
    <3> HIDE DEF P
    <3> QED BY <2>1, <2>2, <3>1, Induction
  <2> QED BY <1>0, <2>3
<1> QED
  BY <1>n, <1>1, <1>2 DEF Grown

\* Between the two marks.
LEMMA Framed ==
  ASSUME NEW C, NEW F \in Seq(C), NEW w, w = <<Open>> \o F \o <<Close>>
  PROVE  /\ w \in Seq(C \cup {Open, Close}) /\ Len(w) = Len(F) + 2 /\ w[Len(F) + 2] = Close
         /\ \A p \in 1 .. Len(F) : w[p + 1] = F[p]
<1>v. PICK V : V = C \cup {Open, Close}
  OBVIOUS
<1>a. PICK a : a = <<Open>>
  OBVIOUS
<1>z. PICK z : z = <<Close>>
  OBVIOUS
<1>n. PICK n : n = Len(F)
  OBVIOUS
<1>1. /\ a \in Seq(V) /\ Len(a) = 1 /\ z \in Seq(V) /\ Len(z) = 1 /\ z[1] = Close
      /\ F \in Seq(V) /\ n \in Nat
  <2>1. F \in Seq(V)
    BY <1>v, SeqMonotonic
  <2>2. Open \in V /\ Close \in V
    BY <1>v
  <2> QED BY <1>a, <1>z, <1>n, <2>1, <2>2
<1>s. PICK s : s = a \o F
  OBVIOUS
<1>2. s \in Seq(V) /\ Len(s) = 1 + n /\ \A p \in 1 .. 1 + n : s[p] = IF p <= 1 THEN a[p] ELSE F[p - 1]
  <2>1. /\ a \o F \in Seq(V) /\ Len(a \o F) = Len(a) + Len(F)
        /\ \A p \in 1 .. Len(a) + Len(F) : (a \o F)[p] = IF p <= Len(a) THEN a[p] ELSE F[p - Len(a)]
    BY <1>1, ConcatProperties
  <2> QED BY <1>s, <1>n, <1>1, <2>1
<1>3. /\ w \in Seq(V) /\ Len(w) = (1 + n) + 1
      /\ \A p \in 1 .. (1 + n) + 1 : w[p] = IF p <= 1 + n THEN s[p] ELSE z[p - (1 + n)]
  <2>1. w = s \o z
    BY <1>a, <1>z, <1>s
  <2>2. /\ s \o z \in Seq(V) /\ Len(s \o z) = Len(s) + Len(z)
        /\ \A p \in 1 .. Len(s) + Len(z) : (s \o z)[p] = IF p <= Len(s) THEN s[p] ELSE z[p - Len(s)]
    BY <1>1, <1>2, ConcatProperties
  <2> QED BY <1>1, <1>2, <2>1, <2>2
<1>4. w[n + 2] = Close
  <2>1. n + 2 \in 1 .. (1 + n) + 1 /\ ~(n + 2 <= 1 + n) /\ (n + 2) - (1 + n) = 1
    BY <1>1
  <2> QED BY <1>1, <1>3, <2>1
<1>5. ASSUME NEW p \in 1 .. n PROVE w[p + 1] = F[p]
  <2>1. p + 1 \in 1 .. (1 + n) + 1 /\ p + 1 <= 1 + n /\ p + 1 \in 1 .. 1 + n /\ ~(p + 1 <= 1) /\ (p + 1) - 1 = p
    BY <1>1
  <2> QED BY <1>2, <1>3, <2>1
<1> QED
  BY <1>v, <1>n, <1>1, <1>3, <1>4, <1>5

\* A bundle on the wire.
LEMMA EncodeIs ==
  ASSUME NEW bs, AreBlocks(bs)
  PROVE  \E st : Laid(Encode(bs), bs, st) /\ Len(Encode(bs)) = st[Len(bs) + 1]
<1>n. PICK n : n = Len(bs)
  OBVIOUS
<1>c. PICK C : C = CellSet(bs)
  OBVIOUS
<1>s. PICK seqs : seqs = [i \in DOMAIN bs |-> Cells(bs[i])]
  OBVIOUS
<1>0. n \in Nat /\ DOMAIN bs = 1 .. n
  BY <1>n DEF AreBlocks
<1>1. \A i \in 1 .. n : seqs[i] = Cells(bs[i]) /\ seqs[i] \in Seq(C) /\ Len(seqs[i]) = Width(bs[i])
  <2>1. ASSUME NEW i \in 1 .. n PROVE Cells(bs[i]) \in Seq(C) /\ Len(Cells(bs[i])) = Width(bs[i])
    BY <1>n, <1>c, CellsAre
  <2> QED BY <1>s, <1>0, <2>1
<1>2. seqs \in Seq(Seq(C)) /\ Len(seqs) = n
  <2>1. seqs = [i \in 1 .. n |-> seqs[i]]
    BY <1>s, <1>0, <1>1
  <2>2. seqs \in [1 .. n -> Seq(C)]
    BY <1>1, <2>1
  <2>3. seqs \in Seq(Seq(C))
    BY <1>0, <2>2, SeqDef
  <2> QED BY <1>0, <2>2, <2>3
<1>3. PICK h \in [0 .. n -> Seq(C)] : FlattenRun(seqs, h)
  BY <1>2, FlattenRuns
<1>4. /\ \A i \in 1 .. n : Len(h[i]) = Len(h[i - 1]) + Len(seqs[i])
      /\ \A i \in 1 .. n : \A k \in 1 .. Len(seqs[i]) : h[i][Len(h[i - 1]) + k] = seqs[i][k]
      /\ \A i \in 0 .. n : Begins(h[i], h[n])
  <2>1. h \in [0 .. Len(seqs) -> Seq(C)] /\ seqs \in Seq(Seq(C)) /\ FlattenRun(seqs, h)
    BY <1>2, <1>3
  <2>2. Grown(seqs, h, Len(seqs))
    BY <2>1, Begun
  <2> QED BY <1>2, <2>2 DEF Grown
<1>f. PICK F : F = h[n]
  OBVIOUS
<1>5. F \in Seq(C) /\ F = FlattenSeq(seqs) /\ Len(h[0]) = 0 /\ \A i \in 0 .. n : Len(h[i]) \in Nat
  <2>1. F \in Seq(C)
    BY <1>0, <1>3, <1>f
  <2>2. F = FlattenSeq(seqs) /\ h[0] = <<>>
    BY <1>f, <1>2, <1>3 DEF FlattenRun
  <2>3. \A x \in Seq(C) : Len(x) \in Nat
    OBVIOUS
  <2> QED BY <1>3, <2>1, <2>2, <2>3
<1>t. PICK st : st = [i \in 1 .. n + 1 |-> 2 + Len(h[i - 1])]
  OBVIOUS
<1>6. \A i \in 1 .. n + 1 : st[i] = 2 + Len(h[i - 1]) /\ i - 1 \in 0 .. n
  BY <1>0, <1>t
<1>7. Starts(bs, st)
  <2>1. st[1] = 2
    <3>1. 1 \in 1 .. n + 1 /\ 1 - 1 = 0
      BY <1>0
    <3> QED BY <1>5, <1>6, <3>1
  <2>2. \A i \in 1 .. n + 1 : st[i] \in Nat /\ st[i] >= 2
    BY <1>5, <1>6
  <2>3. ASSUME NEW i \in 1 .. n PROVE st[i + 1] = st[i] + Width(bs[i])
    <3>1. i + 1 \in 1 .. n + 1 /\ i \in 1 .. n + 1 /\ (i + 1) - 1 = i /\ i \in 0 .. n
      BY <1>0
    <3>2. st[i + 1] = 2 + Len(h[i]) /\ st[i] = 2 + Len(h[i - 1]) /\ Len(h[i]) = Len(h[i - 1]) + Width(bs[i])
      BY <1>1, <1>4, <1>6, <3>1
    <3>3. Len(h[i - 1]) \in Nat /\ Width(bs[i]) \in Nat
      BY <1>5, <1>6, <1>n, <3>1, WidthIs DEF AreBlocks
    <3> QED BY <3>2, <3>3
  <2> QED BY <1>n, <2>1, <2>2, <2>3 DEF Starts
<1>w. PICK w : w = Encode(bs)
  OBVIOUS
<1>8. w = <<Open>> \o F \o <<Close>>
  BY <1>w, <1>s, <1>5 DEF Encode
<1>9. /\ w \in Seq(C \cup {Open, Close}) /\ Len(w) = Len(F) + 2 /\ w[Len(F) + 2] = Close
      /\ \A p \in 1 .. Len(F) : w[p + 1] = F[p]
  BY <1>5, <1>8, Framed
<1>10. st[n + 1] = Len(F) + 2 /\ Len(F) \in Nat
  <2>1. n + 1 \in 1 .. n + 1 /\ (n + 1) - 1 = n /\ n \in 0 .. n
    BY <1>0
  <2>2. st[n + 1] = 2 + Len(h[n]) /\ Len(h[n]) \in Nat
    BY <1>5, <1>6, <2>1
  <2> QED BY <1>f, <2>2
<1>11. CellsAt(w, bs, st)
  <2>1. ASSUME NEW i \in 1 .. n, NEW k \in 1 .. Width(bs[i])
        PROVE  w[st[i] + k - 1] = [block |-> bs[i], k |-> k]
    <3>p. PICK p : p = Len(h[i - 1]) + k
      OBVIOUS
    <3>1. i \in 1 .. n + 1 /\ i - 1 \in 0 .. n /\ i \in 0 .. n /\ Width(bs[i]) \in Nat
      BY <1>0, <1>n, WidthIs DEF AreBlocks
    <3>2. Len(h[i - 1]) \in Nat /\ Len(h[i]) = Len(h[i - 1]) + Width(bs[i]) /\ h[i][p] = Cells(bs[i])[k]
      BY <3>p, <1>1, <1>4, <1>5, <3>1
    <3>3. p \in 1 .. Len(h[i])
      BY <3>p, <3>1, <3>2
    <3>4. F[p] = h[i][p] /\ p \in 1 .. Len(F)
      <4>1. Begins(h[i], F) /\ Len(h[i]) \in Nat
        BY <1>f, <1>4, <1>5, <3>1
      <4> QED BY <1>10, <3>3, <4>1 DEF Begins
    <3>5. Cells(bs[i])[k] = [block |-> bs[i], k |-> k]
      BY <1>n, CellsAre, SMTT(60)
    <3>6. st[i] + k - 1 = p + 1
      <4>1. st[i] = 2 + Len(h[i - 1]) /\ Len(h[i - 1]) \in Nat /\ k \in Nat
        BY <1>6, <3>1, <3>2
      <4> QED BY <3>p, <4>1
    <3> QED BY <1>9, <3>2, <3>4, <3>5, <3>6
  <2> QED BY <1>n, <2>1 DEF CellsAt
<1>12. EndsAt(w, st[n + 1])
  <2>1. ASSUME NEW p \in 2 .. Len(w), p < st[n + 1] PROVE w[p] # Close /\ Width(w[p].block) \in Nat \ {0}
    <3>1. p - 1 \in 1 .. Len(F) /\ (p - 1) + 1 = p
      BY <1>9, <1>10, <2>1
    <3>2. w[p] = F[p - 1] /\ F[p - 1] \in C
      BY <1>5, <1>9, <3>1, ElementOfSeq
    <3>3. w[p] # Close /\ w[p].block \in ToSet(bs)
      BY <1>c, <3>2, CellsDiffer DEF CellSet
    <3>4. IsBlock(w[p].block)
      BY <1>n, <1>0, <3>3 DEF AreBlocks, ToSet
    <3> QED BY <3>3, <3>4, WidthIs
  <2>2. \A p \in 2 .. Len(w) : p < st[n + 1] \/ (p = st[n + 1] /\ w[p] = Close)
    BY <1>9, <1>10
  <2>3. \A p \in 2 .. Len(w) : (w[p] = Close => p >= st[n + 1]) /\ (w[p] # Close => Width(w[p].block) \in Nat \ {0})
    BY <1>10, <2>1, <2>2
  <2> QED BY <1>9, <1>10, <2>3 DEF EndsAt
<1>13. w \in Seq(ToSet(w))
  BY <1>9, OfItsOwn
<1> QED
  BY <1>n, <1>w, <1>7, <1>9, <1>10, <1>11, <1>12, <1>13 DEF Laid

\* The beginning of a wire is laid out as the wire is.
LEMMA LaidBegins ==
  ASSUME NEW w, NEW bs, NEW st, Laid(w, bs, st), AreBlocks(bs), NEW v, v \in Seq(ToSet(v)), Begins(v, w)
  PROVE  Laid(v, bs, st)
<1>n. PICK n : n = Len(bs)
  OBVIOUS
<1>0. Len(v) \in Nat /\ Len(w) \in Nat /\ n \in Nat /\ Len(v) <= Len(w) /\ \A p \in 1 .. Len(v) : v[p] = w[p]
  BY <1>n DEF Laid, Begins, AreBlocks
<1>e. PICK e : e = st[n + 1]
  OBVIOUS
<1>1. e \in Nat /\ e >= 2
  BY <1>n, <1>e, <1>0 DEF Laid, Starts
<1>2. CellsAt(v, bs, st)
  <2>1. ASSUME NEW i \in 1 .. n, NEW k \in 1 .. Width(bs[i]), st[i] + k - 1 <= Len(v)
        PROVE  v[st[i] + k - 1] = [block |-> bs[i], k |-> k]
    <3>1. st[i] \in Nat /\ st[i] >= 2 /\ Width(bs[i]) \in Nat
      BY <1>n, <1>0, WidthIs DEF Laid, Starts, AreBlocks
    <3>2. st[i] + k - 1 \in 1 .. Len(v) /\ st[i] + k - 1 <= Len(w)
      BY <1>0, <2>1, <3>1
    <3> QED BY <1>n, <1>0, <3>2 DEF Laid, CellsAt
  <2> QED BY <1>n, <2>1 DEF CellsAt
<1>3. EndsAt(v, e)
  <2>1. EndsAt(w, e)
    BY <1>n, <1>e DEF Laid
  <2>2. \A p \in 2 .. Len(v) : p \in 2 .. Len(w) /\ v[p] = w[p]
    BY <1>0
  <2>3. e <= Len(v) => v[e] = w[e]
    BY <1>0, <1>1
  <2> QED BY <1>0, <1>1, <2>1, <2>2, <2>3 DEF EndsAt
<1> QED
  BY <1>n, <1>e, <1>2, <1>3 DEF Laid

\* The starts follow each other.
LEMMA StartsGrow ==
  ASSUME NEW bs, AreBlocks(bs), NEW st, Starts(bs, st), NEW i \in 1 .. Len(bs) + 1, NEW j \in i .. Len(bs) + 1
  PROVE  st[i] <= st[j]
<1>n. PICK n : n = Len(bs)
  OBVIOUS
<1>0. n \in Nat /\ i \in 1 .. n + 1 /\ j \in i .. n + 1
  BY <1>n DEF AreBlocks
<1> DEFINE P == {m \in Nat : i + m <= n + 1 => st[i] <= st[i + m]}
<1>1. 0 \in P
  <2>1. i + 0 = i /\ st[i] \in Nat
    BY <1>0, <1>n DEF Starts
  <2> QED BY <2>1
<1>2. ASSUME NEW m \in Nat, m \in P PROVE m + 1 \in P
  <2>1. SUFFICES ASSUME i + (m + 1) <= n + 1 PROVE st[i] <= st[i + (m + 1)]
    OBVIOUS
  <2>2. i + m \in 1 .. n /\ i + (m + 1) = (i + m) + 1 /\ i + m <= n + 1
    BY <1>0, <2>1
  <2>3. st[(i + m) + 1] = st[i + m] + Width(bs[i + m]) /\ Width(bs[i + m]) \in Nat
    BY <1>n, <2>2, WidthIs DEF Starts, AreBlocks
  <2>4. st[i] \in Nat /\ st[i + m] \in Nat /\ st[i] <= st[i + m]
    <3>1. i + m \in 1 .. n + 1
      BY <1>0, <2>2
    <3> QED BY <1>n, <1>0, <1>2, <2>2, <3>1 DEF Starts
  <2> QED BY <2>2, <2>3, <2>4
<1>3. j - i \in P /\ i + (j - i) = j /\ j <= n + 1
  <2>1. j - i \in Nat /\ i + (j - i) = j /\ j <= n + 1
    BY <1>0
  <2> HIDE DEF P
  <2> QED BY <1>1, <1>2, <2>1, Induction
<1> QED
  BY <1>3

\* However it arrives.
LEMMA ArrivingLaid ==
  ASSUME NEW bs, AreBlocks(bs), NEW w \in Arriving(bs)
  PROVE  \E st : Laid(w, bs, st)
<1>e. PICK e : e = Encode(bs)
  OBVIOUS
<1>1. PICK st : Laid(e, bs, st) /\ Len(e) = st[Len(bs) + 1]
  BY <1>e, EncodeIs
<1>2. e \in Seq(ToSet(e)) /\ Len(e) \in Nat
  BY <1>1 DEF Laid
<1>3. ASSUME NEW cut \in 0 .. MaxCut, w = SubSeq(e, 1, Len(e) - cut) PROVE Laid(w, bs, st)
  <2>m. PICK m : m = Len(e) - cut
    OBVIOUS
  <2>1. m \in Int /\ m <= Len(e)
    BY <2>m, <1>2, StreamAssumption
  <2>2. \A i \in 1 .. m : e[i] \in ToSet(e)
    <3>1. \A i \in 1 .. m : i \in 1 .. Len(e)
      BY <1>2, <2>1
    <3> QED BY <1>2, <3>1, ElementOfSeq
  <2>3. /\ SubSeq(e, 1, m) \in Seq(ToSet(e)) /\ Len(SubSeq(e, 1, m)) = IF 1 <= m THEN m - 1 + 1 ELSE 0
        /\ \A i \in 1 .. m - 1 + 1 : SubSeq(e, 1, m)[i] = e[1 + i - 1]
    <3>1. 1 \in Int
      OBVIOUS
    <3> QED BY <2>1, <2>2, <3>1, SubSeqProperties
  <2>4. w = SubSeq(e, 1, m)
    BY <2>m, <1>3
  <2>5. w \in Seq(ToSet(w))
    BY <2>3, <2>4, OfItsOwn
  <2>6. Begins(w, e)
    <3>1. Len(w) \in Nat /\ Len(w) <= Len(e) /\ \A i \in 1 .. Len(w) : i \in 1 .. m - 1 + 1 /\ 1 + i - 1 = i
      BY <1>2, <2>1, <2>3, <2>4
    <3> QED BY <2>3, <2>4, <3>1 DEF Begins
  <2> QED BY <1>1, <2>5, <2>6, LaidBegins
<1>4. ASSUME w = Append(e, Close) PROVE Laid(w, bs, st)
  <2>s. PICK S : S = ToSet(e) \cup {Close}
    OBVIOUS
  <2>0. e \in Seq(S) /\ Close \in S
    BY <2>s, <1>2, SeqMonotonic
  <2>1. /\ w \in Seq(S) /\ Len(w) = Len(e) + 1 /\ w[Len(e) + 1] = Close
        /\ \A i \in 1 .. Len(e) : w[i] = e[i]
    BY <1>4, <2>0, AppendProperties
  <2>l. PICK n : n = st[Len(bs) + 1]
    OBVIOUS
  <2>2. n = Len(e) /\ n \in Nat /\ n >= 2 /\ Len(bs) \in Nat
    <3>1. Len(bs) \in Nat
      BY DEF AreBlocks
    <3>2. Len(bs) + 1 \in 1 .. Len(bs) + 1
      BY <3>1
    <3> QED BY <2>l, <1>1, <3>1, <3>2 DEF Laid, Starts
  <2>3. CellsAt(w, bs, st)
    <3>1. ASSUME NEW i \in 1 .. Len(bs), NEW k \in 1 .. Width(bs[i])
          PROVE  st[i] + k - 1 \in 1 .. Len(e)
      <4>1. st[i] \in Nat /\ st[i] >= 2 /\ Width(bs[i]) \in Nat
        BY <1>1, <2>2, WidthIs DEF Laid, Starts, AreBlocks
      <4>2. st[i + 1] = st[i] + Width(bs[i])
        BY <1>1 DEF Laid, Starts
      <4>3. st[i + 1] <= Len(e)
        <5>1. i + 1 \in 1 .. Len(bs) + 1 /\ Len(bs) + 1 \in i + 1 .. Len(bs) + 1
          BY <2>2
        <5> QED BY <1>1, <5>1, StartsGrow DEF Laid
      <4> QED BY <2>2, <4>1, <4>2, <4>3, SMTT(60)
    <3> QED BY <1>1, <2>1, <3>1, SMTT(60) DEF Laid, CellsAt
  <2>4. EndsAt(w, n)
    <3>1. EndsAt(e, n)
      BY <2>l, <1>1 DEF Laid
    <3>2. \A p \in 2 .. Len(w) : p \in 2 .. Len(e) \/ p = Len(e) + 1
      BY <1>2, <2>1
    <3>3. \A p \in 2 .. Len(e) : w[p] = e[p]
      BY <2>1
    <3>4. n <= Len(w) => w[n] = Close
      BY <2>1, <2>2, <3>1 DEF EndsAt
    <3> QED BY <1>2, <2>1, <2>2, <3>1, <3>2, <3>3, <3>4 DEF EndsAt
  <2>5. w \in Seq(ToSet(w))
    BY <2>1, OfItsOwn
  <2> QED BY <2>l, <1>1, <2>3, <2>4, <2>5 DEF Laid
<1> QED
  BY <1>e, <1>1, <1>3, <1>4 DEF Arriving

\* What begins at a block's start: the rest of the bundle, if it ends there.
LEMMA ItemsAre ==
  ASSUME NEW bs, AreBlocks(bs), NEW w, NEW st, Laid(w, bs, st)
  PROVE  Items(w) = IF Len(w) = st[Len(bs) + 1] THEN Taken(bs) ELSE Refused
<1>n. PICK n : n = Len(bs)
  OBVIOUS
<1>l. PICK L : L = Len(w)
  OBVIOUS
<1>e. PICK e : e = st[n + 1]
  OBVIOUS
<1>0. n \in Nat /\ L \in Nat /\ w \in Seq(ToSet(w)) /\ bs \in Seq(ToSet(bs)) /\ DOMAIN w = 1 .. L
  BY <1>n, <1>l DEF AreBlocks, Laid
<1>1. EndsAt(w, e) /\ Starts(bs, st) /\ CellsAt(w, bs, st)
  BY <1>n, <1>e DEF Laid
<1>2. /\ e \in Nat /\ \A i \in 1 .. n + 1 : st[i] \in Nat /\ st[i] >= 2 /\ st[i] <= e
  <2>1. ASSUME NEW i \in 1 .. n + 1 PROVE st[i] \in Nat /\ st[i] >= 2 /\ st[i] <= st[n + 1]
    <3>1. n + 1 \in i .. n + 1
      BY <1>0
    <3> QED BY <1>n, <1>1, <3>1, StartsGrow DEF Starts
  <2>2. n + 1 \in 1 .. n + 1
    BY <1>0
  <2> QED BY <1>e, <2>1, <2>2
<1>3. \A p \in 2 .. L : w[p] # Close => Width(w[p].block) \in Nat \ {0}
  BY <1>l, <1>1 DEF EndsAt
<1>4. PICK from : ItemsRun(w, from)
  BY <1>0, <1>3, <1>l, ItemsRuns
<1>5. Items(w) = from[2]
  BY <1>4 DEF ItemsRun
<1>6. ASSUME NEW p \in 2 .. L + 2
      PROVE  from[p] = IF p > L THEN Refused
                 ELSE IF w[p] = Close THEN IF p = L THEN Taken(<<>>) ELSE Refused
                 ELSE IF ~WholeAt(w, p) THEN Refused
                 ELSE IF from[p + Width(w[p].block)].ok
                      THEN Taken(<<w[p].block>> \o from[p + Width(w[p].block)].blocks) ELSE Refused
  BY <1>l, <1>4 DEF ItemsRun
<1> DEFINE Is(i) == st[i] <= L + 1 => from[st[i]] = IF L = e THEN Taken(SubSeq(bs, i, n)) ELSE Refused
           P == {m \in Nat : m <= n => Is(n + 1 - m)}
<1>7. 0 \in P
  <2>1. n + 1 - 0 = n + 1
    BY <1>0
  <2>2. SubSeq(bs, n + 1, n) = <<>>
    BY <1>0, SubSeqEmpty
  <2>3. SUFFICES ASSUME e <= L + 1 PROVE from[e] = IF L = e THEN Taken(<<>>) ELSE Refused
    BY <1>e, <2>1, <2>2
  <2>4. e \in 2 .. L + 2 /\ n + 1 \in 1 .. n + 1
    BY <1>0, <1>2, <1>e, <2>3
  <2>5. CASE e > L
    <3>1. L # e
      BY <1>0, <1>2, <2>5
    <3> HIDE DEF Is, P
    <3> QED BY <1>6, <2>4, <2>5, <3>1
  <2>6. CASE ~(e > L)
    <3>1. w[e] = Close
      BY <1>0, <1>1, <1>2, <1>l, <2>6 DEF EndsAt
    <3> QED BY <1>6, <2>4, <2>6, <3>1
  <2> QED BY <2>5, <2>6
<1>8. ASSUME NEW m \in Nat, m \in P PROVE m + 1 \in P
  <2>0. SUFFICES ASSUME m + 1 <= n PROVE Is(n + 1 - (m + 1))
    BY DEF P
  <2>i. PICK i : i = n + 1 - (m + 1)
    OBVIOUS
  <2>1. i \in 1 .. n /\ i \in 1 .. n + 1 /\ i + 1 \in 1 .. n + 1 /\ i + 1 = n + 1 - m /\ m <= n
    BY <1>0, <2>i, <2>0
  <2>2. Is(i + 1)
    BY <1>8, <2>1
  <2>p. PICK p : p = st[i]
    OBVIOUS
  <2>b. PICK b : b = bs[i]
    OBVIOUS
  <2>3. /\ p \in Nat /\ p >= 2 /\ st[i + 1] = p + Width(b) /\ st[i + 1] <= e
        /\ Width(b) \in Nat /\ Width(b) >= 2
    <3>1. Width(b) \in Nat /\ Width(b) >= 2
      BY <1>n, <2>1, <2>b, WidthIs DEF AreBlocks
    <3> QED BY <1>n, <1>1, <1>2, <2>1, <2>p, <2>b, <3>1 DEF Starts
  <2>4. SUFFICES ASSUME p <= L + 1 PROVE from[p] = IF L = e THEN Taken(SubSeq(bs, i, n)) ELSE Refused
    BY <2>i, <2>p
  <2>5. p \in 2 .. L + 2
    BY <1>0, <2>3, <2>4
  <2>6. CASE p > L
    <3>1. L # e
      BY <1>0, <1>2, <2>3, <2>6
    <3> QED BY <1>6, <2>5, <2>6, <3>1
  <2>7. CASE ~(p > L)
    <3>1. w[p] = [block |-> b, k |-> 1]
      <4>1. 1 \in 1 .. Width(b) /\ p + 1 - 1 = p /\ p <= L
        BY <1>0, <2>3, <2>7
      <4> QED BY <1>n, <1>l, <1>1, <2>1, <2>p, <2>b, <4>1 DEF CellsAt
    <3>2. w[p] # Close /\ w[p].block = b
      <4>1. w[p].k = 1 /\ Close.k = -1
        BY <3>1 DEF Close
      <4> QED BY <3>1, <4>1
    <3>3. WholeAt(w, p) <=> p + Width(b) - 1 <= L
      BY <1>0, <1>l, <2>3, <2>7, <3>2 DEF WholeAt
    <3>4. CASE ~WholeAt(w, p)
      <4>1. L # e
        BY <1>0, <1>2, <2>3, <3>3, <3>4
      <4> QED BY <1>6, <2>5, <2>7, <3>2, <3>4, <4>1
    <3>5. CASE WholeAt(w, p)
      <4>r. PICK rest : rest = from[p + Width(b)]
        OBVIOUS
      <4>1. rest = IF L = e THEN Taken(SubSeq(bs, i + 1, n)) ELSE Refused
        <5>1. p + Width(b) <= L + 1
          BY <1>0, <2>3, <3>3, <3>5
        <5> QED BY <4>r, <2>2, <2>3, <5>1
      <4>2. from[p] = IF rest.ok THEN Taken(<<b>> \o rest.blocks) ELSE Refused
        BY <1>6, <4>r, <2>5, <2>7, <3>2, <3>5
      <4>3. <<b>> \o SubSeq(bs, i + 1, n) = SubSeq(bs, i, n)
        <5>1. i \in 1 .. Len(bs) /\ n \in i .. Len(bs)
          BY <1>n, <1>0, <2>1
        <5> QED BY <1>0, <2>b, <5>1, SubSeqRecursiveFirst
      <4>4. CASE L = e
        <5>1. rest.ok /\ rest.blocks = SubSeq(bs, i + 1, n)
          BY <4>1, <4>4 DEF Taken
        <5> QED BY <4>2, <4>3, <4>4, <5>1
      <4>5. CASE L # e
        <5>1. ~rest.ok
          BY <4>1, <4>5 DEF Refused
        <5> QED BY <4>2, <4>5, <5>1
      <4> QED BY <4>4, <4>5
    <3> QED BY <3>4, <3>5
  <2> QED BY <2>6, <2>7
<1>9. Is(1)
  <2>1. n \in P
    <3> HIDE DEF P
    <3> QED BY <1>0, <1>7, <1>8, Induction
  <2>2. n + 1 - n = 1
    BY <1>0
  <2> HIDE DEF Is
  <2> QED BY <1>0, <2>1, <2>2
<1>10. st[1] = 2 /\ SubSeq(bs, 1, n) = bs /\ 2 <= e
  <2>1. 1 \in 1 .. n + 1
    BY <1>0
  <2>2. st[1] = 2
    BY <1>1 DEF Starts
  <2> QED BY <1>n, <1>0, <1>2, <2>1, <2>2, SubSeqFull
<1>11. CASE 2 <= L + 1
  BY <1>5, <1>9, <1>10, <1>11, <1>n, <1>l, <1>e
<1>12. CASE ~(2 <= L + 1)
  <2>1. L = 0 /\ 2 \in 2 .. L + 2 /\ L # e
    BY <1>0, <1>2, <1>10, <1>12
  <2>2. from[2] = Refused
    BY <1>6, <2>1
  <2> QED BY <1>5, <1>n, <1>l, <1>e, <2>1, <2>2
<1> QED
  BY <1>11, <1>12

\* decodeBundle takes a bundle that arrives whole and is in order.
LEMMA DecodeIs ==
  ASSUME NEW bs, AreBlocks(bs), NEW w, NEW st, Laid(w, bs, st)
  PROVE  DecodeBundle(w) = IF Len(w) = st[Len(bs) + 1] /\ Decodes(bs) THEN Taken(bs) ELSE Refused
<1>n. PICK n : n = Len(bs)
  OBVIOUS
<1>i. PICK items : items = Items(w)
  OBVIOUS
<1>0. n \in Nat /\ bs \in Seq(ToSet(bs)) /\ DOMAIN bs = 1 .. n
  BY <1>n DEF AreBlocks
<1>1. DecodeBundle(w) = IF /\ items.ok /\ Len(items.blocks) >= 2
                           /\ items.blocks[1].type = "primary"
                           /\ \A i \in DOMAIN items.blocks : Sound(items.blocks[i])
                           /\ Last(items.blocks).type = Payload
                           /\ DistinctNumbers(Tail(items.blocks))
                        THEN items ELSE Refused
  BY <1>i DEF DecodeBundle
<1>2. CASE Len(w) # st[Len(bs) + 1]
  <2>1. items = Refused /\ ~items.ok
    BY <1>i, <1>2, ItemsAre DEF Refused
  <2> QED BY <1>1, <1>2, <2>1
<1>3. CASE Len(w) = st[Len(bs) + 1]
  <2>1. items = Taken(bs) /\ items.ok /\ items.blocks = bs
    BY <1>i, <1>3, ItemsAre DEF Taken
  <2>2. ASSUME n >= 2 PROVE Last(bs) = bs[n] /\ (DistinctNumbers(Tail(bs)) <=> Apart(bs))
    <3>1. Len(bs) >= 1
      BY <1>n, <1>0, <2>2
    <3> QED BY <1>n, <1>0, <3>1, ApartIs DEF Last
  <2>3. /\ Len(bs) >= 2
        /\ bs[1].type = "primary"
        /\ \A i \in DOMAIN bs : Sound(bs[i])
        /\ Last(bs).type = Payload
        /\ DistinctNumbers(Tail(bs))
        <=> Decodes(bs)
    BY <1>n, <1>0, <2>2 DEF Decodes
  <2> QED BY <1>1, <1>3, <2>1, <2>3
<1> QED
  BY <1>2, <1>3

-----------------------------------------------------------------------------
(* The receiver of the fast path: what it has of the cells that came.      *)

\* A slice of a beginning is one of the whole.
LEMMA SliceOfBegin ==
  ASSUME NEW U, NEW w \in Seq(U), NEW d \in 0 .. Len(w), NEW a \in Nat \ {0}, NEW b \in Int, b <= d
  PROVE  SubSeq(SubSeq(w, 1, d), a, b) = SubSeq(w, a, b)
<1>1. CASE a > b
  <2>1. b < a
    BY <1>1
  <2> QED BY <2>1, SubSeqEmpty
<1>2. CASE ~(a > b)
  <2>1. a \in 1 .. d - 1 + 1 /\ b \in 1 .. d - 1 + 1 /\ 1 \in 1 .. Len(w) /\ d \in 1 .. Len(w)
    BY <1>2
  <2>2. SubSeq(SubSeq(w, 1, d), a, b) = SubSeq(w, 1 + a - 1, 1 + b - 1)
    BY <2>1, SubSeqOfSubSeq
  <2>3. 1 + a - 1 = a /\ 1 + b - 1 = b
    OBVIOUS
  <2> QED BY <2>2, <2>3
<1> QED
  BY <1>1, <1>2

\* A slice grows by what has come of it.
Meets(w, at, d, first, last) ==
  SubSeq(w, first, Min({at, last})) \o SubSeq(SubSeq(w, 1, d), Max({at + 1, first}), Min({d, last}))
    = SubSeq(w, first, Min({d, last}))

\* So a slice goes on with what came last.
LEMMA SliceGrows ==
  ASSUME NEW U, NEW w \in Seq(U), NEW d \in 0 .. Len(w), NEW at \in 0 .. d,
         NEW first \in Nat \ {0}, NEW last \in Nat
  PROVE  Meets(w, at, d, first, last)
<1>l. PICK lo : lo = Min({at, last})
  OBVIOUS
<1>h. PICK hi : hi = Min({d, last})
  OBVIOUS
<1>a. PICK a : a = Max({at + 1, first})
  OBVIOUS
<1>1. lo = (IF at <= last THEN at ELSE last) /\ hi = (IF d <= last THEN d ELSE last)
      /\ a = (IF at + 1 >= first THEN at + 1 ELSE first)
  <2>0. Len(w) \in Nat
    OBVIOUS
  <2>c. PICK c : c = at + 1
    OBVIOUS
  <2>1. at \in Int /\ d \in Int /\ last \in Int /\ c \in Int /\ first \in Int
    BY <2>0, <2>c
  <2>2. lo = (IF at <= last THEN at ELSE last) /\ hi = (IF d <= last THEN d ELSE last)
    BY <1>l, <1>h, <2>1, MinOfTwo
  <2>3. a \in {c, first} /\ c <= a /\ first <= a
    BY <1>a, <2>1, <2>c, MaxOfTwo
  <2>4. a = (IF c >= first THEN c ELSE first)
    BY <2>1, <2>3
  <2> QED BY <2>c, <2>2, <2>4
<1>2. lo \in Nat /\ hi \in Nat /\ a \in Nat \ {0} /\ hi <= d
  BY <1>1
<1>3. SubSeq(SubSeq(w, 1, d), a, hi) = SubSeq(w, a, hi)
  BY <1>2, SliceOfBegin
<1>4. \A x \in Nat : \A y \in Nat : SubSeq(w, x, y) \in Seq(U) \/ ~(x \in 1 .. Len(w) + 1 /\ y <= Len(w))
  <2>1. ASSUME NEW x \in 1 .. Len(w) + 1, NEW y \in Nat, y <= Len(w) PROVE SubSeq(w, x, y) \in Seq(U)
    <3>1. \A i \in x .. y : w[i] \in U
      <4>1. \A i \in x .. y : i \in 1 .. Len(w)
        BY <2>1
      <4> QED BY <4>1, ElementOfSeq
    <3>2. x \in Int /\ y \in Int
      OBVIOUS
    <3> QED BY <3>1, <3>2, SubSeqProperties
  <2> QED BY <2>1
<1>5. ASSUME hi < first PROVE SubSeq(w, first, lo) \o SubSeq(SubSeq(w, 1, d), a, hi) = SubSeq(w, first, hi)
  <2>1. lo < first /\ hi < a
    BY <1>1, <1>5
  <2>2. SubSeq(w, first, lo) = <<>> /\ SubSeq(w, a, hi) = <<>> /\ SubSeq(w, first, hi) = <<>>
    BY <1>2, <1>5, <2>1, SubSeqEmpty
  <2>3. <<>> \o <<>> = <<>>
    BY ConcatEmptySeq, EmptySeq
  <2> QED BY <1>3, <2>2, <2>3
<1>6. ASSUME ~(hi < first), at < first
      PROVE  SubSeq(w, first, lo) \o SubSeq(SubSeq(w, 1, d), a, hi) = SubSeq(w, first, hi)
  <2>1. lo < first /\ a = first
    BY <1>1, <1>6
  <2>2. SubSeq(w, first, lo) = <<>>
    BY <1>2, <2>1, SubSeqEmpty
  <2>3. first \in 1 .. Len(w) + 1 /\ hi <= Len(w)
    BY <1>2, <1>6
  <2>4. SubSeq(w, first, hi) \in Seq(U)
    BY <1>2, <1>4, <2>3
  <2>5. <<>> \o SubSeq(w, first, hi) = SubSeq(w, first, hi)
    BY <2>4, ConcatEmptySeq
  <2> QED BY <1>3, <2>1, <2>2, <2>5
<1>7. ASSUME ~(hi < first), ~(at < first)
      PROVE  SubSeq(w, first, lo) \o SubSeq(SubSeq(w, 1, d), a, hi) = SubSeq(w, first, hi)
  <2>1. a = at + 1 /\ first \in 1 .. Len(w) + 1
    BY <1>1, <1>2, <1>7
  <2>2. CASE at >= last
    <3>1. lo = last /\ hi = last /\ hi < a
      BY <1>1, <2>1, <2>2
    <3>2. SubSeq(w, a, hi) = <<>>
      BY <1>2, <3>1, SubSeqEmpty
    <3>3. SubSeq(w, first, lo) \in Seq(U)
      BY <1>2, <1>4, <2>1, <3>1
    <3> QED BY <1>3, <3>1, <3>2, <3>3, ConcatEmptySeq
  <2>3. CASE ~(at >= last)
    <3>1. lo = at /\ at \in first - 1 .. Len(w) /\ hi \in at .. Len(w)
      BY <1>1, <1>7, <2>3
    <3>2. SubSeq(w, first, at) \o SubSeq(w, at + 1, hi) = SubSeq(w, first, hi)
      BY <2>1, <3>1, ConcatAdjacentSubSeq
    <3> QED BY <1>3, <2>1, <3>1, <3>2
  <2> QED BY <2>2, <2>3
<1> QED
  BY <1>l, <1>h, <1>a, <1>5, <1>6, <1>7 DEF Meets

\* A receiver is a record of these.
RxFields == {"state", "head", "next", "raws", "p", "size", "buf", "sha", "crc"}

IsRx(r) == r = [f \in RxFields |-> r[f]]

\* The first receiver is one.
LEMMA NewIsRx == IsRx(NewReceiver)
  BY DEF IsRx, RxFields, NewReceiver

\* So is one that failed.
LEMMA FailedIs ==
  ASSUME NEW r, IsRx(r)
  PROVE  IsRx(Failed(r)) /\ Failed(r).state = "failed"
<1>t. PICK t : t = [f \in RxFields |-> r[f]]
  OBVIOUS
<1>d. DOMAIN t = RxFields
  BY <1>t
<1>r. r = t
  BY <1>t DEF IsRx
<1>1. DOMAIN r = RxFields
  BY <1>d, <1>r
<1> QED
  BY <1>1 DEF IsRx, RxFields, Failed

\* What #body makes of a receiver.
Same(r, s) == s.state = r.state /\ s.raws = r.raws /\ s.p = r.p /\ s.size = r.size

Bodied(r, s, buf, at, P) ==
  /\ IsRx(s) /\ Same(r, s) /\ s.buf = buf
  /\ s.sha = r.sha \o SubSeq(buf, Max({at + 1, P.dataStart}), Min({Len(buf), P.dataEnd}))
  /\ s.crc = r.crc \o SubSeq(buf, Max({at + 1, P.start}), Min({Len(buf), P.crcStart - 1}))

\* #body while there is room.
LEMMA BodyIs ==
  ASSUME NEW r, IsRx(r), NEW chunk, NEW at, at = Len(r.buf), NEW buf, buf = r.buf \o chunk,
         NEW P, P = Head(r.p), ~(Len(buf) > r.size), NEW s, s = Body(r, chunk)
  PROVE  Bodied(r, s, buf, at, P)
<1>s. PICK sha : sha = r.sha \o SubSeq(buf, Max({at + 1, P.dataStart}), Min({Len(buf), P.dataEnd}))
  OBVIOUS
<1>c. PICK crc : crc = r.crc \o SubSeq(buf, Max({at + 1, P.start}), Min({Len(buf), P.crcStart - 1}))
  OBVIOUS
<1>1. s = [r EXCEPT !.buf = buf, !.sha = sha, !.crc = crc]
  BY <1>s, <1>c DEF Body
<1>2. DOMAIN r = RxFields
  BY DEF IsRx
<1>3. s = [f \in RxFields |-> IF f = "buf" THEN buf ELSE IF f = "sha" THEN sha ELSE IF f = "crc" THEN crc ELSE r[f]]
  BY <1>1, <1>2 DEF RxFields
<1>4. IsRx(s)
  BY <1>3 DEF IsRx
<1>5. Same(r, s) /\ s.buf = buf /\ s.sha = sha /\ s.crc = crc
  BY <1>3 DEF RxFields, Same
<1> QED
  BY <1>s, <1>c, <1>4, <1>5 DEF Bodied

\* #body beyond the end.
LEMMA BodyFails ==
  ASSUME NEW r, IsRx(r), NEW chunk, Len(r.buf \o chunk) > r.size
  PROVE  IsRx(Body(r, chunk)) /\ Body(r, chunk).state = "failed"
<1>1. Body(r, chunk) = Failed(r)
  BY DEF Body
<1> QED
  BY <1>1, FailedIs

\* The payload block's place.
PlaceOf(b, at) ==
  [block |-> b, start |-> at, dataStart |-> at + 2, dataEnd |-> at + 2 + Len(b.data) - 1,
   crcStart |-> at + 2 + Len(b.data), end |-> at + Width(b) - 1]

\* No block but the first, up to the m-th, is a payload block.
NoneUpto(bs, m) == \A i \in 2 .. m : bs[i].type # Payload

\* The first payload block is that after m others.
PayloadAfter(bs, m) ==
  m \in 1 .. Len(bs) - 1 /\ bs[m + 1].type = Payload /\ NoneUpto(bs, m)

\* What a receiver has of a payload block and before, of d cells.
Copied(r, w, bs, st, m, d) ==
  LET P == PlaceOf(bs[m + 1], st[m + 1])
  IN  /\ r.buf = SubSeq(w, 1, d)
      /\ r.sha = SubSeq(w, P.dataStart, Min({d, P.dataEnd}))
      /\ r.crc = SubSeq(w, P.start, Min({d, P.crcStart - 1}))

\* It is past the payload's head.
InBody(r, w, bs, st, m, d) ==
  /\ IsRx(r) /\ r.state = "body" /\ PayloadAfter(bs, m) /\ bs[m + 1].shape = "ok"
  /\ r.raws = SubSeq(bs, 1, m) /\ r.p = <<PlaceOf(bs[m + 1], st[m + 1])>> /\ r.size = st[m + 2]
  /\ d <= st[m + 2] /\ Copied(r, w, bs, st, m, d)

\* More comes of a payload.
LEMMA BodyGoes ==
  ASSUME NEW bs, AreBlocks(bs), NEW w, NEW st, Laid(w, bs, st), NEW r, NEW m,
         NEW d \in 0 .. Len(w), NEW at \in 0 .. d, InBody(r, w, bs, st, m, at),
         NEW chunk, chunk = SubSeq(w, at + 1, d), NEW s, s = Body(r, chunk)
  PROVE  IF d > st[m + 2] THEN IsRx(s) /\ s.state = "failed" ELSE InBody(s, w, bs, st, m, d)
<1>u. PICK U : U = ToSet(w)
  OBVIOUS
<1>b. PICK b : b = bs[m + 1]
  OBVIOUS
<1>g. PICK g : g = st[m + 1]
  OBVIOUS
<1>0. w \in Seq(U) /\ Len(w) \in Nat /\ d <= Len(w) /\ at \in Nat /\ d \in Nat /\ at <= d
  BY <1>u DEF Laid
<1>1. b.data \in Seq(ToSet(b.data)) /\ Len(b.data) \in Nat /\ g \in Nat /\ g >= 2 /\ st[m + 2] \in Nat
  <2>1. m + 1 \in 1 .. Len(bs) /\ m + 1 \in 1 .. Len(bs) + 1 /\ m + 2 \in 1 .. Len(bs) + 1
    BY DEF AreBlocks, InBody, PayloadAfter
  <2>2. IsBlock(b) /\ b.type = Payload
    BY <1>b, <2>1 DEF AreBlocks, InBody, PayloadAfter
  <2>3. b.data \in Seq(ToSet(b.data))
    BY <2>2 DEF IsBlock
  <2>4. Len(b.data) \in Nat
    BY <2>3
  <2> QED BY <1>g, <2>1, <2>3, <2>4 DEF Laid, Starts
<1>p. PICK P : P = PlaceOf(b, g)
  OBVIOUS
<1>2. /\ P.dataStart \in Nat \ {0} /\ P.dataEnd \in Nat /\ P.start \in Nat \ {0} /\ P.crcStart - 1 \in Nat
  <2>n. PICK n : n = Len(b.data)
    OBVIOUS
  <2>1. P.dataStart = g + 2 /\ P.dataEnd = g + 2 + n - 1 /\ P.start = g /\ P.crcStart = g + 2 + n
    BY <1>p, <2>n DEF PlaceOf
  <2>2. n \in Nat
    BY <1>1, <2>n
  <2> QED BY <1>1, <2>1, <2>2
<1>3. /\ r.buf = SubSeq(w, 1, at) /\ r.sha = SubSeq(w, P.dataStart, Min({at, P.dataEnd}))
      /\ r.crc = SubSeq(w, P.start, Min({at, P.crcStart - 1}))
      /\ Head(r.p) = P /\ r.size = st[m + 2] /\ IsRx(r)
  BY <1>b, <1>g, <1>p DEF InBody, Copied
<1>4. Len(r.buf) = at /\ SubSeq(w, 1, at) \o SubSeq(w, at + 1, d) = SubSeq(w, 1, d) /\ Len(SubSeq(w, 1, d)) = d
  <2>1. \A n \in 0 .. Len(w) : Len(SubSeq(w, 1, n)) = n
    <3>1. ASSUME NEW n \in 0 .. Len(w) PROVE Len(SubSeq(w, 1, n)) = n
      <4>1. \A i \in 1 .. n : w[i] \in U
        <5>1. \A i \in 1 .. n : i \in 1 .. Len(w)
          BY <1>0
        <5> QED BY <1>0, <5>1, ElementOfSeq
      <4>2. Len(SubSeq(w, 1, n)) = IF 1 <= n THEN n - 1 + 1 ELSE 0
        <5>1. 1 \in Int /\ n \in Int
          BY <1>0
        <5> QED BY <4>1, <5>1, SubSeqProperties
      <4> QED BY <1>0, <4>2
    <3> QED BY <3>1
  <2>2. at \in 0 .. Len(w) /\ d \in 0 .. Len(w) /\ 1 \in 1 .. Len(w) + 1 /\ at \in 1 - 1 .. Len(w) /\ d \in at .. Len(w)
    BY <1>0
  <2>3. SubSeq(w, 1, at) \o SubSeq(w, at + 1, d) = SubSeq(w, 1, d)
    BY <1>0, <2>2, ConcatAdjacentSubSeq
  <2> QED BY <1>3, <2>1, <2>2, <2>3
<1>f. PICK buf : buf = r.buf \o chunk
  OBVIOUS
<1>5. buf = SubSeq(w, 1, d) /\ Len(buf) = d
  BY <1>f, <1>3, <1>4
<1>6. CASE d > st[m + 2]
  <2>1. Len(r.buf \o chunk) > r.size
    BY <1>f, <1>3, <1>5, <1>6
  <2> QED BY <1>3, <1>6, <2>1, BodyFails
<1>7. CASE ~(d > st[m + 2])
  <2>1. ~(Len(buf) > r.size)
    BY <1>3, <1>5, <1>7
  <2>2. /\ IsRx(s) /\ Same(r, s) /\ s.buf = buf
        /\ s.sha = r.sha \o SubSeq(buf, Max({at + 1, P.dataStart}), Min({Len(buf), P.dataEnd}))
        /\ s.crc = r.crc \o SubSeq(buf, Max({at + 1, P.start}), Min({Len(buf), P.crcStart - 1}))
    <3>1. at = Len(r.buf) /\ P = Head(r.p) /\ IsRx(r)
      BY <1>3, <1>4
    <3>2. Bodied(r, s, buf, at, P)
      BY <1>f, <2>1, <3>1, BodyIs
    <3> QED BY <3>2 DEF Bodied
  <2>3. s.sha = SubSeq(w, P.dataStart, Min({d, P.dataEnd}))
    <3>f. PICK first : first = P.dataStart
      OBVIOUS
    <3>l. PICK last : last = P.dataEnd
      OBVIOUS
    <3>1. d \in 0 .. Len(w) /\ first \in Nat \ {0} /\ last \in Nat
      BY <1>2, <3>f, <3>l
    <3>2. Meets(w, at, d, first, last)
      BY <1>0, <3>1, SliceGrows, SMTT(60)
    <3> QED BY <1>3, <1>5, <2>2, <3>f, <3>l, <3>2 DEF Meets
  <2>4. s.crc = SubSeq(w, P.start, Min({d, P.crcStart - 1}))
    <3>f. PICK first : first = P.start
      OBVIOUS
    <3>l. PICK last : last = P.crcStart - 1
      OBVIOUS
    <3>1. d \in 0 .. Len(w) /\ first \in Nat \ {0} /\ last \in Nat
      BY <1>2, <3>f, <3>l, SMTT(60)
    <3>2. Meets(w, at, d, first, last)
      BY <1>0, <3>1, SliceGrows
    <3> QED BY <1>3, <1>5, <2>2, <3>f, <3>l, <3>2 DEF Meets
  <2>5. Copied(s, w, bs, st, m, d)
    BY <1>b, <1>g, <1>p, <1>5, <2>2, <2>3, <2>4 DEF Copied
  <2>6. d <= st[m + 2]
    BY <1>0, <1>1, <1>7
  <2> QED BY <1>7, <2>2, <2>5, <2>6 DEF InBody, Same
<1> QED
  BY <1>6, <1>7

\* It is looking for the payload, m blocks read.
InHead(r, w, bs, st, m, d) ==
  /\ IsRx(r) /\ r.state = "head" /\ m \in 0 .. Len(bs) /\ NoneUpto(bs, m)
  /\ r.head = SubSeq(w, 1, d) /\ r.next = st[m + 1] /\ r.raws = SubSeq(bs, 1, m)
  /\ r.buf = <<>> /\ r.sha = <<>> /\ r.crc = <<>>

\* The next block is not all there.
Stuck(bs, st, m, d) == IF m < Len(bs) THEN st[m + 2] > d + 1 ELSE st[m + 1] > d

\* There is no payload, one that does not read, or more behind it than the end.
Hopeless(w, bs, st) ==
  \/ NoneUpto(bs, Len(bs))
  \/ \E m \in 1 .. Len(bs) - 1 : PayloadAfter(bs, m) /\ (bs[m + 1].shape # "ok" \/ Len(w) > st[m + 2])

Lost(r, w, bs, st) == IsRx(r) /\ r.state = "failed" /\ Hopeless(w, bs, st)

ScanOutcome(r, s, w, bs, st, m, d) ==
  \/ s = r /\ Stuck(bs, st, m, d)
  \/ Lost(s, w, bs, st)
  \/ InBody(s, w, bs, st, m, d)
  \/ m < Len(bs) /\ ~Stuck(bs, st, m, d) /\ InHead(s, w, bs, st, m + 1, d)

\* The receiver before a payload's first cells.
LEMMA BodyBegins ==
  ASSUME NEW bs, AreBlocks(bs), NEW w, NEW st, Laid(w, bs, st), NEW r, NEW m, NEW d \in 0 .. Len(w),
         InHead(r, w, bs, st, m, d), PayloadAfter(bs, m), bs[m + 1].shape = "ok",
         NEW s, s = [r EXCEPT !.state = "body", !.size = st[m + 2], !.p = <<PlaceOf(bs[m + 1], st[m + 1])>>]
  PROVE  InBody(s, w, bs, st, m, 0)
<1>b. PICK b : b = bs[m + 1]
  OBVIOUS
<1>g. PICK g : g = st[m + 1]
  OBVIOUS
<1>1. b.data \in Seq(ToSet(b.data)) /\ Len(b.data) \in Nat /\ g \in Nat /\ g >= 2 /\ st[m + 2] \in Nat
  <2>1. m + 1 \in 1 .. Len(bs) /\ m + 1 \in 1 .. Len(bs) + 1 /\ m + 2 \in 1 .. Len(bs) + 1
    BY SMTT(60) DEF AreBlocks, PayloadAfter
  <2>2. IsBlock(b) /\ b.type = Payload
    BY <1>b, <2>1 DEF AreBlocks, PayloadAfter
  <2>3. b.data \in Seq(ToSet(b.data))
    BY <2>2 DEF IsBlock
  <2>4. Len(b.data) \in Nat
    BY <2>3
  <2> QED BY <1>g, <2>1, <2>3, <2>4 DEF Laid, Starts
<1>p. PICK P : P = PlaceOf(b, g)
  OBVIOUS
<1>2. P.dataStart \in Nat /\ P.dataStart > 0 /\ P.dataEnd \in Nat /\ P.start \in Nat /\ P.start > 0
      /\ P.crcStart - 1 \in Nat
  <2>n. PICK n : n = Len(b.data)
    OBVIOUS
  <2>1. P.dataStart = g + 2 /\ P.dataEnd = g + 2 + n - 1 /\ P.start = g /\ P.crcStart = g + 2 + n
    BY <1>p, <2>n DEF PlaceOf
  <2>2. n \in Nat
    BY <1>1, <2>n
  <2> QED BY <1>1, <2>1, <2>2, SMTT(60)
<1>3. DOMAIN r = RxFields
  BY DEF InHead, IsRx
<1>4. s = [f \in RxFields |-> IF f = "state" THEN "body" ELSE IF f = "size" THEN st[m + 2]
                              ELSE IF f = "p" THEN <<P>> ELSE r[f]]
  BY <1>b, <1>g, <1>p, <1>3 DEF RxFields
<1>5. IsRx(s)
  BY <1>4 DEF IsRx
<1>6. s.state = "body" /\ s.size = st[m + 2] /\ s.p = <<P>> /\ s.raws = r.raws /\ s.buf = r.buf
      /\ s.sha = r.sha /\ s.crc = r.crc
  BY <1>4 DEF RxFields
<1>7. \A f, l \in Nat : f > 0 => SubSeq(w, f, Min({0, l})) = <<>>
  <2>1. ASSUME NEW f \in Nat, NEW l \in Nat, f > 0 PROVE SubSeq(w, f, Min({0, l})) = <<>>
    <3>1. Min({0, l}) = 0
      <4>1. Min({0, l}) = IF 0 <= l THEN 0 ELSE l
        BY MinOfTwo, SMTT(60)
      <4> QED BY <4>1
    <3>2. SubSeq(w, f, 0) = <<>>
      BY <2>1, SubSeqEmpty
    <3> QED BY <3>1, <3>2
  <2> QED BY <2>1
<1>8. SubSeq(w, 1, 0) = <<>>
  BY SubSeqEmpty, SMTT(60)
<1>9. Copied(s, w, bs, st, m, 0)
  <2>1. s.sha = SubSeq(w, P.dataStart, Min({0, P.dataEnd}))
    BY <1>2, <1>6, <1>7 DEF InHead
  <2>2. s.crc = SubSeq(w, P.start, Min({0, P.crcStart - 1}))
    BY <1>2, <1>6, <1>7 DEF InHead
  <2>3. s.buf = SubSeq(w, 1, 0)
    BY <1>6, <1>8 DEF InHead
  <2> QED BY <1>b, <1>g, <1>p, <2>1, <2>2, <2>3 DEF Copied
<1> QED
  BY <1>b, <1>g, <1>p, <1>1, <1>5, <1>6, <1>9, SMTT(60) DEF InBody, InHead

\* A turn that has nothing to read.
LEMMA ScanWaits ==
  ASSUME NEW r, r.state # "head" \/ (r.next \in Int /\ Len(r.head) \in Int /\ r.next > Len(r.head))
  PROVE  ScanStep(r) = r
  BY DEF ScanStep

\* One turn.
LEMMA ScanGoes ==
  ASSUME NEW bs, AreBlocks(bs), NEW w, NEW st, Laid(w, bs, st), NEW r, NEW m, NEW d \in 0 .. Len(w),
         InHead(r, w, bs, st, m, d), NEW s, s = ScanStep(r)
  PROVE  ScanOutcome(r, s, w, bs, st, m, d)
<1>n. PICK n : n = Len(bs)
  OBVIOUS
<1>l. PICK L : L = Len(w)
  OBVIOUS
<1>g. PICK g : g = st[m + 1]
  OBVIOUS
<1>b. PICK b : b = bs[m + 1]
  OBVIOUS
<1>0. /\ n \in Nat /\ L \in Nat /\ m \in 0 .. n /\ d \in 0 .. L /\ g \in Nat /\ g >= 2
      /\ w \in Seq(ToSet(w)) /\ bs \in Seq(ToSet(bs))
  <2>1. n \in Nat /\ L \in Nat /\ m \in 0 .. n
    BY <1>n, <1>l DEF AreBlocks, Laid, InHead
  <2>2. m + 1 \in 1 .. n + 1
    BY <2>1
  <2> QED BY <1>n, <1>l, <1>g, <2>1, <2>2 DEF AreBlocks, Laid, Starts
<1>1. ASSUME m < n
      PROVE  /\ m + 1 \in 1 .. n /\ IsBlock(b) /\ Width(b) \in Nat /\ Width(b) >= 2 /\ st[m + 2] = g + Width(b)
             /\ (d < L + 1 /\ g <= d => w[g] = [block |-> b, k |-> 1])
  <2>1. m + 1 \in 1 .. n /\ m + 1 + 1 = m + 2
    BY <1>0, <1>1
  <2>2. IsBlock(b)
    BY <1>n, <1>b, <2>1 DEF AreBlocks
  <2>3. Width(b) \in Nat /\ Width(b) >= 2
    BY <2>2, WidthIs
  <2>4. st[m + 2] = g + Width(b)
    BY <1>n, <1>g, <1>b, <2>1 DEF Laid, Starts
  <2>5. ASSUME g <= d PROVE w[g] = [block |-> b, k |-> 1]
    <3>1. 1 \in 1 .. Width(b) /\ g + 1 - 1 = g /\ g <= L
      BY <1>0, <2>3, <2>5
    <3> QED BY <1>n, <1>l, <1>g, <1>b, <2>1, <3>1 DEF Laid, CellsAt
  <2> QED BY <2>1, <2>2, <2>3, <2>4, <2>5
<1>2. EndsAt(w, st[n + 1])
  BY <1>n DEF Laid
<1>3. Len(r.head) = d /\ DOMAIN r.head = 1 .. d /\ \A i \in 1 .. d : r.head[i] = w[i]
  <2>1. \A i \in 1 .. d : w[i] \in ToSet(w)
    <3>1. \A i \in 1 .. d : i \in 1 .. Len(w)
      BY <1>0, <1>l
    <3> QED BY <1>0, <3>1, ElementOfSeq
  <2>h. PICK h : h = SubSeq(w, 1, d)
    OBVIOUS
  <2>2. h \in Seq(ToSet(w)) /\ Len(h) = (IF 1 <= d THEN d - 1 + 1 ELSE 0)
        /\ \A i \in 1 .. d - 1 + 1 : h[i] = w[1 + i - 1]
    <3>1. 1 \in Int /\ d \in Int
      BY <1>0
    <3> QED BY <2>h, <2>1, <3>1, SubSeqProperties
  <2>3. Len(h) = d /\ \A i \in 1 .. d : h[i] = w[i]
    <3>1. \A i \in 1 .. d : i \in 1 .. d - 1 + 1 /\ 1 + i - 1 = i
      BY <1>0
    <3> QED BY <1>0, <2>2, <3>1
  <2>4. DOMAIN h = 1 .. d
    BY <2>2, <2>3
  <2> QED BY <2>h, <2>3, <2>4 DEF InHead
<1>4. r.next = g /\ r.state = "head" /\ IsRx(r) /\ r.raws = SubSeq(bs, 1, m) /\ NoneUpto(bs, m)
  BY <1>g DEF InHead
<1>5. CASE g > d
  <2>1. r.next \in Int /\ Len(r.head) \in Int /\ r.next > Len(r.head)
    BY <1>0, <1>3, <1>4, <1>5
  <2>x. s = r
    BY <2>1, ScanWaits
  <2>2. Stuck(bs, st, m, d)
    <3>1. CASE m < n
      BY <1>0, <1>1, <1>5, <1>n, <3>1 DEF Stuck
    <3>2. CASE ~(m < n)
      BY <1>0, <1>5, <1>n, <1>g, <3>2 DEF Stuck
    <3> QED BY <3>1, <3>2
  <2> QED BY <2>x, <2>2 DEF ScanOutcome
<1>6. CASE ~(g > d) /\ m = n
  <2>1. w[g] = Close
    BY <1>0, <1>2, <1>6, <1>n, <1>l, <1>g DEF EndsAt
  <2>2. g \in 1 .. d
    BY <1>0, <1>6
  <2>3. s = Failed(r)
    BY <1>3, <1>4, <1>6, <2>1, <2>2 DEF ScanStep
  <2>4. Hopeless(w, bs, st)
    BY <1>4, <1>6, <1>n DEF Hopeless
  <2> QED BY <1>4, <2>3, <2>4, FailedIs DEF ScanOutcome, Lost
<1>7. CASE ~(g > d) /\ m < n
  <2>0. g \in 1 .. d /\ g <= d /\ d < L + 1
    BY <1>0, <1>7
  <2>1. w[g] = [block |-> b, k |-> 1] /\ r.head[g] = w[g]
    BY <1>1, <1>3, <1>7, <2>0
  <2>2. r.head[g].block = b /\ r.head[g] # Close
    <3>1. w[g].k = 1 /\ w[g].block = b /\ Close.k = -1
      BY <2>1 DEF Close
    <3> QED BY <2>1, <3>1
  <2>3. s = IF r.raws # <<>> /\ b.type = Payload
            THEN IF r.next + 1 > Len(r.head) THEN r
                 ELSE IF b.shape # "ok" THEN Failed(r)
                 ELSE Body([r EXCEPT !.state = "body", !.size = r.next + Width(b) - 1 + 1,
                              !.p = <<[block |-> b, start |-> r.next, dataStart |-> r.next + 2,
                                       dataEnd |-> r.next + 2 + Len(b.data) - 1,
                                       crcStart |-> r.next + 2 + Len(b.data), end |-> r.next + Width(b) - 1]>>],
                           r.head)
            ELSE IF ~WholeAt(r.head, r.next) THEN r
            ELSE [r EXCEPT !.raws = Append(@, b), !.next = r.next + Width(b) - 1 + 1]
    BY <1>3, <1>4, <2>0, <2>2 DEF ScanStep
  <2>4. r.raws # <<>> <=> m >= 1
    <3>1. CASE m = 0
      BY <1>4, <3>1, SubSeqEmpty
    <3>2. CASE m # 0
      <4>1. Len(SubSeq(bs, 1, m)) = m
        <5>1. \A i \in 1 .. m : bs[i] \in ToSet(bs)
          <6>1. \A i \in 1 .. m : i \in 1 .. Len(bs)
            BY <1>0, <1>n
          <6> QED BY <1>0, <6>1, ElementOfSeq
        <5>2. Len(SubSeq(bs, 1, m)) = IF 1 <= m THEN m - 1 + 1 ELSE 0
          <6>1. 1 \in Int /\ m \in Int
            BY <1>0
          <6> QED BY <5>1, <6>1, SubSeqProperties
        <5> QED BY <1>0, <5>2
      <4>q. PICK q : q = SubSeq(bs, 1, m)
        OBVIOUS
      <4>2. q # <<>>
        BY <3>2, <4>q, <4>1
      <4>3. r.raws = q
        BY <1>4, <4>q
      <4> QED BY <1>0, <3>2, <4>2, <4>3
    <3> QED BY <1>0, <3>1, <3>2
  <2>5. /\ m + 1 \in 1 .. n /\ Width(b) \in Nat /\ Width(b) >= 2 /\ st[m + 2] = g + Width(b)
    BY <1>1, <1>7
  <2>6. CASE m >= 1 /\ b.type = Payload
    <3>1. PayloadAfter(bs, m)
      BY <1>0, <1>4, <1>7, <1>n, <1>b, <2>6 DEF PayloadAfter
    <3>2. CASE g + 1 > d
      <4>1. s = r
        BY <1>3, <1>4, <2>3, <2>4, <2>6, <3>2
      <4>2. Stuck(bs, st, m, d)
        BY <1>0, <1>7, <1>n, <2>5, <3>2 DEF Stuck
      <4> QED BY <4>1, <4>2 DEF ScanOutcome
    <3>3. CASE ~(g + 1 > d) /\ b.shape # "ok"
      <4>1. s = Failed(r)
        BY <1>3, <1>4, <2>3, <2>4, <2>6, <3>3
      <4>2. Hopeless(w, bs, st)
        BY <1>b, <3>1, <3>3 DEF Hopeless, PayloadAfter
      <4> QED BY <1>4, <4>1, <4>2, FailedIs DEF ScanOutcome, Lost
    <3>4. CASE ~(g + 1 > d) /\ b.shape = "ok"
      <4>r. PICK r0 : r0 = [r EXCEPT !.state = "body", !.size = st[m + 2], !.p = <<PlaceOf(b, g)>>]
        OBVIOUS
      <4>1. s = Body(r0, r.head)
        <5>1. r.next + Width(b) - 1 + 1 = st[m + 2]
          BY <1>0, <1>4, <2>5
        <5>2. PlaceOf(b, g) = [block |-> b, start |-> r.next, dataStart |-> r.next + 2,
                                       dataEnd |-> r.next + 2 + Len(b.data) - 1,
                                       crcStart |-> r.next + 2 + Len(b.data), end |-> r.next + Width(b) - 1]
          BY <1>4 DEF PlaceOf
        <5>3. s = Body([r EXCEPT !.state = "body", !.size = r.next + Width(b) - 1 + 1,
                              !.p = <<[block |-> b, start |-> r.next, dataStart |-> r.next + 2,
                                       dataEnd |-> r.next + 2 + Len(b.data) - 1,
                                       crcStart |-> r.next + 2 + Len(b.data), end |-> r.next + Width(b) - 1]>>],
                           r.head)
          BY <1>3, <1>4, <2>3, <2>4, <2>6, <3>4, SMTT(60)
        <5> QED BY <4>r, <5>1, <5>2, <5>3
      <4>2. InBody(r0, w, bs, st, m, 0)
        BY <1>b, <1>g, <3>1, <3>4, <4>r, BodyBegins
      <4>3. r.head = SubSeq(w, 0 + 1, d)
        BY DEF InHead
      <4>4. 0 \in 0 .. d
        BY <1>0
      <4>5. IF d > st[m + 2] THEN IsRx(s) /\ s.state = "failed" ELSE InBody(s, w, bs, st, m, d)
        BY <4>1, <4>2, <4>3, <4>4, BodyGoes
      <4>6. CASE d > st[m + 2]
        <5>1. Len(w) > st[m + 2]
          BY <1>0, <1>l, <2>5, <4>6
        <5>2. Hopeless(w, bs, st)
          BY <3>1, <5>1 DEF Hopeless, PayloadAfter
        <5> QED BY <4>5, <4>6, <5>2 DEF ScanOutcome, Lost
      <4>7. CASE ~(d > st[m + 2])
        BY <4>5, <4>7 DEF ScanOutcome
      <4> QED BY <4>6, <4>7
    <3> QED BY <3>2, <3>3, <3>4
  <2>7. CASE ~(m >= 1 /\ b.type = Payload)
    <3>1. WholeAt(r.head, r.next) <=> g + Width(b) - 1 <= d
      BY <1>3, <1>4, <2>0, <2>2 DEF WholeAt
    <3>2. CASE ~(g + Width(b) - 1 <= d)
      <4>1. s = r
        BY <2>3, <2>4, <2>7, <3>1, <3>2
      <4>2. Stuck(bs, st, m, d)
        BY <1>0, <1>7, <1>n, <2>5, <3>2, SMTT(60) DEF Stuck
      <4> QED BY <4>1, <4>2 DEF ScanOutcome
    <3>3. CASE g + Width(b) - 1 <= d
      <4>1. s = [r EXCEPT !.raws = Append(@, b), !.next = r.next + Width(b) - 1 + 1]
        BY <2>3, <2>4, <2>7, <3>1, <3>3
      <4>2. DOMAIN r = RxFields
        BY <1>4 DEF IsRx
      <4>3. s = [f \in RxFields |-> IF f = "raws" THEN Append(r.raws, b)
                              ELSE IF f = "next" THEN r.next + Width(b) - 1 + 1 ELSE r[f]]
        BY <4>1, <4>2 DEF RxFields
      <4>4. IsRx(s)
        BY <4>3 DEF IsRx
      <4>5. /\ s.raws = Append(r.raws, b) /\ s.next = r.next + Width(b) - 1 + 1
            /\ s.state = r.state /\ s.head = r.head /\ s.buf = r.buf /\ s.sha = r.sha /\ s.crc = r.crc
        BY <4>3 DEF RxFields
      <4>6. s.next = st[(m + 1) + 1]
        <5>1. (m + 1) + 1 = m + 2 /\ g + Width(b) - 1 + 1 = g + Width(b)
          BY <1>0, <2>5
        <5> QED BY <1>4, <2>5, <4>5, <5>1
      <4>7. s.raws = SubSeq(bs, 1, m + 1)
        <5>1. SubSeq(bs, 1, m + 1) = SubSeq(bs, 1, (m + 1) - 1) \o <<bs[m + 1]>>
          <6>1. 1 \in 1 .. Len(bs) /\ m + 1 \in 1 .. Len(bs)
            BY <1>0, <1>7, <1>n
          <6> QED BY <1>0, <6>1, SubSeqRecursiveSecond
        <5>2. (m + 1) - 1 = m
          BY <1>0
        <5>3. SubSeq(bs, 1, m) \in Seq(ToSet(bs)) /\ b \in ToSet(bs)
          <6>1. \A i \in 1 .. m : bs[i] \in ToSet(bs)
            <7>1. \A i \in 1 .. m : i \in 1 .. Len(bs)
              BY <1>0, <1>n
            <7> QED BY <1>0, <7>1, ElementOfSeq
          <6>2. 1 \in Int /\ m \in Int /\ m + 1 \in 1 .. Len(bs)
            BY <1>0, <1>7, <1>n
          <6>3. SubSeq(bs, 1, m) \in Seq(ToSet(bs))
            BY <6>1, <6>2, SubSeqProperties
          <6> QED BY <1>0, <1>b, <6>2, <6>3, ElementOfSeq
        <5>4. Append(SubSeq(bs, 1, m), b) = SubSeq(bs, 1, m) \o <<b>>
          BY <5>3, AppendIsConcat
        <5> QED BY <1>b, <1>4, <4>5, <5>1, <5>2, <5>4
      <4>8. NoneUpto(bs, m + 1)
        <5>1. ASSUME NEW i \in 2 .. m + 1 PROVE bs[i].type # Payload
          <6>1. i \in 2 .. m \/ (i = m + 1 /\ m >= 1)
            BY <1>0
          <6> QED BY <1>4, <1>b, <2>7, <6>1 DEF NoneUpto
        <5> QED BY <5>1 DEF NoneUpto
      <4>9. ~Stuck(bs, st, m, d)
        BY <1>0, <1>7, <1>n, <2>5, <3>3, SMTT(60) DEF Stuck
      <4>10. InHead(s, w, bs, st, m + 1, d)
        <5>1. m + 1 \in 0 .. Len(bs)
          BY <1>0, <1>7, <1>n
        <5> QED BY <4>4, <4>5, <4>6, <4>7, <4>8, <5>1 DEF InHead
      <4> QED BY <1>7, <1>n, <4>9, <4>10 DEF ScanOutcome
    <3> QED BY <3>2, <3>3
  <2> QED BY <2>6, <2>7
<1> QED
  BY <1>0, <1>5, <1>6, <1>7

\* The turns of a scan, from what has come.
ScanRun(r, turns, h) == h[0] = r /\ \A i \in 1 .. turns : h[i] = ScanStep(h[i - 1])

\* The function by which a push scans exists.
LEMMA ScanRuns ==
  ASSUME NEW r, r.state = "head", NEW chunk, Len(r.head) + Len(chunk) \in Nat
  PROVE  \E h : /\ ScanRun([r EXCEPT !.head = @ \o chunk], Len(r.head) + Len(chunk), h)
                /\ Push(r, chunk) = h[Len(r.head) + Len(chunk)]
<1> DEFINE N == Len(r.head) + Len(chunk)
           R == [r EXCEPT !.head = @ \o chunk]
           Turns(g) == [i \in 0 .. N |-> IF i = 0 THEN R ELSE ScanStep(g[i - 1])]
           at == CHOOSE g : g = Turns(g)
           Upto(m, h) == h[0] = R /\ \A i \in 1 .. m : h[i] = ScanStep(h[i - 1])
           P == {m \in Nat : \E h : h = [i \in 0 .. m |-> h[i]] /\ Upto(m, h)}
<1>0. N \in Nat
  OBVIOUS
<1>1. 0 \in P
  <2> PICK f : f = [i \in 0 .. 0 |-> R]
    OBVIOUS
  <2>1. f = [i \in 0 .. 0 |-> f[i]] /\ f[0] = R
    <3> HIDE DEF R
    <3> QED OBVIOUS
  <2>2. Upto(0, f)
    <3> HIDE DEF R
    <3> QED BY <2>1
  <2> HIDE DEF Upto
  <2> QED BY <2>1, <2>2
<1>2. ASSUME NEW m \in Nat, m \in P PROVE m + 1 \in P
  <2>1. PICK h : h = [i \in 0 .. m |-> h[i]] /\ Upto(m, h)
    <3> HIDE DEF Upto
    <3> QED BY <1>2
  <2> PICK f : f = [i \in 0 .. m + 1 |-> IF i <= m THEN h[i] ELSE ScanStep(h[i - 1])]
    OBVIOUS
  <2>2. \A i \in 0 .. m : f[i] = h[i]
    OBVIOUS
  <2>3. f[m + 1] = ScanStep(h[m])
    OBVIOUS
  <2>4. \A i \in 1 .. m + 1 : f[i] = ScanStep(f[i - 1])
    <3>1. SUFFICES ASSUME NEW i \in 1 .. m + 1 PROVE f[i] = ScanStep(f[i - 1])
      OBVIOUS
    <3>2. f[i - 1] = h[i - 1]
      BY <2>2
    <3>3. CASE i <= m
      <4>1. i \in 1 .. m /\ i \in 0 .. m
        BY <3>3
      <4>2. h[i] = ScanStep(h[i - 1])
        <5> HIDE DEF R
        <5> QED BY <2>1, <4>1
      <4> QED BY <2>2, <3>2, <4>1, <4>2
    <3>4. CASE i = m + 1
      BY <2>3, <3>2, <3>4
    <3> QED BY <3>3, <3>4
  <2>5. Upto(m + 1, f) /\ f = [i \in 0 .. m + 1 |-> f[i]]
    <3> HIDE DEF R
    <3>1. f[0] = R
      BY <2>1, <2>2
    <3> QED BY <2>4, <3>1
  <2> HIDE DEF Upto
  <2> QED BY <2>5
<1>3. PICK h : h = [i \in 0 .. N |-> h[i]] /\ Upto(N, h)
  <2>1. N \in P
    <3> HIDE DEF P, N
    <3> QED BY <1>0, <1>1, <1>2, Induction
  <2> HIDE DEF Upto, N
  <2> QED BY <2>1
<1>4. h = Turns(h)
  <2>1. \A i \in 0 .. N : h[i] = IF i = 0 THEN R ELSE ScanStep(h[i - 1])
    <3>1. \A i \in 0 .. N : i = 0 \/ i \in 1 .. N
      BY <1>0
    <3> HIDE DEF N, R
    <3> QED BY <1>3, <3>1
  <2>2. Turns(h) = [i \in 0 .. N |-> h[i]]
    <3> HIDE DEF N, R
    <3> QED BY <2>1
  <2> HIDE DEF Turns, N, R
  <2> QED BY <1>3, <2>2
<1>5. at = Turns(at)
  <2> HIDE DEF Turns
  <2> QED BY <1>4
<1>6. Push(r, chunk) = at[N]
  BY DEF Push
<1>7. \A i \in 0 .. N : at[i] = Turns(at)[i]
  <2> HIDE DEF at, Turns
  <2> QED BY <1>5
<1>8. at[0] = R /\ \A i \in 1 .. N : at[i] = ScanStep(at[i - 1])
  <2> HIDE DEF at, R
  <2>1. at[0] = R
    <3>1. 0 \in 0 .. N
      BY <1>0
    <3> HIDE DEF N
    <3> QED BY <1>7, <3>1
  <2>2. ASSUME NEW i \in 1 .. N PROVE at[i] = ScanStep(at[i - 1])
    <3>1. i \in 0 .. N /\ i # 0
      BY <1>0
    <3> HIDE DEF N
    <3> QED BY <1>7, <3>1
  <2> QED BY <2>1, <2>2
<1> HIDE DEF at
<1> QED
  BY <1>6, <1>8 DEF ScanRun

\* What a receiver has of d cells.
RxAt(r, w, bs, st, d) ==
  \/ Lost(r, w, bs, st)
  \/ \E m : InBody(r, w, bs, st, m, d)
  \/ \E m : InHead(r, w, bs, st, m, d) /\ Stuck(bs, st, m, d)

\* The same within a scan, after i turns.
ScanAt(r, w, bs, st, d, i) ==
  \/ Lost(r, w, bs, st)
  \/ \E m : InBody(r, w, bs, st, m, d)
  \/ \E m : InHead(r, w, bs, st, m, d) /\ (Stuck(bs, st, m, d) \/ st[m + 1] >= 2 + i)

\* A turn takes it further, or it is at its end.
LEMMA TurnGoes ==
  ASSUME NEW bs, AreBlocks(bs), NEW w, NEW st, Laid(w, bs, st), NEW r, NEW d \in 0 .. Len(w), NEW i \in Nat,
         ScanAt(r, w, bs, st, d, i), NEW s, s = ScanStep(r)
  PROVE  ScanAt(s, w, bs, st, d, i + 1)
<1>1. CASE Lost(r, w, bs, st)
  <2>1. r.state # "head"
    BY <1>1 DEF Lost
  <2> QED BY <1>1, <2>1, ScanWaits DEF ScanAt
<1>2. ASSUME NEW m, InBody(r, w, bs, st, m, d) PROVE ScanAt(s, w, bs, st, d, i + 1)
  <2>1. r.state # "head"
    BY <1>2 DEF InBody
  <2> QED BY <1>2, <2>1, ScanWaits DEF ScanAt
<1>3. ASSUME NEW m, InHead(r, w, bs, st, m, d), Stuck(bs, st, m, d) \/ st[m + 1] >= 2 + i
      PROVE ScanAt(s, w, bs, st, d, i + 1)
  <2>1. ScanOutcome(r, s, w, bs, st, m, d)
    BY <1>3, ScanGoes
  <2>2. CASE s = r /\ Stuck(bs, st, m, d)
    BY <1>3, <2>2 DEF ScanAt
  <2>3. CASE Lost(s, w, bs, st) \/ InBody(s, w, bs, st, m, d)
    BY <2>3 DEF ScanAt
  <2>4. CASE m < Len(bs) /\ ~Stuck(bs, st, m, d) /\ InHead(s, w, bs, st, m + 1, d)
    <3>1. m \in Nat /\ Len(bs) \in Nat
      BY <1>3 DEF InHead, AreBlocks
    <3>2. m + 1 \in 1 .. Len(bs) /\ (m + 1) + 1 = m + 2
      BY <2>4, <3>1
    <3>3. st[(m + 1) + 1] = st[m + 1] + Width(bs[m + 1]) /\ st[m + 1] \in Nat
      <4>1. m + 1 \in 1 .. Len(bs) + 1
        BY <3>1, <3>2
      <4> QED BY <3>2, <4>1 DEF Laid, Starts
    <3>4. Width(bs[m + 1]) \in Nat /\ Width(bs[m + 1]) >= 2
      <4>1. IsBlock(bs[m + 1])
        BY <3>2 DEF AreBlocks
      <4> QED BY <4>1, WidthIs
    <3>5. st[m + 1] >= 2 + i
      BY <1>3, <2>4
    <3>6. st[(m + 1) + 1] >= 2 + (i + 1)
      BY <3>3, <3>4, <3>5
    <3> QED BY <2>4, <3>6 DEF ScanAt
  <2> QED BY <2>1, <2>2, <2>3, <2>4 DEF ScanOutcome
<1> QED
  BY <1>1, <1>2, <1>3 DEF ScanAt

\* A push leaves the receiver with all that came.
LEMMA PushGoes ==
  ASSUME NEW bs, AreBlocks(bs), NEW w, NEW st, Laid(w, bs, st), NEW r, NEW d \in 0 .. Len(w), RxAt(r, w, bs, st, d),
         NEW e \in d .. Len(w), NEW s, s = Push(r, SubSeq(w, d + 1, e))
  PROVE  RxAt(s, w, bs, st, e)
<1>c. PICK chunk : chunk = SubSeq(w, d + 1, e)
  OBVIOUS
<1>0. w \in Seq(ToSet(w)) /\ Len(w) \in Nat /\ d \in Nat /\ e \in Nat /\ d <= e /\ e <= Len(w)
      /\ e \in 0 .. Len(w) /\ d \in 0 .. e
  BY DEF Laid
<1>1. CASE Lost(r, w, bs, st)
  <2>1. r.state = "failed"
    BY <1>1 DEF Lost
  <2>2. s = r
    BY <2>1 DEF Push
  <2> QED BY <1>1, <2>2 DEF RxAt
<1>2. ASSUME NEW m, InBody(r, w, bs, st, m, d) PROVE RxAt(s, w, bs, st, e)
  <2>1. r.state = "body"
    BY <1>2 DEF InBody
  <2>2. s = Body(r, chunk)
    BY <1>c, <2>1 DEF Push
  <2>3. IF e > st[m + 2] THEN IsRx(s) /\ s.state = "failed" ELSE InBody(s, w, bs, st, m, e)
    BY <1>c, <1>0, <1>2, <2>2, BodyGoes
  <2>4. CASE e > st[m + 2]
    <3>1. PayloadAfter(bs, m)
      BY <1>2 DEF InBody
    <3>2. m + 2 \in 1 .. Len(bs) + 1
      BY <3>1 DEF PayloadAfter, AreBlocks
    <3>3. st[m + 2] \in Nat
      BY <3>2 DEF Laid, Starts
    <3>4. Len(w) > st[m + 2]
      BY <1>0, <2>4, <3>3
    <3>5. Hopeless(w, bs, st)
      BY <3>1, <3>4 DEF Hopeless, PayloadAfter
    <3> QED BY <2>3, <2>4, <3>5 DEF RxAt, Lost
  <2>5. CASE ~(e > st[m + 2])
    BY <2>3, <2>5 DEF RxAt
  <2> QED BY <2>4, <2>5
<1>3. ASSUME NEW m, InHead(r, w, bs, st, m, d) PROVE RxAt(s, w, bs, st, e)
  <2>1. r.state = "head" /\ r.head = SubSeq(w, 1, d) /\ IsRx(r)
    BY <1>3 DEF InHead
  <2>2. \A n \in 0 .. Len(w) : Len(SubSeq(w, 1, n)) = n
    <3>1. ASSUME NEW n \in 0 .. Len(w) PROVE Len(SubSeq(w, 1, n)) = n
      <4>1. \A i \in 1 .. n : w[i] \in ToSet(w)
        <5>1. \A i \in 1 .. n : i \in 1 .. Len(w)
          BY <1>0
        <5> QED BY <1>0, <5>1, ElementOfSeq
      <4>2. Len(SubSeq(w, 1, n)) = IF 1 <= n THEN n - 1 + 1 ELSE 0
        <5>1. 1 \in Int /\ n \in Int
          BY <1>0
        <5> QED BY <4>1, <5>1, SubSeqProperties
      <4> QED BY <1>0, <4>2
    <3> QED BY <3>1
  <2>3. SubSeq(w, 1, d) \o chunk = SubSeq(w, 1, e)
    <3>1. 1 \in 1 .. Len(w) + 1 /\ d \in 1 - 1 .. Len(w) /\ e \in d .. Len(w)
      BY <1>0
    <3> QED BY <1>c, <1>0, <3>1, ConcatAdjacentSubSeq
  <2>4. Len(r.head) = d /\ Len(chunk) = e - d
    <3>1. Len(r.head) = d
      BY <2>1, <2>2
    <3>2. Len(chunk) = IF d + 1 <= e THEN e - (d + 1) + 1 ELSE 0
      <4>1. \A i \in d + 1 .. e : w[i] \in ToSet(w)
        <5>1. \A i \in d + 1 .. e : i \in 1 .. Len(w)
          BY <1>0
        <5> QED BY <1>0, <5>1, ElementOfSeq
      <4>2. d + 1 \in Int /\ e \in Int
        BY <1>0
      <4> QED BY <1>c, <4>1, <4>2, SubSeqProperties
    <3> QED BY <1>0, <3>1, <3>2
  <2>5. Len(r.head) + Len(chunk) = e
    BY <1>0, <2>4
  <2>r. PICK r1 : r1 = [r EXCEPT !.head = @ \o chunk]
    OBVIOUS
  <2>6. PICK h : ScanRun(r1, e, h) /\ Push(r, chunk) = h[e]
    BY <1>0, <2>1, <2>5, <2>r, ScanRuns
  <2>7. InHead(r1, w, bs, st, m, e)
    <3>1. DOMAIN r = RxFields
      BY <2>1 DEF IsRx
    <3>2. r1 = [f \in RxFields |-> IF f = "head" THEN r.head \o chunk ELSE r[f]]
      BY <2>r, <3>1 DEF RxFields
    <3>3. IsRx(r1)
      BY <3>2 DEF IsRx
    <3>4. r1.head = r.head \o chunk /\ r1.state = r.state /\ r1.next = r.next /\ r1.raws = r.raws
          /\ r1.buf = r.buf /\ r1.sha = r.sha /\ r1.crc = r.crc
      BY <3>2 DEF RxFields
    <3> QED BY <1>3, <2>1, <2>3, <3>3, <3>4 DEF InHead
  <2>8. ScanAt(h[0], w, bs, st, e, 0)
    <3>1. m + 1 \in 1 .. Len(bs) + 1
      BY <1>3 DEF InHead, AreBlocks
    <3>2. st[m + 1] >= 2 + 0
      BY <3>1 DEF Laid, Starts
    <3>3. h[0] = r1
      BY <2>6 DEF ScanRun
    <3> QED BY <2>7, <3>2, <3>3 DEF ScanAt
  <2> DEFINE P == {i \in Nat : i <= e => ScanAt(h[i], w, bs, st, e, i)}
  <2>9. ASSUME NEW i \in Nat, i \in P PROVE i + 1 \in P
    <3>1. SUFFICES ASSUME i + 1 <= e PROVE ScanAt(h[i + 1], w, bs, st, e, i + 1)
      OBVIOUS
    <3>2. ScanAt(h[i], w, bs, st, e, i)
      BY <1>0, <2>9, <3>1
    <3>3. h[i + 1] = ScanStep(h[i])
      <4>1. i + 1 \in 1 .. e /\ (i + 1) - 1 = i
        BY <1>0, <3>1
      <4> QED BY <2>6, <4>1 DEF ScanRun
    <3> QED BY <1>0, <3>2, <3>3, TurnGoes
  <2>10. ScanAt(h[e], w, bs, st, e, e)
    <3>1. 0 \in P
      BY <2>8
    <3>2. e \in P
      <4> HIDE DEF P
      <4> QED BY <1>0, <2>9, <3>1, Induction
    <3> QED BY <1>0, <3>2
  <2>11. s = h[e]
    BY <1>c, <2>6
  <2>12. ASSUME NEW q, InHead(s, w, bs, st, q, e), st[q + 1] >= 2 + e PROVE Stuck(bs, st, q, e)
    <3>1. q \in 0 .. Len(bs) /\ Len(bs) \in Nat
      BY <2>12 DEF InHead, AreBlocks
    <3>2. q + 1 \in 1 .. Len(bs) + 1
      BY <3>1
    <3>3. st[q + 1] \in Nat
      BY <3>2 DEF Laid, Starts
    <3>4. CASE q < Len(bs)
      <4>1. q + 1 \in 1 .. Len(bs) /\ q + 2 \in 1 .. Len(bs) + 1 /\ (q + 1) + 1 = q + 2
        BY <3>1, <3>4
      <4>2. IsBlock(bs[q + 1])
        BY <4>1 DEF AreBlocks
      <4>3. st[q + 2] = st[q + 1] + Width(bs[q + 1]) /\ Width(bs[q + 1]) \in Nat
        BY <4>1, <4>2, WidthIs DEF Laid, Starts
      <4>4. st[q + 2] > e + 1
        BY <1>0, <2>12, <3>3, <4>3
      <4> QED BY <3>4, <4>4 DEF Stuck
    <3>5. CASE ~(q < Len(bs))
      <4>1. st[q + 1] > e
        BY <1>0, <2>12, <3>3
      <4> QED BY <3>5, <4>1 DEF Stuck
    <3> QED BY <3>4, <3>5
  <2> QED BY <2>10, <2>11, <2>12 DEF ScanAt, RxAt
<1> QED
  BY <1>1, <1>2, <1>3 DEF RxAt

\* It begins with nothing.
LEMMA NewRxAt ==
  ASSUME NEW bs, AreBlocks(bs), NEW w, NEW st, Laid(w, bs, st)
  PROVE  RxAt(NewReceiver, w, bs, st, 0)
<1>0. Len(bs) \in Nat /\ st[1] = 2
  BY DEF AreBlocks, Laid, Starts
<1>1. SubSeq(w, 1, 0) = <<>> /\ SubSeq(bs, 1, 0) = <<>>
  BY SubSeqEmpty
<1>2. InHead(NewReceiver, w, bs, st, 0, 0)
  <2>1. NoneUpto(bs, 0)
    BY DEF NoneUpto
  <2>2. 0 \in 0 .. Len(bs) /\ st[0 + 1] = 2
    BY <1>0
  <2> QED BY <1>1, <2>1, <2>2, NewIsRx DEF InHead, NewReceiver
<1>3. Stuck(bs, st, 0, 0)
  <2>1. CASE 0 < Len(bs)
    <3>1. 1 \in 1 .. Len(bs)
      BY <1>0, <2>1
    <3>2. IsBlock(bs[1])
      BY <3>1 DEF AreBlocks
    <3>3. st[2] = st[1] + Width(bs[1]) /\ Width(bs[1]) \in Nat /\ Width(bs[1]) >= 2
      BY <3>1, <3>2, WidthIs DEF Laid, Starts
    <3>4. st[0 + 2] > 0 + 1
      BY <1>0, <3>3
    <3> QED BY <2>1, <3>4 DEF Stuck
  <2>2. CASE ~(0 < Len(bs))
    <3>1. st[0 + 1] > 0
      BY <1>0
    <3> QED BY <2>2, <3>1 DEF Stuck
  <2> QED BY <2>1, <2>2
<1> QED
  BY <1>2, <1>3 DEF RxAt

-----------------------------------------------------------------------------
(* The fast path ends as the slow path does.                               *)

\* Two blocks of a type are more than one.
LEMMA TwoAreMore ==
  ASSUME NEW U, NEW bs \in Seq(U), NEW type, NEW i \in 1 .. Len(bs), NEW j \in 1 .. Len(bs), i # j,
         bs[i].type = type, bs[j].type = type
  PROVE  Len(OfType(bs, type)) > 1
<1>s. PICK found : found = OfType(bs, type)
  OBVIOUS
<1>1. found \in Seq(U)
  BY <1>s, TypesIn, OnlyPicks
<1>2. found # <<>>
  BY <1>s, TypeNone
<1>3. Len(found) # 1
  <2>1. \A f : ~OnlyTyped(bs, type, f)
    BY DEF OnlyTyped
  <2> QED BY <1>s, <2>1, TypeOne
<1>q. PICK q : q = Len(found)
  OBVIOUS
<1>4. q \in Nat /\ q # 0
  BY <1>1, <1>2, <1>q, EmptySeq
<1>5. q > 1
  BY <1>3, <1>4, <1>q
<1> QED
  BY <1>s, <1>5, <1>q

\* A bundle whose last block is the payload that was found, none of it missing,
\* is finished when each block is as it should be.
Finishes(w, bs, st, m) ==
  /\ m + 1 = Len(bs) /\ Len(w) = st[Len(bs) + 1]
  /\ bs[Len(bs)].crc # "none" => bs[Len(bs)].crc = "good"
  /\ bs[1].type = "primary"
  /\ \A i \in 1 .. m : FastSound(bs[i])
  /\ Apart(bs)

HashOf(r) == [k \in DOMAIN r.sha |-> r.sha[k].block.data[r.sha[k].k - 2]]

\* The end of a bundle is behind its last block.
LEMMA LastIsClose ==
  ASSUME NEW bs, AreBlocks(bs), NEW w, NEW st, Laid(w, bs, st), NEW m \in 1 .. Len(bs) - 1,
         Len(w) = st[m + 2], w[Len(w)] = Close
  PROVE  m + 1 = Len(bs)
<1>n. PICK n : n = Len(bs)
  OBVIOUS
<1>0. n \in Nat /\ m \in 1 .. n - 1 /\ m + 2 \in 1 .. n + 1 /\ n + 1 \in 1 .. n + 1
  BY <1>n DEF AreBlocks
<1>1. Len(w) \in Nat /\ Len(w) >= 2 /\ st[n + 1] \in Nat
  BY <1>n, <1>0 DEF Laid, Starts
<1>2. Len(w) >= st[n + 1]
  <2>1. Len(w) \in 2 .. Len(w)
    BY <1>1
  <2> QED BY <1>n, <2>1 DEF Laid, EndsAt
<1>3. ASSUME m + 1 # n PROVE FALSE
  <2>1. m + 2 \in 1 .. n /\ m + 3 \in 1 .. n + 1 /\ n + 1 \in m + 3 .. n + 1 /\ (m + 2) + 1 = m + 3
    BY <1>0, <1>3
  <2>2. IsBlock(bs[m + 2])
    BY <1>n, <2>1 DEF AreBlocks
  <2>3. st[m + 3] = st[m + 2] + Width(bs[m + 2]) /\ Width(bs[m + 2]) \in Nat /\ Width(bs[m + 2]) >= 2
    BY <1>n, <2>1, <2>2, WidthIs DEF Laid, Starts
  <2>4. st[m + 3] <= st[n + 1]
    BY <1>n, <2>1, StartsGrow DEF Laid
  <2> QED BY <1>1, <1>2, <2>3, <2>4
<1> QED
  BY <1>n, <1>3

\* What a receiver has that got a payload block and all before it.
LEMMA BodyEnds ==
  ASSUME NEW bs, AreBlocks(bs), NEW w, NEW st, Laid(w, bs, st), NEW r, NEW m,
         InBody(r, w, bs, st, m, Len(w)), m + 1 = Len(bs), Len(w) = st[Len(bs) + 1]
  PROVE  /\ r.buf = w /\ r.size = Len(w) /\ w[Len(w)] = Close /\ Len(w) > 0
         /\ r.crc = SubSeq(w, Head(r.p).start, Head(r.p).crcStart - 1)
         /\ Head(r.p).block = bs[Len(bs)] /\ Append(r.raws, Head(r.p).block) = bs
         /\ HashOf(r) = bs[Len(bs)].data
<1>u. PICK U : U = ToSet(w)
  OBVIOUS
<1>n. PICK n : n = Len(bs)
  OBVIOUS
<1>l. PICK L : L = Len(w)
  OBVIOUS
<1>b. PICK b : b = bs[n]
  OBVIOUS
<1>g. PICK g : g = st[n]
  OBVIOUS
<1>d. PICK data : data = b.data
  OBVIOUS
<1>k. PICK K : K = Len(data)
  OBVIOUS
<1>0. n \in Nat /\ n >= 2 /\ m = n - 1 /\ m + 1 = n /\ m + 2 = n + 1 /\ n \in 1 .. n /\ n \in 1 .. n + 1
      /\ n + 1 \in 1 .. n + 1
  BY <1>n DEF AreBlocks, InBody, PayloadAfter
<1>1. L \in Nat /\ w \in Seq(U) /\ g \in Nat /\ g >= 2 /\ L >= 2 /\ L = st[n + 1]
  BY <1>n, <1>l, <1>u, <1>g, <1>0 DEF Laid, Starts
<1>2. data \in Seq(ToSet(data)) /\ K \in Nat /\ b.type = Payload
  <2>1. IsBlock(b) /\ b.type = Payload
    BY <1>n, <1>b, <1>0 DEF AreBlocks, InBody, PayloadAfter
  <2>2. data \in Seq(ToSet(data))
    BY <1>d, <2>1 DEF IsBlock
  <2> QED BY <1>k, <2>1, <2>2
<1>3. L = g + Width(b) /\ Width(b) = 2 + K + (IF HasCrc(b) THEN 1 ELSE 0)
  <2>1. st[n + 1] = st[n] + Width(bs[n])
    BY <1>n, <1>0 DEF Laid, Starts
  <2> QED BY <1>b, <1>g, <1>d, <1>k, <1>1, <1>2, <2>1 DEF Width
<1>p. PICK P : P = PlaceOf(b, g)
  OBVIOUS
<1>4. P.dataStart = g + 2 /\ P.dataEnd = g + 2 + K - 1 /\ P.start = g /\ P.crcStart = g + 2 + K /\ P.block = b
  BY <1>p, <1>d, <1>k DEF PlaceOf
<1>5. /\ r.p = <<P>> /\ r.raws = SubSeq(bs, 1, m) /\ r.size = L /\ r.buf = SubSeq(w, 1, L)
      /\ r.sha = SubSeq(w, P.dataStart, Min({L, P.dataEnd}))
      /\ r.crc = SubSeq(w, P.start, Min({L, P.crcStart - 1}))
  BY <1>b, <1>g, <1>p, <1>l, <1>0, <1>1 DEF InBody, Copied
<1>6. Head(r.p) = P
  BY <1>5
<1>7. r.buf = w
  BY <1>5, <1>1, <1>l, SubSeqFull
<1>8. w[L] = Close
  <2>1. EndsAt(w, st[n + 1])
    BY <1>n DEF Laid
  <2> QED BY <1>l, <1>1, <2>1 DEF EndsAt
<1>9. g + 2 + K - 1 <= L /\ g + 2 + K - 1 \in Int /\ L \in Int
  BY <1>1, <1>2, <1>3
<1>10. Min({L, g + 2 + K - 1}) = g + 2 + K - 1
  <2>1. Min({L, g + 2 + K - 1}) = IF L <= g + 2 + K - 1 THEN L ELSE g + 2 + K - 1
    BY <1>9, MinOfTwo
  <2> QED BY <1>9, <2>1
<1>11. r.crc = SubSeq(w, P.start, P.crcStart - 1)
  <2>1. P.crcStart - 1 = g + 2 + K - 1
    <3>1. P.crcStart = g + 2 + K
      BY <1>4
    <3> QED BY <1>1, <1>2, <3>1
  <2> QED BY <1>5, <1>10, <2>1
<1>12. Append(r.raws, P.block) = bs
  <2>1. SubSeq(bs, 1, n) = SubSeq(bs, 1, n - 1) \o <<bs[n]>>
    <3>1. bs \in Seq(ToSet(bs)) /\ 1 \in 1 .. Len(bs) /\ n \in 1 .. Len(bs)
      BY <1>n, <1>0 DEF AreBlocks
    <3> QED BY <1>0, <3>1, SubSeqRecursiveSecond
  <2>2. SubSeq(bs, 1, n) = bs
    BY <1>n, SubSeqFull DEF AreBlocks
  <2>3. SubSeq(bs, 1, m) \in Seq(ToSet(bs)) /\ b \in ToSet(bs)
    <3>0. bs \in Seq(ToSet(bs))
      BY DEF AreBlocks
    <3>1. \A i \in 1 .. m : bs[i] \in ToSet(bs)
      <4>1. \A i \in 1 .. m : i \in 1 .. Len(bs)
        BY <1>0, <1>n
      <4> QED BY <3>0, <4>1, ElementOfSeq
    <3>2. 1 \in Int /\ m \in Int /\ n \in 1 .. Len(bs)
      BY <1>0, <1>n
    <3>3. SubSeq(bs, 1, m) \in Seq(ToSet(bs))
      BY <3>1, <3>2, SubSeqProperties
    <3> QED BY <1>b, <3>0, <3>2, <3>3, ElementOfSeq
  <2>4. Append(SubSeq(bs, 1, m), b) = SubSeq(bs, 1, m) \o <<b>>
    BY <2>3, AppendIsConcat
  <2> QED BY <1>b, <1>0, <1>4, <1>5, <2>1, <2>2, <2>4
<1>13. HashOf(r) = data
  <2>a. PICK a : a = g + 2
    OBVIOUS
  <2>e. PICK e : e = g + 2 + K - 1
    OBVIOUS
  <2>0. a \in Nat /\ a >= 1 /\ e \in Int /\ e <= L /\ e - a + 1 = K /\ (a <= e <=> K # 0) /\ a = g + 2
    BY <1>1, <1>2, <1>9, <2>a, <2>e
  <2>s. PICK s : s = SubSeq(w, a, e)
    OBVIOUS
  <2>1. r.sha = s
    BY <1>4, <1>5, <1>10, <2>a, <2>e, <2>s
  <2>2. Len(s) = (IF a <= e THEN e - a + 1 ELSE 0) /\ s \in Seq(U) /\ \A i \in 1 .. e - a + 1 : s[i] = w[a + i - 1]
    <3>1. \A i \in a .. e : w[i] \in U
      <4>1. \A i \in a .. e : i \in 1 .. Len(w)
        BY <1>l, <1>1, <2>0
      <4> QED BY <1>1, <4>1, ElementOfSeq
    <3>2. a \in Int /\ e \in Int
      BY <2>0
    <3> QED BY <2>s, <3>1, <3>2, SubSeqProperties
  <2>3. Len(s) = K /\ DOMAIN s = 1 .. K
    <3>1. Len(s) = K
      BY <1>2, <2>0, <2>2
    <3> QED BY <2>2, <3>1
  <2>4. ASSUME NEW i \in 1 .. K PROVE s[i] = [block |-> b, k |-> i + 2]
    <3>1. i \in 1 .. e - a + 1
      BY <2>0
    <3>2. s[i] = w[a + i - 1]
      BY <2>2, <3>1
    <3>3. i + 2 \in 1 .. Width(b) /\ g + (i + 2) - 1 = a + i - 1 /\ g + (i + 2) - 1 <= L
      <4>1. Width(b) >= 2 + K /\ Width(b) \in Nat
        BY <1>2, <1>3
      <4> QED BY <1>1, <1>2, <1>3, <2>0, <4>1
    <3>4. w[g + (i + 2) - 1] = [block |-> b, k |-> i + 2]
      BY <1>n, <1>l, <1>b, <1>g, <1>0, <3>3 DEF Laid, CellsAt
    <3> QED BY <3>2, <3>3, <3>4
  <2>5. \A i \in 1 .. K : s[i].block.data[s[i].k - 2] = data[i]
    <3>1. ASSUME NEW i \in 1 .. K PROVE s[i].block.data[s[i].k - 2] = data[i]
      <4>1. s[i].block = b /\ s[i].k = i + 2
        <5>1. s[i] = [block |-> b, k |-> i + 2]
          BY <2>4
        <5> QED BY <5>1
      <4>2. (i + 2) - 2 = i
        BY <1>2
      <4> QED BY <1>d, <4>1, <4>2
    <3> QED BY <3>1
  <2>6. HashOf(r) = [i \in 1 .. K |-> s[i].block.data[s[i].k - 2]]
    BY <2>1, <2>3 DEF HashOf
  <2>7. [i \in 1 .. K |-> s[i].block.data[s[i].k - 2]] = [i \in 1 .. K |-> data[i]]
    BY <2>5
  <2>8. data = [i \in 1 .. K |-> data[i]]
    BY <1>2, <1>k
  <2> QED BY <2>6, <2>7, <2>8
<1>14. r.buf = w /\ r.size = Len(w) /\ w[Len(w)] = Close /\ Len(w) > 0
  BY <1>l, <1>1, <1>5, <1>7, <1>8
<1>15. r.crc = SubSeq(w, Head(r.p).start, Head(r.p).crcStart - 1)
  BY <1>6, <1>11
<1>16. Head(r.p).block = bs[Len(bs)] /\ Append(r.raws, Head(r.p).block) = bs
  BY <1>n, <1>b, <1>4, <1>6, <1>12
<1>17. HashOf(r) = bs[Len(bs)].data
  BY <1>n, <1>b, <1>d, <1>13
<1> QED
  BY <1>14, <1>15, <1>16, <1>17

\* The blocks before the payload.
LEMMA RawsAre ==
  ASSUME NEW bs, AreBlocks(bs), NEW m \in 0 .. Len(bs), NEW q, q = SubSeq(bs, 1, m)
  PROVE  DOMAIN q = 1 .. m /\ \A i \in 1 .. m : q[i] = bs[i]
<1>0. bs \in Seq(ToSet(bs)) /\ Len(bs) \in Nat /\ m \in Nat /\ m <= Len(bs) /\ m \in Int /\ 1 \in Int
  BY DEF AreBlocks
<1>1. \A i \in 1 .. m : bs[i] \in ToSet(bs)
  <2>1. \A i \in 1 .. m : i \in 1 .. Len(bs)
    BY <1>0
  <2> QED BY <1>0, <2>1, ElementOfSeq
<1>2. /\ q \in Seq(ToSet(bs)) /\ Len(q) = (IF 1 <= m THEN m - 1 + 1 ELSE 0)
      /\ \A i \in 1 .. m - 1 + 1 : q[i] = bs[1 + i - 1]
  BY <1>0, <1>1, SubSeqProperties
<1>3. Len(q) = m
  BY <1>0, <1>2
<1>4. \A i \in 1 .. m : i \in 1 .. m - 1 + 1 /\ 1 + i - 1 = i
  BY <1>0
<1> QED
  BY <1>2, <1>3, <1>4

\* When the fast path finishes a bundle.
LEMMA FinishIs ==
  ASSUME NEW bs, AreBlocks(bs), NEW w, NEW st, Laid(w, bs, st), NEW r, NEW m, InBody(r, w, bs, st, m, Len(w))
  PROVE  FinishOk(r) <=> Finishes(w, bs, st, m)
<1>n. PICK n : n = Len(bs)
  OBVIOUS
<1>0. n \in Nat /\ n >= 2 /\ m \in 1 .. n - 1 /\ bs \in Seq(ToSet(bs)) /\ w \in Seq(ToSet(w)) /\ Len(w) \in Nat
  BY <1>n DEF AreBlocks, InBody, PayloadAfter, Laid
<1>1. r.buf = w /\ r.size = st[m + 2] /\ r.state = "body"
  <2>1. r.buf = SubSeq(w, 1, Len(w)) /\ r.size = st[m + 2] /\ r.state = "body"
    BY DEF InBody, Copied
  <2> QED BY <1>0, <2>1, SubSeqFull, SMTT(60)
<1>2. DOMAIN r.raws = 1 .. m /\ \A i \in 1 .. m : r.raws[i] = bs[i]
  <2>1. r.raws = SubSeq(bs, 1, m) /\ m \in 0 .. Len(bs)
    BY <1>0, <1>n DEF InBody
  <2> QED BY <2>1, RawsAre
<1>3. DistinctNumbers(Tail(bs)) <=> Apart(bs)
  BY <1>0, <1>n, ApartIs
<1>4. Last(w) = w[Len(w)]
  BY DEF Last
<1>5. ASSUME m + 1 = n, Len(w) = st[n + 1]
      PROVE  /\ w[Len(w)] = Close /\ Len(w) = r.size
             /\ r.crc = SubSeq(r.buf, Head(r.p).start, Head(r.p).crcStart - 1)
             /\ Head(r.p).block = bs[n] /\ Append(r.raws, Head(r.p).block) = bs
  <2>1. m + 2 = n + 1
    BY <1>0, <1>5
  <2>2. m + 1 = Len(bs) /\ Len(w) = st[Len(bs) + 1]
    BY <1>5, <1>n
  <2>3. /\ w[Len(w)] = Close
        /\ r.crc = SubSeq(w, Head(r.p).start, Head(r.p).crcStart - 1)
        /\ Head(r.p).block = bs[Len(bs)] /\ Append(r.raws, Head(r.p).block) = bs
    BY <2>2, BodyEnds
  <2> QED BY <1>1, <1>n, <1>5, <2>1, <2>3
<1>6. ASSUME FinishOk(r) PROVE Finishes(w, bs, st, m)
  <2>1. Len(w) = st[m + 2] /\ w[Len(w)] = Close
    BY <1>1, <1>4, <1>6 DEF FinishOk
  <2>2. m + 1 = n
    BY <1>0, <1>n, <2>1, LastIsClose
  <2>3. m + 2 = n + 1
    BY <1>0, <2>2
  <2>4. Len(w) = st[n + 1]
    BY <2>1, <2>3
  <2>5. Head(r.p).block = bs[n] /\ Append(r.raws, Head(r.p).block) = bs
    BY <1>5, <2>2, <2>4
  <2>6. (bs[n].crc # "none" => bs[n].crc = "good") /\ bs[1].type = "primary" /\ DistinctNumbers(Tail(bs))
    BY <1>6, <2>5 DEF FinishOk
  <2>7. \A i \in 1 .. m : FastSound(bs[i])
    <3>1. \A i \in DOMAIN r.raws : FastSound(r.raws[i])
      BY <1>6 DEF FinishOk
    <3> QED BY <1>2, <3>1
  <2> QED BY <1>n, <1>3, <2>2, <2>4, <2>6, <2>7 DEF Finishes
<1>7. ASSUME Finishes(w, bs, st, m) PROVE FinishOk(r)
  <2>1. m + 1 = n /\ Len(w) = st[n + 1]
    BY <1>7, <1>n DEF Finishes
  <2>2. /\ w[Len(w)] = Close /\ Len(w) = r.size
        /\ r.crc = SubSeq(r.buf, Head(r.p).start, Head(r.p).crcStart - 1)
        /\ Head(r.p).block = bs[n] /\ Append(r.raws, Head(r.p).block) = bs
    BY <1>5, <2>1
  <2>3. Len(r.buf) = r.size /\ Last(r.buf) = Close
    BY <1>1, <1>4, <2>2
  <2>4. bs[n].crc # "none" => bs[n].crc = "good"
    BY <1>7, <1>n DEF Finishes
  <2>5. bs[1].type = "primary" /\ DistinctNumbers(Tail(bs))
    BY <1>3, <1>7 DEF Finishes
  <2>6. \A i \in DOMAIN r.raws : FastSound(r.raws[i])
    BY <1>2, <1>7 DEF Finishes
  <2> QED BY <1>1, <2>2, <2>3, <2>4, <2>5, <2>6 DEF FinishOk
<1> QED
  BY <1>6, <1>7

\* The first payload block, behind m others.
LEMMA PayloadIs ==
  ASSUME NEW bs, AreBlocks(bs), NEW m, PayloadAfter(bs, m), bs[1].type = "primary"
  PROVE  PayloadOf(bs) = bs[m + 1].data
<1>0. bs \in Seq(ToSet(bs)) /\ Len(bs) \in Nat /\ m \in 1 .. Len(bs) - 1
  BY DEF AreBlocks, PayloadAfter
<1>1. FirstTyped(bs, Payload, m + 1)
  <2>1. m + 1 \in 1 .. Len(bs) /\ bs[m + 1].type = Payload
    BY <1>0 DEF PayloadAfter
  <2>2. \A i \in 1 .. (m + 1) - 1 : bs[i].type # Payload
    <3>1. ASSUME NEW i \in 1 .. (m + 1) - 1 PROVE bs[i].type # Payload
      <4>1. i = 1 \/ i \in 2 .. m
        BY <1>0
      <4> QED BY <4>1 DEF PayloadAfter, NoneUpto, Payload
    <3> QED BY <3>1
  <2> QED BY <2>1, <2>2 DEF FirstTyped
<1>2. Head(OfType(bs, Payload)) = bs[m + 1]
  BY <1>0, <1>1, TypeFirst
<1> QED
  BY <1>2 DEF PayloadOf

\* What the slow path makes of a bundle.
LEMMA SlowIs ==
  ASSUME NEW bs, AreBlocks(bs), NEW w, NEW st, Laid(w, bs, st), NEW eid, NEW prevHop
  PROVE  /\ StampBundleV2(w, eid, prevHop).ok => Decodes(bs) /\ Len(w) = st[Len(bs) + 1] /\ DecodeBundle(w).blocks = bs
         /\ ~StampBundleV2(w, eid, prevHop).ok => StampBundleV2(w, eid, prevHop) = Refused
<1>1. DecodeBundle(w) = IF Len(w) = st[Len(bs) + 1] /\ Decodes(bs) THEN Taken(bs) ELSE Refused
  BY DecodeIs
<1>2. StampBundleV2(w, eid, prevHop).ok => DecodeBundle(w).ok
  BY DEF StampBundleV2, Refused
<1>3. DecodeBundle(w).ok => Decodes(bs) /\ Len(w) = st[Len(bs) + 1] /\ DecodeBundle(w).blocks = bs
  BY <1>1 DEF Taken, Refused
<1>4. ~StampBundleV2(w, eid, prevHop).ok => StampBundleV2(w, eid, prevHop) = Refused
  BY DEF StampBundleV2, Taken
<1> QED
  BY <1>2, <1>3, <1>4

FastAgrees(fast, slow, w) == fast = slow \/ (slow.ok /\ ~fast.ok /\ Lenient(DecodeBundle(w).blocks))

\* The fast path makes of a bundle what the slow path makes of it, or refuses
\* a lenient one.
LEMMA FastIsSlow ==
  ASSUME NEW bs, AreBlocks(bs), NEW w, NEW st, Laid(w, bs, st), NEW r, RxAt(r, w, bs, st, Len(w)),
         NEW eid, NEW prevHop
  PROVE  FastAgrees(StampReceived(r, eid, prevHop), StampBundleV2(w, eid, prevHop), w)
<1>f. PICK fast : fast = StampReceived(r, eid, prevHop)
  OBVIOUS
<1>s. PICK slow : slow = StampBundleV2(w, eid, prevHop)
  OBVIOUS
<1>n. PICK n : n = Len(bs)
  OBVIOUS
<1>0. n \in Nat /\ bs \in Seq(ToSet(bs)) /\ Len(w) \in Nat
  BY <1>n DEF AreBlocks, Laid
<1>1. /\ slow.ok => Decodes(bs) /\ Len(w) = st[n + 1] /\ DecodeBundle(w).blocks = bs
      /\ ~slow.ok => slow = Refused
  BY <1>s, <1>n, SlowIs
<1>2. ~FinishOk(r) => fast = Refused
  BY <1>f DEF StampReceived
<1>3. Refused.ok = FALSE
  BY DEF Refused
<1>4. ASSUME ~FinishOk(r), slow.ok => Lenient(bs) PROVE FastAgrees(fast, slow, w)
  BY <1>1, <1>2, <1>3, <1>4 DEF FastAgrees
<1>5. ASSUME Decodes(bs), NEW m \in 1 .. n - 1, PayloadAfter(bs, m), m + 1 # n PROVE Lenient(bs)
  <2>1. m + 1 \in 1 .. n /\ n \in 1 .. n
    BY <1>0
  <2>2. bs[m + 1].type = Payload /\ bs[n].type = Payload
    BY <1>5, <1>n DEF Decodes, PayloadAfter
  <2>3. Len(OfType(bs, Payload)) > 1
    BY <1>0, <1>n, <1>5, <2>1, <2>2, TwoAreMore
  <2> QED BY <2>3 DEF Lenient
<1>6. CASE Lost(r, w, bs, st)
  <2>1. ~FinishOk(r)
    BY <1>6 DEF Lost, FinishOk
  <2>2. ASSUME slow.ok PROVE Lenient(bs)
    <3>1. Decodes(bs) /\ Len(w) = st[n + 1]
      BY <1>1, <2>2
    <3>2. ~NoneUpto(bs, Len(bs))
      <4>1. Len(bs) \in 2 .. Len(bs) /\ bs[Len(bs)].type = Payload
        BY <1>0, <1>n, <3>1 DEF Decodes
      <4> QED BY <4>1 DEF NoneUpto
    <3>3. PICK m \in 1 .. n - 1 : PayloadAfter(bs, m) /\ (bs[m + 1].shape # "ok" \/ Len(w) > st[m + 2])
      BY <1>6, <1>n, <3>2 DEF Lost, Hopeless
    <3>4. bs[m + 1].shape = "ok"
      <4>1. m + 1 \in 1 .. Len(bs)
        BY <1>0, <1>n
      <4> QED BY <3>1, <4>1 DEF Decodes, Sound
    <3>5. m + 1 # n
      <4>1. ASSUME m + 1 = n PROVE FALSE
        <5>1. m + 2 = n + 1 /\ n + 1 \in 1 .. n + 1
          BY <1>0, <4>1
        <5>2. st[n + 1] \in Nat
          BY <1>n, <5>1 DEF Laid, Starts
        <5>3. Len(w) > st[n + 1]
          BY <3>3, <3>4, <5>1
        <5> QED BY <3>1, <5>2, <5>3
      <4> QED BY <4>1
    <3> QED BY <1>5, <3>1, <3>3, <3>5
  <2>3. FastAgrees(fast, slow, w)
    BY <1>4, <2>1, <2>2
  <2> QED BY <1>f, <1>s, <2>3
<1>7. ASSUME NEW m, InHead(r, w, bs, st, m, Len(w)), Stuck(bs, st, m, Len(w)) PROVE FastAgrees(fast, slow, w)
  <2>1. ~FinishOk(r)
    BY <1>7 DEF InHead, FinishOk
  <2>2. ASSUME slow.ok PROVE FALSE
    <3>1. Len(w) = st[n + 1] /\ m \in 0 .. n
      BY <1>1, <1>7, <1>n, <2>2 DEF InHead
    <3>2. CASE m < n
      <4>1. m + 2 \in 1 .. n + 1 /\ n + 1 \in m + 2 .. n + 1 /\ n + 1 \in 1 .. n + 1
        BY <1>0, <3>1, <3>2
      <4>2. st[m + 2] <= st[n + 1]
        BY <1>n, <4>1, StartsGrow DEF Laid
      <4>3. st[m + 2] \in Nat /\ st[n + 1] \in Nat
        BY <1>n, <4>1 DEF Laid, Starts
      <4>4. st[m + 2] > Len(w) + 1
        BY <1>7, <1>n, <3>2 DEF Stuck
      <4> QED BY <1>0, <3>1, <4>2, <4>3, <4>4
    <3>3. CASE ~(m < n)
      <4>1. m = n
        BY <1>0, <3>1, <3>3
      <4>2. st[n + 1] > Len(w)
        BY <1>7, <1>n, <3>3, <4>1 DEF Stuck
      <4> QED BY <1>0, <3>1, <4>2
    <3> QED BY <3>2, <3>3
  <2> QED BY <1>4, <2>1, <2>2
<1>8. ASSUME NEW m, InBody(r, w, bs, st, m, Len(w)) PROVE FastAgrees(fast, slow, w)
  <2>0. m \in 1 .. n - 1 /\ PayloadAfter(bs, m) /\ bs[m + 1].shape = "ok"
    BY <1>8, <1>n DEF InBody, PayloadAfter
  <2>1. FinishOk(r) <=> Finishes(w, bs, st, m)
    BY <1>8, FinishIs
  <2>2. CASE ~FinishOk(r)
    <3>1. ASSUME slow.ok, ~Lenient(bs) PROVE Finishes(w, bs, st, m)
      <4>1. Decodes(bs) /\ Len(w) = st[n + 1]
        BY <1>1, <3>1
      <4>2. m + 1 = n
        BY <1>5, <2>0, <3>1, <4>1
      <4>3. \A i \in 1 .. n : bs[i].crc # "unknown" /\ Sound(bs[i]) /\ IsBlock(bs[i])
        <5>1. DOMAIN bs = 1 .. n
          BY <1>0, <1>n
        <5>2. \A i \in 1 .. n : bs[i].crc # "unknown"
          BY <3>1, <5>1 DEF Lenient
        <5> QED BY <1>n, <4>1, <5>2 DEF Decodes, AreBlocks
      <4>4. \A i \in 1 .. m : FastSound(bs[i])
        <5>1. \A i \in 1 .. m : i \in 1 .. n
          BY <1>0, <2>0
        <5> QED BY <4>3, <5>1 DEF FastSound
      <4>5. bs[n].crc # "none" => bs[n].crc = "good"
        <5>1. n \in 1 .. n
          BY <1>0, <2>0
        <5> QED BY <4>3, <5>1 DEF Sound, IsBlock
      <4> QED BY <1>n, <4>1, <4>2, <4>4, <4>5 DEF Finishes, Decodes
    <3>2. slow.ok => Lenient(bs)
      BY <2>1, <2>2, <3>1
    <3> QED BY <1>4, <2>2, <3>2
  <2>3. CASE FinishOk(r)
    <3>1. Finishes(w, bs, st, m)
      BY <2>1, <2>3
    <3>2. m + 1 = n /\ Len(w) = st[n + 1] /\ bs[1].type = "primary"
      BY <1>n, <3>1 DEF Finishes
    <3>3. Append(r.raws, Head(r.p).block) = bs /\ HashOf(r) = bs[n].data
      BY <1>n, <1>8, <3>2, BodyEnds
    <3>4. PayloadOf(bs) = bs[n].data
      BY <2>0, <3>2, PayloadIs
    <3>5. Decodes(bs)
      <4>1. n >= 2 /\ n \in 1 .. n
        BY <1>0, <2>0
      <4>2. bs[n].type = Payload
        BY <2>0, <3>2 DEF PayloadAfter
      <4>3. \A i \in 1 .. n : Sound(bs[i])
        <5>1. ASSUME NEW i \in 1 .. n PROVE Sound(bs[i])
          <6>1. i \in 1 .. m \/ i = n
            BY <1>0, <2>0, <3>2
          <6>2. CASE i \in 1 .. m
            BY <3>1, <6>2 DEF Finishes, FastSound
          <6>3. CASE i = n
            BY <1>n, <2>0, <3>1, <3>2, <6>3 DEF Finishes, Sound
          <6> QED BY <6>1, <6>2, <6>3
        <5> QED BY <5>1
      <4> QED BY <1>n, <3>1, <3>2, <4>1, <4>2, <4>3 DEF Decodes, Finishes
    <3>6. DecodeBundle(w) = Taken(bs)
      BY <1>n, <3>2, <3>5, DecodeIs
    <3>7. DecodeBundle(w).ok = TRUE /\ DecodeBundle(w).blocks = bs
      BY <3>6 DEF Taken
    <3>8. slow = IF Readable(bs, 2) /\ PrevHop(bs, prevHop) # NoHop /\ Len(Receipts(bs)) < BlockCapacity
                 THEN Taken(WithReceipt(bs, 2, Receipt(2, PrevHop(bs, prevHop), eid, bs[1].data, PayloadOf(bs))))
                 ELSE Refused
      BY <1>s, <3>7, SMTT(60) DEF StampBundleV2
    <3>9. fast = IF Readable(bs, 2) /\ PrevHop(bs, prevHop) # NoHop /\ Len(Receipts(bs)) < BlockCapacity
                 THEN Taken(WithReceipt(bs, 2, Receipt(2, PrevHop(bs, prevHop), eid, bs[1].data, HashOf(r))))
                 ELSE Refused
      BY <1>f, <2>3, <3>3 DEF StampReceived, HashOf
    <3> QED BY <3>3, <3>4, <3>8, <3>9 DEF FastAgrees
  <2> QED BY <2>2, <2>3
<1> QED
  BY <1>f, <1>s, <1>6, <1>7, <1>8 DEF RxAt

-----------------------------------------------------------------------------
(* Hop by hop: the invariant of the bundles on their way.                  *)

\* What came to the custodian, and what its receiver has of it.
Arrived(bs, st, w, r, d) ==
  AreBlocks(bs) /\ Laid(w, bs, st) /\ d \in 0 .. Len(w) /\ RxAt(r, w, bs, st, d)

\* The i-th custodian's receipt.
ReceiptIs(r, i, version, payload) == r.this = Custodians[i] /\ r.version = version /\ r.payload = payload

\* The receipts of the custodians so far, behind those that were there.
Receipted(bs, o, marks) ==
  LET added == Receipts(bs)
      before == Len(Receipts(o))
  IN  /\ added \in Seq(ToSet(added)) /\ Len(added) = before + Len(marks)
      /\ Head(added).payload = PayloadOf(o)
      /\ \A i \in 1 .. Len(marks) : ReceiptIs(added[before + i], i, marks[1], PayloadOf(o))

\* What the custodians made of a bundle that set out.
Stamped(bs, o, marks) ==
  /\ Decodes(bs) /\ PayloadOf(bs) = PayloadOf(o)
  /\ BibsVerify(o) => BibsVerify(bs) /\ NoMacOnCustody(bs)
  /\ marks[1] \in {1, 2}
  /\ Len(OfType(bs, Custody)) = 1 /\ OfType(bs, Custody) # <<>>
  /\ Head(OfType(bs, Custody)).data.version = marks[1]
  /\ Receipted(bs, o, marks)

CarriedOver(bs, o, w, marks) ==
  /\ marks = <<>> => bs = o
  /\ marks # <<>> => DecodeBundle(w) = Taken(bs) /\ Stamped(bs, o, marks)

StreamInvariant ==
  /\ original \in Originals /\ stampers \in Seq(Nat) /\ hop = Len(stampers) + 1
  /\ \E bs, st : Arrived(bs, st, wire, rx, delivered) /\ CarriedOver(bs, original, wire, stampers)

\* The bundles that set out are blocks.
LEMMA OriginalsAre ==
  ASSUME NEW o \in Originals
  PROVE  /\ AreBlocks(o) /\ NoMacOnCustody(o)
         /\ Receipts(o) \in Seq(ToSet(Receipts(o)))
         /\ Receipts(o) # <<>> => Head(Receipts(o)).payload = PayloadOf(o)
<1>1. /\ o \in Seq(ToSet(o)) /\ Len(o) \in Nat /\ DOMAIN o = 1 .. Len(o)
  BY StreamAssumption
<1>2. ASSUME NEW i \in 1 .. Len(o) PROVE IsBlock(o[i])
  BY <1>1, StreamAssumption DEF IsBlock
<1>3. NoMacOnCustody(o)
  BY <1>1, StreamAssumption DEF NoMacOnCustody
<1>4. CASE OfType(o, Custody) = <<>>
  <2>1. Receipts(o) = <<>>
    BY <1>4 DEF Receipts, CustodyBlocks
  <2>2. <<>> \in Seq(ToSet(<<>>))
    OBVIOUS
  <2> QED BY <1>1, <1>2, <1>3, <2>1, <2>2 DEF AreBlocks
<1>5. CASE OfType(o, Custody) # <<>>
  <2>1. PICK f : FirstTyped(o, Custody, f) /\ Head(OfType(o, Custody)) = o[f]
    BY <1>1, <1>5, FirstOfType
  <2>2. f \in DOMAIN o /\ o[f].type = Custody
    BY <1>1, <2>1 DEF FirstTyped
  <2>3. Receipts(o) = o[f].data.receipts
    BY <1>5, <2>1 DEF Receipts, CustodyBlocks
  <2>4. o[f].data.receipts \in Seq(ToSet(o[f].data.receipts))
    BY <2>2, StreamAssumption
  <2>5. o[f].data.receipts # <<>> => Head(o[f].data.receipts).payload = PayloadOf(o)
    BY <2>2, StreamAssumption
  <2> QED BY <1>1, <1>2, <1>3, <2>3, <2>4, <2>5 DEF AreBlocks
<1> QED
  BY <1>4, <1>5

\* It begins so.
LEMMA StreamBegins == StreamInit => StreamInvariant
<1> SUFFICES ASSUME StreamInit PROVE StreamInvariant
  OBVIOUS
<1>1. original \in Originals /\ hop = 1 /\ delivered = 0 /\ rx = NewReceiver /\ stampers = <<>>
      /\ wire \in Arriving(original)
  BY DEF StreamInit
<1>2. AreBlocks(original)
  BY <1>1, OriginalsAre
<1>3. PICK st : Laid(wire, original, st)
  BY <1>1, <1>2, ArrivingLaid
<1>4. RxAt(NewReceiver, wire, original, st, 0)
  BY <1>2, <1>3, NewRxAt
<1>5. 0 \in 0 .. Len(wire)
  BY <1>3 DEF Laid
<1>6. Arrived(original, st, wire, rx, delivered)
  BY <1>1, <1>2, <1>3, <1>4, <1>5 DEF Arrived
<1>7. CarriedOver(original, original, wire, stampers)
  BY <1>1 DEF CarriedOver
<1>8. stampers \in Seq(Nat) /\ hop = Len(stampers) + 1
  BY <1>1
<1> QED
  BY <1>1, <1>6, <1>7, <1>8 DEF StreamInvariant

\* More of it comes.
LEMMA PushKeeps == StreamInvariant /\ PushNext => StreamInvariant'
<1> SUFFICES ASSUME StreamInvariant, PushNext PROVE StreamInvariant'
  OBVIOUS
<1>1. PICK bs, st : Arrived(bs, st, wire, rx, delivered) /\ CarriedOver(bs, original, wire, stampers)
  BY DEF StreamInvariant
<1>2. delivered \in Nat /\ Len(wire) \in Nat /\ delivered \in 0 .. Len(wire) /\ delivered < Len(wire)
  BY <1>1 DEF Arrived, PushNext, Laid
<1>3. PICK n \in (1 .. MaxPush) \cup {Len(wire) - delivered} :
        /\ delivered + n <= Len(wire)
        /\ rx' = Push(rx, SubSeq(wire, delivered + 1, delivered + n))
        /\ delivered' = delivered + n
  BY DEF PushNext
<1>4. n \in Nat
  BY <1>2, <1>3, StreamAssumption
<1>e. PICK e : e = delivered + n
  OBVIOUS
<1>5. e \in delivered .. Len(wire) /\ e \in 0 .. Len(wire)
  BY <1>2, <1>3, <1>4, <1>e
<1>6. rx' = Push(rx, SubSeq(wire, delivered + 1, e)) /\ delivered' = e
  BY <1>3, <1>e
<1>7. RxAt(rx', wire, bs, st, e)
  BY <1>1, <1>5, <1>6, PushGoes DEF Arrived
<1>8. UNCHANGED <<original, hop, wire, stampers>>
  BY DEF PushNext
<1>9. Arrived(bs, st, wire', rx', delivered')
  BY <1>1, <1>5, <1>6, <1>7, <1>8 DEF Arrived
<1>10. CarriedOver(bs, original', wire', stampers')
  BY <1>1, <1>8
<1> QED
  BY <1>8, <1>9, <1>10 DEF StreamInvariant

\* A bundle with a receipt put in.
Made(bs, new, v, more) ==
  /\ AreBlocks(new) /\ Decodes(new) /\ PayloadOf(new) = PayloadOf(bs)
  /\ Len(OfType(new, Custody)) = 1 /\ OfType(new, Custody) # <<>>
  /\ Head(OfType(new, Custody)).data.version = v
  /\ Receipts(new) = Append(Receipts(bs), more)
  /\ BibsVerify(bs) /\ NoMacOnCustody(bs) => BibsVerify(new) /\ NoMacOnCustody(new)

\* What WithReceipt makes of a bundle.
LEMMA PutMakes ==
  ASSUME NEW bs, AreBlocks(bs), Decodes(bs), Receipts(bs) \in Seq(ToSet(Receipts(bs))), NEW v, NEW more,
         NEW new, new = WithReceipt(bs, v, more)
  PROVE  Made(bs, new, v, more)
<1>n. PICK n : n = Len(bs)
  OBVIOUS
<1>a. PICK added : added = Append(Receipts(bs), more)
  OBVIOUS
<1>d. PICK data : data = [version |-> v, receipts |-> added]
  OBVIOUS
<1>x. PICK x : x = Block(Custody, PutNumber(bs), "good", data)
  OBVIOUS
<1>0. n \in Nat /\ n >= 2 /\ bs \in Seq(ToSet(bs)) /\ bs[1].type = "primary" /\ bs[n].type = Payload
  BY <1>n DEF AreBlocks, Decodes
<1>1. added \in Seq(ToSet(added))
  <2>1. added \in Seq(ToSet(Receipts(bs)) \cup {more})
    BY <1>a
  <2> QED BY <2>1, OfItsOwn
<1>2. data.version = v /\ data.receipts = added
  BY <1>d
<1>3. x.type = Custody /\ x.number = PutNumber(bs) /\ x.crc = "good" /\ x.shape = "ok" /\ x.data = data
  BY <1>x DEF Block
<1>4. /\ PutNumber(bs) \in Nat
      /\ \A i \in 2 .. Len(bs) : bs[i].type # Custody => bs[i].number # PutNumber(bs)
  BY PutNumberIs
<1>5. IsBlock(x) /\ Sound(x)
  BY <1>1, <1>2, <1>3, <1>4 DEF IsBlock, Sound, Custody, Payload
<1>6. new = PutBlock(bs, Custody, "good", data)
  BY <1>a, <1>d DEF WithReceipt
<1>7. bs[1].type # Custody /\ bs[n].type # Custody
  BY <1>0 DEF Custody, Payload
<1>u. PICK U : U = ToSet(bs) \cup {x}
  OBVIOUS
<1>8. PICK q : new \in Seq(U) /\ Moved(bs, new, q, x)
  BY <1>n, <1>0, <1>u, <1>x, <1>6, <1>7, PutMoves
<1>9. AreBlocks(new) /\ Decodes(new)
  BY <1>3, <1>4, <1>5, <1>8, MovedDecodes
<1>10. Len(OfType(new, Custody)) = 1 /\ OfType(new, Custody) # <<>> /\ Head(OfType(new, Custody)) = x
  BY <1>8, PutAlone
<1>11. PayloadOf(new) = PayloadOf(bs)
  BY <1>0, <1>n, <1>8, PayloadMoves
<1>12. BibsVerify(bs) /\ NoMacOnCustody(bs) => BibsVerify(new) /\ NoMacOnCustody(new)
  BY <1>3, <1>8, BibsMove
<1>13. Receipts(new) = added
  BY <1>2, <1>3, <1>10 DEF Receipts, CustodyBlocks
<1> QED
  BY <1>a, <1>2, <1>3, <1>9, <1>10, <1>11, <1>12, <1>13 DEF Made

\* A custodian puts its receipt to those before.
LEMMA StampKeeps ==
  ASSUME NEW bs, AreBlocks(bs), Decodes(bs), NEW o \in Originals, NEW w, NEW marks \in Seq(Nat),
         CarriedOver(bs, o, w, marks),
         NEW v \in {1, 2}, Readable(bs, v), NEW more, more.this = Custodians[Len(marks) + 1], more.version = v,
         more.payload = IF v = 1 /\ Receipts(bs) # <<>> THEN Head(Receipts(bs)).payload ELSE PayloadOf(bs),
         NEW new, new = WithReceipt(bs, v, more)
  PROVE  AreBlocks(new) /\ Stamped(new, o, Append(marks, v))
<1>a. PICK A : A = Receipts(bs)
  OBVIOUS
<1>m. PICK M : M = Len(marks)
  OBVIOUS
<1>b. PICK before : before = Len(Receipts(o))
  OBVIOUS
<1>p. PICK pay : pay = PayloadOf(o)
  OBVIOUS
<1>k. PICK next : next = Append(marks, v)
  OBVIOUS
<1>0. M \in Nat /\ before \in Nat /\ Receipts(o) \in Seq(ToSet(Receipts(o)))
      /\ (Receipts(o) # <<>> => Head(Receipts(o)).payload = pay)
      /\ NoMacOnCustody(o)
  <2>1. Receipts(o) \in Seq(ToSet(Receipts(o)))
        /\ (Receipts(o) # <<>> => Head(Receipts(o)).payload = PayloadOf(o)) /\ NoMacOnCustody(o)
    BY OriginalsAre
  <2>2. Len(Receipts(o)) \in Nat
    BY <2>1
  <2>3. Len(marks) \in Nat
    OBVIOUS
  <2> QED BY <1>m, <1>b, <1>p, <2>1, <2>2, <2>3
<1>1. /\ A \in Seq(ToSet(A)) /\ Len(A) = before + M /\ (A # <<>> => Head(A).payload = pay)
      /\ \A i \in 1 .. M : ReceiptIs(A[before + i], i, marks[1], pay)
      /\ PayloadOf(bs) = pay
      /\ BibsVerify(o) => BibsVerify(bs) /\ NoMacOnCustody(bs)
  <2>1. CASE marks = <<>>
    <3>1. bs = o /\ M = 0
      BY <2>1, <1>m DEF CarriedOver
    <3>2. 1 .. M = {}
      BY <3>1
    <3>3. Len(A) = before + M
      BY <1>0, <1>a, <1>b, <3>1
    <3> QED BY <1>0, <1>a, <1>p, <3>1, <3>2, <3>3
  <2>2. CASE marks # <<>>
    <3>1. Stamped(bs, o, marks)
      BY <2>2 DEF CarriedOver
    <3>2. Receipted(bs, o, marks)
      BY <3>1 DEF Stamped
    <3>3. /\ A \in Seq(ToSet(A)) /\ Len(A) = before + M /\ Head(A).payload = pay
          /\ \A i \in 1 .. M : ReceiptIs(A[before + i], i, marks[1], pay)
      BY <1>a, <1>m, <1>b, <1>p, <3>2 DEF Receipted
    <3> QED BY <1>p, <3>1, <3>3 DEF Stamped
  <2> QED BY <2>1, <2>2
<1>2. Made(bs, new, v, more)
  BY <1>a, <1>1, PutMakes
<1>3. Len(next) = M + 1 /\ \A i \in 1 .. M : next[i] = marks[i]
  BY <1>m, <1>k
<1>4. next[1] = v
  <2>1. CASE marks = <<>>
    BY <1>k, <2>1
  <2>2. CASE marks # <<>>
    <3>1. Stamped(bs, o, marks)
      BY <2>2 DEF CarriedOver
    <3>2. marks[1] \in {1, 2} /\ OfType(bs, Custody) # <<>> /\ Head(OfType(bs, Custody)).data.version = marks[1]
      BY <3>1 DEF Stamped
    <3>3. marks[1] = v
      BY <3>2 DEF Readable, CustodyBlocks
    <3>4. 1 \in 1 .. M
      BY <1>m, <1>0, <2>2, EmptySeq
    <3> QED BY <1>3, <3>3, <3>4
  <2> QED BY <2>1, <2>2
<1>5. more.payload = pay
  BY <1>a, <1>1
<1>n. PICK N : N = Append(A, more)
  OBVIOUS
<1>6. N \in Seq(ToSet(N)) /\ Len(N) = before + (M + 1) /\ N[before + (M + 1)] = more
  <2>1. N \in Seq(ToSet(A) \cup {more}) /\ Len(N) = Len(A) + 1 /\ N[Len(A) + 1] = more
    BY <1>1, <1>n
  <2>2. N \in Seq(ToSet(N))
    BY <2>1, OfItsOwn
  <2>3. Len(A) + 1 = before + (M + 1)
    BY <1>0, <1>1
  <2> QED BY <2>1, <2>2, <2>3
<1>7. \A i \in 1 .. before + M : N[i] = A[i]
  BY <1>1, <1>n
<1>8. Head(N).payload = pay
  <2>1. CASE A = <<>>
    <3>1. N = <<more>>
      BY <1>n, <2>1
    <3> QED BY <1>5, <3>1
  <2>2. CASE A # <<>>
    <3>1. Head(N) = Head(A)
      BY <1>1, <1>n, <2>2
    <3> QED BY <1>1, <2>2, <3>1
  <2> QED BY <2>1, <2>2
<1>9. ASSUME NEW i \in 1 .. M + 1
      PROVE  ReceiptIs(N[before + i], i, next[1], pay)
  <2>1. CASE i \in 1 .. M
    <3>1. before + i \in 1 .. before + M
      BY <1>0, <2>1
    <3>2. N[before + i] = A[before + i]
      BY <1>7, <3>1
    <3>3. marks[1] = next[1]
      <4>1. 1 \in 1 .. M
        BY <1>0, <2>1
      <4> QED BY <1>3, <4>1
    <3> QED BY <1>1, <2>1, <3>2, <3>3
  <2>2. CASE i = M + 1
    BY <1>m, <1>4, <1>5, <1>6, <2>2 DEF ReceiptIs
  <2> QED BY <1>0, <2>1, <2>2
<1>10. Receipts(new) = N
  BY <1>a, <1>n, <1>2 DEF Made
<1>11. Receipted(new, o, next)
  BY <1>p, <1>b, <1>3, <1>6, <1>8, <1>9, <1>10 DEF Receipted
<1>12. Stamped(new, o, next)
  BY <1>p, <1>1, <1>2, <1>4, <1>11 DEF Stamped, Made
<1> QED
  BY <1>k, <1>2, <1>12 DEF Made

\* It is passed on.
LEMMA PassKeeps == StreamInvariant /\ PassOn => StreamInvariant'
<1> SUFFICES ASSUME StreamInvariant, PassOn PROVE StreamInvariant'
  OBVIOUS
<1>1. PICK bs, st : Arrived(bs, st, wire, rx, delivered) /\ CarriedOver(bs, original, wire, stampers)
  BY DEF StreamInvariant
<1>2. original \in Originals /\ stampers \in Seq(Nat) /\ hop = Len(stampers) + 1 /\ AreBlocks(bs) /\ Laid(wire, bs, st)
      /\ delivered = Len(wire) /\ RxAt(rx, wire, bs, st, Len(wire)) /\ hop' = hop + 1 /\ delivered' = 0
      /\ rx' = NewReceiver /\ original' = original
  BY <1>1 DEF StreamInvariant, Arrived, PassOn
<1>e. PICK eid : eid = Custodians[hop]
  OBVIOUS
<1>h. PICK prevHop \in {NoHop, IF hop = 1 THEN "source" ELSE Custodians[hop - 1]}, how \in {"v1", "v2", "fast"} :
        LET made == CASE how = "v1" -> StampBundle(wire, Custodians[hop], prevHop)
                      [] how = "v2" -> StampBundleV2(wire, Custodians[hop], prevHop)
                      [] how = "fast" -> StampReceived(rx, Custodians[hop], prevHop)
        IN  made.ok /\ wire' = Encode(made.blocks) /\ stampers' = Append(stampers, IF how = "v1" THEN 1 ELSE 2)
  BY DEF PassOn
<1>o. PICK out : out = CASE how = "v1" -> StampBundle(wire, eid, prevHop)
                         [] how = "v2" -> StampBundleV2(wire, eid, prevHop)
                         [] how = "fast" -> StampReceived(rx, eid, prevHop)
  OBVIOUS
<1>3. out.ok /\ wire' = Encode(out.blocks) /\ stampers' = Append(stampers, IF how = "v1" THEN 1 ELSE 2)
  BY <1>e, <1>h, <1>o
<1>v. PICK v : v = IF how = "v1" THEN 1 ELSE 2
  OBVIOUS
<1>4. out = IF v = 1 THEN StampBundle(wire, eid, prevHop) ELSE StampBundleV2(wire, eid, prevHop)
  <2>1. CASE how = "fast"
    <3>1. out = StampReceived(rx, eid, prevHop)
      BY <1>o, <2>1
    <3>2. FastAgrees(StampReceived(rx, eid, prevHop), StampBundleV2(wire, eid, prevHop), wire)
      BY <1>2, FastIsSlow
    <3> QED BY <1>3, <1>v, <2>1, <3>1, <3>2 DEF FastAgrees
  <2>2. CASE how # "fast"
    BY <1>o, <1>v, <2>2
  <2> QED BY <2>1, <2>2
<1>5. v \in {1, 2}
  BY <1>v
<1>6. DecodeBundle(wire) = IF Len(wire) = st[Len(bs) + 1] /\ Decodes(bs) THEN Taken(bs) ELSE Refused
  BY <1>2, DecodeIs, SMTT(60)
<1>7. DecodeBundle(wire).ok = TRUE
  BY <1>3, <1>4 DEF StampBundle, StampBundleV2, Refused, DecodeBundle
<1>8. Decodes(bs) /\ DecodeBundle(wire).blocks = bs
  BY <1>6, <1>7 DEF Taken, Refused
<1>9. PICK more : /\ out = Taken(WithReceipt(bs, v, more)) /\ Readable(bs, v)
                  /\ more.this = eid /\ more.version = v
                  /\ more.payload = IF v = 1 /\ Receipts(bs) # <<>> THEN Head(Receipts(bs)).payload ELSE PayloadOf(bs)
  <2>1. CASE v = 1
    <3>a. PICK about : about = IF Receipts(bs) # <<>> THEN Head(Receipts(bs)).payload ELSE PayloadOf(bs)
      OBVIOUS
    <3>m. PICK more : more = Receipt(1, PrevHop(bs, prevHop), eid, bs[1].data, about)
      OBVIOUS
    <3>1. out = StampBundle(wire, eid, prevHop) /\ out.ok
      BY <1>3, <1>4, <2>1
    <3>2. out = (IF Readable(bs, 1) /\ PrevHop(bs, prevHop) # NoHop THEN Taken(WithReceipt(bs, 1, more)) ELSE Refused)
      BY <1>7, <1>8, <3>a, <3>m, <3>1 DEF StampBundle
    <3>3. Readable(bs, 1) /\ out = Taken(WithReceipt(bs, 1, more))
      BY <3>1, <3>2 DEF Refused
    <3>4. more.this = eid /\ more.version = 1 /\ more.payload = about
      BY <3>m DEF Receipt
    <3> QED BY <2>1, <3>a, <3>3, <3>4
  <2>2. CASE v = 2
    <3>m. PICK more : more = Receipt(2, PrevHop(bs, prevHop), eid, bs[1].data, PayloadOf(bs))
      OBVIOUS
    <3>1. out = StampBundleV2(wire, eid, prevHop) /\ out.ok
      BY <1>3, <1>4, <2>2
    <3>2. out = (IF Readable(bs, 2) /\ PrevHop(bs, prevHop) # NoHop /\ Len(Receipts(bs)) < BlockCapacity
                 THEN Taken(WithReceipt(bs, 2, more)) ELSE Refused)
      BY <1>7, <1>8, <3>m, <3>1 DEF StampBundleV2
    <3>3. Readable(bs, 2) /\ out = Taken(WithReceipt(bs, 2, more))
      BY <3>1, <3>2 DEF Refused
    <3>4. more.this = eid /\ more.version = 2 /\ more.payload = PayloadOf(bs)
      BY <3>m DEF Receipt
    <3> QED BY <2>2, <3>3, <3>4
  <2> QED BY <1>5, <2>1, <2>2
<1>n. PICK new : new = WithReceipt(bs, v, more)
  OBVIOUS
<1>10. AreBlocks(new) /\ Stamped(new, original, Append(stampers, v))
  BY <1>e, <1>n, <1>1, <1>2, <1>5, <1>8, <1>9, StampKeeps
<1>11. out.blocks = new /\ wire' = Encode(new) /\ stampers' = Append(stampers, v)
  BY <1>3, <1>v, <1>n, <1>9 DEF Taken
<1>12. PICK st2 : Laid(Encode(new), new, st2) /\ Len(Encode(new)) = st2[Len(new) + 1]
  BY <1>10, EncodeIs
<1>13. Arrived(new, st2, wire', rx', delivered')
  <2>1. RxAt(NewReceiver, Encode(new), new, st2, 0)
    BY <1>10, <1>12, NewRxAt
  <2>2. 0 \in 0 .. Len(Encode(new))
    BY <1>12 DEF Laid
  <2> QED BY <1>2, <1>10, <1>11, <1>12, <2>1, <2>2 DEF Arrived
<1>14. DecodeBundle(Encode(new)) = Taken(new)
  <2>1. Decodes(new)
    BY <1>10 DEF Stamped
  <2> QED BY <1>10, <1>12, <2>1, DecodeIs
<1>15. Append(stampers, v) \in Seq(Nat) /\ Append(stampers, v) # <<>> /\ Len(Append(stampers, v)) = Len(stampers) + 1
  BY <1>2, <1>5
<1>16. CarriedOver(new, original, wire', stampers')
  BY <1>10, <1>11, <1>14, <1>15 DEF CarriedOver
<1>17. hop' = Len(stampers') + 1
  BY <1>2, <1>11, <1>15
<1> QED
  BY <1>2, <1>11, <1>13, <1>15, <1>16, <1>17 DEF StreamInvariant

\* The state of the bundle holds after every step.
LEMMA StreamKeeps == StreamInvariant /\ [StreamNext]_streamVars => StreamInvariant'
<1> SUFFICES ASSUME StreamInvariant, [StreamNext]_streamVars PROVE StreamInvariant'
  OBVIOUS
<1>1. CASE PushNext
  BY <1>1, PushKeeps
<1>2. CASE PassOn
  BY <1>2, PassKeeps
<1>3. CASE UNCHANGED streamVars
  BY <1>3 DEF StreamInvariant, streamVars
<1> QED
  BY <1>1, <1>2, <1>3 DEF StreamNext

\* The fast path is the slow one.
LEMMA StreamAgrees == StreamInvariant => StampsAgree
<1> SUFFICES ASSUME StreamInvariant, Here, delivered = Len(wire), NEW prevHop \in {NoHop, "source"}
             PROVE  FastAgrees(StampReceived(rx, Custodians[hop], prevHop),
                               StampBundleV2(wire, Custodians[hop], prevHop), wire)
  BY DEF StampsAgree, FastAgrees
<1>1. PICK bs, st : Arrived(bs, st, wire, rx, delivered)
  BY DEF StreamInvariant
<1>2. AreBlocks(bs) /\ Laid(wire, bs, st) /\ RxAt(rx, wire, bs, st, Len(wire))
  BY <1>1 DEF Arrived
<1> QED
  BY <1>2, FastIsSlow

\* What was passed on reads and holds.
LEMMA StreamSeals == StreamInvariant => SealHolds
<1> SUFFICES ASSUME StreamInvariant, stampers # <<>> PROVE SealHolds
  BY DEF SealHolds
<1>1. PICK bs : CarriedOver(bs, original, wire, stampers)
  BY DEF StreamInvariant
<1>2. DecodeBundle(wire) = Taken(bs) /\ Stamped(bs, original, stampers)
  BY <1>1 DEF CarriedOver
<1>3. DecodeBundle(wire).ok = TRUE /\ DecodeBundle(wire).blocks = bs
  BY <1>2 DEF Taken
<1>4. Receipted(bs, original, stampers) /\ (BibsVerify(original) => BibsVerify(bs))
  BY <1>2 DEF Stamped
<1>5. DOMAIN stampers = 1 .. Len(stampers)
  BY DEF StreamInvariant
<1>6. Len(Receipts(bs)) = Len(Receipts(original)) + Len(stampers)
  BY <1>4 DEF Receipted
<1>7. \A i \in DOMAIN stampers :
        /\ Receipts(bs)[Len(Receipts(original)) + i].this = Custodians[i]
        /\ Receipts(bs)[Len(Receipts(original)) + i].version = stampers[1]
        /\ Receipts(bs)[Len(Receipts(original)) + i].payload = PayloadOf(original)
  BY <1>4, <1>5 DEF Receipted, ReceiptIs
<1> QED
  BY <1>3, <1>4, <1>6, <1>7 DEF SealHolds

-----------------------------------------------------------------------------
(* The bytes of a gateway's buffer.                                        *)

\* it folds F over the subsets of S, each set losing the element that pick
\* names.
FoldsBy(it, b, S, pick, F) ==
  /\ it[{}] = b
  /\ \A T \in SUBSET S : T # {} => it[T] = F[<<it[T \ {pick[T]}], pick[T]>>]

\* What takes the elements of a finite set one after the other, each set
\* losing the element that pick names, is a function.
LEMMA FoldExists ==
  ASSUME NEW S, IsFiniteSet(S), NEW V, NEW b \in V,
         NEW pick, \A T \in SUBSET S : T # {} => pick[T] \in T,
         NEW F \in [V \X S -> V]
  PROVE  \E g \in [SUBSET S -> V] : FoldsBy(g, b, S, pick, F)
<1> DEFINE Small(m) == {T \in SUBSET S : Cardinality(T) <= m}
           Has(m) == \E g \in [Small(m) -> V] :
                        \A T \in Small(m) :
                          g[T] = IF T = {} THEN b ELSE F[<<g[T \ {pick[T]}], pick[T]>>]
           P == {m \in Nat : Has(m)}
<1>0. \A T \in SUBSET S : IsFiniteSet(T) /\ Cardinality(T) \in Nat /\ (Cardinality(T) = 0 <=> T = {})
  BY FS_Subset, FS_CardinalityType, FS_EmptySet
<1>1. 0 \in P
  <2> DEFINE g == [T \in Small(0) |-> b]
  <2>1. g \in [Small(0) -> V]
    OBVIOUS
  <2>2. \A T \in Small(0) : T = {} /\ g[T] = b
    BY <1>0
  <2> QED
    BY <2>1, <2>2
<1>2. ASSUME NEW m \in Nat, m \in P PROVE m + 1 \in P
  <2>0. Has(m)
    <3> HIDE DEF Has
    <3> QED BY <1>2
  <2>2. PICK g \in [Small(m) -> V] :
          \A T \in Small(m) :
             g[T] = IF T = {} THEN b ELSE F[<<g[T \ {pick[T]}], pick[T]>>]
    BY <2>0
  <2> DEFINE rest(T) == T \ {pick[T]}
             f == [T \in Small(m + 1) |->
                     IF T \in Small(m) THEN g[T] ELSE F[<<g[rest(T)], pick[T]>>]]
  <2>3. ASSUME NEW T \in Small(m + 1), T # {}
        PROVE  rest(T) \in Small(m) /\ pick[T] \in S
    <3>1. pick[T] \in T /\ IsFiniteSet(T)
      BY <1>0, <2>3
    <3>2. Cardinality(rest(T)) = Cardinality(T) - 1
      BY <3>1, FS_RemoveElement
    <3> QED BY <1>0, <3>1, <3>2
  <2>4. \A T \in Small(m + 1) : T \notin Small(m) => T # {}
    BY <1>0
  <2>5. f \in [Small(m + 1) -> V]
    <3>1. ASSUME NEW T \in Small(m + 1) PROVE f[T] \in V
      <4>1. CASE T \in Small(m)
        BY <4>1
      <4>2. CASE T \notin Small(m)
        <5>1. g[rest(T)] \in V /\ pick[T] \in S
          BY <2>3, <2>4, <4>2, SMTT(60)
        <5> HIDE DEF rest, Small
        <5> QED BY <4>2, <5>1
      <4> QED BY <4>1, <4>2
    <3> QED BY <3>1
  <2>6. ASSUME NEW T \in Small(m + 1)
        PROVE  f[T] = IF T = {} THEN b ELSE F[<<f[rest(T)], pick[T]>>]
    <3>1. T # {} => rest(T) \in Small(m) /\ rest(T) \in Small(m + 1)
      BY <1>0, <2>3
    <3>2. T # {} => f[rest(T)] = g[rest(T)]
      <4> HIDE DEF rest, Small
      <4> QED BY <3>1
    <3>3. CASE T \in Small(m)
      <4>1. f[T] = g[T]
        <5> HIDE DEF Small, rest
        <5> QED BY <3>3
      <4>2. g[T] = IF T = {} THEN b ELSE F[<<g[rest(T)], pick[T]>>]
        <5> HIDE DEF Small
        <5> QED BY <2>2, <3>3
      <4> HIDE DEF Small, rest, f
      <4> QED BY <3>2, <4>1, <4>2
    <3>4. CASE T \notin Small(m)
      <4>1. T # {}
        BY <2>4, <3>4
      <4> HIDE DEF Small
      <4> QED BY <3>2, <3>4, <4>1
    <3> QED BY <3>3, <3>4
  <2> HIDE DEF f
  <2>7. Has(m + 1)
    BY <2>5, <2>6
  <2> HIDE DEF Has
  <2> QED BY <2>7
<1>3. \A m \in Nat : m \in P
  <2> HIDE DEF P
  <2> QED BY <1>1, <1>2, Induction
<1>4. Cardinality(S) \in Nat /\ \A T \in SUBSET S : Cardinality(T) <= Cardinality(S)
  BY <1>0, FS_Subset
<1>5. Has(Cardinality(S))
  <2> HIDE DEF Has
  <2> QED BY <1>3, <1>4
<1>6. Small(Cardinality(S)) = SUBSET S
  BY <1>4
<1> HIDE DEF Small
<1> QED
  BY <1>5, <1>6 DEF FoldsBy

\* g gives the sum of a over each set of members of S: by the member the folds
\* take first, and by any member.
First(T) == CHOOSE x \in T : TRUE

AddsUp(S, a, g) ==
  g[{}] = 0 /\ \A T \in SUBSET S : T # {} => g[T] = a[First(T)] + g[T \ {First(T)}]

SumOf(T, a, g) == g[T] \in Nat /\ \A y \in T : g[T] = a[y] + g[T \ {y}]

Totals(S, a, g) == g[{}] = 0 /\ \A T \in SUBSET S : SumOf(T, a, g)

\* There is such a function.
LEMMA AddsUpExists ==
  ASSUME NEW S, IsFiniteSet(S), NEW a \in [S -> Nat]
  PROVE  \E g \in [SUBSET S -> Nat] : AddsUp(S, a, g)
<1> DEFINE pick == [T \in SUBSET S |-> First(T)] F == [p \in Nat \X S |-> a[p[2]] + p[1]]
<1>1. \A T \in SUBSET S : T # {} => pick[T] \in T /\ pick[T] = First(T)
  BY DEF First
<1>2. F \in [Nat \X S -> Nat]
  OBVIOUS
<1>3. PICK g \in [SUBSET S -> Nat] : FoldsBy(g, 0, S, pick, F)
  <2> HIDE DEF pick, F
  <2> QED BY <1>1, <1>2, FoldExists
<1>4. ASSUME NEW T \in SUBSET S, T # {} PROVE g[T] = a[First(T)] + g[T \ {First(T)}]
  <2>1. g[T] = F[<<g[T \ {pick[T]}], pick[T]>>] /\ pick[T] \in T /\ pick[T] = First(T)
    <3> HIDE DEF pick, F
    <3> QED BY <1>1, <1>3, <1>4 DEF FoldsBy
  <2> HIDE DEF pick
  <2>2. g[T \ {pick[T]}] \in Nat /\ pick[T] \in S
    BY <2>1
  <2> QED BY <2>1, <2>2
<1>5. g[{}] = 0
  BY <1>3 DEF FoldsBy
<1> QED
  BY <1>4, <1>5 DEF AddsUp

\* The order makes no difference.
LEMMA AnyOrder ==
  ASSUME NEW S, IsFiniteSet(S), NEW a \in [S -> Nat], NEW g, AddsUp(S, a, g)
  PROVE  Totals(S, a, g)
<1> DEFINE P == {m \in Nat : \A T \in SUBSET S : Cardinality(T) <= m => SumOf(T, a, g)}
<1>1. \A T \in SUBSET S : IsFiniteSet(T) /\ Cardinality(T) \in Nat /\ (Cardinality(T) = 0 <=> T = {})
  BY FS_Subset, FS_CardinalityType, FS_EmptySet
<1>2. \A T \in SUBSET S : \A y \in T : Cardinality(T \ {y}) = Cardinality(T) - 1
  BY <1>1, FS_RemoveElement
<1>3. g[{}] = 0 /\ \A T \in SUBSET S : T # {} => g[T] = a[First(T)] + g[T \ {First(T)}]
  BY DEF AddsUp
<1>4. SumOf({}, a, g)
  BY <1>3 DEF SumOf
<1>5. 0 \in P
  BY <1>1, <1>4
<1>6. ASSUME NEW m \in Nat, m \in P PROVE m + 1 \in P
  <2>1. SUFFICES ASSUME NEW T \in SUBSET S, Cardinality(T) <= m + 1 PROVE SumOf(T, a, g)
    OBVIOUS
  <2>2. SUFFICES ASSUME T # {} PROVE SumOf(T, a, g)
    BY <1>4
  <2> PICK x : x = First(T)
    OBVIOUS
  <2>3. x \in T /\ x \in S /\ a[x] \in Nat /\ g[T] = a[x] + g[T \ {x}]
    BY <1>3, <2>2 DEF First
  <2>4. ASSUME NEW y \in T PROVE SumOf(T \ {y}, a, g)
    <3>1. Cardinality(T \ {y}) <= m
      BY <1>1, <1>2, <2>1
    <3>2. T \ {y} \in SUBSET S
      OBVIOUS
    <3> QED BY <1>6, <3>1, <3>2
  <2>5. g[T] \in Nat
    <3>1. SumOf(T \ {x}, a, g)
      BY <2>3, <2>4
    <3>2. g[T \ {x}] \in Nat
      BY <3>1 DEF SumOf
    <3> QED BY <2>3, <3>2
  <2>6. ASSUME NEW y \in T PROVE g[T] = a[y] + g[T \ {y}]
    <3>1. CASE y = x
      BY <2>3, <3>1
    <3>2. CASE y # x
      <4>1. y \in T \ {x} /\ x \in T \ {y} /\ (T \ {x}) \ {y} = (T \ {y}) \ {x}
        BY <2>3, <3>2
      <4>2. g[T \ {x}] = a[y] + g[(T \ {x}) \ {y}] /\ g[T \ {y}] = a[x] + g[(T \ {y}) \ {x}]
        BY <2>3, <2>4, <4>1 DEF SumOf
      <4>3. SumOf((T \ {x}) \ {y}, a, g) \/ g[(T \ {x}) \ {y}] \in Nat
        <5>1. Cardinality((T \ {x}) \ {y}) <= m
          BY <1>1, <1>2, <2>1, <2>3, <4>1, SMTT(60)
        <5>2. (T \ {x}) \ {y} \in SUBSET S
          OBVIOUS
        <5> QED BY <1>6, <5>1, <5>2
      <4>4. a[y] \in Nat /\ g[(T \ {x}) \ {y}] \in Nat
        BY <4>3 DEF SumOf
      <4> QED BY <2>3, <4>1, <4>2, <4>4
    <3> QED BY <3>1, <3>2
  <2> QED BY <2>5, <2>6 DEF SumOf
<1>7. Cardinality(S) \in P /\ Cardinality(S) \in Nat
  <2> HIDE DEF P
  <2> QED BY <1>1, <1>5, <1>6, Induction
<1>8. \A T \in SUBSET S : Cardinality(T) <= Cardinality(S)
  BY FS_Subset
<1> QED
  BY <1>3, <1>7, <1>8 DEF Totals


\* a is a function from a finite set to sizes.
Sizes(a) == IsFiniteSet(DOMAIN a) /\ a \in [DOMAIN a -> Nat]

Over(a, T) == [x \in T |-> a[x]]

\* The sum is the same for all that add up.
LEMMA OneSum ==
  ASSUME NEW T, IsFiniteSet(T), NEW b, NEW f, NEW g, AddsUp(T, b, f), AddsUp(T, b, g)
  PROVE  f[T] = g[T]
<1> DEFINE P == {m \in Nat : \A X \in SUBSET T : Cardinality(X) <= m => f[X] = g[X]}
<1>1. f[{}] = 0 /\ \A X \in SUBSET T : X # {} => f[X] = b[First(X)] + f[X \ {First(X)}]
  BY DEF AddsUp
<1>2. g[{}] = 0 /\ \A X \in SUBSET T : X # {} => g[X] = b[First(X)] + g[X \ {First(X)}]
  BY DEF AddsUp
<1>3. \A X \in SUBSET T : IsFiniteSet(X) /\ Cardinality(X) \in Nat /\ (Cardinality(X) = 0 <=> X = {})
  BY FS_Subset, FS_CardinalityType, FS_EmptySet
<1>0. f[{}] = g[{}]
  BY <1>1, <1>2
<1>4. 0 \in P
  <2>1. ASSUME NEW X \in SUBSET T, Cardinality(X) <= 0 PROVE f[X] = g[X]
    <3>1. X = {}
      BY <1>3, <2>1
    <3> QED BY <1>0, <3>1
  <2> QED BY <2>1
<1>5. ASSUME NEW m \in Nat, m \in P PROVE m + 1 \in P
  <2>1. ASSUME NEW X \in SUBSET T, Cardinality(X) <= m + 1, X # {} PROVE f[X] = g[X]
    <3>1. First(X) \in X
      BY <2>1 DEF First
    <3>2. Cardinality(X \ {First(X)}) = Cardinality(X) - 1
      BY <1>3, <3>1, FS_RemoveElement
    <3>3. X \ {First(X)} \in SUBSET T
      OBVIOUS
    <3>4. f[X \ {First(X)}] = g[X \ {First(X)}]
      BY <1>3, <1>5, <2>1, <3>2, <3>3
    <3> QED BY <1>1, <1>2, <2>1, <3>4
  <2>2. \A X \in SUBSET T : Cardinality(X) <= m + 1 => f[X] = g[X]
    BY <1>0, <2>1
  <2> QED BY <2>2
<1>6. Cardinality(T) \in P
  <2> HIDE DEF P
  <2> QED BY <1>3, <1>4, <1>5, Induction
<1> QED
  BY <1>3, <1>6

\* SumOver adds up, and any member can be taken out.
LEMMA SumIs ==
  ASSUME NEW a, Sizes(a)
  PROVE  /\ SumOver(a) \in Nat /\ (DOMAIN a = {} => SumOver(a) = 0)
         /\ \A y \in DOMAIN a : SumOver(a) = a[y] + SumOver(Over(a, DOMAIN a \ {y}))
<1> DEFINE Unrolled(b, g) == [T \in SUBSET DOMAIN b |->
                            IF T = {} THEN 0
                            ELSE b[CHOOSE x \in T : TRUE] + g[T \ {CHOOSE x \in T : TRUE}]]
           it(b) == CHOOSE g : g = Unrolled(b, g)
<1>1. ASSUME NEW b, Sizes(b) PROVE AddsUp(DOMAIN b, b, it(b)) /\ Totals(DOMAIN b, b, it(b))
      /\ SumOver(b) = it(b)[DOMAIN b]
  <2> PICK S : S = DOMAIN b
    OBVIOUS
  <2>0. IsFiniteSet(S) /\ b \in [S -> Nat] /\ DOMAIN b = S
    BY <1>1 DEF Sizes
  <2>1. PICK g \in [SUBSET S -> Nat] : AddsUp(S, b, g)
    BY <2>0, AddsUpExists
  <2>2. g = Unrolled(b, g)
    <3>1. \A T \in SUBSET S : g[T] = IF T = {} THEN 0
                            ELSE b[CHOOSE x \in T : TRUE] + g[T \ {CHOOSE x \in T : TRUE}]
      BY <2>1 DEF AddsUp, First
    <3> QED BY <2>0, <3>1
  <2>3. it(b) = Unrolled(b, it(b))
    <3> HIDE DEF Unrolled
    <3> QED BY <2>2
  <2>4. SumOver(b) = it(b)[S]
    BY <2>0 DEF SumOver, FoldFunction, FoldFunctionOnSet, MapThenFoldSet
  <2>5. \A T \in SUBSET S : it(b)[T] = Unrolled(b, it(b))[T]
    <3> HIDE DEF it, Unrolled
    <3> QED BY <2>3
  <2> HIDE DEF it
  <2>6. AddsUp(S, b, it(b))
    BY <2>0, <2>5 DEF AddsUp, First
  <2>7. Totals(S, b, it(b))
    BY <2>0, <2>6, AnyOrder
  <2> QED BY <2>0, <2>4, <2>6, <2>7
<1> HIDE DEF it
<1> PICK S : S = DOMAIN a
  OBVIOUS
<1>2. IsFiniteSet(S) /\ a \in [S -> Nat] /\ Totals(S, a, it(a)) /\ AddsUp(S, a, it(a)) /\ SumOver(a) = it(a)[S]
  BY <1>1 DEF Sizes
<1>3. ASSUME NEW y \in S PROVE SumOver(a) = a[y] + SumOver(Over(a, S \ {y}))
  <2> PICK T : T = S \ {y}
    OBVIOUS
  <2> PICK b : b = Over(a, T)
    OBVIOUS
  <2>1. DOMAIN b = T /\ b \in [T -> Nat] /\ \A x \in T : b[x] = a[x]
    BY <1>2 DEF Over
  <2>2. IsFiniteSet(T)
    BY <1>2, FS_RemoveElement
  <2>3. Totals(T, b, it(b)) /\ SumOver(b) = it(b)[T]
    BY <1>1, <2>1, <2>2, ZenonT(60) DEF Sizes
  <2>4. AddsUp(T, b, it(a))
    <3>1. \A X \in SUBSET T : X # {} => b[First(X)] = a[First(X)]
      BY <2>1 DEF First
    <3> QED BY <1>2, <3>1 DEF AddsUp
  <2>5. AddsUp(T, b, it(b))
    BY <1>1, <2>1, <2>2 DEF Sizes
  <2>9. it(a)[T] = it(b)[T]
    BY <2>2, <2>4, <2>5, OneSum
  <2>10. it(a)[S] = a[y] + it(a)[T]
    BY <1>2 DEF Totals, SumOf
  <2> QED BY <1>2, <2>3, <2>9, <2>10
<1>4. it(a)[S] \in Nat /\ it(a)[{}] = 0
  BY <1>2 DEF Totals, SumOf
<1> QED
  BY <1>2, <1>3, <1>4

\* Two that differ at one member differ in their sums by as much.
LEMMA SumsDiffer ==
  ASSUME NEW a, Sizes(a), NEW b, Sizes(b), DOMAIN a = DOMAIN b, NEW y \in DOMAIN a,
         \A x \in DOMAIN a : x # y => a[x] = b[x]
  PROVE  SumOver(b) = SumOver(a) - a[y] + b[y] /\ a[y] <= SumOver(a)
<1> PICK S : S = DOMAIN a \ {y}
  OBVIOUS
<1>1. Over(a, S) = Over(b, S)
  BY DEF Over
<1>2. SumOver(a) = a[y] + SumOver(Over(a, S)) /\ SumOver(b) = b[y] + SumOver(Over(b, S))
  BY SumIs
<1>3. Sizes(Over(a, S))
  <2>1. IsFiniteSet(S)
    BY FS_RemoveElement DEF Sizes
  <2> QED BY <2>1 DEF Sizes, Over
<1>4. SumOver(Over(a, S)) \in Nat /\ a[y] \in Nat /\ b[y] \in Nat
  BY <1>3, SumIs DEF Sizes
<1> QED
  BY <1>1, <1>2, <1>4

\* With the sizes of some members gone, the sum is less by theirs.
LEMMA SumWithout ==
  ASSUME NEW a, Sizes(a), NEW T \in SUBSET DOMAIN a
  PROVE  /\ SumOver([x \in DOMAIN a |-> IF x \in T THEN 0 ELSE a[x]]) = SumOver(a) - SumOver(Over(a, T))
         /\ SumOver(Over(a, T)) \in Nat
<1> DEFINE z(X) == [x \in DOMAIN a |-> IF x \in X THEN 0 ELSE a[x]]
           P == {m \in Nat : \A X \in SUBSET DOMAIN a :
                    Cardinality(X) <= m => SumOver(z(X)) = SumOver(a) - SumOver(Over(a, X))}
<1>1. \A X \in SUBSET DOMAIN a : IsFiniteSet(X) /\ Cardinality(X) \in Nat /\ (Cardinality(X) = 0 <=> X = {})
  BY FS_Subset, FS_CardinalityType, FS_EmptySet DEF Sizes
<1>2. ASSUME NEW X \in SUBSET DOMAIN a
      PROVE  Sizes(Over(a, X)) /\ Sizes(z(X)) /\ DOMAIN z(X) = DOMAIN a /\ DOMAIN Over(a, X) = X
             /\ \A x \in DOMAIN a : z(X)[x] = IF x \in X THEN 0 ELSE a[x]
  BY <1>1 DEF Sizes, Over
<1>3. 0 \in P
  <2>1. SumOver(Over(a, {})) = 0
    BY <1>2, SumIs
  <2>2. z({}) = a
    BY DEF Sizes
  <2>3. SumOver(a) \in Nat
    BY SumIs
  <2> HIDE DEF z
  <2> QED BY <1>1, <2>1, <2>2, <2>3
<1>4. ASSUME NEW m \in Nat, m \in P PROVE m + 1 \in P
  <2>1. ASSUME NEW X \in SUBSET DOMAIN a, Cardinality(X) <= m + 1, X # {}
        PROVE  SumOver(z(X)) = SumOver(a) - SumOver(Over(a, X))
    <3> PICK y \in X : TRUE
      BY <2>1
    <3> PICK Y : Y = X \ {y}
      OBVIOUS
    <3>1. Cardinality(Y) <= m
      <4>1. Cardinality(Y) = Cardinality(X) - 1
        BY <1>1, FS_RemoveElement
      <4> QED BY <1>1, <2>1, <4>1
    <3>2. SumOver(z(Y)) = SumOver(a) - SumOver(Over(a, Y))
      <4> HIDE DEF z
      <4> QED BY <1>4, <3>1
    <3>3. Over(Over(a, X), X \ {y}) = Over(a, Y) /\ Over(a, X)[y] = a[y]
      BY DEF Over
    <3>4. SumOver(Over(a, X)) = a[y] + SumOver(Over(a, Y))
      <4> PICK u : u = Over(a, X)
        OBVIOUS
      <4>1. Sizes(u) /\ DOMAIN u = X
        BY <1>2
      <4>2. SumOver(u) = u[y] + SumOver(Over(u, X \ {y}))
        BY <4>1, SumIs
      <4> QED BY <3>3, <4>2
    <3>5. /\ z(Y)[y] = a[y] /\ z(X)[y] = 0 /\ y \in DOMAIN a
          /\ \A x \in DOMAIN a : x # y => z(Y)[x] = z(X)[x]
      OBVIOUS
    <3>6. SumOver(z(X)) = SumOver(z(Y)) - z(Y)[y] + z(X)[y]
      <4>1. Sizes(z(X)) /\ Sizes(z(Y)) /\ DOMAIN z(X) = DOMAIN a /\ DOMAIN z(Y) = DOMAIN a
        <5> HIDE DEF z
        <5> QED BY <1>2
      <4> PICK u : u = z(X)
        OBVIOUS
      <4> PICK v : v = z(Y)
        OBVIOUS
      <4>2. Sizes(u) /\ Sizes(v) /\ DOMAIN u = DOMAIN v /\ y \in DOMAIN v /\ \A x \in DOMAIN v : x # y => v[x] = u[x]
        <5> HIDE DEF z
        <5> QED BY <3>5, <4>1
      <4>3. SumOver(u) = SumOver(v) - v[y] + u[y]
        BY <4>2, SumsDiffer
      <4> HIDE DEF z
      <4> QED BY <4>3
    <3>7. SumOver(a) \in Nat /\ SumOver(Over(a, Y)) \in Nat /\ a[y] \in Nat
      <4>1. Sizes(Over(a, Y))
        BY <1>2
      <4> QED BY <4>1, SumIs DEF Sizes
    <3> HIDE DEF z
    <3> QED BY <3>2, <3>4, <3>5, <3>6, <3>7
  <2>2. ASSUME NEW X \in SUBSET DOMAIN a, Cardinality(X) <= m + 1 PROVE SumOver(z(X)) = SumOver(a) - SumOver(Over(a, X))
    <3>1. CASE X = {}
      <4> HIDE DEF z
      <4> QED BY <1>1, <1>3, <3>1
    <3>2. CASE X # {}
      <4> HIDE DEF z
      <4> QED BY <2>1, <2>2, <3>2
    <3> QED BY <3>1, <3>2
  <2> HIDE DEF z
  <2> QED BY <2>2
<1>5. Cardinality(T) \in P
  <2> HIDE DEF P
  <2> QED BY <1>1, <1>3, <1>4, Induction
<1>6. SumOver(z(T)) = SumOver(a) - SumOver(Over(a, T))
  <2> HIDE DEF z
  <2> QED BY <1>1, <1>5
<1>7. SumOver(Over(a, T)) \in Nat
  BY <1>2, SumIs
<1> QED
  BY <1>6, <1>7

\* A set counts the bytes of its parts.
CountsRight(e) ==
  /\ e.total \in Nat /\ (e.total = 0 => e = Closed)
  /\ IsFiniteSet(e.parts) /\ e.parts \subseteq Parts /\ e.bytes = Bytes(e.parts)

BytesHeld == [k \in Adus |-> partial[k].bytes]

CountInvariant ==
  /\ \A k \in Adus : CountsRight(partial[k])
  /\ partialBytes = SumOver(BytesHeld) /\ partialBytes <= MaxReassemblyBytes

\* What the parts have is a number, none where there is no part, and one part
\* adds its own.
LEMMA BytesAre ==
  ASSUME NEW parts, IsFiniteSet(parts), parts \subseteq Parts
  PROVE  /\ Bytes(parts) \in Nat /\ (parts = {} => Bytes(parts) = 0)
         /\ \A p \in Parts : p \notin parts => Bytes(parts \cup {p}) = Bytes(parts) + p.len
<1> DEFINE size(S) == [p \in S |-> p.len]
<1>1. ASSUME NEW S, IsFiniteSet(S), S \subseteq Parts
      PROVE  /\ Sizes(size(S)) /\ DOMAIN size(S) = S /\ Bytes(S) = SumOver(size(S))
             /\ \A p \in S : size(S)[p] = p.len
  BY <1>1 DEF Sizes, Parts, Bytes
<1>2. Bytes(parts) \in Nat /\ (parts = {} => Bytes(parts) = 0)
  <2> PICK a : a = size(parts)
    OBVIOUS
  <2>1. Sizes(a) /\ DOMAIN a = parts /\ Bytes(parts) = SumOver(a)
    BY <1>1
  <2> QED BY <2>1, SumIs
<1>3. ASSUME NEW p \in Parts, p \notin parts PROVE Bytes(parts \cup {p}) = Bytes(parts) + p.len
  <2> PICK S : S = parts \cup {p}
    OBVIOUS
  <2>1. IsFiniteSet(S) /\ S \subseteq Parts /\ S \ {p} = parts /\ p \in S
    BY <1>3, FS_AddElement
  <2> PICK a : a = size(S)
    OBVIOUS
  <2>2. Sizes(a) /\ DOMAIN a = S /\ Bytes(S) = SumOver(a) /\ a[p] = p.len
    BY <1>1, <2>1
  <2>3. Over(a, parts) = size(parts)
    BY <2>1 DEF Over
  <2>4. SumOver(a) = a[p] + SumOver(Over(a, S \ {p}))
    BY <2>1, <2>2, SumIs
  <2>5. SumOver(a) = p.len + Bytes(parts)
    <3> HIDE DEF size
    <3> QED BY <1>1, <2>1, <2>2, <2>3, <2>4
  <2>6. p.len \in Nat
    BY DEF Parts
  <2> HIDE DEF size
  <2> QED BY <1>2, <2>2, <2>5, <2>6
<1> QED
  BY <1>2, <1>3

\* A closed set counts nothing.
LEMMA ClosedCounts == CountsRight(Closed) /\ Closed.bytes = 0
<1>1. Closed.parts = {} /\ Closed.bytes = 0 /\ Closed.total = 0
  BY DEF Closed
<1>2. IsFiniteSet({})
  BY FS_EmptySet
<1>3. Bytes({}) = 0
  BY <1>2, BytesAre
<1> QED
  BY <1>1, <1>2, <1>3 DEF CountsRight

\* The sets' bytes.
LEMMA HeldBytes ==
  ASSUME NEW sets, \A k \in Adus : CountsRight(sets[k])
  PROVE  Sizes([k \in Adus |-> sets[k].bytes])
<1>1. \A k \in Adus : sets[k].bytes \in Nat
  BY BytesAre DEF CountsRight
<1> QED
  BY <1>1, PieceAssumption DEF Sizes

AllCount(sets) == sets = [k \in Adus |-> sets[k]] /\ \A k \in Adus : CountsRight(sets[k])

Held(sets) == SumOver([k \in Adus |-> sets[k].bytes])

\* When one set changes, the sum does by as much.
LEMMA OneSetChanges ==
  ASSUME NEW sets, AllCount(sets), NEW y \in Adus, NEW e, CountsRight(e),
         NEW next, next = [sets EXCEPT ![y] = e]
  PROVE  AllCount(next) /\ Held(next) = Held(sets) - sets[y].bytes + e.bytes /\ sets[y].bytes <= Held(sets)
<1>1. next = [k \in Adus |-> next[k]] /\ \A k \in Adus : next[k] = IF k = y THEN e ELSE sets[k]
  BY DEF AllCount
<1>2. \A k \in Adus : CountsRight(next[k])
  BY <1>1 DEF AllCount
<1> PICK a : a = [k \in Adus |-> sets[k].bytes]
  OBVIOUS
<1> PICK b : b = [k \in Adus |-> next[k].bytes]
  OBVIOUS
<1>3. Sizes(a) /\ Sizes(b)
  BY <1>2, HeldBytes DEF AllCount
<1>4. DOMAIN a = Adus /\ DOMAIN b = Adus /\ a[y] = sets[y].bytes /\ b[y] = e.bytes
      /\ \A k \in Adus : k # y => a[k] = b[k]
  BY <1>1
<1>5. SumOver(b) = SumOver(a) - a[y] + b[y] /\ a[y] <= SumOver(a)
  BY <1>3, <1>4, SumsDiffer
<1> QED
  BY <1>1, <1>2, <1>4, <1>5, SMTT(60) DEF AllCount, Held

\* What is left when stale sets are gone is what the others hold.
LEMMA KeptIs ==
  ASSUME CountInvariant
  PROVE  LET fresh == [k \in Adus |-> IF Stale(k) THEN Closed ELSE partial[k]]
         IN  /\ \A k \in Adus : CountsRight(fresh[k])
             /\ Kept = SumOver([k \in Adus |-> fresh[k].bytes]) /\ Kept \in Nat /\ Kept <= partialBytes
<1> PICK fresh : fresh = [k \in Adus |-> IF Stale(k) THEN Closed ELSE partial[k]]
  OBVIOUS
<1> PICK T : T = {k \in Adus : Stale(k)}
  OBVIOUS
<1> PICK a : a = BytesHeld
  OBVIOUS
<1>1. \A k \in Adus : CountsRight(fresh[k])
  BY ClosedCounts DEF CountInvariant
<1>2. Sizes(a) /\ DOMAIN a = Adus /\ \A k \in Adus : a[k] = partial[k].bytes
  BY HeldBytes DEF BytesHeld, CountInvariant
<1>3. [k \in Adus |-> fresh[k].bytes] = [k \in Adus |-> IF k \in T THEN 0 ELSE a[k]]
  BY <1>2, ClosedCounts
<1>4. Over(a, T) = [k \in {x \in Adus : Stale(x)} |-> partial[k].bytes]
  BY <1>2 DEF Over
<1>5. SumOver([k \in Adus |-> IF k \in T THEN 0 ELSE a[k]]) = SumOver(a) - SumOver(Over(a, T))
      /\ SumOver(Over(a, T)) \in Nat
  <2>1. T \in SUBSET DOMAIN a
    BY <1>2
  <2> QED BY <1>2, <2>1, SumWithout
<1>6. Kept = SumOver(a) - SumOver(Over(a, T))
  BY <1>4 DEF Kept, CountInvariant
<1>7. SumOver([k \in Adus |-> fresh[k].bytes]) \in Nat
  <2>1. Sizes([k \in Adus |-> fresh[k].bytes])
    BY <1>1, HeldBytes
  <2> QED BY <2>1, SumIs
<1>8. SumOver(a) \in Nat /\ partialBytes = SumOver(a)
  BY <1>2, SumIs DEF CountInvariant
<1> QED
  BY <1>1, <1>3, <1>5, <1>6, <1>7, <1>8

\* The buffer's count is what the sets count.
LEMMA CountSafe == CountInvariant => BufferIsCounted
<1> SUFFICES ASSUME CountInvariant PROVE BufferIsCounted
  OBVIOUS
<1>1. BytesHeld = [k \in Adus |-> Bytes(partial[k].parts)]
  BY DEF BytesHeld, CountInvariant, CountsRight
<1> QED
  BY <1>1 DEF CountInvariant, BufferIsCounted

\* No set, nothing counted.
LEMMA NothingHeld ==
  LET sets == [k \in Adus |-> Closed]
  IN  (\A k \in Adus : CountsRight(sets[k])) /\ SumOver([k \in Adus |-> sets[k].bytes]) = 0
<1> PICK sets : sets = [k \in Adus |-> Closed]
  OBVIOUS
<1>1. \A k \in Adus : CountsRight(sets[k]) /\ sets[k].bytes = 0
  BY ClosedCounts
<1> PICK a : a = [k \in Adus |-> sets[k].bytes]
  OBVIOUS
<1>2. Sizes(a) /\ DOMAIN a = Adus /\ \A k \in Adus : a[k] = 0
  BY <1>1, HeldBytes
<1>3. [x \in DOMAIN a |-> IF x \in Adus THEN 0 ELSE a[x]] = a /\ Over(a, Adus) = a
  BY <1>2 DEF Over, Sizes
<1>4. SumOver(a) = SumOver(a) - SumOver(a) /\ SumOver(a) \in Nat
  BY <1>2, <1>3, SumWithout
<1>5. SumOver(a) = 0
  BY <1>4
<1> QED
  BY <1>1, <1>5

\* A piece comes.
LEMMA PieceCounted ==
  ASSUME CountInvariant, NEW x \in Pieces, x.total # 0, TakePiece(x)
  PROVE  CountInvariant'
<1> DEFINE fresh == [k \in Adus |-> IF Stale(k) THEN Closed ELSE partial[k]]
           e == IF fresh[x.adu].total > 0 THEN fresh[x.adu]
                ELSE [Closed EXCEPT !.total = x.total, !.since = pieceTime]
           new == ~\E p \in e.parts : p.at = x.at
           fits == Kept + x.len <= MaxReassemblyBytes
           piece == [at |-> x.at, len |-> x.len]
           parts == IF new THEN e.parts \cup {piece} ELSE e.parts
           more == IF new THEN x.len ELSE 0
           first == e.first \/ x.at = 0
           grown == [e EXCEPT !.parts = parts, !.bytes = @ + more, !.first = first]
           total(sets) == SumOver([k \in Adus |-> sets[k].bytes])
<1>1. x.adu \in Adus /\ x.total \in Nat \ {0} /\ x.at \in Nat /\ x.len \in Nat /\ piece \in Parts
      /\ piece.at = x.at /\ piece.len = x.len
  BY PieceAssumption DEF Parts
<1>2. /\ \A k \in Adus : CountsRight(fresh[k])
      /\ Kept = total(fresh) /\ Kept \in Nat /\ Kept <= partialBytes
  BY KeptIs
<1>3. fresh = [k \in Adus |-> fresh[k]]
  OBVIOUS
<1>4. CountsRight(e) /\ e.bytes = fresh[x.adu].bytes /\ e.bytes \in Nat
  <2>1. CASE fresh[x.adu].total > 0
    <3> HIDE DEF fresh
    <3> QED BY <1>1, <1>2, <2>1, BytesAre DEF CountsRight
  <2>2. CASE ~(fresh[x.adu].total > 0)
    <3>1. fresh[x.adu] = Closed
      <4> HIDE DEF fresh
      <4> QED BY <1>1, <1>2, <2>2 DEF CountsRight
    <3>2. e.total = x.total /\ e.parts = Closed.parts /\ e.bytes = Closed.bytes
      BY <2>2 DEF Closed
    <3> HIDE DEF e
    <3> QED BY <1>1, <3>1, <3>2, ClosedCounts DEF CountsRight
  <2> QED BY <2>1, <2>2
<1>5. CountsRight(grown) /\ grown.bytes = e.bytes + more
  <2>1. grown.total = e.total /\ grown.parts = parts /\ grown.bytes = e.bytes + more
    OBVIOUS
  <2>2. Bytes(parts) = e.bytes + more /\ IsFiniteSet(parts) /\ parts \subseteq Parts
    <3>1. IsFiniteSet(e.parts) /\ e.parts \subseteq Parts /\ e.bytes = Bytes(e.parts)
      BY <1>4 DEF CountsRight
    <3> HIDE DEF e, piece
    <3>2. CASE new
      <4>1. piece \notin e.parts
        BY <1>1, <3>2
      <4>2. IsFiniteSet(e.parts \cup {piece})
        BY <3>1, FS_AddElement
      <4> QED BY <1>1, <3>1, <3>2, <4>1, <4>2, BytesAre
    <3>3. CASE ~new
      BY <1>4, <3>1, <3>3, SMTT(60)
    <3> QED BY <3>2, <3>3, SMTT(60)
  <2>3. e.total # 0 /\ e.total \in Nat
    <3>1. e.total > 0
      BY <1>1, SMTT(60) DEF Closed
    <3> QED BY <1>4, <3>1 DEF CountsRight
  <2> HIDE DEF grown, parts, more, e
  <2> QED BY <2>1, <2>2, <2>3 DEF CountsRight
<1>6. \/ /\ partial' = [fresh EXCEPT ![x.adu] = e] /\ partialBytes' = Kept
      \/ /\ partial' = [fresh EXCEPT ![x.adu] = Closed] /\ partialBytes' = Kept - e.bytes
      \/ /\ partial' = [fresh EXCEPT ![x.adu] = grown] /\ partialBytes' = Kept + more /\ (new => fits)
  BY DEF TakePiece
<1>7. new => more = x.len
  OBVIOUS
<1>8. ~new => more = 0
  OBVIOUS
<1>9. partialBytes <= MaxReassemblyBytes /\ MaxReassemblyBytes \in Nat /\ partialBytes \in Int
  <2>1. Sizes(BytesHeld)
    BY HeldBytes DEF BytesHeld, CountInvariant
  <2> QED BY <2>1, SumIs, PieceAssumption DEF CountInvariant
<1>10. ASSUME NEW f, CountsRight(f), partial' = [fresh EXCEPT ![x.adu] = f], partialBytes' = Kept - e.bytes + f.bytes,
              partialBytes' <= MaxReassemblyBytes
       PROVE  CountInvariant'
  <2> PICK sets : sets = fresh
    OBVIOUS
  <2> PICK next : next = [sets EXCEPT ![x.adu] = f]
    OBVIOUS
  <2>1. partial' = next
    BY <1>10
  <2>2. AllCount(sets) /\ Kept = Held(sets)
    <3>1. sets = [k \in Adus |-> sets[k]]
      OBVIOUS
    <3> HIDE DEF fresh
    <3> QED BY <1>2, <3>1 DEF AllCount, Held
  <2>3. AllCount(next) /\ Held(next) = Held(sets) - sets[x.adu].bytes + f.bytes
    <3> HIDE DEF fresh, e, new, piece, parts, more, first, grown, total
    <3> QED BY <1>1, <1>10, <2>2, OneSetChanges, ZenonT(60)
  <2>4. sets[x.adu].bytes = e.bytes
    <3> HIDE DEF fresh, e
    <3> QED BY <1>4
  <2>5. CountInvariant' <=> /\ \A k \in Adus : CountsRight(partial'[k])
                            /\ partialBytes' = Held(partial') /\ partialBytes' <= MaxReassemblyBytes
    BY DEF CountInvariant, BytesHeld, CountsRight, Held
  <2> HIDE DEF fresh, e
  <2> QED BY <1>10, <2>1, <2>2, <2>3, <2>4, <2>5 DEF AllCount
<1>11. e.bytes <= Kept
  <2> PICK sets : sets = fresh
    OBVIOUS
  <2>1. sets = [k \in Adus |-> sets[k]]
    OBVIOUS
  <2>2. AllCount(sets) /\ Kept = Held(sets) /\ sets[x.adu].bytes = e.bytes
    <3> HIDE DEF fresh, e
    <3> QED BY <1>2, <1>4, <2>1 DEF AllCount, Held
  <2> PICK next : next = [sets EXCEPT ![x.adu] = e]
    OBVIOUS
  <2>3. sets[x.adu].bytes <= Held(sets)
    <3> HIDE DEF fresh, e
    <3> QED BY <1>1, <1>4, <2>2, OneSetChanges
  <2> HIDE DEF fresh, e
  <2> QED BY <2>2, <2>3
<1>12. CountsRight(Closed) /\ Closed.bytes = 0
  BY ClosedCounts
<1> HIDE DEF fresh, e, new, piece, parts, more, first, grown, total
<1>13. CASE partial' = [fresh EXCEPT ![x.adu] = e] /\ partialBytes' = Kept
  <2>1. partialBytes' = Kept - e.bytes + e.bytes /\ partialBytes' <= MaxReassemblyBytes
    BY <1>2, <1>4, <1>9, <1>13
  <2> QED BY <1>4, <1>10, <1>13, <2>1
<1>14. CASE partial' = [fresh EXCEPT ![x.adu] = Closed] /\ partialBytes' = Kept - e.bytes
  <2>1. partialBytes' = Kept - e.bytes + Closed.bytes /\ partialBytes' <= MaxReassemblyBytes
    BY <1>2, <1>4, <1>9, <1>12, <1>14
  <2> QED BY <1>10, <1>12, <1>14, <2>1
<1>15. CASE partial' = [fresh EXCEPT ![x.adu] = grown] /\ partialBytes' = Kept + more /\ (new => fits)
  <2>1. partialBytes' <= MaxReassemblyBytes /\ more \in Nat
    BY <1>1, <1>2, <1>7, <1>8, <1>9, <1>15
  <2>2. partialBytes' = Kept - e.bytes + grown.bytes
    BY <1>2, <1>4, <1>5, <1>15, <2>1
  <2> QED BY <1>5, <1>10, <1>15, <2>1, <2>2
<1> QED
  BY <1>6, <1>13, <1>14, <1>15

\* Every step of the reassembly.
LEMMA CountStep == CountInvariant /\ [PieceNext]_pieceVars => CountInvariant'
<1> SUFFICES ASSUME CountInvariant, [PieceNext]_pieceVars PROVE CountInvariant'
  OBVIOUS
<1>1. CASE UNCHANGED <<partial, partialBytes>>
  BY <1>1 DEF CountInvariant, BytesHeld
<1>2. CASE GatewayRestart
  <2>1. partial' = [k \in Adus |-> Closed] /\ partialBytes' = 0
    BY <1>2 DEF GatewayRestart
  <2>2. CountInvariant' <=> /\ \A k \in Adus : CountsRight(partial'[k])
                            /\ partialBytes' = SumOver([k \in Adus |-> partial'[k].bytes])
                            /\ partialBytes' <= MaxReassemblyBytes
    BY DEF CountInvariant, BytesHeld, CountsRight
  <2> QED BY <2>1, <2>2, NothingHeld, PieceAssumption
<1>3. CASE PieceArrives
  <2>1. PICK x \in Pieces : IF x.total = 0 \/ x.at + x.len > x.total
                            THEN UNCHANGED <<partial, partialBytes, cameIn, rebuilt>>
                            ELSE TakePiece(x)
    BY <1>3 DEF PieceArrives
  <2>2. CASE x.total # 0 /\ TakePiece(x)
    BY <2>2, PieceCounted
  <2> QED BY <1>1, <2>1, <2>2
<1> QED
  BY <1>1, <1>2, <1>3 DEF PieceNext, PieceTick, pieceVars

\* The gateway's buffer counts the bytes that are in it, whatever pieces come,
\* are refused or grow stale, and keeps within its limit (gateway.mjs:220-232).
THEOREM BufferKeepsCount == Spec => []BufferIsCounted
<1>1. Init => CountInvariant
  <2> SUFFICES ASSUME Init PROVE CountInvariant
    OBVIOUS
  <2>1. partial = [k \in Adus |-> Closed] /\ partialBytes = 0
    BY DEF Init, PieceInit
  <2>2. partialBytes <= MaxReassemblyBytes
    BY <2>1, PieceAssumption
  <2> QED
    BY <2>1, <2>2, NothingHeld DEF CountInvariant, BytesHeld
<1>2. CountInvariant /\ [Next]_vars => CountInvariant'
  <2> SUFFICES ASSUME CountInvariant, [Next]_vars PROVE CountInvariant'
    OBVIOUS
  <2>1. PieceNext \/ UNCHANGED pieceVars
    BY DEF Next, Fly, PayUp, RunSpike, GrowTree, KeepKeys, Stamp, Haul, Account, PutTogether, vars
  <2> QED
    BY <2>1, CountStep
<1>3. CountInvariant => BufferIsCounted
  BY CountSafe
<1> QED
  BY <1>1, <1>2, <1>3, PTL DEF Spec

\* However a bundle is cut on its way, damaged, short or too long, the fast
\* path passes on what the slow path would (fast-stamp.mjs:17-18), what was
\* passed on reads, holds its integrity blocks and a receipt of each custodian
\* (custody-block.mjs:9-13), and the gateway's buffer counts the bytes that are
\* in it (gateway.mjs:220-232).
THEOREM NothingIsLostInParts == Spec => []PartsAreKept
<1>1. Init => StreamInvariant
  BY StreamBegins DEF Init
<1>2. StreamInvariant /\ [Next]_vars => StreamInvariant'
  <2> SUFFICES ASSUME StreamInvariant, [Next]_vars PROVE StreamInvariant'
    OBVIOUS
  <2>1. [StreamNext]_streamVars
    BY DEF Next, Fly, PayUp, RunSpike, GrowTree, KeepKeys, Stamp, Haul, Account, PutTogether, vars
  <2> QED
    BY <2>1, StreamKeeps
<1>3. StreamInvariant => StampedRight
  BY StreamAgrees, StreamSeals DEF StampedRight
<1>4. Spec => []StampedRight
  BY <1>1, <1>2, <1>3, PTL DEF Spec
<1> QED
  BY <1>4, BufferKeepsCount, PTL DEF PartsAreKept

=============================================================================
