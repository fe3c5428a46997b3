-------------------------- MODULE JpegCodec_proofs --------------------------
(***************************************************************************)
(* The two ends of libjpeg, for images of any size and layout: the scan    *)
(* of JpegScan and JpegEntropy, and the transformations of JpegTransform.  *)
(*                                                                         *)
(* ScansExactly. The entropy decoder is followed through a stream that may *)
(* be torn: what is in the stream (IntactLaid, NearTear, FarTear), what a  *)
(* restart finds there (RestartProcessed) and what the next MCU is read    *)
(* from (BitsDecoded) keep the decoder on its way (Coming, ComingMCU), MCU *)
(* by MCU of a call (RowDecoded). The buffer then has the MCUs of its iMCU *)
(* row (FilledRight), and its lines go out in their places (LineInBuffer,  *)
(* UpsampleEmits). The inductive invariant is ScanInv.                     *)
(*                                                                         *)
(* TransformsExactly. A block that is changed wave by wave decodes to      *)
(* mirrored or transposed samples (BlockTransformed); the output that      *)
(* jtransform_request_workspace sizes lies in the transformed image        *)
(* (AxisFramed), so that what its blocks are taken from is in the arrays   *)
(* of the source (OutputBlocks, Places); each do_... routine takes the     *)
(* right blocks (the lemmas ...Shown and ...Placed).                       *)
(***************************************************************************)
EXTENDS JpegScan, JpegTransform, FiniteSetTheorems, WellFoundedInduction, TLAPS

-----------------------------------------------------------------------------
(***************************************************************************)
(* Arithmetic                                                              *)
(***************************************************************************)
LEMMA Divided ==
    ASSUME NEW a \in Int, NEW d \in Nat \ {0}
    PROVE  /\ a \div d \in Int /\ a % d \in 0..(d - 1) /\ a = (a \div d) * d + (a % d)
           /\ a \in Nat => a \div d \in Nat
OBVIOUS

\* The product of two natural numbers is one.
LEMMA Product ==
    ASSUME NEW a \in Nat, NEW b \in Nat
    PROVE  a * b \in Nat
OBVIOUS

\* Multiplying by a positive number keeps the order.
LEMMA MonotoneProduct ==
    ASSUME NEW a \in Int, NEW b \in Int, NEW d \in Nat \ {0}
    PROVE  /\ a < b <=> a * d < b * d
           /\ a <= b <=> a * d <= b * d
           /\ a = b <=> a * d = b * d
OBVIOUS

\* Quotient and remainder are what the sum of a multiple and less than the divisor says.
LEMMA DividesUniquely ==
    ASSUME NEW q \in Int, NEW d \in Nat \ {0}, NEW r \in 0..(d - 1)
    PROVE  (q * d + r) \div d = q /\ (q * d + r) % d = r
OBVIOUS

\* A multiple of the divisor goes into the quotient.
LEMMA Multiple ==
    ASSUME NEW q \in Int, NEW d \in Nat \ {0}, NEW a \in Int
    PROVE  (q * d + a) \div d = q + (a \div d) /\ (q * d + a) % d = a % d
<1> DEFINE b == a \div d
           r == a % d
<1>1. b \in Int /\ r \in 0..(d - 1) /\ a = b * d + r
  BY Divided
<1> HIDE DEF b, r
<1>2. q * d + a = (q + b) * d + r
  BY <1>1
<1>3. ((q + b) * d + r) \div d = q + b /\ ((q + b) * d + r) % d = r
  BY <1>1, DividesUniquely
<1> QED
  BY <1>2, <1>3 DEF b, r

\* Rounding up: the smallest multiple that is not below the number.
LEMMA RoundUp ==
    ASSUME NEW a \in Nat, NEW d \in Nat \ {0}
    PROVE  /\ jdiv_round_up(a, d) \in Nat
           /\ a <= jdiv_round_up(a, d) * d /\ jdiv_round_up(a, d) * d < a + d
           /\ \A x \in Int : x < jdiv_round_up(a, d) <=> x * d < a
<1> DEFINE q == jdiv_round_up(a, d)
           n == a + d - 1
<1>1. q \in Nat /\ n % d \in 0..(d - 1) /\ n = q * d + (n % d) /\ n = a + d - 1
  <2>1. n \in Nat
    OBVIOUS
  <2>2. q = n \div d
    BY DEF jdiv_round_up
  <2> HIDE DEF q, n
  <2>3. q \in Nat /\ n % d \in 0..(d - 1) /\ n = q * d + (n % d)
    BY <2>1, <2>2
  <2> QED
    BY <2>3 DEF n
<1> HIDE DEF q
<1>2. q * d \in Nat /\ a <= q * d /\ q * d < a + d
  BY <1>1
<1>3. ASSUME NEW x \in Int
      PROVE  x < q <=> x * d < a
  <2>1. CASE x < q
    <3>1. (x + 1) * d <= q * d
      BY <1>1, <2>1, MonotoneProduct
    <3>2. (x + 1) * d = x * d + d /\ x * d \in Int
      OBVIOUS
    <3> QED
      BY <1>2, <2>1, <3>1, <3>2
  <2>2. CASE x >= q
    <3>1. q * d <= x * d /\ x * d \in Int
      BY <1>1, <2>2, MonotoneProduct
    <3> QED
      BY <1>1, <1>2, <2>2, <3>1
  <2> QED
    BY <1>1, <2>1, <2>2
<1> QED
  BY <1>1, <1>2, <1>3 DEF q

(***************************************************************************)
(* Scans. Markers and what is made of them.                                *)
(***************************************************************************)
LEMMA MinExists ==
    ASSUME NEW S \in SUBSET Nat, S # {}
    PROVE  Min(S) \in S /\ \A k \in S : Min(S) <= k
<1> DEFINE R == {ss \in Nat \X Nat : ss[1] < ss[2]}
<1>1. IsWellFoundedOn(R, Nat)
  BY NatLessThanWellFounded DEF OpToRel
<1>2. \A a, b \in Nat : <<a, b>> \in R <=> a < b
  OBVIOUS
<1> HIDE DEF R
<1>3. PICK x \in S : \A z \in S : ~(<<z, x>> \in R)
  BY <1>1, WFMin
<1>4. ASSUME NEW z \in S PROVE x <= z
  <2>1. x \in Nat /\ z \in Nat
    OBVIOUS
  <2>2. ~(z < x)
    BY <1>2, <1>3, <2>1
  <2> QED
    BY <2>1, <2>2
<1> QED
  BY <1>4 DEF Min

\* The kinds of tokens are told apart.
LEMMA TokensApart ==
    /\ None \notin Markers /\ Junk \notin Markers /\ \A k : MCU(k) \notin Markers
    /\ Invalid \in Markers /\ EOI \in Markers /\ Invalid # EOI /\ Junk # None
    /\ \A n : RST(n) # EOI /\ RST(n) # Invalid /\ RST(n) # None
    /\ \A n \in 0..7 : RST(n) \in Markers
    /\ \A m, n : RST(m) = RST(n) => m = n
    /\ \A x \in Markers : x = Invalid \/ x = EOI \/ \E n \in 0..7 : x = RST(n)
    /\ \A k : MCU(k)[1] = "MCU" /\ MCU(k)[2] = k /\ MCU(k) # None
BY SMT DEF None, Junk, Invalid, EOI, MCU, RST, Markers

\* What jpeg_resync_to_restart makes of the markers around the one that is due.
LEMMA RecoveryActions ==
    ASSUME NEW n \in Nat
    PROVE  /\ RecoveryAction(Invalid, n % 8) = "scan" /\ RecoveryAction(EOI, n % 8) = "leave"
           /\ RecoveryAction(RST(n % 8), n % 8) = "discard"
           /\ RecoveryAction(RST((n + 1) % 8), n % 8) = "leave"
           /\ RecoveryAction(RST((n + 2) % 8), n % 8) = "leave"
           /\ RecoveryAction(RST((n - 1) % 8), n % 8) = "scan"
           /\ RecoveryAction(RST((n - 2) % 8), n % 8) = "scan"
<1> DEFINE d == n % 8
<1>1. /\ d \in 0..7
      /\ (n + 1) % 8 = (d + 1) % 8 /\ (n + 2) % 8 = (d + 2) % 8
      /\ (n - 1) % 8 = (d - 1) % 8 /\ (n - 2) % 8 = (d - 2) % 8
  OBVIOUS
<1> HIDE DEF d
<1>2. /\ d # (d + 1) % 8 /\ d # (d + 2) % 8 /\ d # (d - 1) % 8 /\ d # (d - 2) % 8
      /\ (d + 1) % 8 # (d - 1) % 8 /\ (d + 1) % 8 # (d - 2) % 8
      /\ (d + 2) % 8 # (d - 1) % 8 /\ (d + 2) % 8 # (d - 2) % 8
  BY <1>1
<1>3. \A x : RecoveryAction(x, d) =
          CASE x = Invalid -> "scan"
            [] x = EOI -> "leave"
            [] x \in {RST((d + 1) % 8), RST((d + 2) % 8)} -> "leave"
            [] x \in {RST((d - 1) % 8), RST((d - 2) % 8)} -> "scan"
            [] OTHER -> "discard"
  BY DEF RecoveryAction
<1> DEFINE a == (d + 1) % 8   b == (d + 2) % 8   u == (d - 1) % 8   v == (d - 2) % 8
<1> HIDE DEF a, b, u, v
<1>4. /\ Invalid # EOI /\ \A k : RST(k) # EOI /\ RST(k) # Invalid
      /\ \A k, l : RST(k) = RST(l) => k = l
  BY TokensApart
<1>5. /\ RecoveryAction(Invalid, d) = "scan" /\ RecoveryAction(EOI, d) = "leave"
      /\ RecoveryAction(RST(d), d) = "discard"
      /\ RecoveryAction(RST(a), d) = "leave" /\ RecoveryAction(RST(b), d) = "leave"
      /\ RecoveryAction(RST(u), d) = "scan" /\ RecoveryAction(RST(v), d) = "scan"
  BY <1>2, <1>3, <1>4 DEF a, b, u, v
<1> QED
  BY <1>1, <1>5 DEF a, b, u, v, d
MCUTokens == {Junk, EOI, Invalid} \cup {MCU(k) : k \in Int} \cup {RST(k) : k \in 0..7}
\* The marker reader and the entropy decoder. It is never past the end of the image without
\* having found it.
MCUValues == {None, Junk} \cup {data[t] : t \in 1..Len(data)}
Decoders ==
    [at : 1..(Len(data) + 1), unread_marker : {None} \cup Markers, insufficient_data : BOOLEAN,
     restarts_to_go : Nat, next_restart_num : 0..7,
     last_dc_val : MCUValues]
Reading(e) == e \in Decoders /\ (e.at = Len(data) + 1 => e.unread_marker = EOI)
DataEnds == Len(data) \in Nat \ {0} /\ data[Len(data)] = EOI

\* The same decoder with another place, marker and number.
Moved(e, f, at, marker, next) ==
    /\ f \in Decoders /\ f.at = at /\ f.unread_marker = marker /\ f.next_restart_num = next
    /\ f.insufficient_data = e.insufficient_data /\ f.restarts_to_go = e.restarts_to_go
    /\ f.last_dc_val = e.last_dc_val

\* A record that is updated is the same decoder at another place.
LEMMA MovedOn ==
    ASSUME NEW e \in Decoders, NEW at \in 1..(Len(data) + 1), NEW x \in {None} \cup Markers
    PROVE  /\ Moved(e, [e EXCEPT !.at = at, !.unread_marker = x], at, x, e.next_restart_num)
           /\ Moved(e, [e EXCEPT !.unread_marker = x, !.at = at], at, x, e.next_restart_num)
BY DEF Moved, Decoders

\* The end of the image is never searched past.
LEMMA EOILeft == \A n : RecoveryAction(EOI, n) = "leave"
BY TokensApart DEF RecoveryAction

Scans(e, x) == RecoveryAction(x, e.next_restart_num) = "scan"
Discards(e, x) == RecoveryAction(x, e.next_restart_num) = "discard"

\* next_marker stops behind the first marker, or where there are no tokens.
LEMMA NextMarkerRead ==
    ASSUME NEW e, Reading(e), DataEnds, NEW limit \in Nat, limit <= Len(data), e.at <= limit + 1,
           e.unread_marker = None
    PROVE  LET r == NextMarker(e, limit)
           IN  \/ /\ ~r.ok /\ Moved(e, r.e, limit + 1, None, e.next_restart_num)
                  /\ \A t \in e.at..limit : data[t] \notin Markers
                  /\ limit < Len(data)
               \/ \E m \in e.at..limit :
                     /\ r.ok /\ Moved(e, r.e, m + 1, data[m], e.next_restart_num)
                     /\ data[m] \in Markers
                     /\ \A t \in e.at..(m - 1) : data[t] \notin Markers
<1> DEFINE ahead == {t \in e.at..limit : data[t] \in Markers}
<1>1. e \in Decoders /\ e.at \in Nat /\ e.at <= Len(data) /\ Len(data) \in Nat
  BY TokensApart DEF Reading, Decoders, DataEnds
<1>2. CASE ahead = {}
  <2>1. \A t \in e.at..limit : data[t] \notin Markers
    BY <1>2
  <2>2. limit < Len(data)
    BY <1>1, <2>1, TokensApart DEF DataEnds
  <2>3. NextMarker(e, limit) = [ok |-> FALSE, e |-> [e EXCEPT !.at = limit + 1]]
    BY <1>2 DEF NextMarker, Suspended
  <2>4. Moved(e, [e EXCEPT !.at = limit + 1], limit + 1, None, e.next_restart_num)
    BY <1>1, <2>2 DEF Moved, Decoders
  <2> QED
    BY <2>1, <2>2, <2>3, <2>4
<1>3. CASE ahead # {}
  <2> DEFINE m == Min(ahead)
  <2>1. ahead \in SUBSET Nat
    BY <1>1
  <2>2. m \in ahead /\ \A k \in ahead : m <= k
    BY <1>3, <2>1, MinExists
  <2>3. NextMarker(e, limit) =
           [ok |-> TRUE, e |-> [e EXCEPT !.unread_marker = data[m], !.at = m + 1]]
    BY <1>3 DEF NextMarker, Ok
  <2> HIDE DEF m
  <2>4. m \in e.at..limit /\ data[m] \in Markers
    BY <2>2
  <2>5. \A t \in e.at..(m - 1) : data[t] \notin Markers
    BY <1>1, <2>2, <2>4
  <2>6. Moved(e, [e EXCEPT !.unread_marker = data[m], !.at = m + 1], m + 1, data[m],
              e.next_restart_num)
    <3>1. m + 1 \in 1..(Len(data) + 1) /\ data[m] \in {None} \cup Markers
      BY <1>1, <2>4
    <3> QED
      BY <1>1, <3>1, MovedOn
  <2> QED
    BY <2>3, <2>4, <2>5, <2>6
<1> QED
  BY <1>2, <1>3

\* jpeg_resync_to_restart goes on to the first marker that it does not take for a prior one.
LEMMA Resynced ==
    ASSUME NEW e, Reading(e), DataEnds, NEW limit \in Nat, limit <= Len(data), e.at <= limit + 1,
           e.unread_marker \in Markers
    PROVE  LET r == ResyncToRestart(e, limit)
               Left(x) == IF Discards(e, x) THEN None ELSE x
           IN  \/ /\ ~Scans(e, e.unread_marker)
                  /\ r.ok /\ Moved(e, r.e, e.at, Left(e.unread_marker), e.next_restart_num)
               \/ /\ Scans(e, e.unread_marker)
                  /\ \E m \in e.at..limit :
                        /\ r.ok /\ Moved(e, r.e, m + 1, Left(data[m]), e.next_restart_num)
                        /\ data[m] \in Markers /\ ~Scans(e, data[m])
                        /\ \A t \in e.at..(m - 1) : data[t] \in Markers => Scans(e, data[t])
               \/ /\ Scans(e, e.unread_marker)
                  /\ \E u \in {e.unread_marker} \cup {data[t] : t \in e.at..limit} :
                        /\ ~r.ok /\ Moved(e, r.e, limit + 1, u, e.next_restart_num)
                        /\ u \in Markers /\ Scans(e, u)
                  /\ \A t \in e.at..limit : data[t] \in Markers => Scans(e, data[t])
                  /\ limit < Len(data)
<1> DEFINE r == ResyncToRestart(e, limit)
           n == e.next_restart_num
           Left(x) == IF Discards(e, x) THEN None ELSE x
           ahead == {t \in e.at..limit : data[t] \in Markers}
           found == {t \in ahead : ~Scans(e, data[t])}
           Decide(d) == IF RecoveryAction(d.unread_marker, n) = "discard"
                        THEN [ok |-> TRUE, e |-> [d EXCEPT !.unread_marker = None]]
                        ELSE [ok |-> TRUE, e |-> d]
<1>1. e \in Decoders /\ e.at \in Nat /\ e.at <= Len(data) + 1 /\ Len(data) \in Nat /\ n \in 0..7
  BY DEF Reading, Decoders, DataEnds
<1>2. e.at = Len(data) + 1 => ~Scans(e, e.unread_marker)
  <2>1. RecoveryAction(EOI, n) = "leave"
    BY EOILeft
  <2> QED
    BY <2>1 DEF Reading, Scans
<1>3. r = IF ~Scans(e, e.unread_marker) THEN Decide(e)
          ELSE IF found = {}
          THEN [ok |-> FALSE,
                e |-> [e EXCEPT !.at = limit + 1,
                                !.unread_marker = IF ahead = {} THEN @ ELSE data[Max(ahead)]]]
          ELSE Decide([e EXCEPT !.at = Min(found) + 1, !.unread_marker = data[Min(found)]])
  BY DEF ResyncToRestart, Scans, Ok, Suspended
<1>4. ASSUME NEW m \in 1..(Len(data) + 1), NEW x \in Markers, NEW d, Moved(e, d, m, x, n)
      PROVE  Decide(d).ok /\ Moved(e, Decide(d).e, m, Left(x), n)
  BY <1>4 DEF Moved, Decoders, Discards
<1>5. CASE ~Scans(e, e.unread_marker)
  <2>1. Moved(e, e, e.at, e.unread_marker, n) /\ e.at \in 1..(Len(data) + 1)
    BY <1>1 DEF Moved, Decoders
  <2>2. Decide(e).ok /\ Moved(e, Decide(e).e, e.at, Left(e.unread_marker), n)
    BY <1>4, <2>1
  <2> HIDE DEF Decide
  <2>3. r = Decide(e)
    BY <1>3, <1>5
  <2> HIDE DEF r
  <2> QED
    BY <1>5, <2>2, <2>3 DEF r
<1>6. CASE Scans(e, e.unread_marker) /\ found # {}
  <2> DEFINE m == Min(found)
             d == [e EXCEPT !.at = m + 1, !.unread_marker = data[m]]
  <2>1. found \in SUBSET Nat
    BY <1>1
  <2>2. m \in found /\ \A k \in found : m <= k
    BY <1>6, <2>1, MinExists
  <2>3. r = Decide(d)
    BY <1>3, <1>6
  <2> HIDE DEF m, r, Decide
  <2>4. m \in e.at..limit /\ data[m] \in Markers /\ ~Scans(e, data[m])
    BY <2>2
  <2>5. \A t \in e.at..(m - 1) : data[t] \in Markers => Scans(e, data[t])
    BY <1>1, <2>2, <2>4
  <2>6. Moved(e, d, m + 1, data[m], n) /\ m + 1 \in 1..(Len(data) + 1)
    <3>1. m + 1 \in 1..(Len(data) + 1) /\ data[m] \in {None} \cup Markers
      BY <1>1, <2>4
    <3> QED
      BY <1>1, <3>1, MovedOn
  <2>7. Decide(d).ok /\ Moved(e, Decide(d).e, m + 1, Left(data[m]), n)
    BY <1>4, <2>4, <2>6
  <2> HIDE DEF d
  <2>8. \E k \in e.at..limit :
           /\ r.ok /\ Moved(e, r.e, k + 1, Left(data[k]), n)
           /\ data[k] \in Markers /\ ~Scans(e, data[k])
           /\ \A t \in e.at..(k - 1) : data[t] \in Markers => Scans(e, data[t])
    BY <2>3, <2>4, <2>5, <2>7
  <2> QED
    BY <1>6, <2>8 DEF r
<1>7. CASE Scans(e, e.unread_marker) /\ found = {}
  <2> DEFINE u == IF ahead = {} THEN e.unread_marker ELSE data[Max(ahead)]
             d == [e EXCEPT !.at = limit + 1, !.unread_marker = u]
  <2>1. \A t \in e.at..limit : data[t] \in Markers => Scans(e, data[t])
    BY <1>7
  <2>2. limit < Len(data)
    <3>1. e.at <= Len(data)
      BY <1>1, <1>2, <1>7
    <3>2. ~Scans(e, EOI)
      <4>1. RecoveryAction(EOI, n) = "leave"
        BY EOILeft
      <4> QED
        BY <4>1 DEF Scans
    <3> QED
      BY <1>1, <2>1, <3>1, <3>2, TokensApart DEF DataEnds
  <2>3. ahead # {} => Max(ahead) \in ahead
    <3> SUFFICES ASSUME ahead # {} PROVE Max(ahead) \in ahead
      OBVIOUS
    <3> DEFINE below == {limit - t : t \in ahead}
    <3>1. below \in SUBSET Nat /\ below # {}
      BY <1>1
    <3>2. PICK k \in below : \A l \in below : k <= l
      <4>1. Min(below) \in below /\ \A l \in below : Min(below) <= l
        BY <3>1, MinExists
      <4> QED
        BY <4>1
    <3>3. PICK t \in ahead : k = limit - t
      BY <3>2
    <3>4. \A s \in ahead : t >= s
      <4> SUFFICES ASSUME NEW s \in ahead PROVE t >= s
        OBVIOUS
      <4>1. limit - s \in below /\ s \in Int /\ t \in Int
        BY <1>1
      <4>2. limit - t <= limit - s
        BY <3>2, <3>3, <4>1
      <4> QED
        BY <4>1, <4>2
    <3> HIDE DEF ahead, below
    <3> QED
      BY <3>4 DEF Max
  <2>4. /\ u \in {e.unread_marker} \cup {data[t] : t \in e.at..limit}
        /\ u \in Markers /\ Scans(e, u)
    BY <1>7, <2>1, <2>3
  <2>5. r = [ok |-> FALSE, e |-> d]
    BY <1>3, <1>7
  <2> HIDE DEF u, r
  <2>6. Moved(e, d, limit + 1, u, n)
    <3>1. limit + 1 \in 1..(Len(data) + 1) /\ u \in {None} \cup Markers
      BY <1>1, <2>2, <2>4
    <3> QED
      BY <1>1, <3>1, MovedOn
  <2> HIDE DEF d
  <2>7. ~r.ok /\ r.e = d
    BY <2>5
  <2> QED
    BY <1>7, <2>1, <2>2, <2>4, <2>6, <2>7 DEF r
<1> QED
  BY <1>5, <1>6, <1>7

\* What Ok says.
LEMMA OkRead == \A e : Ok(e).ok /\ Ok(e).e = e
BY DEF Ok

ScannedUpTo(e, m) == \A t \in e.at..m : data[t] \in Markers => Scans(e, data[t])
NoMoreThanScanned(e) == e.unread_marker = None \/ Scans(e, e.unread_marker)

\* What read_restart_marker does if the tokens up to limit are not enough for it.
StillLooking(e, f, limit) ==
    /\ NoMoreThanScanned(e) /\ ScannedUpTo(e, limit) /\ limit < Len(data)
    /\ \E u \in {None, e.unread_marker} \cup {data[t] : t \in e.at..limit} :
          /\ Moved(e, f, limit + 1, u, e.next_restart_num)
          /\ u = None \/ Scans(e, u)

\* The marker x is the first it does not take for a prior one, in front of m.
Met(e, limit, m, x) ==
    /\ x \in Markers /\ ~Scans(e, x)
    /\ \/ x = e.unread_marker /\ m = e.at
       \/ /\ NoMoreThanScanned(e)
          /\ m \in (e.at + 1)..(limit + 1) /\ x = data[m - 1] /\ ScannedUpTo(e, m - 2)
Left(e, x) == IF Discards(e, x) THEN None ELSE x

\* The steps of read_restart_marker and process_restart after that.
Restarts(e, f, m, x) ==
    /\ f \in Decoders /\ f.at = m /\ f.unread_marker = Left(e, x)
    /\ f.next_restart_num = (e.next_restart_num + 1) % 8
    /\ f.last_dc_val = None /\ f.restarts_to_go = restart_interval
    /\ f.insufficient_data = (e.insufficient_data /\ f.unread_marker # None)

\* With the desired marker, or with what is made of another one, it is the same: the desired
\* one is discarded.
LEMMA MarkerMatched ==
    ASSUME NEW e, Reading(e), DataEnds, NEW limit \in Nat, limit <= Len(data), e.at <= limit + 1,
           NEW r,
           r = Matched(IF e.unread_marker = None THEN NextMarker(e, limit) ELSE Ok(e), e, limit)
    PROVE  \/ ~r.ok /\ StillLooking(e, r.e, limit)
           \/ r.ok /\ \E m, x : /\ Met(e, limit, m, x)
                                /\ Moved(e, r.e, m, Left(e, x), e.next_restart_num)
<1> DEFINE n == e.next_restart_num
<1>1. /\ e \in Decoders /\ e.at \in Nat \ {0} /\ Len(data) \in Nat /\ n \in 0..7
      /\ e.unread_marker \in {None} \cup Markers
  BY DEF Reading, Decoders, DataEnds
<1>2. ASSUME NEW d, d.unread_marker = RST(n), NEW m, Moved(e, d, m, RST(n), n)
      PROVE  /\ RST(n) \in Markers /\ ~Scans(e, RST(n)) /\ Left(e, RST(n)) = None
             /\ Moved(e, [d EXCEPT !.unread_marker = None], m, None, n)
  <2>1. RecoveryAction(RST(n), n) = "discard"
    <3>1. n \in Nat /\ n % 8 = n
      BY <1>1
    <3>2. RecoveryAction(RST(n % 8), n % 8) = "discard"
      BY <3>1, RecoveryActions
    <3> QED
      BY <3>1, <3>2
  <2>2. Moved(e, [d EXCEPT !.unread_marker = None], m, None, n)
    BY <1>2 DEF Moved, Decoders
  <2>3. RST(n) \in Markers
    BY <1>1, TokensApart
  <2> QED
    BY <2>1, <2>2, <2>3 DEF Scans, Discards, Left
<1>3. ASSUME NEW d, Reading(d), NEW m, Moved(e, d, m, d.unread_marker, n), d.at <= limit + 1,
             d.unread_marker \in Markers
      PROVE  \/ /\ ~Scans(e, d.unread_marker)
                /\ ResyncToRestart(d, limit).ok
                /\ Moved(e, ResyncToRestart(d, limit).e, m, Left(e, d.unread_marker), n)
             \/ /\ Scans(e, d.unread_marker)
                /\ \E k \in m..limit :
                      /\ ResyncToRestart(d, limit).ok
                      /\ Moved(e, ResyncToRestart(d, limit).e, k + 1, Left(e, data[k]), n)
                      /\ data[k] \in Markers /\ ~Scans(e, data[k])
                      /\ \A t \in m..(k - 1) : data[t] \in Markers => Scans(e, data[t])
             \/ /\ Scans(e, d.unread_marker)
                /\ \E u \in {d.unread_marker} \cup {data[t] : t \in m..limit} :
                      /\ ~ResyncToRestart(d, limit).ok
                      /\ Moved(e, ResyncToRestart(d, limit).e, limit + 1, u, n)
                      /\ u \in Markers /\ Scans(e, u)
                /\ \A t \in m..limit : data[t] \in Markers => Scans(e, data[t])
                /\ limit < Len(data)
  <2>1. \A x : (Scans(d, x) <=> Scans(e, x)) /\ (Discards(d, x) <=> Discards(e, x))
    BY <1>3 DEF Scans, Discards, Moved
  <2>2. \A f, at, x : Moved(d, f, at, x, n) => Moved(e, f, at, x, n)
    BY <1>3 DEF Moved
  <2>3. d.at = m /\ d.next_restart_num = n
    BY <1>3 DEF Moved
  <2> QED
    BY <1>3, <2>1, <2>2, <2>3, Resynced DEF Left
<1>4. CASE e.unread_marker = None
  <2> DEFINE s == NextMarker(e, limit)
  <2>1. CASE ~s.ok
    <3>1. /\ Moved(e, s.e, limit + 1, None, n) /\ limit < Len(data)
          /\ \A t \in e.at..limit : data[t] \notin Markers
      BY <1>4, <2>1, NextMarkerRead
    <3>2. r = s
      BY <1>4, <2>1 DEF Matched
    <3> HIDE DEF s
    <3>3. StillLooking(e, s.e, limit)
      BY <1>4, <3>1 DEF StillLooking, NoMoreThanScanned, ScannedUpTo
    <3> QED
      BY <2>1, <3>2, <3>3
  <2>2. CASE s.ok
    <3>1. PICK k \in e.at..limit :
             /\ Moved(e, s.e, k + 1, data[k], n) /\ data[k] \in Markers
             /\ \A t \in e.at..(k - 1) : data[t] \notin Markers
      BY <1>4, <2>2, NextMarkerRead
    <3>2. r = IF s.e.unread_marker = RST(n) THEN Ok([s.e EXCEPT !.unread_marker = None])
              ELSE ResyncToRestart(s.e, limit)
      BY <1>4, <2>2 DEF Matched
    <3> HIDE DEF s
    <3> DEFINE d == s.e
    <3>3. d.unread_marker = data[k] /\ d.at = k + 1 /\ k \in Nat /\ k + 1 <= limit + 1
      BY <1>1, <3>1 DEF Moved
    <3>4. Met(e, limit, k + 1, data[k]) \/ Scans(e, data[k])
      <4>1. ScannedUpTo(e, (k + 1) - 2) /\ (k + 1) - 1 = k /\ k + 1 \in (e.at + 1)..(limit + 1)
        BY <1>1, <3>1, <3>3 DEF ScannedUpTo
      <4> QED
        BY <1>4, <3>1, <4>1 DEF Met, NoMoreThanScanned
    <3>5. CASE d.unread_marker = RST(n)
      <4>1. /\ ~Scans(e, data[k]) /\ Left(e, data[k]) = None
            /\ Moved(e, [d EXCEPT !.unread_marker = None], k + 1, None, n)
        BY <1>2, <3>1, <3>3, <3>5
      <4>2. r = Ok([d EXCEPT !.unread_marker = None])
        BY <3>2, <3>5
      <4> QED
        BY <3>4, <4>1, <4>2, OkRead
    <3>6. CASE d.unread_marker # RST(n)
      <4>1. r = ResyncToRestart(d, limit)
        BY <3>2, <3>6
      <4>2. Reading(d)
        <5>1. d \in Decoders /\ (k = Len(data) => data[k] = EOI)
          BY <3>1 DEF Moved, DataEnds
        <5> QED
          BY <1>1, <3>3, <5>1 DEF Reading
      <4>3. Moved(e, d, k + 1, d.unread_marker, n) /\ d.unread_marker \in Markers
        BY <3>1, <3>3
      <4> HIDE DEF d
      <4>4. CASE ~Scans(e, data[k])
        <5>1. r.ok /\ Moved(e, r.e, k + 1, Left(e, data[k]), n)
          BY <1>3, <3>3, <4>1, <4>2, <4>3, <4>4
        <5> QED
          BY <3>4, <4>4, <5>1
      <4>5. CASE Scans(e, data[k])
        <5>1. \/ \E l \in (k + 1)..limit :
                    /\ r.ok /\ Moved(e, r.e, l + 1, Left(e, data[l]), n)
                    /\ data[l] \in Markers /\ ~Scans(e, data[l])
                    /\ \A t \in (k + 1)..(l - 1) : data[t] \in Markers => Scans(e, data[t])
              \/ /\ \E u \in {data[k]} \cup {data[t] : t \in (k + 1)..limit} :
                       /\ ~r.ok /\ Moved(e, r.e, limit + 1, u, n) /\ u \in Markers /\ Scans(e, u)
                 /\ \A t \in (k + 1)..limit : data[t] \in Markers => Scans(e, data[t])
                 /\ limit < Len(data)
          BY <1>3, <3>3, <4>1, <4>2, <4>3, <4>5
        <5>2. ASSUME NEW l \in (k + 1)..limit,
                     data[l] \in Markers /\ ~Scans(e, data[l]),
                     \A t \in (k + 1)..(l - 1) : data[t] \in Markers => Scans(e, data[t])
              PROVE  Met(e, limit, l + 1, data[l])
          <6>1. ScannedUpTo(e, (l + 1) - 2)
            <7> SUFFICES ASSUME NEW t \in e.at..((l + 1) - 2), data[t] \in Markers
                         PROVE  Scans(e, data[t])
              BY DEF ScannedUpTo
            <7>1. t \in e.at..(k - 1) \/ t = k \/ t \in (k + 1)..(l - 1)
              BY <1>1, <3>3
            <7> QED
              BY <3>1, <4>5, <5>2, <7>1
          <6>2. (l + 1) - 1 = l /\ l + 1 \in (e.at + 1)..(limit + 1)
            BY <1>1, <3>1, <3>3
          <6> QED
            BY <1>4, <5>2, <6>1, <6>2 DEF Met, NoMoreThanScanned
        <5>3. CASE \E l \in (k + 1)..limit :
                    /\ r.ok /\ Moved(e, r.e, l + 1, Left(e, data[l]), n)
                    /\ data[l] \in Markers /\ ~Scans(e, data[l])
                    /\ \A t \in (k + 1)..(l - 1) : data[t] \in Markers => Scans(e, data[t])
          BY <5>2, <5>3
        <5>4. CASE /\ \E u \in {data[k]} \cup {data[t] : t \in (k + 1)..limit} :
                         /\ ~r.ok /\ Moved(e, r.e, limit + 1, u, n)
                         /\ u \in Markers /\ Scans(e, u)
                   /\ \A t \in (k + 1)..limit : data[t] \in Markers => Scans(e, data[t])
                   /\ limit < Len(data)
          <6>1. ScannedUpTo(e, limit)
            <7> SUFFICES ASSUME NEW t \in e.at..limit, data[t] \in Markers
                         PROVE  Scans(e, data[t])
              BY DEF ScannedUpTo
            <7>1. t \in e.at..(k - 1) \/ t = k \/ t \in (k + 1)..limit
              BY <1>1, <3>3
            <7> QED
              BY <3>1, <4>5, <5>4, <7>1
          <6>2. {data[k]} \cup {data[t] : t \in (k + 1)..limit}
                   \subseteq {data[t] : t \in e.at..limit}
            BY <1>1, <3>1, <3>3
          <6> QED
            BY <1>4, <5>4, <6>1, <6>2 DEF StillLooking, NoMoreThanScanned
        <5> QED
          BY <5>1, <5>3, <5>4
      <4> QED
        BY <4>4, <4>5
    <3> QED
      BY <3>5, <3>6
  <2> QED
    BY <2>1, <2>2
<1>5. CASE e.unread_marker # None
  <2>1. e.unread_marker \in Markers /\ Moved(e, e, e.at, e.unread_marker, n)
    BY <1>1, <1>5 DEF Moved
  <2>2. r = IF e.unread_marker = RST(n) THEN Ok([e EXCEPT !.unread_marker = None])
            ELSE ResyncToRestart(e, limit)
    BY <1>5 DEF Matched, Ok
  <2>3. Met(e, limit, e.at, e.unread_marker) \/ Scans(e, e.unread_marker)
    BY <2>1 DEF Met
  <2>4. CASE e.unread_marker = RST(n)
    <3>1. /\ ~Scans(e, e.unread_marker) /\ Left(e, e.unread_marker) = None
          /\ Moved(e, [e EXCEPT !.unread_marker = None], e.at, None, n)
      BY <1>2, <2>1, <2>4
    <3>2. r = Ok([e EXCEPT !.unread_marker = None])
      BY <2>2, <2>4
    <3> QED
      BY <2>3, <3>1, <3>2, OkRead
  <2>5. CASE e.unread_marker # RST(n)
    <3>1. r = ResyncToRestart(e, limit)
      BY <2>2, <2>5
    <3>2. CASE ~Scans(e, e.unread_marker)
      <4>1. r.ok /\ Moved(e, r.e, e.at, Left(e, e.unread_marker), n)
        BY <1>3, <2>1, <3>1, <3>2
      <4> QED
        BY <2>3, <3>2, <4>1
    <3>3. CASE Scans(e, e.unread_marker)
      <4>1. \/ \E l \in e.at..limit :
                  /\ r.ok /\ Moved(e, r.e, l + 1, Left(e, data[l]), n)
                  /\ data[l] \in Markers /\ ~Scans(e, data[l])
                  /\ \A t \in e.at..(l - 1) : data[t] \in Markers => Scans(e, data[t])
            \/ /\ \E u \in {e.unread_marker} \cup {data[t] : t \in e.at..limit} :
                     /\ ~r.ok /\ Moved(e, r.e, limit + 1, u, n) /\ u \in Markers /\ Scans(e, u)
               /\ \A t \in e.at..limit : data[t] \in Markers => Scans(e, data[t])
               /\ limit < Len(data)
        BY <1>3, <2>1, <3>1, <3>3
      <4>2. ASSUME NEW l \in e.at..limit,
                   data[l] \in Markers /\ ~Scans(e, data[l]),
                   \A t \in e.at..(l - 1) : data[t] \in Markers => Scans(e, data[t])
            PROVE  Met(e, limit, l + 1, data[l])
        <5>1. (l + 1) - 1 = l /\ (l + 1) - 2 = l - 1 /\ l + 1 \in (e.at + 1)..(limit + 1)
          BY <1>1
        <5> QED
          BY <3>3, <4>2, <5>1 DEF Met, NoMoreThanScanned, ScannedUpTo
      <4>3. CASE \E l \in e.at..limit :
                  /\ r.ok /\ Moved(e, r.e, l + 1, Left(e, data[l]), n)
                  /\ data[l] \in Markers /\ ~Scans(e, data[l])
                  /\ \A t \in e.at..(l - 1) : data[t] \in Markers => Scans(e, data[t])
        BY <4>2, <4>3
      <4>4. CASE /\ \E u \in {e.unread_marker} \cup {data[t] : t \in e.at..limit} :
                       /\ ~r.ok /\ Moved(e, r.e, limit + 1, u, n) /\ u \in Markers /\ Scans(e, u)
                 /\ \A t \in e.at..limit : data[t] \in Markers => Scans(e, data[t])
                 /\ limit < Len(data)
        BY <3>3, <4>4 DEF StillLooking, NoMoreThanScanned, ScannedUpTo
      <4> QED
        BY <4>1, <4>3, <4>4
    <3> QED
      BY <3>2, <3>3
  <2> QED
    BY <2>4, <2>5
<1> QED
  BY <1>4, <1>5

\* process_restart
LEMMA RestartProcessed ==
    ASSUME NEW e, Reading(e), DataEnds, NEW limit \in Nat, limit <= Len(data), e.at <= limit + 1,
           restart_interval \in Nat, NEW r, r = ProcessRestart(e, limit)
    PROVE  \/ ~r.ok /\ StillLooking(e, r.e, limit)
           \/ r.ok /\ \E m, x : Met(e, limit, m, x) /\ Restarts(e, r.e, m, x)
<1> DEFINE s == Matched(IF e.unread_marker = None THEN NextMarker(e, limit) ELSE Ok(e), e, limit)
<1>1. r = Restarted(Expecting(s))
  BY DEF ProcessRestart, ReadRestartMarker
<1>2. \/ ~s.ok /\ StillLooking(e, s.e, limit)
      \/ s.ok /\ \E m, x : /\ Met(e, limit, m, x)
                           /\ Moved(e, s.e, m, Left(e, x), e.next_restart_num)
  BY MarkerMatched
<1> HIDE DEF s
<1>3. CASE ~s.ok
  BY <1>1, <1>2, <1>3 DEF Restarted, Expecting
<1>4. CASE s.ok
  <2>1. PICK m, x : Met(e, limit, m, x) /\ Moved(e, s.e, m, Left(e, x), e.next_restart_num)
    BY <1>2, <1>4
  <2> DEFINE f == [s.e EXCEPT !.next_restart_num = (@ + 1) % 8]
             h == [f EXCEPT !.last_dc_val = None, !.restarts_to_go = restart_interval,
                            !.insufficient_data = @ /\ f.unread_marker # None]
  <2>2. r = [ok |-> TRUE, e |-> h]
    BY <1>1, <1>4 DEF Restarted, Expecting, Ok
  <2>3. /\ f \in Decoders /\ f.at = m /\ f.unread_marker = Left(e, x)
        /\ f.next_restart_num = (e.next_restart_num + 1) % 8
        /\ f.insufficient_data = e.insufficient_data
    <3>1. s.e \in Decoders /\ s.e.next_restart_num = e.next_restart_num
      BY <2>1 DEF Moved
    <3>2. e.next_restart_num \in 0..7 /\ (e.next_restart_num + 1) % 8 \in 0..7
      BY <3>1 DEF Decoders
    <3> HIDE DEF s
    <3>3. f.next_restart_num = (e.next_restart_num + 1) % 8 /\ f \in Decoders
      BY <3>1, <3>2 DEF Decoders
    <3>4. /\ f.at = s.e.at /\ f.unread_marker = s.e.unread_marker
          /\ f.insufficient_data = s.e.insufficient_data
      BY <3>1 DEF Decoders
    <3> QED
      BY <2>1, <3>3, <3>4 DEF Moved
  <2> HIDE DEF f
  <2>4. Restarts(e, h, m, x)
    <3>1. None \in MCUValues
      BY DEF MCUValues
    <3>2. (f.insufficient_data /\ f.unread_marker # None) \in BOOLEAN
      OBVIOUS
    <3> HIDE DEF MCUValues
    <3> QED
      BY <2>3, <3>1, <3>2 DEF Restarts, Decoders
  <2> HIDE DEF h
  <2> QED
    BY <2>1, <2>2, <2>4
<1> QED
  BY <1>3, <1>4

\* An MCU that was decoded.
Ticked(e, f) ==
    /\ Reading(f) /\ f.next_restart_num = e.next_restart_num
    /\ f.restarts_to_go = IF restart_interval > 0 THEN e.restarts_to_go - 1 ELSE e.restarts_to_go
Stays(e, f) == f.at = e.at /\ f.unread_marker = e.unread_marker
StopsAt(e, f) ==
    /\ e.unread_marker = None /\ data[e.at] \in Markers
    /\ f.at = e.at + 1 /\ f.unread_marker = data[e.at]

OutOfTokens(e, r, limit) == ~r.ok /\ r.e = e /\ e.unread_marker = None /\ e.at = limit + 1
TakesBits(e, r) ==
    /\ r.ok /\ Ticked(e, r.e) /\ e.unread_marker = None /\ ~e.insufficient_data
    /\ data[e.at] \notin Markers /\ e.at <= Len(data)
    /\ r.value = Decoded(e, data[e.at]) /\ r.e.last_dc_val = r.value
    /\ r.e.at = e.at + 1 /\ r.e.unread_marker = None /\ ~r.e.insufficient_data
MakesUp(e, r) ==
    /\ r.ok /\ Ticked(e, r.e) /\ r.e.insufficient_data /\ e.at <= Len(data) + 1
    /\ \/ Stays(e, r.e) /\ (e.insufficient_data \/ e.unread_marker # None)
       \/ StopsAt(e, r.e) /\ e.at <= Len(data)

\* What decode_mcu makes of the bits: they are used, or a marker is met, or there are no more
\* tokens.
LEMMA BitsDecoded ==
    ASSUME NEW e, Reading(e), DataEnds, NEW limit \in Nat, limit <= Len(data), e.at <= limit + 1,
           restart_interval \in Nat, restart_interval > 0 => e.restarts_to_go > 0,
           NEW r, r = Counted(DecodeBits(e, limit))
    PROVE  /\ OutOfTokens(e, r, limit) \/ TakesBits(e, r) \/ MakesUp(e, r)
           /\ r.e.at <= limit + 1 /\ Reading(r.e)
<1> DEFINE togo == IF restart_interval > 0 THEN e.restarts_to_go - 1 ELSE e.restarts_to_go
           Counting(f) ==
              [f EXCEPT !.restarts_to_go = IF restart_interval > 0 THEN @ - 1 ELSE @]
<1>1. /\ e \in Decoders /\ e.at \in Nat \ {0} /\ Len(data) \in Nat
      /\ e.unread_marker \in {None} \cup Markers /\ e.restarts_to_go \in Nat /\ togo \in Nat
      /\ e.insufficient_data \in BOOLEAN /\ e.at <= Len(data) + 1
      /\ (e.at = Len(data) + 1 => e.unread_marker = EOI)
  BY DEF Reading, Decoders, DataEnds
<1>2. ASSUME NEW f \in Decoders, f.restarts_to_go = e.restarts_to_go
      PROVE  /\ Counting(f) \in Decoders /\ Counting(f).restarts_to_go = togo
             /\ Counting(f).at = f.at /\ Counting(f).unread_marker = f.unread_marker
             /\ Counting(f).insufficient_data = f.insufficient_data
             /\ Counting(f).next_restart_num = f.next_restart_num
             /\ Counting(f).last_dc_val = f.last_dc_val
  <2>1. \A t \in Nat : [f EXCEPT !.restarts_to_go = t] \in Decoders
    BY <1>2 DEF Decoders
  <2> HIDE DEF togo
  <2>2. Counting(f) = [f EXCEPT !.restarts_to_go = togo]
    BY <1>2 DEF togo
  <2> QED
    BY <1>1, <2>1, <2>2 DEF Decoders
<1>3. ASSUME NEW f, NEW v, DecodeBits(e, limit) = [ok |-> TRUE, e |-> f, value |-> v]
      PROVE  r.ok /\ r.e = Counting(f) /\ r.value = v
  <2>1. r = [[ok |-> TRUE, e |-> f, value |-> v] EXCEPT !.e = Counting(f)]
    BY <1>3 DEF Counted
  <2> HIDE DEF Counting
  <2> QED
    BY <2>1
<1> HIDE DEF togo, Counting
<1>4. CASE e.insufficient_data
  <2>1. DecodeBits(e, limit) = [ok |-> TRUE, e |-> e, value |-> Gray]
    BY <1>4 DEF DecodeBits
  <2>2. r.ok /\ r.e = Counting(e)
    BY <1>3, <2>1
  <2>3. Reading(r.e) /\ Ticked(e, r.e) /\ r.e.insufficient_data /\ Stays(e, r.e)
    BY <1>1, <1>2, <1>4, <2>2 DEF Reading, Ticked, Stays, togo
  <2> QED
    BY <1>1, <1>4, <2>2, <2>3 DEF MakesUp, Stays
<1>5. CASE ~e.insufficient_data /\ e.unread_marker = None /\ e.at > limit
  <2>1. DecodeBits(e, limit) = [ok |-> FALSE, e |-> e, value |-> None]
    BY <1>5 DEF DecodeBits
  <2>2. r = [ok |-> FALSE, e |-> e, value |-> None]
    BY <2>1 DEF Counted
  <2> QED
    BY <1>1, <1>5, <2>2 DEF OutOfTokens
<1>6. CASE /\ ~e.insufficient_data /\ e.unread_marker = None /\ e.at <= limit
           /\ data[e.at] \notin Markers
  <2> DEFINE v == Decoded(e, data[e.at])
             f == [e EXCEPT !.at = @ + 1, !.last_dc_val = v]
  <2>1. DecodeBits(e, limit) = [ok |-> TRUE, e |-> f, value |-> v]
    BY <1>1, <1>6 DEF DecodeBits
  <2>2. r.ok /\ r.e = Counting(f) /\ r.value = v
    BY <1>3, <2>1
  <2>3. e.at \in 1..Len(data) /\ e.at # Len(data)
    BY <1>1, <1>6, TokensApart DEF DataEnds
  <2>4. v \in MCUValues /\ e.at + 1 \in 1..Len(data)
    BY <1>1, <2>3 DEF Decoded, MCUValues
  <2> HIDE DEF v
  <2>5. /\ f \in Decoders /\ f.at = e.at + 1 /\ f.last_dc_val = v
        /\ f.restarts_to_go = e.restarts_to_go /\ f.unread_marker = None
        /\ ~f.insufficient_data /\ f.next_restart_num = e.next_restart_num
    <3>1. e.at + 1 \in 1..(Len(data) + 1) /\ v \in MCUValues
      BY <1>1, <2>4
    <3>2. f \in Decoders
      BY <1>1, <3>1 DEF Decoders
    <3> HIDE DEF MCUValues
    <3> QED
      BY <1>1, <1>6, <3>2 DEF Decoders
  <2> HIDE DEF f
  <2>6. /\ Reading(r.e) /\ Ticked(e, r.e) /\ r.e.at = e.at + 1 /\ r.e.unread_marker = None
        /\ ~r.e.insufficient_data /\ r.e.last_dc_val = v
    BY <1>1, <1>2, <2>2, <2>4, <2>5 DEF Reading, Ticked, togo
  <2> QED
    BY <1>1, <1>6, <2>2, <2>3, <2>6 DEF TakesBits, v
<1>7. CASE ~e.insufficient_data /\ e.unread_marker # None
  <2> DEFINE f == [e EXCEPT !.insufficient_data = TRUE, !.last_dc_val = Junk,
                            !.unread_marker = IF @ = None THEN data[e.at] ELSE @,
                            !.at = IF e.unread_marker = None THEN @ + 1 ELSE @]
  <2>1. DecodeBits(e, limit) = [ok |-> TRUE, value |-> Junk, e |-> f]
    BY <1>7 DEF DecodeBits
  <2>2. r.ok /\ r.e = Counting(f) /\ r.value = Junk
    BY <1>3, <2>1
  <2>3. Junk \in MCUValues
    BY DEF MCUValues
  <2>4. /\ f \in Decoders /\ f.at = e.at /\ f.unread_marker = e.unread_marker
        /\ f.restarts_to_go = e.restarts_to_go
        /\ f.insufficient_data /\ f.next_restart_num = e.next_restart_num
    BY <1>1, <1>7, <2>3 DEF Decoders
  <2> HIDE DEF f
  <2>5. Reading(r.e) /\ Ticked(e, r.e) /\ r.e.insufficient_data /\ Stays(e, r.e)
    BY <1>1, <1>2, <2>2, <2>4 DEF Reading, Ticked, Stays, togo
  <2> QED
    BY <1>1, <1>7, <2>2, <2>5 DEF MakesUp, Stays
<1>8. CASE /\ ~e.insufficient_data /\ e.unread_marker = None /\ e.at <= limit
           /\ data[e.at] \in Markers
  <2> DEFINE f == [e EXCEPT !.insufficient_data = TRUE, !.last_dc_val = Junk,
                            !.unread_marker = IF @ = None THEN data[e.at] ELSE @,
                            !.at = IF e.unread_marker = None THEN @ + 1 ELSE @]
  <2>1. DecodeBits(e, limit) = [ok |-> TRUE, value |-> Junk, e |-> f]
    BY <1>1, <1>8 DEF DecodeBits
  <2>2. r.ok /\ r.e = Counting(f) /\ r.value = Junk
    BY <1>3, <2>1
  <2>3. Junk \in MCUValues /\ e.at + 1 \in 1..(Len(data) + 1) /\ e.at <= Len(data)
    BY <1>1, <1>8 DEF MCUValues
  <2>4. /\ f \in Decoders /\ f.at = e.at + 1 /\ f.unread_marker = data[e.at]
        /\ f.restarts_to_go = e.restarts_to_go
        /\ f.insufficient_data /\ f.next_restart_num = e.next_restart_num
    BY <1>1, <1>8, <2>3 DEF Decoders
  <2> HIDE DEF f
  <2>5. /\ Reading(r.e) /\ Ticked(e, r.e) /\ r.e.insufficient_data
        /\ StopsAt(e, r.e)
    BY <1>1, <1>2, <1>8, <2>2, <2>4 DEF Reading, Ticked, StopsAt, togo, DataEnds
  <2> QED
    BY <1>1, <1>8, <2>2, <2>3, <2>5 DEF MakesUp, StopsAt
<1> QED
  BY <1>1, <1>4, <1>5, <1>6, <1>7, <1>8

-----------------------------------------------------------------------------
(***************************************************************************)
(* Streams: where the MCUs and the markers of an intact scan are, and what *)
(* a torn one has left of them.                                            *)
(***************************************************************************)

\* MCU number (J + 1) * i - r is the one before the last r of interval J.
MCUsLaid(s, n, i) ==
    \A J \in Nat, r \in 1..i :
        (J + 1) * i - r < n => /\ J * (i + 1) + (i - r) + 1 < Len(s)
                               /\ s[J * (i + 1) + (i - r) + 1] = MCU((J + 1) * i - r)
RestartsLaid(s, n, i) ==
    \A J \in Nat :
        /\ (J + 1) * i < n => (J + 1) * (i + 1) < Len(s)
        /\ (J + 1) * (i + 1) < Len(s) => s[(J + 1) * (i + 1)] = RST(J % 8)
Laid(s, n, i) ==
    /\ s \in Seq(MCUTokens) /\ Len(s) \in Nat \ {0} /\ s[Len(s)] = EOI
    /\ i = 0 => Len(s) = n + 1 /\ \A k \in 0..(n - 1) : s[k + 1] = MCU(k)
    /\ i > 0 => MCUsLaid(s, n, i) /\ RestartsLaid(s, n, i)

\* The tokens by their positions, as Intact has them.
Token(t, i) ==
    IF t % (i + 1) = 0 THEN RST((t \div (i + 1) - 1) % 8)
    ELSE MCU(t - 1 - (t - 1) \div (i + 1))

\* The tokens of an intact scan with restart markers.
LEMMA IntactTokens ==
    ASSUME NEW n \in Nat \ {0}, NEW i \in Nat \ {0}, NEW s, s = Intact(n, i)
    PROVE  /\ s \in Seq(MCUTokens) /\ Len(s) = n + (n - 1) \div i + 1 /\ (n - 1) \div i \in Nat
           /\ s[Len(s)] = EOI
           /\ \A t \in 1..(Len(s) - 1) : s[t] = Token(t, i)
<1> DEFINE m == n + (n - 1) \div i
           unit == i + 1
           f == [t \in 1..m |-> IF t % unit = 0 THEN RST((t \div unit - 1) % 8)
                                ELSE MCU(t - 1 - (t - 1) \div unit)]
<1>1. (n - 1) \div i \in Nat /\ m \in Nat \ {0}
  <2>1. \A a \in Nat : a \div i \in Nat
    OBVIOUS
  <2>2. (n - 1) \div i \in Nat
    BY <2>1
  <2> QED
    BY <2>2
<1>2. s = f \o <<EOI>>
  BY DEF Intact
<1>3. \A t \in 1..m : f[t] = Token(t, i) /\ f[t] \in MCUTokens
  <2> SUFFICES ASSUME NEW t \in 1..m PROVE f[t] = Token(t, i) /\ f[t] \in MCUTokens
    OBVIOUS
  <2>1. f[t] = Token(t, i)
    BY DEF Token
  <2>2. t - 1 - (t - 1) \div unit \in Int /\ (t \div unit - 1) % 8 \in 0..7
    OBVIOUS
  <2>3. Token(t, i) \in MCUTokens
    BY <2>2 DEF Token, MCUTokens
  <2> QED
    BY <2>1, <2>3
<1>4. f \in Seq(MCUTokens) /\ Len(f) = m
  <2>1. f \in [1..m -> MCUTokens]
    BY <1>3
  <2> HIDE DEF f, m
  <2> QED
    BY <1>1, <2>1
<1> HIDE DEF f, m
<1>5. EOI \in MCUTokens
  BY DEF MCUTokens
<1>6. /\ s \in Seq(MCUTokens) /\ Len(s) = m + 1 /\ s[m + 1] = EOI
      /\ \A t \in 1..m : s[t] = f[t]
  BY <1>1, <1>2, <1>4, <1>5
<1>7. Len(s) - 1 = m /\ s[Len(s)] = EOI
  <2> HIDE DEF m
  <2> QED
    BY <1>1, <1>6
<1>8. \A t \in 1..(Len(s) - 1) : s[t] = Token(t, i)
  BY <1>3, <1>6, <1>7
<1>9. Len(s) = n + (n - 1) \div i + 1
  BY <1>6 DEF m
<1> QED
  BY <1>1, <1>6, <1>7, <1>8, <1>9

\* An intact scan has its MCUs and its markers where the decoder looks for them.
LEMMA IntactLaid ==
    ASSUME NEW n \in Nat \ {0}, NEW i \in Nat
    PROVE  Laid(Intact(n, i), n, i)
<1> DEFINE s == Intact(n, i)
<1>1. CASE i = 0
  <2> DEFINE f == [k \in 1..n |-> MCU(k - 1)]
  <2>1. s = f \o <<EOI>>
    BY <1>1 DEF Intact
  <2>2. f \in [1..n -> MCUTokens] /\ EOI \in MCUTokens
    BY DEF MCUTokens
  <2>3. \A k \in 0..(n - 1) : f[k + 1] = MCU(k)
    OBVIOUS
  <2> HIDE DEF f, s
  <2>4. f \in Seq(MCUTokens) /\ Len(f) = n
    BY <2>2
  <2>5. /\ s \in Seq(MCUTokens) /\ Len(s) = n + 1 /\ s[n + 1] = EOI
        /\ \A k \in 0..(n - 1) : s[k + 1] = f[k + 1]
    BY <2>1, <2>2, <2>4
  <2>6. Laid(s, n, i)
    BY <1>1, <2>3, <2>5 DEF Laid
  <2> QED
    BY <2>6 DEF s
<1>2. CASE i > 0
  <2> DEFINE q == (n - 1) \div i
             unit == i + 1
  <2>1. /\ s \in Seq(MCUTokens) /\ Len(s) = n + q + 1 /\ q \in Nat /\ s[Len(s)] = EOI
        /\ \A t \in 1..(n + q) : s[t] = Token(t, i)
    <3>1. i \in Nat \ {0}
      BY <1>2
    <3>2. /\ s \in Seq(MCUTokens) /\ Len(s) = n + (n - 1) \div i + 1 /\ (n - 1) \div i \in Nat
          /\ s[Len(s)] = EOI
          /\ \A t \in 1..(Len(s) - 1) : s[t] = Token(t, i)
      BY <3>1, IntactTokens
    <3> HIDE DEF s
    <3>3. Len(s) - 1 = n + q
      BY <3>2
    <3> QED
      BY <3>2, <3>3
  <2>2. n - 1 = q * i + ((n - 1) % i) /\ (n - 1) % i \in 0..(i - 1)
    BY <1>2, Divided
  <2> HIDE DEF s, q
  <2>3. ASSUME NEW J \in Nat, NEW r \in 1..i, (J + 1) * i - r < n
        PROVE  /\ J * (i + 1) + (i - r) + 1 < Len(s)
               /\ s[J * (i + 1) + (i - r) + 1] = MCU((J + 1) * i - r)
    <3> DEFINE t == J * unit + ((i - r) + 1)
    <3>1. /\ (J + 1) * i = J * i + i /\ J * unit = J * i + J /\ J * i \in Nat
          /\ (q + 1) * i = q * i + i
      BY <2>1
    <3>2. J <= q
      <4>1. J * i < (q + 1) * i
        BY <2>1, <2>2, <2>3, <3>1
      <4>2. J < q + 1
        BY <1>2, <2>1, <4>1, MonotoneProduct
      <4> QED
        BY <2>1, <4>2
    <3>3. t \in 1..(n + q)
      BY <2>1, <2>3, <3>1, <3>2
    <3>4. t % unit = (i - r) + 1 /\ (t - 1) \div unit = J
      <4>1. (i - r) + 1 \in 0..(unit - 1) /\ i - r \in 0..(unit - 1) /\ unit \in Nat \ {0}
        OBVIOUS
      <4>2. (J * unit + (i - r)) \div unit = J
        BY <4>1, DividesUniquely
      <4>3. (J * unit + ((i - r) + 1)) % unit = (i - r) + 1
        BY <4>1, DividesUniquely
      <4>4. t - 1 = J * unit + (i - r)
        BY <3>1
      <4> QED
        BY <4>2, <4>3, <4>4
    <3>5. s[t] = MCU(t - 1 - J)
      <4>1. s[t] = Token(t, i)
        BY <2>1, <3>3
      <4>2. t % unit # 0
        BY <3>4
      <4> HIDE DEF t
      <4> QED
        BY <3>4, <4>1, <4>2 DEF Token
    <3>6. t - 1 - J = (J + 1) * i - r /\ t = J * (i + 1) + (i - r) + 1
      BY <3>1
    <3> HIDE DEF t
    <3>7. t < Len(s) /\ s[t] = MCU((J + 1) * i - r)
      BY <2>1, <3>3, <3>5, <3>6
    <3> QED
      BY <3>6, <3>7
  <2>4. ASSUME NEW J \in Nat
        PROVE  /\ (J + 1) * i < n => (J + 1) * (i + 1) < Len(s)
               /\ (J + 1) * (i + 1) < Len(s) => s[(J + 1) * (i + 1)] = RST(J % 8)
    <3> DEFINE t == (J + 1) * unit
    <3>1. /\ (J + 1) * unit = (J + 1) * i + (J + 1) /\ (J + 1) * i \in Nat
          /\ (q + 1) * i = q * i + i
      BY <2>1
    <3>2. ASSUME (J + 1) * i < n
          PROVE  t < Len(s)
      <4>1. (J + 1) * i < (q + 1) * i
        BY <2>1, <2>2, <3>1, <3>2
      <4>2. J + 1 < q + 1
        BY <1>2, <2>1, <4>1, MonotoneProduct
      <4> QED
        BY <2>1, <3>1, <3>2, <4>2
    <3>3. ASSUME t < Len(s)
          PROVE  s[t] = RST(J % 8)
      <4>1. t \in 1..(n + q)
        BY <2>1, <3>1, <3>3
      <4>2. t % unit = 0 /\ t \div unit = J + 1
        <5>1. ((J + 1) * unit + 0) \div unit = J + 1 /\ ((J + 1) * unit + 0) % unit = 0
          BY DividesUniquely
        <5> QED
          BY <5>1
      <4>3. s[t] = Token(t, i)
        BY <2>1, <4>1
      <4> HIDE DEF t
      <4>4. t \div unit - 1 = J
        BY <4>2
      <4> QED
        BY <4>2, <4>3, <4>4 DEF Token
    <3> QED
      BY <3>2, <3>3 DEF t
  <2>5. Laid(s, n, i)
    <3>1. MCUsLaid(s, n, i)
      BY <2>3 DEF MCUsLaid
    <3>2. RestartsLaid(s, n, i)
      BY <2>4 DEF RestartsLaid
    <3> QED
      BY <1>2, <2>1, <3>1, <3>2 DEF Laid
  <2> QED
    BY <2>5 DEF s
<1> QED
  BY <1>1, <1>2

-----------------------------------------------------------------------------
(***************************************************************************)
(* The way of the decoder through a stream. With r MCUs to go in interval  *)
(* J, it is in step with the stream, or the stream was torn and it is lost *)
(* in the interval of the tear, or it holds a marker found behind the tear *)
(* until its interval comes, or it is in step with what follows.           *)
(***************************************************************************)
MCUCount == MCU_rows_in_scan * MCUsPerRow
Encoded == Intact(MCUCount, restart_interval)
Unit == restart_interval + 1

\* Nobody minds what comes out in interval J.
Spoilt(J) ==
    \A r \in 1..restart_interval :
        (J + 1) * restart_interval - r < MCUCount => (J + 1) * restart_interval - r \in damaged

\* The markers that are taken for prior ones in interval F.
Stray(F) == {Invalid, RST((F - 1) % 8), RST((F - 2) % 8)}

\* Up to token A, in interval F, the stream is intact. From token Z on it is so again, S
\* tokens off: Z ends interval Y, or the image.
Tear(F, Y, A, Z, S) ==
    /\ F \in Nat /\ Y \in F..(F + 2) /\ S \in Int
    /\ A \in 0..Len(data) /\ F * Unit <= A /\ A < (F + 1) * Unit
    /\ Z \in (A + 1)..Len(data) /\ Len(data) = Len(Encoded) + S
    /\ Z - S = Lesser((Y + 1) * Unit, Len(Encoded))
    /\ \A t \in 1..A : data[t] = Encoded[t]
    /\ \A t \in (A + 1)..(Z - 1) : data[t] \in Markers => data[t] \in Stray(F)
    /\ \A t \in Z..Len(data) : data[t] = Encoded[t - S]
    /\ \A J \in F..Y : Spoilt(J)

\* The markers behind the tear are too far off.
Astray(F, A) ==
    /\ F \in Nat /\ A \in 0..Len(data) /\ F * Unit <= A /\ A < (F + 1) * Unit
    /\ \A t \in 1..A : data[t] = Encoded[t]
    /\ \A J \in Nat : J >= F => Spoilt(J)

InStep(J, r, e, S) ==
    /\ e.unread_marker = None /\ ~e.insufficient_data /\ e.next_restart_num = J % 8
    /\ e.at = J * Unit + (restart_interval - r) + 1 + S
    /\ e.last_dc_val = IF r = restart_interval THEN None
                       ELSE MCU((J + 1) * restart_interval - r - 1)
Lost(F, A, Z, e) ==
    /\ e.at \in (A + 1)..Z /\ e.unread_marker \in {None} \cup Stray(F)
    /\ e.next_restart_num = F % 8
Holding(Z, J, e) == e.at = Z + 1 /\ e.unread_marker = data[Z] /\ e.next_restart_num = J % 8

OnTheWay(F, Y, A, Z, S, J, r, e) ==
    \/ InStep(J, r, e, 0) /\ e.at <= A
    \/ J = F /\ Lost(F, A, Z, e)
    \/ J \in F..Y /\ Holding(Z, J, e)
    \/ J > Y /\ InStep(J, r, e, S)

Phase(J, r, e) ==
    \/ data = Encoded /\ InStep(J, r, e, 0)
    \/ \E F, Y, A, Z, S : Tear(F, Y, A, Z, S) /\ OnTheWay(F, Y, A, Z, S, J, r, e)
    \/ \E F, A : Astray(F, A) /\ (J >= F \/ (InStep(J, r, e, 0) /\ e.at <= A))

Numbers == restart_interval \in Nat \ {0} /\ MCUCount \in Nat \ {0}

\* The ends of the intervals do not overlap.
LEMMA UnitOrder ==
    ASSUME Numbers, NEW J \in Int, NEW L \in Int
    PROVE  /\ Unit \in Nat \ {0} /\ J * Unit \in Int /\ (J + 1) * Unit = J * Unit + Unit
           /\ J <= L => J * Unit <= L * Unit
           /\ J < L => J * Unit + Unit <= L * Unit
           /\ J * restart_interval \in Int
           /\ (J + 1) * restart_interval = J * restart_interval + restart_interval
           /\ J * Unit = J * restart_interval + J
<1>1. Unit \in Nat \ {0} /\ Unit = restart_interval + 1 /\ restart_interval \in Nat \ {0}
  BY DEF Unit, Numbers
<1>2. J * Unit \in Int /\ (J + 1) * Unit = J * Unit + Unit /\ L * Unit \in Int
  BY <1>1
<1>3. J <= L => J * Unit <= L * Unit
  BY <1>1, MonotoneProduct
<1>4. J < L => (J + 1) * Unit <= L * Unit
  <2>1. J < L => J + 1 <= L
    OBVIOUS
  <2> QED
    BY <1>1, <2>1, MonotoneProduct
<1>5. /\ J * restart_interval \in Int
      /\ (J + 1) * restart_interval = J * restart_interval + restart_interval
      /\ J * Unit = J * restart_interval + J
  BY <1>1
<1> QED
  BY <1>1, <1>2, <1>3, <1>4, <1>5

\* An MCU whose bits are where the decoder is comes out as it was encoded.
LEMMA StartsWhen ==
    ASSUME Numbers, NEW J \in Nat, NEW r \in 1..restart_interval
    PROVE  StartsInterval((J + 1) * restart_interval - r) <=> r = restart_interval
<1> DEFINE i == restart_interval
           k == (J + 1) * i - r
<1>1. i \in Nat \ {0} /\ k = J * i + (i - r) /\ i - r \in 0..(i - 1) /\ J * i \in Nat
  BY DEF Numbers
<1>2. (J * i + (i - r)) % i = i - r
  <2> DEFINE d == i - r
  <2>1. d \in 0..(i - 1) /\ i \in Nat \ {0}
    BY <1>1
  <2> HIDE DEF d
  <2>2. (J * i + d) % i = d
    BY <2>1, DividesUniquely
  <2> QED
    BY <2>2 DEF d
<1>3. StartsInterval(k) <=> k = 0 \/ k % i = 0
  BY <1>1 DEF StartsInterval
<1> HIDE DEF k, i
<1>4. StartsInterval(k) <=> r = i
  BY <1>1, <1>2, <1>3
<1> QED
  BY <1>4 DEF k, i

\* A decoder in step reads the next MCU, and is in step.
LEMMA InStepBits ==
    ASSUME Numbers, NEW J \in Nat, NEW r \in 1..restart_interval, NEW S \in Int,
           NEW e, Reading(e), InStep(J, r, e, S),
           data[e.at] = MCU((J + 1) * restart_interval - r), NEW limit \in Nat,
           e.restarts_to_go = r,
           NEW b, OutOfTokens(e, b, limit) \/ TakesBits(e, b) \/ MakesUp(e, b)
    PROVE  b.ok => /\ InStep(J, r - 1, b.e, S) /\ b.e.at = e.at + 1
                   /\ b.value = MCU((J + 1) * restart_interval - r)
<1> SUFFICES ASSUME b.ok
             PROVE  /\ InStep(J, r - 1, b.e, S) /\ b.e.at = e.at + 1
                    /\ b.value = MCU((J + 1) * restart_interval - r)
  OBVIOUS
<1> DEFINE k == (J + 1) * restart_interval - r
<1>1. k \in Int /\ e.at \in Int /\ restart_interval \in Nat \ {0} /\ J * Unit \in Int
  BY UnitOrder DEF Numbers, Reading, Decoders
<1>2. data[e.at] \notin Markers /\ e.unread_marker = None /\ ~e.insufficient_data
  BY TokensApart DEF InStep
<1>3. TakesBits(e, b)
  BY <1>2 DEF OutOfTokens, MakesUp, StopsAt
<1>4. Decoded(e, MCU(k)) = MCU(k)
  <2>1. StartsInterval(k) <=> r = restart_interval
    BY StartsWhen
  <2>2. e.last_dc_val = IF r = restart_interval THEN None ELSE MCU(k - 1)
    BY DEF InStep
  <2>3. MCU(k)[1] = "MCU" /\ MCU(k)[2] = k
    BY TokensApart
  <2> HIDE DEF k
  <2> QED
    BY <2>1, <2>2, <2>3 DEF Decoded
<1>5. b.value = MCU(k)
  BY <1>3, <1>4 DEF TakesBits
<1>6. /\ b.e.at = e.at + 1 /\ b.e.unread_marker = None /\ ~b.e.insufficient_data
      /\ b.e.next_restart_num = J % 8 /\ b.e.last_dc_val = MCU(k)
  BY <1>3, <1>5 DEF TakesBits, Ticked, InStep
<1>7. /\ e.at = J * Unit + (restart_interval - r) + 1 + S
      /\ r - 1 # restart_interval
  BY DEF InStep
<1>8. (J + 1) * restart_interval - (r - 1) - 1 = k
  BY <1>1
<1> HIDE DEF k
<1>9. b.e.at = J * Unit + (restart_interval - (r - 1)) + 1 + S
  BY <1>1, <1>6, <1>7
<1> QED
  BY <1>5, <1>6, <1>7, <1>8, <1>9 DEF InStep, k

\* The marker that ends an interval where the decoder is in step.
LEMMA InStepRestart ==
    ASSUME Numbers, NEW J \in Nat, NEW S \in Int, NEW e, Reading(e), InStep(J, 0, e, S),
           NEW limit \in Nat, limit <= Len(data), e.at <= limit + 1, e.at <= Len(data), DataEnds,
           data[e.at] = RST(J % 8), NEW p
    PROVE  /\ StillLooking(e, p.e, limit) => InStep(J, 0, p.e, S) /\ p.e.at = e.at
           /\ \A m, x : Met(e, limit, m, x) /\ Restarts(e, p.e, m, x) =>
                 InStep(J + 1, restart_interval, p.e, S) /\ p.e.at = e.at + 1
<1>1. /\ e \in Decoders /\ e.at \in Nat \ {0} /\ Len(data) \in Nat
      /\ restart_interval \in Nat \ {0} /\ J * Unit \in Int /\ (J + 1) * Unit = J * Unit + Unit
      /\ Unit = restart_interval + 1
  BY UnitOrder DEF Reading, Decoders, DataEnds, Numbers, Unit
<1>2. /\ e.unread_marker = None /\ ~e.insufficient_data /\ e.next_restart_num = J % 8
      /\ e.at = J * Unit + (restart_interval - 0) + 1 + S
  BY DEF InStep
<1>3. /\ data[e.at] \in Markers /\ ~Scans(e, data[e.at]) /\ Left(e, data[e.at]) = None
  <2>1. J % 8 \in 0..7
    OBVIOUS
  <2>2. RecoveryAction(RST(J % 8), J % 8) = "discard"
    BY RecoveryActions
  <2> QED
    BY <1>2, <2>1, <2>2, TokensApart DEF Scans, Discards, Left
<1>4. ASSUME StillLooking(e, p.e, limit)
      PROVE  InStep(J, 0, p.e, S) /\ p.e.at = e.at
  <2>1. ~(e.at <= limit)
    <3>1. ScannedUpTo(e, limit)
      BY <1>4 DEF StillLooking
    <3>2. e.at <= limit => e.at \in e.at..limit
      BY <1>1
    <3> QED
      BY <1>3, <3>1, <3>2 DEF ScannedUpTo
  <2>2. e.at = limit + 1 /\ e.at..limit = {}
    BY <1>1, <2>1
  <2>3. Moved(e, p.e, limit + 1, None, e.next_restart_num)
    BY <1>2, <1>4, <2>2 DEF StillLooking
  <2> QED
    BY <2>2, <2>3 DEF InStep, Moved
<1>5. ASSUME NEW m, NEW x, Met(e, limit, m, x), Restarts(e, p.e, m, x)
      PROVE  InStep(J + 1, restart_interval, p.e, S) /\ p.e.at = e.at + 1
  <2>1. m \in (e.at + 1)..(limit + 1) /\ x = data[m - 1] /\ ScannedUpTo(e, m - 2)
    BY <1>2, <1>5, TokensApart DEF Met
  <2>2. ~(e.at <= m - 2)
    BY <1>1, <1>3, <2>1 DEF ScannedUpTo
  <2>3. m = e.at + 1 /\ m - 1 = e.at
    BY <1>1, <2>1, <2>2
  <2>4. /\ p.e.at = e.at + 1 /\ p.e.unread_marker = None /\ ~p.e.insufficient_data
        /\ p.e.last_dc_val = None /\ p.e.next_restart_num = ((J % 8) + 1) % 8
    BY <1>2, <1>3, <1>5, <2>1, <2>3 DEF Restarts
  <2>5. ((J % 8) + 1) % 8 = (J + 1) % 8
    OBVIOUS
  <2>6. p.e.at = (J + 1) * Unit + (restart_interval - restart_interval) + 1 + S
    <3> DEFINE a == J * Unit
               b == (J + 1) * Unit
    <3>1. /\ a \in Int /\ b = a + restart_interval + 1 /\ restart_interval \in Int
          /\ e.at = a + (restart_interval - 0) + 1 + S /\ p.e.at = e.at + 1
      BY <1>1, <1>2, <2>4
    <3> HIDE DEF a, b
    <3>2. p.e.at = b + (restart_interval - restart_interval) + 1 + S
      BY <3>1
    <3> QED
      BY <3>2 DEF b
  <2> QED
    BY <2>4, <2>5, <2>6 DEF InStep
<1> QED
  BY <1>4, <1>5

\* What there is at the end of the tear, and that it is not scanned over in the intervals
\* that were spoilt.
LEMMA TearEnd ==
    ASSUME Numbers, Laid(Encoded, MCUCount, restart_interval),
           NEW F, NEW Y, NEW A, NEW Z, NEW S, Tear(F, Y, A, Z, S)
    PROVE  /\ data[Z] \in Markers /\ data[Z] # None /\ Z \in Nat \ {0}
           /\ \/ data[Z] = EOI /\ \A J \in Nat : (J + 1) * restart_interval < MCUCount => J < Y
              \/ data[Z] = RST(Y % 8) /\ Z = (Y + 1) * Unit + S
           /\ \A J \in F..Y : RecoveryAction(data[Z], J % 8) # "scan"
           /\ \A J \in F..Y :
                 RecoveryAction(data[Z], J % 8) = "discard" \/ J < Y
                 \/ ~((J + 1) * restart_interval < MCUCount)
           /\ \A J \in F..Y : RecoveryAction(data[Z], J % 8) = "discard" =>
                 J = Y /\ Z = (Y + 1) * Unit + S
<1>1. /\ F \in Nat /\ Y \in F..(F + 2) /\ S \in Int /\ Z \in Nat \ {0} /\ Z <= Len(data)
      /\ Z - S = Lesser((Y + 1) * Unit, Len(Encoded)) /\ data[Z] = Encoded[Z - S]
      /\ Y \in Nat /\ Len(data) \in Nat
  BY DEF Tear
<1>2. /\ Len(Encoded) \in Nat \ {0} /\ Encoded[Len(Encoded)] = EOI
      /\ MCUsLaid(Encoded, MCUCount, restart_interval)
      /\ RestartsLaid(Encoded, MCUCount, restart_interval)
  BY DEF Laid, Numbers
<1>3. (Y + 1) * Unit \in Nat
  BY <1>1 DEF Unit, Numbers
<1>4. ASSUME NEW J \in F..Y
      PROVE  J \in Nat /\ (Y = J \/ Y = J + 1 \/ Y = J + 2)
  BY <1>1
<1>5. CASE (Y + 1) * Unit < Len(Encoded)
  <2>1. Z - S = (Y + 1) * Unit
    BY <1>1, <1>5 DEF Lesser
  <2>2. Z = (Y + 1) * Unit + S
    BY <1>1, <1>3, <2>1
  <2>3. data[Z] = RST(Y % 8)
    BY <1>1, <1>2, <1>5, <2>1 DEF RestartsLaid, Unit
  <2>4. Y % 8 \in 0..7
    BY <1>1
  <2>5. ASSUME NEW J \in F..Y
        PROVE  /\ RecoveryAction(data[Z], J % 8) # "scan"
               /\ RecoveryAction(data[Z], J % 8) # "discard" => J < Y
               /\ RecoveryAction(data[Z], J % 8) = "discard" => J = Y
    <3>1. J \in Nat /\ (Y = J \/ Y = J + 1 \/ Y = J + 2)
      BY <1>4
    <3>2. /\ RecoveryAction(RST(J % 8), J % 8) = "discard"
          /\ RecoveryAction(RST((J + 1) % 8), J % 8) = "leave"
          /\ RecoveryAction(RST((J + 2) % 8), J % 8) = "leave"
      BY <3>1, RecoveryActions
    <3> QED
      BY <2>3, <3>1, <3>2
  <2> QED
    BY <1>1, <2>2, <2>3, <2>4, <2>5, TokensApart
<1>6. CASE (Y + 1) * Unit >= Len(Encoded)
  <2>1. Z - S = Len(Encoded)
    BY <1>1, <1>2, <1>3, <1>6 DEF Lesser
  <2>2. data[Z] = EOI
    BY <1>1, <1>2, <2>1
  <2>3. ASSUME NEW J \in Nat, (J + 1) * restart_interval < MCUCount
        PROVE  J < Y
    <3>1. (J + 1) * Unit < Len(Encoded)
      BY <1>2, <2>3 DEF RestartsLaid, Unit
    <3>2. CASE J >= Y
      <4>1. (Y + 1) * Unit <= (J + 1) * Unit
        BY <1>1, <3>2, UnitOrder
      <4>2. (J + 1) * Unit \in Int
        BY UnitOrder
      <4> QED
        BY <1>2, <1>3, <1>6, <3>1, <4>1, <4>2
    <3> QED
      BY <1>1, <3>2
  <2>4. \A J \in F..Y : RecoveryAction(data[Z], J % 8) = "leave"
    BY <2>2, EOILeft
  <2>5. \A J \in F..Y : J \in Nat
    BY <1>4
  <2> QED
    BY <1>1, <2>2, <2>3, <2>4, <2>5, TokensApart
<1> QED
  BY <1>2, <1>3, <1>5, <1>6

\* Where the decoder is in the stream when it is in step.
LEMMA PlaceInStep ==
    ASSUME Numbers, Laid(Encoded, MCUCount, restart_interval), NEW J \in Nat, NEW S \in Int,
           NEW r \in 1..restart_interval, (J + 1) * restart_interval - r < MCUCount,
           NEW e, InStep(J, r, e, S)
    PROVE  /\ e.at - S \in Nat /\ e.at \in Int /\ e.at - S < Len(Encoded)
           /\ J * Unit < e.at - S /\ e.at - S < (J + 1) * Unit
           /\ Encoded[e.at - S] = MCU((J + 1) * restart_interval - r)
<1> DEFINE a == J * Unit
           b == (J + 1) * Unit
           q == a + (restart_interval - r) + 1
<1>1. a \in Nat /\ b = a + restart_interval + 1 /\ restart_interval \in Nat
  <2>1. Unit = restart_interval + 1 /\ restart_interval \in Nat
    BY DEF Unit, Numbers
  <2>2. a \in Nat /\ b = a + Unit
    BY <2>1
  <2> HIDE DEF a, b
  <2> QED
    BY <2>1, <2>2
<1>2. q < Len(Encoded) /\ Encoded[q] = MCU((J + 1) * restart_interval - r)
  <2>1. MCUsLaid(Encoded, MCUCount, restart_interval) /\ restart_interval \in Nat
    BY DEF Laid, Numbers
  <2>2. /\ J * (restart_interval + 1) + (restart_interval - r) + 1 < Len(Encoded)
        /\ Encoded[J * (restart_interval + 1) + (restart_interval - r) + 1]
              = MCU((J + 1) * restart_interval - r)
    BY <2>1 DEF MCUsLaid
  <2> QED
    BY <2>2 DEF Unit
<1>3. e.at = a + (restart_interval - r) + 1 + S
  BY DEF InStep
<1> HIDE DEF a, b
<1>4. e.at - S = q /\ q \in Nat /\ a < q /\ q < b /\ e.at \in Int
  BY <1>1, <1>3
<1> HIDE DEF q
<1> QED
  BY <1>2, <1>4 DEF a, b

\* Where the last MCU of an interval, and the marker behind it, are.
LEMMA PlaceAtEnd ==
    ASSUME Numbers, Laid(Encoded, MCUCount, restart_interval), NEW J \in Nat, NEW S \in Int,
           (J + 1) * restart_interval < MCUCount, NEW e, InStep(J, 0, e, S)
    PROVE  /\ e.at \in Int /\ e.at - S = (J + 1) * Unit /\ e.at - S < Len(Encoded)
           /\ Encoded[e.at - S] = RST(J % 8)
<1> DEFINE a == J * Unit
           b == (J + 1) * Unit
<1>1. a \in Nat /\ b = a + restart_interval + 1 /\ restart_interval \in Nat
  <2>1. Unit = restart_interval + 1 /\ restart_interval \in Nat
    BY DEF Unit, Numbers
  <2>2. a \in Nat /\ b = a + Unit
    BY <2>1
  <2> HIDE DEF a, b
  <2> QED
    BY <2>1, <2>2
<1>2. b < Len(Encoded) /\ Encoded[b] = RST(J % 8)
  BY DEF Laid, RestartsLaid, Numbers, Unit
<1>3. e.at = a + (restart_interval - 0) + 1 + S
  BY DEF InStep
<1> HIDE DEF a, b
<1>4. e.at - S = b /\ e.at \in Int
  BY <1>1, <1>3
<1> QED
  BY <1>2, <1>4 DEF b

\* An interval that ends behind A is that of A, if it begins before.
LEMMA TearInterval ==
    ASSUME Numbers, NEW F \in Nat, NEW J \in Nat, NEW A \in Nat,
           F * Unit <= A, A < (F + 1) * Unit, J * Unit <= A, A < (J + 1) * Unit
    PROVE  J = F
<1>1. J * Unit < (F + 1) * Unit /\ F * Unit < (J + 1) * Unit
  <2>1. \A L \in Nat : L * Unit \in Int
    BY UnitOrder
  <2>2. J * Unit \in Int /\ F * Unit \in Int /\ (F + 1) * Unit \in Int /\ (J + 1) * Unit \in Int
    <3>1. F + 1 \in Nat /\ J + 1 \in Nat
      OBVIOUS
    <3> QED
      BY <2>1, <3>1
  <2> QED
    BY <2>2
<1>2. Unit \in Nat \ {0}
  BY UnitOrder
<1>3. J < F + 1 /\ F < J + 1
  BY <1>1, <1>2, MonotoneProduct
<1> QED
  BY <1>3

\* What is given when bits are decoded, and what comes of it.
Bits(J, r, e, b, limit) ==
    /\ J \in Nat /\ r \in 1..restart_interval /\ (J + 1) * restart_interval - r < MCUCount
    /\ Reading(e) /\ e.restarts_to_go = r /\ limit \in Nat
    /\ OutOfTokens(e, b, limit) \/ TakesBits(e, b) \/ MakesUp(e, b)
GoodMCU(J, r, b) ==
    \/ b.value = MCU((J + 1) * restart_interval - r)
    \/ (J + 1) * restart_interval - r \in damaged

\* The next MCU of a torn stream: whatever comes out, the decoder stays on its way, and what
\* comes out wrong is damaged.
LEMMA TearBits ==
    ASSUME Numbers, Laid(Encoded, MCUCount, restart_interval),
           NEW F, NEW Y, NEW A, NEW Z, NEW S, Tear(F, Y, A, Z, S),
           NEW J, NEW r, NEW e, NEW b, NEW limit, Bits(J, r, e, b, limit),
           OnTheWay(F, Y, A, Z, S, J, r, e), b.ok
    PROVE  OnTheWay(F, Y, A, Z, S, J, r - 1, b.e) /\ GoodMCU(J, r, b)
<1>1. /\ J \in Nat /\ r \in 1..restart_interval /\ (J + 1) * restart_interval - r < MCUCount
      /\ Reading(e) /\ e.restarts_to_go = r /\ limit \in Nat
      /\ OutOfTokens(e, b, limit) \/ TakesBits(e, b) \/ MakesUp(e, b)
      /\ TakesBits(e, b) \/ MakesUp(e, b)
  BY DEF Bits, OutOfTokens
<1>2. /\ F \in Nat /\ Y \in F..(F + 2) /\ Y \in Nat /\ S \in Int
      /\ A \in Nat /\ A <= Len(data) /\ F * Unit <= A /\ A < (F + 1) * Unit
      /\ Z \in Nat /\ A + 1 <= Z /\ Z <= Len(data) /\ Len(data) = Len(Encoded) + S
      /\ Len(data) \in Nat /\ Len(Encoded) \in Nat
      /\ Z - S = Lesser((Y + 1) * Unit, Len(Encoded))
  BY DEF Tear, Laid
<1>3. data[Z] \in Markers /\ data[Z] # None
  BY TearEnd
<1>4. e.at \in Nat
  BY <1>1 DEF Reading, Decoders
<1>5. CASE InStep(J, r, e, 0) /\ e.at <= A
  <2>1. /\ e.at - 0 = e.at /\ J * Unit < e.at /\ e.at < (J + 1) * Unit /\ e.at \in 1..A
        /\ Encoded[e.at] = MCU((J + 1) * restart_interval - r) /\ J * Unit \in Nat
        /\ (J + 1) * Unit \in Nat
    <3>1. /\ e.at - 0 \in Nat /\ J * Unit < e.at - 0 /\ e.at - 0 < (J + 1) * Unit
          /\ Encoded[e.at - 0] = MCU((J + 1) * restart_interval - r)
      BY <1>1, <1>5, PlaceInStep
    <3>2. e.at - 0 = e.at
      BY <1>4
    <3>3. J * Unit \in Nat /\ (J + 1) * Unit \in Nat
      BY <1>1 DEF Unit, Numbers
    <3> QED
      BY <1>2, <1>4, <1>5, <3>1, <3>2, <3>3
  <2>2. data[e.at] = MCU((J + 1) * restart_interval - r)
    BY <2>1 DEF Tear
  <2>3. /\ InStep(J, r - 1, b.e, 0) /\ b.e.at = e.at + 1
        /\ b.value = MCU((J + 1) * restart_interval - r)
    BY <1>1, <1>5, <2>2, InStepBits
  <2>4. CASE e.at + 1 <= A
    BY <2>3, <2>4 DEF OnTheWay, GoodMCU
  <2>5. CASE ~(e.at + 1 <= A)
    <3>1. e.at = A
      BY <1>2, <1>4, <1>5, <2>5
    <3>2. J = F
      BY <1>1, <1>2, <2>1, <3>1, TearInterval
    <3>3. Lost(F, A, Z, b.e)
      BY <1>2, <2>3, <3>1, <3>2 DEF Lost, InStep
    <3> QED
      BY <2>3, <3>2, <3>3 DEF OnTheWay, GoodMCU
  <2> QED
    BY <2>4, <2>5
<1>6. ASSUME J \in F..Y
      PROVE  GoodMCU(J, r, b)
  BY <1>1, <1>6 DEF Tear, Spoilt, GoodMCU
<1>7. CASE J = F /\ Lost(F, A, Z, e)
  <2>1. e.at \in (A + 1)..Z /\ e.unread_marker \in {None} \cup Stray(F)
        /\ e.next_restart_num = F % 8
    BY <1>7 DEF Lost
  <2>2. GoodMCU(J, r, b)
    BY <1>2, <1>6, <1>7
  <2>3. b.e.next_restart_num = F % 8
    BY <1>1, <2>1 DEF TakesBits, MakesUp, Ticked
  <2>4. CASE TakesBits(e, b)
    <3>1. e.at # Z /\ b.e.at = e.at + 1 /\ b.e.unread_marker = None
      BY <1>3, <2>4 DEF TakesBits
    <3>2. b.e.at \in (A + 1)..Z
      BY <1>2, <2>1, <3>1
    <3> QED
      BY <1>7, <2>2, <2>3, <3>1, <3>2 DEF OnTheWay, Lost
  <2>5. CASE Stays(e, b.e)
    BY <1>7, <2>1, <2>2, <2>3, <2>5 DEF OnTheWay, Lost, Stays
  <2>6. CASE StopsAt(e, b.e)
    <3>1. b.e.at = e.at + 1 /\ data[e.at] \in Markers /\ b.e.unread_marker = data[e.at]
      BY <2>6 DEF StopsAt
    <3>2. CASE e.at = Z
      <4>1. F \in F..Y
        BY <1>2
      <4>2. Holding(Z, J, b.e)
        BY <1>7, <2>3, <3>1, <3>2 DEF Holding
      <4> QED
        BY <1>7, <2>2, <4>1, <4>2 DEF OnTheWay
    <3>3. CASE e.at # Z
      <4>1. e.at \in (A + 1)..(Z - 1) /\ b.e.at \in (A + 1)..Z
        BY <1>2, <2>1, <3>1, <3>3
      <4>2. data[e.at] \in Stray(F)
        BY <3>1, <4>1 DEF Tear
      <4> QED
        BY <1>7, <2>2, <2>3, <3>1, <4>1, <4>2 DEF OnTheWay, Lost
    <3> QED
      BY <3>2, <3>3
  <2> QED
    BY <1>1, <2>4, <2>5, <2>6 DEF MakesUp
<1>8. CASE J \in F..Y /\ Holding(Z, J, e)
  <2>1. e.at = Z + 1 /\ e.unread_marker = data[Z] /\ e.next_restart_num = J % 8
    BY <1>8 DEF Holding
  <2>2. MakesUp(e, b) /\ Stays(e, b.e)
    BY <1>1, <1>3, <2>1 DEF TakesBits, MakesUp, StopsAt
  <2>3. Holding(Z, J, b.e)
    BY <2>1, <2>2 DEF Holding, Stays, MakesUp, Ticked
  <2> QED
    BY <1>6, <1>8, <2>3 DEF OnTheWay
<1>9. CASE J > Y /\ InStep(J, r, e, S)
  <2>1. /\ e.at - S \in Nat /\ e.at - S < Len(Encoded) /\ J * Unit < e.at - S
        /\ Encoded[e.at - S] = MCU((J + 1) * restart_interval - r)
    BY <1>1, <1>2, <1>9, PlaceInStep
  <2>2. (Y + 1) * Unit <= J * Unit /\ (Y + 1) * Unit \in Int /\ J * Unit \in Int
    <3>1. Y + 1 <= J /\ Y + 1 \in Int /\ J \in Int
      BY <1>1, <1>2, <1>9
    <3> QED
      BY <3>1, UnitOrder
  <2>3. Z - S <= (Y + 1) * Unit
    BY <1>2, <2>2 DEF Lesser
  <2>4. e.at \in Z..Len(data)
    <3> DEFINE u == (Y + 1) * Unit
               v == J * Unit
    <3>1. u <= v /\ v < e.at - S /\ Z - S <= u /\ u \in Int /\ v \in Int
      BY <2>1, <2>2, <2>3
    <3> HIDE DEF u, v
    <3> QED
      BY <1>2, <1>4, <2>1, <3>1
  <2>5. data[e.at] = MCU((J + 1) * restart_interval - r)
    BY <2>1, <2>4 DEF Tear
  <2>6. InStep(J, r - 1, b.e, S) /\ b.value = MCU((J + 1) * restart_interval - r)
    BY <1>1, <1>2, <1>9, <2>5, InStepBits
  <2> QED
    BY <1>9, <2>6 DEF OnTheWay, GoodMCU
<1> QED
  BY <1>5, <1>7, <1>8, <1>9 DEF OnTheWay

\* In a stream whose markers are too far off anything may come after the tear.
LEMMA PhaseAstray ==
    ASSUME NEW F, NEW A, Astray(F, A), NEW J, NEW r, NEW e,
           J >= F \/ (InStep(J, r, e, 0) /\ e.at <= A)
    PROVE  Phase(J, r, e)
<1>1. \E G, B : Astray(G, B) /\ (J >= G \/ (InStep(J, r, e, 0) /\ e.at <= B))
  OBVIOUS
<1> QED
  BY <1>1 DEF Phase

\* The next MCU in any stream.
LEMMA PhaseBits ==
    ASSUME Numbers, Laid(Encoded, MCUCount, restart_interval),
           NEW J, NEW r, NEW e, NEW b, NEW limit, Bits(J, r, e, b, limit), Phase(J, r, e), b.ok
    PROVE  Phase(J, r - 1, b.e) /\ GoodMCU(J, r, b)
<1>1. /\ J \in Nat /\ r \in 1..restart_interval /\ (J + 1) * restart_interval - r < MCUCount
      /\ Reading(e) /\ e.restarts_to_go = r /\ limit \in Nat
      /\ OutOfTokens(e, b, limit) \/ TakesBits(e, b) \/ MakesUp(e, b)
  BY DEF Bits
<1>2. e.at \in Nat /\ e.at - 0 = e.at
  <2>1. e.at \in Nat
    BY <1>1 DEF Reading, Decoders
  <2> QED
    BY <2>1
<1>3. ASSUME InStep(J, r, e, 0), data[e.at] = Encoded[e.at]
      PROVE  /\ InStep(J, r - 1, b.e, 0) /\ b.e.at = e.at + 1 /\ GoodMCU(J, r, b)
             /\ J * Unit < e.at /\ e.at < (J + 1) * Unit
  <2>1. /\ J * Unit < e.at /\ e.at < (J + 1) * Unit
        /\ Encoded[e.at] = MCU((J + 1) * restart_interval - r)
    BY <1>1, <1>2, <1>3, PlaceInStep
  <2>2. /\ InStep(J, r - 1, b.e, 0) /\ b.e.at = e.at + 1
        /\ b.value = MCU((J + 1) * restart_interval - r)
    BY <1>1, <1>3, <2>1, InStepBits
  <2> QED
    BY <2>1, <2>2 DEF GoodMCU
<1>4. CASE data = Encoded /\ InStep(J, r, e, 0)
  BY <1>3, <1>4 DEF Phase
<1>5. CASE \E F, Y, A, Z, S : Tear(F, Y, A, Z, S) /\ OnTheWay(F, Y, A, Z, S, J, r, e)
  BY <1>5, TearBits DEF Phase
<1>6. CASE \E F, A : Astray(F, A) /\ (J >= F \/ (InStep(J, r, e, 0) /\ e.at <= A))
  <2>1. PICK F, A : Astray(F, A) /\ (J >= F \/ (InStep(J, r, e, 0) /\ e.at <= A))
    BY <1>6
  <2>2. /\ F \in Nat /\ A \in Nat /\ F * Unit <= A /\ A < (F + 1) * Unit
    BY <2>1 DEF Astray
  <2>3. CASE J >= F
    <3>1. GoodMCU(J, r, b)
      BY <1>1, <2>1, <2>3 DEF Astray, Spoilt, GoodMCU
    <3>2. \A s, f : Phase(J, s, f)
      BY <2>1, <2>3, PhaseAstray
    <3> QED
      BY <3>1, <3>2
  <2>4. CASE InStep(J, r, e, 0) /\ e.at <= A
    <3>1. e.at \in 1..A
      BY <1>1, <1>2, <2>2, <2>4 DEF Reading, Decoders
    <3>2. data[e.at] = Encoded[e.at]
      BY <2>1, <3>1 DEF Astray
    <3>3. /\ InStep(J, r - 1, b.e, 0) /\ b.e.at = e.at + 1 /\ GoodMCU(J, r, b)
          /\ J * Unit < e.at /\ e.at < (J + 1) * Unit
      BY <1>3, <2>4, <3>2
    <3>4. CASE b.e.at <= A
      BY <2>1, <3>3, <3>4, PhaseAstray
    <3>5. CASE ~(b.e.at <= A)
      <4>1. e.at = A
        BY <1>2, <2>2, <2>4, <3>3, <3>5
      <4>2. J * Unit \in Nat
        BY <1>1 DEF Unit, Numbers
      <4>3. J = F
        BY <1>1, <2>2, <3>3, <4>1, <4>2, TearInterval
      <4>4. J >= F
        BY <2>2, <4>3
      <4>5. \A s, f : Phase(J, s, f)
        BY <2>1, <4>4, PhaseAstray
      <4> QED
        BY <3>3, <4>5
    <3> QED
      BY <3>4, <3>5
  <2> QED
    BY <2>1, <2>3, <2>4
<1> QED
  BY <1>4, <1>5, <1>6 DEF Phase

\* What is given when a restart marker is due, and what comes of it.
Restart(J, e, p, limit) ==
    /\ J \in Nat /\ (J + 1) * restart_interval < MCUCount
    /\ Reading(e) /\ DataEnds /\ limit \in Nat /\ limit <= Len(data) /\ e.at <= limit + 1
    /\ \/ ~p.ok /\ StillLooking(e, p.e, limit)
       \/ p.ok /\ \E m, x : Met(e, limit, m, x) /\ Restarts(e, p.e, m, x)

\* In step the decoder goes on to the next interval.
LEMMA PhaseInStepRestart ==
    ASSUME Numbers, Laid(Encoded, MCUCount, restart_interval), NEW S \in Int,
           NEW J, NEW e, NEW p, NEW limit, Restart(J, e, p, limit), InStep(J, 0, e, S),
           e.at <= Len(data), data[e.at] = Encoded[e.at - S]
    PROVE  /\ ~p.ok => InStep(J, 0, p.e, S) /\ p.e.at = e.at
           /\ p.ok => InStep(J + 1, restart_interval, p.e, S) /\ p.e.at = e.at + 1
<1>1. /\ J \in Nat /\ (J + 1) * restart_interval < MCUCount
      /\ Reading(e) /\ DataEnds /\ limit \in Nat /\ limit <= Len(data) /\ e.at <= limit + 1
  BY DEF Restart
<1>2. data[e.at] = RST(J % 8)
  BY <1>1, PlaceAtEnd
<1>3. /\ StillLooking(e, p.e, limit) => InStep(J, 0, p.e, S) /\ p.e.at = e.at
      /\ \A m, x : Met(e, limit, m, x) /\ Restarts(e, p.e, m, x) =>
            InStep(J + 1, restart_interval, p.e, S) /\ p.e.at = e.at + 1
  BY <1>1, <1>2, InStepRestart
<1> QED
  BY <1>3 DEF Restart

\* Lost, it looks for the end of the tear.
LEMMA LostRestart ==
    ASSUME Numbers, Laid(Encoded, MCUCount, restart_interval),
           NEW F, NEW Y, NEW A, NEW Z, NEW S, Tear(F, Y, A, Z, S),
           NEW e, NEW p, NEW limit, Restart(F, e, p, limit), Lost(F, A, Z, e)
    PROVE  /\ ~p.ok => Lost(F, A, Z, p.e)
           /\ p.ok => \E x : Restarts(e, p.e, Z + 1, x) /\ x = data[Z]
<1>1. /\ Reading(e) /\ DataEnds /\ limit \in Nat /\ limit <= Len(data) /\ e.at <= limit + 1
      /\ F \in Nat /\ Len(data) \in Nat /\ e.at \in Nat
  BY DEF Restart, DataEnds, Reading, Decoders
<1>2. e.at \in (A + 1)..Z /\ e.unread_marker \in {None} \cup Stray(F) /\ e.next_restart_num = F % 8
  BY DEF Lost
<1>3. A \in Nat /\ Z \in Nat /\ Z <= Len(data) /\ Y \in F..(F + 2) /\ F \in F..Y
  BY <1>1 DEF Tear
<1>4. \A x \in Stray(F) : Scans(e, x)
  <2>1. /\ RecoveryAction(Invalid, F % 8) = "scan"
        /\ RecoveryAction(RST((F - 1) % 8), F % 8) = "scan"
        /\ RecoveryAction(RST((F - 2) % 8), F % 8) = "scan"
    BY <1>1, RecoveryActions
  <2> QED
    BY <1>2, <2>1 DEF Scans, Stray
<1>5. data[Z] \in Markers /\ ~Scans(e, data[Z])
  BY <1>2, <1>3, TearEnd DEF Scans
<1>6. \A t \in e.at..(Z - 1) : data[t] \in Markers => data[t] \in Stray(F)
  <2>1. \A t \in (A + 1)..(Z - 1) : data[t] \in Markers => data[t] \in Stray(F)
    BY DEF Tear
  <2>2. e.at..(Z - 1) \subseteq (A + 1)..(Z - 1)
    BY <1>1, <1>2, <1>3
  <2> QED
    BY <2>1, <2>2
<1>7. ASSUME StillLooking(e, p.e, limit)
      PROVE  Lost(F, A, Z, p.e)
  <2>1. ~(Z <= limit)
    <3>1. Z <= limit => Z \in e.at..limit
      BY <1>1, <1>2, <1>3
    <3> QED
      BY <1>5, <1>7, <3>1 DEF StillLooking, ScannedUpTo
  <2>2. PICK u \in {None, e.unread_marker} \cup {data[t] : t \in e.at..limit} :
           Moved(e, p.e, limit + 1, u, e.next_restart_num) /\ (u = None \/ Scans(e, u))
    BY <1>7 DEF StillLooking
  <2>3. limit + 1 \in (A + 1)..Z
    BY <1>1, <1>2, <1>3, <2>1
  <2>4. u \in {None} \cup Stray(F)
    <3>1. CASE \E t \in e.at..limit : u = data[t]
      <4>1. PICK t \in e.at..limit : u = data[t]
        BY <3>1
      <4>2. t \in e.at..(Z - 1)
        BY <1>1, <1>3, <2>1, <4>1
      <4>3. u \in {None} \cup Markers
        BY <2>2 DEF Moved, Decoders
      <4> QED
        BY <1>6, <4>1, <4>2, <4>3
    <3> QED
      BY <1>2, <2>2, <3>1
  <2> QED
    BY <1>2, <2>2, <2>3, <2>4 DEF Lost, Moved
<1>8. ASSUME NEW m, NEW x, Met(e, limit, m, x), Restarts(e, p.e, m, x)
      PROVE  m = Z + 1 /\ x = data[Z]
  <2>1. x \in Markers /\ ~Scans(e, x)
    BY <1>8 DEF Met
  <2>2. x # e.unread_marker
    BY <1>2, <1>4, <2>1, TokensApart
  <2>3. m \in (e.at + 1)..(limit + 1) /\ x = data[m - 1] /\ ScannedUpTo(e, m - 2)
    BY <1>8, <2>2 DEF Met
  <2>4. ~(m - 1 < Z)
    <3>1. m - 1 < Z => m - 1 \in e.at..(Z - 1)
      BY <1>1, <1>3, <2>3
    <3> QED
      BY <1>4, <1>6, <2>1, <2>3, <3>1
  <2>5. ~(m - 1 > Z)
    <3>1. m - 1 > Z => Z \in e.at..(m - 2)
      BY <1>1, <1>2, <1>3, <2>3
    <3> QED
      BY <1>5, <2>3, <3>1 DEF ScannedUpTo
  <2>6. m - 1 = Z
    BY <1>1, <1>3, <2>3, <2>4, <2>5
  <2> QED
    BY <1>1, <1>3, <2>3, <2>6
<1>9. p.ok => \E m, x : Met(e, limit, m, x) /\ Restarts(e, p.e, m, x)
  BY DEF Restart
<1>10. ~p.ok => StillLooking(e, p.e, limit)
  BY DEF Restart
<1> QED
  BY <1>7, <1>8, <1>9, <1>10

\* The marker at the end of the tear is met in interval J: it is the one that is due, or it is
\* kept.
LEMMA EndMet ==
    ASSUME Numbers, Laid(Encoded, MCUCount, restart_interval),
           NEW F, NEW Y, NEW A, NEW Z, NEW S, Tear(F, Y, A, Z, S), NEW J \in F..Y,
           (J + 1) * restart_interval < MCUCount,
           NEW e, e.next_restart_num = J % 8, NEW f, Restarts(e, f, Z + 1, data[Z])
    PROVE  OnTheWay(F, Y, A, Z, S, J + 1, restart_interval, f)
<1>1. /\ F \in Nat /\ Y \in F..(F + 2) /\ J \in Nat /\ Y \in Nat /\ S \in Int
      /\ restart_interval \in Nat \ {0}
  BY DEF Tear, Numbers
<1>2. f.at = Z + 1 /\ f.next_restart_num = (J + 1) % 8 /\ f.last_dc_val = None
  <2>1. ((J % 8) + 1) % 8 = (J + 1) % 8
    BY <1>1
  <2> QED
    BY <2>1 DEF Restarts
<1>3. CASE RecoveryAction(data[Z], J % 8) = "discard"
  <2>1. J = Y /\ Z = (Y + 1) * Unit + S
    BY <1>3, TearEnd
  <2>2. f.unread_marker = None /\ ~f.insufficient_data
    BY <1>3 DEF Restarts, Left, Discards
  <2>3. f.at = (J + 1) * Unit + (restart_interval - restart_interval) + 1 + S
    <3> DEFINE a == (J + 1) * Unit
    <3>1. a \in Int /\ Z = a + S
      <4>1. J + 1 \in Int
        BY <1>1
      <4>2. a \in Int
        BY <4>1, UnitOrder
      <4> QED
        BY <2>1, <4>2
    <3> HIDE DEF a
    <3>2. f.at = a + (restart_interval - restart_interval) + 1 + S
      BY <1>1, <1>2, <3>1
    <3> QED
      BY <3>2 DEF a
  <2>4. InStep(J + 1, restart_interval, f, S) /\ J + 1 > Y
    BY <1>1, <1>2, <2>1, <2>2, <2>3 DEF InStep
  <2> QED
    BY <2>4 DEF OnTheWay
<1>4. CASE RecoveryAction(data[Z], J % 8) # "discard"
  <2>1. J < Y
    BY <1>4, TearEnd
  <2>2. J + 1 \in F..Y
    BY <1>1, <2>1
  <2>3. f.unread_marker = data[Z]
    BY <1>4 DEF Restarts, Left, Discards
  <2> QED
    BY <1>2, <2>2, <2>3 DEF OnTheWay, Holding
<1> QED
  BY <1>3, <1>4

\* The next restart in a torn stream: the marker that was met is the right one, or a later one
\* that is kept for its interval.
LEMMA TearRestart ==
    ASSUME Numbers, Laid(Encoded, MCUCount, restart_interval),
           NEW F, NEW Y, NEW A, NEW Z, NEW S, Tear(F, Y, A, Z, S),
           NEW J, NEW e, NEW p, NEW limit, Restart(J, e, p, limit),
           OnTheWay(F, Y, A, Z, S, J, 0, e)
    PROVE  /\ ~p.ok => OnTheWay(F, Y, A, Z, S, J, 0, p.e)
           /\ p.ok => OnTheWay(F, Y, A, Z, S, J + 1, restart_interval, p.e)
<1>1. /\ J \in Nat /\ (J + 1) * restart_interval < MCUCount
      /\ Reading(e) /\ DataEnds /\ limit \in Nat /\ limit <= Len(data) /\ e.at <= limit + 1
      /\ e.at \in Nat \ {0}
  BY DEF Restart, Reading, Decoders
<1>2. /\ F \in Nat /\ Y \in F..(F + 2) /\ Y \in Nat /\ S \in Int
      /\ A \in Nat /\ A <= Len(data) /\ F * Unit <= A /\ A < (F + 1) * Unit
      /\ Z \in Nat /\ A + 1 <= Z /\ Z <= Len(data) /\ Len(data) = Len(Encoded) + S
      /\ Len(data) \in Nat /\ Len(Encoded) \in Nat
      /\ Z - S = Lesser((Y + 1) * Unit, Len(Encoded))
  BY DEF Tear, Laid
<1>3. CASE InStep(J, 0, e, 0) /\ e.at <= A
  <2>1. e.at - 0 = e.at /\ e.at \in 1..A
    BY <1>1, <1>2, <1>3
  <2>2. e.at = (J + 1) * Unit
    BY <1>1, <1>3, <2>1, PlaceAtEnd
  <2>3. data[e.at] = Encoded[e.at - 0] /\ e.at <= Len(data)
    BY <1>2, <2>1 DEF Tear
  <2>4. /\ ~p.ok => InStep(J, 0, p.e, 0) /\ p.e.at = e.at
        /\ p.ok => InStep(J + 1, restart_interval, p.e, 0) /\ p.e.at = e.at + 1
    BY <1>3, <2>3, PhaseInStepRestart
  <2>5. CASE ~p.ok
    BY <1>3, <2>4, <2>5 DEF OnTheWay
  <2>6. CASE p.ok /\ e.at + 1 <= A
    BY <2>4, <2>6 DEF OnTheWay
  <2>7. CASE p.ok /\ ~(e.at + 1 <= A)
    <3>1. e.at = A
      BY <1>2, <2>1, <2>7
    <3>2. J + 1 = F
      <4>1. J + 1 \in Nat /\ (J + 1) * Unit <= A
        BY <1>1, <1>2, <2>2, <3>1
      <4>2. A < (J + 1 + 1) * Unit
        <5>1. (J + 1 + 1) * Unit = (J + 1) * Unit + Unit /\ Unit \in Nat \ {0}
          BY <4>1, UnitOrder
        <5> QED
          BY <1>2, <2>2, <3>1, <5>1
      <4> QED
        BY <1>2, <4>1, <4>2, TearInterval
    <3>3. Lost(F, A, Z, p.e)
      BY <1>2, <2>4, <2>7, <3>1, <3>2 DEF Lost, InStep
    <3> QED
      BY <2>7, <3>2, <3>3 DEF OnTheWay
  <2> QED
    BY <2>5, <2>6, <2>7
<1>4. CASE J = F /\ Lost(F, A, Z, e)
  <2>1. /\ ~p.ok => Lost(F, A, Z, p.e)
        /\ p.ok => Restarts(e, p.e, Z + 1, data[Z])
    BY <1>4, LostRestart
  <2>2. J \in F..Y /\ e.next_restart_num = J % 8
    BY <1>2, <1>4 DEF Lost
  <2>3. p.ok => OnTheWay(F, Y, A, Z, S, J + 1, restart_interval, p.e)
    BY <1>1, <2>1, <2>2, EndMet
  <2> QED
    BY <1>4, <2>1, <2>3 DEF OnTheWay
<1>5. CASE J \in F..Y /\ Holding(Z, J, e)
  <2>1. e.at = Z + 1 /\ e.unread_marker = data[Z] /\ e.next_restart_num = J % 8
    BY <1>5 DEF Holding
  <2>2. ~Scans(e, data[Z]) /\ data[Z] # None
    BY <1>5, <2>1, TearEnd DEF Scans
  <2>3. p.ok /\ \E m, x : Met(e, limit, m, x) /\ Restarts(e, p.e, m, x)
    BY <2>1, <2>2 DEF Restart, StillLooking, NoMoreThanScanned
  <2>4. Restarts(e, p.e, Z + 1, data[Z])
    BY <2>1, <2>2, <2>3 DEF Met, NoMoreThanScanned
  <2> QED
    BY <1>1, <1>5, <2>1, <2>3, <2>4, EndMet
<1>6. CASE J > Y /\ InStep(J, 0, e, S)
  <2>1. e.at - S = (J + 1) * Unit /\ e.at - S < Len(Encoded)
    BY <1>1, <1>2, <1>6, PlaceAtEnd
  <2>2. (Y + 1) * Unit <= (J + 1) * Unit /\ (Y + 1) * Unit \in Int
    <3>1. Y + 1 <= J + 1 /\ Y + 1 \in Int /\ J + 1 \in Int
      BY <1>1, <1>2, <1>6
    <3> QED
      BY <3>1, UnitOrder
  <2>3. e.at \in Z..Len(data)
    <3> DEFINE u == (Y + 1) * Unit
               v == (J + 1) * Unit
    <3>1. u <= v /\ v = e.at - S /\ Z - S <= u /\ u \in Int
      BY <1>2, <2>1, <2>2 DEF Lesser
    <3> HIDE DEF u, v
    <3>2. /\ e.at \in Nat /\ S \in Int /\ Z \in Nat /\ Len(Encoded) \in Nat /\ Len(data) \in Nat
          /\ Len(data) = Len(Encoded) + S /\ e.at - S < Len(Encoded)
      BY <1>1, <1>2, <2>1
    <3>3. Z - S <= e.at - S
      BY <3>1, <3>2
    <3> QED
      BY <3>2, <3>3
  <2>4. data[e.at] = Encoded[e.at - S] /\ e.at <= Len(data)
    BY <2>3, <1>2 DEF Tear
  <2>5. /\ ~p.ok => InStep(J, 0, p.e, S)
        /\ p.ok => InStep(J + 1, restart_interval, p.e, S)
    BY <1>2, <1>6, <2>4, PhaseInStepRestart
  <2>6. J + 1 > Y
    BY <1>1, <1>2, <1>6
  <2> QED
    BY <1>6, <2>5, <2>6 DEF OnTheWay
<1> QED
  BY <1>3, <1>4, <1>5, <1>6 DEF OnTheWay

\* The next restart in any stream.
LEMMA PhaseRestart ==
    ASSUME Numbers, Laid(Encoded, MCUCount, restart_interval),
           NEW J, NEW e, NEW p, NEW limit, Restart(J, e, p, limit), Phase(J, 0, e)
    PROVE  /\ ~p.ok => Phase(J, 0, p.e)
           /\ p.ok => Phase(J + 1, restart_interval, p.e)
<1>1. /\ J \in Nat /\ (J + 1) * restart_interval < MCUCount /\ Len(data) \in Nat
      /\ Reading(e) /\ DataEnds /\ limit \in Nat /\ limit <= Len(data) /\ e.at <= limit + 1
      /\ e.at \in Nat \ {0} /\ e.at - 0 = e.at
  BY DEF Restart, Reading, Decoders, DataEnds
<1>2. CASE data = Encoded /\ InStep(J, 0, e, 0)
  <2>1. e.at <= Len(data)
    <3>1. e.at - 0 < Len(Encoded)
      BY <1>1, <1>2, PlaceAtEnd
    <3> QED
      BY <1>1, <1>2, <3>1
  <2>2. /\ ~p.ok => InStep(J, 0, p.e, 0)
        /\ p.ok => InStep(J + 1, restart_interval, p.e, 0)
    BY <1>1, <1>2, <2>1, PhaseInStepRestart
  <2> QED
    BY <1>2, <2>2 DEF Phase
<1>3. CASE \E F, Y, A, Z, S : Tear(F, Y, A, Z, S) /\ OnTheWay(F, Y, A, Z, S, J, 0, e)
  <2>1. PICK F, Y, A, Z, S : Tear(F, Y, A, Z, S) /\ OnTheWay(F, Y, A, Z, S, J, 0, e)
    BY <1>3
  <2>2. /\ ~p.ok => OnTheWay(F, Y, A, Z, S, J, 0, p.e)
        /\ p.ok => OnTheWay(F, Y, A, Z, S, J + 1, restart_interval, p.e)
    BY <2>1, TearRestart
  <2> QED
    BY <2>1, <2>2 DEF Phase
<1>4. CASE \E F, A : Astray(F, A) /\ (J >= F \/ (InStep(J, 0, e, 0) /\ e.at <= A))
  <2>1. PICK F, A : Astray(F, A) /\ (J >= F \/ (InStep(J, 0, e, 0) /\ e.at <= A))
    BY <1>4
  <2>2. F \in Nat /\ A \in Nat /\ A <= Len(data) /\ F * Unit <= A /\ A < (F + 1) * Unit
    BY <2>1 DEF Astray
  <2>3. CASE J >= F
    <3>1. J + 1 >= F
      BY <1>1, <2>2, <2>3
    <3>2. \A L : L >= F => \A s, f : Phase(L, s, f)
      BY <2>1, PhaseAstray
    <3> QED
      BY <2>3, <3>1, <3>2
  <2>4. CASE InStep(J, 0, e, 0) /\ e.at <= A
    <3>1. e.at \in 1..A /\ e.at <= Len(data)
      BY <1>1, <2>2, <2>4
    <3>2. data[e.at] = Encoded[e.at]
      BY <2>1, <3>1 DEF Astray
    <3>3. /\ ~p.ok => InStep(J, 0, p.e, 0) /\ p.e.at = e.at
          /\ p.ok => InStep(J + 1, restart_interval, p.e, 0) /\ p.e.at = e.at + 1
      BY <1>1, <2>4, <3>1, <3>2, PhaseInStepRestart
    <3>4. CASE ~p.ok
      BY <2>1, <2>4, <3>3, <3>4, PhaseAstray
    <3>5. CASE p.ok /\ e.at + 1 <= A
      <4>1. \A L, s, f : InStep(L, s, f, 0) /\ f.at <= A => Phase(L, s, f)
        BY <2>1, PhaseAstray
      <4> QED
        BY <3>3, <3>5, <4>1
    <3>6. CASE p.ok /\ ~(e.at + 1 <= A)
      <4>1. e.at = A
        BY <1>1, <2>2, <2>4, <3>6
      <4>2. e.at = (J + 1) * Unit
        BY <1>1, <2>4, PlaceAtEnd
      <4>3. J + 1 = F
        <5>1. J + 1 \in Nat /\ (J + 1) * Unit <= A
          BY <1>1, <2>2, <4>1, <4>2
        <5>2. A < (J + 1 + 1) * Unit
          <6>1. (J + 1 + 1) * Unit = (J + 1) * Unit + Unit /\ Unit \in Nat \ {0}
            BY <5>1, UnitOrder
          <6> QED
            BY <2>2, <4>1, <4>2, <6>1
        <5> QED
          BY <2>2, <5>1, <5>2, TearInterval
      <4>4. \A L : L >= F => \A s, f : Phase(L, s, f)
        BY <2>1, PhaseAstray
      <4>5. J + 1 >= F
        BY <2>2, <4>3
      <4> QED
        BY <3>6, <4>4, <4>5
    <3> QED
      BY <3>4, <3>5, <3>6
  <2> QED
    BY <2>1, <2>3, <2>4
<1> QED
  BY <1>2, <1>3, <1>4 DEF Phase

-----------------------------------------------------------------------------
(***************************************************************************)
(* decode_mcu: MCU k is coming, and comes out right where it has to.       *)
(***************************************************************************)
Good(x, k) == x = MCU(k) \/ k \in damaged

\* Without restart markers a torn stream spoils all.
Unmarked(k, e) ==
    \/ \A j \in 0..(MCUCount - 1) : j \in damaged
    \/ /\ data = Encoded /\ e.at = k + 1 /\ e.unread_marker = None /\ ~e.insufficient_data
       /\ e.last_dc_val = IF k = 0 THEN None ELSE MCU(k - 1)
InInterval(k, e) ==
    \E J \in Nat : /\ e.restarts_to_go \in 0..restart_interval
                   /\ k = (J + 1) * restart_interval - e.restarts_to_go
                   /\ Phase(J, e.restarts_to_go, e)
Coming(k, e) ==
    /\ Reading(e)
    /\ restart_interval = 0 => Unmarked(k, e)
    /\ restart_interval > 0 => InInterval(k, e)

Scanning ==
    /\ MCUCount \in Nat \ {0} /\ restart_interval \in Nat /\ DataEnds
    /\ Laid(Encoded, MCUCount, restart_interval)

\* The reader is where it may be after a restart, too.
LEMMA RestartReads ==
    ASSUME NEW e, NEW p, NEW limit, DataEnds, Reading(e), limit \in Nat, limit <= Len(data),
           e.at <= limit + 1,
           \/ ~p.ok /\ StillLooking(e, p.e, limit)
           \/ p.ok /\ \E m, x : Met(e, limit, m, x) /\ Restarts(e, p.e, m, x)
    PROVE  /\ Reading(p.e) /\ p.e.at <= limit + 1
           /\ ~p.ok => p.e.restarts_to_go = e.restarts_to_go
           /\ p.ok => p.e.restarts_to_go = restart_interval
<1>1. /\ e \in Decoders /\ e.at \in Nat \ {0} /\ Len(data) \in Nat /\ data[Len(data)] = EOI
      /\ e.at = Len(data) + 1 => e.unread_marker = EOI
  BY DEF Reading, Decoders, DataEnds
<1>2. CASE ~p.ok /\ StillLooking(e, p.e, limit)
  <2>1. PICK u : Moved(e, p.e, limit + 1, u, e.next_restart_num)
    BY <1>2 DEF StillLooking
  <2>2. p.e \in Decoders /\ p.e.at = limit + 1 /\ p.e.restarts_to_go = e.restarts_to_go
    BY <2>1 DEF Moved
  <2>3. limit < Len(data)
    BY <1>2 DEF StillLooking
  <2> QED
    BY <1>1, <1>2, <2>2, <2>3 DEF Reading
<1>3. CASE p.ok /\ \E m, x : Met(e, limit, m, x) /\ Restarts(e, p.e, m, x)
  <2>1. PICK m, x : Met(e, limit, m, x) /\ Restarts(e, p.e, m, x)
    BY <1>3
  <2>2. /\ p.e \in Decoders /\ p.e.at = m /\ p.e.unread_marker = Left(e, x)
        /\ p.e.restarts_to_go = restart_interval
    BY <2>1 DEF Restarts
  <2>3. m \in Nat /\ m <= limit + 1 /\ (m = Len(data) + 1 => x = EOI)
    <3>1. CASE x = e.unread_marker /\ m = e.at
      BY <1>1, <3>1
    <3>2. CASE m \in (e.at + 1)..(limit + 1) /\ x = data[m - 1]
      BY <1>1, <3>2
    <3> QED
      BY <2>1, <3>1, <3>2 DEF Met
  <2>4. Left(e, EOI) = EOI
    BY EOILeft DEF Left, Discards
  <2> QED
    BY <1>3, <2>2, <2>3, <2>4 DEF Reading
<1> QED
  BY <1>2, <1>3

\* The MCU itself.
LEMMA ComingBits ==
    ASSUME Scanning, NEW k \in Nat, k < MCUCount, NEW e, Coming(k, e), NEW limit \in Nat,
           restart_interval > 0 => e.restarts_to_go > 0,
           NEW b, OutOfTokens(e, b, limit) \/ TakesBits(e, b) \/ MakesUp(e, b), b.ok, Reading(b.e)
    PROVE  Coming(k + 1, b.e) /\ Good(b.value, k)
<1>1. CASE restart_interval = 0
  <2>1. Unmarked(k, e)
    BY <1>1 DEF Coming
  <2>2. CASE \A j \in 0..(MCUCount - 1) : j \in damaged
    <3>1. k \in 0..(MCUCount - 1)
      BY DEF Scanning
    <3> QED
      BY <1>1, <2>2, <3>1 DEF Coming, Unmarked, Good
  <2>3. CASE /\ data = Encoded /\ e.at = k + 1 /\ e.unread_marker = None /\ ~e.insufficient_data
             /\ e.last_dc_val = IF k = 0 THEN None ELSE MCU(k - 1)
    <3>1. data[k + 1] = MCU(k)
      BY <1>1, <2>3 DEF Scanning, Laid
    <3>2. TakesBits(e, b)
      BY <2>3, <3>1, TokensApart DEF OutOfTokens, MakesUp, StopsAt
    <3>3. Decoded(e, MCU(k)) = MCU(k)
      <4>1. MCU(k)[1] = "MCU" /\ MCU(k)[2] = k
        BY TokensApart
      <4>2. StartsInterval(k) <=> k = 0
        BY <1>1 DEF StartsInterval
      <4> QED
        BY <2>3, <4>1, <4>2 DEF Decoded
    <3>4. /\ b.value = MCU(k) /\ b.e.last_dc_val = MCU(k) /\ b.e.at = k + 1 + 1
          /\ b.e.unread_marker = None /\ ~b.e.insufficient_data
      BY <2>3, <3>1, <3>2, <3>3 DEF TakesBits
    <3>5. k + 1 # 0 /\ (k + 1) - 1 = k
      OBVIOUS
    <3>6. Unmarked(k + 1, b.e)
      BY <2>3, <3>4, <3>5 DEF Unmarked
    <3> QED
      BY <1>1, <3>4, <3>6 DEF Coming, Good
  <2> QED
    BY <2>1, <2>2, <2>3 DEF Unmarked
<1>2. CASE restart_interval > 0
  <2>1. Numbers /\ Laid(Encoded, MCUCount, restart_interval)
    BY <1>2 DEF Numbers, Scanning
  <2> DEFINE r == e.restarts_to_go
  <2>2. PICK J \in Nat : /\ r \in 0..restart_interval
                         /\ k = (J + 1) * restart_interval - r /\ Phase(J, r, e)
    BY <1>2 DEF Coming, InInterval
  <2>3. r \in 1..restart_interval /\ restart_interval \in Nat
    BY <1>2, <2>2 DEF Scanning
  <2>4. Bits(J, r, e, b, limit)
    BY <2>2, <2>3 DEF Bits, Coming
  <2>5. Phase(J, r - 1, b.e) /\ GoodMCU(J, r, b)
    BY <2>1, <2>2, <2>4, PhaseBits
  <2>6. b.e.restarts_to_go = r - 1
    BY <1>2 DEF OutOfTokens, TakesBits, MakesUp, Ticked
  <2>7. k + 1 = (J + 1) * restart_interval - (r - 1) /\ r - 1 \in 0..restart_interval
    <3>1. (J + 1) * restart_interval \in Int
      BY <2>3
    <3> HIDE DEF r
    <3> QED
      BY <2>2, <2>3, <3>1
  <2>8. InInterval(k + 1, b.e)
    BY <2>2, <2>5, <2>6, <2>7 DEF InInterval
  <2>9. Good(b.value, k)
    BY <2>2, <2>5 DEF GoodMCU, Good
  <2> QED
    BY <1>2, <2>8, <2>9 DEF Coming
<1> QED
  BY <1>1, <1>2 DEF Scanning

\* The restart before it, if it is due.
LEMMA ComingRestart ==
    ASSUME Scanning, NEW k \in Nat, k < MCUCount, NEW e, Coming(k, e), NEW limit \in Nat,
           limit <= Len(data), e.at <= limit + 1,
           restart_interval > 0, e.restarts_to_go = 0, NEW p, p = ProcessRestart(e, limit)
    PROVE  /\ Coming(k, p.e) /\ p.e.at <= limit + 1
           /\ p.ok => p.e.restarts_to_go > 0
<1>1. Numbers /\ Laid(Encoded, MCUCount, restart_interval) /\ DataEnds
  BY DEF Numbers, Scanning
<1>2. Reading(e) /\ restart_interval \in Nat \ {0}
  BY DEF Coming, Scanning
<1>3. PICK J \in Nat : k = (J + 1) * restart_interval - 0 /\ Phase(J, 0, e)
  BY DEF Coming, InInterval
<1>4. \/ ~p.ok /\ StillLooking(e, p.e, limit)
      \/ p.ok /\ \E m, x : Met(e, limit, m, x) /\ Restarts(e, p.e, m, x)
  BY <1>1, <1>2, RestartProcessed
<1>5. /\ Reading(p.e) /\ p.e.at <= limit + 1
      /\ ~p.ok => p.e.restarts_to_go = 0
      /\ p.ok => p.e.restarts_to_go = restart_interval
  BY <1>1, <1>2, <1>4, RestartReads
<1>6. k = (J + 1) * restart_interval
  <2>1. (J + 1) * restart_interval \in Int
    BY <1>2
  <2> QED
    BY <1>3, <2>1
<1>7. Restart(J, e, p, limit)
  BY <1>1, <1>2, <1>4, <1>6 DEF Restart
<1>8. /\ ~p.ok => Phase(J, 0, p.e)
      /\ p.ok => Phase(J + 1, restart_interval, p.e)
  BY <1>1, <1>3, <1>7, PhaseRestart
<1>9. CASE ~p.ok
  <2>1. InInterval(k, p.e)
    BY <1>2, <1>3, <1>5, <1>8, <1>9 DEF InInterval
  <2> QED
    BY <1>2, <1>5, <1>9, <2>1 DEF Coming
<1>10. CASE p.ok
  <2>1. J + 1 \in Nat /\ k = (J + 1 + 1) * restart_interval - restart_interval
    BY <1>2, <1>6
  <2>2. restart_interval \in 0..restart_interval
    BY <1>2
  <2>3. InInterval(k, p.e)
    BY <1>5, <1>8, <1>10, <2>1, <2>2 DEF InInterval
  <2> QED
    BY <1>2, <1>5, <1>10, <2>3 DEF Coming
<1> QED
  BY <1>5, <1>9, <1>10

\* decode_mcu: the next MCU comes out right or is damaged, and the one after it is coming; or
\* the source ran dry and this one is still coming.
LEMMA ComingMCU ==
    ASSUME Scanning, NEW k \in Nat, k < MCUCount, NEW e, Coming(k, e), NEW limit \in Nat,
           limit <= Len(data), e.at <= limit + 1, NEW d, d = DecodeMCU(e, limit)
    PROVE  /\ d.ok => Coming(k + 1, d.e) /\ Good(d.value, k)
           /\ ~d.ok => Coming(k, d.e)
           /\ d.e.at <= limit + 1
<1> DEFINE p == IF restart_interval > 0 /\ e.restarts_to_go = 0
                THEN ProcessRestart(e, limit) ELSE Ok(e)
<1>1. d = AfterRestart(p, limit)
  BY DEF DecodeMCU
<1>2. /\ Coming(k, p.e) /\ p.e.at <= limit + 1
      /\ p.ok => (restart_interval > 0 => p.e.restarts_to_go > 0)
  <2>1. CASE restart_interval > 0 /\ e.restarts_to_go = 0
    <3>1. p = ProcessRestart(e, limit)
      BY <2>1
    <3> HIDE DEF p
    <3> QED
      BY <2>1, <3>1, ComingRestart
  <2>2. CASE ~(restart_interval > 0 /\ e.restarts_to_go = 0)
    <3>1. p = Ok(e)
      BY <2>2
    <3>2. e.restarts_to_go \in Nat
      BY DEF Coming, Reading, Decoders
    <3> HIDE DEF p
    <3>3. p.e = e
      BY <3>1, OkRead
    <3> QED
      BY <2>2, <3>2, <3>3
  <2> QED
    BY <2>1, <2>2
<1> HIDE DEF p
<1>3. CASE ~p.ok
  <2>1. d = [ok |-> FALSE, e |-> p.e, value |-> None]
    BY <1>1, <1>3 DEF AfterRestart
  <2> QED
    BY <1>2, <2>1
<1>4. CASE p.ok
  <2>1. d = Counted(DecodeBits(p.e, limit))
    BY <1>1, <1>4 DEF AfterRestart
  <2>2. Reading(p.e) /\ DataEnds /\ restart_interval \in Nat
    BY <1>2 DEF Coming, Scanning
  <2> DEFINE f == p.e
  <2> HIDE DEF f
  <2>3. /\ Coming(k, f) /\ Reading(f) /\ f.at <= limit + 1
        /\ restart_interval > 0 => f.restarts_to_go > 0
        /\ d = Counted(DecodeBits(f, limit))
    BY <1>2, <1>4, <2>1, <2>2 DEF f
  <2>4. /\ OutOfTokens(f, d, limit) \/ TakesBits(f, d) \/ MakesUp(f, d)
        /\ d.e.at <= limit + 1 /\ Reading(d.e)
    BY <2>2, <2>3, BitsDecoded
  <2>5. d.ok => Coming(k + 1, d.e) /\ Good(d.value, k)
    BY <2>3, <2>4, ComingBits
  <2>6. ~d.ok => d.e = f
    BY <2>4 DEF OutOfTokens, TakesBits, MakesUp
  <2> QED
    BY <2>3, <2>4, <2>5, <2>6
<1> QED
  BY <1>3, <1>4

-----------------------------------------------------------------------------
(***************************************************************************)
(* DecodeMCUs: its fold is unrolled, and kept to the MCUs that are coming. *)
(***************************************************************************)
LEMMA MaxExists ==
    ASSUME NEW n \in Nat, NEW S \in SUBSET (1..n), S # {}
    PROVE  Max(S) \in S /\ \A k \in S : k <= Max(S)
<1> DEFINE below == {n - t : t \in S}
<1>1. below \in SUBSET Nat /\ below # {}
  <2>1. \A t \in S : t \in 1..n /\ n - t \in Nat
    OBVIOUS
  <2> QED
    BY <2>1
<1>2. PICK k \in below : \A l \in below : k <= l
  <2>1. Min(below) \in below /\ \A l \in below : Min(below) <= l
    BY <1>1, MinExists
  <2> QED
    BY <2>1
<1>3. PICK t \in S : k = n - t
  BY <1>2
<1>4. \A s \in S : t >= s
  <2> SUFFICES ASSUME NEW s \in S PROVE t >= s
    OBVIOUS
  <2>1. n - s \in below /\ s \in Int /\ t \in Int
    OBVIOUS
  <2>2. n - t <= n - s
    BY <1>2, <1>3, <2>1
  <2> QED
    BY <2>1, <2>2
<1> HIDE DEF below
<1>5. \E x \in S : \A y \in S : x >= y
  BY <1>4
<1>6. Max(S) \in S /\ \A y \in S : Max(S) >= y
  BY <1>5 DEF Max
<1> QED
  BY <1>6

\* A set of natural numbers that has 0 and every successor has them all.
LEMMA NatInduction1 ==
    ASSUME NEW S \in SUBSET Nat, 0 \in S, \A n \in S : n + 1 \in S
    PROVE  S = Nat
<1> SUFFICES ASSUME Nat \ S # {} PROVE FALSE
  OBVIOUS
<1>1. Nat \ S \in SUBSET Nat
  OBVIOUS
<1>2. PICK m \in Nat \ S : \A k \in Nat \ S : m <= k
  BY <1>1, MinExists
<1>3. m # 0 /\ m - 1 \in Nat /\ m - 1 \in S
  BY <1>2
<1> QED
  BY <1>2, <1>3

NoMCUs == [ok |-> TRUE, e |-> entropy, values |-> <<>>]
OneMore(r, limit) == IF ~r.ok THEN r ELSE Appended(r, DecodeMCU(r.e, limit))
Folds(f, n, limit) ==
    f = [s \in SUBSET (1..n) |-> IF s = {} THEN NoMCUs ELSE OneMore(f[s \ {Max(s)}], limit)]

\* The fold of OneMore over the first n numbers exists.
LEMMA FoldsExist == ASSUME NEW limit, NEW n \in Nat PROVE \E f : Folds(f, n, limit)
<1> DEFINE R == {m \in Nat : \E f : Folds(f, m, limit)}
<1>1. 0 \in R
  <2> DEFINE f == [s \in SUBSET (1..0) |-> NoMCUs]
  <2>1. f = [s \in SUBSET (1..0) |-> IF s = {} THEN NoMCUs ELSE OneMore(f[s \ {Max(s)}], limit)]
    <3>1. \A s \in SUBSET (1..0) : s = {}
      OBVIOUS
    <3> QED
      BY <3>1
  <2> QED
    BY <2>1 DEF Folds
<1>2. ASSUME NEW m \in R PROVE m + 1 \in R
  <2>1. m \in Nat /\ m + 1 \in Nat
    OBVIOUS
  <2>2. PICK f : Folds(f, m, limit)
    BY <1>2
  <2> DEFINE h == [s \in SUBSET (1..(m + 1)) |->
                      IF m + 1 \in s THEN OneMore(f[s \ {m + 1}], limit) ELSE f[s]]
             value(s) == IF s = {} THEN NoMCUs ELSE OneMore(h[s \ {Max(s)}], limit)
  <2>3. ASSUME NEW s \in SUBSET (1..(m + 1)) PROVE h[s] = value(s)
    <3>1. s # {} => Max(s) \in s /\ \A k \in s : k <= Max(s)
      BY <2>1, MaxExists
    <3>2. s \ {Max(s)} \in SUBSET (1..(m + 1))
      OBVIOUS
    <3>3. CASE m + 1 \in s
      <4>1. Max(s) = m + 1
        <5>1. m + 1 <= Max(s) /\ Max(s) \in 1..(m + 1)
          BY <3>1, <3>3
        <5> QED
          BY <2>1, <5>1
      <4>2. h[s] = OneMore(f[s \ {m + 1}], limit) /\ h[s \ {m + 1}] = f[s \ {m + 1}]
        BY <3>2, <3>3, <4>1
      <4> QED
        BY <3>3, <4>1, <4>2
    <3>4. CASE m + 1 \notin s
      <4>1. s \in SUBSET (1..m)
        BY <2>1, <3>4
      <4>2. f[s] = IF s = {} THEN NoMCUs ELSE OneMore(f[s \ {Max(s)}], limit)
        BY <2>2, <4>1 DEF Folds
      <4>3. h[s] = f[s] /\ h[s \ {Max(s)}] = f[s \ {Max(s)}]
        BY <3>2, <3>4
      <4> QED
        BY <4>2, <4>3
    <3> QED
      BY <3>3, <3>4
  <2>4. h = [s \in SUBSET (1..(m + 1)) |-> value(s)]
    <3> HIDE DEF value
    <3> QED
      BY <2>3
  <2>5. \E g : Folds(g, m + 1, limit)
    BY <2>4 DEF Folds
  <2> QED
    BY <2>1, <2>5
<1> HIDE DEF R
<1>3. R \in SUBSET Nat
  BY DEF R
<1>4. R = Nat
  BY <1>1, <1>2, <1>3, NatInduction1
<1> QED
  BY <1>4 DEF R

\* DecodeMCUs is that fold.
LEMMA DecodeMCUsFolds ==
    ASSUME NEW limit, NEW n \in Nat
    PROVE  \E f : Folds(f, n, limit) /\ DecodeMCUs(n, limit) = f[1..n]
<1> DEFINE seq == [k \in 1..n |-> k]
           iter == CHOOSE f : Folds(f, n, limit)
<1>1. Folds(iter, n, limit)
  BY FoldsExist
<1>2. DOMAIN seq = 1..n
  OBVIOUS
<1>3. DecodeMCUs(n, limit) = iter[1..n]
  BY <1>2 DEF DecodeMCUs, FoldLeft, MapThenFoldSet, Folds, OneMore, NoMCUs
<1> QED
  BY <1>1, <1>3

\* What n MCUs from MCU k on have come to.
DecodedFrom(k, n, limit, r) ==
    /\ \E S : r.values \in Seq(S)
    /\ r.ok => Len(r.values) = n
    /\ ~r.ok => Len(r.values) < n
    /\ Coming(k + Len(r.values), r.e) /\ r.e.at <= limit + 1
    /\ \A j \in 1..Len(r.values) : Good(r.values[j], k + j - 1)

\* One more MCU of a call.
LEMMA OneMoreDecoded ==
    ASSUME Scanning, NEW k \in Nat, NEW n \in Nat, k + n < MCUCount,
           NEW limit \in Nat, limit <= Len(data), NEW r, DecodedFrom(k, n, limit, r)
    PROVE  DecodedFrom(k, n + 1, limit, OneMore(r, limit))
<1>1. PICK S : r.values \in Seq(S)
  BY DEF DecodedFrom
<1>2. Len(r.values) \in Nat
  BY <1>1
<1>3. CASE ~r.ok
  <2>1. OneMore(r, limit) = r
    BY <1>3 DEF OneMore
  <2>2. Len(r.values) < n + 1
    BY <1>2, <1>3 DEF DecodedFrom
  <2> QED
    BY <1>3, <2>1, <2>2 DEF DecodedFrom
<1>4. CASE r.ok
  <2> DEFINE d == DecodeMCU(r.e, limit)
             o == OneMore(r, limit)
  <2>1. Len(r.values) = n /\ Coming(k + n, r.e) /\ r.e.at <= limit + 1 /\ k + n \in Nat
    BY <1>4 DEF DecodedFrom
  <2>2. /\ d.ok => Coming(k + n + 1, d.e) /\ Good(d.value, k + n)
        /\ ~d.ok => Coming(k + n, d.e)
        /\ d.e.at <= limit + 1
    <3> DEFINE m == k + n
    <3>1. m \in Nat /\ m < MCUCount /\ Coming(m, r.e)
      BY <2>1
    <3> HIDE DEF m, d
    <3>2. d = DecodeMCU(r.e, limit)
      BY DEF d
    <3>3. /\ d.ok => Coming(m + 1, d.e) /\ Good(d.value, m)
          /\ ~d.ok => Coming(m, d.e)
          /\ d.e.at <= limit + 1
      BY <2>1, <3>1, <3>2, ComingMCU
    <3> QED
      BY <3>3 DEF m
  <2>3. o = [ok |-> d.ok, e |-> d.e,
             values |-> IF d.ok THEN Append(r.values, d.value) ELSE r.values]
    BY <1>4 DEF OneMore, Appended
  <2> HIDE DEF d, o
  <2>4. o.ok = d.ok /\ o.e = d.e
    BY <2>3
  <2>5. CASE d.ok
    <3> DEFINE v == o.values
    <3>1. v = Append(r.values, d.value)
      BY <2>3, <2>5
    <3> HIDE DEF v
    <3>2. r.values \in Seq(S \cup {d.value}) /\ d.value \in S \cup {d.value}
      BY <1>1
    <3>3. /\ v \in Seq(S \cup {d.value}) /\ Len(v) = n + 1 /\ v[n + 1] = d.value
          /\ \A j \in 1..n : v[j] = r.values[j]
      BY <2>1, <3>1, <3>2
    <3>4. \A j \in 1..(n + 1) : Good(v[j], k + j - 1)
      <4> SUFFICES ASSUME NEW j \in 1..(n + 1) PROVE Good(v[j], k + j - 1)
        OBVIOUS
      <4>1. CASE j \in 1..n
        BY <2>1, <3>3, <4>1 DEF DecodedFrom
      <4>2. CASE j = n + 1
        <5>1. k + j - 1 = k + n
          BY <4>2
        <5> QED
          BY <2>2, <2>5, <3>3, <4>2, <5>1
      <4> QED
        BY <4>1, <4>2
    <3>5. k + (n + 1) = k + n + 1
      OBVIOUS
    <3>6. Coming(k + Len(v), o.e)
      BY <2>2, <2>4, <2>5, <3>3, <3>5
    <3> QED
      BY <2>2, <2>4, <2>5, <3>3, <3>4, <3>6 DEF DecodedFrom, v, o
  <2>6. CASE ~d.ok
    <3>1. o.values = r.values
      BY <2>3, <2>6
    <3>2. Len(o.values) < n + 1 /\ Coming(k + Len(o.values), o.e)
      BY <2>1, <2>2, <2>4, <2>6, <3>1
    <3>3. DecodedFrom(k, n + 1, limit, o)
      BY <1>1, <2>2, <2>4, <2>6, <3>1, <3>2 DEF DecodedFrom
    <3> QED
      BY <3>3 DEF o
  <2> QED
    BY <2>5, <2>6
<1> QED
  BY <1>3, <1>4

\* A call decodes MCUs until it has them all or the source runs dry.
LEMMA RowDecoded ==
    ASSUME Scanning, NEW k \in Nat, NEW n \in Nat, k + n <= MCUCount,
           NEW limit \in Nat, limit <= Len(data), Coming(k, entropy), entropy.at <= limit + 1
    PROVE  DecodedFrom(k, n, limit, DecodeMCUs(n, limit))
<1>1. PICK f : Folds(f, n, limit) /\ DecodeMCUs(n, limit) = f[1..n]
  BY DecodeMCUsFolds
<1> DEFINE R == {m \in Nat : m <= n => DecodedFrom(k, m, limit, f[1..m])}
<1>2. 0 \in R
  <2>1. f[1..0] = NoMCUs
    <3>1. 1..0 \in SUBSET (1..n) /\ 1..0 = {}
      OBVIOUS
    <3> QED
      BY <1>1, <3>1 DEF Folds
  <2>2. /\ NoMCUs.ok /\ NoMCUs.e = entropy /\ NoMCUs.values = <<>>
    BY DEF NoMCUs
  <2>3. NoMCUs.values \in Seq(Nat) /\ Len(NoMCUs.values) = 0 /\ k + 0 = k
    BY <2>2
  <2>4. DecodedFrom(k, 0, limit, NoMCUs)
    BY <2>2, <2>3 DEF DecodedFrom
  <2> QED
    BY <2>1, <2>4
<1>3. ASSUME NEW m \in R PROVE m + 1 \in R
  <2> SUFFICES ASSUME m + 1 <= n PROVE DecodedFrom(k, m + 1, limit, f[1..(m + 1)])
    OBVIOUS
  <2>1. m \in Nat /\ DecodedFrom(k, m, limit, f[1..m]) /\ k + m < MCUCount
    <3>1. m \in Nat /\ m <= n
      OBVIOUS
    <3>2. MCUCount \in Nat
      BY DEF Scanning
    <3> QED
      BY <3>1, <3>2
  <2> HIDE DEF R
  <2>2. Max(1..(m + 1)) = m + 1
    <3>1. 1..(m + 1) \in SUBSET (1..(m + 1)) /\ 1..(m + 1) # {}
          /\ m + 1 \in 1..(m + 1) /\ m + 1 \in Nat
      <4>1. m + 1 \in Nat /\ m + 1 \in 1..(m + 1)
        BY <2>1
      <4> QED
        BY <4>1
    <3>2. Max(1..(m + 1)) \in 1..(m + 1) /\ \A j \in 1..(m + 1) : j <= Max(1..(m + 1))
      BY <3>1, MaxExists
    <3> QED
      BY <2>1, <3>1, <3>2
  <2>3. (1..(m + 1)) \ {m + 1} = 1..m /\ 1..(m + 1) # {} /\ 1..(m + 1) \in SUBSET (1..n)
    <3>1. m \in Nat /\ m + 1 <= n /\ n \in Nat
      BY <2>1
    <3>2. (1..(m + 1)) \ {m + 1} = 1..m
      BY <3>1
    <3>3. m + 1 \in 1..(m + 1) /\ \A j \in 1..(m + 1) : j \in 1..n
      BY <3>1
    <3> QED
      BY <3>2, <3>3
  <2>4. f[1..(m + 1)] = OneMore(f[1..m], limit)
    BY <1>1, <2>2, <2>3 DEF Folds
  <2> QED
    BY <2>1, <2>4, OneMoreDecoded
<1> HIDE DEF R
<1>4. R \in SUBSET Nat
  BY DEF R
<1>5. R = Nat
  BY <1>2, <1>3, <1>4, NatInduction1
<1> QED
  BY <1>1, <1>5 DEF R

-----------------------------------------------------------------------------
(***************************************************************************)
(* The streams of a scan, intact or torn.                                  *)
(***************************************************************************)

\* The markers of an intact scan are where intervals end.
LEMMA TokenMarkers ==
    ASSUME NEW i \in Nat \ {0}, NEW t \in Nat \ {0}
    PROVE  /\ Token(t, i) \in Markers <=> t % (i + 1) = 0
           /\ Token(t, i)[1] = "RST" <=> t % (i + 1) = 0
           /\ t % (i + 1) = 0 =>
                 \E j \in Nat : t = (j + 1) * (i + 1) /\ Token(t, i) = RST(j % 8)
<1> DEFINE unit == i + 1
<1>1. CASE t % unit = 0
  <2>1. t \in Int /\ unit \in Nat \ {0}
    OBVIOUS
  <2>2. t \div unit \in Nat /\ t = (t \div unit) * unit
    <3>1. \A u \in Nat \ {0} : t \div u \in Nat /\ t = (t \div u) * u + (t % u)
      OBVIOUS
    <3> HIDE DEF unit
    <3>2. t \div unit \in Nat /\ t = (t \div unit) * unit + (t % unit)
      BY <2>1, <3>1
    <3> QED
      BY <1>1, <2>1, <3>2
  <2>3. Token(t, i) = RST((t \div unit - 1) % 8)
    BY <1>1 DEF Token
  <2> DEFINE q == t \div unit
  <2> HIDE DEF q, unit
  <2>4. q \in Nat /\ t = q * unit /\ Token(t, i) = RST((q - 1) % 8)
    BY <2>2, <2>3 DEF q
  <2>5. q # 0
    BY <2>1, <2>4
  <2>6. q - 1 \in Nat /\ (q - 1) + 1 = q /\ (q - 1) % 8 \in 0..7
    BY <2>4, <2>5
  <2>7. \A l : RST(l)[1] = "RST"
    BY DEF RST
  <2>8. RST((q - 1) % 8) \in Markers
    BY <2>6, TokensApart
  <2> HIDE DEF q
  <2>9. \E j \in Nat : t = (j + 1) * unit /\ Token(t, i) = RST(j % 8)
    BY <2>4, <2>6
  <2> QED
    BY <1>1, <2>4, <2>7, <2>8, <2>9 DEF unit
<1>2. CASE t % unit # 0
  <2>1. Token(t, i) = MCU(t - 1 - (t - 1) \div unit)
    BY <1>2 DEF Token
  <2>2. \A k : MCU(k) \notin Markers /\ MCU(k)[1] # "RST"
    BY TokensApart
  <2> QED
    BY <1>2, <2>1, <2>2
<1> QED
  BY <1>1, <1>2

\* There are p \div d multiples of d up to p.
LEMMA Multiples ==
    ASSUME NEW d \in Nat \ {0}, NEW p \in Nat
    PROVE  /\ IsFiniteSet({k \in 1..p : k % d = 0})
           /\ Cardinality({k \in 1..p : k % d = 0}) = p \div d
<1> DEFINE q == p \div d
           T == {k \in 1..p : k % d = 0}
           f == [j \in 1..q |-> j * d]
<1>1. q \in Nat /\ p = q * d + (p % d) /\ p % d \in 0..(d - 1)
  OBVIOUS
<1> HIDE DEF q
<1>2. ASSUME NEW j \in 1..q PROVE j * d \in T
  <2>1. (j * d + 0) % d = 0
    BY DividesUniquely
  <2>2. j * d \in Nat \ {0} /\ j * d <= q * d
    <3>1. j \in Int /\ q \in Int /\ 0 < j /\ 0 * d = 0 /\ j <= q
      BY <1>1
    <3>2. 0 * d < j * d /\ j * d <= q * d
      BY <1>1, <3>1, MonotoneProduct
    <3>3. j * d \in Int
      BY <3>1
    <3> QED
      BY <3>1, <3>2, <3>3
  <2>3. j * d + 0 = j * d /\ j * d <= p
    BY <1>1, <2>2
  <2> QED
    BY <2>1, <2>2, <2>3
<1>3. f \in [1..q -> T]
  BY <1>2
<1>4. \A j, l \in 1..q : f[j] = f[l] => j = l
  <2> SUFFICES ASSUME NEW j \in 1..q, NEW l \in 1..q, f[j] = f[l] PROVE j = l
    OBVIOUS
  <2>1. j \in Int /\ l \in Int /\ j * d = l * d
    BY <1>1
  <2> QED
    BY <2>1, MonotoneProduct
<1>5. ASSUME NEW k \in T PROVE \E j \in 1..q : f[j] = k
  <2> DEFINE j == k \div d
  <2>1. k \in Nat \ {0} /\ k <= p /\ k % d = 0
    OBVIOUS
  <2>2. j \in Nat /\ k = j * d
    <3>1. k \div d \in Nat /\ k = (k \div d) * d + (k % d)
      BY <2>1, Divided
    <3> QED
      BY <2>1, <3>1
  <2> HIDE DEF j
  <2>3. j # 0
    BY <2>1, <2>2
  <2>4. j <= q
    <3>1. j * d < (q + 1) * d
      <4>1. (q + 1) * d = q * d + d
        BY <1>1
      <4> QED
        BY <1>1, <2>1, <2>2, <4>1
    <3>2. j < q + 1
      BY <1>1, <2>2, <3>1, MonotoneProduct
    <3> QED
      BY <1>1, <2>2, <3>2
  <2> QED
    BY <1>1, <2>2, <2>3, <2>4
<1> HIDE DEF T, f
<1>6. ExistsBijection(1..q, T)
  <2>1. f \in Bijection(1..q, T)
    BY <1>3, <1>4, <1>5 DEF Bijection, Injection, Surjection, IsInjective
  <2> QED
    BY <2>1 DEF ExistsBijection
<1>7. IsFiniteSet(1..q) /\ Cardinality(1..q) = q
  <2>1. 1 \in Int /\ q \in Int
    BY <1>1
  <2>2. IsFiniteSet(1..q) /\ Cardinality(1..q) = IF 1 > q THEN 0 ELSE q - 1 + 1
    BY <2>1, FS_Interval
  <2> QED
    BY <1>1, <2>2
<1>8. IsFiniteSet(T) /\ Cardinality(T) = Cardinality(1..q)
  BY <1>6, <1>7, FS_Bijection
<1> QED
  BY <1>7, <1>8 DEF T, q

\* The interval of a token of an intact scan.
LEMMA IntervalOfIntact ==
    ASSUME NEW n \in Nat \ {0}, NEW i \in Nat \ {0}, NEW p \in 1..Len(Intact(n, i))
    PROVE  IntervalOf(Intact(n, i), p) = (p - 1) \div (i + 1)
<1> DEFINE s == Intact(n, i)
           T == {k \in 1..(p - 1) : s[k][1] = "RST"}
           M == {k \in 1..(p - 1) : k % (i + 1) = 0}
<1>1. Len(s) \in Nat /\ \A t \in 1..(Len(s) - 1) : s[t] = Token(t, i)
  <2>1. /\ s \in Seq(MCUTokens) /\ Len(s) = n + (n - 1) \div i + 1 /\ (n - 1) \div i \in Nat
        /\ s[Len(s)] = EOI
        /\ \A t \in 1..(Len(s) - 1) : s[t] = Token(t, i)
    BY IntactTokens
  <2> HIDE DEF s
  <2> QED
    BY <2>1
<1> HIDE DEF s
<1>2. p \in 1..Len(s)
  BY DEF s
<1>3. ASSUME NEW k \in 1..(p - 1)
      PROVE  s[k][1] = "RST" <=> k % (i + 1) = 0
  <2>1. k \in 1..(Len(s) - 1) /\ k \in Nat \ {0}
    BY <1>1, <1>2
  <2>2. s[k] = Token(k, i)
    BY <1>1, <2>1
  <2>3. Token(k, i)[1] = "RST" <=> k % (i + 1) = 0
    BY <2>1, TokenMarkers
  <2> QED
    BY <2>2, <2>3
<1>4. T = M
  BY <1>3
<1>5. Cardinality(M) = (p - 1) \div (i + 1)
  <2>1. p - 1 \in Nat /\ i + 1 \in Nat \ {0}
    BY <1>1, <1>2
  <2> DEFINE u == i + 1   v == p - 1
  <2> HIDE DEF u, v, M
  <2>2. Cardinality({k \in 1..v : k % u = 0}) = v \div u
    BY <2>1, Multiples DEF u, v
  <2> QED
    BY <2>2 DEF M, u, v
<1> QED
  BY <1>4, <1>5 DEF IntervalOf, s

Joined(T, x, y, z) ==
    /\ z \in Seq(T) /\ Len(z) = Len(x) + Len(y) /\ Len(x) \in Nat /\ Len(y) \in Nat
    /\ \A t \in 1..Len(x) : z[t] = x[t]
    /\ \A t \in (Len(x) + 1)..Len(z) : z[t] = y[t - Len(x)]

\* Concatenation, by positions.
LEMMA Concatenated ==
    ASSUME NEW T, NEW x \in Seq(T), NEW y \in Seq(T), NEW z, z = x \o y
    PROVE  Joined(T, x, y, z)
BY DEF Joined

\* The tokens of a torn stream.
SplicedAs(d, s, a, junk, S) ==
    /\ d \in Seq(MCUTokens) /\ Len(d) = Len(s) + S /\ Len(d) \in Nat \ {0} /\ S \in Int
    /\ Len(junk) \in Nat /\ a + Len(junk) < Len(d)
    /\ d[Len(d)] = EOI
    /\ \A t \in 1..a : d[t] = s[t]
    /\ \A t \in (a + 1)..(a + Len(junk)) : d[t] \in {Junk, Invalid}
    /\ \A t \in (a + Len(junk) + 1)..Len(d) : d[t] = s[t - S]

\* A torn stream is the intact one up to the tear, the junk, and the intact one, moved by S
\* tokens, from where it goes on.
LEMMA SplicedTokens ==
    ASSUME NEW s \in Seq(MCUTokens), Len(s) \in Nat \ {0}, s[Len(s)] = EOI,
           NEW a \in 0..(Len(s) - 1), NEW junk \in Seq({Junk, Invalid}), NEW b \in 1..Len(s),
           NEW d, d = Spliced(s, a, junk, b), NEW S, S = a + Len(junk) + 1 - b
    PROVE  SplicedAs(d, s, a, junk, S)
<1> DEFINE x == SubSeq(s, 1, a)
           y == SubSeq(s, b, Len(s))
<1>1. x \in Seq(MCUTokens) /\ Len(x) = a /\ \A t \in 1..a : x[t] = s[t]
  OBVIOUS
<1>2. /\ y \in Seq(MCUTokens) /\ Len(y) = Len(s) - b + 1
      /\ \A t \in 1..(Len(s) - b + 1) : y[t] = s[b + t - 1]
  OBVIOUS
<1>3. junk \in Seq(MCUTokens) /\ Len(junk) \in Nat
  BY DEF MCUTokens
<1>4. d = x \o junk \o y
  BY DEF Spliced
<1> HIDE DEF x, y
<1>5. /\ d \in Seq(MCUTokens) /\ Len(d) = a + Len(junk) + (Len(s) - b + 1)
      /\ \A t \in 1..a : d[t] = x[t]
      /\ \A t \in (a + 1)..(a + Len(junk)) : d[t] = junk[t - a]
      /\ \A t \in (a + Len(junk) + 1)..Len(d) : d[t] = y[t - a - Len(junk)]
  <2> DEFINE z == x \o junk
  <2>1. /\ z \in Seq(MCUTokens) /\ Len(z) = a + Len(junk)
        /\ \A t \in 1..a : z[t] = x[t]
        /\ \A t \in (a + 1)..(a + Len(junk)) : z[t] = junk[t - a]
    <3>1. z = x \o junk
      OBVIOUS
    <3> HIDE DEF z
    <3>2. Joined(MCUTokens, x, junk, z)
      BY <1>1, <1>3, <3>1, Concatenated
    <3> QED
      BY <1>1, <3>2 DEF Joined
  <2>2. d = z \o y
    BY <1>4
  <2> HIDE DEF z
  <2>3. /\ d \in Seq(MCUTokens) /\ Len(d) = Len(z) + Len(y)
        /\ \A t \in 1..Len(z) : d[t] = z[t]
        /\ \A t \in (Len(z) + 1)..Len(d) : d[t] = y[t - Len(z)]
    <3>1. Joined(MCUTokens, z, y, d)
      BY <1>2, <2>1, <2>2, Concatenated
    <3> QED
      BY <3>1 DEF Joined
  <2>4. \A t \in 1..a : d[t] = x[t]
    BY <1>3, <2>1, <2>3
  <2>5. \A t \in (a + 1)..(a + Len(junk)) : d[t] = junk[t - a]
    BY <1>3, <2>1, <2>3
  <2>6. \A t \in (a + Len(junk) + 1)..Len(d) : d[t] = y[t - a - Len(junk)]
    <3> SUFFICES ASSUME NEW t \in (a + Len(junk) + 1)..Len(d)
                 PROVE  d[t] = y[t - a - Len(junk)]
      OBVIOUS
    <3>1. t \in (Len(z) + 1)..Len(d) /\ t - Len(z) = t - a - Len(junk)
      BY <1>3, <2>1
    <3> QED
      BY <2>3, <3>1
  <2>7. Len(d) = a + Len(junk) + (Len(s) - b + 1)
    BY <1>2, <2>1, <2>3
  <2> QED
    BY <2>3, <2>4, <2>5, <2>6, <2>7
<1>6. ASSUME NEW t \in (a + 1)..(a + Len(junk)) PROVE d[t] \in {Junk, Invalid}
  <2>1. t - a \in 1..Len(junk)
    BY <1>3
  <2>2. \A k \in 1..Len(junk) : junk[k] \in {Junk, Invalid}
    OBVIOUS
  <2>3. d[t] = junk[t - a]
    BY <1>5
  <2> QED
    BY <2>1, <2>2, <2>3
<1>7. ASSUME NEW t \in (a + Len(junk) + 1)..Len(d) PROVE d[t] = s[t - S]
  <2>1. t - a - Len(junk) \in 1..(Len(s) - b + 1)
    BY <1>3, <1>5
  <2>2. b + (t - a - Len(junk)) - 1 = t - S
    BY <1>3
  <2>3. y[t - a - Len(junk)] = s[b + (t - a - Len(junk)) - 1]
    BY <1>2, <2>1
  <2> QED
    BY <1>5, <2>2, <2>3
<1>8. /\ Len(d) = Len(s) + S /\ Len(d) \in Nat \ {0} /\ S \in Int /\ a + Len(junk) < Len(d)
      /\ Len(d) - S = Len(s)
  BY <1>3, <1>5
<1>9. d[Len(d)] = EOI
  <2>1. Len(d) \in (a + Len(junk) + 1)..Len(d)
    BY <1>3, <1>8
  <2> QED
    BY <1>7, <1>8, <2>1
<1> QED
  BY <1>1, <1>3, <1>5, <1>6, <1>7, <1>8, <1>9 DEF SplicedAs

\* What is between the tear and the end of the interval that was found: markers of the
\* intervals before the tear, if it was torn back.
Splices(a, junk, b) ==
    /\ a \in 0..(Len(Encoded) - 1) /\ junk \in Seq({Junk, Invalid}) /\ b \in 1..Len(Encoded)
    /\ Encoded[b] \in Markers
    /\ data = Spliced(Encoded, a, junk, b)
    /\ damaged = Damaged(Encoded, a, b, MCUCount, restart_interval)

\* The intact scan of this image ends in EOI and has markers where intervals end.
LEMMA EncodedTokens ==
    ASSUME Numbers
    PROVE  /\ Encoded \in Seq(MCUTokens) /\ Len(Encoded) \in Nat \ {0}
           /\ Encoded[Len(Encoded)] = EOI
           /\ \A t \in 1..(Len(Encoded) - 1) : Encoded[t] \in Markers =>
                 \E j \in Nat : t = (j + 1) * Unit /\ Encoded[t] = RST(j % 8)
<1> DEFINE s == Encoded
           i == restart_interval
           n == MCUCount
<1>1. n \in Nat \ {0} /\ i \in Nat \ {0}
  BY DEF Numbers
<1>2. s = Intact(n, i)
  BY DEF Encoded
<1> HIDE DEF s, n, i
<1>3. /\ s \in Seq(MCUTokens) /\ Len(s) = n + (n - 1) \div i + 1 /\ (n - 1) \div i \in Nat
      /\ s[Len(s)] = EOI
      /\ \A t \in 1..(Len(s) - 1) : s[t] = Token(t, i)
  BY <1>1, <1>2, IntactTokens
<1>4. Len(s) \in Nat \ {0}
  BY <1>1, <1>3
<1>5. ASSUME NEW t \in 1..(Len(s) - 1), s[t] \in Markers
      PROVE  \E j \in Nat : t = (j + 1) * (i + 1) /\ s[t] = RST(j % 8)
  <2>1. t \in Nat \ {0} /\ s[t] = Token(t, i)
    BY <1>3, <1>4
  <2>2. t % (i + 1) = 0
    BY <1>1, <1>5, <2>1, TokenMarkers
  <2>3. \E j \in Nat : t = (j + 1) * (i + 1) /\ Token(t, i) = RST(j % 8)
    BY <1>1, <2>1, <2>2, TokenMarkers
  <2> QED
    BY <2>1, <2>3
<1> QED
  BY <1>3, <1>4, <1>5 DEF s, i, Unit

\* A token is between the ends of its interval.
LEMMA EncodedIntervals ==
    ASSUME Numbers, NEW p \in 1..Len(Encoded)
    PROVE  /\ IntervalOf(Encoded, p) \in Nat
           /\ IntervalOf(Encoded, p) * Unit <= p - 1
           /\ p - 1 < (IntervalOf(Encoded, p) + 1) * Unit
<1> DEFINE i == restart_interval
           n == MCUCount
           q == IntervalOf(Encoded, p)
<1>1. n \in Nat \ {0} /\ i \in Nat \ {0}
  BY DEF Numbers
<1>2. Encoded = Intact(n, i) /\ Unit = i + 1
  BY DEF Encoded, Unit
<1>3. p \in 1..Len(Intact(n, i)) /\ Len(Encoded) \in Nat
  BY <1>2, EncodedTokens
<1> HIDE DEF n, i
<1>4. IntervalOf(Intact(n, i), p) = (p - 1) \div (i + 1)
  BY <1>1, <1>3, IntervalOfIntact
<1>5. q = (p - 1) \div Unit
  BY <1>2, <1>4
<1> HIDE DEF q
<1>6. Unit \in Nat \ {0} /\ p - 1 \in Nat
  BY <1>1, <1>2, <1>3
<1>7. q \in Nat /\ p - 1 = q * Unit + ((p - 1) % Unit) /\ (p - 1) % Unit \in 0..(Unit - 1)
  <2> DEFINE v == p - 1
             u == Unit
  <2>1. v \in Nat /\ u \in Nat \ {0} /\ q = v \div u
    BY <1>5, <1>6
  <2> HIDE DEF v, u
  <2>2. q \in Nat /\ v = q * u + (v % u) /\ v % u \in 0..(u - 1)
    BY <2>1
  <2> QED
    BY <2>2 DEF u, v
<1>8. (q + 1) * Unit = q * Unit + Unit /\ q * Unit \in Nat
  BY <1>6, <1>7
<1> QED
  BY <1>6, <1>7, <1>8 DEF q

\* The damaged MCUs are those of whole intervals.
LEMMA DamagedIntervals ==
    ASSUME Numbers, NEW a, NEW b, damaged = Damaged(Encoded, a, b, MCUCount, restart_interval),
           NEW F, F = IntervalOf(Encoded, a + 1), NEW G, G = IntervalOf(Encoded, b),
           F \in Nat, G \in Nat
    PROVE  /\ G - F \in -2..2 => \A J \in F..(IF G >= F THEN G ELSE F) : Spoilt(J)
           /\ G - F \notin -2..2 => \A J \in Nat : J >= F => Spoilt(J)
<1> DEFINE i == restart_interval
           n == MCUCount
           last == IF G - F \in -2..2 THEN Max({F, G}) ELSE n
<1>1. n \in Nat \ {0} /\ i \in Nat \ {0}
  BY DEF Numbers
<1>2. damaged = {k \in 0..(n - 1) : i = 0 \/ k \div i \in F..last}
  BY DEF Damaged
<1>3. Max({F, G}) = IF G >= F THEN G ELSE F
  <2> DEFINE m == IF G >= F THEN G ELSE F
  <2>1. m \in {F, G} /\ \A y \in {F, G} : m >= y
    OBVIOUS
  <2>2. \A x \in {F, G} : (\A y \in {F, G} : x >= y) => x = m
    OBVIOUS
  <2> HIDE DEF m
  <2> QED
    BY <2>1, <2>2 DEF Max
<1>4. ASSUME NEW J \in Nat, NEW r \in 1..i, (J + 1) * i - r < n
      PROVE  /\ (J + 1) * i - r \in 0..(n - 1) /\ ((J + 1) * i - r) \div i = J /\ J < n
  <2> DEFINE k == (J + 1) * i - r
             d == i - r
             c == J * i
  <2>1. d \in 0..(i - 1) /\ c \in Nat /\ k = c + d /\ J <= c
    <3>1. /\ c \in Nat /\ (J + 1) * i = c + i /\ J <= c
      <4>1. J * 1 <= J * i
        BY <1>1
      <4> QED
        BY <1>1, <4>1
    <3> HIDE DEF c
    <3> QED
      BY <1>1, <3>1
  <2>2. (J * i + d) \div i = J
    <3>1. i \in Nat \ {0} /\ d \in 0..(i - 1)
      BY <1>1, <2>1
    <3> HIDE DEF d, c, k, i, n
    <3> QED
      BY <3>1, DividesUniquely
  <2>3. k \div i = J
    BY <2>1, <2>2
  <2> HIDE DEF c, d, i, n
  <2>4. k < n
    BY <1>4
  <2> HIDE DEF k
  <2>5. k \in 0..(n - 1) /\ J < n
    BY <1>1, <2>1, <2>4
  <2> QED
    BY <2>3, <2>5 DEF k
<1>5. ASSUME NEW J \in Nat, J >= F, J <= last \/ last = n
      PROVE  Spoilt(J)
  <2> SUFFICES ASSUME NEW r \in 1..i, (J + 1) * i - r < n
               PROVE  (J + 1) * i - r \in damaged
    BY DEF Spoilt
  <2>1. (J + 1) * i - r \in 0..(n - 1) /\ ((J + 1) * i - r) \div i = J /\ J < n
    BY <1>4
  <2>2. last \in Nat
    BY <1>1, <1>3
  <2>3. J \in F..last
    <3> HIDE DEF last, n, i
    <3> QED
      BY <1>1, <1>5, <2>1, <2>2
  <2> DEFINE k == (J + 1) * i - r
  <2> HIDE DEF k
  <2>4. k \in 0..(n - 1) /\ k \div i = J
    BY <2>1 DEF k
  <2>5. k \in damaged
    BY <1>2, <2>3, <2>4
  <2> QED
    BY <2>5 DEF k
<1>6. CASE G - F \in -2..2
  <2>1. last = IF G >= F THEN G ELSE F
    BY <1>3, <1>6
  <2>2. \A J \in F..(IF G >= F THEN G ELSE F) : J \in Nat /\ J >= F /\ J <= last
    BY <2>1
  <2> HIDE DEF last
  <2> QED
    BY <1>5, <1>6, <2>2
<1>7. CASE G - F \notin -2..2
  <2>1. last = n
    BY <1>7
  <2> HIDE DEF last
  <2> QED
    BY <1>5, <1>7, <2>1
<1> QED
  BY <1>6, <1>7

\* The stream goes on near the tear: what has to be there for the decoder to find its way.
LEMMA NearTear ==
    ASSUME Numbers, NEW a, NEW junk, NEW b, Splices(a, junk, b),
           IntervalOf(Encoded, b) - IntervalOf(Encoded, a + 1) \in -2..2
    PROVE  \E F, Y, Z, S : Tear(F, Y, a, Z, S)
<1> DEFINE s == Encoded
           F == IntervalOf(Encoded, a + 1)
           G == IntervalOf(Encoded, b)
           Y == IF G >= F THEN G ELSE F
           S == a + Len(junk) + 1 - b
           End == Lesser((Y + 1) * Unit, Len(s))
           Z == End + S
<1>1. /\ a \in 0..(Len(s) - 1) /\ junk \in Seq({Junk, Invalid}) /\ b \in 1..Len(s)
      /\ s[b] \in Markers /\ data = Spliced(s, a, junk, b)
  BY DEF Splices
<1>2. /\ s \in Seq(MCUTokens) /\ Len(s) \in Nat \ {0} /\ s[Len(s)] = EOI
      /\ \A t \in 1..(Len(s) - 1) : s[t] \in Markers =>
            \E j \in Nat : t = (j + 1) * Unit /\ s[t] = RST(j % 8)
  BY EncodedTokens
<1>3. /\ F \in Nat /\ F * Unit <= a /\ a < (F + 1) * Unit
  <2>1. a + 1 \in 1..Len(Encoded) /\ (a + 1) - 1 = a
    BY <1>1, <1>2
  <2>2. /\ IntervalOf(Encoded, a + 1) * Unit <= (a + 1) - 1
        /\ (a + 1) - 1 < (IntervalOf(Encoded, a + 1) + 1) * Unit
        /\ IntervalOf(Encoded, a + 1) \in Nat
    BY <2>1, EncodedIntervals
  <2> QED
    BY <2>1, <2>2
<1>4. G \in Nat /\ G * Unit <= b - 1 /\ b - 1 < (G + 1) * Unit
  BY <1>1, EncodedIntervals
<1>5. \A J \in F..Y : Spoilt(J)
  <2>1. damaged = Damaged(Encoded, a, b, MCUCount, restart_interval)
    BY DEF Splices
  <2>2. G - F \in -2..2 => \A J \in F..(IF G >= F THEN G ELSE F) : Spoilt(J)
    BY <1>3, <1>4, <2>1, DamagedIntervals
  <2> QED
    BY <2>2
<1>6. /\ data \in Seq(MCUTokens) /\ Len(data) = Len(s) + S /\ Len(data) \in Nat \ {0} /\ S \in Int
      /\ Len(junk) \in Nat /\ a + Len(junk) < Len(data)
      /\ \A t \in 1..a : data[t] = s[t]
      /\ \A t \in (a + 1)..(a + Len(junk)) : data[t] \in {Junk, Invalid}
      /\ \A t \in (a + Len(junk) + 1)..Len(data) : data[t] = s[t - S]
  <2> HIDE DEF s, S
  <2>1. S = a + Len(junk) + 1 - b
    BY DEF S
  <2>2. SplicedAs(data, s, a, junk, S)
    BY <1>1, <1>2, <2>1, SplicedTokens
  <2> QED
    BY <2>2 DEF SplicedAs
<1>7. G - F \in -2..2
  OBVIOUS
<1> HIDE DEF s, F, G, S
<1>8. Y \in F..(F + 2) /\ Y \in Nat /\ G <= Y
  BY <1>3, <1>4, <1>7
<1>9. (G + 1) * Unit <= (Y + 1) * Unit /\ (G + 1) * Unit \in Nat /\ (Y + 1) * Unit \in Nat
  <2>1. G + 1 \in Int /\ Y + 1 \in Int /\ G + 1 <= Y + 1
    BY <1>4, <1>8
  <2>2. Unit \in Nat
    BY UnitOrder
  <2> HIDE DEF Y
  <2>3. (G + 1) * Unit \in Nat /\ (Y + 1) * Unit \in Nat
    BY <1>4, <1>8, <2>2
  <2> QED
    BY <2>1, <2>3, UnitOrder
<1> HIDE DEF Y
<1>10. End \in b..Len(s)
  BY <1>1, <1>2, <1>4, <1>9 DEF Lesser
<1>11. End = Len(s) \/ End = (Y + 1) * Unit
  BY DEF Lesser
<1> HIDE DEF End
<1>12. Z \in (a + Len(junk) + 1)..Len(data) /\ Z - S = End /\ Z \in (a + 1)..Len(data)
  <2>1. S = a + Len(junk) + 1 - b
    BY DEF S
  <2>2. /\ a \in Int /\ b \in Int /\ Len(junk) \in Nat /\ Len(s) \in Int /\ S \in Int
        /\ Len(data) = Len(s) + S
    BY <1>1, <1>2, <1>6
  <2>3. End \in Int /\ b <= End /\ End <= Len(s) /\ Z = End + S
    BY <1>10, <2>2
  <2> HIDE DEF Z
  <2>4. Z \in Int /\ Z - S = End /\ Z <= Len(data) /\ a + Len(junk) + 1 <= Z
    BY <2>1, <2>2, <2>3
  <2> QED
    BY <2>2, <2>4
<1> HIDE DEF Z
<1>13. ASSUME NEW t \in (a + 1)..(Z - 1), data[t] \in Markers
       PROVE  data[t] \in Stray(F)
  <2>1. CASE t <= a + Len(junk)
    <3>1. t \in (a + 1)..(a + Len(junk))
      BY <1>1, <1>6, <2>1
    <3> QED
      BY <1>6, <1>13, <3>1, TokensApart DEF Stray
  <2>2. CASE ~(t <= a + Len(junk))
    <3> DEFINE u == t - S
    <3>1. t \in (a + Len(junk) + 1)..Len(data)
      BY <1>1, <1>6, <1>12, <2>2
    <3>2. u \in b..(End - 1) /\ u \in Nat
      <4>1. S = a + Len(junk) + 1 - b
        BY DEF S
      <4>2. /\ a \in Int /\ b \in Nat \ {0} /\ Len(junk) \in Nat /\ S \in Int /\ Z \in Int
            /\ t \in Int /\ t <= Z - 1 /\ Z - S = End
        BY <1>1, <1>2, <1>6, <1>12
      <4>3. a + Len(junk) < t
        BY <2>2, <4>2
      <4>4. u \in Int /\ b <= u /\ u <= End - 1 /\ End \in Int
        BY <4>1, <4>2, <4>3
      <4> QED
        BY <4>2, <4>4
    <3>3. data[t] = s[u]
      BY <1>6, <3>1
    <3> HIDE DEF u
    <3>4. u \in 1..(Len(s) - 1)
      BY <1>1, <1>2, <1>10, <3>2
    <3>5. PICK j \in Nat : u = (j + 1) * Unit /\ s[u] = RST(j % 8)
      BY <1>2, <1>13, <3>3, <3>4
    <3>6. j < Y
      <4>1. (j + 1) * Unit < (Y + 1) * Unit
        <5>1. End <= (Y + 1) * Unit
          BY <1>2, <1>9 DEF End, Lesser
        <5> QED
          BY <1>2, <1>9, <1>10, <3>2, <3>5, <5>1
      <4>2. Unit \in Nat \ {0}
        BY UnitOrder
      <4>3. j + 1 < Y + 1
        BY <1>8, <4>1, <4>2, MonotoneProduct
      <4> QED
        BY <1>8, <4>3
    <3>7. G <= j
      <4>1. G * Unit < (j + 1) * Unit
        <5>1. G * Unit \in Int
          BY <1>4, UnitOrder
        <5> QED
          BY <1>1, <1>4, <3>2, <3>5, <5>1
      <4>2. Unit \in Nat \ {0}
        BY UnitOrder
      <4>3. G < j + 1
        BY <1>4, <4>1, <4>2, MonotoneProduct
      <4> QED
        BY <1>4, <4>3
    <3>8. Y = F /\ (j = F - 1 \/ j = F - 2)
      <4>1. CASE G >= F
        <5>1. Y = G
          BY <4>1 DEF Y
        <5> QED
          BY <1>4, <3>6, <3>7, <5>1
      <4>2. CASE ~(G >= F)
        <5>1. Y = F
          BY <4>2 DEF Y
        <5> QED
          BY <1>3, <1>4, <1>7, <3>6, <3>7, <5>1
      <4> QED
        BY <4>1, <4>2
    <3> QED
      BY <3>3, <3>5, <3>8 DEF Stray
  <2> QED
    BY <2>1, <2>2
<1>14. \A t \in Z..Len(data) : data[t] = s[t - S]
  <2> SUFFICES ASSUME NEW t \in Z..Len(data) PROVE data[t] = s[t - S]
    OBVIOUS
  <2>1. t \in (a + Len(junk) + 1)..Len(data)
    BY <1>1, <1>6, <1>12
  <2> QED
    BY <1>6, <2>1
<1>15. a \in 0..Len(data)
  BY <1>1, <1>6
<1>16. Tear(F, Y, a, Z, S)
  <2>1. Z - S = Lesser((Y + 1) * Unit, Len(s))
    BY <1>12 DEF End
  <2> QED
    BY <1>3, <1>5, <1>6, <1>8, <1>12, <1>13, <1>14, <1>15, <2>1 DEF Tear, s
<1> QED
  BY <1>16

\* A stream that goes on in an interval far from the tear spoils all that follows.
LEMMA FarTear ==
    ASSUME Numbers, NEW a, NEW junk, NEW b, Splices(a, junk, b),
           IntervalOf(Encoded, b) - IntervalOf(Encoded, a + 1) \notin -2..2
    PROVE  \E F : Astray(F, a)
<1> DEFINE F == IntervalOf(Encoded, a + 1)
           G == IntervalOf(Encoded, b)
           S == a + Len(junk) + 1 - b
<1>1. /\ a \in 0..(Len(Encoded) - 1) /\ junk \in Seq({Junk, Invalid}) /\ b \in 1..Len(Encoded)
      /\ data = Spliced(Encoded, a, junk, b)
      /\ damaged = Damaged(Encoded, a, b, MCUCount, restart_interval)
  BY DEF Splices
<1>2. /\ Encoded \in Seq(MCUTokens) /\ Len(Encoded) \in Nat \ {0} /\ Encoded[Len(Encoded)] = EOI
  BY EncodedTokens
<1>3. /\ F \in Nat /\ F * Unit <= a /\ a < (F + 1) * Unit
  <2>1. a + 1 \in 1..Len(Encoded) /\ (a + 1) - 1 = a
    BY <1>1, <1>2
  <2>2. /\ IntervalOf(Encoded, a + 1) * Unit <= (a + 1) - 1
        /\ (a + 1) - 1 < (IntervalOf(Encoded, a + 1) + 1) * Unit
        /\ IntervalOf(Encoded, a + 1) \in Nat
    BY <2>1, EncodedIntervals
  <2> QED
    BY <2>1, <2>2
<1>4. G \in Nat
  BY <1>1, EncodedIntervals
<1>5. \A J \in Nat : J >= F => Spoilt(J)
  <2>1. G - F \notin -2..2 => \A J \in Nat : J >= F => Spoilt(J)
    BY <1>1, <1>3, <1>4, DamagedIntervals
  <2> QED
    BY <2>1
<1>6. /\ Len(data) \in Nat /\ Len(junk) \in Nat /\ a + Len(junk) < Len(data)
      /\ \A t \in 1..a : data[t] = Encoded[t]
  <2> HIDE DEF S
  <2>1. S = a + Len(junk) + 1 - b
    BY DEF S
  <2>2. SplicedAs(data, Encoded, a, junk, S)
    BY <1>1, <1>2, <2>1, SplicedTokens
  <2> QED
    BY <1>1, <1>2, <2>2 DEF SplicedAs
<1> HIDE DEF F
<1>7. a \in 0..Len(data)
  BY <1>1, <1>6
<1>8. Astray(F, a)
  BY <1>3, <1>5, <1>6, <1>7 DEF Astray
<1> QED
  BY <1>8

\* The stream as it is or torn, in the words of StreamOf.
Streamed ==
    \/ data = Encoded /\ damaged = {}
    \/ \E a, junk, b : Splices(a, junk, b)

\* The first MCU is coming.
LEMMA StreamStarts ==
    ASSUME MCUCount \in Nat \ {0}, restart_interval \in Nat, Streamed
    PROVE  Scanning /\ Coming(0, StartPass(restart_interval))
<1> DEFINE e == StartPass(restart_interval)
<1>1. Laid(Encoded, MCUCount, restart_interval)
  BY IntactLaid DEF Encoded
<1>2. /\ Encoded \in Seq(MCUTokens) /\ Len(Encoded) \in Nat \ {0} /\ Encoded[Len(Encoded)] = EOI
  BY <1>1 DEF Laid
<1>3. DataEnds
  <2>1. CASE data = Encoded
    BY <1>2, <2>1 DEF DataEnds
  <2>2. CASE \E a, junk, b : Splices(a, junk, b)
    <3>1. PICK a, junk, b : Splices(a, junk, b)
      BY <2>2
    <3>2. /\ a \in 0..(Len(Encoded) - 1) /\ junk \in Seq({Junk, Invalid})
          /\ b \in 1..Len(Encoded) /\ data = Spliced(Encoded, a, junk, b)
      BY <3>1 DEF Splices
    <3>3. PICK S : S = a + Len(junk) + 1 - b
      OBVIOUS
    <3>4. SplicedAs(data, Encoded, a, junk, S)
      BY <1>2, <3>2, <3>3, SplicedTokens
    <3>5. Len(data) \in Nat \ {0} /\ data[Len(data)] = EOI
      BY <3>4 DEF SplicedAs
    <3> QED
      BY <3>5 DEF DataEnds
  <2> QED
    BY <2>1, <2>2 DEF Streamed
<1>4. /\ e.at = 1 /\ e.unread_marker = None /\ ~e.insufficient_data
      /\ e.restarts_to_go = restart_interval /\ e.next_restart_num = 0 /\ e.last_dc_val = None
  BY DEF StartPass
<1>5. Reading(e)
  <2>1. e \in Decoders
    <3>1. 1 \in 1..(Len(data) + 1) /\ None \in MCUValues
      BY <1>3 DEF DataEnds, MCUValues
    <3> HIDE DEF MCUValues
    <3> QED
      BY <3>1 DEF StartPass, Decoders
  <2> QED
    BY <1>3, <1>4, <2>1 DEF Reading, DataEnds
<1> HIDE DEF e
<1>6. CASE restart_interval = 0
  <2>1. Unmarked(0, e)
    <3>1. CASE data = Encoded
      <4>1. e.at = 0 + 1
        BY <1>4
      <4> QED
        BY <1>4, <3>1, <4>1 DEF Unmarked
    <3>2. CASE \E a, junk, b : Splices(a, junk, b)
      <4>1. \A j \in 0..(MCUCount - 1) : j \in damaged
        BY <1>6, <3>2 DEF Splices, Damaged
      <4> QED
        BY <4>1 DEF Unmarked
    <3> QED
      BY <3>1, <3>2 DEF Streamed
  <2>2. ~(restart_interval > 0)
    BY <1>6
  <2>3. Coming(0, e)
    BY <1>5, <2>1, <2>2 DEF Coming
  <2> QED
    BY <1>1, <1>3, <2>3 DEF Scanning, e
<1>7. CASE restart_interval > 0
  <2>1. Numbers
    BY <1>7 DEF Numbers
  <2>2. Unit \in Nat \ {0}
    BY <2>1, UnitOrder
  <2>3. InStep(0, restart_interval, e, 0)
    <3>1. 0 * Unit = 0 /\ 0 % 8 = 0
      BY <2>2
    <3>2. 1 = 0 * Unit + (restart_interval - restart_interval) + 1 + 0
      BY <3>1
    <3> QED
      BY <1>4, <3>1, <3>2 DEF InStep
  <2>4. ASSUME NEW F \in Nat, F * Unit <= 0
        PROVE  F = 0
    <3>1. 0 * Unit = 0
      BY <2>2
    <3>2. F * Unit <= 0 * Unit
      BY <2>4, <3>1
    <3>3. F <= 0
      BY <2>2, <3>2, MonotoneProduct
    <3> QED
      BY <3>3
  <2>5. Phase(0, restart_interval, e)
    <3>1. CASE data = Encoded
      BY <2>3, <3>1 DEF Phase
    <3>2. ASSUME NEW a, NEW junk, NEW b, Splices(a, junk, b)
          PROVE  Phase(0, restart_interval, e)
      <4>1. a \in Nat
        BY <1>2, <3>2 DEF Splices
      <4>2. CASE IntervalOf(Encoded, b) - IntervalOf(Encoded, a + 1) \in -2..2
        <5>1. PICK F, Y, Z, S : Tear(F, Y, a, Z, S)
          BY <2>1, <3>2, <4>2, NearTear
        <5>2. CASE a >= 1
          <6>1. OnTheWay(F, Y, a, Z, S, 0, restart_interval, e)
            BY <1>4, <2>3, <5>2 DEF OnTheWay
          <6> QED
            BY <5>1, <6>1 DEF Phase
        <5>3. CASE ~(a >= 1)
          <6>1. a = 0
            BY <4>1, <5>3
          <6>2. F \in Nat /\ F * Unit <= a /\ Z \in (a + 1)..Len(data)
            BY <5>1 DEF Tear
          <6>3. F = 0
            BY <2>4, <6>1, <6>2
          <6>4. Lost(F, a, Z, e)
            <7>1. 1 \in (a + 1)..Z
              BY <1>3, <6>1, <6>2 DEF DataEnds
            <7>2. F % 8 = 0
              BY <6>3
            <7> QED
              BY <1>4, <7>1, <7>2 DEF Lost
          <6>5. OnTheWay(F, Y, a, Z, S, 0, restart_interval, e)
            BY <6>3, <6>4 DEF OnTheWay
          <6> QED
            BY <5>1, <6>5 DEF Phase
        <5> QED
          BY <5>2, <5>3
      <4>3. CASE IntervalOf(Encoded, b) - IntervalOf(Encoded, a + 1) \notin -2..2
        <5>1. PICK F : Astray(F, a)
          BY <2>1, <3>2, <4>3, FarTear
        <5>2. CASE a >= 1
          BY <1>4, <2>3, <5>1, <5>2, PhaseAstray
        <5>3. CASE ~(a >= 1)
          <6>1. a = 0
            BY <4>1, <5>3
          <6>2. F \in Nat /\ F * Unit <= a
            BY <5>1 DEF Astray
          <6>3. F = 0 /\ 0 >= F
            BY <2>4, <6>1, <6>2
          <6> QED
            BY <5>1, <6>3, PhaseAstray
        <5> QED
          BY <5>2, <5>3
      <4> QED
        BY <4>2, <4>3
    <3> QED
      BY <3>1, <3>2 DEF Streamed
  <2>6. InInterval(0, e)
    <3>1. 0 = (0 + 1) * restart_interval - restart_interval
          /\ restart_interval \in 0..restart_interval
      OBVIOUS
    <3> QED
      BY <1>4, <2>5, <3>1 DEF InInterval
  <2>7. Coming(0, e)
    BY <1>5, <1>7, <2>6 DEF Coming
  <2> QED
    BY <1>1, <1>3, <2>7 DEF Scanning, e
<1> QED
  BY <1>6, <1>7

-----------------------------------------------------------------------------
(***************************************************************************)
(* The layout of an image: its iMCU rows, row groups and block rows.       *)
(***************************************************************************)

\* The images that the decoder takes.
Layout ==
    /\ v_samp_factor \in Seq(1..4) \ {<<>>} /\ Integral(v_samp_factor)
    /\ image_height \in Nat \ {0}

\* The block rows of a component in an iMCU row come as so many rows of MCUs.
MCURows == IF Interleaved THEN 1 ELSE v_samp_factor[1]

\* The largest sampling factor is that of a component.
LEMMA HighestComponent ==
    ASSUME Layout
    PROVE  /\ max_v_samp_factor \in 1..4
           /\ \E c \in Component : v_samp_factor[c] = max_v_samp_factor
           /\ \A c \in Component : /\ v_samp_factor[c] \in 1..4
                                   /\ v_samp_factor[c] <= max_v_samp_factor
<1> DEFINE P(v) == /\ \E c \in Component : v_samp_factor[c] = v
                   /\ \A c \in Component : v_samp_factor[c] <= v
<1>1. /\ 1 \in Component
      /\ \A c \in Component : v_samp_factor[c] \in 1..4
  BY DEF Layout, Component
<1>2. \E v \in 1..4 : P(v)
  <2>1. CASE \E c \in Component : v_samp_factor[c] = 4
    <3>1. P(4)
      BY <1>1, <2>1
    <3> QED
      BY <3>1
  <2>2. CASE /\ ~\E c \in Component : v_samp_factor[c] = 4
             /\ \E c \in Component : v_samp_factor[c] = 3
    <3>1. P(3)
      BY <1>1, <2>2
    <3> QED
      BY <3>1
  <2>3. CASE /\ ~\E c \in Component : v_samp_factor[c] \in {3, 4}
             /\ \E c \in Component : v_samp_factor[c] = 2
    <3>1. P(2)
      BY <1>1, <2>3
    <3> QED
      BY <3>1
  <2>4. CASE ~\E c \in Component : v_samp_factor[c] \in {2, 3, 4}
    <3>1. P(1)
      BY <1>1, <2>4
    <3> QED
      BY <3>1
  <2> QED
    BY <2>1, <2>2, <2>3, <2>4
<1>3. max_v_samp_factor = CHOOSE v \in 1..4 : P(v)
  BY DEF max_v_samp_factor
<1> HIDE DEF P
<1>4. max_v_samp_factor \in 1..4 /\ P(max_v_samp_factor)
  BY <1>2, <1>3
<1> QED
  BY <1>1, <1>4 DEF P

\* What initial_setup, jpeg_calc_output_dimensions and jinit_upsampler make of a component.
Component_heights(c) ==
    /\ v_samp_factor[c] \in 1..4 /\ max_v_samp_factor \in 1..4
    /\ DCT_v_scaled_size(c) \in Nat \ {0}
    /\ rowgroup_height(c) \in Nat \ {0} /\ v_expand(c) \in Nat \ {0}
    /\ rowgroup_height(c) * DCTSize = v_samp_factor[c] * DCT_v_scaled_size(c)
    /\ v_expand(c) * rowgroup_height(c) = max_v_samp_factor
    /\ MCU_height(c) \in Nat \ {0} /\ MCURows \in Nat \ {0}
    /\ v_samp_factor[c] = MCURows * MCU_height(c)

\* The heights of a component fit together.
LEMMA HeightsOf ==
    ASSUME Layout, NEW c \in Component
    PROVE  Component_heights(c)
<1> DEFINE v == v_samp_factor[c]
           M == max_v_samp_factor
           s == DCT_v_scaled_size(c)
           D == DCTSize
           rgh == rowgroup_height(c)
<1>1. v \in 1..4 /\ M \in 1..4 /\ v <= M
  BY HighestComponent
<1>2. M % v = 0
  <2>1. PICK d \in Component : v_samp_factor[d] = M
    BY HighestComponent
  <2>2. Component = DOMAIN v_samp_factor
    BY DEF Component, Layout
  <2>3. \A e \in DOMAIN v_samp_factor : v_samp_factor[e] <= v_samp_factor[d]
    BY <2>1, <2>2, HighestComponent
  <2>4. v_samp_factor[d] % v_samp_factor[c] = 0
    BY <2>1, <2>2, <2>3 DEF Layout, Integral
  <2> QED
    BY <2>1, <2>4
<1>3. D \in Nat \ {0}
  BY ScanAssumption
<1>4. s = (IF M % (v * 2) = 0 THEN D * 2 ELSE D) /\ rgh = (v * s) \div D
  BY DEF DCT_v_scaled_size, rowgroup_height
<1>5. v_expand(c) = M \div rgh
  BY DEF v_expand
<1> HIDE DEF v, M, s, D, rgh
<1>6. /\ rgh = (IF M % (v * 2) = 0 THEN v * 2 ELSE v) /\ rgh * D = v * s /\ s \in Nat \ {0}
  <2>1. CASE M % (v * 2) = 0
    <3>1. s = D * 2 /\ v * s = (v * 2) * D + 0
      BY <1>1, <1>3, <1>4, <2>1
    <3>2. v * 2 \in Int /\ 0 \in 0..(D - 1)
      BY <1>1, <1>3
    <3>3. ((v * 2) * D + 0) \div D = v * 2
      BY <1>3, <3>2, DividesUniquely
    <3> QED
      BY <1>1, <1>3, <1>4, <2>1, <3>1, <3>3
  <2>2. CASE M % (v * 2) # 0
    <3>1. s = D /\ v * s = v * D + 0
      BY <1>1, <1>3, <1>4, <2>2
    <3>2. v \in Int /\ 0 \in 0..(D - 1)
      BY <1>1, <1>3
    <3>3. (v * D + 0) \div D = v
      BY <1>3, <3>2, DividesUniquely
    <3> QED
      BY <1>1, <1>3, <1>4, <2>2, <3>1, <3>3
  <2> QED
    BY <2>1, <2>2
<1>7. rgh \in Nat \ {0} /\ M % rgh = 0 /\ rgh <= M
  <2>1. v \in {1, 2, 3, 4} /\ M \in {1, 2, 3, 4}
    BY <1>1
  <2> QED
    BY <1>1, <1>2, <1>6, <2>1
<1>8. M \div rgh \in Nat \ {0} /\ (M \div rgh) * rgh = M
  <2> DEFINE q == M \div rgh
  <2>1. q \in Int /\ M = q * rgh + (M % rgh) /\ (M \in Nat => q \in Nat)
    BY <1>1, <1>7, Divided
  <2> HIDE DEF q
  <2>2. q * rgh = M /\ q \in Nat
    BY <1>1, <1>7, <2>1
  <2>3. q # 0
    BY <1>1, <1>7, <2>2
  <2> QED
    BY <2>2, <2>3 DEF q
<1>9. MCU_height(c) \in Nat \ {0} /\ MCURows \in Nat \ {0} /\ v = MCURows * MCU_height(c)
  <2>1. CASE Interleaved
    BY <1>1, <2>1 DEF MCU_height, MCURows, v
  <2>2. CASE ~Interleaved
    <3>1. c = 1
      BY <2>2 DEF Interleaved, Component, Layout
    <3> QED
      BY <1>1, <2>2, <3>1 DEF MCU_height, MCURows, v
  <2> QED
    BY <2>1, <2>2
<1> QED
  BY <1>1, <1>3, <1>5, <1>6, <1>7, <1>8, <1>9 DEF Component_heights, v, M, s, D, rgh

\* CeilDiv rounds up.
LEMMA CeilDivRoundsUp ==
    ASSUME NEW a \in Nat, NEW d \in Nat \ {0}
    PROVE  CeilDiv(a, d) \in Nat /\ \A x \in Int : x < CeilDiv(a, d) <=> x * d < a
<1>1. CeilDiv(a, d) = jdiv_round_up(a, d)
  BY DEF CeilDiv, jdiv_round_up
<1> QED
  BY <1>1, RoundUp

\* The last iMCU row has at least one block row of every component and is full at most.
Rows_of(c) ==
    /\ total_iMCU_rows \in Nat \ {0} /\ height_in_blocks(c) \in Nat
    /\ last_row_height(c) \in 1..v_samp_factor[c]
    /\ height_in_blocks(c) = (total_iMCU_rows - 1) * v_samp_factor[c] + last_row_height(c)
    /\ max_v_samp_factor * DCTSize \in Nat \ {0}
    /\ \A x \in Int : x < height_in_blocks(c)
                      <=> x * (max_v_samp_factor * DCTSize) < image_height * v_samp_factor[c]
    /\ \A x \in Int : x < total_iMCU_rows
                      <=> x * (max_v_samp_factor * DCTSize) < image_height

\* Only the last iMCU row may be short of block rows, and it has one at least.
LEMMA RowsOf ==
    ASSUME Layout, NEW c \in Component
    PROVE  Rows_of(c)
<1> DEFINE v == v_samp_factor[c]
           U == max_v_samp_factor * DCTSize
           h == image_height
           T == total_iMCU_rows
           B == height_in_blocks(c)
<1>1. v \in 1..4 /\ U \in Nat \ {0} /\ h \in Nat \ {0} /\ h * v \in Nat
  <2>1. v \in 1..4 /\ max_v_samp_factor \in 1..4
    BY HeightsOf DEF Component_heights
  <2>2. DCTSize \in Nat \ {0} /\ h \in Nat \ {0}
    BY ScanAssumption DEF Layout
  <2> HIDE DEF v, h
  <2>3. h * v \in Nat
    BY <2>1, <2>2
  <2>4. U \in Nat /\ U # 0
    BY <2>1, <2>2
  <2> QED
    BY <2>1, <2>2, <2>3, <2>4
<1>2. T = CeilDiv(h, U) /\ B = CeilDiv(h * v, U)
  BY DEF total_iMCU_rows, height_in_blocks
<1>3. last_row_height(c) = IF B % v = 0 THEN v ELSE B % v
  BY DEF last_row_height
<1> HIDE DEF v, U, h, T, B
<1>4. T \in Nat /\ \A x \in Int : x < T <=> x * U < h
  BY <1>1, <1>2, CeilDivRoundsUp
<1>5. B \in Nat /\ \A x \in Int : x < B <=> x * U < h * v
  <2> DEFINE a == h * v
  <2>1. a \in Nat /\ B = CeilDiv(a, U)
    BY <1>1, <1>2
  <2> HIDE DEF a
  <2>2. B \in Nat /\ \A x \in Int : x < B <=> x * U < a
    BY <1>1, <2>1, CeilDivRoundsUp
  <2> QED
    BY <2>2 DEF a
<1>6. T \in Nat \ {0}
  <2>1. 0 * U < h
    BY <1>1
  <2> QED
    BY <1>4, <2>1
<1>7. ASSUME NEW x \in Int
      PROVE  x < T <=> x * v < B
  <2>1. x * v \in Int /\ x * U \in Int
    BY <1>1
  <2>2. (x * v) * U = (x * U) * v
    BY <1>1
  <2>3. x * U < h <=> (x * U) * v < h * v
    BY <1>1, <2>1, MonotoneProduct
  <2>4. x * v < B <=> (x * v) * U < h * v
    BY <1>5, <2>1
  <2> QED
    BY <1>4, <2>2, <2>3, <2>4
<1> DEFINE w == (T - 1) * v
           z == B - w
<1>8. w < B /\ B <= w + v /\ w \in Int
  <2>1. (T - 1) * v < B
    BY <1>6, <1>7
  <2>2. ~(T * v < B)
    BY <1>6, <1>7
  <2>3. T * v = (T - 1) * v + v /\ (T - 1) * v \in Int
    BY <1>1, <1>6
  <2> QED
    BY <1>1, <1>5, <2>1, <2>2, <2>3
<1>9. z \in 1..v /\ B = w + z
  <2> HIDE DEF w
  <2> QED
    BY <1>1, <1>5, <1>8
<1>10. last_row_height(c) = z
  <2>1. T - 1 \in Int /\ v \in Nat \ {0}
    BY <1>1, <1>6
  <2>2. CASE z = v
    <3>1. T * v = w + v
      BY <1>1, <1>6
    <3>2. (T * v + 0) % v = 0
      BY <1>6, <2>1, DividesUniquely
    <3>3. B = T * v + 0
      <4> HIDE DEF w, z
      <4>1. T * v \in Int
        BY <1>6, <2>1
      <4> QED
        BY <1>9, <2>2, <3>1, <4>1
    <3> QED
      BY <1>3, <2>2, <3>2, <3>3
  <2>3. CASE z # v
    <3> HIDE DEF z, w
    <3>1. z \in 0..(v - 1) /\ z # 0
      BY <1>1, <1>9, <2>3
    <3> USE DEF w
    <3>2. ((T - 1) * v + z) % v = z
      BY <2>1, <3>1, DividesUniquely
    <3> QED
      BY <1>3, <1>9, <3>1, <3>2
  <2> QED
    BY <2>2, <2>3
<1> QED
  BY <1>1, <1>4, <1>5, <1>6, <1>9, <1>10 DEF Rows_of, v, U, h, T, B

\* The MCUs of an iMCU row, and the number in the scan of the first.
RowsIn(row) ==
    IF Interleaved THEN 1
    ELSE IF row < total_iMCU_rows - 1 THEN v_samp_factor[1] ELSE last_row_height(1)
Base(row) == row * MCURows * MCUsPerRow

MCUs_of(row) ==
    /\ RowsIn(row) * MCUsPerRow \in Nat \ {0} /\ Base(row) \in Nat
    /\ Base(row) + RowsIn(row) * MCUsPerRow <= MCUCount
    /\ row + 1 < total_iMCU_rows => Base(row + 1) = Base(row) + RowsIn(row) * MCUsPerRow

\* The MCUs of an iMCU row are in the scan, behind those of the one before it.
LEMMA MCUsOf ==
    ASSUME Layout, NEW row \in Nat, row < total_iMCU_rows
    PROVE  MCUs_of(row) /\ MCUCount \in Nat \ {0}
<1> DEFINE W == MCUsPerRow
           T == total_iMCU_rows
           n == RowsIn(row)
           q == MCURows
           N == MCU_rows_in_scan
<1>1. W \in Nat \ {0} /\ MCUCount = N * W
  BY ScanAssumption DEF MCUCount
<1>2. T \in Nat \ {0} /\ row < T
  <2>1. 1 \in Component
    BY DEF Layout, Component
  <2> QED
    BY <2>1, RowsOf DEF Rows_of
<1>3. n \in Nat \ {0} /\ q \in Nat \ {0} /\ N \in Nat \ {0} /\ row * q + n <= N
      /\ (row + 1 < T => n = q)
  <2>1. CASE Interleaved
    <3>1. n = 1 /\ q = 1 /\ N = T
      BY <2>1 DEF RowsIn, MCURows, MCU_rows_in_scan
    <3> HIDE DEF n, q, N, T
    <3> QED
      BY <1>2, <3>1
  <2>2. CASE ~Interleaved
    <3> DEFINE v == v_samp_factor[1]
               l == last_row_height(1)
    <3>1. 1 \in Component
      BY DEF Layout, Component
    <3>2. v \in 1..4
      BY <3>1, HighestComponent
    <3>3. l \in 1..v /\ height_in_blocks(1) = (T - 1) * v + l
      BY <3>1, RowsOf DEF Rows_of
    <3>4. n = (IF row < T - 1 THEN v ELSE l) /\ q = v /\ N = height_in_blocks(1)
      BY <2>2 DEF RowsIn, MCURows, MCU_rows_in_scan
    <3> HIDE DEF n, q, N, T, v, l
    <3>5. row * v \in Nat /\ (T - 1) * v \in Nat
      BY <1>2, <3>2
    <3>6. CASE row < T - 1
      <4>1. row + 1 <= T - 1 /\ row + 1 \in Int /\ T - 1 \in Int /\ v \in Nat \ {0}
        BY <1>2, <3>2, <3>6
      <4>2. (row + 1) * v <= (T - 1) * v
        BY <4>1, MonotoneProduct
      <4>3. (row + 1) * v = row * v + v
        BY <3>2
      <4> QED
        BY <3>2, <3>3, <3>4, <3>5, <3>6, <4>2, <4>3
    <3>7. CASE ~(row < T - 1)
      <4>1. row = T - 1
        BY <1>2, <3>7
      <4> QED
        BY <1>2, <3>2, <3>3, <3>4, <3>5, <4>1
    <3> QED
      BY <3>6, <3>7
  <2> QED
    BY <2>1, <2>2
<1> HIDE DEF n, q, N, T, W
<1>4. Base(row) = row * q * W /\ Base(row + 1) = (row + 1) * q * W
  BY DEF Base, q, W
<1>5. row * q \in Nat
  BY <1>3
<1>6. row * q * W \in Nat /\ n * W \in Nat \ {0} /\ N * W \in Nat \ {0}
  <2> DEFINE a == row * q
  <2> HIDE DEF a
  <2>1. a * W \in Nat
    BY <1>1, <1>5 DEF a
  <2>2. n * W \in Nat /\ N * W \in Nat /\ n * W # 0 /\ N * W # 0
    BY <1>1, <1>3
  <2> QED
    BY <2>1, <2>2 DEF a
<1>7. row * q * W + n * W <= N * W
  <2> DEFINE a == row * q
  <2>1. a \in Nat /\ a + n <= N
    BY <1>3, <1>5
  <2> HIDE DEF a
  <2>2. a * W + n * W = (a + n) * W /\ a + n \in Int /\ N \in Int
    BY <1>1, <1>3, <2>1
  <2>3. (a + n) * W <= N * W
    BY <1>1, <2>1, <2>2, MonotoneProduct
  <2> QED
    BY <2>2, <2>3 DEF a
<1>8. row + 1 < T => (row + 1) * q * W = row * q * W + n * W
  <2> SUFFICES ASSUME n = q PROVE (row + 1) * q * W = row * q * W + n * W
    BY <1>3
  <2> DEFINE a == row * q
  <2>1. (row + 1) * q = a + q /\ a \in Nat
    BY <1>3
  <2> HIDE DEF a
  <2>2. (a + q) * W = a * W + q * W
    BY <1>1, <1>3, <2>1
  <2> QED
    BY <2>1, <2>2 DEF a
<1> QED
  BY <1>1, <1>4, <1>6, <1>7, <1>8 DEF MCUs_of, n, N, T, W

\* Where a block row of an iMCU row is in the scan.
LEMMA BlockPlace ==
    ASSUME Layout, NEW c \in Component, NEW row \in Nat, row < total_iMCU_rows,
           NEW m \in Column, NEW block \in Nat, block < v_samp_factor[c],
           row < total_iMCU_rows - 1 \/ block < last_row_height(c)
    PROVE  /\ PositionOf(c, block, m) \in Nat
           /\ PositionOf(c, block, m) < RowsIn(row) * MCUsPerRow
           /\ PositionOf(c, row * v_samp_factor[c] + block, m)
                 = Base(row) + PositionOf(c, block, m)
           /\ (row * v_samp_factor[c] + block) % MCU_height(c) = block % MCU_height(c)
<1> DEFINE W == MCUsPerRow
           v == v_samp_factor[c]
           q == MCURows
           g == MCU_height(c)
           u == block \div g
           n == RowsIn(row)
<1>1. /\ v \in 1..4 /\ q \in Nat \ {0} /\ g \in Nat \ {0} /\ v = q * g
  BY HeightsOf DEF Component_heights
<1>2. W \in Nat \ {0} /\ m \in Nat /\ m < W
  BY ScanAssumption DEF Column
<1>3. u \in Nat /\ block < v
  <2>1. \A d \in Nat \ {0} : block \div d \in Nat
    OBVIOUS
  <2>2. g \in Nat \ {0}
    BY <1>1
  <2> HIDE DEF g
  <2>3. block \div g \in Nat
    BY <2>1, <2>2
  <2> QED
    BY <2>3
<1>4. u < n /\ n \in Nat
  <2>1. CASE Interleaved
    <3>1. n = 1 /\ g = v
      BY <2>1 DEF RowsIn, MCU_height
    <3>2. block = 0 * v + block /\ block \in 0..(v - 1) /\ v \in Nat \ {0} /\ 0 \in Int
      BY <1>1
    <3> HIDE DEF v
    <3>3. (0 * v + block) \div v = 0
      BY <3>2, DividesUniquely
    <3> QED
      BY <3>1, <3>2, <3>3
  <2>2. CASE ~Interleaved
    <3>1. g = 1 /\ c = 1
      BY <2>2 DEF MCU_height, Interleaved, Component, Layout
    <3>2. u = block
      BY <3>1
    <3>3. n = IF row < total_iMCU_rows - 1 THEN v ELSE last_row_height(c)
      BY <2>2, <3>1 DEF RowsIn
    <3>4. last_row_height(c) \in 1..v /\ total_iMCU_rows \in Nat
      BY RowsOf DEF Rows_of
    <3> HIDE DEF n, v, u, g
    <3> QED
      BY <1>1, <1>3, <3>2, <3>3, <3>4
  <2> QED
    BY <2>1, <2>2
<1>5. row * v = (row * q) * g
  <2> HIDE DEF v, q, g
  <2> QED
    BY <1>1
<1>6. ((row * q) * g + block) \div g = row * q + u /\ ((row * q) * g + block) % g = block % g
  <2> DEFINE a == row * q
  <2>1. a \in Int /\ block \in Int
    BY <1>1
  <2> HIDE DEF a, g
  <2>2. (a * g + block) \div g = a + (block \div g) /\ (a * g + block) % g = block % g
    BY <1>1, <2>1, Multiple
  <2> QED
    BY <2>2 DEF a
<1>7. /\ PositionOf(c, block, m) = u * W + m
      /\ PositionOf(c, row * v + block, m) = ((row * v + block) \div g) * W + m
      /\ Base(row) = row * q * W
  BY DEF PositionOf, Base
<1> HIDE DEF W, v, q, g, u, n
<1>8. (row * q + u) * W = row * q * W + u * W /\ row * q * W \in Int /\ u * W \in Nat
  <2> DEFINE a == row * q
  <2>1. a \in Nat
    BY <1>1
  <2> HIDE DEF a
  <2>2. (a + u) * W = a * W + u * W /\ a * W \in Int /\ u * W \in Nat
    BY <1>2, <1>3, <2>1
  <2> QED
    BY <2>2 DEF a
<1>9. u * W + m \in Nat /\ u * W + m < n * W
  <2>1. (u + 1) * W <= n * W
    <3>1. u + 1 \in Int /\ n \in Int /\ u + 1 <= n
      BY <1>3, <1>4
    <3> QED
      BY <1>2, <3>1, MonotoneProduct
  <2>2. (u + 1) * W = u * W + W /\ n * W \in Int
    BY <1>2, <1>3, <1>4
  <2> QED
    BY <1>2, <1>8, <2>1, <2>2
<1>10. PositionOf(c, row * v + block, m) = row * q * W + (u * W + m)
  <2>1. PositionOf(c, row * v + block, m) = (row * q + u) * W + m
    BY <1>5, <1>6, <1>7
  <2> QED
    BY <1>2, <1>8, <2>1
<1>11. (row * v + block) % g = block % g
  BY <1>5, <1>6
<1> QED
  BY <1>7, <1>9, <1>10, <1>11 DEF W, n, v, g

\* What has to be in line n of the image, and in line l of the buffer of an iMCU row.
OfLine(x, n, c, m) ==
    LET y == n \div v_expand(c)
        block == y \div DCT_v_scaled_size(c)
    IN /\ Good(x[1], PositionOf(c, block, m))
       /\ Tail(x) = <<block % MCU_height(c), y % DCT_v_scaled_size(c)>>
OfBuffer(x, row, l, c, m) ==
    LET block == l \div DCT_v_scaled_size(c)
    IN /\ Good(x[1], Base(row) + PositionOf(c, block, m))
       /\ Tail(x) = <<block % MCU_height(c), l % DCT_v_scaled_size(c)>>

RowLines == DCTSize * max_v_samp_factor
BufferLines(c) == rowgroup_height(c) * DCTSize
Inside_image(row, block, c) == row < total_iMCU_rows - 1 \/ block < last_row_height(c)

\* Line k of an iMCU row that is in the image is that of a line of the buffer.
LineAt(row, k, l, c) ==
    /\ l \in 0..(BufferLines(c) - 1)
    /\ l \div DCT_v_scaled_size(c) \in Nat /\ l \div DCT_v_scaled_size(c) < v_samp_factor[c]
    /\ Inside_image(row, l \div DCT_v_scaled_size(c), c)
    /\ (row * RowLines + k) \div v_expand(c)
          = (row * v_samp_factor[c]) * DCT_v_scaled_size(c) + l

\* Upsampling takes a line of the image from a line of the buffer that is in the image.
LEMMA LineInBuffer ==
    ASSUME Layout, NEW c \in Component, NEW row \in Nat, row < total_iMCU_rows,
           NEW k \in Nat, k < RowLines, row * RowLines + k < image_height,
           NEW l, l = k \div v_expand(c)
    PROVE  LineAt(row, k, l, c)
<1> DEFINE v == v_samp_factor[c]
           s == DCT_v_scaled_size(c)
           e == v_expand(c)
           U == RowLines
           h == image_height
           T == total_iMCU_rows
           b == l \div s
           w == row * v
<1>1. /\ v \in Nat \ {0} /\ s \in Nat \ {0} /\ e \in Nat \ {0}
      /\ U = (v * s) * e /\ BufferLines(c) = v * s
      /\ U = max_v_samp_factor * DCTSize
  <2> DEFINE g == rowgroup_height(c)
             D == DCTSize
             M == max_v_samp_factor
  <2>1. /\ v \in 1..4 /\ M \in 1..4 /\ s \in Nat \ {0} /\ g \in Nat \ {0} /\ e \in Nat \ {0}
        /\ g * D = v * s /\ e * g = M
    BY HeightsOf DEF Component_heights
  <2>2. D \in Nat \ {0}
    BY ScanAssumption
  <2>3. U = D * M /\ BufferLines(c) = g * D
    BY DEF RowLines, BufferLines
  <2> HIDE DEF v, s, e, U, g, D, M
  <2>4. D * M = (v * s) * e /\ D * M = M * D
    <3>1. D * M = D * (e * g) /\ D * (e * g) = (g * D) * e
      BY <2>1, <2>2
    <3>2. D * M = M * D
      BY <2>1, <2>2
    <3> QED
      BY <2>1, <3>1, <3>2
  <2> QED
    BY <2>1, <2>3, <2>4 DEF D, M
<1>2. /\ T \in Nat /\ h \in Nat /\ height_in_blocks(c) = (T - 1) * v + last_row_height(c)
      /\ last_row_height(c) \in Nat
      /\ \A x \in Int : x < height_in_blocks(c) <=> x * U < h * v
  <2>1. Rows_of(c)
    BY RowsOf
  <2>2. h \in Nat /\ v \in Nat
    BY <1>1 DEF Layout
  <2>3. last_row_height(c) \in Nat
    BY <2>1, <2>2 DEF Rows_of
  <2> QED
    BY <1>1, <2>1, <2>2, <2>3 DEF Rows_of
<1>3. row < T /\ k < U /\ row * U + k < h
  OBVIOUS
<1> HIDE DEF v, s, e, U, h, T
<1>4. l \in Nat /\ l * e <= k /\ k < l * e + e
  <2>0. \A d \in Nat \ {0} : /\ k \div d \in Nat /\ k % d \in 0..(d - 1)
                             /\ k = (k \div d) * d + (k % d)
    OBVIOUS
  <2>1. k \div e \in Nat /\ k % e \in 0..(e - 1) /\ k = (k \div e) * e + (k % e)
    BY <1>1, <2>0
  <2>2. l = k \div e
    BY DEF e
  <2>3. l \in Nat /\ k = l * e + (k % e)
    BY <2>1, <2>2
  <2>4. l * e \in Nat
    BY <1>1, <2>3
  <2> QED
    BY <1>1, <2>1, <2>3, <2>4
<1>5. l < v * s /\ v * s \in Nat
  <2>1. v * s \in Nat
    BY <1>1
  <2>2. l * e \in Int /\ (v * s) * e \in Int
    BY <1>1, <1>4, <2>1
  <2>3. l * e < (v * s) * e
    BY <1>1, <1>3, <1>4, <2>2
  <2> QED
    BY <1>1, <1>4, <2>1, <2>3, MonotoneProduct
<1>6. b \in Nat /\ b * s <= l /\ b * s \in Nat
  <2>0. \A d \in Nat \ {0} : /\ l \div d \in Nat /\ l % d \in 0..(d - 1)
                             /\ l = (l \div d) * d + (l % d)
    BY <1>4
  <2>1. b \in Nat /\ l % s \in 0..(s - 1) /\ l = b * s + (l % s)
    BY <1>1, <2>0
  <2> HIDE DEF b
  <2>2. b * s \in Nat
    BY <1>1, <1>4, <2>1
  <2> QED
    BY <1>1, <1>4, <2>1, <2>2
<1> HIDE DEF b
<1>7. b < v
  <2>1. b * s < v * s
    BY <1>4, <1>5, <1>6
  <2> QED
    BY <1>1, <1>6, <2>1, MonotoneProduct
<1>8. w \in Nat /\ row * U = (w * s) * e /\ w * s \in Nat
  <2>1. w \in Nat
    BY <1>1
  <2>2. row * U = (w * s) * e
    BY <1>1
  <2> HIDE DEF w
  <2>3. w * s \in Nat
    BY <1>1, <2>1
  <2> QED
    BY <2>1, <2>2, <2>3
<1>9. (row * U + k) \div e = w * s + l
  <2> DEFINE z == w * s
  <2>1. z \in Int /\ k \in Int /\ row * U = z * e
    BY <1>8
  <2> HIDE DEF z, w
  <2>2. (z * e + k) \div e = z + (k \div e)
    BY <1>1, <2>1, Multiple
  <2>3. l = k \div e
    BY DEF e
  <2> QED
    BY <2>1, <2>2, <2>3 DEF z
<1>10. row < T - 1 \/ b < last_row_height(c)
  <2> SUFFICES ASSUME ~(row < T - 1) PROVE b < last_row_height(c)
    OBVIOUS
  <2>1. row = T - 1
    BY <1>2, <1>3
  <2> DEFINE a == w + b
  <2>2. a \in Nat /\ a * s = w * s + b * s
    <3> HIDE DEF w
    <3> QED
      BY <1>1, <1>6, <1>8
  <2> HIDE DEF a
  <2>3. (a * s) * e <= row * U + k
    <3> DEFINE x == w * s
               y == b * s
    <3>1. x \in Nat /\ y \in Nat /\ y <= l /\ a * s = x + y /\ row * U = x * e
      BY <1>6, <1>8, <2>2
    <3> HIDE DEF x, y
    <3>2. (x + y) * e = x * e + y * e /\ x * e \in Int /\ y * e \in Int /\ l * e \in Int
      BY <1>1, <1>4, <3>1
    <3>3. y * e <= l * e
      BY <1>1, <1>4, <3>1, MonotoneProduct
    <3> QED
      BY <1>4, <3>1, <3>2, <3>3
  <2>4. a * U < h * v
    <3> DEFINE x == (a * s) * e
    <3>1. x \in Nat
      <4> DEFINE y == a * s
      <4>1. y \in Nat
        BY <1>1, <2>2
      <4> HIDE DEF y
      <4>2. y * e \in Nat
        BY <1>1, <4>1
      <4> QED
        BY <4>2 DEF y
    <3>2. a * U = x * v
      BY <1>1, <2>2
    <3> HIDE DEF x
    <3>3. row * U \in Nat
      BY <1>3, <1>1
    <3>4. x < h
      BY <1>2, <1>3, <2>3, <3>1, <3>3 DEF x
    <3>5. x * v < h * v
      BY <1>1, <1>2, <3>1, <3>4, MonotoneProduct
    <3> QED
      BY <3>2, <3>5
  <2>5. a < height_in_blocks(c)
    BY <1>2, <2>2, <2>4
  <2>6. (T - 1) * v = w
    BY <2>1
  <2> HIDE DEF w
  <2> QED
    BY <1>2, <1>6, <1>8, <2>5, <2>6 DEF a
<1>11. l \in 0..(v * s - 1)
  BY <1>4, <1>5
<1> QED
  BY <1>1, <1>6, <1>7, <1>9, <1>10, <1>11 DEF LineAt, Inside_image, v, s, e, U, T, b

\* A line of the buffer that is right is right in the image.
LEMMA LineFromBuffer ==
    ASSUME Layout, NEW c \in Component, NEW m \in Column,
           NEW row \in Nat, row < total_iMCU_rows,
           NEW k, NEW l, LineAt(row, k, l, c), NEW x, OfBuffer(x, row, l, c, m)
    PROVE  OfLine(x, row * RowLines + k, c, m)
<1> DEFINE v == v_samp_factor[c]
           s == DCT_v_scaled_size(c)
           w == row * v
           b == l \div s
           n == row * RowLines + k
<1>1. v \in 1..4 /\ s \in Nat \ {0}
  BY HeightsOf DEF Component_heights
<1>2. /\ l \in 0..(BufferLines(c) - 1) /\ b \in Nat /\ b < v
      /\ row < total_iMCU_rows - 1 \/ b < last_row_height(c)
      /\ n \div v_expand(c) = w * s + l
  BY DEF LineAt, Inside_image
<1>3. /\ PositionOf(c, w + b, m) = Base(row) + PositionOf(c, b, m)
      /\ (w + b) % MCU_height(c) = b % MCU_height(c)
  <2>1. b \in Nat /\ b < v_samp_factor[c]
    BY <1>2
  <2> HIDE DEF b
  <2>2. row < total_iMCU_rows - 1 \/ b < last_row_height(c)
    BY <1>2
  <2> QED
    BY <2>1, <2>2, BlockPlace
<1>4. w \in Int /\ l \in Int
  <2>1. l \in Int
    BY <1>2
  <2> HIDE DEF v
  <2> QED
    BY <1>1, <2>1
<1> HIDE DEF v, s, w, n
<1>5. (w * s + l) \div s = w + (l \div s) /\ (w * s + l) % s = l % s
  BY <1>1, <1>4, Multiple
<1>6. Good(x[1], Base(row) + PositionOf(c, b, m)) /\ Tail(x) = <<b % MCU_height(c), l % s>>
  BY DEF OfBuffer, s
<1>7. Good(x[1], PositionOf(c, w + b, m)) /\ Tail(x) = <<(w + b) % MCU_height(c), (w * s + l) % s>>
  BY <1>3, <1>5, <1>6
<1>8. OfLine(x, n, c, m) <=>
         /\ Good(x[1], PositionOf(c, (w * s + l) \div s, m))
         /\ Tail(x) = <<((w * s + l) \div s) % MCU_height(c), (w * s + l) % s>>
  BY <1>2 DEF OfLine, s
<1> HIDE DEF b
<1>9. (w * s + l) \div s = w + b
  BY <1>5 DEF b
<1> QED
  BY <1>7, <1>8, <1>9 DEF n

-----------------------------------------------------------------------------
(***************************************************************************)
(* The image stays as it is: what depends on nothing else stays, too.      *)
(***************************************************************************)
Highest ==
    /\ max_v_samp_factor \in 1..4
    /\ \E c \in Component : v_samp_factor[c] = max_v_samp_factor
    /\ \A c \in Component : v_samp_factor[c] <= max_v_samp_factor

\* HighestComponent as a formula, for the next state.
LEMMA HighestAlways == Layout => Highest
BY HighestComponent DEF Highest

\* The numbers of the layout stay.
LEMMA SameLayout ==
    ASSUME Layout, UNCHANGED imageVars
    PROVE  /\ Layout' /\ Component' = Component
           /\ max_v_samp_factor' = max_v_samp_factor
           /\ total_iMCU_rows' = total_iMCU_rows
           /\ MCURows' = MCURows /\ MCUCount' = MCUCount /\ RowLines' = RowLines
           /\ \A c : /\ DCT_v_scaled_size(c)' = DCT_v_scaled_size(c)
                     /\ rowgroup_height(c)' = rowgroup_height(c)
                     /\ v_expand(c)' = v_expand(c) /\ MCU_height(c)' = MCU_height(c)
                     /\ last_row_height(c)' = last_row_height(c)
                     /\ BufferLines(c)' = BufferLines(c)
           /\ \A c, b, m : PositionOf(c, b, m)' = PositionOf(c, b, m)
           /\ \A r : Base(r)' = Base(r) /\ RowsIn(r)' = RowsIn(r)
           /\ \A r, b, c : Inside_image(r, b, c)' <=> Inside_image(r, b, c)
<1>1. /\ v_samp_factor' = v_samp_factor /\ image_height' = image_height
      /\ damaged' = damaged /\ data' = data /\ restart_interval' = restart_interval
  BY DEF imageVars
<1>2. Layout'
  BY <1>1 DEF Layout, Integral
<1>3. Component' = Component
  BY <1>1 DEF Component
<1>4. max_v_samp_factor' = max_v_samp_factor
  <2>1. /\ max_v_samp_factor \in 1..4
        /\ \E c \in Component : v_samp_factor[c] = max_v_samp_factor
        /\ \A c \in Component : v_samp_factor[c] <= max_v_samp_factor
    BY HighestComponent
  <2>2. /\ max_v_samp_factor' \in 1..4
        /\ \E c \in Component' : v_samp_factor'[c] = max_v_samp_factor'
        /\ \A c \in Component' : v_samp_factor'[c] <= max_v_samp_factor'
    <3>1. Layout' => Highest'
      BY HighestAlways, PTL
    <3> QED
      BY <1>2, <3>1 DEF Highest
  <2> QED
    BY <1>1, <1>3, <2>1, <2>2
<1>5. /\ Interleaved' <=> Interleaved
      /\ total_iMCU_rows' = total_iMCU_rows
  BY <1>1, <1>4 DEF Interleaved, total_iMCU_rows
<1>6. MCURows' = MCURows /\ RowLines' = RowLines
  BY <1>1, <1>4, <1>5 DEF MCURows, RowLines
<1>7. \A c : /\ DCT_v_scaled_size(c)' = DCT_v_scaled_size(c)
             /\ MCU_height(c)' = MCU_height(c)
             /\ height_in_blocks(c)' = height_in_blocks(c)
  BY <1>1, <1>4, <1>5 DEF DCT_v_scaled_size, MCU_height, height_in_blocks
<1>8. \A c : /\ rowgroup_height(c)' = rowgroup_height(c)
             /\ last_row_height(c)' = last_row_height(c)
  BY <1>1, <1>7 DEF rowgroup_height, last_row_height
<1>9. \A c : v_expand(c)' = v_expand(c) /\ BufferLines(c)' = BufferLines(c)
  BY <1>4, <1>8 DEF v_expand, BufferLines
<1>10. MCUCount' = MCUCount
  BY <1>5, <1>7 DEF MCUCount, MCU_rows_in_scan
<1>11. \A c, b, m : PositionOf(c, b, m)' = PositionOf(c, b, m)
  BY <1>7 DEF PositionOf
<1>12. \A r : Base(r)' = Base(r) /\ RowsIn(r)' = RowsIn(r)
  BY <1>1, <1>5, <1>6, <1>8 DEF Base, RowsIn
<1>13. \A r, b, c : Inside_image(r, b, c)' <=> Inside_image(r, b, c)
  BY <1>5, <1>8 DEF Inside_image
<1> QED
  BY <1>2, <1>3, <1>4, <1>5, <1>6, <1>7, <1>8, <1>9, <1>10, <1>11, <1>12, <1>13

\* The way of the decoder stays.
LEMMA SameStream ==
    ASSUME Layout, UNCHANGED imageVars
    PROVE  /\ Scanning' <=> Scanning
           /\ \A e : Reading(e)' <=> Reading(e)
           /\ \A k, e : Coming(k, e)' <=> Coming(k, e)
           /\ \A x, k : Good(x, k)' <=> Good(x, k)
<1>1. /\ damaged' = damaged /\ data' = data /\ restart_interval' = restart_interval
  BY DEF imageVars
<1>2. MCUCount' = MCUCount
  BY SameLayout
<1>3. Encoded' = Encoded /\ Unit' = Unit
  BY <1>1, <1>2 DEF Encoded, Unit
<1>4. \A J : Spoilt(J)' <=> Spoilt(J)
  BY <1>1, <1>2 DEF Spoilt
<1>5. \A F, Y, A, Z, S : Tear(F, Y, A, Z, S)' <=> Tear(F, Y, A, Z, S)
  <2> SUFFICES ASSUME NEW F, NEW Y, NEW A, NEW Z, NEW S
               PROVE  Tear(F, Y, A, Z, S)' <=> Tear(F, Y, A, Z, S)
    OBVIOUS
  <2>1. (\A J \in F..Y : Spoilt(J)') <=> (\A J \in F..Y : Spoilt(J))
    BY <1>4
  <2>2. Stray(F)' = Stray(F)
    BY DEF Stray
  <2> QED
    BY <1>1, <1>3, <2>1, <2>2 DEF Tear
<1>6. \A F, A : Astray(F, A)' <=> Astray(F, A)
  BY <1>1, <1>3, <1>4 DEF Astray
<1>7. \A J, r, e, S : InStep(J, r, e, S)' <=> InStep(J, r, e, S)
  BY <1>1, <1>3 DEF InStep
<1>8. \A F, A, Z, e : Lost(F, A, Z, e)' <=> Lost(F, A, Z, e)
  BY DEF Lost
<1>9. \A Z, J, e : Holding(Z, J, e)' <=> Holding(Z, J, e)
  BY <1>1 DEF Holding
<1>10. \A F, Y, A, Z, S, J, r, e : OnTheWay(F, Y, A, Z, S, J, r, e)'
                                   <=> OnTheWay(F, Y, A, Z, S, J, r, e)
  BY <1>7, <1>8, <1>9 DEF OnTheWay
<1>11. \A J, r, e : Phase(J, r, e)' <=> Phase(J, r, e)
  BY <1>1, <1>3, <1>5, <1>6, <1>7, <1>10 DEF Phase
<1>12. \A e : Reading(e)' <=> Reading(e)
  BY <1>1 DEF Reading, Decoders, MCUValues
<1>13. \A k, e : Unmarked(k, e)' <=> Unmarked(k, e)
  BY <1>1, <1>2, <1>3 DEF Unmarked
<1>14. \A k, e : InInterval(k, e)' <=> InInterval(k, e)
  BY <1>1, <1>11 DEF InInterval
<1>15. \A k, e : Coming(k, e)' <=> Coming(k, e)
  BY <1>1, <1>12, <1>13, <1>14 DEF Coming
<1>16. Scanning' <=> Scanning
  BY <1>1, <1>2, <1>3 DEF Scanning, DataEnds
<1>17. \A x, k : Good(x, k)' <=> Good(x, k)
  BY <1>1 DEF Good
<1> QED
  BY <1>12, <1>15, <1>16, <1>17

-----------------------------------------------------------------------------
(***************************************************************************)
(* decompress_onepass: the buffer has the MCUs of the iMCU row that were   *)
(* decoded.                                                                *)
(***************************************************************************)
\* The lines of the MCUs up to one of the iMCU row.
RightTo(buf, row, upto) ==
    \A c \in Component : \A l \in 0..(BufferLines(c) - 1), m \in Column :
        LET block == l \div DCT_v_scaled_size(c)
        IN PositionOf(c, block, m) < upto /\ Inside_image(row, block, c)
              => OfBuffer(buf[c][l][m], row, l, c, m)
Shaped(buf) == \A c \in Component : DOMAIN buf[c] = 0..(BufferLines(c) - 1)

\* What has to be in the buffer and in the lines stays.
LEMMA SameBuffer ==
    ASSUME Layout, UNCHANGED imageVars
    PROVE  /\ \A x, n, c, m : OfLine(x, n, c, m)' <=> OfLine(x, n, c, m)
           /\ \A b, row, upto : RightTo(b, row, upto)' <=> RightTo(b, row, upto)
           /\ \A b : Shaped(b)' <=> Shaped(b)
<1>1. /\ Component' = Component
      /\ \A c : /\ DCT_v_scaled_size(c)' = DCT_v_scaled_size(c)
                /\ v_expand(c)' = v_expand(c) /\ MCU_height(c)' = MCU_height(c)
                /\ BufferLines(c)' = BufferLines(c)
      /\ \A c, b, m : PositionOf(c, b, m)' = PositionOf(c, b, m)
      /\ \A r : Base(r)' = Base(r)
      /\ \A r, b, c : Inside_image(r, b, c)' <=> Inside_image(r, b, c)
  BY SameLayout
<1>2. \A x, k : Good(x, k)' <=> Good(x, k)
  BY SameStream
<1>3. \A x, n, c, m : OfLine(x, n, c, m)' <=> OfLine(x, n, c, m)
  BY <1>1, <1>2 DEF OfLine
<1>4. \A x, row, l, c, m : OfBuffer(x, row, l, c, m)' <=> OfBuffer(x, row, l, c, m)
  BY <1>1, <1>2 DEF OfBuffer
<1>5. \A b, row, upto : RightTo(b, row, upto)' <=> RightTo(b, row, upto)
  BY <1>1, <1>4 DEF RightTo
<1>6. \A b : Shaped(b)' <=> Shaped(b)
  BY <1>1 DEF Shaped
<1> QED
  BY <1>3, <1>5, <1>6

\* A line of the buffer is in a block row of the iMCU row.
LEMMA BlockOfLine ==
    ASSUME Layout, NEW c \in Component, NEW l \in 0..(BufferLines(c) - 1)
    PROVE  /\ l \div DCT_v_scaled_size(c) \in Nat
           /\ l \div DCT_v_scaled_size(c) < v_samp_factor[c]
<1> DEFINE s == DCT_v_scaled_size(c)
           v == v_samp_factor[c]
           b == l \div s
<1>1. s \in Nat \ {0} /\ v \in 1..4 /\ BufferLines(c) = v * s
  BY HeightsOf DEF Component_heights, BufferLines
<1>2. v * s \in Nat
  <2> HIDE DEF v, s
  <2> QED
    BY <1>1
<1>3. l \in Nat /\ l < v * s
  BY <1>1, <1>2
<1> HIDE DEF s, v
<1>4. b \in Nat /\ l = b * s + (l % s) /\ l % s \in 0..(s - 1)
  <2>1. \A d \in Nat \ {0} : /\ l \div d \in Nat /\ l % d \in 0..(d - 1)
                             /\ l = (l \div d) * d + (l % d)
    BY <1>3
  <2> QED
    BY <1>1, <2>1
<1> HIDE DEF b
<1>5. b * s < v * s
  <2>1. b * s \in Nat
    BY <1>1, <1>4
  <2> QED
    BY <1>1, <1>2, <1>3, <1>4, <2>1
<1>6. b < v
  BY <1>1, <1>4, <1>5, MonotoneProduct
<1> QED
  BY <1>4, <1>6 DEF b, s, v

\* The MCUs that were decoded are in the buffer.
LEMMA FilledRight ==
    ASSUME Layout, Shaped(buffer), input_iMCU_row \in Nat, input_iMCU_row < total_iMCU_rows,
           Position \in Nat, RightTo(buffer, input_iMCU_row, Position),
           NEW S, NEW mcus \in Seq(S),
           \A j \in 1..Len(mcus) : Good(mcus[j], Base(input_iMCU_row) + Position + j - 1)
    PROVE  /\ Shaped(Filled(mcus))
           /\ RightTo(Filled(mcus), input_iMCU_row, Position + Len(mcus))
<1> DEFINE F == Filled(mcus)
           row == input_iMCU_row
<1>1. Shaped(F)
  BY DEF Shaped, Filled
<1>2. ASSUME NEW c \in Component, NEW l \in 0..(BufferLines(c) - 1), NEW m \in Column,
             PositionOf(c, l \div DCT_v_scaled_size(c), m) < Position + Len(mcus),
             Inside_image(row, l \div DCT_v_scaled_size(c), c)
      PROVE  OfBuffer(F[c][l][m], row, l, c, m)
  <2> DEFINE s == DCT_v_scaled_size(c)
             block == l \div s
             p == PositionOf(c, block, m)
             n == p - Position + 1
             x == F[c][l][m]
  <2>1. block \in Nat /\ block < v_samp_factor[c]
    BY BlockOfLine
  <2>2. row < total_iMCU_rows - 1 \/ block < last_row_height(c)
    BY <1>2 DEF Inside_image
  <2>3. p \in Nat
    <3> HIDE DEF block
    <3> QED
      BY <2>1, <2>2, BlockPlace
  <2>4. x = IF n \in DOMAIN mcus THEN <<mcus[n], block % MCU_height(c), l % s>>
            ELSE buffer[c][l][m]
    <3>1. l \in DOMAIN buffer[c]
      BY DEF Shaped
    <3> QED
      BY <2>2, <3>1 DEF Filled
  <2>5. DOMAIN mcus = 1..Len(mcus) /\ Len(mcus) \in Nat
    OBVIOUS
  <2>6. p < Position + Len(mcus)
    BY <1>2
  <2> HIDE DEF p, x
  <2>7. CASE p < Position
    <3>1. n \notin DOMAIN mcus
      BY <2>3, <2>5, <2>7
    <3>2. OfBuffer(buffer[c][l][m], row, l, c, m)
      BY <1>2, <2>7 DEF RightTo, p
    <3> QED
      BY <2>4, <3>1, <3>2 DEF x
  <2>8. CASE ~(p < Position)
    <3>1. n \in 1..Len(mcus) /\ Base(row) + Position + n - 1 = Base(row) + p
      <4>1. Base(row) \in Nat
        BY MCUsOf DEF MCUs_of
      <4> QED
        BY <2>3, <2>5, <2>6, <2>8, <4>1
    <3> HIDE DEF n
    <3>2. Good(mcus[n], Base(row) + p)
      BY <3>1
    <3>3. x = <<mcus[n], block % MCU_height(c), l % s>>
      BY <2>4, <2>5, <3>1
    <3>4. x[1] = mcus[n] /\ Tail(x) = <<block % MCU_height(c), l % s>>
      <4> DEFINE a == block % MCU_height(c)
                 b == l % s
      <4> HIDE DEF a, b
      <4>1. \A y, z, w : <<y, z, w>>[1] = y /\ Tail(<<y, z, w>>) = <<z, w>>
        OBVIOUS
      <4>2. x = <<mcus[n], a, b>>
        BY <3>3 DEF a, b
      <4> QED
        BY <4>1, <4>2 DEF a, b
    <3> QED
      BY <3>2, <3>4 DEF OfBuffer, p, x
  <2> QED
    BY <2>7, <2>8
<1> HIDE DEF F
<1>3. RightTo(F, row, Position + Len(mcus))
  BY <1>2 DEF RightTo
<1> QED
  BY <1>1, <1>3 DEF F

-----------------------------------------------------------------------------
(***************************************************************************)
(* sep_upsample: the lines that go out are those of the buffer.            *)
(***************************************************************************)

\* A row group of a component, in the conversion buffer or where it is.
GroupIn(buf, c, group) ==
    IF Fullsize(c) THEN <<group * rowgroup_height(c)>>
    ELSE [i \in 1..max_v_samp_factor |->
            buf[c][group * rowgroup_height(c) + (i - 1) \div v_expand(c)]]
\* Row i of it.
RowOfGroup(buf, group, c, i) ==
    IF Fullsize(c) THEN buf[c][group[1] + i] ELSE group[i + 1]

LineOfGroup(c, g, i) == (g * max_v_samp_factor + i) \div v_expand(c)

\* A row of the conversion buffer is a line of the main buffer, copied or not.
LEMMA GroupLines ==
    ASSUME Layout, NEW c \in Component, NEW g \in Nat, NEW i \in 0..(max_v_samp_factor - 1),
           NEW buf
    PROVE  RowOfGroup(buf, GroupIn(buf, c, g), c, i) = buf[c][LineOfGroup(c, g, i)]
<1> DEFINE M == max_v_samp_factor
           e == v_expand(c)
           h == rowgroup_height(c)
<1>1. M \in 1..4 /\ e \in Nat \ {0} /\ h \in Nat \ {0} /\ e * h = M
  BY HeightsOf DEF Component_heights
<1>2. LineOfGroup(c, g, i) = g * h + (i \div e)
  <2> DEFINE z == g * h
  <2>1. LineOfGroup(c, g, i) = (g * M + i) \div e
    BY DEF LineOfGroup
  <2>2. i \in Int
    OBVIOUS
  <2> HIDE DEF M, e, h
  <2>3. z \in Int /\ g * M = z * e
    BY <1>1
  <2> HIDE DEF z
  <2>4. (z * e + i) \div e = z + (i \div e)
    BY <1>1, <2>2, <2>3, Multiple
  <2> QED
    BY <2>1, <2>3, <2>4 DEF z
<1>3. CASE Fullsize(c)
  <2>1. h = M
    BY <1>3 DEF Fullsize
  <2>2. e = 1
    <3> HIDE DEF M, e, h
    <3>1. e * M = 1 * M /\ M \in Nat \ {0} /\ e \in Int /\ 1 \in Int
      BY <1>1, <2>1
    <3> QED
      BY <3>1, MonotoneProduct
  <2>3. i \div 1 = i
    OBVIOUS
  <2>4. GroupIn(buf, c, g) = <<g * h>>
    BY <1>3 DEF GroupIn
  <2>5. RowOfGroup(buf, GroupIn(buf, c, g), c, i) = buf[c][g * h + i]
    BY <1>3, <2>4 DEF RowOfGroup
  <2> HIDE DEF h, M, e
  <2> QED
    BY <1>2, <2>2, <2>3, <2>5
<1>4. CASE ~Fullsize(c)
  <2>1. i + 1 \in 1..M /\ (i + 1) - 1 = i
    BY <1>1
  <2>2. GroupIn(buf, c, g)[i + 1] = buf[c][g * h + ((i + 1) - 1) \div e]
    BY <1>4, <2>1 DEF GroupIn
  <2>3. RowOfGroup(buf, GroupIn(buf, c, g), c, i) = GroupIn(buf, c, g)[i + 1]
    BY <1>4 DEF RowOfGroup
  <2> HIDE DEF h, M, e
  <2> QED
    BY <1>2, <2>1, <2>2, <2>3
<1> QED
  BY <1>3, <1>4

\* All MCUs of an iMCU row.
RowRight(buf, row) == RightTo(buf, row, RowsIn(row) * MCUsPerRow)

\* A line of a row group goes out in its place.
LEMMA LineEmitted ==
    ASSUME Layout, NEW c \in Component, NEW m \in Column,
           NEW row \in Nat, row < total_iMCU_rows, NEW buf, RowRight(buf, row),
           NEW g \in 0..(DCTSize - 1), NEW i \in 0..(max_v_samp_factor - 1),
           NEW n, n = row * RowLines + g * max_v_samp_factor + i, n < image_height
    PROVE  OfLine(RowOfGroup(buf, GroupIn(buf, c, g), c, i)[m], n, c, m)
<1> DEFINE M == max_v_samp_factor
           k == g * M + i
           l == LineOfGroup(c, g, i)
           x == buf[c][l][m]
           s == DCT_v_scaled_size(c)
<1>1. M \in 1..4 /\ DCTSize \in Nat \ {0}
  BY ScanAssumption, HighestComponent
<1>2. k \in Nat /\ k < RowLines /\ RowLines \in Nat
  <2>1. RowLines = DCTSize * M
    BY DEF RowLines
  <2>2. g \in Int /\ g + 1 \in Int /\ g + 1 <= DCTSize /\ i \in Nat /\ i < M /\ g \in Nat
    BY <1>1
  <2> HIDE DEF M
  <2>3. (g + 1) * M <= DCTSize * M
    BY <1>1, <2>2, MonotoneProduct
  <2>4. (g + 1) * M = g * M + M /\ g * M \in Nat /\ DCTSize * M \in Nat
    BY <1>1, <2>2
  <2> QED
    BY <1>1, <2>1, <2>2, <2>3, <2>4
<1>3. n = row * RowLines + k
  <2> DEFINE a == row * RowLines
             b == g * M
  <2>1. a \in Nat
    BY <1>2
  <2>2. b \in Nat /\ i \in Nat
    <3>1. g \in Nat /\ i \in Nat /\ M \in Nat
      BY <1>1
    <3> HIDE DEF M
    <3> QED
      BY <3>1
  <2>3. n = a + b + i
    OBVIOUS
  <2> HIDE DEF a, b
  <2> QED
    BY <2>1, <2>2, <2>3 DEF a, b
<1>4. l = k \div v_expand(c)
  BY DEF LineOfGroup
<1> HIDE DEF k, l
<1>5. LineAt(row, k, l, c)
  <2>1. row * RowLines + k < image_height
    BY <1>3
  <2> QED
    BY <1>2, <1>4, <2>1, LineInBuffer
<1>6. OfBuffer(x, row, l, c, m)
  <2>1. /\ l \in 0..(BufferLines(c) - 1) /\ l \div s \in Nat /\ l \div s < v_samp_factor[c]
        /\ Inside_image(row, l \div s, c)
    BY <1>5 DEF LineAt
  <2> DEFINE b == l \div s
  <2>2. b \in Nat /\ b < v_samp_factor[c] /\ (row < total_iMCU_rows - 1 \/ b < last_row_height(c))
    BY <2>1 DEF Inside_image
  <2> HIDE DEF b
  <2>3. PositionOf(c, b, m) < RowsIn(row) * MCUsPerRow
    BY <2>2, BlockPlace
  <2> QED
    BY <2>1, <2>3 DEF RowRight, RightTo, b
<1>7. OfLine(x, row * RowLines + k, c, m)
  BY <1>5, <1>6, LineFromBuffer
<1>8. RowOfGroup(buf, GroupIn(buf, c, g), c, i) = buf[c][l]
  BY GroupLines DEF l
<1> QED
  BY <1>3, <1>7, <1>8

LinesRight(ls) ==
    /\ \E S : ls \in Seq(S)
    /\ Len(ls) <= image_height
    /\ \A n \in 1..Len(ls), c \in Component, m \in Column : OfLine(ls[n][c][m], n - 1, c, m)
Groups(buf, g) == [c \in Component |-> GroupIn(buf, c, g)]
FirstRow(next) == IF next >= max_v_samp_factor THEN 0 ELSE next
AtLine(row, g, first, n) ==
    /\ row \in Nat /\ row < total_iMCU_rows /\ g \in 0..(DCTSize - 1)
    /\ first \in 0..(max_v_samp_factor - 1)
    /\ n = row * RowLines + g * max_v_samp_factor + first

\* Line by line to the next row group, and to the next iMCU row.
LEMMA LinesGoOn ==
    ASSUME Layout, NEW row, NEW g, NEW first, NEW n, AtLine(row, g, first, n),
           NEW k \in Nat, first + k <= max_v_samp_factor
    PROVE  /\ n \in Nat
           /\ first + k < max_v_samp_factor => AtLine(row, g, first + k, n + k)
           /\ first + k = max_v_samp_factor =>
                 /\ g + 1 < DCTSize => AtLine(row, g + 1, 0, n + k)
                 /\ g + 1 = DCTSize =>
                       /\ n + k = (row + 1) * RowLines
                       /\ n + k < image_height => row + 1 < total_iMCU_rows
<1> DEFINE M == max_v_samp_factor
           D == DCTSize
           R == RowLines
           T == total_iMCU_rows
<1>1. /\ M \in Nat \ {0} /\ D \in Nat \ {0} /\ R = D * M /\ R = M * D /\ T \in Nat
      /\ \A x \in Int : x < T <=> x * (M * D) < image_height
  <2>1. 1 \in Component
    BY DEF Layout, Component
  <2>2. T \in Nat /\ \A x \in Int : x < T <=> x * (M * D) < image_height
    BY <2>1, RowsOf DEF Rows_of
  <2>3. M \in Nat \ {0} /\ D \in Nat \ {0}
    BY ScanAssumption, HighestComponent
  <2>4. R = D * M
    BY DEF RowLines
  <2> HIDE DEF M, D, R, T
  <2>5. D * M = M * D
    BY <2>3
  <2> QED
    BY <2>2, <2>3, <2>4, <2>5
<1>2. /\ row \in Nat /\ row < T /\ g \in 0..(D - 1) /\ first \in 0..(M - 1)
      /\ n = row * R + g * M + first
  BY DEF AtLine
<1>3. first + k <= M
  OBVIOUS
<1> HIDE DEF M, D, R, T
<1>4. R \in Nat
  BY <1>1
<1>5. row * R \in Nat /\ g * M \in Nat /\ (g + 1) * M = g * M + M /\ (row + 1) * R = row * R + R
  <2>1. g \in Nat
    BY <1>1, <1>2
  <2> QED
    BY <1>1, <1>2, <1>4, <2>1
<1>6. n \in Nat
  BY <1>1, <1>2, <1>5
<1> DEFINE a == row * R
           b == g * M
<1>7. ASSUME first + k < M PROVE AtLine(row, g, first + k, n + k)
  <2>1. first + k \in 0..(M - 1)
    BY <1>1, <1>2, <1>7
  <2>2. n + k = row * R + g * M + (first + k)
    <3>1. a \in Nat /\ b \in Nat /\ n = a + b + first
      BY <1>2, <1>5
    <3> HIDE DEF a, b
    <3>2. n + k = a + b + (first + k)
      BY <1>1, <1>2, <3>1
    <3> QED
      BY <3>2 DEF a, b
  <2> QED
    BY <1>2, <2>1, <2>2 DEF AtLine, M, D, R, T
<1>8. ASSUME first + k = M PROVE n + k = row * R + (g + 1) * M
  <2>1. a \in Nat /\ b \in Nat /\ n = a + b + first
    BY <1>2, <1>5
  <2> HIDE DEF a, b
  <2>2. n + k = a + (b + M)
    BY <1>1, <1>2, <1>8, <2>1
  <2> QED
    BY <1>5, <2>2 DEF a, b
<1>9. ASSUME first + k = M, g + 1 < D PROVE AtLine(row, g + 1, 0, n + k)
  <2>1. g + 1 \in 0..(D - 1) /\ 0 \in 0..(M - 1)
    BY <1>1, <1>2, <1>9
  <2>2. n + k = row * R + (g + 1) * M + 0
    <3>1. n + k \in Nat
      BY <1>6
    <3> QED
      BY <1>8, <1>9, <3>1
  <2> QED
    BY <1>2, <2>1, <2>2 DEF AtLine, M, D, R, T
<1>10. ASSUME first + k = M, g + 1 = D
       PROVE  n + k = (row + 1) * R /\ (n + k < image_height => row + 1 < T)
  <2>1. n + k = row * R + R
    BY <1>1, <1>8, <1>10
  <2>2. n + k = (row + 1) * (M * D)
    BY <1>1, <1>5, <2>1
  <2>3. row + 1 \in Int
    BY <1>2
  <2>4. n + k = (row + 1) * R
    BY <1>5, <2>1
  <2> QED
    BY <1>1, <2>2, <2>3, <2>4
<1> QED
  BY <1>6, <1>7, <1>9, <1>10 DEF M, D, R, T

\* After lines went out, with lines left: in the buffer, or it is used up.
Emitted(row) ==
    \/ /\ buffer_full' = TRUE /\ next_row_out' \in 1..max_v_samp_factor
       /\ AtLine(row, rowgroup_ctr', FirstRow(next_row_out'), Len(lines'))
       /\ next_row_out' < max_v_samp_factor => color_buf' = Groups(buffer', rowgroup_ctr')
    \/ /\ buffer_full' = FALSE /\ next_row_out' = max_v_samp_factor /\ rowgroup_ctr' = 0
       /\ Len(lines') = (row + 1) * RowLines /\ row + 1 < total_iMCU_rows

\* sep_upsample returns lines in their places and knows where it goes on.
LEMMA UpsampleEmits ==
    ASSUME Layout, LinesRight(lines), More, NEW max_lines \in Nat \ {0}, NEW row,
           next_row_out \in Nat,
           AtLine(row, rowgroup_ctr, FirstRow(next_row_out), Len(lines)),
           RowRight(buffer', row),
           next_row_out < max_v_samp_factor => color_buf = Groups(buffer', rowgroup_ctr),
           Upsample(max_lines)
    PROVE  /\ LinesRight(lines')
           /\ Len(lines') < image_height => Emitted(row)
<1> DEFINE M == max_v_samp_factor
           D == DCTSize
           first == FirstRow(next_row_out)
           g == rowgroup_ctr
           h == image_height
           num == Lesser(M - first, Lesser(h - Len(lines), max_lines))
           new == [i \in 1..num |-> [c \in Component |-> ColorRow(c, first + i - 1)]]
           out == [c \in Component |-> ColorRow(c, first + 0)]
           consumed == first + num >= M
           more == g + 1 < D
<1>1. /\ color_buf' = IF next_row_out >= M THEN [c \in Component |-> Upsampled(c, g)]
                      ELSE color_buf
      /\ next_row_out' = first + num
      /\ lines' = lines \o new
      /\ rowgroup_ctr' = IF ~consumed THEN g ELSE IF more THEN g + 1 ELSE 0
      /\ buffer_full' = (~consumed \/ more)
  BY DEF Upsample, FirstRow
<1>2. color_buf' = Groups(buffer', g)
  <2>1. CASE next_row_out >= M
    BY <1>1, <2>1 DEF Upsampled, Groups, GroupIn
  <2>2. CASE ~(next_row_out >= M)
    BY <1>1, <2>2, HighestComponent
  <2> QED
    BY <2>1, <2>2
<1>3. /\ M \in 1..4 /\ D \in Nat \ {0} /\ h \in Nat \ {0}
  BY ScanAssumption, HighestComponent DEF Layout
<1>4. /\ row \in Nat /\ row < total_iMCU_rows /\ g \in 0..(D - 1) /\ first \in 0..(M - 1)
      /\ Len(lines) = row * RowLines + g * M + first
  BY DEF AtLine
<1>5. Len(lines) \in Nat /\ Len(lines) < h
  BY DEF LinesRight, More
<1> HIDE DEF M, D, first, g, h
<1>6. num \in Nat \ {0} /\ first + num <= M /\ Len(lines) + num <= h
  <2> DEFINE x == M - first
             y == h - Len(lines)
  <2>1. x \in Nat \ {0} /\ y \in Nat \ {0}
    BY <1>3, <1>4, <1>5
  <2>2. num = Lesser(x, Lesser(y, max_lines))
    OBVIOUS
  <2> HIDE DEF x, y, num
  <2>3. num \in Nat \ {0} /\ num <= x /\ num <= y
    BY <2>1, <2>2 DEF Lesser
  <2> QED
    BY <1>3, <1>4, <1>5, <2>3 DEF x, y
<1> HIDE DEF num
<1>7. PICK S : lines \in Seq(S)
  BY DEF LinesRight
<1> DEFINE U == S \cup {new[i] : i \in 1..num}
<1>8. new \in Seq(U) /\ Len(new) = num /\ lines \in Seq(U)
  <2>1. new = [i \in 1..num |-> new[i]]
    OBVIOUS
  <2> HIDE DEF new
  <2>2. \A i \in 1..num : new[i] \in U
    OBVIOUS
  <2>3. S \in SUBSET U
    OBVIOUS
  <2> HIDE DEF U
  <2>4. new \in [1..num -> U]
    BY <2>1, <2>2
  <2>5. new \in Seq(U) /\ Len(new) = num
    BY <1>6, <2>4
  <2>6. lines \in Seq(U)
    BY <1>7, <2>3
  <2> QED
    BY <2>5, <2>6
<1>9. \A i \in 1..num : new[i] = [c \in Component |-> ColorRow(c, first + i - 1)]
  OBVIOUS
<1> HIDE DEF new, U
<1>10. Joined(U, lines, new, lines')
  BY <1>1, <1>8, Concatenated
<1>11. /\ lines' \in Seq(U) /\ Len(lines') = Len(lines) + num
       /\ \A t \in 1..Len(lines) : lines'[t] = lines[t]
       /\ \A t \in (Len(lines) + 1)..Len(lines') : lines'[t] = new[t - Len(lines)]
  BY <1>8, <1>10 DEF Joined
<1>12. ASSUME NEW n \in 1..Len(lines'), NEW c \in Component, NEW m \in Column
       PROVE  OfLine(lines'[n][c][m], n - 1, c, m)
  <2>1. CASE n \in 1..Len(lines)
    BY <1>11, <2>1 DEF LinesRight
  <2>2. CASE n \notin 1..Len(lines)
    <3> DEFINE i == n - Len(lines)
               j == first + i - 1
    <3>1. i \in 1..num /\ n \in (Len(lines) + 1)..Len(lines') /\ j \in 0..(M - 1)
          /\ n - 1 = Len(lines) + i - 1 /\ n - 1 < h
      <4> DEFINE L == Len(lines)
                 Q == Len(lines')
      <4>1. /\ M \in Nat /\ first \in Nat /\ num \in Nat /\ first + num <= M /\ h \in Nat
            /\ L \in Nat /\ L + num <= h /\ Q = L + num /\ n \in 1..Q
            /\ i = n - L /\ n \notin 1..L /\ j = first + i - 1
        BY <1>3, <1>4, <1>5, <1>6, <1>11, <2>2
      <4> HIDE DEF L, Q, i, j
      <4>2. n \in Nat /\ L < n /\ n <= Q
        BY <4>1
      <4>3. i \in Nat \ {0} /\ i <= num /\ n - 1 = L + i - 1 /\ n - 1 < h
        BY <4>1, <4>2
      <4>4. j \in Nat /\ j < M
        BY <4>1, <4>3
      <4> QED
        BY <4>1, <4>2, <4>3, <4>4 DEF L, Q
    <3>2. lines'[n] = new[i]
      BY <1>11, <3>1
    <3>3. lines'[n][c] = ColorRow(c, j)
      <4> HIDE DEF i
      <4>1. new[i] = [d \in Component |-> ColorRow(d, first + i - 1)]
        BY <1>9, <3>1
      <4> QED
        BY <3>2, <4>1
    <3>4. ColorRow(c, j) = RowOfGroup(buffer', GroupIn(buffer', c, g), c, j)
      <4>1. color_buf'[c] = GroupIn(buffer', c, g)
        BY <1>2 DEF Groups
      <4>2. ColorRow(c, j) = RowOfGroup(buffer', color_buf'[c], c, j)
        BY DEF ColorRow, RowOfGroup
      <4> QED
        BY <4>1, <4>2
    <3>5. n - 1 = row * RowLines + g * M + j
      <4> DEFINE a == row * RowLines + g * M
      <4>1. Len(lines) = a + first
        BY <1>4
      <4>2. a \in Int
        <5>1. RowLines \in Nat
          BY <1>3 DEF RowLines, M, D
        <5>2. row \in Nat /\ g \in Nat /\ M \in Nat
          BY <1>3, <1>4
        <5> QED
          BY <5>1, <5>2
      <4> HIDE DEF a
      <4>3. i \in Int /\ first \in Int /\ n - 1 = Len(lines) + i - 1 /\ j = first + i - 1
        BY <1>4, <3>1
      <4> HIDE DEF i, j
      <4>4. n - 1 = a + j
        BY <4>1, <4>2, <4>3
      <4> QED
        BY <4>4 DEF a
    <3> HIDE DEF i, j
    <3> DEFINE k == n - 1
               b == buffer'
    <3>6. k = row * RowLines + g * max_v_samp_factor + j /\ k < image_height
      BY <3>1, <3>5 DEF M, h
    <3>7. j \in 0..(max_v_samp_factor - 1) /\ g \in 0..(DCTSize - 1)
          /\ row \in Nat /\ row < total_iMCU_rows /\ RowRight(b, row)
      BY <1>4, <3>1 DEF M, D
    <3> HIDE DEF k, b
    <3>8. OfLine(RowOfGroup(b, GroupIn(b, c, g), c, j)[m], k, c, m)
      BY <3>6, <3>7, LineEmitted
    <3> QED
      BY <3>3, <3>4, <3>8 DEF k, b
  <2> QED
    BY <2>1, <2>2
<1>13. LinesRight(lines')
  <2>1. Len(lines') <= image_height
    BY <1>6, <1>11 DEF h
  <2>2. \E V : lines' \in Seq(V)
    BY <1>11
  <2> QED
    BY <1>12, <2>1, <2>2 DEF LinesRight
<1>14. ASSUME Len(lines') < image_height PROVE Emitted(row)
  <2> DEFINE L == Len(lines)
  <2>1. /\ first + num < M => AtLine(row, g, first + num, L + num)
        /\ first + num = M =>
              /\ g + 1 < D => AtLine(row, g + 1, 0, L + num)
              /\ g + 1 = D => /\ L + num = (row + 1) * RowLines
                              /\ L + num < image_height => row + 1 < total_iMCU_rows
    <3>1. AtLine(row, g, first, L) /\ num \in Nat /\ first + num <= max_v_samp_factor
      BY <1>6 DEF g, first, M
    <3> HIDE DEF L
    <3> QED
      BY <3>1, LinesGoOn DEF M, D
  <2>2. Len(lines') = L + num
    BY <1>11
  <2> HIDE DEF L
  <2>3. CASE first + num < M
    <3>1. ~consumed /\ next_row_out' \in 1..M
      BY <1>3, <1>4, <1>6, <1>1, <2>3
    <3>2. FirstRow(next_row_out') = first + num
      BY <1>1, <1>3, <1>4, <1>6, <2>3 DEF FirstRow, M
    <3>3. rowgroup_ctr' = g /\ buffer_full' = TRUE
      BY <1>1, <3>1
    <3> QED
      BY <1>2, <2>1, <2>2, <2>3, <3>1, <3>2, <3>3 DEF Emitted, M
  <2>4. CASE ~(first + num < M)
    <3>1. first + num = M /\ consumed /\ next_row_out' = M
      BY <1>1, <1>3, <1>4, <1>6, <2>4
    <3>2. FirstRow(next_row_out') = 0 /\ next_row_out' \in 1..M
      BY <1>3, <3>1 DEF FirstRow, M
    <3>3. CASE more
      <4>1. rowgroup_ctr' = g + 1 /\ buffer_full' = TRUE
        BY <1>1, <3>1, <3>3
      <4>2. AtLine(row, g + 1, 0, L + num)
        BY <2>1, <3>1, <3>3
      <4>3. ~(next_row_out' < M)
        BY <1>3, <3>1
      <4> QED
        BY <2>2, <3>2, <4>1, <4>2, <4>3 DEF Emitted, M
    <3>4. CASE ~more
      <4>1. g + 1 = D
        BY <1>3, <1>4, <3>4
      <4>2. rowgroup_ctr' = 0 /\ buffer_full' = FALSE
        BY <1>1, <3>1, <3>4
      <4>3. Len(lines') = (row + 1) * RowLines /\ row + 1 < total_iMCU_rows
        BY <1>14, <2>1, <2>2, <3>1, <4>1
      <4> QED
        BY <3>1, <4>2, <4>3 DEF Emitted, M
    <3> QED
      BY <3>3, <3>4
  <2> QED
    BY <2>3, <2>4
<1> QED
  BY <1>13, <1>14

-----------------------------------------------------------------------------
(***************************************************************************)
(* The inductive invariant of the scan.                                    *)
(***************************************************************************)

\* In the middle of an iMCU row: the decoder is at its next MCU, and the buffer has those
\* before it.
Filling ==
    /\ input_iMCU_row \in Nat /\ input_iMCU_row < total_iMCU_rows
    /\ Position \in Nat /\ Position < RowsIn(input_iMCU_row) * MCUsPerRow
    /\ rowgroup_ctr = 0 /\ next_row_out = max_v_samp_factor
    /\ Len(lines) = input_iMCU_row * RowLines
    /\ Coming(Base(input_iMCU_row) + Position, entropy)
    /\ RightTo(buffer, input_iMCU_row, Position)

\* The buffer has an iMCU row, which goes out: the decoder is at the next one.
Emitting ==
    /\ \E row \in Nat : /\ input_iMCU_row = row + 1 /\ RowRight(buffer, row)
                        /\ AtLine(row, rowgroup_ctr, FirstRow(next_row_out), Len(lines))
    /\ next_row_out \in Nat
    /\ next_row_out < max_v_samp_factor => color_buf = Groups(buffer, rowgroup_ctr)
    /\ MCU_vert_offset = 0 /\ MCU_ctr = 0
    /\ input_iMCU_row < total_iMCU_rows => Coming(Base(input_iMCU_row), entropy)

ScanInv ==
    /\ Layout /\ Scanning /\ Reading(entropy) /\ Shaped(buffer) /\ LinesRight(lines)
    /\ More => (buffer_full => Emitting) /\ (~buffer_full => Filling)

\* The invariant implies the property.
LEMMA LinesAreExact == ScanInv => LinesExact
<1> SUFFICES ASSUME ScanInv PROVE LinesExact
  OBVIOUS
<1>1. LinesRight(lines)
  BY DEF ScanInv
<1>2. PICK S : lines \in Seq(S)
  BY <1>1 DEF LinesRight
<1>3. DOMAIN lines = 1..Len(lines) /\ Len(lines) \in Nat
  BY <1>2
<1>4. ASSUME NEW n \in DOMAIN lines, NEW c \in Component, NEW m \in Column
      PROVE  InPlace(n - 1, c, m)
  <2> DEFINE k == n - 1
  <2>1. OfLine(lines[n][c][m], k, c, m)
    BY <1>1, <1>3 DEF LinesRight
  <2>2. k + 1 = n
    BY <1>3
  <2> HIDE DEF k
  <2>3. OfLine(lines[k + 1][c][m], k, c, m)
    BY <2>1, <2>2
  <2>4. InPlace(k, c, m)
    BY <2>3 DEF OfLine, InPlace, Good
  <2> QED
    BY <2>4 DEF k
<1>5. Len(lines) <= image_height
  BY <1>1 DEF LinesRight
<1>6. entropy.at <= Len(data) \/ entropy.unread_marker = EOI
  <2>1. Reading(entropy) /\ Len(data) \in Nat
    BY DEF ScanInv, Scanning, DataEnds
  <2>2. entropy.at \in 1..(Len(data) + 1)
    BY <2>1 DEF Reading, Decoders
  <2> QED
    BY <2>1, <2>2 DEF Reading
<1> QED
  BY <1>4, <1>5, <1>6 DEF LinesExact

Stored_part(row, at, e, buf) ==
    /\ at \in Nat /\ at < RowsIn(row) * MCUsPerRow
    /\ Coming(Base(row) + at, e) /\ RightTo(buf, row, at)
Stored_row(row, e, buf) ==
    /\ RowRight(buf, row)
    /\ row + 1 < total_iMCU_rows => Coming(Base(row + 1), e)

\* A call of decompress_onepass keeps what it decoded, and goes on where it was.
LEMMA StoreStores ==
    ASSUME Layout, Scanning, Shaped(buffer), Filling,
           NEW limit \in Nat, limit <= Len(data), entropy.at <= limit + 1,
           NEW row, row = RestOfRow(limit), Store(row)
    PROVE  /\ Reading(entropy') /\ Shaped(buffer')
           /\ ~row.ok => /\ input_iMCU_row' = input_iMCU_row
                         /\ Stored_part(input_iMCU_row, MCU_vert_offset' * MCUsPerRow + MCU_ctr',
                                        entropy', buffer')
           /\ row.ok => /\ input_iMCU_row' = input_iMCU_row + 1
                        /\ MCU_vert_offset' = 0 /\ MCU_ctr' = 0
                        /\ Stored_row(input_iMCU_row, entropy', buffer')
<1> DEFINE R == input_iMCU_row
           W == MCUsPerRow
           P == Positions
           p == Position
           k == Base(R) + p
           n == P - p
           v == row.values
<1>1. /\ R \in Nat /\ R < total_iMCU_rows /\ p \in Nat /\ p < P /\ P = RowsIn(R) * W
      /\ Coming(k, entropy) /\ RightTo(buffer, R, p)
  BY DEF Filling, Positions, MCU_rows_per_iMCU_row, RowsIn
<1>2. /\ P \in Nat \ {0} /\ Base(R) \in Nat /\ Base(R) + P <= MCUCount /\ MCUCount \in Nat
      /\ R + 1 < total_iMCU_rows => Base(R + 1) = Base(R) + P
  BY <1>1, MCUsOf DEF MCUs_of
<1>3. W \in Nat \ {0}
  BY ScanAssumption
<1>4. row = DecodeMCUs(n, limit)
  BY DEF RestOfRow
<1>5. /\ entropy' = row.e /\ buffer' = Filled(v)
      /\ row.ok => MCU_vert_offset' = 0 /\ MCU_ctr' = 0 /\ R' = R + 1
      /\ ~row.ok => /\ MCU_vert_offset' = (p + Len(v)) \div W
                    /\ MCU_ctr' = (p + Len(v)) % W /\ R' = R
  BY DEF Store, Suspend
<1> HIDE DEF W, P, p
<1>6. k \in Nat /\ n \in Nat /\ k + n <= MCUCount
  BY <1>1, <1>2
<1>7. DecodedFrom(k, n, limit, row)
  <2>1. Coming(k, entropy)
    BY <1>1
  <2> HIDE DEF k, n
  <2> QED
    BY <1>4, <1>6, <2>1, RowDecoded
<1>8. PICK S : v \in Seq(S)
  BY <1>7 DEF DecodedFrom
<1>9. /\ Len(v) \in Nat /\ (row.ok => Len(v) = n) /\ (~row.ok => Len(v) < n)
      /\ Coming(k + Len(v), row.e)
      /\ \A j \in 1..Len(v) : Good(v[j], k + j - 1)
  BY <1>7, <1>8 DEF DecodedFrom
<1>10. /\ Shaped(Filled(v)) /\ RightTo(Filled(v), R, p + Len(v))
  <2>1. \A j \in 1..Len(v) : Good(v[j], Base(R) + p + j - 1)
    BY <1>9
  <2> HIDE DEF v
  <2> QED
    BY <1>1, <1>8, <2>1, FilledRight DEF p
<1>11. Reading(entropy') /\ Shaped(buffer')
  BY <1>5, <1>9, <1>10 DEF Coming
<1>12. k + Len(v) = Base(R) + (p + Len(v))
  <2> DEFINE L == Len(v)
  <2>1. L \in Nat
    BY <1>9
  <2> HIDE DEF L
  <2> QED
    BY <1>1, <1>2, <2>1
<1>13. CASE ~row.ok
  <2> DEFINE q == p + Len(v)
  <2>1. q \in Nat /\ q < P
    <3> DEFINE L == Len(v)
    <3>1. L \in Nat /\ L < n
      BY <1>9, <1>13
    <3> HIDE DEF L
    <3>2. p + L \in Nat /\ p + L < P
      BY <1>1, <1>2, <3>1
    <3> QED
      BY <3>2 DEF L
  <2> HIDE DEF q
  <2>2. MCU_vert_offset' = q \div W /\ MCU_ctr' = q % W
    BY <1>5, <1>13 DEF q
  <2>3. (q \div W) * W + (q % W) = q
    BY <1>3, <2>1, Divided
  <2>4. MCU_vert_offset' * W + MCU_ctr' = q
    BY <2>2, <2>3
  <2>5. Coming(Base(R) + q, entropy') /\ RightTo(buffer', R, q)
    BY <1>5, <1>9, <1>10, <1>12 DEF q
  <2>6. Stored_part(R, q, entropy', buffer')
    BY <1>1, <2>1, <2>5 DEF Stored_part, W
  <2> QED
    BY <1>5, <1>11, <1>13, <2>4, <2>6 DEF W
<1>14. CASE row.ok
  <2>1. p + Len(v) = P
    <3> DEFINE L == Len(v)
    <3>1. L = n
      BY <1>9, <1>14
    <3> HIDE DEF L
    <3>2. p + L = P
      BY <1>1, <1>2, <3>1
    <3> QED
      BY <3>2 DEF L
  <2>2. Coming(Base(R) + P, entropy') /\ RightTo(buffer', R, P)
    BY <1>5, <1>9, <1>10, <1>12, <2>1
  <2>3. Stored_row(R, entropy', buffer')
    BY <1>1, <1>2, <2>2 DEF Stored_row, RowRight, W
  <2> QED
    BY <1>5, <1>11, <1>14, <2>3
<1> QED
  BY <1>13, <1>14

\* Nothing has to be in the buffer before the first MCU.
LEMMA NoneBefore ==
    ASSUME Layout, NEW row \in Nat, row < total_iMCU_rows, NEW buf
    PROVE  RightTo(buf, row, 0)
<1> SUFFICES ASSUME NEW c \in Component, NEW l \in 0..(BufferLines(c) - 1), NEW m \in Column,
                    PositionOf(c, l \div DCT_v_scaled_size(c), m) < 0,
                    Inside_image(row, l \div DCT_v_scaled_size(c), c)
             PROVE  FALSE
  BY DEF RightTo
<1> DEFINE b == l \div DCT_v_scaled_size(c)
<1>1. b \in Nat /\ b < v_samp_factor[c] /\ (row < total_iMCU_rows - 1 \/ b < last_row_height(c))
  BY BlockOfLine DEF Inside_image
<1>2. PositionOf(c, b, m) < 0
  OBVIOUS
<1> HIDE DEF b
<1>3. PositionOf(c, b, m) \in Nat
  BY <1>1, BlockPlace
<1> QED
  BY <1>2, <1>3

\* The invariant holds at the start of a scan.
LEMMA ScanStarts == ScanInit => ScanInv
<1> SUFFICES ASSUME ScanInit PROVE ScanInv
  OBVIOUS
<1>1. PICK image \in Images :
         /\ v_samp_factor = image.layout /\ image_height = image.height
         /\ restart_interval = image.interval /\ StreamOf(image)
  BY DEF ScanInit
<1>2. Layout /\ restart_interval \in Nat
  BY <1>1, ScanAssumption DEF Layout
<1>3. total_iMCU_rows \in Nat \ {0}
  <2>1. 1 \in Component
    BY <1>2 DEF Layout, Component
  <2> QED
    BY <1>2, <2>1, RowsOf DEF Rows_of
<1>4. MCUCount \in Nat \ {0} /\ MCUs_of(0)
  BY <1>2, <1>3, MCUsOf
<1>5. Streamed
  <2> DEFINE mcus == MCU_rows_in_scan * MCUsPerRow
             stream == Intact(mcus, image.interval)
  <2>1. stream = Encoded /\ mcus = MCUCount
    BY <1>1 DEF Encoded, MCUCount
  <2>2. \/ data = stream /\ damaged = {}
        \/ \E a \in 0..(Len(stream) - 1), junk \in JunkSeqs, b \in 1..Len(stream) :
              /\ stream[b] \in Markers
              /\ data = Spliced(stream, a, junk, b)
              /\ damaged = Damaged(stream, a, b, mcus, image.interval)
    BY <1>1 DEF StreamOf
  <2> HIDE DEF mcus, stream
  <2>3. ASSUME NEW a \in 0..(Len(stream) - 1), NEW junk \in JunkSeqs, NEW b \in 1..Len(stream),
               stream[b] \in Markers, data = Spliced(stream, a, junk, b),
               damaged = Damaged(stream, a, b, mcus, image.interval)
        PROVE  Splices(a, junk, b)
    <3>1. junk \in Seq({Junk, Invalid})
      BY ScanAssumption
    <3> QED
      BY <1>1, <2>1, <2>3, <3>1 DEF Splices
  <2> QED
    BY <2>1, <2>2, <2>3 DEF Streamed
<1>6. entropy = StartPass(restart_interval) /\ Scanning /\ Coming(0, entropy)
  BY <1>2, <1>4, <1>5, StreamStarts DEF ScanInit
<1>7. Reading(entropy)
  BY <1>6 DEF Coming
<1>8. Shaped(buffer)
  BY DEF ScanInit, Shaped, BufferLines
<1>9. LinesRight(lines)
  <2>1. lines = <<>> /\ image_height \in Nat
    BY <1>2 DEF ScanInit, Layout
  <2>2. lines \in Seq(Nat) /\ Len(lines) = 0
    BY <2>1
  <2> QED
    BY <2>1, <2>2 DEF LinesRight
<1>10. Filling
  <2>1. /\ input_iMCU_row = 0 /\ rowgroup_ctr = 0 /\ next_row_out = max_v_samp_factor
        /\ MCU_vert_offset = 0 /\ MCU_ctr = 0 /\ Len(lines) = 0
    BY DEF ScanInit
  <2>2. Position = 0
    <3>1. 0 * MCUsPerRow = 0
      BY ScanAssumption
    <3> QED
      BY <2>1, <3>1 DEF Position
  <2>3. Base(0) = 0 /\ 0 * RowLines = 0
    <3>1. MCURows \in Nat /\ RowLines \in Nat /\ MCUsPerRow \in Nat
      <4>1. 1 \in Component
        BY <1>2 DEF Layout, Component
      <4>2. MCURows \in Nat /\ max_v_samp_factor \in Nat
        BY <1>2, <4>1, HeightsOf DEF Component_heights
      <4>3. RowLines \in Nat
        BY <4>2, ScanAssumption DEF RowLines
      <4> QED
        BY <4>2, <4>3, ScanAssumption
    <3>2. 0 * MCURows = 0 /\ 0 * MCUsPerRow = 0
      BY <3>1
    <3> QED
      BY <3>1, <3>2 DEF Base
  <2>4. RightTo(buffer, 0, 0)
    BY <1>2, <1>3, NoneBefore
  <2>5. 0 < RowsIn(0) * MCUsPerRow
    BY <1>4 DEF MCUs_of
  <2>6. 0 \in Nat /\ 0 < total_iMCU_rows /\ 0 + 0 = 0
    BY <1>3
  <2>7. Coming(Base(0) + 0, entropy)
    BY <1>6, <2>3, <2>6
  <2> QED
    BY <2>1, <2>2, <2>3, <2>4, <2>5, <2>6, <2>7 DEF Filling
<1>11. ~buffer_full
  BY DEF ScanInit
<1> QED
  BY <1>2, <1>6, <1>7, <1>8, <1>9, <1>10, <1>11 DEF ScanInv

\* The invariant of the next state in the words of this one: the image stays as it is.
LEMMA FillingNext ==
    ASSUME Layout, UNCHANGED imageVars,
           input_iMCU_row' \in Nat, input_iMCU_row' < total_iMCU_rows,
           rowgroup_ctr' = 0, next_row_out' = max_v_samp_factor,
           Len(lines') = input_iMCU_row' * RowLines,
           Stored_part(input_iMCU_row', MCU_vert_offset' * MCUsPerRow + MCU_ctr', entropy', buffer')
    PROVE  Filling'
<1> DEFINE R == input_iMCU_row'
           at == MCU_vert_offset' * MCUsPerRow + MCU_ctr'
<1>1. /\ max_v_samp_factor' = max_v_samp_factor /\ total_iMCU_rows' = total_iMCU_rows
      /\ RowLines' = RowLines
      /\ \A r : Base(r)' = Base(r) /\ RowsIn(r)' = RowsIn(r)
  BY SameLayout
<1>2. \A k, e : Coming(k, e)' <=> Coming(k, e)
  BY SameStream
<1>3. \A b, row, upto : RightTo(b, row, upto)' <=> RightTo(b, row, upto)
  BY SameBuffer
<1>4. Position' = at
  BY DEF Position
<1>5. /\ at \in Nat /\ at < RowsIn(R) * MCUsPerRow
      /\ Coming(Base(R) + at, entropy') /\ RightTo(buffer', R, at)
  BY DEF Stored_part
<1> HIDE DEF at
<1>6. (Base(input_iMCU_row)' = Base(R)) /\ (RowsIn(input_iMCU_row)' = RowsIn(R))
  BY <1>1
<1>7. RightTo(buffer, input_iMCU_row, Position)'
  BY <1>3, <1>4, <1>5
<1>8. Coming(Base(input_iMCU_row) + Position, entropy)'
  <2>1. (Base(input_iMCU_row) + Position)' = Base(R) + at
    BY <1>4, <1>6
  <2> QED
    BY <1>2, <1>5, <2>1
<1> QED
  BY <1>1, <1>4, <1>5, <1>6, <1>7, <1>8 DEF Filling

\* The same for a full buffer.
LEMMA EmittingNext ==
    ASSUME Layout, UNCHANGED imageVars, NEW row \in Nat,
           input_iMCU_row' = row + 1, MCU_vert_offset' = 0, MCU_ctr' = 0,
           Stored_row(row, entropy', buffer'), next_row_out' \in Nat,
           AtLine(row, rowgroup_ctr', FirstRow(next_row_out'), Len(lines')),
           next_row_out' < max_v_samp_factor => color_buf' = Groups(buffer', rowgroup_ctr')
    PROVE  Emitting'
<1>1. /\ max_v_samp_factor' = max_v_samp_factor /\ total_iMCU_rows' = total_iMCU_rows
      /\ RowLines' = RowLines /\ Component' = Component
      /\ \A c : v_expand(c)' = v_expand(c) /\ rowgroup_height(c)' = rowgroup_height(c)
      /\ \A r : Base(r)' = Base(r) /\ RowsIn(r)' = RowsIn(r)
  BY SameLayout
<1>2. \A k, e : Coming(k, e)' <=> Coming(k, e)
  BY SameStream
<1>3. \A b, r, upto : RightTo(b, r, upto)' <=> RightTo(b, r, upto)
  BY SameBuffer
<1>4. \A b, r : RowRight(b, r)' <=> RowRight(b, r)
  BY <1>1, <1>3 DEF RowRight
<1>5. \A r, g, f, n : AtLine(r, g, f, n)' <=> AtLine(r, g, f, n)
  BY <1>1 DEF AtLine
<1>6. \A n : FirstRow(n)' = FirstRow(n)
  BY <1>1 DEF FirstRow
<1>7. \A b, g : Groups(b, g)' = Groups(b, g)
  <2>1. \A b, c, g : GroupIn(b, c, g)' = GroupIn(b, c, g)
    BY <1>1 DEF GroupIn, Fullsize
  <2> QED
    BY <1>1, <2>1 DEF Groups
<1>8. RowRight(buffer, row)'
  BY <1>4 DEF Stored_row
<1>9. AtLine(row, rowgroup_ctr, FirstRow(next_row_out), Len(lines))'
  BY <1>5, <1>6
<1>10. (next_row_out < max_v_samp_factor => color_buf = Groups(buffer, rowgroup_ctr))'
  BY <1>1, <1>7
<1>11. (input_iMCU_row < total_iMCU_rows => Coming(Base(input_iMCU_row), entropy))'
  <2> SUFFICES ASSUME row + 1 < total_iMCU_rows
               PROVE  Coming(Base(input_iMCU_row), entropy)'
    BY <1>1
  <2>1. Coming(Base(row + 1), entropy')
    BY DEF Stored_row
  <2>2. (Base(input_iMCU_row)') = Base(row + 1)
    BY <1>1
  <2> QED
    BY <1>2, <2>1, <2>2
<1> QED
  BY <1>8, <1>9, <1>10, <1>11 DEF Emitting

\* The same for the invariant.
LEMMA InvNext ==
    ASSUME Layout, Scanning, UNCHANGED imageVars,
           Reading(entropy'), Shaped(buffer'), LinesRight(lines'),
           Len(lines') < image_height => (buffer_full' => Emitting') /\ (~buffer_full' => Filling')
    PROVE  ScanInv'
<1>1. Layout' /\ Component' = Component /\ image_height' = image_height
  BY SameLayout DEF imageVars
<1>2. Scanning' /\ Reading(entropy)'
  BY SameStream
<1>3. Shaped(buffer)'
  BY SameBuffer
<1>4. LinesRight(lines)'
  <2>1. \A x, n, c, m : OfLine(x, n, c, m)' <=> OfLine(x, n, c, m)
    BY SameBuffer
  <2> QED
    BY <1>1, <2>1 DEF LinesRight
<1>5. (More => (buffer_full => Emitting) /\ (~buffer_full => Filling))'
  BY <1>1 DEF More
<1> QED
  BY <1>1, <1>2, <1>3, <1>4, <1>5 DEF ScanInv

\* A suspended call: the decoder will go on from here.
LEMMA SuspendedKeeps ==
    ASSUME ScanInv, NEW portion \in Nat, ReadSuspended(entropy.at - 1 + portion)
    PROVE  ScanInv'
<1> DEFINE limit == entropy.at - 1 + portion
<1>1. /\ More /\ ~buffer_full /\ limit <= Len(data)
      /\ UNCHANGED imageVars /\ UNCHANGED outputVars
  BY DEF ReadSuspended
<1>2. PICK row : row = RestOfRow(limit) /\ ~row.ok /\ Store(row)
  BY DEF ReadSuspended
<1>3. /\ Layout /\ Scanning /\ Reading(entropy) /\ Shaped(buffer) /\ LinesRight(lines) /\ Filling
  BY <1>1 DEF ScanInv
<1>4. limit \in Nat /\ entropy.at <= limit + 1
  <2>1. entropy.at \in Nat \ {0}
    BY <1>3 DEF Reading, Decoders, Scanning, DataEnds
  <2> QED
    BY <2>1
<1> HIDE DEF limit
<1>5. /\ Reading(entropy') /\ Shaped(buffer') /\ input_iMCU_row' = input_iMCU_row
      /\ Stored_part(input_iMCU_row, MCU_vert_offset' * MCUsPerRow + MCU_ctr', entropy', buffer')
  BY <1>1, <1>2, <1>3, <1>4, StoreStores
<1>6. /\ buffer_full' = buffer_full /\ rowgroup_ctr' = rowgroup_ctr
      /\ next_row_out' = next_row_out /\ lines' = lines
  BY <1>1 DEF outputVars
<1>7. Filling'
  <2>1. /\ input_iMCU_row \in Nat /\ input_iMCU_row < total_iMCU_rows
        /\ rowgroup_ctr = 0 /\ next_row_out = max_v_samp_factor
        /\ Len(lines) = input_iMCU_row * RowLines
    BY <1>3 DEF Filling
  <2> QED
    BY <1>1, <1>3, <1>5, <1>6, <2>1, FillingNext
<1> QED
  BY <1>1, <1>3, <1>5, <1>6, <1>7, InvNext

\* What a call that returns lines leaves behind.
LEMMA EmittedKeeps ==
    ASSUME Layout, Scanning, UNCHANGED imageVars, NEW row \in Nat, row < total_iMCU_rows,
           input_iMCU_row' = row + 1, MCU_vert_offset' = 0, MCU_ctr' = 0,
           Reading(entropy'), Shaped(buffer'), Stored_row(row, entropy', buffer'),
           LinesRight(lines'), Len(lines') < image_height => Emitted(row)
    PROVE  ScanInv'
<1>1. ASSUME Len(lines') < image_height
      PROVE  (buffer_full' => Emitting') /\ (~buffer_full' => Filling')
  <2>1. CASE /\ buffer_full' = TRUE /\ next_row_out' \in 1..max_v_samp_factor
             /\ AtLine(row, rowgroup_ctr', FirstRow(next_row_out'), Len(lines'))
             /\ next_row_out' < max_v_samp_factor => color_buf' = Groups(buffer', rowgroup_ctr')
    <3>1. next_row_out' \in Nat
      <4>1. max_v_samp_factor \in Nat
        BY HighestComponent
      <4> QED
        BY <2>1, <4>1
    <3>2. Emitting'
      BY <2>1, <3>1, EmittingNext
    <3> QED
      BY <2>1, <3>2
  <2>2. CASE /\ buffer_full' = FALSE /\ next_row_out' = max_v_samp_factor /\ rowgroup_ctr' = 0
             /\ Len(lines') = (row + 1) * RowLines /\ row + 1 < total_iMCU_rows
    <3> DEFINE R == row + 1
               e == entropy'
               buf == buffer'
    <3>1. R \in Nat /\ R < total_iMCU_rows /\ Coming(Base(R), e)
      BY <2>2 DEF Stored_row
    <3> HIDE DEF R, e, buf
    <3>2. RightTo(buf, R, 0)
      BY <3>1, NoneBefore
    <3>3. 0 < RowsIn(R) * MCUsPerRow /\ Base(R) + 0 = Base(R)
      <4>1. RowsIn(R) * MCUsPerRow \in Nat \ {0} /\ Base(R) \in Nat
        BY <3>1, MCUsOf DEF MCUs_of
      <4> QED
        BY <4>1
    <3>4. Stored_part(R, 0, e, buf)
      BY <3>1, <3>2, <3>3 DEF Stored_part
    <3>5. MCU_vert_offset' * MCUsPerRow + MCU_ctr' = 0
      <4>1. 0 * MCUsPerRow + 0 = 0
        BY ScanAssumption
      <4> QED
        BY <4>1
    <3>6. Filling'
      <4>1. Stored_part(R, MCU_vert_offset' * MCUsPerRow + MCU_ctr', entropy', buffer')
        BY <3>4, <3>5 DEF e, buf
      <4>2. input_iMCU_row' = R /\ Len(lines') = R * RowLines
        BY <2>2 DEF R
      <4> QED
        BY <2>2, <3>1, <4>1, <4>2, FillingNext
    <3> QED
      BY <2>2, <3>6
  <2>3. Emitted(row)
    BY <1>1
  <2> QED
    BY <2>1, <2>2, <2>3 DEF Emitted
<1> QED
  BY <1>1, InvNext

\* A call that fills the buffer and returns its first lines.
LEMMA FillingKeeps ==
    ASSUME ScanInv, NEW max_lines \in 1..MaxLines, ReadFilling(max_lines)
    PROVE  ScanInv'
<1> DEFINE R == input_iMCU_row
<1>1. More /\ ~buffer_full /\ UNCHANGED imageVars /\ Upsample(max_lines)
  BY DEF ReadFilling
<1>2. PICK row : row = RestOfRow(Len(data)) /\ row.ok /\ Store(row)
  BY DEF ReadFilling
<1>3. /\ Layout /\ Scanning /\ Reading(entropy) /\ Shaped(buffer) /\ LinesRight(lines) /\ Filling
  BY <1>1 DEF ScanInv
<1>4. PICK limit : limit = Len(data)
  OBVIOUS
<1>5. limit \in Nat /\ limit <= Len(data) /\ entropy.at <= limit + 1
  <2>1. Len(data) \in Nat /\ entropy.at \in 1..(Len(data) + 1)
    BY <1>3 DEF Reading, Decoders, Scanning, DataEnds
  <2> QED
    BY <1>4, <2>1
<1>6. /\ Reading(entropy') /\ Shaped(buffer') /\ R' = R + 1
      /\ MCU_vert_offset' = 0 /\ MCU_ctr' = 0 /\ Stored_row(R, entropy', buffer')
  BY <1>2, <1>3, <1>4, <1>5, StoreStores
<1>7. /\ R \in Nat /\ R < total_iMCU_rows
      /\ rowgroup_ctr = 0 /\ next_row_out = max_v_samp_factor /\ Len(lines) = R * RowLines
  BY <1>3 DEF Filling
<1>8. RowRight(buffer', R)
  BY <1>6 DEF Stored_row
<1>9. max_lines \in Nat \ {0} /\ next_row_out \in Nat /\ ~(next_row_out < max_v_samp_factor)
  <2>1. max_v_samp_factor \in 1..4
    BY <1>3, HighestComponent
  <2> QED
    BY <1>7, <2>1
<1>10. AtLine(R, rowgroup_ctr, FirstRow(next_row_out), Len(lines))
  <2>1. max_v_samp_factor \in 1..4 /\ DCTSize \in Nat \ {0}
    BY <1>3, HighestComponent, ScanAssumption
  <2>2. FirstRow(next_row_out) = 0
    BY <1>7, <2>1 DEF FirstRow
  <2>3. R * RowLines = R * RowLines + 0 * max_v_samp_factor + 0
    <3> DEFINE a == R * RowLines
    <3>1. RowLines \in Nat
      BY <2>1 DEF RowLines
    <3>2. a \in Nat
      BY <1>7, <3>1
    <3> HIDE DEF a
    <3>3. a = a + 0 * max_v_samp_factor + 0
      BY <2>1, <3>2
    <3> QED
      BY <3>3 DEF a
  <2>4. 0 \in 0..(DCTSize - 1) /\ 0 \in 0..(max_v_samp_factor - 1)
    BY <2>1
  <2> QED
    BY <1>7, <2>2, <2>3, <2>4 DEF AtLine
<1> HIDE DEF R
<1>11. LinesRight(lines') /\ (Len(lines') < image_height => Emitted(R))
  BY <1>1, <1>3, <1>8, <1>9, <1>10, UpsampleEmits
<1> QED
  BY <1>1, <1>3, <1>6, <1>7, <1>11, EmittedKeeps DEF R

\* A call that returns lines of the full buffer.
LEMMA BufferedKeeps ==
    ASSUME ScanInv, NEW max_lines \in 1..MaxLines, ReadBuffered(max_lines)
    PROVE  ScanInv'
<1>1. /\ More /\ buffer_full /\ UNCHANGED imageVars /\ UNCHANGED inputVars
      /\ Upsample(max_lines)
  BY DEF ReadBuffered
<1>2. /\ Layout /\ Scanning /\ Reading(entropy) /\ Shaped(buffer) /\ LinesRight(lines)
      /\ Emitting
  BY <1>1 DEF ScanInv
<1>3. PICK row \in Nat : /\ input_iMCU_row = row + 1 /\ RowRight(buffer, row)
                         /\ AtLine(row, rowgroup_ctr, FirstRow(next_row_out), Len(lines))
  BY <1>2 DEF Emitting
<1>4. /\ entropy' = entropy /\ buffer' = buffer /\ input_iMCU_row' = row + 1
      /\ MCU_vert_offset' = 0 /\ MCU_ctr' = 0
  BY <1>1, <1>2, <1>3 DEF inputVars, Emitting
<1>5. /\ next_row_out \in Nat
      /\ next_row_out < max_v_samp_factor => color_buf = Groups(buffer', rowgroup_ctr)
  BY <1>2, <1>4 DEF Emitting
<1>6. max_lines \in Nat \ {0}
  OBVIOUS
<1>7. RowRight(buffer', row)
  BY <1>3, <1>4
<1>8. LinesRight(lines') /\ (Len(lines') < image_height => Emitted(row))
  BY <1>1, <1>2, <1>3, <1>5, <1>6, <1>7, UpsampleEmits
<1>9. Stored_row(row, entropy', buffer')
  BY <1>2, <1>3, <1>4 DEF Stored_row, Emitting
<1>10. row < total_iMCU_rows
  BY <1>3 DEF AtLine
<1>11. Reading(entropy') /\ Shaped(buffer')
  BY <1>2, <1>4
<1> QED
  BY <1>1, <1>2, <1>4, <1>8, <1>9, <1>10, <1>11, EmittedKeeps

\* Every step keeps the invariant.
LEMMA ScanSteps == ScanInv /\ [ScanNext]_scanVars => ScanInv'
<1> SUFFICES ASSUME ScanInv, [ScanNext]_scanVars PROVE ScanInv'
  OBVIOUS
<1>1. ASSUME NEW portion \in 0..MaxPortion, ReadSuspended(entropy.at - 1 + portion)
      PROVE  ScanInv'
  <2>1. portion \in Nat
    BY ScanAssumption
  <2> QED
    BY <1>1, <2>1, SuspendedKeeps
<1>2. ASSUME NEW max_lines \in 1..MaxLines, ReadFilling(max_lines)
      PROVE  ScanInv'
  BY <1>2, FillingKeeps
<1>3. ASSUME NEW max_lines \in 1..MaxLines, ReadBuffered(max_lines)
      PROVE  ScanInv'
  BY <1>3, BufferedKeeps
<1>4. CASE UNCHANGED scanVars
  <2>1. /\ UNCHANGED imageVars /\ UNCHANGED inputVars /\ UNCHANGED outputVars
    BY <1>4 DEF scanVars
  <2>2. /\ entropy' = entropy /\ buffer' = buffer /\ input_iMCU_row' = input_iMCU_row
        /\ MCU_vert_offset' = MCU_vert_offset /\ MCU_ctr' = MCU_ctr
        /\ buffer_full' = buffer_full /\ rowgroup_ctr' = rowgroup_ctr /\ color_buf' = color_buf
        /\ next_row_out' = next_row_out /\ lines' = lines
    BY <2>1 DEF inputVars, outputVars
  <2>3. /\ Layout /\ Scanning /\ Reading(entropy') /\ Shaped(buffer') /\ LinesRight(lines')
    BY <2>2 DEF ScanInv
  <2>4. ASSUME Len(lines') < image_height
        PROVE  (buffer_full' => Emitting') /\ (~buffer_full' => Filling')
    <3>1. (buffer_full => Emitting) /\ (~buffer_full => Filling)
      BY <2>2, <2>4 DEF ScanInv, More
    <3>2. ASSUME Emitting PROVE Emitting'
      <4>1. PICK row \in Nat : /\ input_iMCU_row = row + 1 /\ RowRight(buffer, row)
                               /\ AtLine(row, rowgroup_ctr, FirstRow(next_row_out), Len(lines))
        BY <3>2 DEF Emitting
      <4>2. Stored_row(row, entropy', buffer')
        BY <2>2, <3>2, <4>1 DEF Stored_row, Emitting
      <4>3. /\ input_iMCU_row' = row + 1 /\ MCU_vert_offset' = 0 /\ MCU_ctr' = 0
            /\ next_row_out' \in Nat
            /\ AtLine(row, rowgroup_ctr', FirstRow(next_row_out'), Len(lines'))
            /\ next_row_out' < max_v_samp_factor => color_buf' = Groups(buffer', rowgroup_ctr')
        BY <2>2, <3>2, <4>1 DEF Emitting
      <4> QED
        BY <2>1, <2>3, <4>2, <4>3, EmittingNext
    <3>3. ASSUME Filling PROVE Filling'
      <4>1. Stored_part(input_iMCU_row', MCU_vert_offset' * MCUsPerRow + MCU_ctr',
                          entropy', buffer')
        BY <2>2, <3>3 DEF Stored_part, Filling, Position
      <4>2. /\ input_iMCU_row' \in Nat /\ input_iMCU_row' < total_iMCU_rows
            /\ rowgroup_ctr' = 0 /\ next_row_out' = max_v_samp_factor
            /\ Len(lines') = input_iMCU_row' * RowLines
        BY <2>2, <3>3 DEF Filling
      <4> QED
        BY <2>1, <2>3, <4>1, <4>2, FillingNext
    <3> QED
      BY <2>2, <3>1, <3>2, <3>3
  <2> QED
    BY <2>1, <2>3, <2>4, InvNext
<1> QED
  BY <1>1, <1>2, <1>3, <1>4 DEF ScanNext

\* The image is the scan: every line that jpeg_read_scanlines returns holds its own samples,
\* and those of MCUs that the stream did not lose, whatever portions the MCUs come in,
\* wherever the stream is torn and however few lines are asked for.
THEOREM ScansExactly == ScanSpec => []LinesExact
<1>1. ScanInit => ScanInv
  BY ScanStarts
<1>2. ScanInv /\ [ScanNext]_scanVars => ScanInv'
  BY ScanSteps
<1>3. ScanInv => LinesExact
  BY LinesAreExact
<1> QED
  BY <1>1, <1>2, <1>3, PTL DEF ScanSpec
(***************************************************************************)
(* Samples and coefficients                                                *)
(***************************************************************************)
Corners == {<<0, 0>>, <<0, 1>>, <<1, 0>>, <<1, 1>>}

\* A block has four coefficients here.
LEMMA CornersAll == K \X K = Corners
BY SMT DEF K, DCTSIZE, Corners

\* Total adds up four numbers: what the fold of the library does, subset by subset.
LEMMA TotalOfCorners ==
    ASSUME NEW f \in [Corners -> Int]
    PROVE  Total(f) = f[<<0, 0>>] + f[<<0, 1>>] + f[<<1, 0>>] + f[<<1, 1>>]
<1> DEFINE a == <<0, 0>>
           b == <<0, 1>>
           c == <<1, 0>>
           d == <<1, 1>>
<1>a. a # b /\ a # c /\ a # d /\ b # c /\ b # d /\ c # d
  OBVIOUS
<1>b. f \in [{a, b, c, d} -> Int]
  BY DEF Corners
<1> SUFFICES Total(f) = f[a] + f[b] + f[c] + f[d]
  OBVIOUS
<1> HIDE DEF a, b, c, d
<1> USE <1>a, <1>b
<1> DEFINE S == {a, b, c, d}
           Part(s, x) == IF x \in s THEN f[x] ELSE 0
           h == [s \in SUBSET S |-> Part(s, a) + Part(s, b) + Part(s, c) + Part(s, d)]
           Fits(g) == g = [s \in SUBSET S |->
                              IF s = {} THEN 0
                              ELSE LET x == CHOOSE x \in s : TRUE IN f[x] + g[s \ {x}]]
           iter == CHOOSE g : Fits(g)
<1>1. ASSUME NEW s \in SUBSET S, s # {}, NEW x \in s
      PROVE  h[s] = f[x] + h[s \ {x}]
  <2>1. s \ {x} \in SUBSET S
    OBVIOUS
  <2>2. /\ h[s] = Part(s, a) + Part(s, b) + Part(s, c) + Part(s, d)
        /\ h[s \ {x}] = Part(s \ {x}, a) + Part(s \ {x}, b) + Part(s \ {x}, c) + Part(s \ {x}, d)
    BY <2>1
  <2>3. \A y \in S : y # x => Part(s \ {x}, y) = Part(s, y)
    OBVIOUS
  <2>4. Part(s \ {x}, x) = 0 /\ Part(s, x) = f[x]
    BY <1>1
  <2>5. \A y \in S : Part(s, y) \in Int
    OBVIOUS
  <2>6. x = a \/ x = b \/ x = c \/ x = d
    OBVIOUS
  <2> HIDE DEF Part, h
  <2> QED
    BY <2>2, <2>3, <2>4, <2>5, <2>6
<1>2. Fits(h)
  <2>1. h[{}] = 0
    OBVIOUS
  <2>2. ASSUME NEW s \in SUBSET S, s # {}
        PROVE  h[s] = LET x == CHOOSE x \in s : TRUE IN f[x] + h[s \ {x}]
    <3>1. (CHOOSE x \in s : TRUE) \in s
      BY <2>2
    <3> HIDE DEF h
    <3> QED
      BY <1>1, <2>2, <3>1
  <2>3. h = [s \in SUBSET S |-> h[s]]
    OBVIOUS
  <2> HIDE DEF h, S
  <2> QED
    BY <2>1, <2>2, <2>3
<1>3. Fits(iter)
  BY <1>2
<1>4. Total(f) = iter[S]
  BY DEF Total, MapThenSumSet, MapThenFoldSet
<1> HIDE DEF iter, h
<1>5. iter[{}] = 0
  BY <1>3
<1>6. ASSUME NEW s \in SUBSET S, s # {}
      PROVE  \E x \in s : iter[s] = f[x] + iter[s \ {x}]
  <2>1. (CHOOSE x \in s : TRUE) \in s
    BY <1>6
  <2> QED
    BY <1>3, <1>6, <2>1
<1>0. \A x \in S : f[x] \in Int
  OBVIOUS
<1>7. ASSUME NEW x \in S
      PROVE  iter[{x}] = f[x]
  <2>1. {x} \ {x} = {} /\ {x} # {} /\ {x} \in SUBSET S
    OBVIOUS
  <2>2. iter[{x}] = f[x] + iter[{x} \ {x}]
    BY <1>6, <2>1
  <2> HIDE DEF S
  <2> QED
    BY <1>0, <1>5, <2>1, <2>2
<1>8. ASSUME NEW x \in S, NEW y \in S, x # y
      PROVE  iter[{x, y}] = f[x] + f[y]
  <2>1. {x, y} \ {x} = {y} /\ {x, y} \ {y} = {x}
    BY <1>8
  <2>2. iter[{x, y}] = f[x] + iter[{y}] \/ iter[{x, y}] = f[y] + iter[{x}]
    BY <1>6, <2>1, {x, y} \in SUBSET S
  <2>3. iter[{x}] = f[x] /\ iter[{y}] = f[y]
    BY <1>7
  <2> HIDE DEF S
  <2> QED
    BY <1>0, <2>2, <2>3
<1>9. ASSUME NEW x \in S, NEW y \in S, NEW z \in S, x # y, x # z, y # z
      PROVE  iter[{x, y, z}] = f[x] + f[y] + f[z]
  <2>1. {x, y, z} \ {x} = {y, z} /\ {x, y, z} \ {y} = {x, z} /\ {x, y, z} \ {z} = {x, y}
    BY <1>9
  <2>2. \/ iter[{x, y, z}] = f[x] + iter[{y, z}]
        \/ iter[{x, y, z}] = f[y] + iter[{x, z}]
        \/ iter[{x, y, z}] = f[z] + iter[{x, y}]
    BY <1>6, <2>1, {x, y, z} \in SUBSET S
  <2>3. /\ iter[{y, z}] = f[y] + f[z] /\ iter[{x, z}] = f[x] + f[z]
        /\ iter[{x, y}] = f[x] + f[y]
    BY <1>8, <1>9
  <2> HIDE DEF S
  <2> QED
    BY <1>0, <2>2, <2>3
<1>10. /\ S \ {a} = {b, c, d} /\ S \ {b} = {a, c, d}
       /\ S \ {c} = {a, b, d} /\ S \ {d} = {a, b, c}
  OBVIOUS
<1>11. \/ iter[S] = f[a] + iter[{b, c, d}] \/ iter[S] = f[b] + iter[{a, c, d}]
       \/ iter[S] = f[c] + iter[{a, b, d}] \/ iter[S] = f[d] + iter[{a, b, c}]
  <2>1. S \in SUBSET S /\ S # {}
    OBVIOUS
  <2>2. PICK x \in S : iter[S] = f[x] + iter[S \ {x}]
    BY <1>6, <2>1
  <2>3. x = a \/ x = b \/ x = c \/ x = d
    OBVIOUS
  <2> HIDE DEF S, iter
  <2> QED
    BY <1>10, <2>2, <2>3
<1>12. /\ iter[{b, c, d}] = f[b] + f[c] + f[d] /\ iter[{a, c, d}] = f[a] + f[c] + f[d]
       /\ iter[{a, b, d}] = f[a] + f[b] + f[d] /\ iter[{a, b, c}] = f[a] + f[b] + f[c]
  BY <1>9
<1> QED
  BY <1>4, <1>11, <1>12

Blocks2 == [K -> [K -> Int]]
SignOf(i) == IF i = 1 THEN -1 ELSE 1

\* The indices of a block.
LEMMA KTwo == K = {0, 1}
BY SMT DEF K, DCTSIZE

\* What a decoder makes of a block, written out.
LEMMA DecodedWritten ==
    ASSUME NEW b \in Blocks2, NEW q \in Blocks2, NEW i \in K, NEW j \in K
    PROVE  DecodedSample(b, q, i, j) =
             (b[0][0] * q[0][0] + SignOf(i) * (b[0][1] * q[0][1])
               + SignOf(j) * (b[1][0] * q[1][0]) + SignOf(i) * SignOf(j) * (b[1][1] * q[1][1]))
             \div 48
<1> DEFINE f == [p \in K \X K |-> Sign(p[1], i) * Sign(p[2], j) * b[p[2]][p[1]] * q[p[2]][p[1]]]
<1>1. \A u, v \in K : b[v][u] \in Int /\ q[v][u] \in Int
  BY DEF Blocks2
<1>2. DOMAIN f = {<<0, 0>>, <<0, 1>>, <<1, 0>>, <<1, 1>>}
  BY CornersAll DEF Corners
<1>3. \A u, v \in K : f[<<u, v>>] = Sign(u, i) * Sign(v, j) * b[v][u] * q[v][u]
  OBVIOUS
<1>4. \A u, v, k \in K : Sign(u, k) \in {-1, 1}
  BY DEF Sign
<1>5. /\ f[<<0, 0>>] = b[0][0] * q[0][0]
      /\ f[<<1, 0>>] = SignOf(i) * (b[0][1] * q[0][1])
      /\ f[<<0, 1>>] = SignOf(j) * (b[1][0] * q[1][0])
      /\ f[<<1, 1>>] = SignOf(i) * SignOf(j) * (b[1][1] * q[1][1])
  <2> HIDE DEF f
  <2>1. /\ f[<<0, 0>>] = Sign(0, i) * Sign(0, j) * b[0][0] * q[0][0]
        /\ f[<<1, 0>>] = Sign(1, i) * Sign(0, j) * b[0][1] * q[0][1]
        /\ f[<<0, 1>>] = Sign(0, i) * Sign(1, j) * b[1][0] * q[1][0]
        /\ f[<<1, 1>>] = Sign(1, i) * Sign(1, j) * b[1][1] * q[1][1]
    BY <1>3, KTwo
  <2> QED
    BY <1>1, <2>1, KTwo DEF Sign, SignOf
<1>6. f \in [{<<0, 0>>, <<0, 1>>, <<1, 0>>, <<1, 1>>} -> Int]
  <2>1. \A u, v \in K : f[<<u, v>>] \in Int
    <3> HIDE DEF f
    <3> TAKE u, v \in K
    <3>1. Sign(u, i) \in Int /\ Sign(v, j) \in Int /\ b[v][u] \in Int /\ q[v][u] \in Int
      BY <1>1, <1>4
    <3>2. \A k, l, m, n \in Int : k * l * m * n \in Int
      OBVIOUS
    <3> QED
      BY <1>3, <3>1, <3>2
  <2>2. f = [p \in DOMAIN f |-> f[p]]
    OBVIOUS
  <2> HIDE DEF f
  <2> QED
    BY <1>2, <2>1, <2>2, KTwo
<1>7. Total(f) = f[<<0, 0>>] + f[<<0, 1>>] + f[<<1, 0>>] + f[<<1, 1>>]
  <2> HIDE DEF f
  <2> QED
    BY <1>6, TotalOfCorners DEF Corners
<1>8. \A u, v \in K : f[<<u, v>>] \in Int
  <2> HIDE DEF f
  <2> QED
    BY <1>6, KTwo
<1>9. DecodedSample(b, q, i, j) = Total(f) \div 48
  BY DEF DecodedSample, Common
<1> HIDE DEF f
<1>10. f[<<0, 0>>] + f[<<0, 1>>] + f[<<1, 0>>] + f[<<1, 1>>]
       = f[<<0, 0>>] + f[<<1, 0>>] + f[<<0, 1>>] + f[<<1, 1>>]
  BY <1>8, KTwo
<1> QED
  BY <1>5, <1>7, <1>9, <1>10

\* A decoder sees blocks of negated waves mirrored, and transposed ones transposed.
LEMMA NegatedColumns ==
    ASSUME NEW b \in Blocks2, NEW q \in Blocks2, NEW i \in K, NEW j \in K
    PROVE  /\ NegateOddColumns(b) \in Blocks2
           /\ DecodedSample(NegateOddColumns(b), q, i, j) = DecodedSample(b, q, 1 - i, j)
<1> DEFINE n == NegateOddColumns(b)
<1>1. n \in Blocks2 /\ \A v \in K : n[v][0] = b[v][0] /\ n[v][1] = -b[v][1]
  BY KTwo DEF NegateOddColumns, Blocks2
<1>2. \A u, v \in K : b[v][u] \in Int /\ q[v][u] \in Int
  BY DEF Blocks2
<1>3. 1 - i \in K /\ SignOf(1 - i) = -SignOf(i) /\ SignOf(i) \in {-1, 1} /\ SignOf(j) \in {-1, 1}
  BY KTwo DEF SignOf
<1>4. \A r \in Int : -SignOf(i) * r = SignOf(i) * (-r)
  BY <1>3
<1> HIDE DEF n
<1>5. /\ n[0][1] * q[0][1] = -(b[0][1] * q[0][1])
      /\ n[1][1] * q[1][1] = -(b[1][1] * q[1][1])
  BY <1>1, <1>2, KTwo
<1>6. /\ SignOf(i) * (n[0][1] * q[0][1]) = SignOf(1 - i) * (b[0][1] * q[0][1])
      /\ SignOf(i) * SignOf(j) * (n[1][1] * q[1][1])
             = SignOf(1 - i) * SignOf(j) * (b[1][1] * q[1][1])
  <2>1. b[0][1] * q[0][1] \in Int /\ b[1][1] * q[1][1] \in Int
    BY <1>2, KTwo
  <2> QED
    BY <1>3, <1>5, <2>1
<1>7. n[0][0] = b[0][0] /\ n[1][0] = b[1][0]
  BY <1>1, KTwo
<1>8. DecodedSample(n, q, i, j) = DecodedSample(b, q, 1 - i, j)
  BY <1>1, <1>3, <1>6, <1>7, DecodedWritten
<1> QED
  BY <1>1, <1>8 DEF n

\* Negating odd rows mirrors the samples of a block vertically.
LEMMA NegatedRows ==
    ASSUME NEW b \in Blocks2, NEW q \in Blocks2, NEW i \in K, NEW j \in K
    PROVE  /\ NegateOddRows(b) \in Blocks2
           /\ DecodedSample(NegateOddRows(b), q, i, j) = DecodedSample(b, q, i, 1 - j)
<1> DEFINE n == NegateOddRows(b)
<1>1. n \in Blocks2 /\ \A u \in K : n[0][u] = b[0][u] /\ n[1][u] = -b[1][u]
  BY KTwo DEF NegateOddRows, Blocks2
<1>2. \A u, v \in K : b[v][u] \in Int /\ q[v][u] \in Int
  BY DEF Blocks2
<1>3. 1 - j \in K /\ SignOf(1 - j) = -SignOf(j) /\ SignOf(i) \in {-1, 1} /\ SignOf(j) \in {-1, 1}
  BY KTwo DEF SignOf
<1> HIDE DEF n
<1>5. /\ n[1][0] * q[1][0] = -(b[1][0] * q[1][0])
      /\ n[1][1] * q[1][1] = -(b[1][1] * q[1][1])
  BY <1>1, <1>2, KTwo
<1>6. /\ SignOf(j) * (n[1][0] * q[1][0]) = SignOf(1 - j) * (b[1][0] * q[1][0])
      /\ SignOf(i) * SignOf(j) * (n[1][1] * q[1][1])
             = SignOf(i) * SignOf(1 - j) * (b[1][1] * q[1][1])
  <2>1. b[1][0] * q[1][0] \in Int /\ b[1][1] * q[1][1] \in Int
    BY <1>2, KTwo
  <2> QED
    BY <1>3, <1>5, <2>1
<1>7. n[0][0] = b[0][0] /\ n[0][1] = b[0][1]
  BY <1>1, KTwo
<1>8. DecodedSample(n, q, i, j) = DecodedSample(b, q, i, 1 - j)
  BY <1>1, <1>3, <1>6, <1>7, DecodedWritten
<1> QED
  BY <1>1, <1>8 DEF n

\* Transposing coefficients transposes the samples of a block.
LEMMA TransposedBlock ==
    ASSUME NEW b \in Blocks2, NEW q \in Blocks2, NEW i \in K, NEW j \in K
    PROVE  /\ Transposed(b) \in Blocks2
           /\ DecodedSample(Transposed(b), Transposed(q), i, j) = DecodedSample(b, q, j, i)
<1> DEFINE n == Transposed(b)
           t == Transposed(q)
<1>1. /\ n \in Blocks2 /\ t \in Blocks2
      /\ \A u, v \in K : n[v][u] = b[u][v] /\ t[v][u] = q[u][v]
  BY KTwo DEF Transposed, Blocks2
<1>2. \A u, v \in K : b[v][u] * q[v][u] \in Int
  <2>1. \A u, v \in K : b[v][u] \in Int /\ q[v][u] \in Int
    BY DEF Blocks2
  <2> QED
    BY <2>1
<1>3. SignOf(i) \in {-1, 1} /\ SignOf(j) \in {-1, 1}
  BY KTwo DEF SignOf
<1> HIDE DEF n, t
<1>4. /\ n[0][0] * t[0][0] = b[0][0] * q[0][0] /\ n[0][1] * t[0][1] = b[1][0] * q[1][0]
      /\ n[1][0] * t[1][0] = b[0][1] * q[0][1] /\ n[1][1] * t[1][1] = b[1][1] * q[1][1]
  BY <1>1, KTwo
<1>5. DecodedSample(n, t, i, j) = DecodedSample(b, q, j, i)
  <2> DEFINE A == b[0][0] * q[0][0]
             B == b[0][1] * q[0][1]
             C == b[1][0] * q[1][0]
             D == b[1][1] * q[1][1]
  <2>1. /\ DecodedSample(n, t, i, j)
             = (A + SignOf(i) * C + SignOf(j) * B + SignOf(i) * SignOf(j) * D) \div 48
        /\ DecodedSample(b, q, j, i)
             = (A + SignOf(j) * B + SignOf(i) * C + SignOf(j) * SignOf(i) * D) \div 48
    BY <1>1, <1>4, DecodedWritten
  <2>2. A \in Int /\ B \in Int /\ C \in Int /\ D \in Int
    BY <1>2, KTwo
  <2> HIDE DEF A, B, C, D
  <2> QED
    BY <1>3, <2>1, <2>2
<1> QED
  BY <1>1, <1>5 DEF n, t

\* The quantizers are numbers.
LEMMA QuantvalType == quantval \in Blocks2
BY KTwo DEF quantval, Blocks2

\* The coefficients of a block are those of its samples.
LEMMA SampleDecoded ==
    ASSUME NEW c \in Nat, NEW x \in Int, NEW y \in Int, NEW i \in K, NEW j \in K
    PROVE  /\ BlockAt(c, x, y) \in Blocks2
           /\ DecodedSample(BlockAt(c, x, y), quantval, i, j)
                = SampleAt(c, DCTSIZE * x + i, DCTSIZE * y + j)
<1> DEFINE S(a, b) == SampleAt(c, DCTSIZE * x + a, DCTSIZE * y + b)
           f(u, v) == [p \in K \X K |-> Sign(u, p[1]) * Sign(v, p[2]) * S(p[1], p[2])]
           s00 == S(0, 0)
           s01 == S(0, 1)
           s10 == S(1, 0)
           s11 == S(1, 1)
           B == BlockAt(c, x, y)
<1>1. \A a, b \in K : S(a, b) \in Int
  BY KTwo DEF SampleAt, DCTSIZE
<1>2. s00 \in Int /\ s01 \in Int /\ s10 \in Int /\ s11 \in Int
  BY <1>1, KTwo
<1>3. ASSUME NEW u \in K, NEW v \in K
      PROVE  Total(f(u, v)) = s00 + SignOf(v) * s01 + SignOf(u) * s10 + SignOf(u) * SignOf(v) * s11
  <2> DEFINE g == f(u, v)
  <2>1. \A a, b \in K : g[<<a, b>>] = Sign(u, a) * Sign(v, b) * S(a, b)
    OBVIOUS
  <2>2. \A k, l \in K : Sign(k, l) \in {-1, 1}
    BY DEF Sign
  <2>4. DOMAIN g = {<<0, 0>>, <<0, 1>>, <<1, 0>>, <<1, 1>>} /\ g = [p \in DOMAIN g |-> g[p]]
    BY CornersAll DEF Corners
  <2> HIDE DEF S, g
  <2>5. /\ Sign(u, 0) = 1 /\ Sign(v, 0) = 1 /\ Sign(u, 1) = SignOf(u) /\ Sign(v, 1) = SignOf(v)
    BY KTwo DEF Sign, SignOf
  <2>6. /\ g[<<0, 0>>] = s00 /\ g[<<0, 1>>] = SignOf(v) * s01
        /\ g[<<1, 0>>] = SignOf(u) * s10 /\ g[<<1, 1>>] = SignOf(u) * SignOf(v) * s11
    <3>1. /\ g[<<0, 0>>] = 1 * 1 * s00 /\ g[<<0, 1>>] = 1 * SignOf(v) * s01
          /\ g[<<1, 0>>] = SignOf(u) * 1 * s10 /\ g[<<1, 1>>] = SignOf(u) * SignOf(v) * s11
      BY <2>1, <2>5, KTwo
    <3>2. SignOf(u) \in {-1, 1} /\ SignOf(v) \in {-1, 1}
      BY DEF SignOf
    <3> HIDE DEF s00, s01, s10, s11
    <3> QED
      BY <1>2, <3>1, <3>2
  <2>7. SignOf(u) \in {-1, 1} /\ SignOf(v) \in {-1, 1}
    BY DEF SignOf
  <2> HIDE DEF s00, s01, s10, s11
  <2>8. \A p \in {<<0, 0>>, <<0, 1>>, <<1, 0>>, <<1, 1>>} : g[p] \in Int
    BY <1>2, <2>6, <2>7
  <2>9. g \in [{<<0, 0>>, <<0, 1>>, <<1, 0>>, <<1, 1>>} -> Int]
    BY <2>4, <2>8
  <2>10. Total(g) = g[<<0, 0>>] + g[<<0, 1>>] + g[<<1, 0>>] + g[<<1, 1>>]
    BY <2>9, TotalOfCorners DEF Corners
  <2> QED
    BY <2>6, <2>10 DEF g
<1>4. \A u, v \in K : B[v][u] = Total(f(u, v)) * (12 \div quantval[v][u])
  BY DEF BlockAt, Common
<1>5. B = [v \in K |-> [u \in K |-> B[v][u]]]
  BY DEF BlockAt
<1>6. /\ quantval[0][0] = 1 /\ quantval[0][1] = 2 /\ quantval[1][0] = 3 /\ quantval[1][1] = 4
  BY KTwo DEF quantval
<1> HIDE DEF f, B
<1>7. /\ SignOf(0) = 1 /\ SignOf(1) = -1
  BY DEF SignOf
<1>8. /\ Total(f(0, 0)) = s00 + s01 + s10 + s11 /\ Total(f(1, 0)) = s00 + s01 - s10 - s11
      /\ Total(f(0, 1)) = s00 - s01 + s10 - s11 /\ Total(f(1, 1)) = s00 - s01 - s10 + s11
  <2> HIDE DEF S, s00, s01, s10, s11
  <2>1. 0 \in K /\ 1 \in K
    BY KTwo
  <2>2. Total(f(0, 0)) = s00 + SignOf(0) * s01 + SignOf(0) * s10 + SignOf(0) * SignOf(0) * s11
    BY <1>3, <2>1
  <2>3. Total(f(1, 0)) = s00 + SignOf(0) * s01 + SignOf(1) * s10 + SignOf(1) * SignOf(0) * s11
    BY <1>3, <2>1
  <2>4. Total(f(0, 1)) = s00 + SignOf(1) * s01 + SignOf(0) * s10 + SignOf(0) * SignOf(1) * s11
    BY <1>3, <2>1
  <2>5. Total(f(1, 1)) = s00 + SignOf(1) * s01 + SignOf(1) * s10 + SignOf(1) * SignOf(1) * s11
    BY <1>3, <2>1
  <2> QED
    BY <1>2, <1>7, <2>2, <2>3, <2>4, <2>5
<1> HIDE DEF S, s00, s01, s10, s11
<1>9. /\ B[0][0] = (s00 + s01 + s10 + s11) * 12
      /\ B[0][1] = (s00 + s01 - s10 - s11) * 6
      /\ B[1][0] = (s00 - s01 + s10 - s11) * 4
      /\ B[1][1] = (s00 - s01 - s10 + s11) * 3
  <2>1. 12 \div 1 = 12 /\ 12 \div 2 = 6 /\ 12 \div 3 = 4 /\ 12 \div 4 = 3
    OBVIOUS
  <2>2. /\ B[0][0] = Total(f(0, 0)) * 12 /\ B[0][1] = Total(f(1, 0)) * 6
        /\ B[1][0] = Total(f(0, 1)) * 4 /\ B[1][1] = Total(f(1, 1)) * 3
    BY <1>4, <1>6, <2>1, KTwo
  <2> QED
    BY <1>2, <1>8, <2>2
<1>10. B \in Blocks2
  <2>1. \A u, v \in K : B[v][u] \in Int
    BY <1>2, <1>9, KTwo
  <2> QED
    BY <1>5, <2>1 DEF Blocks2
<1>11. /\ B[0][0] * quantval[0][0] = (s00 + s01 + s10 + s11) * 12
       /\ B[0][1] * quantval[0][1] = (s00 + s01 - s10 - s11) * 12
       /\ B[1][0] * quantval[1][0] = (s00 - s01 + s10 - s11) * 12
       /\ B[1][1] * quantval[1][1] = (s00 - s01 - s10 + s11) * 12
  BY <1>2, <1>6, <1>9
<1>12. DecodedSample(B, quantval, i, j) =
         ((s00 + s01 + s10 + s11) * 12 + SignOf(i) * ((s00 + s01 - s10 - s11) * 12)
            + SignOf(j) * ((s00 - s01 + s10 - s11) * 12)
            + SignOf(i) * SignOf(j) * ((s00 - s01 - s10 + s11) * 12)) \div 48
  BY <1>10, <1>11, QuantvalType, DecodedWritten
<1>13. /\ i = 0 /\ j = 0 => DecodedSample(B, quantval, i, j) = s00
       /\ i = 0 /\ j = 1 => DecodedSample(B, quantval, i, j) = s01
       /\ i = 1 /\ j = 0 => DecodedSample(B, quantval, i, j) = s10
       /\ i = 1 /\ j = 1 => DecodedSample(B, quantval, i, j) = s11
  BY <1>2, <1>7, <1>12
<1>14. DecodedSample(B, quantval, i, j) = S(i, j)
  BY <1>13, KTwo DEF s00, s01, s10, s11
<1> QED
  BY <1>10, <1>14 DEF B, S

(***************************************************************************)
(* Cropping and trimming along an axis                                     *)
(***************************************************************************)
\* The offset and the size that jtransform_request_workspace comes to along an axis.
SizedAlong(crop, full, unit, cropped, trim, mirrors, perfect, offset, size) ==
    /\ crop \in CropSpecs /\ full \in Nat \ {0} /\ unit \in Nat \ {0}
    /\ cropped \in BOOLEAN /\ trim \in BOOLEAN /\ mirrors \in BOOLEAN /\ perfect \in BOOLEAN
    /\ cropped => ValidCrop(crop, full)
    /\ perfect /\ mirrors => full % unit = 0
    /\ offset = IF cropped THEN From(crop, full) \div unit ELSE 0
    /\ LET w == IF cropped THEN Extended(crop, full, unit) ELSE full
       IN size = IF trim /\ mirrors THEN Trimmed(w, offset, full, unit) ELSE w

FramedAlong(crop, full, unit, cropped, trim, mirrors, perfect, offset, size) ==
    /\ offset \in Nat /\ size \in Nat \ {0} /\ offset * unit + size <= full
    /\ cropped => Covers(crop, full, offset, size, unit, trim /\ mirrors)
    /\ EdgeShown(mirrors, full, offset, size, unit) => ~perfect /\ (trim => size < unit)

\* What adjust_parameters and the crop leave of an axis lies in the transformed image.
LEMMA AxisFramed ==
    ASSUME NEW crop, NEW full, NEW unit, NEW cropped, NEW trim, NEW mirrors, NEW perfect,
           NEW offset, NEW size,
           SizedAlong(crop, full, unit, cropped, trim, mirrors, perfect, offset, size)
    PROVE  FramedAlong(crop, full, unit, cropped, trim, mirrors, perfect, offset, size)
<1> DEFINE w == IF cropped THEN Extended(crop, full, unit) ELSE full
<1>0. /\ crop \in CropSpecs /\ full \in Nat \ {0} /\ unit \in Nat \ {0}
      /\ cropped \in BOOLEAN /\ trim \in BOOLEAN /\ mirrors \in BOOLEAN /\ perfect \in BOOLEAN
      /\ cropped => ValidCrop(crop, full)
      /\ perfect /\ mirrors => full % unit = 0
      /\ offset = IF cropped THEN From(crop, full) \div unit ELSE 0
      /\ w = IF cropped THEN Extended(crop, full, unit) ELSE full
      /\ size = IF trim /\ mirrors THEN Trimmed(w, offset, full, unit) ELSE w
  BY DEF SizedAlong
<1> HIDE DEF w
<1> USE <1>0
<1> DEFINE from == IF cropped THEN From(crop, full) ELSE 0
           asked == IF cropped THEN Size(crop, full) ELSE full
           whole == full \div unit
           wq == w \div unit
<1>1. from \in Nat /\ asked \in Nat \ {0} /\ from + asked <= full
  <2>1. CASE cropped
    <3>1. Offset(crop) \in Nat
      BY DEF Offset, CropSpecs, NONE
    <3>2. /\ Size(crop, full) \in 1..full /\ Offset(crop) + Size(crop, full) <= full
      BY <2>1, <3>1 DEF ValidCrop
    <3> HIDE DEF Size, Offset
    <3> QED
      BY <2>1, <3>1, <3>2 DEF From
  <2>2. CASE ~cropped
    BY <2>2
  <2> QED
    BY <2>1, <2>2
<1>2. /\ offset = from \div unit
      /\ w = asked \/ w = asked + (from % unit)
      /\ cropped /\ ~crop.force => w = asked + (from % unit)
      /\ ~cropped => w = full
  <2>1. 0 \div unit = 0
    BY DividesUniquely, 0 = 0 * unit + 0
  <2> QED
    BY <2>1 DEF Extended
<1> HIDE DEF from, asked
<1>3. /\ offset \in Nat /\ from % unit \in 0..(unit - 1) /\ from = offset * unit + (from % unit)
  <2> DEFINE q == from \div unit
  <2>1. q \in Nat /\ from % unit \in 0..(unit - 1) /\ from = q * unit + (from % unit)
    BY <1>1
  <2> QED
    BY <1>2, <2>1
<1>4. offset * unit \in Nat
  BY <1>3, Product
<1>5. w \in Nat \ {0} /\ offset * unit + w <= from + asked
  BY <1>1, <1>2, <1>3, <1>4
<1>6. /\ whole \in Nat /\ full % unit \in 0..(unit - 1) /\ full = whole * unit + (full % unit)
      /\ wq \in Nat /\ w % unit \in 0..(unit - 1) /\ w = wq * unit + (w % unit)
  <2>1. /\ whole \in Nat /\ full % unit \in 0..(unit - 1)
        /\ full = whole * unit + (full % unit)
    BY Divided
  <2>2. wq \in Nat /\ w % unit \in 0..(unit - 1) /\ w = wq * unit + (w % unit)
    <3>1. \A n \in Nat : /\ n \div unit \in Nat /\ n % unit \in 0..(unit - 1)
                          /\ n = (n \div unit) * unit + (n % unit)
      OBVIOUS
    <3> QED
      BY <1>5, <3>1
  <2> QED
    BY <2>1, <2>2
<1> HIDE DEF whole, wq
<1>7. wq * unit \in Nat /\ whole * unit \in Nat
  BY <1>6, Product
<1>8. (offset + wq) * unit = offset * unit + wq * unit
  BY <1>3, <1>6
\* What is left is not trimmed, or ends at the last whole iMCU.
<1>9. \/ size = w /\ (trim /\ mirrors => ~(wq > 0 /\ offset + wq = whole))
      \/ trim /\ mirrors /\ size = wq * unit /\ wq > 0 /\ offset + wq = whole
  BY DEF Trimmed, wq, whole
<1>10. size \in Nat \ {0} /\ size <= w
  <2>1. wq > 0 => wq * unit >= unit
    BY <1>6, MonotoneProduct
  <2> QED
    BY <1>5, <1>6, <1>7, <1>9, <2>1
<1>11. cropped => Covers(crop, full, offset, size, unit, trim /\ mirrors)
  <2> SUFFICES ASSUME cropped
               PROVE  Covers(crop, full, offset, size, unit, trim /\ mirrors)
    OBVIOUS
  <2>1. from = From(crop, full) /\ asked = Size(crop, full)
    BY DEF from, asked
  <2>2. offset * unit <= from
    BY <1>3, <1>4
  <2>3. ~crop.force => offset * unit + w = from + asked
    BY <1>1, <1>2, <1>3, <1>4
  <2>4. CASE size = w
    BY <2>1, <2>2, <2>3, <2>4 DEF Covers
  <2>5. CASE size # w
    <3>1. trim /\ mirrors /\ size = wq * unit /\ offset + wq = whole
      BY <1>9, <2>5
    <3>2. offset * unit + size = whole * unit /\ size < w
      BY <1>5, <1>8, <1>10, <2>5, <3>1
    <3>3. whole * unit < from + asked
      BY <1>1, <1>4, <1>5, <1>7, <1>10, <3>2
    <3> QED
      BY <1>1, <2>1, <2>2, <3>1, <3>2, <3>3 DEF Covers, whole
  <2> QED
    BY <2>4, <2>5
<1>12. EdgeShown(mirrors, full, offset, size, unit) => ~perfect /\ (trim => size < unit)
  <2> SUFFICES ASSUME mirrors, offset + jdiv_round_up(size, unit) > whole
               PROVE  ~perfect /\ (trim => size < unit)
    BY DEF EdgeShown, whole
  <2> DEFINE q == jdiv_round_up(size, unit)
  <2>1. q \in Nat /\ q * unit < size + unit /\ offset + q > whole
    BY <1>10, RoundUp
  <2> HIDE DEF q
  <2>2. (whole + 1) * unit <= (offset + q) * unit
    BY <1>3, <1>6, <2>1, MonotoneProduct
  <2>3. /\ (offset + q) * unit = offset * unit + q * unit
        /\ (whole + 1) * unit = whole * unit + unit
    BY <1>3, <1>6, <2>1
  <2>4. q * unit \in Nat
    BY <2>1, Product
  <2>5. whole * unit < offset * unit + size
    BY <1>4, <1>7, <1>10, <2>1, <2>2, <2>3, <2>4
  <2>6. ~perfect
    BY <1>1, <1>4, <1>5, <1>6, <1>7, <1>10, <2>5
  <2>7. trim => size = w /\ ~(wq > 0 /\ offset + wq = whole)
    <3>1. wq > 0 /\ offset + wq = whole /\ size = wq * unit => FALSE
      BY <1>4, <1>7, <1>8, <2>5
    <3> QED
      BY <1>9, <3>1
  <2>8. trim => wq = 0
    <3> SUFFICES ASSUME trim, wq > 0
                 PROVE  FALSE
      BY <1>6
    <3>1. size = w /\ offset + wq # whole /\ offset + wq \in Nat
      BY <1>3, <1>6, <2>7
    <3>2. CASE offset + wq > whole
      <4>1. (whole + 1) * unit <= (offset + wq) * unit
        BY <1>6, <3>1, <3>2, MonotoneProduct
      <4> QED
        BY <1>1, <1>4, <1>5, <1>6, <1>7, <1>8, <2>3, <4>1
    <3>3. CASE offset + wq < whole
      <4>1. (offset + wq + 1) * unit <= whole * unit
        BY <1>6, <3>1, <3>3, MonotoneProduct
      <4>2. (offset + wq + 1) * unit = (offset + wq) * unit + unit
        BY <1>3, <1>6
      <4> QED
        BY <1>4, <1>6, <1>7, <1>8, <2>5, <3>1, <4>1, <4>2
    <3> QED
      BY <1>6, <3>1, <3>2, <3>3
  <2>9. wq = 0 => w < unit
    BY <1>6
  <2> QED
    BY <2>6, <2>7, <2>8, <2>9
<1>13. offset * unit + size <= full
  BY <1>1, <1>4, <1>5, <1>10
<1> QED
  BY <1>3, <1>10, <1>11, <1>12, <1>13 DEF FramedAlong

(***************************************************************************)
(* Where the blocks are                                                    *)
(***************************************************************************)
Infos ==
    [transform : Transforms, perfect : BOOLEAN, trim : BOOLEAN, force_grayscale : BOOLEAN,
     crop : BOOLEAN, crop_x : CropSpecs, crop_y : CropSpecs,
     output_width : Nat, output_height : Nat, x_crop_offset : Nat, y_crop_offset : Nat]

\* The output is in the transformed image, as it was asked for.
Framed ==
    /\ info.x_crop_offset \in Nat /\ info.output_width \in Nat \ {0}
    /\ info.x_crop_offset * iMCU_sample_width + info.output_width <= full_width
    /\ info.y_crop_offset \in Nat /\ info.output_height \in Nat \ {0}
    /\ info.y_crop_offset * iMCU_sample_height + info.output_height <= full_height
    /\ info.crop =>
          /\ Covers(info.crop_x, full_width, info.x_crop_offset, info.output_width,
                    iMCU_sample_width, info.trim /\ MirrorsColumns)
          /\ Covers(info.crop_y, full_height, info.y_crop_offset, info.output_height,
                    iMCU_sample_height, info.trim /\ MirrorsRows)
    /\ EdgeShown(MirrorsColumns, full_width, info.x_crop_offset, info.output_width,
                 iMCU_sample_width) =>
          ~info.perfect /\ (info.trim => info.output_width < iMCU_sample_width)
    /\ EdgeShown(MirrorsRows, full_height, info.y_crop_offset, info.output_height,
                 iMCU_sample_height) =>
          ~info.perfect /\ (info.trim => info.output_height < iMCU_sample_height)

\* Ready for jtransform_execute_transform.
Ready ==
    /\ src \in Pictures /\ info \in Infos /\ Framed
    /\ info.force_grayscale => CanGray
    /\ src_coef_arrays = [c \in DOMAIN src.factors |-> Padded(src, c)]
    /\ workspace_coef_arrays = IF NeedWorkspace(info) THEN Workspace(info) ELSE <<>>
    /\ dst = [factors |-> [c \in 1..num_components |-> Factors(c)],
              width |-> info.output_width, height |-> info.output_height,
              quantval |-> IF Transposing THEN Transposed(quantval) ELSE quantval]

\* The largest factor of a component is one of them.
LEMMA MaxOfFactors ==
    ASSUME NEW S \in SUBSET (1..4), S # {}
    PROVE  Max(S) \in S /\ \A x \in S : x <= Max(S)
<1>1. \E m \in S : \A x \in S : m >= x
  <2>1. CASE 4 \in S
    BY <2>1
  <2>2. CASE 4 \notin S /\ 3 \in S
    BY <2>2
  <2>3. CASE 4 \notin S /\ 3 \notin S /\ 2 \in S
    BY <2>3
  <2>4. CASE 4 \notin S /\ 3 \notin S /\ 2 \notin S
    <3>1. \A x \in S : x \in 1..4 /\ x # 4 /\ x # 3 /\ x # 2
      BY <2>4
    <3>2. \A x \in S : x = 1
      BY <3>1
    <3>3. \E m \in S : TRUE
      OBVIOUS
    <3> QED
      BY <3>2, <3>3
  <2> QED
    BY <2>1, <2>2, <2>3, <2>4
<1>2. /\ Max(S) \in S
      /\ \A x \in S : Max(S) >= x
  BY <1>1 DEF Max
<1> QED
  BY <1>2

\* The largest factors of the source are positive and not below any.
LEMMA MaxFactors ==
    ASSUME NEW factors \in Seq((1..4) \X (1..4)), factors # <<>>
    PROVE  /\ Len(factors) \in Nat \ {0} /\ DOMAIN factors = 1..Len(factors)
           /\ \A c \in 1..Len(factors) : /\ factors[c] = <<factors[c][1], factors[c][2]>>
                                         /\ factors[c][1] \in 1..4 /\ factors[c][2] \in 1..4
                                         /\ factors[c][1] <= MaxH(factors)
                                         /\ factors[c][2] <= MaxV(factors)
           /\ MaxH(factors) \in 1..4 /\ MaxV(factors) \in 1..4
           /\ Len(factors) = 1 => factors[1] = <<MaxH(factors), MaxV(factors)>>
<1>1. /\ Len(factors) \in Nat \ {0} /\ DOMAIN factors = 1..Len(factors)
      /\ \A c \in 1..Len(factors) : factors[c] \in (1..4) \X (1..4)
  OBVIOUS
<1>2. \A c \in 1..Len(factors) : /\ factors[c] = <<factors[c][1], factors[c][2]>>
                                 /\ factors[c][1] \in 1..4 /\ factors[c][2] \in 1..4
  BY <1>1
<1> DEFINE H == {factors[c][1] : c \in DOMAIN factors}
           V == {factors[c][2] : c \in DOMAIN factors}
<1>3. H \in SUBSET (1..4) /\ H # {} /\ V \in SUBSET (1..4) /\ V # {}
  BY <1>1, <1>2
<1>4. \A c \in 1..Len(factors) : factors[c][1] \in H /\ factors[c][2] \in V
  BY <1>1
<1>5. Len(factors) = 1 => H = {factors[1][1]} /\ V = {factors[1][2]}
  BY <1>1
<1>6. MaxH(factors) = Max(H) /\ MaxV(factors) = Max(V)
  BY DEF MaxH, MaxV
<1> HIDE DEF H, V
<1>7. /\ Max(H) \in H /\ \A x \in H : x <= Max(H)
      /\ Max(V) \in V /\ \A x \in V : x <= Max(V)
  BY <1>3, MaxOfFactors
<1>8. \A c \in 1..Len(factors) : factors[c][1] <= Max(H) /\ factors[c][2] <= Max(V)
  BY <1>4, <1>7
<1>9. Max(H) \in 1..4 /\ Max(V) \in 1..4
  BY <1>3, <1>7
<1>10. Len(factors) = 1 => factors[1] = <<Max(H), Max(V)>>
  <2> SUFFICES ASSUME Len(factors) = 1
               PROVE  factors[1] = <<Max(H), Max(V)>>
    OBVIOUS
  <2>1. Max(H) = factors[1][1] /\ Max(V) = factors[1][2]
    BY <1>5, <1>7
  <2> QED
    BY <1>2, <2>1
<1> QED
  BY <1>1, <1>2, <1>6, <1>8, <1>9, <1>10

\* The source has the sizes that its headers say.
LEMMA Pictured ==
    ASSUME src \in Pictures
    PROVE  /\ src.factors \in Seq((1..4) \X (1..4)) /\ src.factors # <<>>
           /\ src.width \in Nat \ {0} /\ src.height \in Nat \ {0}
           /\ num_components \in 1..Len(src.factors)
           /\ num_components = 1 \/ num_components = Len(src.factors)
           /\ src_iMCU_width \in Nat \ {0} /\ src_iMCU_height \in Nat \ {0}
           /\ iMCU_sample_width \in Nat \ {0} /\ iMCU_sample_height \in Nat \ {0}
           /\ full_width \in Nat \ {0} /\ full_height \in Nat \ {0}
           /\ \A c \in 1..num_components :
                 /\ src_factors(c)[1] \in 1..4 /\ src_factors(c)[2] \in 1..4
                 /\ Factors(c)[1] \in 1..4 /\ Factors(c)[2] \in 1..4
<1>1. /\ src.factors \in Seq((1..4) \X (1..4)) /\ src.factors # <<>>
      /\ src.width \in Nat \ {0} /\ src.height \in Nat \ {0}
  BY TransformAssumption
<1>2. /\ num_components \in 1..Len(src.factors)
      /\ num_components = 1 \/ num_components = Len(src.factors)
  BY <1>1, MaxFactors DEF num_components
<1>3. src_iMCU_width \in Nat \ {0} /\ src_iMCU_height \in Nat \ {0}
  BY <1>1, MaxFactors DEF src_iMCU_width, src_iMCU_height, DCTSIZE
<1>4. ASSUME NEW c \in 1..num_components
      PROVE  src_factors(c)[1] \in 1..4 /\ src_factors(c)[2] \in 1..4
  BY <1>1, <1>2, MaxFactors DEF src_factors
<1>5. ASSUME NEW c \in 1..num_components
      PROVE  Factors(c)[1] \in 1..4 /\ Factors(c)[2] \in 1..4
  BY <1>4 DEF Factors
<1> QED
  BY <1>1, <1>2, <1>3, <1>4, <1>5 DEF iMCU_sample_width, iMCU_sample_height, full_width, full_height

\* The iMCU of the destination.
LEMMA DstFactors ==
    ASSUME src \in Pictures, dst.factors = [c \in 1..num_components |-> Factors(c)]
    PROVE  /\ MaxH(dst.factors) * DCTSIZE = iMCU_sample_width
           /\ MaxV(dst.factors) * DCTSIZE = iMCU_sample_height
           /\ MaxH(dst.factors) \in Nat \ {0} /\ MaxV(dst.factors) \in Nat \ {0}
           /\ DOMAIN dst.factors = 1..num_components
           /\ \A c \in 1..num_components : dst.factors[c] = Factors(c)
<1> DEFINE n == num_components
<1>1. /\ src.factors \in Seq((1..4) \X (1..4)) /\ src.factors # <<>>
      /\ n = 1 \/ n = Len(src.factors)
      /\ MaxH(src.factors) \in 1..4 /\ MaxV(src.factors) \in 1..4
      /\ DOMAIN src.factors = 1..Len(src.factors)
  BY Pictured, MaxFactors
<1>2. CASE n = 1
  <2>1. \A c \in 1..1 : Factors(c) = <<1, 1>>
    BY <1>2 DEF Factors, src_factors
  <2>2. /\ {dst.factors[c][1] : c \in DOMAIN dst.factors} = {1}
        /\ {dst.factors[c][2] : c \in DOMAIN dst.factors} = {1}
    BY <1>2, <2>1
  <2>3. Max({1}) = 1
    BY MaxOfFactors
  <2>4. MaxH(dst.factors) = 1 /\ MaxV(dst.factors) = 1
    BY <2>2, <2>3 DEF MaxH, MaxV
  <2> QED
    BY <1>2, <2>4 DEF DCTSIZE, iMCU_sample_width, iMCU_sample_height, src_iMCU_width,
                      src_iMCU_height
<1>3. CASE n # 1
  <2>1. /\ {dst.factors[c][1] : c \in DOMAIN dst.factors} =
             IF Transposing THEN {src.factors[c][2] : c \in DOMAIN src.factors}
             ELSE {src.factors[c][1] : c \in DOMAIN src.factors}
        /\ {dst.factors[c][2] : c \in DOMAIN dst.factors} =
             IF Transposing THEN {src.factors[c][1] : c \in DOMAIN src.factors}
             ELSE {src.factors[c][2] : c \in DOMAIN src.factors}
    <3>1. DOMAIN dst.factors = DOMAIN src.factors
      BY <1>1, <1>3
    <3>2. \A c \in DOMAIN dst.factors :
             /\ Transposing => /\ dst.factors[c][1] = src.factors[c][2]
                               /\ dst.factors[c][2] = src.factors[c][1]
             /\ ~Transposing => dst.factors[c] = src.factors[c]
      BY <1>3 DEF Factors, src_factors
    <3>3. \A c \in DOMAIN src.factors :
             /\ Transposing => /\ dst.factors[c][1] = src.factors[c][2]
                               /\ dst.factors[c][2] = src.factors[c][1]
             /\ ~Transposing => /\ dst.factors[c][1] = src.factors[c][1]
                                /\ dst.factors[c][2] = src.factors[c][2]
      BY <3>1, <3>2
    <3>4. CASE Transposing
      <4>1. \A c \in DOMAIN src.factors : dst.factors[c][1] = src.factors[c][2]
        BY <3>3, <3>4
      <4>0. \A c \in DOMAIN src.factors : dst.factors[c][2] = src.factors[c][1]
        BY <3>3, <3>4
      <4>2. {dst.factors[c][1] : c \in DOMAIN src.factors}
            = {src.factors[c][2] : c \in DOMAIN src.factors}
        BY <4>1
      <4>3. {dst.factors[c][2] : c \in DOMAIN src.factors}
            = {src.factors[c][1] : c \in DOMAIN src.factors}
        BY <4>0
      <4> QED
        BY <3>1, <3>4, <4>2, <4>3
    <3>5. CASE ~Transposing
      <4>1. /\ \A c \in DOMAIN src.factors : dst.factors[c][1] = src.factors[c][1]
            /\ \A c \in DOMAIN src.factors : dst.factors[c][2] = src.factors[c][2]
        BY <3>3, <3>5
      <4>2. {dst.factors[c][1] : c \in DOMAIN src.factors}
            = {src.factors[c][1] : c \in DOMAIN src.factors}
        BY <4>1
      <4>3. {dst.factors[c][2] : c \in DOMAIN src.factors}
            = {src.factors[c][2] : c \in DOMAIN src.factors}
        BY <4>1
      <4> QED
        BY <3>1, <3>5, <4>2, <4>3
    <3> QED
      BY <3>4, <3>5
  <2>2. /\ MaxH(dst.factors) = IF Transposing THEN MaxV(src.factors) ELSE MaxH(src.factors)
        /\ MaxV(dst.factors) = IF Transposing THEN MaxH(src.factors) ELSE MaxV(src.factors)
    BY <2>1 DEF MaxH, MaxV
  <2> QED
    BY <1>1, <1>3, <2>2 DEF iMCU_sample_width, iMCU_sample_height, src_iMCU_width, src_iMCU_height
<1> QED
  BY <1>2, <1>3

\* The arrays hold every block with samples of the image.
LEMMA PaddedEnough ==
    ASSUME NEW size \in Nat \ {0}, NEW f \in 1..4, NEW m \in 1..4, NEW x \in Nat,
           x * (m * DCTSIZE) < size * f
    PROVE  x \in 0..(jdiv_round_up(jdiv_round_up(size * f, m * DCTSIZE), f) * f - 1)
<1> DEFINE d == m * DCTSIZE
           a == size * f
           q == jdiv_round_up(a, d)
<1>1. d \in Nat \ {0} /\ a \in Nat
  BY DEF DCTSIZE
<1> HIDE DEF d, a
<1>2. q \in Nat /\ x < q
  <2>1. q \in Nat /\ \A y \in Int : y < q <=> y * d < a
    BY <1>1, RoundUp
  <2>2. x * d < a
    BY DEF d, a
  <2> QED
    BY <2>1, <2>2
<1> HIDE DEF q
<1>3. jdiv_round_up(q, f) \in Nat /\ q <= jdiv_round_up(q, f) * f
  <2>1. f \in Nat \ {0}
    OBVIOUS
  <2> QED
    BY <1>2, <2>1, RoundUp
<1>4. jdiv_round_up(q, f) * f \in Nat
  BY <1>3, Product
<1> QED
  BY <1>2, <1>3, <1>4 DEF q, a, d

\* The block of a position of the source is in its arrays.
LEMMA Sources ==
    ASSUME Ready, NEW c \in 1..num_components, NEW x \in Nat, NEW y \in Nat,
           x * src_iMCU_width < src.width * src_factors(c)[1],
           y * src_iMCU_height < src.height * src_factors(c)[2]
    PROVE  /\ c \in DOMAIN src_coef_arrays /\ y \in DOMAIN src_coef_arrays[c]
           /\ x \in DOMAIN src_coef_arrays[c][y]
           /\ Source(c, x, y) = BlockAt(c, x, y)
<1> DEFINE f == src.factors[c]
<1>1. /\ src.factors \in Seq((1..4) \X (1..4)) /\ src.factors # <<>>
      /\ src.width \in Nat \ {0} /\ src.height \in Nat \ {0}
      /\ num_components \in 1..Len(src.factors)
      /\ num_components = 1 \/ num_components = Len(src.factors)
      /\ src \in Pictures
  BY Pictured DEF Ready
<1>2. /\ DOMAIN src.factors = 1..Len(src.factors)
      /\ MaxH(src.factors) \in 1..4 /\ MaxV(src.factors) \in 1..4
      /\ f[1] \in 1..4 /\ f[2] \in 1..4
      /\ Len(src.factors) = 1 => f = <<MaxH(src.factors), MaxV(src.factors)>>
  BY <1>1, MaxFactors
\* The only component of several that is left has the largest factors.
<1>3. num_components = 1 => f = <<MaxH(src.factors), MaxV(src.factors)>>
  BY <1>2 DEF Ready, CanGray, num_components
<1>4. /\ x * (MaxH(src.factors) * DCTSIZE) < src.width * f[1]
      /\ y * (MaxV(src.factors) * DCTSIZE) < src.height * f[2]
  <2>1. CASE num_components = 1
    <3> DEFINE h == MaxH(src.factors)
               v == MaxV(src.factors)
    <3>1. x * 2 < src.width /\ y * 2 < src.height
      BY <1>1, <2>1 DEF src_iMCU_width, src_iMCU_height, src_factors, DCTSIZE
    <3>2. f[1] = h /\ f[2] = v /\ h \in 1..4 /\ v \in 1..4
      BY <1>2, <1>3, <2>1
    <3> HIDE DEF f, h, v
    <3>3. x * (h * 2) < src.width * h /\ y * (v * 2) < src.height * v
      BY <1>1, <3>1, <3>2
    <3> QED
      BY <3>2, <3>3 DEF DCTSIZE, h, v
  <2>2. CASE num_components # 1
    BY <2>2 DEF src_iMCU_width, src_iMCU_height, src_factors
  <2> QED
    BY <2>1, <2>2
<1>5. /\ x \in 0..(jdiv_round_up(jdiv_round_up(src.width * f[1], MaxH(src.factors) * DCTSIZE), f[1])
                  * f[1] - 1)
      /\ y \in 0..(jdiv_round_up(jdiv_round_up(src.height * f[2], MaxV(src.factors) * DCTSIZE),
                                f[2])
                  * f[2] - 1)
  BY <1>1, <1>2, <1>4, PaddedEnough
<1>6. c \in DOMAIN src.factors /\ src_coef_arrays[c] = Padded(src, c)
  BY <1>1, <1>2 DEF Ready
<1> QED
  BY <1>5, <1>6 DEF Ready, Padded, Source

\* The blocks that the samples of the output are in, along an axis.
BlocksRight(size, F, m, full, offset, x) ==
    LET b == x \div DCTSIZE
        unit == m * DCTSIZE
    IN  /\ b \in Nat
        /\ b < jdiv_round_up(size * F, unit)
        /\ b \in 0..(jdiv_round_up(size, unit) * F - 1)
        /\ (b + offset * F) * unit < full * F

\* The blocks of an axis of the output are in the axis of the source.
LEMMA AxisBlocks ==
    ASSUME NEW size \in Nat \ {0}, NEW F \in 1..4, NEW m \in Nat \ {0}, NEW full \in Nat \ {0},
           NEW offset \in Nat, offset * (m * DCTSIZE) + size <= full,
           NEW x \in 0..(jdiv_round_up(size * F, m) - 1)
    PROVE  BlocksRight(size, F, m, full, offset, x)
<1> DEFINE u == m * DCTSIZE
           b == x \div DCTSIZE
           q == jdiv_round_up(size, u)
<1>1. u \in Nat \ {0} /\ u = m + m /\ size * F \in Nat
  BY DEF DCTSIZE
<1>2. x \in Nat /\ x * m < size * F
  <2>1. /\ jdiv_round_up(size * F, m) \in Nat
        /\ \A k \in Int : k < jdiv_round_up(size * F, m) <=> k * m < size * F
    BY <1>1, RoundUp
  <2> QED
    BY <2>1
<1>3. b \in Nat /\ b + b <= x
  BY <1>2 DEF DCTSIZE
<1> HIDE DEF u, b
<1>4. b * u <= x * m
  <2>1. (b + b) * m <= x * m
    BY <1>2, <1>3, MonotoneProduct
  <2>2. (b + b) * m = b * u
    BY <1>1, <1>3
  <2> QED
    BY <2>1, <2>2
<1>5. b * u < size * F
  BY <1>1, <1>2, <1>3, <1>4
<1>6. b < jdiv_round_up(size * F, u)
  <2>1. \A k \in Int : k < jdiv_round_up(size * F, u) <=> k * u < size * F
    BY <1>1, RoundUp
  <2> QED
    BY <1>3, <1>5, <2>1
<1>7. q \in Nat /\ size <= q * u
  BY <1>1, RoundUp
<1> HIDE DEF q
<1>8. b < q * F
  <2>1. size * F <= (q * u) * F
    BY <1>1, <1>7
  <2>2. (q * u) * F = (q * F) * u /\ q * F \in Nat
    BY <1>1, <1>7
  <2>3. b * u < (q * F) * u
    BY <1>1, <1>3, <1>5, <2>1, <2>2
  <2> QED
    BY <1>1, <1>3, <2>2, <2>3, MonotoneProduct
<1>9. (b + offset * F) * u < full * F
  <2>1. (b + offset * F) * u = b * u + (offset * u) * F /\ offset * u \in Nat
    BY <1>1, <1>3
  <2>2. (offset * u + size) * F <= full * F
    BY <1>1, <2>1 DEF u
  <2>3. (offset * u + size) * F = (offset * u) * F + size * F
    BY <2>1
  <2> QED
    BY <1>1, <1>3, <1>5, <2>1, <2>2, <2>3
<1>10. q * F \in Nat
  BY <1>7
<1> QED
  BY <1>3, <1>6, <1>8, <1>9, <1>10 DEF b, q, u, BlocksRight

\* The blocks of whole iMCUs along an axis.
Whole(size, unit, f) == (size \div unit) * f

\* A mirrored sample is in the mirrored block, at the mirrored place.
FlippedRight(size, unit, f, x, i) ==
    LET w == Whole(size, unit, f)
    IN  /\ w \in Nat
        /\ x < w => /\ w - x - 1 \in Nat
                    /\ (w - x - 1) * unit < size * f
                    /\ FlippedFrom(DCTSIZE * x + i, size, unit, f)
                         = DCTSIZE * (w - x - 1) + (1 - i)
        /\ ~(x < w) => FlippedFrom(DCTSIZE * x + i, size, unit, f) = DCTSIZE * x + i

\* Mirroring an axis mirrors whole blocks and leaves the edge.
LEMMA Flipped ==
    ASSUME NEW size \in Nat \ {0}, NEW unit \in Nat \ {0}, NEW f \in 1..4, NEW x \in Nat,
           NEW i \in K, x * unit < size * f
    PROVE  FlippedRight(size, unit, f, x, i)
<1> DEFINE q == size \div unit
           w == Whole(size, unit, f)
           p == DCTSIZE * x + i
<1>0. w = q * f
  BY DEF Whole
<1>1. q \in Nat /\ q * unit <= size
  <2>1. size % unit \in 0..(unit - 1) /\ size = q * unit + (size % unit) /\ q \in Nat
    OBVIOUS
  <2> HIDE DEF q
  <2>2. q * unit \in Nat
    BY <2>1
  <2> QED
    BY <2>1, <2>2
<1>2. FlippedFrom(p, size, unit, f) = IF p < w * DCTSIZE THEN w * DCTSIZE - 1 - p ELSE p
  BY <1>0 DEF FlippedFrom
<1>3. i \in {0, 1} /\ p = 2 * x + i
  BY KTwo DEF DCTSIZE
<1> HIDE DEF q, w, p
<1>4. w \in Nat
  BY <1>0, <1>1
<1>5. w * unit <= size * f /\ w * unit \in Nat /\ size * f \in Nat
  <2>1. (q * unit) * f <= size * f
    BY <1>1
  <2>2. (q * unit) * f = w * unit
    BY <1>0, <1>1
  <2> QED
    BY <1>4, <2>1, <2>2
<1>6. ASSUME x < w
      PROVE  /\ w - x - 1 \in Nat /\ (w - x - 1) * unit < size * f
             /\ FlippedFrom(p, size, unit, f) = 2 * (w - x - 1) + (1 - i)
  <2>1. w - x - 1 \in Nat
    BY <1>4, <1>6
  <2>2. (w - x - 1) * unit < w * unit
    BY <1>4, <2>1, MonotoneProduct
  <2>3. (w - x - 1) * unit \in Nat
    BY <2>1
  <2>4. p < w * 2 /\ w * 2 - 1 - p = 2 * (w - x - 1) + (1 - i)
    BY <1>3, <1>4, <1>6
  <2> QED
    BY <1>2, <1>5, <2>1, <2>2, <2>3, <2>4 DEF DCTSIZE
<1>7. ~(x < w) => FlippedFrom(p, size, unit, f) = p
  BY <1>2, <1>3, <1>4 DEF DCTSIZE
<1> QED
  BY <1>4, <1>6, <1>7 DEF w, p, FlippedRight, DCTSIZE

\* The blocks of a component of the source that are mirrored.
whole_columns(c) == Whole(src.width, src_iMCU_width, src_factors(c)[1])
whole_rows(c) == Whole(src.height, src_iMCU_height, src_factors(c)[2])

Inside(c, u, v) ==
    /\ u * src_iMCU_width < src.width * src_factors(c)[1]
    /\ v * src_iMCU_height < src.height * src_factors(c)[2]
FlipColumn(c, u) == IF u < whole_columns(c) THEN whole_columns(c) - u - 1 ELSE u
FlipRow(c, v) == IF v < whole_rows(c) THEN whole_rows(c) - v - 1 ELSE v

\* Where the blocks and the samples of the output come from.
LEMMA Places ==
    ASSUME Ready, NEW c \in 1..num_components, NEW u \in Nat, NEW v \in Nat, Inside(c, u, v),
           NEW i \in K, NEW j \in K
    PROVE  /\ FlipColumn(c, u) \in Nat /\ FlipRow(c, v) \in Nat
           /\ \A z : FlipH(c, <<DCTSIZE * u + i, z>>) =
                       <<DCTSIZE * FlipColumn(c, u)
                            + (IF u < whole_columns(c) THEN 1 - i ELSE i), z>>
           /\ \A z : FlipV(c, <<z, DCTSIZE * v + j>>) =
                       <<z, DCTSIZE * FlipRow(c, v) + (IF v < whole_rows(c) THEN 1 - j ELSE j)>>
           /\ Source(c, u, v) = BlockAt(c, u, v)
           /\ Source(c, FlipColumn(c, u), v) = BlockAt(c, FlipColumn(c, u), v)
           /\ Source(c, u, FlipRow(c, v)) = BlockAt(c, u, FlipRow(c, v))
           /\ Source(c, FlipColumn(c, u), FlipRow(c, v))
                  = BlockAt(c, FlipColumn(c, u), FlipRow(c, v))
<1>1. /\ src.width \in Nat \ {0} /\ src.height \in Nat \ {0}
      /\ src_iMCU_width \in Nat \ {0} /\ src_iMCU_height \in Nat \ {0}
      /\ src_factors(c)[1] \in 1..4 /\ src_factors(c)[2] \in 1..4
  BY Pictured DEF Ready
<1>2. /\ whole_columns(c) \in Nat
      /\ u < whole_columns(c) =>
           /\ whole_columns(c) - u - 1 \in Nat
           /\ (whole_columns(c) - u - 1) * src_iMCU_width < src.width * src_factors(c)[1]
           /\ FlippedFrom(DCTSIZE * u + i, src.width, src_iMCU_width, src_factors(c)[1])
                = DCTSIZE * (whole_columns(c) - u - 1) + (1 - i)
      /\ ~(u < whole_columns(c)) =>
           FlippedFrom(DCTSIZE * u + i, src.width, src_iMCU_width, src_factors(c)[1])
             = DCTSIZE * u + i
  <2>1. u * src_iMCU_width < src.width * src_factors(c)[1]
    BY DEF Inside
  <2>2. FlippedRight(src.width, src_iMCU_width, src_factors(c)[1], u, i)
    BY <1>1, <2>1, Flipped
  <2> QED
    BY <2>2 DEF FlippedRight, whole_columns
<1>3. /\ whole_rows(c) \in Nat
      /\ v < whole_rows(c) =>
           /\ whole_rows(c) - v - 1 \in Nat
           /\ (whole_rows(c) - v - 1) * src_iMCU_height < src.height * src_factors(c)[2]
           /\ FlippedFrom(DCTSIZE * v + j, src.height, src_iMCU_height, src_factors(c)[2])
                = DCTSIZE * (whole_rows(c) - v - 1) + (1 - j)
      /\ ~(v < whole_rows(c)) =>
           FlippedFrom(DCTSIZE * v + j, src.height, src_iMCU_height, src_factors(c)[2])
             = DCTSIZE * v + j
  <2>1. v * src_iMCU_height < src.height * src_factors(c)[2]
    BY DEF Inside
  <2>2. FlippedRight(src.height, src_iMCU_height, src_factors(c)[2], v, j)
    BY <1>1, <2>1, Flipped
  <2> QED
    BY <2>2 DEF FlippedRight, whole_rows
<1>4. /\ FlipColumn(c, u) \in Nat
      /\ FlipColumn(c, u) * src_iMCU_width < src.width * src_factors(c)[1]
      /\ FlipRow(c, v) \in Nat
      /\ FlipRow(c, v) * src_iMCU_height < src.height * src_factors(c)[2]
  BY <1>2, <1>3 DEF FlipColumn, FlipRow, Inside
<1>5. \A z : FlipH(c, <<DCTSIZE * u + i, z>>) =
               <<DCTSIZE * FlipColumn(c, u) + (IF u < whole_columns(c) THEN 1 - i ELSE i), z>>
  BY <1>2 DEF FlipH, FlipColumn
<1>6. \A z : FlipV(c, <<z, DCTSIZE * v + j>>) =
               <<z, DCTSIZE * FlipRow(c, v) + (IF v < whole_rows(c) THEN 1 - j ELSE j)>>
  BY <1>3 DEF FlipV, FlipRow
<1>7. /\ Source(c, u, v) = BlockAt(c, u, v)
      /\ Source(c, FlipColumn(c, u), v) = BlockAt(c, FlipColumn(c, u), v)
      /\ Source(c, u, FlipRow(c, v)) = BlockAt(c, u, FlipRow(c, v))
      /\ Source(c, FlipColumn(c, u), FlipRow(c, v)) = BlockAt(c, FlipColumn(c, u), FlipRow(c, v))
  BY <1>4, Sources DEF Inside
<1> QED
  BY <1>4, <1>5, <1>6, <1>7

\* The quantization tables are transposed with the image.
LEMMA DstQuantval ==
    ASSUME Ready
    PROVE  /\ ~Transposing => dst.quantval = quantval
           /\ Transposing => dst.quantval = Transposed(quantval)
BY DEF Ready

\* The output is in the transformed image, component by component and block by block.
LEMMA CompSizes ==
    ASSUME Ready, NEW c \in 1..num_components
    PROVE  /\ ~Transposing => comp_width(c) = whole_columns(c) /\ comp_height(c) = whole_rows(c)
           /\ Transposing => comp_width(c) = whole_rows(c) /\ comp_height(c) = whole_columns(c)
<1>1. src \in Pictures /\ dst.factors = [k \in 1..num_components |-> Factors(k)]
  BY DEF Ready
<1>2. /\ MaxH(dst.factors) * DCTSIZE = iMCU_sample_width
      /\ MaxV(dst.factors) * DCTSIZE = iMCU_sample_height
      /\ dst.factors[c] = Factors(c)
  BY <1>1, DstFactors
<1>3. /\ comp_width(c) = (full_width \div iMCU_sample_width) * Factors(c)[1]
      /\ comp_height(c) = (full_height \div iMCU_sample_height) * Factors(c)[2]
  BY <1>2 DEF comp_width, comp_height
<1> QED
  BY <1>3 DEF full_width, full_height, iMCU_sample_width, iMCU_sample_height, Factors,
              whole_columns, whole_rows, Whole

\* A sample of the output is in a block of its arrays.
LEMMA OutputBlocks ==
    ASSUME Ready, NEW c \in 1..num_components,
           NEW x \in 0..(OutputSize(c)[1] - 1), NEW y \in 0..(OutputSize(c)[2] - 1)
    PROVE  LET bx == x \div DCTSIZE
               by == y \div DCTSIZE
           IN  /\ bx \in Nat /\ by \in Nat
               /\ x = DCTSIZE * bx + (x % DCTSIZE) /\ x % DCTSIZE \in K
               /\ y = DCTSIZE * by + (y % DCTSIZE) /\ y % DCTSIZE \in K
               /\ bx < dst_width_in_blocks(c) /\ by < dst_height_in_blocks(c)
               /\ bx \in 0..(jdiv_round_up(info.output_width, iMCU_sample_width)
                           * Factors(c)[1] - 1)
               /\ by \in 0..(jdiv_round_up(info.output_height, iMCU_sample_height)
                           * Factors(c)[2] - 1)
               /\ x_crop_blocks(c) \in Nat /\ y_crop_blocks(c) \in Nat
               /\ ~Transposing => Inside(c, bx + x_crop_blocks(c), by + y_crop_blocks(c))
               /\ Transposing => Inside(c, by + y_crop_blocks(c), bx + x_crop_blocks(c))
<1> DEFINE bx == x \div DCTSIZE
           by == y \div DCTSIZE
<1>1. /\ src \in Pictures /\ dst.factors = [k \in 1..num_components |-> Factors(k)]
      /\ dst.width = info.output_width /\ dst.height = info.output_height
      /\ Framed
  BY DEF Ready
<1>2. /\ MaxH(dst.factors) * DCTSIZE = iMCU_sample_width
      /\ MaxV(dst.factors) * DCTSIZE = iMCU_sample_height
      /\ MaxH(dst.factors) \in Nat \ {0} /\ MaxV(dst.factors) \in Nat \ {0}
      /\ dst.factors[c] = Factors(c)
  BY <1>1, DstFactors
<1>3. /\ full_width \in Nat \ {0} /\ full_height \in Nat \ {0}
      /\ Factors(c)[1] \in 1..4 /\ Factors(c)[2] \in 1..4
      /\ info.x_crop_offset \in Nat /\ info.y_crop_offset \in Nat
      /\ info.output_width \in Nat \ {0} /\ info.output_height \in Nat \ {0}
      /\ info.x_crop_offset * iMCU_sample_width + info.output_width <= full_width
      /\ info.y_crop_offset * iMCU_sample_height + info.output_height <= full_height
  BY <1>1, Pictured DEF Framed
<1>4. /\ x \in 0..(jdiv_round_up(info.output_width * Factors(c)[1], MaxH(dst.factors)) - 1)
      /\ y \in 0..(jdiv_round_up(info.output_height * Factors(c)[2], MaxV(dst.factors)) - 1)
  BY <1>1, <1>2 DEF OutputSize
<1>5. /\ bx \in Nat
      /\ bx < jdiv_round_up(info.output_width * Factors(c)[1], iMCU_sample_width)
      /\ bx \in 0..(jdiv_round_up(info.output_width, iMCU_sample_width) * Factors(c)[1] - 1)
      /\ (bx + info.x_crop_offset * Factors(c)[1]) * iMCU_sample_width < full_width * Factors(c)[1]
  <2>1. info.x_crop_offset * (MaxH(dst.factors) * DCTSIZE) + info.output_width <= full_width
    BY <1>2, <1>3
  <2>2. BlocksRight(info.output_width, Factors(c)[1], MaxH(dst.factors), full_width,
                    info.x_crop_offset, x)
    BY <1>2, <1>3, <1>4, <2>1, AxisBlocks
  <2> QED
    BY <1>2, <2>2 DEF BlocksRight
<1>6. /\ by \in Nat
      /\ by < jdiv_round_up(info.output_height * Factors(c)[2], iMCU_sample_height)
      /\ by \in 0..(jdiv_round_up(info.output_height, iMCU_sample_height) * Factors(c)[2] - 1)
      /\ (by + info.y_crop_offset * Factors(c)[2]) * iMCU_sample_height
           < full_height * Factors(c)[2]
  <2>1. info.y_crop_offset * (MaxV(dst.factors) * DCTSIZE) + info.output_height <= full_height
    BY <1>2, <1>3
  <2>2. BlocksRight(info.output_height, Factors(c)[2], MaxV(dst.factors), full_height,
                    info.y_crop_offset, y)
    BY <1>2, <1>3, <1>4, <2>1, AxisBlocks
  <2> QED
    BY <1>2, <2>2 DEF BlocksRight
<1>7. /\ x = DCTSIZE * bx + (x % DCTSIZE) /\ x % DCTSIZE \in K
      /\ y = DCTSIZE * by + (y % DCTSIZE) /\ y % DCTSIZE \in K
  BY <1>4 DEF DCTSIZE, K
<1>8. /\ x_crop_blocks(c) = info.x_crop_offset * Factors(c)[1]
      /\ y_crop_blocks(c) = info.y_crop_offset * Factors(c)[2]
      /\ x_crop_blocks(c) \in Nat /\ y_crop_blocks(c) \in Nat
  BY <1>2, <1>3 DEF x_crop_blocks, y_crop_blocks
<1>9. /\ bx < dst_width_in_blocks(c) /\ by < dst_height_in_blocks(c)
  BY <1>1, <1>2, <1>5, <1>6 DEF dst_width_in_blocks, dst_height_in_blocks
<1> HIDE DEF bx, by
<1>10. /\ ~Transposing => Inside(c, bx + x_crop_blocks(c), by + y_crop_blocks(c))
       /\ Transposing => Inside(c, by + y_crop_blocks(c), bx + x_crop_blocks(c))
  BY <1>5, <1>6, <1>8 DEF Inside, full_width, full_height, iMCU_sample_width,
                          iMCU_sample_height, Factors
<1> QED
  BY <1>5, <1>6, <1>7, <1>8, <1>9, <1>10 DEF bx, by

\* What a block of the output is to look like.
ShownBy(b, c, X, Y) ==
    \A i, j \in K :
        LET p == Origin(c, <<DCTSIZE * X + i, DCTSIZE * Y + j>>)
        IN DecodedSample(b, dst.quantval, i, j) = SampleAt(c, p[1], p[2])

\* The blocks of the image that a transformation uses.
Decodes(b, c, u, v) ==
    /\ b \in Blocks2
    /\ \A i, j \in K : DecodedSample(b, quantval, i, j)
                         = SampleAt(c, DCTSIZE * u + i, DCTSIZE * v + j)

\* A block of the source decodes to its samples.
LEMMA SourceDecoded ==
    ASSUME NEW c \in Nat, NEW u \in Nat, NEW v \in Nat
    PROVE  Decodes(BlockAt(c, u, v), c, u, v)
<1>1. 0 \in K
  BY KTwo
<1> QED
  BY <1>1, SampleDecoded DEF Decodes

\* What becomes of samples in a block, by the transformation of the block.
LEMMA BlockTransformed ==
    ASSUME NEW b \in Blocks2, NEW i \in K, NEW j \in K
    PROVE  /\ DecodedSample(NegateOddColumns(b), quantval, i, j)
                  = DecodedSample(b, quantval, 1 - i, j)
           /\ DecodedSample(NegateOddRows(b), quantval, i, j) = DecodedSample(b, quantval, i, 1 - j)
           /\ DecodedSample(NegateOddColumns(NegateOddRows(b)), quantval, i, j)
                = DecodedSample(b, quantval, 1 - i, 1 - j)
           /\ DecodedSample(Transposed(b), Transposed(quantval), i, j)
                = DecodedSample(b, quantval, j, i)
           /\ DecodedSample(Transposed(NegateOddColumns(b)), Transposed(quantval), i, j)
                = DecodedSample(b, quantval, 1 - j, i)
           /\ DecodedSample(Transposed(NegateOddRows(b)), Transposed(quantval), i, j)
                = DecodedSample(b, quantval, j, 1 - i)
           /\ DecodedSample(Transposed(NegateOddColumns(NegateOddRows(b))), Transposed(quantval),
                            i, j)
                = DecodedSample(b, quantval, 1 - j, 1 - i)
<1>1. 1 - i \in K /\ 1 - j \in K
  BY KTwo
<1>2. /\ NegateOddColumns(b) \in Blocks2 /\ NegateOddRows(b) \in Blocks2
      /\ \A k, l \in K :
           /\ DecodedSample(NegateOddColumns(b), quantval, k, l)
                  = DecodedSample(b, quantval, 1 - k, l)
           /\ DecodedSample(NegateOddRows(b), quantval, k, l) = DecodedSample(b, quantval, k, 1 - l)
  BY NegatedColumns, NegatedRows, QuantvalType
<1>3. /\ NegateOddColumns(NegateOddRows(b)) \in Blocks2
      /\ \A k, l \in K : DecodedSample(NegateOddColumns(NegateOddRows(b)), quantval, k, l)
                            = DecodedSample(NegateOddRows(b), quantval, 1 - k, l)
  BY <1>2, NegatedColumns, QuantvalType
<1>4. \A d \in Blocks2 : DecodedSample(Transposed(d), Transposed(quantval), i, j)
                            = DecodedSample(d, quantval, j, i)
  BY TransposedBlock, QuantvalType
<1> QED
  BY <1>1, <1>2, <1>3, <1>4

(***************************************************************************)
(* What each routine makes of the blocks it takes: the block at <<X, Y>>   *)
(* of the transformed image                                                *)
(***************************************************************************)
LEMMA SourcesDecoded ==
    ASSUME Ready, NEW c \in 1..num_components, NEW u \in Nat, NEW v \in Nat, Inside(c, u, v)
    PROVE  /\ Decodes(Source(c, u, v), c, u, v)
           /\ Decodes(Source(c, FlipColumn(c, u), v), c, FlipColumn(c, u), v)
           /\ Decodes(Source(c, u, FlipRow(c, v)), c, u, FlipRow(c, v))
           /\ Decodes(Source(c, FlipColumn(c, u), FlipRow(c, v)),
                      c, FlipColumn(c, u), FlipRow(c, v))
<1>1. c \in Nat
  BY Pictured, MaxFactors DEF Ready
<1>2. 0 \in K
  BY KTwo
<1>3. /\ FlipColumn(c, u) \in Nat /\ FlipRow(c, v) \in Nat
      /\ Source(c, u, v) = BlockAt(c, u, v)
      /\ Source(c, FlipColumn(c, u), v) = BlockAt(c, FlipColumn(c, u), v)
      /\ Source(c, u, FlipRow(c, v)) = BlockAt(c, u, FlipRow(c, v))
      /\ Source(c, FlipColumn(c, u), FlipRow(c, v)) = BlockAt(c, FlipColumn(c, u), FlipRow(c, v))
  BY <1>2, Places
<1> QED
  BY <1>1, <1>3, SourceDecoded

\* A block that is copied shows the right samples.
LEMMA SameShown ==
    ASSUME Ready, info.transform = "NONE",
           NEW c \in 1..num_components, NEW X \in Nat, NEW Y \in Nat, Inside(c, X, Y)
    PROVE  ShownBy(Source(c, X, Y), c, X, Y)
<1>1. ~Transposing
  BY DEF Transposing
<1>2. /\ dst.quantval = quantval
      /\ comp_width(c) = whole_columns(c)
      /\ comp_height(c) = whole_rows(c)
  BY <1>1, CompSizes, DstQuantval
<1>3. /\ MirroredX(c, X) = FlipColumn(c, X)
      /\ MirroredY(c, Y) = FlipRow(c, Y)
  BY <1>2 DEF MirroredX, MirroredY, FlipColumn, FlipRow
<1>4. SUFFICES ASSUME NEW i \in K, NEW j \in K
               PROVE  LET b == Source(c, X, Y)
                          p == Origin(c, <<DCTSIZE * X + i, DCTSIZE * Y + j>>)
                      IN DecodedSample(b, dst.quantval, i, j) = SampleAt(c, p[1], p[2])
  BY DEF ShownBy
<1>5. /\ Decodes(Source(c, X, Y), c, X, Y)
      /\ Decodes(Source(c, FlipColumn(c, X), Y), c, FlipColumn(c, X), Y)
      /\ Decodes(Source(c, X, FlipRow(c, Y)), c, X, FlipRow(c, Y))
      /\ Decodes(Source(c, FlipColumn(c, X), FlipRow(c, Y)), c, FlipColumn(c, X), FlipRow(c, Y))
  BY SourcesDecoded
<1>6. /\ \A z : FlipH(c, <<DCTSIZE * X + i, z>>) =
               <<DCTSIZE * FlipColumn(c, X) + (IF X < whole_columns(c) THEN 1 - i ELSE i), z>>
      /\ \A z : FlipV(c, <<z, DCTSIZE * Y + j>>) =
               <<z, DCTSIZE * FlipRow(c, Y) + (IF Y < whole_rows(c) THEN 1 - j ELSE j)>>
  BY Places
<1>7. 1 - i \in K /\ 1 - j \in K
  BY KTwo
<1>8. Swap(<<DCTSIZE * X + i, DCTSIZE * Y + j>>) = <<DCTSIZE * Y + j, DCTSIZE * X + i>>
  BY DEF Swap
<1>9. Origin(c, <<DCTSIZE * X + i, DCTSIZE * Y + j>>) = <<DCTSIZE * X + i, DCTSIZE * Y + j>>
  BY <1>8 DEF Origin
<1>10. Origin(c, <<DCTSIZE * X + i, DCTSIZE * Y + j>>) =
         <<DCTSIZE * X + i,
           DCTSIZE * Y + j>>
  BY <1>6, <1>9
<1> DEFINE s == Source(c, X, Y)
           p == Origin(c, <<DCTSIZE * X + i, DCTSIZE * Y + j>>)
<1>11. /\ s \in Blocks2
       /\ \A k, l \in K : DecodedSample(s, quantval, k, l)
                            = SampleAt(c, DCTSIZE * X + k, DCTSIZE * Y + l)
  BY <1>5 DEF Decodes
<1>12. DecodedSample(s, quantval, i, j) = SampleAt(c, p[1], p[2])
  BY <1>7, <1>10, <1>11
<1>13. /\ DecodedSample(NegateOddColumns(s), quantval, i, j) = DecodedSample(s, quantval, 1 - i, j)
       /\ DecodedSample(NegateOddRows(s), quantval, i, j) = DecodedSample(s, quantval, i, 1 - j)
       /\ DecodedSample(NegateOddColumns(NegateOddRows(s)), quantval, i, j)
            = DecodedSample(s, quantval, 1 - i, 1 - j)
       /\ DecodedSample(Transposed(s), Transposed(quantval), i, j)
              = DecodedSample(s, quantval, j, i)
       /\ DecodedSample(Transposed(NegateOddColumns(s)), Transposed(quantval), i, j)
            = DecodedSample(s, quantval, 1 - j, i)
       /\ DecodedSample(Transposed(NegateOddRows(s)), Transposed(quantval), i, j)
            = DecodedSample(s, quantval, j, 1 - i)
       /\ DecodedSample(Transposed(NegateOddColumns(NegateOddRows(s))), Transposed(quantval), i, j)
            = DecodedSample(s, quantval, 1 - j, 1 - i)
  BY <1>11, BlockTransformed
<1>14. /\ ~(X < whole_columns(c)) => FlipColumn(c, X) = X
       /\ ~(Y < whole_rows(c)) => FlipRow(c, Y) = Y
  BY DEF FlipColumn, FlipRow
<1> HIDE DEF p
<1> QED
  BY <1>2, <1>3, <1>12, <1>13, <1>14 DEF p

\* The same of one that is mirrored horizontally.
LEMMA FlipHShown ==
    ASSUME Ready, info.transform = "FLIP_H",
           NEW c \in 1..num_components, NEW X \in Nat, NEW Y \in Nat, Inside(c, X, Y)
    PROVE  ShownBy(IF X < comp_width(c) THEN NegateOddColumns(Source(c, MirroredX(c, X), Y))
                   ELSE Source(c, X, Y), c, X, Y)
<1>1. ~Transposing
  BY DEF Transposing
<1>2. /\ dst.quantval = quantval
      /\ comp_width(c) = whole_columns(c)
      /\ comp_height(c) = whole_rows(c)
  BY <1>1, CompSizes, DstQuantval
<1>3. /\ MirroredX(c, X) = FlipColumn(c, X)
      /\ MirroredY(c, Y) = FlipRow(c, Y)
  BY <1>2 DEF MirroredX, MirroredY, FlipColumn, FlipRow
<1>4. SUFFICES ASSUME NEW i \in K, NEW j \in K
               PROVE  LET b == IF X < comp_width(c)
                                   THEN NegateOddColumns(Source(c, MirroredX(c, X), Y))
                                 ELSE Source(c, X, Y)
                          p == Origin(c, <<DCTSIZE * X + i, DCTSIZE * Y + j>>)
                      IN DecodedSample(b, dst.quantval, i, j) = SampleAt(c, p[1], p[2])
  BY DEF ShownBy
<1>5. /\ Decodes(Source(c, X, Y), c, X, Y)
      /\ Decodes(Source(c, FlipColumn(c, X), Y), c, FlipColumn(c, X), Y)
      /\ Decodes(Source(c, X, FlipRow(c, Y)), c, X, FlipRow(c, Y))
      /\ Decodes(Source(c, FlipColumn(c, X), FlipRow(c, Y)), c, FlipColumn(c, X), FlipRow(c, Y))
  BY SourcesDecoded
<1>6. /\ \A z : FlipH(c, <<DCTSIZE * X + i, z>>) =
               <<DCTSIZE * FlipColumn(c, X) + (IF X < whole_columns(c) THEN 1 - i ELSE i), z>>
      /\ \A z : FlipV(c, <<z, DCTSIZE * Y + j>>) =
               <<z, DCTSIZE * FlipRow(c, Y) + (IF Y < whole_rows(c) THEN 1 - j ELSE j)>>
  BY Places
<1>7. 1 - i \in K /\ 1 - j \in K
  BY KTwo
<1>8. Swap(<<DCTSIZE * X + i, DCTSIZE * Y + j>>) = <<DCTSIZE * Y + j, DCTSIZE * X + i>>
  BY DEF Swap
<1>9. Origin(c, <<DCTSIZE * X + i, DCTSIZE * Y + j>>)
          = FlipH(c, <<DCTSIZE * X + i, DCTSIZE * Y + j>>)
  BY <1>8 DEF Origin
<1>10. Origin(c, <<DCTSIZE * X + i, DCTSIZE * Y + j>>) =
         <<DCTSIZE * FlipColumn(c, X) + (IF X < whole_columns(c) THEN 1 - i ELSE i),
           DCTSIZE * Y + j>>
  BY <1>6, <1>9
<1> DEFINE s == Source(c, FlipColumn(c, X), Y)
           p == Origin(c, <<DCTSIZE * X + i, DCTSIZE * Y + j>>)
<1>11. /\ s \in Blocks2
       /\ \A k, l \in K : DecodedSample(s, quantval, k, l)
                            = SampleAt(c, DCTSIZE * FlipColumn(c, X) + k, DCTSIZE * Y + l)
  BY <1>5 DEF Decodes
<1>12. DecodedSample(s, quantval, (IF X < whole_columns(c) THEN 1 - i ELSE i), j)
           = SampleAt(c, p[1], p[2])
  BY <1>7, <1>10, <1>11
<1>13. /\ DecodedSample(NegateOddColumns(s), quantval, i, j) = DecodedSample(s, quantval, 1 - i, j)
       /\ DecodedSample(NegateOddRows(s), quantval, i, j) = DecodedSample(s, quantval, i, 1 - j)
       /\ DecodedSample(NegateOddColumns(NegateOddRows(s)), quantval, i, j)
            = DecodedSample(s, quantval, 1 - i, 1 - j)
       /\ DecodedSample(Transposed(s), Transposed(quantval), i, j)
              = DecodedSample(s, quantval, j, i)
       /\ DecodedSample(Transposed(NegateOddColumns(s)), Transposed(quantval), i, j)
            = DecodedSample(s, quantval, 1 - j, i)
       /\ DecodedSample(Transposed(NegateOddRows(s)), Transposed(quantval), i, j)
            = DecodedSample(s, quantval, j, 1 - i)
       /\ DecodedSample(Transposed(NegateOddColumns(NegateOddRows(s))), Transposed(quantval), i, j)
            = DecodedSample(s, quantval, 1 - j, 1 - i)
  BY <1>11, BlockTransformed
<1>14. /\ ~(X < whole_columns(c)) => FlipColumn(c, X) = X
       /\ ~(Y < whole_rows(c)) => FlipRow(c, Y) = Y
  BY DEF FlipColumn, FlipRow
<1> HIDE DEF p
<1> QED
  BY <1>2, <1>3, <1>12, <1>13, <1>14 DEF p

\* The same of one that is mirrored vertically.
LEMMA FlipVShown ==
    ASSUME Ready, info.transform = "FLIP_V",
           NEW c \in 1..num_components, NEW X \in Nat, NEW Y \in Nat, Inside(c, X, Y)
    PROVE  ShownBy(IF Y < comp_height(c) THEN NegateOddRows(Source(c, X, MirroredY(c, Y)))
                   ELSE Source(c, X, Y), c, X, Y)
<1>1. ~Transposing
  BY DEF Transposing
<1>2. /\ dst.quantval = quantval
      /\ comp_width(c) = whole_columns(c)
      /\ comp_height(c) = whole_rows(c)
  BY <1>1, CompSizes, DstQuantval
<1>3. /\ MirroredX(c, X) = FlipColumn(c, X)
      /\ MirroredY(c, Y) = FlipRow(c, Y)
  BY <1>2 DEF MirroredX, MirroredY, FlipColumn, FlipRow
<1>4. SUFFICES ASSUME NEW i \in K, NEW j \in K
               PROVE  LET b == IF Y < comp_height(c)
                                   THEN NegateOddRows(Source(c, X, MirroredY(c, Y)))
                                 ELSE Source(c, X, Y)
                          p == Origin(c, <<DCTSIZE * X + i, DCTSIZE * Y + j>>)
                      IN DecodedSample(b, dst.quantval, i, j) = SampleAt(c, p[1], p[2])
  BY DEF ShownBy
<1>5. /\ Decodes(Source(c, X, Y), c, X, Y)
      /\ Decodes(Source(c, FlipColumn(c, X), Y), c, FlipColumn(c, X), Y)
      /\ Decodes(Source(c, X, FlipRow(c, Y)), c, X, FlipRow(c, Y))
      /\ Decodes(Source(c, FlipColumn(c, X), FlipRow(c, Y)), c, FlipColumn(c, X), FlipRow(c, Y))
  BY SourcesDecoded
<1>6. /\ \A z : FlipH(c, <<DCTSIZE * X + i, z>>) =
               <<DCTSIZE * FlipColumn(c, X) + (IF X < whole_columns(c) THEN 1 - i ELSE i), z>>
      /\ \A z : FlipV(c, <<z, DCTSIZE * Y + j>>) =
               <<z, DCTSIZE * FlipRow(c, Y) + (IF Y < whole_rows(c) THEN 1 - j ELSE j)>>
  BY Places
<1>7. 1 - i \in K /\ 1 - j \in K
  BY KTwo
<1>8. Swap(<<DCTSIZE * X + i, DCTSIZE * Y + j>>) = <<DCTSIZE * Y + j, DCTSIZE * X + i>>
  BY DEF Swap
<1>9. Origin(c, <<DCTSIZE * X + i, DCTSIZE * Y + j>>)
          = FlipV(c, <<DCTSIZE * X + i, DCTSIZE * Y + j>>)
  BY <1>8 DEF Origin
<1>10. Origin(c, <<DCTSIZE * X + i, DCTSIZE * Y + j>>) =
         <<DCTSIZE * X + i,
           DCTSIZE * FlipRow(c, Y) + (IF Y < whole_rows(c) THEN 1 - j ELSE j)>>
  BY <1>6, <1>9
<1> DEFINE s == Source(c, X, FlipRow(c, Y))
           p == Origin(c, <<DCTSIZE * X + i, DCTSIZE * Y + j>>)
<1>11. /\ s \in Blocks2
       /\ \A k, l \in K : DecodedSample(s, quantval, k, l)
                            = SampleAt(c, DCTSIZE * X + k, DCTSIZE * FlipRow(c, Y) + l)
  BY <1>5 DEF Decodes
<1>12. DecodedSample(s, quantval, i, (IF Y < whole_rows(c) THEN 1 - j ELSE j))
           = SampleAt(c, p[1], p[2])
  BY <1>7, <1>10, <1>11
<1>13. /\ DecodedSample(NegateOddColumns(s), quantval, i, j) = DecodedSample(s, quantval, 1 - i, j)
       /\ DecodedSample(NegateOddRows(s), quantval, i, j) = DecodedSample(s, quantval, i, 1 - j)
       /\ DecodedSample(NegateOddColumns(NegateOddRows(s)), quantval, i, j)
            = DecodedSample(s, quantval, 1 - i, 1 - j)
       /\ DecodedSample(Transposed(s), Transposed(quantval), i, j)
              = DecodedSample(s, quantval, j, i)
       /\ DecodedSample(Transposed(NegateOddColumns(s)), Transposed(quantval), i, j)
            = DecodedSample(s, quantval, 1 - j, i)
       /\ DecodedSample(Transposed(NegateOddRows(s)), Transposed(quantval), i, j)
            = DecodedSample(s, quantval, j, 1 - i)
       /\ DecodedSample(Transposed(NegateOddColumns(NegateOddRows(s))), Transposed(quantval), i, j)
            = DecodedSample(s, quantval, 1 - j, 1 - i)
  BY <1>11, BlockTransformed
<1>14. /\ ~(X < whole_columns(c)) => FlipColumn(c, X) = X
       /\ ~(Y < whole_rows(c)) => FlipRow(c, Y) = Y
  BY DEF FlipColumn, FlipRow
<1> HIDE DEF p
<1> QED
  BY <1>2, <1>3, <1>12, <1>13, <1>14 DEF p

\* The same of one that is transposed.
LEMMA TransposeShown ==
    ASSUME Ready, info.transform = "TRANSPOSE",
           NEW c \in 1..num_components, NEW X \in Nat, NEW Y \in Nat, Inside(c, Y, X)
    PROVE  ShownBy(Transposed(Source(c, Y, X)), c, X, Y)
<1>1. Transposing
  BY DEF Transposing
<1>2. /\ dst.quantval = Transposed(quantval)
      /\ comp_width(c) = whole_rows(c)
      /\ comp_height(c) = whole_columns(c)
  BY <1>1, CompSizes, DstQuantval
<1>3. /\ MirroredX(c, X) = FlipRow(c, X)
      /\ MirroredY(c, Y) = FlipColumn(c, Y)
  BY <1>2 DEF MirroredX, MirroredY, FlipColumn, FlipRow
<1>4. SUFFICES ASSUME NEW i \in K, NEW j \in K
               PROVE  LET b == Transposed(Source(c, Y, X))
                          p == Origin(c, <<DCTSIZE * X + i, DCTSIZE * Y + j>>)
                      IN DecodedSample(b, dst.quantval, i, j) = SampleAt(c, p[1], p[2])
  BY DEF ShownBy
<1>5. /\ Decodes(Source(c, Y, X), c, Y, X)
      /\ Decodes(Source(c, FlipColumn(c, Y), X), c, FlipColumn(c, Y), X)
      /\ Decodes(Source(c, Y, FlipRow(c, X)), c, Y, FlipRow(c, X))
      /\ Decodes(Source(c, FlipColumn(c, Y), FlipRow(c, X)), c, FlipColumn(c, Y), FlipRow(c, X))
  BY SourcesDecoded
<1>6. /\ \A z : FlipH(c, <<DCTSIZE * Y + j, z>>) =
               <<DCTSIZE * FlipColumn(c, Y) + (IF Y < whole_columns(c) THEN 1 - j ELSE j), z>>
      /\ \A z : FlipV(c, <<z, DCTSIZE * X + i>>) =
               <<z, DCTSIZE * FlipRow(c, X) + (IF X < whole_rows(c) THEN 1 - i ELSE i)>>
  BY Places
<1>7. 1 - i \in K /\ 1 - j \in K
  BY KTwo
<1>8. Swap(<<DCTSIZE * X + i, DCTSIZE * Y + j>>) = <<DCTSIZE * Y + j, DCTSIZE * X + i>>
  BY DEF Swap
<1>9. Origin(c, <<DCTSIZE * X + i, DCTSIZE * Y + j>>) = <<DCTSIZE * Y + j, DCTSIZE * X + i>>
  BY <1>8 DEF Origin
<1>10. Origin(c, <<DCTSIZE * X + i, DCTSIZE * Y + j>>) =
         <<DCTSIZE * Y + j,
           DCTSIZE * X + i>>
  BY <1>6, <1>9
<1> DEFINE s == Source(c, Y, X)
           p == Origin(c, <<DCTSIZE * X + i, DCTSIZE * Y + j>>)
<1>11. /\ s \in Blocks2
       /\ \A k, l \in K : DecodedSample(s, quantval, k, l)
                            = SampleAt(c, DCTSIZE * Y + k, DCTSIZE * X + l)
  BY <1>5 DEF Decodes
<1>12. DecodedSample(s, quantval, j, i) = SampleAt(c, p[1], p[2])
  BY <1>7, <1>10, <1>11
<1>13. /\ DecodedSample(NegateOddColumns(s), quantval, i, j) = DecodedSample(s, quantval, 1 - i, j)
       /\ DecodedSample(NegateOddRows(s), quantval, i, j) = DecodedSample(s, quantval, i, 1 - j)
       /\ DecodedSample(NegateOddColumns(NegateOddRows(s)), quantval, i, j)
            = DecodedSample(s, quantval, 1 - i, 1 - j)
       /\ DecodedSample(Transposed(s), Transposed(quantval), i, j)
              = DecodedSample(s, quantval, j, i)
       /\ DecodedSample(Transposed(NegateOddColumns(s)), Transposed(quantval), i, j)
            = DecodedSample(s, quantval, 1 - j, i)
       /\ DecodedSample(Transposed(NegateOddRows(s)), Transposed(quantval), i, j)
            = DecodedSample(s, quantval, j, 1 - i)
       /\ DecodedSample(Transposed(NegateOddColumns(NegateOddRows(s))), Transposed(quantval), i, j)
            = DecodedSample(s, quantval, 1 - j, 1 - i)
  BY <1>11, BlockTransformed
<1>14. /\ ~(Y < whole_columns(c)) => FlipColumn(c, Y) = Y
       /\ ~(X < whole_rows(c)) => FlipRow(c, X) = X
  BY DEF FlipColumn, FlipRow
<1> HIDE DEF p
<1> QED
  BY <1>2, <1>3, <1>12, <1>13, <1>14 DEF p

\* The same of one that is rotated by 90 degrees.
LEMMA Rot90Shown ==
    ASSUME Ready, info.transform = "ROT_90",
           NEW c \in 1..num_components, NEW X \in Nat, NEW Y \in Nat, Inside(c, Y, X)
    PROVE  ShownBy(IF X < comp_width(c)
               THEN Transposed(NegateOddRows(Source(c, Y, MirroredX(c, X))))
                   ELSE Transposed(Source(c, Y, X)), c, X, Y)
<1>1. Transposing
  BY DEF Transposing
<1>2. /\ dst.quantval = Transposed(quantval)
      /\ comp_width(c) = whole_rows(c)
      /\ comp_height(c) = whole_columns(c)
  BY <1>1, CompSizes, DstQuantval
<1>3. /\ MirroredX(c, X) = FlipRow(c, X)
      /\ MirroredY(c, Y) = FlipColumn(c, Y)
  BY <1>2 DEF MirroredX, MirroredY, FlipColumn, FlipRow
<1>4. SUFFICES ASSUME NEW i \in K, NEW j \in K
               PROVE  LET b == IF X < comp_width(c)
                                   THEN Transposed(NegateOddRows(Source(c, Y, MirroredX(c, X))))
                                 ELSE Transposed(Source(c, Y, X))
                          p == Origin(c, <<DCTSIZE * X + i, DCTSIZE * Y + j>>)
                      IN DecodedSample(b, dst.quantval, i, j) = SampleAt(c, p[1], p[2])
  BY DEF ShownBy
<1>5. /\ Decodes(Source(c, Y, X), c, Y, X)
      /\ Decodes(Source(c, FlipColumn(c, Y), X), c, FlipColumn(c, Y), X)
      /\ Decodes(Source(c, Y, FlipRow(c, X)), c, Y, FlipRow(c, X))
      /\ Decodes(Source(c, FlipColumn(c, Y), FlipRow(c, X)), c, FlipColumn(c, Y), FlipRow(c, X))
  BY SourcesDecoded
<1>6. /\ \A z : FlipH(c, <<DCTSIZE * Y + j, z>>) =
               <<DCTSIZE * FlipColumn(c, Y) + (IF Y < whole_columns(c) THEN 1 - j ELSE j), z>>
      /\ \A z : FlipV(c, <<z, DCTSIZE * X + i>>) =
               <<z, DCTSIZE * FlipRow(c, X) + (IF X < whole_rows(c) THEN 1 - i ELSE i)>>
  BY Places
<1>7. 1 - i \in K /\ 1 - j \in K
  BY KTwo
<1>8. Swap(<<DCTSIZE * X + i, DCTSIZE * Y + j>>) = <<DCTSIZE * Y + j, DCTSIZE * X + i>>
  BY DEF Swap
<1>9. Origin(c, <<DCTSIZE * X + i, DCTSIZE * Y + j>>)
          = FlipV(c, <<DCTSIZE * Y + j, DCTSIZE * X + i>>)
  BY <1>8 DEF Origin
<1>10. Origin(c, <<DCTSIZE * X + i, DCTSIZE * Y + j>>) =
         <<DCTSIZE * Y + j,
           DCTSIZE * FlipRow(c, X) + (IF X < whole_rows(c) THEN 1 - i ELSE i)>>
  BY <1>6, <1>9
<1> DEFINE s == Source(c, Y, FlipRow(c, X))
           p == Origin(c, <<DCTSIZE * X + i, DCTSIZE * Y + j>>)
<1>11. /\ s \in Blocks2
       /\ \A k, l \in K : DecodedSample(s, quantval, k, l)
                            = SampleAt(c, DCTSIZE * Y + k, DCTSIZE * FlipRow(c, X) + l)
  BY <1>5 DEF Decodes
<1>12. DecodedSample(s, quantval, j, (IF X < whole_rows(c) THEN 1 - i ELSE i))
           = SampleAt(c, p[1], p[2])
  BY <1>7, <1>10, <1>11
<1>13. /\ DecodedSample(NegateOddColumns(s), quantval, i, j) = DecodedSample(s, quantval, 1 - i, j)
       /\ DecodedSample(NegateOddRows(s), quantval, i, j) = DecodedSample(s, quantval, i, 1 - j)
       /\ DecodedSample(NegateOddColumns(NegateOddRows(s)), quantval, i, j)
            = DecodedSample(s, quantval, 1 - i, 1 - j)
       /\ DecodedSample(Transposed(s), Transposed(quantval), i, j)
              = DecodedSample(s, quantval, j, i)
       /\ DecodedSample(Transposed(NegateOddColumns(s)), Transposed(quantval), i, j)
            = DecodedSample(s, quantval, 1 - j, i)
       /\ DecodedSample(Transposed(NegateOddRows(s)), Transposed(quantval), i, j)
            = DecodedSample(s, quantval, j, 1 - i)
       /\ DecodedSample(Transposed(NegateOddColumns(NegateOddRows(s))), Transposed(quantval), i, j)
            = DecodedSample(s, quantval, 1 - j, 1 - i)
  BY <1>11, BlockTransformed
<1>14. /\ ~(Y < whole_columns(c)) => FlipColumn(c, Y) = Y
       /\ ~(X < whole_rows(c)) => FlipRow(c, X) = X
  BY DEF FlipColumn, FlipRow
<1> HIDE DEF p
<1> QED
  BY <1>2, <1>3, <1>12, <1>13, <1>14 DEF p

\* The same of one that is rotated by 270 degrees.
LEMMA Rot270Shown ==
    ASSUME Ready, info.transform = "ROT_270",
           NEW c \in 1..num_components, NEW X \in Nat, NEW Y \in Nat, Inside(c, Y, X)
    PROVE  ShownBy(IF Y < comp_height(c)
               THEN Transposed(NegateOddColumns(Source(c, MirroredY(c, Y), X)))
                   ELSE Transposed(Source(c, Y, X)), c, X, Y)
<1>1. Transposing
  BY DEF Transposing
<1>2. /\ dst.quantval = Transposed(quantval)
      /\ comp_width(c) = whole_rows(c)
      /\ comp_height(c) = whole_columns(c)
  BY <1>1, CompSizes, DstQuantval
<1>3. /\ MirroredX(c, X) = FlipRow(c, X)
      /\ MirroredY(c, Y) = FlipColumn(c, Y)
  BY <1>2 DEF MirroredX, MirroredY, FlipColumn, FlipRow
<1>4. SUFFICES ASSUME NEW i \in K, NEW j \in K
               PROVE  LET b == IF Y < comp_height(c)
                                   THEN Transposed(NegateOddColumns(Source(c, MirroredY(c, Y), X)))
                                 ELSE Transposed(Source(c, Y, X))
                          p == Origin(c, <<DCTSIZE * X + i, DCTSIZE * Y + j>>)
                      IN DecodedSample(b, dst.quantval, i, j) = SampleAt(c, p[1], p[2])
  BY DEF ShownBy
<1>5. /\ Decodes(Source(c, Y, X), c, Y, X)
      /\ Decodes(Source(c, FlipColumn(c, Y), X), c, FlipColumn(c, Y), X)
      /\ Decodes(Source(c, Y, FlipRow(c, X)), c, Y, FlipRow(c, X))
      /\ Decodes(Source(c, FlipColumn(c, Y), FlipRow(c, X)), c, FlipColumn(c, Y), FlipRow(c, X))
  BY SourcesDecoded
<1>6. /\ \A z : FlipH(c, <<DCTSIZE * Y + j, z>>) =
               <<DCTSIZE * FlipColumn(c, Y) + (IF Y < whole_columns(c) THEN 1 - j ELSE j), z>>
      /\ \A z : FlipV(c, <<z, DCTSIZE * X + i>>) =
               <<z, DCTSIZE * FlipRow(c, X) + (IF X < whole_rows(c) THEN 1 - i ELSE i)>>
  BY Places
<1>7. 1 - i \in K /\ 1 - j \in K
  BY KTwo
<1>8. Swap(<<DCTSIZE * X + i, DCTSIZE * Y + j>>) = <<DCTSIZE * Y + j, DCTSIZE * X + i>>
  BY DEF Swap
<1>9. Origin(c, <<DCTSIZE * X + i, DCTSIZE * Y + j>>)
          = FlipH(c, <<DCTSIZE * Y + j, DCTSIZE * X + i>>)
  BY <1>8 DEF Origin
<1>10. Origin(c, <<DCTSIZE * X + i, DCTSIZE * Y + j>>) =
         <<DCTSIZE * FlipColumn(c, Y) + (IF Y < whole_columns(c) THEN 1 - j ELSE j),
           DCTSIZE * X + i>>
  BY <1>6, <1>9
<1> DEFINE s == Source(c, FlipColumn(c, Y), X)
           p == Origin(c, <<DCTSIZE * X + i, DCTSIZE * Y + j>>)
<1>11. /\ s \in Blocks2
       /\ \A k, l \in K : DecodedSample(s, quantval, k, l)
                            = SampleAt(c, DCTSIZE * FlipColumn(c, Y) + k, DCTSIZE * X + l)
  BY <1>5 DEF Decodes
<1>12. DecodedSample(s, quantval, (IF Y < whole_columns(c) THEN 1 - j ELSE j), i)
           = SampleAt(c, p[1], p[2])
  BY <1>7, <1>10, <1>11
<1>13. /\ DecodedSample(NegateOddColumns(s), quantval, i, j) = DecodedSample(s, quantval, 1 - i, j)
       /\ DecodedSample(NegateOddRows(s), quantval, i, j) = DecodedSample(s, quantval, i, 1 - j)
       /\ DecodedSample(NegateOddColumns(NegateOddRows(s)), quantval, i, j)
            = DecodedSample(s, quantval, 1 - i, 1 - j)
       /\ DecodedSample(Transposed(s), Transposed(quantval), i, j)
              = DecodedSample(s, quantval, j, i)
       /\ DecodedSample(Transposed(NegateOddColumns(s)), Transposed(quantval), i, j)
            = DecodedSample(s, quantval, 1 - j, i)
       /\ DecodedSample(Transposed(NegateOddRows(s)), Transposed(quantval), i, j)
            = DecodedSample(s, quantval, j, 1 - i)
       /\ DecodedSample(Transposed(NegateOddColumns(NegateOddRows(s))), Transposed(quantval), i, j)
            = DecodedSample(s, quantval, 1 - j, 1 - i)
  BY <1>11, BlockTransformed
<1>14. /\ ~(Y < whole_columns(c)) => FlipColumn(c, Y) = Y
       /\ ~(X < whole_rows(c)) => FlipRow(c, X) = X
  BY DEF FlipColumn, FlipRow
<1> HIDE DEF p
<1> QED
  BY <1>2, <1>3, <1>12, <1>13, <1>14 DEF p

\* The same of one that is rotated by 180 degrees.
LEMMA Rot180Shown ==
    ASSUME Ready, info.transform = "ROT_180",
           NEW c \in 1..num_components, NEW X \in Nat, NEW Y \in Nat, Inside(c, X, Y)
    PROVE  ShownBy(LET b == Source(c, MirroredX(c, X), MirroredY(c, Y))
                       r == IF Y < comp_height(c) THEN NegateOddRows(b) ELSE b
                   IN IF X < comp_width(c) THEN NegateOddColumns(r) ELSE r, c, X, Y)
<1>1. ~Transposing
  BY DEF Transposing
<1>2. /\ dst.quantval = quantval
      /\ comp_width(c) = whole_columns(c)
      /\ comp_height(c) = whole_rows(c)
  BY <1>1, CompSizes, DstQuantval
<1>3. /\ MirroredX(c, X) = FlipColumn(c, X)
      /\ MirroredY(c, Y) = FlipRow(c, Y)
  BY <1>2 DEF MirroredX, MirroredY, FlipColumn, FlipRow
<1>4. SUFFICES ASSUME NEW i \in K, NEW j \in K
               PROVE  LET b == LET b == Source(c, MirroredX(c, X), MirroredY(c, Y))
                                     r == IF Y < comp_height(c) THEN NegateOddRows(b) ELSE b
                                 IN IF X < comp_width(c) THEN NegateOddColumns(r) ELSE r
                          p == Origin(c, <<DCTSIZE * X + i, DCTSIZE * Y + j>>)
                      IN DecodedSample(b, dst.quantval, i, j) = SampleAt(c, p[1], p[2])
  BY DEF ShownBy
<1>5. /\ Decodes(Source(c, X, Y), c, X, Y)
      /\ Decodes(Source(c, FlipColumn(c, X), Y), c, FlipColumn(c, X), Y)
      /\ Decodes(Source(c, X, FlipRow(c, Y)), c, X, FlipRow(c, Y))
      /\ Decodes(Source(c, FlipColumn(c, X), FlipRow(c, Y)), c, FlipColumn(c, X), FlipRow(c, Y))
  BY SourcesDecoded
<1>6. /\ \A z : FlipH(c, <<DCTSIZE * X + i, z>>) =
               <<DCTSIZE * FlipColumn(c, X) + (IF X < whole_columns(c) THEN 1 - i ELSE i), z>>
      /\ \A z : FlipV(c, <<z, DCTSIZE * Y + j>>) =
               <<z, DCTSIZE * FlipRow(c, Y) + (IF Y < whole_rows(c) THEN 1 - j ELSE j)>>
  BY Places
<1>7. 1 - i \in K /\ 1 - j \in K
  BY KTwo
<1>8. Swap(<<DCTSIZE * X + i, DCTSIZE * Y + j>>) = <<DCTSIZE * Y + j, DCTSIZE * X + i>>
  BY DEF Swap
<1>9. Origin(c, <<DCTSIZE * X + i, DCTSIZE * Y + j>>)
          = FlipH(c, FlipV(c, <<DCTSIZE * X + i, DCTSIZE * Y + j>>))
  BY <1>8 DEF Origin
<1>10. Origin(c, <<DCTSIZE * X + i, DCTSIZE * Y + j>>) =
         <<DCTSIZE * FlipColumn(c, X) + (IF X < whole_columns(c) THEN 1 - i ELSE i),
           DCTSIZE * FlipRow(c, Y) + (IF Y < whole_rows(c) THEN 1 - j ELSE j)>>
  BY <1>6, <1>9
<1> DEFINE s == Source(c, FlipColumn(c, X), FlipRow(c, Y))
           p == Origin(c, <<DCTSIZE * X + i, DCTSIZE * Y + j>>)
<1>11. /\ s \in Blocks2
       /\ \A k, l \in K : DecodedSample(s, quantval, k, l)
                            = SampleAt(c, DCTSIZE * FlipColumn(c, X) + k,
                                       DCTSIZE * FlipRow(c, Y) + l)
  BY <1>5 DEF Decodes
<1>12. DecodedSample(s, quantval, (IF X < whole_columns(c) THEN 1 - i ELSE i),
                     (IF Y < whole_rows(c) THEN 1 - j ELSE j)) = SampleAt(c, p[1], p[2])
  BY <1>7, <1>10, <1>11
<1>13. /\ DecodedSample(NegateOddColumns(s), quantval, i, j) = DecodedSample(s, quantval, 1 - i, j)
       /\ DecodedSample(NegateOddRows(s), quantval, i, j) = DecodedSample(s, quantval, i, 1 - j)
       /\ DecodedSample(NegateOddColumns(NegateOddRows(s)), quantval, i, j)
            = DecodedSample(s, quantval, 1 - i, 1 - j)
       /\ DecodedSample(Transposed(s), Transposed(quantval), i, j)
              = DecodedSample(s, quantval, j, i)
       /\ DecodedSample(Transposed(NegateOddColumns(s)), Transposed(quantval), i, j)
            = DecodedSample(s, quantval, 1 - j, i)
       /\ DecodedSample(Transposed(NegateOddRows(s)), Transposed(quantval), i, j)
            = DecodedSample(s, quantval, j, 1 - i)
       /\ DecodedSample(Transposed(NegateOddColumns(NegateOddRows(s))), Transposed(quantval), i, j)
            = DecodedSample(s, quantval, 1 - j, 1 - i)
  BY <1>11, BlockTransformed
<1>14. /\ ~(X < whole_columns(c)) => FlipColumn(c, X) = X
       /\ ~(Y < whole_rows(c)) => FlipRow(c, Y) = Y
  BY DEF FlipColumn, FlipRow
<1> HIDE DEF p
<1> QED
  BY <1>2, <1>3, <1>12, <1>13, <1>14 DEF p

\* The same of one that is transposed across.
LEMMA TransverseShown ==
    ASSUME Ready, info.transform = "TRANSVERSE",
           NEW c \in 1..num_components, NEW X \in Nat, NEW Y \in Nat, Inside(c, Y, X)
    PROVE  ShownBy(LET b == Source(c, MirroredY(c, Y), MirroredX(c, X))
                       r == IF X < comp_width(c) THEN NegateOddRows(b) ELSE b
                   IN Transposed(IF Y < comp_height(c) THEN NegateOddColumns(r) ELSE r), c, X, Y)
<1>1. Transposing
  BY DEF Transposing
<1>2. /\ dst.quantval = Transposed(quantval)
      /\ comp_width(c) = whole_rows(c)
      /\ comp_height(c) = whole_columns(c)
  BY <1>1, CompSizes, DstQuantval
<1>3. /\ MirroredX(c, X) = FlipRow(c, X)
      /\ MirroredY(c, Y) = FlipColumn(c, Y)
  BY <1>2 DEF MirroredX, MirroredY, FlipColumn, FlipRow
<1>4. SUFFICES ASSUME NEW i \in K, NEW j \in K
               PROVE  LET b == LET b == Source(c, MirroredY(c, Y), MirroredX(c, X))
                                     r == IF X < comp_width(c) THEN NegateOddRows(b) ELSE b
                                 IN Transposed(IF Y < comp_height(c)
                                     THEN NegateOddColumns(r) ELSE r)
                          p == Origin(c, <<DCTSIZE * X + i, DCTSIZE * Y + j>>)
                      IN DecodedSample(b, dst.quantval, i, j) = SampleAt(c, p[1], p[2])
  BY DEF ShownBy
<1>5. /\ Decodes(Source(c, Y, X), c, Y, X)
      /\ Decodes(Source(c, FlipColumn(c, Y), X), c, FlipColumn(c, Y), X)
      /\ Decodes(Source(c, Y, FlipRow(c, X)), c, Y, FlipRow(c, X))
      /\ Decodes(Source(c, FlipColumn(c, Y), FlipRow(c, X)), c, FlipColumn(c, Y), FlipRow(c, X))
  BY SourcesDecoded
<1>6. /\ \A z : FlipH(c, <<DCTSIZE * Y + j, z>>) =
               <<DCTSIZE * FlipColumn(c, Y) + (IF Y < whole_columns(c) THEN 1 - j ELSE j), z>>
      /\ \A z : FlipV(c, <<z, DCTSIZE * X + i>>) =
               <<z, DCTSIZE * FlipRow(c, X) + (IF X < whole_rows(c) THEN 1 - i ELSE i)>>
  BY Places
<1>7. 1 - i \in K /\ 1 - j \in K
  BY KTwo
<1>8. Swap(<<DCTSIZE * X + i, DCTSIZE * Y + j>>) = <<DCTSIZE * Y + j, DCTSIZE * X + i>>
  BY DEF Swap
<1>9. Origin(c, <<DCTSIZE * X + i, DCTSIZE * Y + j>>)
          = FlipH(c, FlipV(c, <<DCTSIZE * Y + j, DCTSIZE * X + i>>))
  BY <1>8 DEF Origin
<1>10. Origin(c, <<DCTSIZE * X + i, DCTSIZE * Y + j>>) =
         <<DCTSIZE * FlipColumn(c, Y) + (IF Y < whole_columns(c) THEN 1 - j ELSE j),
           DCTSIZE * FlipRow(c, X) + (IF X < whole_rows(c) THEN 1 - i ELSE i)>>
  BY <1>6, <1>9
<1> DEFINE s == Source(c, FlipColumn(c, Y), FlipRow(c, X))
           p == Origin(c, <<DCTSIZE * X + i, DCTSIZE * Y + j>>)
<1>11. /\ s \in Blocks2
       /\ \A k, l \in K : DecodedSample(s, quantval, k, l)
                            = SampleAt(c, DCTSIZE * FlipColumn(c, Y) + k,
                                       DCTSIZE * FlipRow(c, X) + l)
  BY <1>5 DEF Decodes
<1>12. DecodedSample(s, quantval, (IF Y < whole_columns(c) THEN 1 - j ELSE j),
                     (IF X < whole_rows(c) THEN 1 - i ELSE i)) = SampleAt(c, p[1], p[2])
  BY <1>7, <1>10, <1>11
<1>13. /\ DecodedSample(NegateOddColumns(s), quantval, i, j) = DecodedSample(s, quantval, 1 - i, j)
       /\ DecodedSample(NegateOddRows(s), quantval, i, j) = DecodedSample(s, quantval, i, 1 - j)
       /\ DecodedSample(NegateOddColumns(NegateOddRows(s)), quantval, i, j)
            = DecodedSample(s, quantval, 1 - i, 1 - j)
       /\ DecodedSample(Transposed(s), Transposed(quantval), i, j)
              = DecodedSample(s, quantval, j, i)
       /\ DecodedSample(Transposed(NegateOddColumns(s)), Transposed(quantval), i, j)
            = DecodedSample(s, quantval, 1 - j, i)
       /\ DecodedSample(Transposed(NegateOddRows(s)), Transposed(quantval), i, j)
            = DecodedSample(s, quantval, j, 1 - i)
       /\ DecodedSample(Transposed(NegateOddColumns(NegateOddRows(s))), Transposed(quantval), i, j)
            = DecodedSample(s, quantval, 1 - j, 1 - i)
  BY <1>11, BlockTransformed
<1>14. /\ ~(Y < whole_columns(c)) => FlipColumn(c, Y) = Y
       /\ ~(X < whole_rows(c)) => FlipRow(c, X) = X
  BY DEF FlipColumn, FlipRow
<1> HIDE DEF p
<1> QED
  BY <1>2, <1>3, <1>12, <1>13, <1>14 DEF p

(***************************************************************************)
(* jtransform_execute_transform                                            *)
(***************************************************************************)
\* Arrays with the right block wherever the output has a sample.
Placed(arrays) ==
    \A c \in 1..num_components :
        \A x \in 0..(OutputSize(c)[1] - 1), y \in 0..(OutputSize(c)[2] - 1) :
            ShownBy(arrays[c][y \div DCTSIZE][x \div DCTSIZE], c,
                    (x \div DCTSIZE) + x_crop_blocks(c), (y \div DCTSIZE) + y_crop_blocks(c))

\* The workspace has these blocks.
LEMMA WorkspaceBlocks ==
    ASSUME Ready, NeedWorkspace(info), NEW c \in 1..num_components,
           NEW x \in 0..(OutputSize(c)[1] - 1), NEW y \in 0..(OutputSize(c)[2] - 1)
    PROVE  LET bx == x \div DCTSIZE
               by == y \div DCTSIZE
           IN  /\ c \in DOMAIN workspace_coef_arrays /\ by \in DOMAIN workspace_coef_arrays[c]
               /\ bx \in DOMAIN workspace_coef_arrays[c][by]
               /\ bx < dst_width_in_blocks(c)
<1> DEFINE bx == x \div DCTSIZE
           by == y \div DCTSIZE
<1>1. /\ bx < dst_width_in_blocks(c)
      /\ bx \in 0..(jdiv_round_up(info.output_width, iMCU_sample_width) * Factors(c)[1] - 1)
      /\ by \in 0..(jdiv_round_up(info.output_height, iMCU_sample_height) * Factors(c)[2] - 1)
  BY OutputBlocks
<1> HIDE DEF bx, by
<1>2. workspace_coef_arrays = Workspace(info)
  BY DEF Ready
<1>3. /\ c \in DOMAIN Workspace(info) /\ by \in DOMAIN Workspace(info)[c]
      /\ bx \in DOMAIN Workspace(info)[c][by]
  BY <1>1 DEF Workspace
<1> QED
  BY <1>1, <1>2, <1>3 DEF bx, by

\* A transformation that needs a workspace has one.
LEMMA WorkspaceShown ==
    ASSUME Ready, NeedWorkspace(info)
    PROVE  DOMAIN workspace_coef_arrays # {} /\ workspace_coef_arrays # <<>>
<1>1. DOMAIN Workspace(info) = 1..num_components /\ 1 \in 1..num_components
  BY Pictured DEF Ready, Workspace
<1>2. DOMAIN <<>> = {}
  OBVIOUS
<1> QED
  BY <1>1, <1>2 DEF Ready

\* do_crop, and no transformation, place every block right.
LEMMA SamePlaced ==
    ASSUME Ready, do_crop
    PROVE  Placed(OutputArrays')
<1>1. info.transform = "NONE" /\ NeedWorkspace(info) /\ ~Transposing
  BY DEF do_crop, Execute, NeedWorkspace, Transposing
<1>2. OutputArrays' = workspace_coef_arrays'
  <2>1. DOMAIN workspace_coef_arrays' = DOMAIN workspace_coef_arrays
    BY DEF do_crop, Execute
  <2>2. DOMAIN <<>> = {}
    OBVIOUS
  <2> QED
    BY <1>1, <2>1, <2>2, WorkspaceShown DEF OutputArrays
<1>3. SUFFICES ASSUME NEW c \in 1..num_components,
                      NEW x \in 0..(OutputSize(c)[1] - 1), NEW y \in 0..(OutputSize(c)[2] - 1)
               PROVE  ShownBy(workspace_coef_arrays'[c][y \div DCTSIZE][x \div DCTSIZE], c,
                              (x \div DCTSIZE) + x_crop_blocks(c),
                              (y \div DCTSIZE) + y_crop_blocks(c))
  BY <1>2 DEF Placed
<1> DEFINE bx == x \div DCTSIZE
           by == y \div DCTSIZE
           X == bx + x_crop_blocks(c)
           Y == by + y_crop_blocks(c)
<1>4. /\ c \in DOMAIN workspace_coef_arrays /\ by \in DOMAIN workspace_coef_arrays[c]
      /\ bx \in DOMAIN workspace_coef_arrays[c][by]
      /\ bx < dst_width_in_blocks(c)
  BY <1>1, WorkspaceBlocks
<1>5. X \in Nat /\ Y \in Nat /\ Inside(c, X, Y)
  BY <1>1, OutputBlocks
<1> HIDE DEF bx, by
<1>6. workspace_coef_arrays'[c][by][bx] =
          Source(c, X, Y)
  BY <1>4 DEF do_crop, Execute
<1> HIDE DEF X, Y
<1>7. ShownBy(Source(c, X, Y), c, X, Y)
  BY <1>1, <1>5, SameShown
<1> QED
  BY <1>6, <1>7 DEF X, Y, bx, by

\* do_flip_h places every block right.
LEMMA FlipHPlaced ==
    ASSUME Ready, do_flip_h
    PROVE  Placed(OutputArrays')
<1>1. info.transform = "FLIP_H" /\ NeedWorkspace(info) /\ ~Transposing
  BY DEF do_flip_h, Execute, NeedWorkspace, Transposing
<1>2. OutputArrays' = workspace_coef_arrays'
  <2>1. DOMAIN workspace_coef_arrays' = DOMAIN workspace_coef_arrays
    BY DEF do_flip_h, Execute
  <2>2. DOMAIN <<>> = {}
    OBVIOUS
  <2> QED
    BY <1>1, <2>1, <2>2, WorkspaceShown DEF OutputArrays
<1>3. SUFFICES ASSUME NEW c \in 1..num_components,
                      NEW x \in 0..(OutputSize(c)[1] - 1), NEW y \in 0..(OutputSize(c)[2] - 1)
               PROVE  ShownBy(workspace_coef_arrays'[c][y \div DCTSIZE][x \div DCTSIZE], c,
                              (x \div DCTSIZE) + x_crop_blocks(c),
                              (y \div DCTSIZE) + y_crop_blocks(c))
  BY <1>2 DEF Placed
<1> DEFINE bx == x \div DCTSIZE
           by == y \div DCTSIZE
           X == bx + x_crop_blocks(c)
           Y == by + y_crop_blocks(c)
<1>4. /\ c \in DOMAIN workspace_coef_arrays /\ by \in DOMAIN workspace_coef_arrays[c]
      /\ bx \in DOMAIN workspace_coef_arrays[c][by]
      /\ bx < dst_width_in_blocks(c)
  BY <1>1, WorkspaceBlocks
<1>5. X \in Nat /\ Y \in Nat /\ Inside(c, X, Y)
  BY <1>1, OutputBlocks
<1> HIDE DEF bx, by
<1>6. workspace_coef_arrays'[c][by][bx] =
          (IF X < comp_width(c) THEN NegateOddColumns(Source(c, MirroredX(c, X), Y))
           ELSE Source(c, X, Y))
  BY <1>4 DEF do_flip_h, Execute
<1> HIDE DEF X, Y
<1>7. ShownBy((IF X < comp_width(c) THEN NegateOddColumns(Source(c, MirroredX(c, X), Y))
           ELSE Source(c, X, Y)), c, X, Y)
  BY <1>1, <1>5, FlipHShown
<1> QED
  BY <1>6, <1>7 DEF X, Y, bx, by

\* do_flip_v places every block right.
LEMMA FlipVPlaced ==
    ASSUME Ready, do_flip_v
    PROVE  Placed(OutputArrays')
<1>1. info.transform = "FLIP_V" /\ NeedWorkspace(info) /\ ~Transposing
  BY DEF do_flip_v, Execute, NeedWorkspace, Transposing
<1>2. OutputArrays' = workspace_coef_arrays'
  <2>1. DOMAIN workspace_coef_arrays' = DOMAIN workspace_coef_arrays
    BY DEF do_flip_v, Execute
  <2>2. DOMAIN <<>> = {}
    OBVIOUS
  <2> QED
    BY <1>1, <2>1, <2>2, WorkspaceShown DEF OutputArrays
<1>3. SUFFICES ASSUME NEW c \in 1..num_components,
                      NEW x \in 0..(OutputSize(c)[1] - 1), NEW y \in 0..(OutputSize(c)[2] - 1)
               PROVE  ShownBy(workspace_coef_arrays'[c][y \div DCTSIZE][x \div DCTSIZE], c,
                              (x \div DCTSIZE) + x_crop_blocks(c),
                              (y \div DCTSIZE) + y_crop_blocks(c))
  BY <1>2 DEF Placed
<1> DEFINE bx == x \div DCTSIZE
           by == y \div DCTSIZE
           X == bx + x_crop_blocks(c)
           Y == by + y_crop_blocks(c)
<1>4. /\ c \in DOMAIN workspace_coef_arrays /\ by \in DOMAIN workspace_coef_arrays[c]
      /\ bx \in DOMAIN workspace_coef_arrays[c][by]
      /\ bx < dst_width_in_blocks(c)
  BY <1>1, WorkspaceBlocks
<1>5. X \in Nat /\ Y \in Nat /\ Inside(c, X, Y)
  BY <1>1, OutputBlocks
<1> HIDE DEF bx, by
<1>6. workspace_coef_arrays'[c][by][bx] =
          (IF Y < comp_height(c) THEN NegateOddRows(Source(c, X, MirroredY(c, Y)))
           ELSE Source(c, X, Y))
  BY <1>4 DEF do_flip_v, Execute
<1> HIDE DEF X, Y
<1>7. ShownBy((IF Y < comp_height(c) THEN NegateOddRows(Source(c, X, MirroredY(c, Y)))
           ELSE Source(c, X, Y)), c, X, Y)
  BY <1>1, <1>5, FlipVShown
<1> QED
  BY <1>6, <1>7 DEF X, Y, bx, by

\* do_transpose places every block right.
LEMMA TransposePlaced ==
    ASSUME Ready, do_transpose
    PROVE  Placed(OutputArrays')
<1>1. info.transform = "TRANSPOSE" /\ NeedWorkspace(info) /\ Transposing
  BY DEF do_transpose, Execute, NeedWorkspace, Transposing
<1>2. OutputArrays' = workspace_coef_arrays'
  <2>1. DOMAIN workspace_coef_arrays' = DOMAIN workspace_coef_arrays
    BY DEF do_transpose, Execute
  <2>2. DOMAIN <<>> = {}
    OBVIOUS
  <2> QED
    BY <1>1, <2>1, <2>2, WorkspaceShown DEF OutputArrays
<1>3. SUFFICES ASSUME NEW c \in 1..num_components,
                      NEW x \in 0..(OutputSize(c)[1] - 1), NEW y \in 0..(OutputSize(c)[2] - 1)
               PROVE  ShownBy(workspace_coef_arrays'[c][y \div DCTSIZE][x \div DCTSIZE], c,
                              (x \div DCTSIZE) + x_crop_blocks(c),
                              (y \div DCTSIZE) + y_crop_blocks(c))
  BY <1>2 DEF Placed
<1> DEFINE bx == x \div DCTSIZE
           by == y \div DCTSIZE
           X == bx + x_crop_blocks(c)
           Y == by + y_crop_blocks(c)
<1>4. /\ c \in DOMAIN workspace_coef_arrays /\ by \in DOMAIN workspace_coef_arrays[c]
      /\ bx \in DOMAIN workspace_coef_arrays[c][by]
      /\ bx < dst_width_in_blocks(c)
  BY <1>1, WorkspaceBlocks
<1>5. X \in Nat /\ Y \in Nat /\ Inside(c, Y, X)
  BY <1>1, OutputBlocks
<1> HIDE DEF bx, by
<1>6. workspace_coef_arrays'[c][by][bx] =
          Transposed(Source(c, Y, X))
  BY <1>4 DEF do_transpose, Execute
<1> HIDE DEF X, Y
<1>7. ShownBy(Transposed(Source(c, Y, X)), c, X, Y)
  BY <1>1, <1>5, TransposeShown
<1> QED
  BY <1>6, <1>7 DEF X, Y, bx, by

\* do_rot_90 places every block right.
LEMMA Rot90Placed ==
    ASSUME Ready, do_rot_90
    PROVE  Placed(OutputArrays')
<1>1. info.transform = "ROT_90" /\ NeedWorkspace(info) /\ Transposing
  BY DEF do_rot_90, Execute, NeedWorkspace, Transposing
<1>2. OutputArrays' = workspace_coef_arrays'
  <2>1. DOMAIN workspace_coef_arrays' = DOMAIN workspace_coef_arrays
    BY DEF do_rot_90, Execute
  <2>2. DOMAIN <<>> = {}
    OBVIOUS
  <2> QED
    BY <1>1, <2>1, <2>2, WorkspaceShown DEF OutputArrays
<1>3. SUFFICES ASSUME NEW c \in 1..num_components,
                      NEW x \in 0..(OutputSize(c)[1] - 1), NEW y \in 0..(OutputSize(c)[2] - 1)
               PROVE  ShownBy(workspace_coef_arrays'[c][y \div DCTSIZE][x \div DCTSIZE], c,
                              (x \div DCTSIZE) + x_crop_blocks(c),
                              (y \div DCTSIZE) + y_crop_blocks(c))
  BY <1>2 DEF Placed
<1> DEFINE bx == x \div DCTSIZE
           by == y \div DCTSIZE
           X == bx + x_crop_blocks(c)
           Y == by + y_crop_blocks(c)
<1>4. /\ c \in DOMAIN workspace_coef_arrays /\ by \in DOMAIN workspace_coef_arrays[c]
      /\ bx \in DOMAIN workspace_coef_arrays[c][by]
      /\ bx < dst_width_in_blocks(c)
  BY <1>1, WorkspaceBlocks
<1>5. X \in Nat /\ Y \in Nat /\ Inside(c, Y, X)
  BY <1>1, OutputBlocks
<1> HIDE DEF bx, by
<1>6. workspace_coef_arrays'[c][by][bx] =
          (IF X < comp_width(c) THEN Transposed(NegateOddRows(Source(c, Y, MirroredX(c, X))))
           ELSE Transposed(Source(c, Y, X)))
  BY <1>4 DEF do_rot_90, Execute
<1> HIDE DEF X, Y
<1>7. ShownBy((IF X < comp_width(c) THEN Transposed(NegateOddRows(Source(c, Y, MirroredX(c, X))))
           ELSE Transposed(Source(c, Y, X))), c, X, Y)
  BY <1>1, <1>5, Rot90Shown
<1> QED
  BY <1>6, <1>7 DEF X, Y, bx, by

\* do_rot_270 places every block right.
LEMMA Rot270Placed ==
    ASSUME Ready, do_rot_270
    PROVE  Placed(OutputArrays')
<1>1. info.transform = "ROT_270" /\ NeedWorkspace(info) /\ Transposing
  BY DEF do_rot_270, Execute, NeedWorkspace, Transposing
<1>2. OutputArrays' = workspace_coef_arrays'
  <2>1. DOMAIN workspace_coef_arrays' = DOMAIN workspace_coef_arrays
    BY DEF do_rot_270, Execute
  <2>2. DOMAIN <<>> = {}
    OBVIOUS
  <2> QED
    BY <1>1, <2>1, <2>2, WorkspaceShown DEF OutputArrays
<1>3. SUFFICES ASSUME NEW c \in 1..num_components,
                      NEW x \in 0..(OutputSize(c)[1] - 1), NEW y \in 0..(OutputSize(c)[2] - 1)
               PROVE  ShownBy(workspace_coef_arrays'[c][y \div DCTSIZE][x \div DCTSIZE], c,
                              (x \div DCTSIZE) + x_crop_blocks(c),
                              (y \div DCTSIZE) + y_crop_blocks(c))
  BY <1>2 DEF Placed
<1> DEFINE bx == x \div DCTSIZE
           by == y \div DCTSIZE
           X == bx + x_crop_blocks(c)
           Y == by + y_crop_blocks(c)
<1>4. /\ c \in DOMAIN workspace_coef_arrays /\ by \in DOMAIN workspace_coef_arrays[c]
      /\ bx \in DOMAIN workspace_coef_arrays[c][by]
      /\ bx < dst_width_in_blocks(c)
  BY <1>1, WorkspaceBlocks
<1>5. X \in Nat /\ Y \in Nat /\ Inside(c, Y, X)
  BY <1>1, OutputBlocks
<1> HIDE DEF bx, by
<1>6. workspace_coef_arrays'[c][by][bx] =
          (IF Y < comp_height(c) THEN Transposed(NegateOddColumns(Source(c, MirroredY(c, Y), X)))
           ELSE Transposed(Source(c, Y, X)))
  BY <1>4 DEF do_rot_270, Execute
<1> HIDE DEF X, Y
<1>7. ShownBy((IF Y < comp_height(c)
          THEN Transposed(NegateOddColumns(Source(c, MirroredY(c, Y), X)))
           ELSE Transposed(Source(c, Y, X))), c, X, Y)
  BY <1>1, <1>5, Rot270Shown
<1> QED
  BY <1>6, <1>7 DEF X, Y, bx, by

\* do_rot_180 places every block right.
LEMMA Rot180Placed ==
    ASSUME Ready, do_rot_180
    PROVE  Placed(OutputArrays')
<1>1. info.transform = "ROT_180" /\ NeedWorkspace(info) /\ ~Transposing
  BY DEF do_rot_180, Execute, NeedWorkspace, Transposing
<1>2. OutputArrays' = workspace_coef_arrays'
  <2>1. DOMAIN workspace_coef_arrays' = DOMAIN workspace_coef_arrays
    BY DEF do_rot_180, Execute
  <2>2. DOMAIN <<>> = {}
    OBVIOUS
  <2> QED
    BY <1>1, <2>1, <2>2, WorkspaceShown DEF OutputArrays
<1>3. SUFFICES ASSUME NEW c \in 1..num_components,
                      NEW x \in 0..(OutputSize(c)[1] - 1), NEW y \in 0..(OutputSize(c)[2] - 1)
               PROVE  ShownBy(workspace_coef_arrays'[c][y \div DCTSIZE][x \div DCTSIZE], c,
                              (x \div DCTSIZE) + x_crop_blocks(c),
                              (y \div DCTSIZE) + y_crop_blocks(c))
  BY <1>2 DEF Placed
<1> DEFINE bx == x \div DCTSIZE
           by == y \div DCTSIZE
           X == bx + x_crop_blocks(c)
           Y == by + y_crop_blocks(c)
<1>4. /\ c \in DOMAIN workspace_coef_arrays /\ by \in DOMAIN workspace_coef_arrays[c]
      /\ bx \in DOMAIN workspace_coef_arrays[c][by]
      /\ bx < dst_width_in_blocks(c)
  BY <1>1, WorkspaceBlocks
<1>5. X \in Nat /\ Y \in Nat /\ Inside(c, X, Y)
  BY <1>1, OutputBlocks
<1> HIDE DEF bx, by
<1>6. workspace_coef_arrays'[c][by][bx] =
          (LET b == Source(c, MirroredX(c, X), MirroredY(c, Y))
               r == IF Y < comp_height(c) THEN NegateOddRows(b) ELSE b
           IN IF X < comp_width(c) THEN NegateOddColumns(r) ELSE r)
  BY <1>4 DEF do_rot_180, Execute
<1> HIDE DEF X, Y
<1>7. ShownBy((LET b == Source(c, MirroredX(c, X), MirroredY(c, Y))
               r == IF Y < comp_height(c) THEN NegateOddRows(b) ELSE b
           IN IF X < comp_width(c) THEN NegateOddColumns(r) ELSE r), c, X, Y)
  BY <1>1, <1>5, Rot180Shown
<1> QED
  BY <1>6, <1>7 DEF X, Y, bx, by

\* do_transverse places every block right.
LEMMA TransversePlaced ==
    ASSUME Ready, do_transverse
    PROVE  Placed(OutputArrays')
<1>1. info.transform = "TRANSVERSE" /\ NeedWorkspace(info) /\ Transposing
  BY DEF do_transverse, Execute, NeedWorkspace, Transposing
<1>2. OutputArrays' = workspace_coef_arrays'
  <2>1. DOMAIN workspace_coef_arrays' = DOMAIN workspace_coef_arrays
    BY DEF do_transverse, Execute
  <2>2. DOMAIN <<>> = {}
    OBVIOUS
  <2> QED
    BY <1>1, <2>1, <2>2, WorkspaceShown DEF OutputArrays
<1>3. SUFFICES ASSUME NEW c \in 1..num_components,
                      NEW x \in 0..(OutputSize(c)[1] - 1), NEW y \in 0..(OutputSize(c)[2] - 1)
               PROVE  ShownBy(workspace_coef_arrays'[c][y \div DCTSIZE][x \div DCTSIZE], c,
                              (x \div DCTSIZE) + x_crop_blocks(c),
                              (y \div DCTSIZE) + y_crop_blocks(c))
  BY <1>2 DEF Placed
<1> DEFINE bx == x \div DCTSIZE
           by == y \div DCTSIZE
           X == bx + x_crop_blocks(c)
           Y == by + y_crop_blocks(c)
<1>4. /\ c \in DOMAIN workspace_coef_arrays /\ by \in DOMAIN workspace_coef_arrays[c]
      /\ bx \in DOMAIN workspace_coef_arrays[c][by]
      /\ bx < dst_width_in_blocks(c)
  BY <1>1, WorkspaceBlocks
<1>5. X \in Nat /\ Y \in Nat /\ Inside(c, Y, X)
  BY <1>1, OutputBlocks
<1> HIDE DEF bx, by
<1>6. workspace_coef_arrays'[c][by][bx] =
          (LET b == Source(c, MirroredY(c, Y), MirroredX(c, X))
               r == IF X < comp_width(c) THEN NegateOddRows(b) ELSE b
           IN Transposed(IF Y < comp_height(c) THEN NegateOddColumns(r) ELSE r))
  BY <1>4 DEF do_transverse, Execute
<1> HIDE DEF X, Y
<1>7. ShownBy((LET b == Source(c, MirroredY(c, Y), MirroredX(c, X))
               r == IF X < comp_width(c) THEN NegateOddRows(b) ELSE b
           IN Transposed(IF Y < comp_height(c) THEN NegateOddColumns(r) ELSE r)), c, X, Y)
  BY <1>1, <1>5, TransverseShown
<1> QED
  BY <1>6, <1>7 DEF X, Y, bx, by

\* Without a workspace the image itself is the output.
LEMMA NothingPlaced ==
    ASSUME Ready, do_nothing
    PROVE  Placed(OutputArrays')
<1>1. info.transform = "NONE" /\ ~NeedWorkspace(info) /\ ~Transposing
  BY DEF do_nothing, NeedWorkspace, Transposing
<1>2. OutputArrays' = src_coef_arrays
  BY <1>1 DEF Ready, do_nothing, OutputArrays
<1>3. SUFFICES ASSUME NEW c \in 1..num_components,
                      NEW x \in 0..(OutputSize(c)[1] - 1), NEW y \in 0..(OutputSize(c)[2] - 1)
               PROVE  ShownBy(Source(c, x \div DCTSIZE, y \div DCTSIZE), c,
                              (x \div DCTSIZE) + x_crop_blocks(c),
                              (y \div DCTSIZE) + y_crop_blocks(c))
  BY <1>2 DEF Placed, Source
<1> DEFINE bx == x \div DCTSIZE
           by == y \div DCTSIZE
<1>4. /\ bx \in Nat /\ by \in Nat
      /\ Inside(c, bx + x_crop_blocks(c), by + y_crop_blocks(c))
  BY <1>1, OutputBlocks
<1>5. x_crop_blocks(c) = 0 /\ y_crop_blocks(c) = 0
  <2>1. dst.factors[c] = Factors(c) /\ Factors(c)[1] \in 1..4 /\ Factors(c)[2] \in 1..4
    BY Pictured DEF Ready
  <2> QED
    BY <2>1 DEF do_nothing, x_crop_blocks, y_crop_blocks
<1> HIDE DEF bx, by
<1>6. bx + x_crop_blocks(c) = bx /\ by + y_crop_blocks(c) = by
  BY <1>4, <1>5
<1>7. ShownBy(Source(c, bx, by), c, bx, by)
  BY <1>1, <1>4, <1>6, SameShown
<1> QED
  BY <1>6, <1>7 DEF bx, by

\* do_flip_h_no_crop places every block right, in place.
LEMMA FlipHNoCropPlaced ==
    ASSUME Ready, do_flip_h_no_crop
    PROVE  Placed(OutputArrays')
<1>1. info.transform = "FLIP_H" /\ ~NeedWorkspace(info) /\ ~Transposing
  BY DEF do_flip_h_no_crop, NeedWorkspace, Transposing
<1>2. OutputArrays' = src_coef_arrays'
  BY <1>1 DEF Ready, do_flip_h_no_crop, OutputArrays
<1>3. SUFFICES ASSUME NEW c \in 1..num_components,
                      NEW x \in 0..(OutputSize(c)[1] - 1), NEW y \in 0..(OutputSize(c)[2] - 1)
               PROVE  ShownBy(src_coef_arrays'[c][y \div DCTSIZE][x \div DCTSIZE], c,
                              (x \div DCTSIZE) + x_crop_blocks(c),
                              (y \div DCTSIZE) + y_crop_blocks(c))
  BY <1>2 DEF Placed
<1> DEFINE bx == x \div DCTSIZE
           by == y \div DCTSIZE
           X == bx + x_crop_blocks(c)
           Y == by + y_crop_blocks(c)
           W == comp_width(c)
           row == src_coef_arrays[c][by]
           mirrored == [k \in DOMAIN row |->
                           IF k < W THEN NegateOddColumns(row[W - k - 1]) ELSE row[k]]
           rows == jdiv_round_up(dst_height_in_blocks(c), dst.factors[c][2])
<1>4. /\ bx \in Nat /\ by \in Nat
      /\ bx < dst_width_in_blocks(c) /\ by < dst_height_in_blocks(c)
      /\ x_crop_blocks(c) \in Nat /\ y_crop_blocks(c) \in Nat
      /\ Inside(c, X, Y)
  BY <1>1, OutputBlocks
<1>5. /\ src \in Pictures /\ dst.factors[c] = Factors(c)
      /\ Factors(c)[1] \in 1..4 /\ Factors(c)[2] \in 1..4
      /\ src_factors(c)[1] \in 1..4
      /\ src_iMCU_width \in Nat \ {0} /\ src_iMCU_height \in Nat \ {0}
      /\ src.width \in Nat \ {0}
      /\ MaxV(dst.factors) * DCTSIZE = iMCU_sample_height
      /\ iMCU_sample_height \in Nat \ {0}
  BY Pictured, DstFactors DEF Ready
<1> HIDE DEF bx, by
<1>6. y_crop_blocks(c) = 0 /\ Y = by /\ X \in Nat /\ bx <= X
  BY <1>4, <1>5 DEF do_flip_h_no_crop, y_crop_blocks
<1> HIDE DEF X, Y
<1>7. /\ c \in DOMAIN src_coef_arrays /\ by \in DOMAIN src_coef_arrays[c]
      /\ X \in DOMAIN row /\ bx \in DOMAIN row
  <2>1. /\ X * src_iMCU_width < src.width * src_factors(c)[1]
        /\ by * src_iMCU_height < src.height * src_factors(c)[2]
    BY <1>4, <1>6 DEF Inside
  <2>2. bx * src_iMCU_width <= X * src_iMCU_width
    BY <1>4, <1>5, <1>6, MonotoneProduct
  <2>3. /\ bx * src_iMCU_width \in Nat /\ X * src_iMCU_width \in Nat
        /\ src.width * src_factors(c)[1] \in Nat
    BY <1>4, <1>5, <1>6, Product
  <2>4. bx * src_iMCU_width < src.width * src_factors(c)[1]
    BY <2>1, <2>2, <2>3
  <2> QED
    BY <1>4, <1>6, <2>1, <2>4, Sources
<1>8. by < rows * dst.factors[c][2] /\ rows * dst.factors[c][2] \in Nat
  <2>0. dst_height_in_blocks(c) \in Nat
    <3>0. dst.height = info.output_height /\ Framed
      BY DEF Ready
    <3>1. dst.height \in Nat /\ dst.factors[c][2] \in Nat
      BY <1>5, <3>0 DEF Framed
    <3>2. dst.height * dst.factors[c][2] \in Nat
      BY <3>1, Product
    <3> QED
      BY <1>5, <3>2, RoundUp DEF dst_height_in_blocks
  <2>1. rows \in Nat /\ dst_height_in_blocks(c) <= rows * dst.factors[c][2]
    <3>1. dst.factors[c][2] \in Nat \ {0}
      BY <1>5
    <3> QED
      BY <2>0, <3>1, RoundUp
  <2>2. rows * dst.factors[c][2] \in Nat
    BY <1>5, <2>1, Product
  <2> QED
    BY <1>4, <2>0, <2>1, <2>2
<1>9. src_coef_arrays'[c][by][bx] = mirrored[X]
  <2>0. c <= num_components /\ num_components \in Nat /\ c \in Nat
    BY <1>5, Pictured, MaxFactors
  <2>1. ~(c > num_components \/ by >= rows * dst.factors[c][2])
    <3>1. rows * dst.factors[c][2] \in Int
      BY <1>8
    <3> QED
      BY <1>4, <1>8, <2>0, <3>1
  <2> HIDE DEF mirrored
  <2>2. src_coef_arrays'[c][by] =
           [k \in DOMAIN row |-> IF k < dst_width_in_blocks(c) THEN mirrored[k + x_crop_blocks(c)]
                                 ELSE mirrored[k]]
    BY <1>7, <2>1 DEF do_flip_h_no_crop, mirrored
  <2> QED
    BY <1>4, <1>7, <2>2 DEF X
<1>10. mirrored[X] = IF X < W THEN NegateOddColumns(Source(c, MirroredX(c, X), by))
                     ELSE Source(c, X, by)
  BY <1>7 DEF Source, MirroredX
<1> HIDE DEF mirrored, W
<1>11. ShownBy(IF X < comp_width(c) THEN NegateOddColumns(Source(c, MirroredX(c, X), Y))
               ELSE Source(c, X, Y), c, X, Y)
  BY <1>1, <1>4, <1>6, FlipHShown
<1> QED
  BY <1>6, <1>9, <1>10, <1>11 DEF X, Y, W, bx, by

(***************************************************************************)
(* What is where it belongs                                                *)
(***************************************************************************)
\* SamplesInPlace for these arrays.
AllInPlace(arrays) ==
    \A c \in DOMAIN dst.factors :
        \A x \in 0..(OutputSize(c)[1] - 1), y \in 0..(OutputSize(c)[2] - 1) :
            LET p == Origin(c, <<x + CropCorner(c)[1], y + CropCorner(c)[2]>>)
            IN DecodedSample(arrays[c][y \div DCTSIZE][x \div DCTSIZE], dst.quantval,
                             x % DCTSIZE, y % DCTSIZE) = SampleAt(c, p[1], p[2])

\* If the blocks are right the samples are where they belong.
LEMMA PlacedInPlace ==
    ASSUME Ready, NEW arrays, Placed(arrays)
    PROVE  AllInPlace(arrays)
<1>1. DOMAIN dst.factors = 1..num_components
  BY DstFactors DEF Ready
<1>2. SUFFICES ASSUME NEW c \in 1..num_components,
                      NEW x \in 0..(OutputSize(c)[1] - 1), NEW y \in 0..(OutputSize(c)[2] - 1)
               PROVE  LET p == Origin(c, <<x + CropCorner(c)[1], y + CropCorner(c)[2]>>)
                      IN DecodedSample(arrays[c][y \div DCTSIZE][x \div DCTSIZE], dst.quantval,
                                       x % DCTSIZE, y % DCTSIZE) = SampleAt(c, p[1], p[2])
  BY <1>1 DEF AllInPlace
<1> DEFINE bx == x \div DCTSIZE
           by == y \div DCTSIZE
           i == x % DCTSIZE
           j == y % DCTSIZE
           X == bx + x_crop_blocks(c)
           Y == by + y_crop_blocks(c)
<1>3. /\ bx \in Nat /\ by \in Nat /\ i \in K /\ j \in K
      /\ x = DCTSIZE * bx + i /\ y = DCTSIZE * by + j
      /\ x_crop_blocks(c) \in Nat /\ y_crop_blocks(c) \in Nat
  BY OutputBlocks
<1>4. ShownBy(arrays[c][by][bx], c, X, Y)
  BY DEF Placed
<1> HIDE DEF bx, by, i, j
<1>5. x + CropCorner(c)[1] = DCTSIZE * X + i /\ y + CropCorner(c)[2] = DCTSIZE * Y + j
  BY <1>3 DEF CropCorner, DCTSIZE, K
<1> HIDE DEF X, Y
<1>6. LET p == Origin(c, <<DCTSIZE * X + i, DCTSIZE * Y + j>>)
      IN DecodedSample(arrays[c][by][bx], dst.quantval, i, j) = SampleAt(c, p[1], p[2])
  BY <1>3, <1>4 DEF ShownBy
<1> QED
  BY <1>5, <1>6 DEF bx, by, i, j

\* Nothing but the arrays changes.
LEMMA Unmoved ==
    ASSUME UNCHANGED <<src, info, dst>>, AllInPlace(OutputArrays'), Framed,
           dst.width = info.output_width, dst.height = info.output_height
    PROVE  TransformExact'
<1>1. SamplesInPlace'
  <2>1. \A c : /\ OutputSize(c)' = OutputSize(c)
               /\ CropCorner(c)' = CropCorner(c)
    BY DEF OutputSize, CropCorner, x_crop_blocks, y_crop_blocks
  <2>2. \A c, p : Origin(c, p)' = Origin(c, p)
    BY DEF Origin, FlipH, FlipV, Swap, src_iMCU_width, src_iMCU_height, src_factors, num_components
  <2>3. ASSUME NEW c \in DOMAIN dst.factors,
               NEW x \in 0..(OutputSize(c)[1] - 1), NEW y \in 0..(OutputSize(c)[2] - 1)
        PROVE  LET p == Origin(c, <<x + CropCorner(c)[1], y + CropCorner(c)[2]>>)
               IN DecodedSample(OutputArrays'[c][y \div DCTSIZE][x \div DCTSIZE], dst.quantval,
                                x % DCTSIZE, y % DCTSIZE) = SampleAt(c, p[1], p[2])
    BY DEF AllInPlace
  <2> QED
    BY <2>1, <2>2, <2>3 DEF SamplesInPlace, OutputSample
<1>2. RegionCovered'
  BY DEF Framed, RegionCovered, full_width, full_height, iMCU_sample_width, iMCU_sample_height,
         src_iMCU_width, src_iMCU_height, num_components, Transposing, MirrorsColumns, MirrorsRows
<1>3. EdgesExplained'
  BY DEF Framed, EdgesExplained, full_width, full_height, iMCU_sample_width, iMCU_sample_height,
         src_iMCU_width, src_iMCU_height, num_components, Transposing, MirrorsColumns, MirrorsRows
<1> QED
  BY <1>1, <1>2, <1>3 DEF TransformExact

\* What the calls have done so far.
TransformInv ==
    /\ src \in Pictures /\ info \in Infos
    /\ step \in {"request", "adjust", "execute", "done", "imperfect", "error"}
    /\ step # "done" =>
          src_coef_arrays = [c \in DOMAIN src.factors |-> Padded(src, c)]
    /\ step = "request" =>
          /\ info.output_width = src.width /\ info.output_height = src.height
          /\ workspace_coef_arrays = <<>>
    /\ step = "adjust" =>
          /\ Framed
          /\ workspace_coef_arrays = IF NeedWorkspace(info) THEN Workspace(info) ELSE <<>>
    /\ step \in {"request", "adjust"} => dst.quantval = quantval
    /\ step = "execute" => Ready
    /\ TransformExact

\* The invariant holds at the start.
LEMMA TransformInitInv ==
    ASSUME TransformInit
    PROVE  TransformInv
<1>1. src \in Pictures /\ src.width \in Nat \ {0} /\ src.height \in Nat \ {0}
  BY TransformAssumption DEF TransformInit
<1>2. info \in Infos
  BY <1>1, TransformAssumption DEF TransformInit, Infos
<1>3. info.output_width = src.width /\ info.output_height = src.height
  <2>1. PICK r \in Requests :
           info = [r EXCEPT !.output_width = src.width, !.output_height = src.height]
    BY DEF TransformInit
  <2>2. r \in Infos
    BY TransformAssumption DEF Infos
  <2> QED
    BY <2>1, <2>2 DEF Infos
<1> QED
  BY <1>1, <1>2, <1>3 DEF TransformInit, TransformInv, TransformExact

\* jtransform_execute_transform keeps it.
LEMMA ExecuteInv ==
    ASSUME TransformInv, jtransform_execute_transform
    PROVE  TransformInv'
<1>1. Ready /\ UNCHANGED <<src, info, dst>> /\ step' = "done"
  BY DEF TransformInv, jtransform_execute_transform, do_nothing, do_crop, do_flip_h_no_crop,
         do_flip_h, do_flip_v, do_transpose, do_rot_90, do_rot_270, do_rot_180, do_transverse,
         Execute
<1>2. Placed(OutputArrays')
  BY <1>1, NothingPlaced, SamePlaced, FlipHNoCropPlaced, FlipHPlaced, FlipVPlaced, TransposePlaced,
     Rot90Placed, Rot270Placed, Rot180Placed, TransversePlaced DEF jtransform_execute_transform
<1>3. AllInPlace(OutputArrays')
  BY <1>1, <1>2, PlacedInPlace
<1>4. /\ Framed /\ dst.width = info.output_width /\ dst.height = info.output_height
      /\ src \in Pictures /\ info \in Infos
  BY <1>1 DEF Ready
<1>5. TransformExact'
  BY <1>1, <1>3, <1>4, Unmoved
<1> QED
  BY <1>1, <1>4, <1>5 DEF TransformInv

\* jtransform_request_workspace sizes the output.
LEMMA SizedFramed ==
    ASSUME src \in Pictures, info \in Infos, CropOk, info.perfect => jtransform_perfect_transform,
           info' = Sized, UNCHANGED src
    PROVE  info' \in Infos /\ Framed' /\ NeedWorkspace(info)' = NeedWorkspace(Sized)
           /\ Workspace(info)' = Workspace(Sized)
<1> DEFINE fw == full_width
           fh == full_height
           uw == iMCU_sample_width
           uh == iMCU_sample_height
           xoff == IF info.crop THEN From(info.crop_x, fw) \div uw ELSE 0
           yoff == IF info.crop THEN From(info.crop_y, fh) \div uh ELSE 0
           w == IF info.crop THEN Extended(info.crop_x, fw, uw) ELSE fw
           h == IF info.crop THEN Extended(info.crop_y, fh, uh) ELSE fh
           ow == IF info.trim /\ MirrorsColumns THEN Trimmed(w, xoff, fw, uw) ELSE w
           oh == IF info.trim /\ MirrorsRows THEN Trimmed(h, yoff, fh, uh) ELSE h
<1>1. /\ fw \in Nat \ {0} /\ fh \in Nat \ {0} /\ uw \in Nat \ {0} /\ uh \in Nat \ {0}
      /\ info.crop_x \in CropSpecs /\ info.crop_y \in CropSpecs
      /\ info.crop \in BOOLEAN /\ info.trim \in BOOLEAN /\ info.perfect \in BOOLEAN
      /\ info.force_grayscale \in BOOLEAN /\ info.transform \in Transforms
      /\ MirrorsColumns \in BOOLEAN /\ MirrorsRows \in BOOLEAN
  BY Pictured DEF Infos, MirrorsColumns, MirrorsRows
<1>2. /\ info.crop => ValidCrop(info.crop_x, fw) /\ ValidCrop(info.crop_y, fh)
      /\ info.perfect /\ MirrorsColumns => fw % uw = 0
      /\ info.perfect /\ MirrorsRows => fh % uh = 0
  BY DEF CropOk, jtransform_perfect_transform, MirrorsColumns, MirrorsRows, full_width, full_height,
         iMCU_sample_width, iMCU_sample_height, Transposing
<1>3. /\ info' = [info EXCEPT !.x_crop_offset = xoff, !.y_crop_offset = yoff,
                              !.output_width = ow, !.output_height = oh]
  BY DEF Sized
<1>4. /\ info'.x_crop_offset = xoff /\ info'.y_crop_offset = yoff
      /\ info'.output_width = ow /\ info'.output_height = oh
      /\ info'.transform = info.transform /\ info'.perfect = info.perfect
      /\ info'.trim = info.trim /\ info'.force_grayscale = info.force_grayscale
      /\ info'.crop = info.crop /\ info'.crop_x = info.crop_x /\ info'.crop_y = info.crop_y
  BY <1>3 DEF Infos
<1> HIDE DEF fw, fh, uw, uh
<1>5. /\ xoff \in Nat /\ ow \in Nat \ {0} /\ xoff * uw + ow <= fw
      /\ info.crop => Covers(info.crop_x, fw, xoff, ow, uw, info.trim /\ MirrorsColumns)
      /\ EdgeShown(MirrorsColumns, fw, xoff, ow, uw) => ~info.perfect /\ (info.trim => ow < uw)
  <2>1. SizedAlong(info.crop_x, fw, uw, info.crop, info.trim, MirrorsColumns, info.perfect,
                    xoff, ow)
    BY <1>1, <1>2 DEF SizedAlong
  <2>2. FramedAlong(info.crop_x, fw, uw, info.crop, info.trim, MirrorsColumns, info.perfect,
                    xoff, ow)
    BY <2>1, AxisFramed
  <2> QED
    BY <2>2 DEF FramedAlong
<1>6. /\ yoff \in Nat /\ oh \in Nat \ {0} /\ yoff * uh + oh <= fh
      /\ info.crop => Covers(info.crop_y, fh, yoff, oh, uh, info.trim /\ MirrorsRows)
      /\ EdgeShown(MirrorsRows, fh, yoff, oh, uh) => ~info.perfect /\ (info.trim => oh < uh)
  <2>1. SizedAlong(info.crop_y, fh, uh, info.crop, info.trim, MirrorsRows, info.perfect,
                    yoff, oh)
    BY <1>1, <1>2 DEF SizedAlong
  <2>2. FramedAlong(info.crop_y, fh, uh, info.crop, info.trim, MirrorsRows, info.perfect,
                    yoff, oh)
    BY <2>1, AxisFramed
  <2> QED
    BY <2>2 DEF FramedAlong
<1>7. /\ full_width' = fw /\ full_height' = fh
      /\ iMCU_sample_width' = uw /\ iMCU_sample_height' = uh
      /\ MirrorsColumns' = MirrorsColumns /\ MirrorsRows' = MirrorsRows
      /\ num_components' = num_components
  BY <1>4 DEF fw, fh, uw, uh, full_width, full_height, iMCU_sample_width, iMCU_sample_height,
              src_iMCU_width, src_iMCU_height, num_components, Transposing, MirrorsColumns,
              MirrorsRows
<1>8. info' \in Infos
  <2> HIDE DEF xoff, yoff, ow, oh
  <2> QED
    BY <1>3, <1>5, <1>6 DEF Infos
<1> HIDE DEF xoff, yoff, ow, oh
<1>9. Framed'
  BY <1>4, <1>5, <1>6, <1>7 DEF Framed
<1>10. \A c : Factors(c)' = Factors(c)
  BY <1>4, <1>7 DEF Factors, src_factors, Transposing
<1>11. NeedWorkspace(info)' = NeedWorkspace(Sized) /\ Workspace(info)' = Workspace(Sized)
  BY <1>7, <1>10 DEF NeedWorkspace, Workspace, uh, uw
<1> QED
  BY <1>8, <1>9, <1>11

\* jtransform_request_workspace keeps it.
LEMMA RequestInv ==
    ASSUME TransformInv, RequestWorkspace
    PROVE  TransformInv'
<1>1. /\ src \in Pictures /\ info \in Infos /\ CropOk /\ step = "request" /\ step' = "adjust"
      /\ info.perfect => jtransform_perfect_transform
      /\ info' = Sized /\ UNCHANGED <<src, src_coef_arrays, dst>>
      /\ workspace_coef_arrays' = IF NeedWorkspace(Sized) THEN Workspace(Sized) ELSE <<>>
      /\ src_coef_arrays = [c \in DOMAIN src.factors |-> Padded(src, c)]
      /\ dst.quantval = quantval
  BY DEF TransformInv, RequestWorkspace
<1>2. info' \in Infos /\ Framed' /\ NeedWorkspace(info)' = NeedWorkspace(Sized)
      /\ Workspace(info)' = Workspace(Sized)
  BY <1>1, SizedFramed
<1>3. src_coef_arrays' = [c \in DOMAIN src'.factors |-> Padded(src', c)]
  BY <1>1 DEF Padded
<1>4. TransformExact'
  BY <1>1 DEF TransformExact
<1> QED
  BY <1>1, <1>2, <1>3, <1>4 DEF TransformInv

\* jtransform_adjust_parameters keeps it.
LEMMA AdjustInv ==
    ASSUME TransformInv, AdjustParameters
    PROVE  TransformInv'
<1>1. /\ src \in Pictures /\ info \in Infos /\ step = "adjust" /\ step' = "execute" /\ Framed
      /\ info.force_grayscale => CanGray
      /\ UNCHANGED <<src, src_coef_arrays, info, workspace_coef_arrays>>
      /\ workspace_coef_arrays = IF NeedWorkspace(info) THEN Workspace(info) ELSE <<>>
      /\ src_coef_arrays = [c \in DOMAIN src.factors |-> Padded(src, c)]
      /\ dst.quantval = quantval
  BY DEF TransformInv, AdjustParameters
<1>2. dst' = [factors |-> [c \in 1..num_components |-> Factors(c)],
              width |-> info.output_width, height |-> info.output_height,
              quantval |-> IF Transposing THEN Transposed(quantval) ELSE quantval]
  BY <1>1 DEF AdjustParameters
<1>3. /\ Framed' /\ NeedWorkspace(info)' = NeedWorkspace(info)
      /\ Workspace(info)' = Workspace(info)
      /\ num_components' = num_components /\ Transposing' = Transposing
      /\ \A c : Factors(c)' = Factors(c)
      /\ CanGray' = CanGray
  BY <1>1 DEF Framed, NeedWorkspace, Workspace, num_components, Transposing, Factors, src_factors,
              CanGray, full_width, full_height, iMCU_sample_width, iMCU_sample_height,
              src_iMCU_width, src_iMCU_height, MirrorsColumns, MirrorsRows
<1>4. Ready'
  BY <1>1, <1>2, <1>3 DEF Ready
<1>5. src_coef_arrays' = [c \in DOMAIN src'.factors |-> Padded(src', c)]
  BY <1>1
<1>6. TransformExact'
  BY <1>1 DEF TransformExact
<1> QED
  BY <1>1, <1>4, <1>5, <1>6 DEF TransformInv

\* An image cannot be transformed as it was asked for: nothing has been done to it.
LEMMA RefusedInv ==
    ASSUME TransformInv, RequestImperfect \/ RequestBadCrop \/ AdjustImpossible
    PROVE  TransformInv'
<1>1. /\ step' \in {"imperfect", "error"} /\ step \in {"request", "adjust"}
      /\ UNCHANGED <<src, src_coef_arrays, info, dst, workspace_coef_arrays>>
  BY DEF RequestImperfect, RequestBadCrop, AdjustImpossible
<1> QED
  BY <1>1 DEF TransformInv, TransformExact

\* A stuttering step keeps it.
LEMMA TransformStutter ==
    ASSUME TransformInv, UNCHANGED transformVars
    PROVE  TransformInv'
<1>1. UNCHANGED <<src, src_coef_arrays, info, dst, workspace_coef_arrays, step>>
  BY DEF transformVars
<1>2. /\ Framed' = Framed /\ NeedWorkspace(info)' = NeedWorkspace(info)
      /\ Workspace(info)' = Workspace(info)
  BY <1>1 DEF Framed, NeedWorkspace, Workspace, num_components, Transposing, Factors, src_factors,
              full_width, full_height, iMCU_sample_width, iMCU_sample_height,
              src_iMCU_width, src_iMCU_height, MirrorsColumns, MirrorsRows
<1>3. CASE step = "done"
  <2>1. TransformExact'
    <3>1. SamplesInPlace' = SamplesInPlace /\ RegionCovered' = RegionCovered
          /\ EdgesExplained' = EdgesExplained
      BY <1>1 DEF SamplesInPlace, RegionCovered, EdgesExplained, OutputSize, CropCorner,
                  OutputSample, OutputArrays, Origin, FlipH, FlipV, x_crop_blocks, y_crop_blocks,
                  full_width, full_height, iMCU_sample_width, iMCU_sample_height, src_iMCU_width,
                  src_iMCU_height, src_factors, num_components, Transposing, MirrorsColumns,
                  MirrorsRows
    <3> QED
      BY <1>1, <3>1 DEF TransformInv, TransformExact
  <2> QED
    BY <1>1, <1>2, <1>3, <2>1 DEF TransformInv
<1>4. CASE step # "done"
  <2>1. Ready' = Ready
    BY <1>1, <1>2 DEF Ready, CanGray, num_components, Transposing, Factors, src_factors
  <2> QED
    BY <1>1, <1>2, <1>4, <2>1 DEF TransformInv, TransformExact
<1> QED
  BY <1>3, <1>4

(***************************************************************************)
(* Of every image, for every transformation with or without a crop region, *)
(* a trimmed edge and colours: when jtransform_execute_transform is done,  *)
(* each sample of the output is the one of the image that the              *)
(* transformation puts there, the output covers the region asked for, and  *)
(* a partial iMCU that could not be mirrored is shown only where the       *)
(* options allow it.                                                       *)
(***************************************************************************)
THEOREM TransformsExactly == TransformSpec => []TransformExact
<1>1. TransformInit => TransformInv
  BY TransformInitInv
<1>2. TransformInv /\ [TransformNext]_transformVars => TransformInv'
  BY ExecuteInv, RequestInv, AdjustInv, RefusedInv, TransformStutter DEF TransformNext
<1>3. TransformInv => TransformExact
  BY DEF TransformInv
<1> QED
  BY <1>1, <1>2, <1>3, PTL DEF TransformSpec
=============================================================================
