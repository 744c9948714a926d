--------------------------- MODULE BorrowingProofs ---------------------------
(***************************************************************************)
(* What Borrowing promises: of the loan desk, for any number of wallets,   *)
(* requests and calls of trackCreatedLoan; and of the tokens that the      *)
(* server calls valid, for any tokens and any number of calls that verify  *)
(* them at the same time.                                                   *)
(***************************************************************************)
EXTENDS Borrowing, FiniteSetTheorems, SequenceTheorems, TLAPS

(* LoanDesk                                                                 *)

RequestRecord ==
  [phase : {"idle", "metrics", "limit", "price", "index", "prepared", "sent"},
   wallet : Wallet, index : Nat, fresh : BOOLEAN]

TrackRecord ==
  [phase : {"idle", "creating", "counting", "expiring"}, wallet : Wallet, index : Nat]

\* The calls that have made a row of w and not counted it yet.
CountingFor(w) == {t \in Tracker : trk[t].phase = "counting" /\ trk[t].wallet = w}

DeskTypes ==
  /\ loans \in Seq(Wallet)
  /\ DOMAIN rows = Wallet /\ \A w \in Wallet : IsFiniteSet(rows[w])
  /\ rate \in [Wallet -> Nat] /\ forgot \in [Wallet -> Nat]
  /\ req \in [Request -> RequestRecord]
  /\ trk \in [Tracker -> TrackRecord]

\* A row is made by one call, and counts for the wallet it names: as counted, as
\* about to be counted, or as forgotten.
CountsKept ==
  /\ \A w \in Wallet : Cardinality(rows[w]) = rate[w] + forgot[w] + Cardinality(CountingFor(w))
  /\ \A w, v \in Wallet : w # v => rows[w] \cap rows[v] = {}

DeskInv == DeskTypes /\ CountsKept

LEMMA DeskSteps == [Next]_vars => [Desk!Next]_desk
BY DEF Next, vars, desk

LEMMA DeskVars == Desk!vars = <<<<loans, liquidations>>, <<rows, rate, expiring, trk, forgot, timeless>>, tripped, req, faults>>
BY DEF Desk!vars, Desk!chain, Desk!limits

\* The instance's cardinality is the library's.
LEMMA SameCardinality == \A S : Desk!Cardinality(S) = Cardinality(S)
BY DEF Desk!Cardinality, Cardinality, Desk!IsFiniteSet, IsFiniteSet

LEMMA Finite ==
  ASSUME DeskTypes
  PROVE  /\ \A w \in Wallet : IsFiniteSet(rows[w]) /\ Cardinality(rows[w]) \in Nat
         /\ \A w : IsFiniteSet(CountingFor(w)) /\ Cardinality(CountingFor(w)) \in Nat
<1>1. \A w \in Wallet : IsFiniteSet(rows[w])
  BY DEF DeskTypes
<1>2. \A w : CountingFor(w) \subseteq Tracker
  BY DEF CountingFor
<1>3. \A w : IsFiniteSet(CountingFor(w))
  BY <1>2, FS_Subset, DeskAssumption
<1> QED
  BY <1>1, <1>3, FS_CardinalityType

LEMMA IndexesAreNumbers ==
  ASSUME DeskTypes
  PROVE  \A i \in DOMAIN loans : i \in Nat
<1>1. PICK n \in Nat : DOMAIN loans = 1 .. n
  BY DEF DeskTypes
<1> QED
  BY <1>1

LEMMA NoRequestType == Desk!NoRequest \in RequestRecord
<1>1. PICK w \in Wallet : w = CHOOSE x \in Wallet : TRUE
  BY DeskAssumption
<1> QED
  BY <1>1 DEF Desk!NoRequest, RequestRecord

LEMMA NoTrackType == Desk!NoTrack \in TrackRecord /\ Desk!NoTrack.phase = "idle"
<1>1. PICK w \in Wallet : w = CHOOSE x \in Wallet : TRUE
  BY DeskAssumption
<1> QED
  BY <1>1 DEF Desk!NoTrack, TrackRecord

LEMMA DeskInit == Init => DeskInv
<1> SUFFICES ASSUME Desk!Init PROVE DeskInv
  BY DEF Init
<1>1. \A w \in Wallet : rows[w] = {} /\ rate[w] = 0 /\ forgot[w] = 0
  BY DEF Desk!Init
<1>2. \A w : CountingFor(w) = {}
  BY NoTrackType DEF Desk!Init, CountingFor
<1>3. DeskTypes
  BY <1>1, NoRequestType, NoTrackType, FS_EmptySet DEF Desk!Init, DeskTypes
<1> QED
  BY <1>1, <1>2, <1>3, FS_EmptySet DEF DeskInv, CountsKept

\* Steps of requests and of the breaker: what is counted stays as it is.
LEMMA AsBefore ==
  ASSUME DeskInv, UNCHANGED <<rows, rate, trk, forgot>>, loans' \in Seq(Wallet),
         req' \in [Request -> RequestRecord]
  PROVE  DeskInv'
<1>1. DeskTypes'
  BY DEF DeskInv, DeskTypes
<1>2. \A w : CountingFor(w)' = CountingFor(w)
  BY DEF CountingFor
<1> QED
  BY <1>1, <1>2 DEF DeskInv, CountsKept

\* A step of a request changes that request.
LEMMA RequestChanges ==
  ASSUME DeskTypes, NEW r \in Request,
         \/ \E w \in Wallet : Desk!Ask(r, w)
         \/ Desk!Metrics(r) \/ Desk!CheckWallet(r) \/ Desk!FetchPrice(r) \/ Desk!CoSign(r)
         \/ Desk!SignAndSend(r) \/ Desk!Land(r) \/ Desk!PriceAges(r)
  PROVE  req' \in [Request -> RequestRecord]
<1>1. req[r] \in RequestRecord
  BY DEF DeskTypes
<1>2. ASSUME NEW d \in RequestRecord, req' = [req EXCEPT ![r] = d]
      PROVE  req' \in [Request -> RequestRecord]
  BY <1>2 DEF DeskTypes
<1>3. ASSUME NEW p \in {"limit", "price", "sent"}, Desk!Advance(r, p)
      PROVE  req' \in [Request -> RequestRecord]
  BY <1>1, <1>3 DEF Desk!Advance, RequestRecord, DeskTypes
<1>4. Desk!Refuse(r) => req' \in [Request -> RequestRecord]
  BY <1>2, NoRequestType DEF Desk!Refuse
<1>5. ASSUME NEW w \in Wallet, Desk!Ask(r, w) PROVE req' \in [Request -> RequestRecord]
  <2>1. [Desk!NoRequest EXCEPT !.phase = "metrics", !.wallet = w] \in RequestRecord
    BY NoRequestType DEF RequestRecord
  <2> QED
    BY <1>2, <1>5, <2>1 DEF Desk!Ask
<1>6. Desk!FetchPrice(r) => req' \in [Request -> RequestRecord]
  <2>1. [req[r] EXCEPT !.phase = "index", !.fresh = TRUE] \in RequestRecord
    BY <1>1 DEF RequestRecord
  <2> QED
    BY <1>2, <1>4, <2>1 DEF Desk!FetchPrice
<1>7. Desk!CoSign(r) => req' \in [Request -> RequestRecord]
  <2>1. PICK n \in Nat : n = Len(loans)
    BY LenProperties DEF DeskTypes
  <2>2. [req[r] EXCEPT !.phase = "prepared", !.index = n] \in RequestRecord
    BY <1>1 DEF RequestRecord
  <2> QED
    BY <1>2, <1>4, <2>1, <2>2 DEF Desk!CoSign
<1>8. Desk!PriceAges(r) => req' \in [Request -> RequestRecord]
  <2>1. [req[r] EXCEPT !.fresh = FALSE] \in RequestRecord
    BY <1>1 DEF RequestRecord
  <2> QED
    BY <1>2, <2>1 DEF Desk!PriceAges
<1> QED
  BY <1>3, <1>4, <1>5, <1>6, <1>7, <1>8
     DEF Desk!Metrics, Desk!CheckWallet, Desk!SignAndSend, Desk!Land

LEMMA LandKeeps ==
  ASSUME DeskInv, NEW r \in Request, Desk!Land(r)
  PROVE  DeskInv'
<1>1. DeskTypes /\ req[r].wallet \in Wallet
  BY DEF DeskInv, DeskTypes, RequestRecord
<1>2. req' \in [Request -> RequestRecord]
  BY <1>1, RequestChanges
<1>3. loans' \in Seq(Wallet)
  <2>1. loans' = loans \/ loans' = Append(loans, req[r].wallet)
    BY DEF Desk!Land
  <2>2. PICK w \in Wallet : w = req[r].wallet
    BY <1>1
  <2>3. loans \in Seq(Wallet)
    BY <1>1 DEF DeskTypes
  <2>4. Append(loans, w) \in Seq(Wallet)
    BY <2>3, AppendProperties
  <2> QED
    BY <2>1, <2>2, <2>3, <2>4
<1>4. UNCHANGED <<rows, rate, trk, forgot>>
  BY DEF Desk!Land, Desk!limits
<1> QED
  BY <1>2, <1>3, <1>4, AsBefore

\* One call of trackCreatedLoan goes on to d.
LEMMA OneTracker ==
  ASSUME DeskTypes, NEW t \in Tracker, NEW d \in TrackRecord, trk' = [trk EXCEPT ![t] = d]
  PROVE  /\ trk' \in [Tracker -> TrackRecord]
         /\ \A w : CountingFor(w)' = IF d.phase = "counting" /\ d.wallet = w
                                    THEN CountingFor(w) \cup {t} ELSE CountingFor(w) \ {t}
         /\ \A w : t \in CountingFor(w) <=> trk[t].phase = "counting" /\ trk[t].wallet = w
<1>1. trk'[t] = d /\ \A x \in Tracker : x # t => trk'[x] = trk[x]
  BY DEF DeskTypes
<1>2. trk' \in [Tracker -> TrackRecord]
  BY DEF DeskTypes
<1>3. ASSUME NEW w
      PROVE  CountingFor(w)' = IF d.phase = "counting" /\ d.wallet = w
                               THEN CountingFor(w) \cup {t} ELSE CountingFor(w) \ {t}
  <2>1. CASE d.phase = "counting" /\ d.wallet = w
    BY <1>1, <2>1 DEF CountingFor
  <2>2. CASE ~ (d.phase = "counting" /\ d.wallet = w)
    BY <1>1, <2>2 DEF CountingFor
  <2> QED
    BY <2>1, <2>2
<1>4. \A w : t \in CountingFor(w) <=> trk[t].phase = "counting" /\ trk[t].wallet = w
  BY DEF CountingFor
<1> QED
  BY <1>2, <1>3, <1>4

\* A call that counts nobody's row before or after leaves the books as they are.
LEMMA TrackerAside ==
  ASSUME DeskInv, NEW t \in Tracker, NEW d \in TrackRecord, d.phase # "counting",
         trk[t].phase # "counting", trk' = [trk EXCEPT ![t] = d],
         UNCHANGED <<loans, rows, rate, forgot, req>>
  PROVE  DeskInv'
<1>1. DeskTypes /\ CountsKept
  BY DEF DeskInv
<1>2. /\ trk' \in [Tracker -> TrackRecord]
      /\ \A w : CountingFor(w)' = CountingFor(w) \ {t} /\ t \notin CountingFor(w)
  BY <1>1, OneTracker
<1>3. \A w : CountingFor(w)' = CountingFor(w)
  BY <1>2
<1> QED
  BY <1>1, <1>2, <1>3 DEF DeskInv, DeskTypes, CountsKept

LEMMA BeginKeeps ==
  ASSUME DeskInv, NEW t \in Tracker,
         Desk!Expire(t) \/ \E i \in DOMAIN loans, w \in Wallet : Desk!BeginTrack(t, i, w)
  PROVE  DeskInv'
<1>1. UNCHANGED <<loans, rows, rate, forgot, req>> /\ trk[t].phase # "counting"
  BY DEF Desk!Expire, Desk!BeginTrack, Desk!chain
<1>2. CASE Desk!Expire(t)
  BY <1>1, <1>2, NoTrackType, TrackerAside DEF Desk!Expire
<1>3. ASSUME NEW i \in DOMAIN loans, NEW w \in Wallet, Desk!BeginTrack(t, i, w) PROVE DeskInv'
  <2>1. PICK n \in Nat : n = i
    BY IndexesAreNumbers DEF DeskInv
  <2>2. PICK d \in TrackRecord : d = [phase |-> "creating", wallet |-> w, index |-> i]
    BY <2>1 DEF TrackRecord
  <2> QED
    BY <1>1, <1>3, <2>2, TrackerAside DEF Desk!BeginTrack
<1> QED
  BY <1>2, <1>3

\* The row, of the wallet the call names, is of a loan that had none.
LEMMA CreateKeeps ==
  ASSUME DeskInv, NEW t \in Tracker, Desk!Create(t)
  PROVE  DeskInv'
<1>1. DeskTypes /\ CountsKept /\ trk[t] \in TrackRecord /\ trk[t].phase = "creating"
  BY DEF DeskInv, DeskTypes, Desk!Create
<1>2. /\ \A w \in Wallet : IsFiniteSet(rows[w]) /\ Cardinality(rows[w]) \in Nat
      /\ \A w : IsFiniteSet(CountingFor(w)) /\ Cardinality(CountingFor(w)) \in Nat
  BY <1>1, Finite
<1>3. UNCHANGED <<loans, rate, req>>
  BY DEF Desk!Create, Desk!chain
<1>4. PICK o \in Wallet : o = trk[t].wallet
  BY <1>1 DEF TrackRecord
<1>5. PICK i : i = trk[t].index
  OBVIOUS
<1>6. CASE i \in Desk!Tracked
  BY <1>1, <1>3, <1>5, <1>6, NoTrackType, TrackerAside DEF Desk!Create
<1>7. CASE i \notin Desk!Tracked
  <2>1. rows' = [rows EXCEPT ![o] = @ \cup {i}]
    BY <1>4, <1>5, <1>7 DEF Desk!Create
  <2>2. \A w \in Wallet : i \notin rows[w]
    BY <1>7 DEF Desk!Tracked
  <2>3. DOMAIN rows' = Wallet
        /\ \A w \in Wallet : rows'[w] = IF w = o THEN rows[w] \cup {i} ELSE rows[w]
    BY <1>1, <2>1 DEF DeskTypes
  <2>4. \A w, v \in Wallet : w # v => rows'[w] \cap rows'[v] = {}
    BY <1>1, <2>2, <2>3 DEF CountsKept
  <2>5. \A w \in Wallet : /\ IsFiniteSet(rows'[w])
                         /\ Cardinality(rows'[w]) = IF w = o THEN Cardinality(rows[w]) + 1
                                                    ELSE Cardinality(rows[w])
    <3>1. /\ IsFiniteSet(rows[o] \cup {i})
          /\ Cardinality(rows[o] \cup {i}) = Cardinality(rows[o]) + 1
      BY <1>2, <2>2, FS_AddElement
    <3> QED
      BY <1>2, <2>3, <3>1
  <2>6. CASE trk' = [trk EXCEPT ![t].phase = "counting"] /\ forgot' = forgot
    <3>1. PICK d \in TrackRecord : d = [trk[t] EXCEPT !.phase = "counting"]
      BY <1>1 DEF TrackRecord
    <3>2. d.phase = "counting" /\ d.wallet = o /\ trk' = [trk EXCEPT ![t] = d]
      BY <1>1, <1>4, <2>6, <3>1 DEF TrackRecord
    <3>3. /\ trk' \in [Tracker -> TrackRecord]
          /\ \A w : t \notin CountingFor(w)
          /\ \A w : CountingFor(w)' = IF w = o THEN CountingFor(w) \cup {t} ELSE CountingFor(w) \ {t}
      BY <1>1, <3>2, OneTracker
    <3>4. \A w \in Wallet : Cardinality(CountingFor(w)') =
             IF w = o THEN Cardinality(CountingFor(w)) + 1 ELSE Cardinality(CountingFor(w))
      <4>1. \A w : w # o => CountingFor(w)' = CountingFor(w)
        BY <3>3
      <4>2. CountingFor(o)' = CountingFor(o) \cup {t}
        BY <3>3
      <4> QED
        BY <1>2, <3>3, <4>1, <4>2, FS_AddElement
    <3>5. DeskTypes'
      BY <1>1, <1>3, <2>3, <2>5, <2>6, <3>3 DEF DeskTypes
    <3>6. ASSUME NEW w \in Wallet
          PROVE  (Cardinality(rows[w]) = rate[w] + forgot[w] + Cardinality(CountingFor(w)))'
      <4>1. rate[w] \in Nat /\ forgot[w] \in Nat
        BY <1>1 DEF DeskTypes
      <4> QED
        BY <1>1, <1>2, <1>3, <2>5, <2>6, <3>4, <4>1 DEF CountsKept
    <3> QED
      BY <2>4, <3>5, <3>6 DEF DeskInv, CountsKept
  <2>7. CASE trk' = [trk EXCEPT ![t] = Desk!NoTrack] /\ forgot' = [forgot EXCEPT ![o] = @ + 1]
    <3>0. /\ trk' \in [Tracker -> TrackRecord]
          /\ \A w : CountingFor(w)' = CountingFor(w) \ {t} /\ t \notin CountingFor(w)
      BY <1>1, <2>7, NoTrackType, OneTracker
    <3>1. trk' \in [Tracker -> TrackRecord] /\ \A w : CountingFor(w)' = CountingFor(w)
      BY <3>0
    <3>2. forgot' \in [Wallet -> Nat]
      BY <1>1, <2>7 DEF DeskTypes
    <3>3. DeskTypes'
      BY <1>1, <1>3, <2>3, <2>5, <3>1, <3>2 DEF DeskTypes
    <3>4. ASSUME NEW w \in Wallet
          PROVE  (Cardinality(rows[w]) = rate[w] + forgot[w] + Cardinality(CountingFor(w)))'
      <4>1. rate[w] \in Nat /\ forgot[w] \in Nat
            /\ forgot'[w] = IF w = o THEN forgot[w] + 1 ELSE forgot[w]
        BY <1>1, <2>7 DEF DeskTypes
      <4> QED
        BY <1>1, <1>2, <1>3, <2>5, <3>1, <4>1 DEF CountsKept
    <3> QED
      BY <2>4, <3>3, <3>4 DEF DeskInv, CountsKept
  <2> QED
    BY <1>4, <1>5, <1>7, <2>6, <2>7 DEF Desk!Create
<1> QED
  BY <1>6, <1>7

\* INCR: one that was about to be counted is counted.
LEMMA CountKeeps ==
  ASSUME DeskInv, NEW t \in Tracker, Desk!Count(t)
  PROVE  DeskInv'
<1>1. DeskTypes /\ CountsKept /\ trk[t] \in TrackRecord
  BY DEF DeskInv, DeskTypes
<1>2. /\ \A w \in Wallet : IsFiniteSet(rows[w]) /\ Cardinality(rows[w]) \in Nat
      /\ \A w : IsFiniteSet(CountingFor(w)) /\ Cardinality(CountingFor(w)) \in Nat
  BY <1>1, Finite
<1>3. UNCHANGED <<loans, rows, forgot, req>> /\ trk[t].phase = "counting"
  BY DEF Desk!Count, Desk!chain
<1>4. PICK o \in Wallet : o = trk[t].wallet
  BY <1>1 DEF TrackRecord
<1>5. PICK d \in TrackRecord : d.phase # "counting" /\ trk' = [trk EXCEPT ![t] = d]
  <2>1. PICK e \in TrackRecord : e = [trk[t] EXCEPT !.phase = "expiring"]
    BY <1>1 DEF TrackRecord
  <2>2. e.phase = "expiring"
    BY <1>1, <2>1 DEF TrackRecord
  <2>3. trk' = [trk EXCEPT ![t] = e] \/ trk' = [trk EXCEPT ![t] = Desk!NoTrack]
    BY <2>1 DEF Desk!Count
  <2> QED
    BY <2>2, <2>3, NoTrackType
<1>6. /\ trk' \in [Tracker -> TrackRecord]
      /\ \A w : CountingFor(w)' = CountingFor(w) \ {t}
      /\ \A w : t \in CountingFor(w) <=> w = o
  BY <1>1, <1>3, <1>4, <1>5, OneTracker
<1>7. \A w \in Wallet : Cardinality(CountingFor(w)') =
         IF w = o THEN Cardinality(CountingFor(w)) - 1 ELSE Cardinality(CountingFor(w))
  <2>1. CountingFor(o)' = CountingFor(o) \ {t} /\ t \in CountingFor(o)
    BY <1>6
  <2>2. \A w : w # o => CountingFor(w)' = CountingFor(w)
    BY <1>6
  <2>3. Cardinality(CountingFor(o)') = Cardinality(CountingFor(o)) - 1
    BY <1>2, <2>1, FS_RemoveElement
  <2> QED
    BY <2>2, <2>3
<1>8. rate' = [rate EXCEPT ![o] = @ + 1]
  BY <1>4 DEF Desk!Count
<1>9. rate' \in [Wallet -> Nat]
  BY <1>1, <1>8 DEF DeskTypes
<1>10. DeskTypes'
  BY <1>1, <1>3, <1>6, <1>9 DEF DeskTypes
<1>11. ASSUME NEW w \in Wallet
       PROVE  (Cardinality(rows[w]) = rate[w] + forgot[w] + Cardinality(CountingFor(w)))'
  <2>1. rate[w] \in Nat /\ forgot[w] \in Nat /\ rate'[w] = IF w = o THEN rate[w] + 1 ELSE rate[w]
    BY <1>1, <1>8 DEF DeskTypes
  <2> QED
    BY <1>1, <1>2, <1>3, <1>7, <2>1 DEF CountsKept
<1> QED
  BY <1>1, <1>3, <1>10, <1>11 DEF DeskInv, CountsKept

\* A key that goes is forgotten with all it counted.
LEMMA DropKeeps ==
  ASSUME DeskInv, NEW o \in Wallet, Desk!DropKey(o)
  PROVE  DeskInv'
<1>1. DeskTypes /\ CountsKept
  BY DEF DeskInv
<1>2. UNCHANGED <<loans, rows, req, trk>>
  BY DEF Desk!DropKey, Desk!chain
<1>3. PICK n \in Nat : n = rate[o]
  BY <1>1 DEF DeskTypes
<1>4. rate' = [rate EXCEPT ![o] = 0] /\ forgot' = [forgot EXCEPT ![o] = @ + n]
  BY <1>3 DEF Desk!DropKey
<1>5. rate' \in [Wallet -> Nat] /\ forgot' \in [Wallet -> Nat]
  BY <1>1, <1>4 DEF DeskTypes
<1>6. DeskTypes'
  BY <1>1, <1>2, <1>5 DEF DeskTypes
<1>7. \A w : CountingFor(w)' = CountingFor(w)
  BY <1>2 DEF CountingFor
<1>8. \A w \in Wallet : rate'[w] + forgot'[w] = rate[w] + forgot[w]
  BY <1>1, <1>3, <1>4 DEF DeskTypes
<1> QED
  BY <1>1, <1>2, <1>6, <1>7, <1>8 DEF DeskInv, CountsKept

\* The handlers that die were about to count what is forgotten with them.
LEMMA RestartKeeps ==
  ASSUME DeskInv, Desk!Restart
  PROVE  DeskInv'
<1>1. DeskTypes /\ CountsKept
  BY DEF DeskInv
<1>2. /\ \A w \in Wallet : IsFiniteSet(rows[w]) /\ Cardinality(rows[w]) \in Nat
      /\ \A w : IsFiniteSet(CountingFor(w)) /\ Cardinality(CountingFor(w)) \in Nat
  BY <1>1, Finite
<1>3. UNCHANGED <<loans, rows, rate>> /\ trk' = [t \in Tracker |-> Desk!NoTrack]
  BY DEF Desk!Restart, Desk!chain
<1>4. req' \in [Request -> RequestRecord]
  BY <1>1, NoRequestType DEF Desk!Restart, DeskTypes
<1>5. forgot' = [w \in Wallet |-> forgot[w] + Cardinality(CountingFor(w))]
  <2>1. \A w : {t \in {u \in Tracker : trk[u].phase # "idle"} :
                  trk[t].phase = "counting" /\ trk[t].wallet = w} = CountingFor(w)
    BY DEF CountingFor
  <2>2. forgot' = [w \in Wallet |-> forgot[w] + Desk!Cardinality({t \in {u \in Tracker : trk[u].phase # "idle"} :
                  trk[t].phase = "counting" /\ trk[t].wallet = w})]
    BY DEF Desk!Restart
  <2> QED
    BY <2>1, <2>2, SameCardinality
<1>6. forgot' \in [Wallet -> Nat]
  BY <1>1, <1>2, <1>5 DEF DeskTypes
<1>7. DeskTypes'
  BY <1>1, <1>3, <1>4, <1>6, NoTrackType DEF DeskTypes
<1>8. \A w : CountingFor(w)' = {}
  BY <1>3, NoTrackType DEF CountingFor
<1>9. ASSUME NEW w \in Wallet
      PROVE  (Cardinality(rows[w]) = rate[w] + forgot[w] + Cardinality(CountingFor(w)))'
  <2>1. Cardinality(CountingFor(w)') = 0
    BY <1>8, FS_EmptySet
  <2>2. rate[w] \in Nat /\ forgot[w] \in Nat /\ forgot'[w] = forgot[w] + Cardinality(CountingFor(w))
    BY <1>1, <1>5 DEF DeskTypes
  <2>3. Cardinality(rows'[w]) = Cardinality(rows[w]) /\ rate'[w] = rate[w]
    BY <1>3
  <2> QED
    BY <1>1, <1>2, <2>1, <2>2, <2>3 DEF CountsKept
<1> QED
  BY <1>1, <1>3, <1>7, <1>9 DEF DeskInv, CountsKept

LEMMA DeskStep == DeskInv /\ [Desk!Next]_desk => DeskInv'
<1> SUFFICES ASSUME DeskInv, [Desk!Next]_desk PROVE DeskInv'
  OBVIOUS
<1>1. DeskTypes
  BY DEF DeskInv
<1>2. ASSUME NEW r \in Request,
             \/ \E w \in Wallet : Desk!Ask(r, w)
             \/ Desk!Metrics(r) \/ Desk!CheckWallet(r) \/ Desk!FetchPrice(r) \/ Desk!CoSign(r)
             \/ Desk!SignAndSend(r) \/ Desk!PriceAges(r)
      PROVE  DeskInv'
  <2>1. req' \in [Request -> RequestRecord]
    BY <1>1, <1>2, RequestChanges
  <2>2. UNCHANGED <<loans, rows, rate, trk, forgot>>
    BY <1>2 DEF Desk!Ask, Desk!Metrics, Desk!CheckWallet, Desk!FetchPrice, Desk!CoSign,
                Desk!SignAndSend, Desk!PriceAges, Desk!chain, Desk!limits
  <2> QED
    BY <1>1, <2>1, <2>2, AsBefore DEF DeskTypes
<1>3. CASE Desk!Liquidation \/ Desk!LiquidationAges \/ Desk!ResetBreaker \/ UNCHANGED desk
  <2>1. UNCHANGED <<loans, rows, rate, trk, forgot, req>>
    BY <1>3 DEF Desk!Liquidation, Desk!LiquidationAges, Desk!ResetBreaker, desk, Desk!chain, Desk!limits
  <2>2. req' \in [Request -> RequestRecord]
    BY <1>1, <2>1 DEF DeskTypes
  <2> QED
    BY <1>1, <2>1, <2>2, AsBefore DEF DeskTypes
<1>4. ASSUME NEW w \in Wallet, Desk!HourEnds(w) \/ Desk!ResetWallet(w) PROVE DeskInv'
  BY <1>4, DropKeeps DEF Desk!HourEnds, Desk!ResetWallet
<1> QED
  BY <1>2, <1>3, <1>4, LandKeeps, BeginKeeps, CreateKeeps, CountKeeps, RestartKeeps, DeskAssumption
     DEF Desk!Next, Desk!RequestStep

\* Every row is counted exactly once against the wallet it names, whatever wallet
\* that is and however the calls of trackCreatedLoan overlap, fail and die
\* (loan.service.ts:799-963): counted, about to be, or forgotten by an hour, a
\* reset or a failure; and no loan has rows of two wallets.
THEOREM CountsCorrect == Spec => []CountsAddUp
<1>1. DeskInv => CountsAddUp
  BY SameCardinality DEF DeskInv, CountsKept, CountingFor, CountsAddUp, Desk!CountsAddUp
<1> QED
  BY <1>1, DeskInit, DeskSteps, DeskStep, PTL DEF Spec

\* While the breaker is tripped no request gets past it, those included that found
\* it closed and waited for the query while another tripped it
\* (circuit-breaker.service.ts:194-200).
THEOREM BreakerHolds == Spec => TrippedAdmitsNobody
<1> DEFINE Stopped == \A r \in Request : tripped' /\ req[r].phase = "metrics" => req'[r].phase # "limit"
<1>1. DeskInv /\ [Desk!Next]_desk => [Stopped]_(Desk!vars)
  <2> SUFFICES ASSUME DeskInv, Desk!Next, NEW r \in Request, tripped', req[r].phase = "metrics"
               PROVE  req'[r].phase # "limit"
    BY DEF desk, Desk!vars, Desk!chain, Desk!limits
  <2>1. req \in [Request -> RequestRecord]
    BY DEF DeskInv, DeskTypes
  <2>2. CASE req' = req
    BY <2>2
  <2>3. CASE Desk!Restart
    BY <2>1, <2>3 DEF Desk!Restart, Desk!NoRequest
  <2>4. ASSUME NEW q \in Request, Desk!PriceAges(q) PROVE req'[r].phase # "limit"
    <3>1. req'[r].phase = req[r].phase
      BY <2>1, <2>4 DEF Desk!PriceAges, RequestRecord
    <3> QED
      BY <3>1
  <2>5. CASE Desk!Metrics(r)
    BY <2>1, <2>5 DEF Desk!Metrics, Desk!Refuse, Desk!NoRequest
  <2>6. ASSUME NEW q \in Request,
               \/ \E w \in Wallet : Desk!Ask(q, w)
               \/ Desk!RequestStep(q)
        PROVE  req'[r].phase # "limit"
    <3>1. CASE q = r
      <4>1. Desk!Metrics(r)
        BY <2>6, <3>1 DEF Desk!Ask, Desk!RequestStep, Desk!CheckWallet, Desk!FetchPrice,
                          Desk!CoSign, Desk!SignAndSend, Desk!Land
      <4> QED
        BY <2>5, <4>1
    <3>2. CASE q # r
      <4>1. req'[r] = req[r]
        BY <2>1, <2>6, <3>2 DEF Desk!Ask, Desk!RequestStep, Desk!Metrics, Desk!CheckWallet,
             Desk!FetchPrice, Desk!CoSign, Desk!SignAndSend, Desk!Land, Desk!Advance, Desk!Refuse
      <4> QED
        BY <4>1
    <3> QED
      BY <3>1, <3>2
  <2> QED
    BY <2>2, <2>3, <2>4, <2>6, DeskAssumption DEF Desk!Next, Desk!BeginTrack, Desk!Create, Desk!Count, Desk!Expire,
         Desk!HourEnds, Desk!ResetWallet, Desk!DropKey, Desk!Liquidation, Desk!LiquidationAges,
         Desk!ResetBreaker
<1> QED
  BY <1>1, DeskInit, DeskSteps, DeskStep, PTL DEF Spec, TrippedAdmitsNobody, Desk!TrippedAdmitsNobody

-----------------------------------------------------------------------------
(* TokenVerification                                                        *)

Answers == {"none", "manual", "auto", "rejected"}

Phases ==
  {"idle", "entry", "launchpad", "graduation", "pool", "chain", "listing",
   "sending", "row", "joined", "metadata"}

CallRecord == [phase : Phases, token : Token \cup {"nobody"}, answer : Answers]

VerificationTypes ==
  /\ cache \in [Token -> Answers]
  /\ call \in [Caller -> CallRecord]
  /\ \A v \in Caller : call[v].phase # "idle" => call[v].token \in Token
  /\ DOMAIN lock = Token

\* Whoever sends a token's transaction, or makes its row after it, has its lock.
LockHeld ==
  \A v \in Caller : call[v].phase \in {"sending", "row"} => lock[call[v].token] = v

OnChain(t) == t \in config /\ (t \in row \/ t \in unsynced)

\* A config has its row, or its caller is about to make it; a row is made for a config.
RowsFollow ==
  /\ \A t \in config :
       \/ t \in row \/ t \in unsynced
       \/ \E v \in Caller : call[v].phase = "row" /\ call[v].token = t
  /\ \A v \in Caller : call[v].phase = "row" => call[v].token \in config

\* What is called valid, or is about to be, is on chain.
ValidOnes ==
  /\ \A t \in Token : cache[t] = "auto" => OnChain(t)
  /\ \A v \in Caller :
       call[v].phase = "metadata" \/ call[v].answer = "auto" => OnChain(call[v].token)

VerificationInv ==
  VerificationTypes /\ LockHeld /\ RowsFollow /\ (AdminReady => ValidOnes)

\* What is on chain stays there.
BooksGrow == config \subseteq config' /\ row \subseteq row' /\ unsynced \subseteq unsynced'

LEMMA VerificationSteps == [Next]_vars => [Verification!Next]_verification
BY DEF Next, vars, verification

LEMMA VerificationInit == Init => VerificationInv
BY DEF Init, Verification!Init, Verification!Idle, Verification!Nobody, VerificationInv,
       VerificationTypes, LockHeld, RowsFollow, ValidOnes, CallRecord, Phases, Answers

\* One call goes on to d, on its own token, and the books grow.
LEMMA OneCall ==
  ASSUME VerificationInv, NEW v \in Caller, NEW d \in CallRecord,
         call' = [call EXCEPT ![v] = d],
         cache' \in [Token -> Answers], DOMAIN lock' = Token,
         BooksGrow,
         call[v].phase # "row",
         d.phase # "idle" => d.token \in Token,
         d.phase \in {"sending", "row"} => lock'[d.token] = v,
         d.phase = "row" => d.token \in config',
         \A t \in Token : lock'[t] = lock[t] \/ ~ (\E u \in Caller : u # v /\ lock[t] = u),
         \A t \in config' : t \in config \/ t \in unsynced' \/ (d.phase = "row" /\ d.token = t),
         AdminReady => \A t \in Token : cache'[t] = "auto" => OnChain(t)',
         AdminReady /\ (d.phase = "metadata" \/ d.answer = "auto") => OnChain(d.token)'
  PROVE  VerificationInv'
<1>1. /\ VerificationTypes /\ LockHeld /\ RowsFollow /\ (AdminReady => ValidOnes)
  BY DEF VerificationInv
<1>2. call'[v] = d /\ \A u \in Caller : u # v => call'[u] = call[u]
  BY <1>1 DEF VerificationTypes
<1>3. VerificationTypes'
  BY <1>1, <1>2 DEF VerificationTypes
<1>4. LockHeld'
  <2> SUFFICES ASSUME NEW u \in Caller, call'[u].phase \in {"sending", "row"}
               PROVE  lock'[call'[u].token] = u
    BY DEF LockHeld
  <2>1. CASE u = v
    BY <1>2, <2>1
  <2>2. CASE u # v
    BY <1>1, <1>2, <2>2 DEF LockHeld, VerificationTypes
  <2> QED
    BY <2>1, <2>2
<1>5. RowsFollow'
  <2>0. \A u \in Caller : call'[u].phase = "row" => call'[u].token \in config'
    BY <1>1, <1>2 DEF RowsFollow, BooksGrow
  <2> SUFFICES ASSUME NEW t \in config'
               PROVE  \/ t \in row' \/ t \in unsynced'
                      \/ \E u \in Caller : call'[u].phase = "row" /\ call'[u].token = t
    BY <2>0 DEF RowsFollow
  <2>1. CASE t \in config
    BY <1>1, <1>2, <2>1 DEF RowsFollow, BooksGrow
  <2>2. CASE t \notin config
    BY <1>2, <2>2
  <2> QED
    BY <2>1, <2>2
<1>6. AdminReady => ValidOnes'
  <2> SUFFICES ASSUME AdminReady PROVE ValidOnes'
    OBVIOUS
  <2>1. ASSUME NEW u \in Caller, call'[u].phase = "metadata" \/ call'[u].answer = "auto"
        PROVE  OnChain(call[u].token)'
    <3>1. CASE u = v
      BY <1>2, <2>1, <3>1 DEF OnChain
    <3>2. CASE u # v
      BY <1>1, <1>2, <2>1, <3>2 DEF ValidOnes, OnChain, BooksGrow
    <3> QED
      BY <3>1, <3>2
  <2> QED
    BY <2>1 DEF ValidOnes
<1> QED
  BY <1>3, <1>4, <1>5, <1>6 DEF VerificationInv

\* The steps that only read, and at most conclude or fail.
LEMMA ReadsKeep ==
  ASSUME VerificationInv, NEW v \in Caller, NEW d \in CallRecord,
         call' = [call EXCEPT ![v] = d], cache' \in [Token -> Answers],
         UNCHANGED lock, BooksGrow, config' = config,
         call[v].phase # "row", d.phase \notin {"sending", "row"},
         d.phase # "idle" => d.token \in Token,
         AdminReady => \A t \in Token : cache'[t] = "auto" => OnChain(t)',
         AdminReady /\ (d.phase = "metadata" \/ d.answer = "auto") => OnChain(d.token)'
  PROVE  VerificationInv'
<1>1. DOMAIN lock' = Token /\ \A t \in Token : lock'[t] = lock[t]
  BY DEF VerificationInv, VerificationTypes
<1>2. \A t \in config' : t \in config
  OBVIOUS
<1> QED
  BY <1>1, <1>2, OneCall

\* Go, Conclude and Fail, of a call that is under way.
LEMMA GoesOn ==
  ASSUME VerificationInv, NEW v \in Caller, NEW phase \in Phases \ {"idle", "sending", "row"},
         NEW t \in Token, call[v].token = t,
         Verification!Go(v, phase), call[v].phase \notin {"idle", "row"},
         UNCHANGED <<cache, lock, config>>, BooksGrow,
         AdminReady /\ phase = "metadata" => OnChain(t)'
  PROVE  VerificationInv'
<1>1. VerificationTypes /\ (AdminReady => ValidOnes)
  BY DEF VerificationInv
<1>2. PICK d : d = [call[v] EXCEPT !.phase = phase]
  OBVIOUS
<1>3. d \in CallRecord /\ d.phase = phase /\ d.token = t /\ d.answer = call[v].answer
  BY <1>1, <1>2 DEF VerificationTypes, CallRecord
<1>4. call' = [call EXCEPT ![v] = d]
  BY <1>2 DEF Verification!Go
<1>5. cache' \in [Token -> Answers] /\ d.token \in Token
  BY <1>1, <1>3 DEF VerificationTypes
<1>6. AdminReady => \A x \in Token : cache'[x] = "auto" => OnChain(x)'
  BY <1>1 DEF ValidOnes, OnChain, BooksGrow
<1>7. AdminReady /\ d.answer = "auto" => OnChain(d.token)'
  BY <1>1, <1>3 DEF ValidOnes, OnChain, BooksGrow
<1>8. AdminReady /\ d.phase = "metadata" => OnChain(d.token)'
  BY <1>3 DEF OnChain
<1> QED
  BY <1>3, <1>4, <1>5, <1>6, <1>7, <1>8, ReadsKeep

LEMMA Concludes ==
  ASSUME VerificationInv, NEW v \in Caller, NEW answer \in Answers,
         Verification!Conclude(v, answer), call[v].phase \notin {"idle", "row"},
         UNCHANGED <<lock, config, row, unsynced>>,
         AdminReady /\ answer = "auto" => OnChain(call[v].token)
  PROVE  VerificationInv'
<1>1. VerificationTypes /\ (AdminReady => ValidOnes)
  BY DEF VerificationInv
<1>2. PICK d : d = [call[v] EXCEPT !.phase = "idle", !.answer = answer]
  OBVIOUS
<1>3. d \in CallRecord /\ d.phase = "idle" /\ d.token = call[v].token /\ d.answer = answer
  BY <1>1, <1>2 DEF VerificationTypes, CallRecord, Phases
<1>4. call' = [call EXCEPT ![v] = d]
  BY <1>2 DEF Verification!Conclude, Verification!Replied
<1>5. PICK t \in Token : t = call[v].token
  BY <1>1 DEF VerificationTypes
<1>6. cache' = [cache EXCEPT ![t] = answer]
  BY <1>5 DEF Verification!Conclude, Verification!TokenOf
<1>7. cache' \in [Token -> Answers]
  BY <1>1, <1>6 DEF VerificationTypes
<1>8. AdminReady => \A x \in Token : cache'[x] = "auto" => OnChain(x)'
  BY <1>1, <1>5, <1>6 DEF ValidOnes, VerificationTypes, OnChain
<1>9. AdminReady /\ d.answer = "auto" => OnChain(d.token)'
  BY <1>3 DEF OnChain
<1>10. BooksGrow /\ config' = config
  BY DEF BooksGrow
<1> QED
  BY <1>3, <1>4, <1>7, <1>8, <1>9, <1>10, ReadsKeep

LEMMA Fails ==
  ASSUME VerificationInv, NEW v \in Caller, Verification!Fail(v), call[v].phase \notin {"idle", "row"},
         UNCHANGED <<lock, config, row, unsynced>>
  PROVE  VerificationInv'
<1>1. VerificationTypes /\ (AdminReady => ValidOnes)
  BY DEF VerificationInv
<1>2. PICK t \in Token : t = call[v].token
  BY <1>1 DEF VerificationTypes
<1>3. PICK a \in Answers : a = IF cache[t] = "none" THEN "rejected" ELSE cache[t]
  BY <1>1 DEF VerificationTypes, Answers
<1>4. PICK d : d = [call[v] EXCEPT !.phase = "idle", !.answer = a]
  OBVIOUS
<1>5. d \in CallRecord /\ d.phase = "idle" /\ d.token = t /\ d.answer = a
  BY <1>1, <1>2, <1>4 DEF VerificationTypes, CallRecord, Phases
<1>6. call' = [call EXCEPT ![v] = d] /\ cache' = cache
  BY <1>2, <1>3, <1>4 DEF Verification!Fail, Verification!Replied, Verification!TokenOf, Verification!store
<1>7. cache' \in [Token -> Answers]
  BY <1>1, <1>6 DEF VerificationTypes
<1>8. AdminReady => \A x \in Token : cache'[x] = "auto" => OnChain(x)'
  BY <1>1, <1>6 DEF ValidOnes, OnChain
<1>9. AdminReady /\ d.answer = "auto" => OnChain(d.token)'
  BY <1>1, <1>2, <1>3, <1>5 DEF ValidOnes, OnChain
<1>10. BooksGrow /\ config' = config
  BY DEF BooksGrow
<1> QED
  BY <1>5, <1>6, <1>7, <1>8, <1>9, <1>10, ReadsKeep

\* verifyToken, but for the transaction.
LEMMA VerifyKeeps ==
  ASSUME VerificationInv, NEW v \in Caller,
         \/ \E t \in Token : Verification!Ask(v, t)
         \/ Verification!CheckEntry(v) \/ Verification!DetectLaunchpad(v)
         \/ Verification!CheckGraduation(v) \/ Verification!ValidatePool(v)
         \/ Verification!CheckOnChain(v) \/ Verification!Finish(v)
  PROVE  VerificationInv'
<1>1. VerificationTypes /\ (AdminReady => ValidOnes)
  BY DEF VerificationInv
<1>2. ASSUME NEW t \in Token, Verification!Ask(v, t) PROVE VerificationInv'
  <2>1. UNCHANGED <<lock, config, row, unsynced>> /\ BooksGrow /\ call[v].phase = "idle"
    BY <1>2 DEF Verification!Ask, Verification!book, BooksGrow
  <2>2. CASE t \in fresh
    <3>1. PICK a \in Answers : a = cache[t]
      BY <1>1 DEF VerificationTypes
    <3>2. PICK d : d = [Verification!Idle EXCEPT !.token = t, !.answer = a]
      OBVIOUS
    <3>4. call' = [call EXCEPT ![v] = d] /\ cache' = cache
      BY <1>2, <2>2, <3>1, <3>2 DEF Verification!Ask, Verification!store
    <3>5. d \in CallRecord /\ d.phase = "idle" /\ d.token = t /\ d.answer = a
      BY <3>2 DEF CallRecord, Phases, Verification!Idle
    <3>6. AdminReady => \A x \in Token : cache'[x] = "auto" => OnChain(x)'
      BY <1>1, <2>1, <3>4 DEF ValidOnes, OnChain
    <3>7. AdminReady /\ d.answer = "auto" => OnChain(d.token)'
      BY <1>1, <2>1, <3>1, <3>5 DEF ValidOnes, OnChain
    <3>8. cache' \in [Token -> Answers]
      BY <1>1, <3>4 DEF VerificationTypes
    <3> QED
      BY <2>1, <3>4, <3>5, <3>6, <3>7, <3>8, ReadsKeep
  <2>3. CASE t \notin fresh
    <3>1. PICK d : d = [phase |-> "entry", token |-> t, answer |-> "none"]
      OBVIOUS
    <3>2. call' = [call EXCEPT ![v] = d] /\ cache' = [cache EXCEPT ![t] = "none"]
      BY <1>2, <2>3, <3>1 DEF Verification!Ask
    <3>3. d \in CallRecord /\ d.phase = "entry" /\ d.token = t /\ d.answer = "none"
      BY <3>1 DEF CallRecord, Phases, Answers
    <3>4. cache' \in [Token -> Answers]
      BY <1>1, <3>2 DEF VerificationTypes, Answers
    <3>5. AdminReady => \A x \in Token : cache'[x] = "auto" => OnChain(x)'
      BY <1>1, <2>1, <3>2 DEF ValidOnes, OnChain, VerificationTypes
    <3> QED
      BY <2>1, <3>2, <3>3, <3>4, <3>5, ReadsKeep
  <2> QED
    BY <2>2, <2>3
<1>3. ASSUME \/ Verification!CheckEntry(v) \/ Verification!DetectLaunchpad(v)
             \/ Verification!CheckGraduation(v) \/ Verification!ValidatePool(v)
      PROVE  VerificationInv'
  <2>1. /\ UNCHANGED <<lock, config, row, unsynced>> /\ BooksGrow
        /\ call[v].phase \notin {"idle", "row"}
    BY <1>3 DEF Verification!CheckEntry, Verification!DetectLaunchpad, Verification!CheckGraduation,
                Verification!ValidatePool, Verification!book, BooksGrow
  <2>2. \/ Verification!Conclude(v, "manual") \/ Verification!Conclude(v, "rejected")
        \/ Verification!Fail(v)
        \/ \E p \in {"launchpad", "graduation", "pool", "chain"} : Verification!Go(v, p) /\ cache' = cache
    BY <1>3 DEF Verification!CheckEntry, Verification!DetectLaunchpad, Verification!CheckGraduation,
                Verification!ValidatePool, Verification!store
  <2>3. ASSUME NEW p \in {"launchpad", "graduation", "pool", "chain"}, Verification!Go(v, p), cache' = cache
        PROVE  VerificationInv'
    <3>1. PICK t \in Token : call[v].token = t
      BY <1>1, <2>1 DEF VerificationTypes
    <3> QED
      BY <2>1, <2>3, <3>1, GoesOn DEF Phases
  <2> QED
    BY <2>1, <2>2, <2>3, Concludes, Fails DEF Answers
<1>4. CASE Verification!Finish(v)
  <2>1. AdminReady => OnChain(call[v].token)
    BY <1>1, <1>4 DEF ValidOnes, Verification!Finish
  <2> QED
    BY <1>4, <2>1, Concludes DEF Verification!Finish, Verification!book, Answers
<1>5. CASE Verification!CheckOnChain(v)
  <2>1. /\ UNCHANGED <<cache, lock, config>> /\ call[v].phase = "chain" /\ BooksGrow
    BY <1>5 DEF Verification!CheckOnChain, Verification!store, BooksGrow
  <2>2. PICK t \in Token : call[v].token = t
    BY <1>1, <2>1 DEF VerificationTypes
  <2>3. \/ Verification!Go(v, "listing")
        \/ /\ Verification!Go(v, "metadata")
           /\ AdminReady => t \in config' /\ (t \in row' \/ t \in unsynced')
    BY <1>5, <2>1, <2>2, VerificationAssumption DEF Verification!CheckOnChain, Verification!TokenOf
  <2> QED
    BY <2>1, <2>2, <2>3, GoesOn DEF Phases, OnChain
<1> QED
  BY <1>2, <1>3, <1>4, <1>5

\* autoWhitelistWithLock, and the transaction that goes through but has no row yet.
LEMMA JoinKeeps ==
  ASSUME VerificationInv, NEW v \in Caller,
         \/ Verification!Join(v)
         \/ /\ call[v].phase = "sending" /\ Verification!Go(v, "row")
            /\ config' = config \cup {call[v].token}
            /\ UNCHANGED <<row, unsynced, cache, lock>>
  PROVE  VerificationInv'
<1>1. VerificationTypes /\ LockHeld /\ (AdminReady => ValidOnes)
  BY DEF VerificationInv
<1>2. BooksGrow /\ cache' = cache /\ call[v].phase \in {"listing", "sending"}
  BY DEF Verification!Join, Verification!book, Verification!store, BooksGrow
<1>3. PICK t \in Token : call[v].token = t
  BY <1>1, <1>2 DEF VerificationTypes
<1>4. ASSUME NEW phase \in {"sending", "joined", "row"}, Verification!Go(v, phase),
             phase \in {"sending", "row"} => lock'[t] = v,
             \A x \in Token : lock'[x] = lock[x] \/ ~ (\E u \in Caller : u # v /\ lock[x] = u),
             DOMAIN lock' = Token,
             \A x \in config' : x \in config \/ (phase = "row" /\ x = t),
             phase = "row" => t \in config'
      PROVE  VerificationInv'
  <2>1. PICK d : d = [call[v] EXCEPT !.phase = phase]
    OBVIOUS
  <2>2. d \in CallRecord /\ d.phase = phase /\ d.token = t /\ d.answer = call[v].answer
    BY <1>1, <1>3, <2>1 DEF VerificationTypes, CallRecord, Phases
  <2>3. call' = [call EXCEPT ![v] = d]
    BY <1>4, <2>1 DEF Verification!Go
  <2>4. cache' \in [Token -> Answers]
    BY <1>1, <1>2 DEF VerificationTypes
  <2>5. AdminReady => \A x \in Token : cache'[x] = "auto" => OnChain(x)'
    BY <1>1, <1>2 DEF ValidOnes, OnChain, BooksGrow
  <2>6. AdminReady /\ (d.phase = "metadata" \/ d.answer = "auto") => OnChain(d.token)'
    BY <1>1, <1>2, <1>3, <2>2 DEF ValidOnes, OnChain, BooksGrow
  <2>7. /\ call[v].phase # "row" /\ d.token \in Token
        /\ d.phase \in {"sending", "row"} => lock'[d.token] = v
        /\ d.phase = "row" => d.token \in config'
        /\ \A x \in config' : x \in config \/ x \in unsynced' \/ (d.phase = "row" /\ d.token = x)
    BY <1>2, <1>4, <2>2
  <2> QED
    BY <1>2, <1>4, <2>2, <2>3, <2>4, <2>5, <2>6, <2>7, OneCall
<1>5. CASE Verification!Join(v)
  <2>1. config' = config
    BY <1>5 DEF Verification!Join, Verification!book
  <2>2. CASE lock[t] = "nobody"
    <3>1. lock' = [lock EXCEPT ![t] = v] /\ Verification!Go(v, "sending")
      BY <1>3, <1>5, <2>2 DEF Verification!Join, Verification!TokenOf, Verification!Nobody
    <3>2. lock'[t] = v /\ DOMAIN lock' = Token /\ \A x \in Token : x # t => lock'[x] = lock[x]
      BY <1>1, <3>1 DEF VerificationTypes
    <3>3. ~ (\E u \in Caller : lock[t] = u)
      BY <2>2, VerificationAssumption
    <3> QED
      BY <1>4, <2>1, <3>1, <3>2, <3>3
  <2>3. CASE lock[t] # "nobody"
    <3>1. lock' = lock /\ Verification!Go(v, "joined")
      BY <1>3, <1>5, <2>3 DEF Verification!Join, Verification!TokenOf, Verification!Nobody
    <3> QED
      BY <1>1, <1>4, <2>1, <3>1 DEF VerificationTypes
  <2> QED
    BY <2>2, <2>3
<1>6. ASSUME call[v].phase = "sending", Verification!Go(v, "row"),
             config' = config \cup {call[v].token}, lock' = lock
      PROVE  VerificationInv'
  <2>1. lock'[t] = v /\ DOMAIN lock' = Token
    BY <1>1, <1>3, <1>6 DEF LockHeld, VerificationTypes
  <2>2. t \in config' /\ \A x \in config' : x \in config \/ x = t
    BY <1>3, <1>6
  <2> QED
    BY <1>4, <1>6, <2>1, <2>2
<1> QED
  BY <1>5, <1>6

\* The promise that settles, for its owner and for those who joined it.
LEMMA Settles ==
  ASSUME VerificationInv, NEW v \in Caller, NEW t \in Token, NEW done \in BOOLEAN,
         call[v].phase \in {"sending", "row"}, call[v].token = t,
         Verification!Settle(t, done), cache' = cache, BooksGrow,
         \A x \in config' : x \in config \/ x = t,
         t \in config' => t \in row' \/ t \in unsynced',
         done => t \in config'
  PROVE  VerificationInv'
<1>1. /\ VerificationTypes /\ LockHeld /\ RowsFollow /\ (AdminReady => ValidOnes)
      /\ lock[t] = v
  BY DEF VerificationInv, LockHeld
<1> DEFINE told(u) == u = v \/ (call[u].phase = "joined" /\ call[u].token = t)
<1>2. \A u \in Caller :
        call'[u] = IF told(u) THEN IF done THEN [call[u] EXCEPT !.phase = "metadata"]
                                           ELSE [call[u] EXCEPT !.phase = "idle", !.answer = "rejected"]
                              ELSE call[u]
  BY <1>1 DEF Verification!Settle, Verification!TokenOf
<1>3. ASSUME NEW u \in Caller
      PROVE  \/ call'[u] = call[u] /\ u # v
             \/ /\ call'[u] \in CallRecord /\ call[u].token = t /\ call'[u].token = t
                /\ \/ done /\ call'[u].phase = "metadata" /\ call'[u].answer = call[u].answer
                   \/ call'[u].phase = "idle" /\ call'[u].answer = "rejected"
  <2>1. call[u] \in CallRecord
    BY <1>1 DEF VerificationTypes
  <2>2. CASE told(u) /\ done
    <3>1. call'[u] = [call[u] EXCEPT !.phase = "metadata"] /\ call[u].token = t
      BY <1>2, <2>2
    <3> QED
      BY <2>1, <2>2, <3>1 DEF CallRecord, Phases
  <2>3. CASE told(u) /\ ~done
    <3>1. call'[u] = [call[u] EXCEPT !.phase = "idle", !.answer = "rejected"] /\ call[u].token = t
      BY <1>2, <2>3
    <3> QED
      BY <2>1, <2>3, <3>1 DEF CallRecord, Phases, Answers
  <2>4. CASE ~told(u)
    BY <1>2, <2>4
  <2> QED
    BY <2>2, <2>3, <2>4
<1>4. DOMAIN lock' = Token /\ \A x \in Token : x # t => lock'[x] = lock[x]
  BY <1>1 DEF Verification!Settle, VerificationTypes
<1>5. VerificationTypes'
  <2>1. call' \in [Caller -> CallRecord]
    <3>1. DOMAIN call' = Caller /\ call' = [u \in Caller |-> call'[u]]
      BY DEF Verification!Settle
    <3>2. \A u \in Caller : call'[u] \in CallRecord
      BY <1>1, <1>3 DEF VerificationTypes
    <3> QED
      BY <3>1, <3>2
  <2>2. \A u \in Caller : call'[u].phase # "idle" => call'[u].token \in Token
    BY <1>1, <1>3 DEF VerificationTypes
  <2> QED
    BY <1>1, <1>4, <2>1, <2>2 DEF VerificationTypes
<1>6. LockHeld'
  <2> SUFFICES ASSUME NEW u \in Caller, call'[u].phase \in {"sending", "row"}
               PROVE  lock'[call'[u].token] = u
    BY DEF LockHeld
  <2>1. call'[u] = call[u] /\ u # v
    BY <1>3
  <2>2. lock[call[u].token] = u /\ call[u].token \in Token
    BY <1>1, <2>1 DEF LockHeld, VerificationTypes
  <2>3. call[u].token # t
    BY <1>1, <2>1, <2>2
  <2> QED
    BY <1>4, <2>1, <2>2, <2>3
<1>7. RowsFollow'
  <2>0. \A u \in Caller : call'[u].phase = "row" => call'[u].token \in config'
    BY <1>1, <1>3 DEF RowsFollow, BooksGrow
  <2> SUFFICES ASSUME NEW x \in config'
               PROVE  \/ x \in row' \/ x \in unsynced'
                      \/ \E u \in Caller : call'[u].phase = "row" /\ call'[u].token = x
    BY <2>0 DEF RowsFollow
  <2>1. CASE x = t
    BY <2>1
  <2>2. CASE x # t
    <3>1. x \in config
      BY <2>2
    <3>2. CASE x \in row \/ x \in unsynced
      BY <3>2 DEF BooksGrow
    <3>3. CASE \E u \in Caller : call[u].phase = "row" /\ call[u].token = x
      BY <1>3, <2>2, <3>3
    <3> QED
      BY <1>1, <3>1, <3>2, <3>3 DEF RowsFollow
  <2> QED
    BY <2>1, <2>2
<1>8. AdminReady => ValidOnes'
  <2> SUFFICES ASSUME AdminReady PROVE ValidOnes'
    OBVIOUS
  <2>1. ASSUME NEW u \in Caller, call'[u].phase = "metadata" \/ call'[u].answer = "auto"
        PROVE  OnChain(call[u].token)'
    <3>1. CASE call'[u] = call[u]
      BY <1>1, <2>1, <3>1 DEF ValidOnes, OnChain, BooksGrow
    <3>2. CASE call'[u].token = t /\ call[u].token = t /\ done
      BY <3>2 DEF OnChain
    <3> QED
      BY <1>3, <2>1, <3>1, <3>2
  <2>2. \A x \in Token : cache'[x] = "auto" => OnChain(x)'
    BY <1>1 DEF ValidOnes, OnChain, BooksGrow
  <2> QED
    BY <2>1, <2>2 DEF ValidOnes
<1> QED
  BY <1>5, <1>6, <1>7, <1>8 DEF VerificationInv

\* autoWhitelistOnChain: who sends for a token is alone with it.
LEMMA SendKeeps ==
  ASSUME VerificationInv, NEW v \in Caller, Verification!Send(v) \/ Verification!SyncRow(v)
  PROVE  VerificationInv'
<1>1. /\ VerificationTypes /\ LockHeld /\ RowsFollow
      /\ call[v].phase \in {"sending", "row"}
  BY DEF VerificationInv, Verification!Send, Verification!SyncRow
<1>2. PICK t \in Token : call[v].token = t
  BY <1>1 DEF VerificationTypes
<1>3. cache' = cache /\ BooksGrow /\ \A x \in config' : x \in config \/ x = t
  BY <1>2 DEF Verification!Send, Verification!SyncRow, Verification!store, Verification!TokenOf, BooksGrow
<1>4. CASE Verification!SyncRow(v)
  <2>1. Verification!Settle(t, TRUE) /\ (t \in row' \/ t \in unsynced') /\ config' = config
    BY <1>2, <1>4 DEF Verification!SyncRow, Verification!TokenOf
  <2>2. t \in config
    BY <1>1, <1>2, <1>4 DEF RowsFollow, Verification!SyncRow
  <2> QED
    BY <1>1, <1>2, <1>3, <2>1, <2>2, Settles
<1>5. CASE Verification!Send(v)
  <2>1. call[v].phase = "sending" /\ row' = row
    BY <1>5 DEF Verification!Send
  <2>2. t \in config => t \in row \/ t \in unsynced
    <3>1. ASSUME NEW u \in Caller, call[u].phase = "row", call[u].token = t PROVE FALSE
      BY <1>1, <1>2, <2>1, <3>1 DEF LockHeld
    <3> QED
      BY <1>1, <3>1 DEF RowsFollow
  <2>3. \/ /\ Verification!Go(v, "row") /\ config' = config \cup {t} /\ UNCHANGED <<unsynced, lock>>
        \/ Verification!Settle(t, FALSE) /\ t \in unsynced'
        \/ Verification!Settle(t, TRUE) /\ t \in config /\ UNCHANGED <<config, unsynced>>
        \/ Verification!Settle(t, FALSE) /\ UNCHANGED <<config, unsynced>>
    BY <1>2, <1>5 DEF Verification!Send, Verification!TokenOf
  <2>4. CASE Verification!Go(v, "row") /\ config' = config \cup {t} /\ UNCHANGED <<unsynced, lock>>
    BY <1>2, <1>3, <2>1, <2>4, JoinKeeps
  <2>5. CASE Verification!Settle(t, FALSE) /\ t \in unsynced'
    BY <1>1, <1>2, <1>3, <2>5, Settles
  <2>6. CASE Verification!Settle(t, TRUE) /\ t \in config /\ UNCHANGED <<config, unsynced>>
    BY <1>1, <1>2, <1>3, <2>1, <2>2, <2>6, Settles
  <2>7. CASE Verification!Settle(t, FALSE) /\ UNCHANGED <<config, unsynced>>
    BY <1>1, <1>2, <1>3, <2>1, <2>2, <2>7, Settles
  <2> QED
    BY <2>3, <2>4, <2>5, <2>6, <2>7
<1> QED
  BY <1>4, <1>5

\* The market, the admins and time change no answer, and no call.
LEMMA OthersKeep ==
  ASSUME VerificationInv, UNCHANGED <<call, lock, cache>>, BooksGrow,
         \A x \in config' : x \in config \/ x \in unsynced'
  PROVE  VerificationInv'
<1>1. /\ VerificationTypes /\ LockHeld /\ RowsFollow /\ (AdminReady => ValidOnes)
  BY DEF VerificationInv
<1>2. VerificationTypes' /\ LockHeld'
  BY <1>1 DEF VerificationTypes, LockHeld
<1>3. RowsFollow'
  BY <1>1 DEF RowsFollow, BooksGrow
<1>4. AdminReady => ValidOnes'
  BY <1>1 DEF ValidOnes, OnChain, BooksGrow
<1> QED
  BY <1>2, <1>3, <1>4 DEF VerificationInv

LEMMA VerificationStep == VerificationInv /\ [Verification!Next]_verification => VerificationInv'
<1> SUFFICES ASSUME VerificationInv, [Verification!Next]_verification
             PROVE  VerificationInv'
  OBVIOUS
<1>1. CASE UNCHANGED verification
  BY <1>1, OthersKeep DEF verification, BooksGrow
<1>2. ASSUME NEW v \in Caller, NEW t \in Token, Verification!Ask(v, t) PROVE VerificationInv'
  BY <1>2, VerifyKeeps
<1>3. ASSUME NEW v \in Caller, Verification!CallStep(v) PROVE VerificationInv'
  BY <1>3, VerifyKeeps, JoinKeeps, SendKeeps DEF Verification!CallStep
<1>4. ASSUME NEW t \in Token,
             \/ \E d \in {"curve", "pumpswap", "raydium"} : Verification!Trade(t, d)
             \/ Verification!PoolMoves(t) \/ Verification!AdminLists(t)
             \/ Verification!ScriptLists(t) \/ Verification!CacheAges(t)
      PROVE  VerificationInv'
  <2>1. /\ UNCHANGED <<call, lock, cache>> /\ BooksGrow
        /\ \A x \in config' : x \in config \/ x \in unsynced'
    BY <1>4 DEF Verification!Trade, Verification!PoolMoves, Verification!AdminLists,
                Verification!ScriptLists, Verification!CacheAges, Verification!market,
                Verification!book, Verification!store, BooksGrow
  <2> QED
    BY <2>1, OthersKeep
<1> QED
  BY <1>1, <1>2, <1>3, <1>4 DEF Verification!Next

\* TokenVerification!ValidIsOnChain, for any number of tokens and of calls at the
\* same time: a token the server calls valid on its own account has its config on
\* chain, and its row unless that failed.
THEOREM ValidCorrect == Spec => []ValidIsOnChain
<1>1. VerificationInv => ValidIsOnChain
  BY DEF VerificationInv, ValidOnes, OnChain, ValidIsOnChain, Verification!ValidIsOnChain, Verification!TokenOf
<1> QED
  BY <1>1, VerificationInit, VerificationSteps, VerificationStep, PTL DEF Spec
=============================================================================
