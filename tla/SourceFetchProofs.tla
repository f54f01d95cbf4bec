-------------------------- MODULE SourceFetchProofs --------------------------
(***************************************************************************)
(* Proofs about SourceFetch: what is staged is whole, what is listed is    *)
(* honest, and a file is given up only after both providers lost it.       *)
(***************************************************************************)
EXTENDS SourceFetch, FiniteSetTheorems, SequenceTheorems, WellFoundedInduction, TLAPS

States == {"idle", "waiting", "index", "ranges", "full", "body", "done", "dropped", "failed", "stopped"}
Parts == {"data", "index"}
DownloadRecords ==
    [pc : States, provider : Providers, attempt : 1..Attempts, file : Seq(Int), hit : 0..MaxHits,
     disk : BOOLEAN, had : SUBSET (Providers \X Parts)]
ListingRecords ==
    [pc : {"idle", "page"}, seen : SUBSET Keys, token : Nat, pages : 0..MaxPages,
     attempt : 1..Attempts, before : SUBSET KeysOf(Regions)]

Typed ==
    /\ upstream \in [Providers -> SUBSET Keys] /\ listing \in ListingRecords
    /\ snapshots \in (SUBSET KeysOf(Regions)) \X (SUBSET KeysOf(Regions))
    /\ wave \in SUBSET Artifacts /\ dl \in [Artifacts -> DownloadRecords]
    /\ staged \in [Artifacts -> {NoFile, Selected, <<Whole>>}]
    /\ litter \in SUBSET wave /\ committed \in SUBSET Artifacts /\ directory \in BOOLEAN

\* A listing under way has seen all it should have up to its token.
ListingSound ==
    /\ snapshots[2] \subseteq upstream["aws"]
    /\ listing.pc = "page" =>
         /\ snapshots[2] \subseteq listing.before /\ listing.before \subseteq upstream["aws"]
         /\ listing.seen \subseteq upstream["aws"]
         /\ \A k \in listing.before : k <= listing.token => k \in listing.seen

\* The regions of a wave are there, complete; its means may not be.
WaveSound ==
    /\ wave \subseteq ItemsOf(Horizon) /\ wave \cap Regions \subseteq Complete(upstream["aws"])
    /\ \A a \in Artifacts \ wave : dl[a] = NoDownload
    /\ \A a \in wave : dl[a].pc # "idle"
    /\ \A a \in committed : a \in wave /\ dl[a].pc = "done"
    /\ \A a \in wave : dl[a].pc = "done" => staged[a] # NoFile

\* The ranges written so far are the first ones, in order.
FileSound(d) ==
    /\ d.pc = "ranges" => Len(d.file) < Ranges /\ \A i \in 1..Len(d.file) : d.file[i] = i
    /\ d.pc # "ranges" => Len(d.file) = 1

\* What the provider had when the wave began is still there.
HadSound(a, d) ==
    \A p \in Providers : /\ <<p, "data">> \in d.had => DataKey(a) \in upstream[p]
                         /\ <<p, "index">> \in d.had => IndexKey(a) \in upstream[p]

\* The errors that had to happen to get where the download is: all that the
\* first provider can cost once it was left, and one for the selective
\* download once the full one is tried.
DataAt(had, p) == <<p, "data">> \in had
BothAt(had, p) == <<p, "data">> \in had /\ <<p, "index">> \in had
DueBefore(d) == IF d.provider = "nomads" THEN Cost(d.had, "aws") ELSE 0
DueHere(d) == IF d.pc \in {"full", "body"} /\ BothAt(d.had, d.provider) THEN 1 ELSE 0
Due(d) == IF d.pc = "failed" THEN Cost(d.had, "aws") + Cost(d.had, "nomads") ELSE DueBefore(d) + DueHere(d)
Paid(d) == ~d.disk => d.hit >= Due(d)

\* Without an error the download of a region stays selective, at the first provider.
Free(a, d) == a \in Regions /\ d.hit = 0 =>
                d.provider = "aws" /\ d.pc \in {"waiting", "index", "ranges", "done", "dropped", "stopped"}

DownloadsSound ==
    \A a \in wave : FileSound(dl[a]) /\ HadSound(a, dl[a]) /\ Paid(dl[a]) /\ Free(a, dl[a])

IInv == Typed /\ ListingSound /\ WaveSound /\ DownloadsSound
----------------------------------------------------------------------------
(* Lemmas about the model's operators. *)

USE SourceFetchAssumption

LEMMA Numbers ==
    /\ Ranges \in Nat \ {0} /\ Attempts \in Nat \ {0} /\ PageSize \in Nat \ {0}
    /\ MaxPages \in Nat \ {0} /\ MaxHits \in Nat /\ MaxHits >= 4
OBVIOUS

\* A key is that of the file or of the index of one artifact.
LEMMA KeysApart ==
    /\ Keys \subseteq Nat
    /\ \A a \in Artifacts : DataKey(a) \in Keys /\ IndexKey(a) \in Keys
    /\ \A a, b \in Artifacts : /\ DataKey(a) # IndexKey(b)
                               /\ DataKey(a) = DataKey(b) => a = b
                               /\ IndexKey(a) = IndexKey(b) => a = b
    /\ \A k \in Keys : \E a \in Artifacts : k = DataKey(a) \/ k = IndexKey(a)
    /\ KeysOf(Regions) \subseteq Keys
<1>1. \A a \in Artifacts : a \in Nat
  OBVIOUS
<1>2. \A a \in Artifacts : DataKey(a) \in Nat /\ IndexKey(a) \in Nat
  BY <1>1 DEF DataKey, IndexKey
<1>3. \A a, b \in Artifacts : 2 * a # 2 * b + 1 /\ (2 * a = 2 * b => a = b) /\ (2 * a + 1 = 2 * b + 1 => a = b)
  BY <1>1
<1> QED
  BY <1>2, <1>3 DEF DataKey, IndexKey, Keys, KeysOf, Regions

\* Two snapshots differ in their fingerprints if they differ at all.
LEMMA FingerprintTells ==
    ASSUME NEW S \in SUBSET KeysOf(Regions), NEW T \in SUBSET KeysOf(Regions)
    PROVE  PublicationChanged(S, T) <=> S # T
<1>1. ASSUME NEW U \in SUBSET KeysOf(Regions), NEW a \in Regions
      PROVE  /\ a \in Complete(U) \cup Incomplete(U) <=> DataKey(a) \in U \/ IndexKey(a) \in U
  BY DEF Complete, Incomplete
<1>2. ASSUME NEW U \in SUBSET KeysOf(Regions), NEW V \in SUBSET KeysOf(Regions), Fingerprint(U) = Fingerprint(V),
             NEW a \in Complete(U) \cup Incomplete(U)
      PROVE  (DataKey(a) \in U <=> DataKey(a) \in V) /\ (IndexKey(a) \in U <=> IndexKey(a) \in V)
  <2>1. <<a, DataKey(a) \in U, IndexKey(a) \in U>> \in Fingerprint(U)
    BY DEF Fingerprint
  <2>2. <<a, DataKey(a) \in U, IndexKey(a) \in U>> \in Fingerprint(V)
    BY <1>2, <2>1
  <2>3. PICK b \in Complete(V) \cup Incomplete(V) :
            <<a, DataKey(a) \in U, IndexKey(a) \in U>> = <<b, DataKey(b) \in V, IndexKey(b) \in V>>
    BY <2>2 DEF Fingerprint
  <2> QED
    BY <2>3
<1>3. ASSUME Fingerprint(S) = Fingerprint(T), NEW a \in Regions
      PROVE  (DataKey(a) \in S <=> DataKey(a) \in T) /\ (IndexKey(a) \in S <=> IndexKey(a) \in T)
  BY <1>1, <1>2, <1>3
<1>4. ASSUME Fingerprint(S) = Fingerprint(T) PROVE S = T
  <2>1. \A k \in KeysOf(Regions) : k \in S <=> k \in T
    BY <1>3, <1>4 DEF KeysOf
  <2> QED
    BY <2>1
<1> QED
  BY <1>4 DEF PublicationChanged

\* What it costs to lose a file at a provider.
LEMMA CostIs ==
    ASSUME NEW had, NEW p
    PROVE  Cost(had, p) = (IF DataAt(had, p) THEN 1 ELSE 0) + (IF BothAt(had, p) THEN 1 ELSE 0)
<1> DEFINE C == {k \in Parts : <<p, "data">> \in had /\ <<p, k>> \in had}
<1>1. Cost(had, p) = Cardinality(C)
  BY DEF Cost, Parts
<1>2. CASE ~DataAt(had, p)
  <2>1. C = {}
    BY <1>2 DEF DataAt
  <2>2. Cardinality(C) = 0
    BY <2>1, FS_EmptySet
  <2> QED
    BY <1>1, <1>2, <2>2 DEF DataAt, BothAt
<1>3. CASE DataAt(had, p) /\ ~BothAt(had, p)
  <2>1. C = {"data"}
    BY <1>3 DEF DataAt, BothAt, Parts
  <2>2. Cardinality(C) = 1
    BY <2>1, FS_Singleton
  <2> HIDE DEF C
  <2> QED
    BY <1>1, <1>3, <2>2 DEF DataAt, BothAt
<1>4. CASE BothAt(had, p)
  <2>1. C = {"data"} \cup {"index"}
    BY <1>4 DEF BothAt, Parts
  <2>2. IsFiniteSet({"data"}) /\ Cardinality({"data"}) = 1
    BY FS_Singleton
  <2>3. "index" \notin {"data"}
    OBVIOUS
  <2>4. Cardinality({"data"} \cup {"index"}) = Cardinality({"data"}) + 1
    BY <2>2, <2>3, FS_AddElement
  <2>5. Cardinality(C) = 2
    <3>1. Cardinality(C) = 1 + 1
      BY <2>1, <2>2, <2>4
    <3> HIDE DEF C
    <3> QED
      BY <3>1
  <2> HIDE DEF C
  <2> QED
    BY <1>1, <1>4, <2>5 DEF DataAt, BothAt
<1> QED
  BY <1>2, <1>3, <1>4

\* A nonempty set of keys has a smallest one, and so has any set of numbers.
LEMMA SmallestKey ==
    ASSUME NEW S \in SUBSET Nat, S # {}
    PROVE  \E m \in S : \A n \in S : m <= n
<1> DEFINE T == {0 .. n : n \in S}
<1>1. T \subseteq FiniteSubsetsOf(Nat) /\ T # {}
  <2>1. \A n \in S : 0 .. n \in SUBSET Nat /\ IsFiniteSet(0 .. n)
    BY FS_Interval
  <2> QED
    BY <2>1 DEF FiniteSubsetsOf
<1>2. \E x \in T : \A y \in T : ~(<<y, x>> \in StrictSubsetOrdering(Nat))
  <2> HIDE DEF T
  <2> QED
    BY <1>1, FS_StrictSubsetOrderingWellFounded, WFMin
<1>3. PICK m \in S : \A n \in S : ~(<<0 .. n, 0 .. m>> \in StrictSubsetOrdering(Nat))
  BY <1>2
<1>4. ASSUME NEW n \in S, n < m PROVE FALSE
  <2>1. 0 .. n \in SUBSET Nat /\ 0 .. m \in SUBSET Nat /\ 0 .. n \subseteq 0 .. m
    BY <1>4
  <2>2. m \in 0 .. m /\ m \notin 0 .. n
    BY <1>4
  <2>3. <<0 .. n, 0 .. m>> \in StrictSubsetOrdering(Nat)
    BY <2>1, <2>2 DEF StrictSubsetOrdering
  <2> QED
    BY <1>3, <2>3
<1> QED
  BY <1>4

\* A finite nonempty set of numbers has a largest one.
LEMMA LargestKey ==
    ASSUME NEW S \in SUBSET Nat, IsFiniteSet(S), S # {}
    PROVE  \E m \in S : \A n \in S : m >= n
<1> DEFINE above(n) == {j \in S : j > n}
           T == {above(n) : n \in S}
<1>1. T \subseteq FiniteSubsetsOf(S) /\ T # {}
  <2>1. \A n \in S : above(n) \in SUBSET S /\ IsFiniteSet(above(n))
    BY FS_Subset
  <2> HIDE DEF above
  <2>2. \A n \in S : above(n) \in FiniteSubsetsOf(S)
    BY <2>1 DEF FiniteSubsetsOf
  <2> QED
    BY <2>2
<1>2. \E x \in T : \A y \in T : ~(<<y, x>> \in StrictSubsetOrdering(S))
  <2> HIDE DEF T
  <2> QED
    BY <1>1, FS_StrictSubsetOrderingWellFounded, WFMin
<1>3. PICK m \in S : \A n \in S : ~(<<above(n), above(m)>> \in StrictSubsetOrdering(S))
  BY <1>2
<1>4. ASSUME NEW n \in S, n > m PROVE FALSE
  <2>0. \A j \in S : j \in Nat
    OBVIOUS
  <2>1. \A j \in S : j > n => j > m
    BY <1>4, <2>0
  <2>2. above(n) \in SUBSET S /\ above(m) \in SUBSET S /\ above(n) \subseteq above(m)
    BY <2>1
  <2>3. n \in above(m) /\ n \notin above(n)
    BY <1>4
  <2>4. <<above(n), above(m)>> \in StrictSubsetOrdering(S)
    <3> HIDE DEF above
    <3> QED
      BY <2>2, <2>3 DEF StrictSubsetOrdering
  <2> QED
    BY <1>3, <2>4
<1> QED
  BY <1>4

\* The keys are finite in number.
LEMMA KeysFinite == IsFiniteSet(Keys)
<1>1. PICK N \in Nat : \A a \in Artifacts : a <= N
  <2>1. Artifacts \in SUBSET Nat /\ IsFiniteSet(Artifacts)
    OBVIOUS
  <2>2. CASE Artifacts # {}
    BY <2>1, <2>2, LargestKey
  <2> QED
    BY <2>2
<1>2. \A a \in Artifacts : DataKey(a) <= 2 * N + 1 /\ IndexKey(a) <= 2 * N + 1
  <2>1. \A a \in Artifacts : a \in Nat /\ a <= N
    BY <1>1
  <2> QED
    BY <2>1 DEF DataKey, IndexKey
<1>3. 2 * N + 1 \in Nat
  OBVIOUS
<1>4. \A k \in Keys : k \in Nat /\ k <= 2 * N + 1
  BY <1>2, KeysApart
<1>5. Keys \subseteq 0 .. (2 * N + 1)
  BY <1>3, <1>4
<1>6. IsFiniteSet(0 .. (2 * N + 1))
  BY <1>3, FS_Interval
<1> QED
  BY <1>5, <1>6, FS_Subset

\* A page that is cut off is not empty, its last key is the new token, and it
\* leaves out no key up to that one.
LEMMA PageIsPrefix ==
    ASSUME NEW K \in SUBSET Keys, PageOf(K) # K
    PROVE  /\ Max(PageOf(K)) \in PageOf(K)
           /\ \A k \in K : k <= Max(PageOf(K)) => k \in PageOf(K)
<1> DEFINE P == PageOf(K)
           below(k) == {j \in K : j < k}
<1>0. K \subseteq Nat /\ \A k \in K : k \in Nat
  BY KeysApart
<1>1. IsFiniteSet(K) /\ \A k \in K : IsFiniteSet(below(k)) /\ Cardinality(below(k)) \in Nat
  <2>1. IsFiniteSet(K)
    BY KeysFinite, FS_Subset
  <2>2. \A k \in K : below(k) \subseteq K
    OBVIOUS
  <2> QED
    BY <2>1, <2>2, FS_Subset, FS_CardinalityType
<1>2. P = {k \in K : Cardinality(below(k)) < PageSize}
  BY DEF PageOf
<1>3. K # {}
  BY <1>2
<1>4. P # {}
  <2>1. PICK m \in K : \A n \in K : m <= n
    BY <1>0, <1>3, SmallestKey
  <2>2. \A j \in K : ~(j < m)
    BY <1>0, <2>1
  <2>3. Cardinality(below(m)) = 0
    <3>1. below(m) = {}
      BY <2>2
    <3> QED
      BY <3>1, FS_EmptySet
  <2> QED
    BY <1>2, <2>1, <2>3, Numbers
<1>5. \E x \in P : \A y \in P : x >= y
  <2>1. P \in SUBSET Nat /\ P \in SUBSET K
    BY <1>0, <1>2
  <2>2. IsFiniteSet(P)
    BY <1>1, <2>1, FS_Subset
  <2> HIDE DEF P
  <2> QED
    BY <1>4, <2>1, <2>2, LargestKey
<1>6. Max(P) \in P /\ \A y \in P : Max(P) >= y
  <2> HIDE DEF P
  <2> QED
    BY <1>5 DEF Max
<1>7. ASSUME NEW k \in K, k <= Max(P) PROVE k \in P
  <2> DEFINE m == Max(P)
  <2>1. m \in K /\ Cardinality(below(m)) < PageSize
    BY <1>2, <1>6
  <2>2. below(k) \subseteq below(m)
    <3>1. m \in Nat /\ k \in Nat /\ k <= m
      BY <1>0, <1>7, <2>1
    <3>2. \A j \in K : j < k => j < m
      BY <1>0, <3>1
    <3> QED
      BY <3>2
  <2>3. Cardinality(below(k)) <= Cardinality(below(m))
    BY <1>1, <2>1, <2>2, FS_Subset
  <2>4. Cardinality(below(k)) < PageSize
    BY <1>1, <2>1, <2>3, Numbers
  <2> QED
    BY <1>2, <2>4
<1> QED
  BY <1>6, <1>7

----------------------------------------------------------------------------
(* One download. *)

Good(a, d) == d \in DownloadRecords /\ FileSound(d) /\ HadSound(a, d) /\ Paid(d) /\ Free(a, d)

\* A record with other values in the fields that a step changes.
LEMMA NoFileIs == NoFile \in Seq(Int) /\ Len(NoFile) = 1 /\ <<Torn>> \in Seq(Int) /\ Len(<<Torn>>) = 1
BY DEF NoFile, Torn

LEMMA CostType ==
    ASSUME NEW had, NEW p
    PROVE  Cost(had, p) \in 0..2
BY CostIs

\* A record is good by its fields.
LEMMA GoodMove ==
    ASSUME NEW a \in Artifacts, NEW d, Good(a, d), NEW e \in DownloadRecords,
           e.had = d.had, e.file = NoFile, e.pc # "ranges", ~e.disk => e.hit >= Due(e), Free(a, e)
    PROVE  Good(a, e)
BY NoFileIs DEF Good, FileSound, HadSound, Paid

\* Fields of the records that the ladder makes: e goes on with c in state s at
\* provider q.
GoesOn(e, c, s, q) ==
    /\ e \in DownloadRecords /\ e.pc = s /\ e.provider = q /\ e.file = NoFile
    /\ e.hit = c.hit /\ e.disk = c.disk /\ e.had = c.had

LEMMA LadderFields ==
    ASSUME NEW c \in DownloadRecords
    PROVE  /\ GoesOn(FullInstead(c), c, "full", c.provider)
           /\ \/ GoesOn(RetrySelective(c), c, "index", c.provider)
              \/ GoesOn(RetrySelective(c), c, "full", c.provider)
           /\ c.provider = "aws" => GoesOn(NextProvider(c), c, "index", "nomads")
           /\ c.provider = "nomads" => GoesOn(NextProvider(c), c, "failed", "nomads")
           /\ GoesOn(RetryFull(c), c, "full", c.provider) \/ RetryFull(c) = NextProvider(c)
<1>1. /\ NoFile \in Seq(Int) /\ 1 \in 1..Attempts /\ {"index", "full", "failed"} \subseteq States
      /\ "nomads" \in Providers
  BY NoFileIs, Numbers DEF States, Providers
<1>2. c.attempt \in 1..Attempts /\ c.provider \in Providers
  BY DEF DownloadRecords
<1>3. c.attempt < Attempts => c.attempt + 1 \in 1..Attempts
  BY <1>2, Numbers
<1>4. ASSUME NEW s \in States, NEW n \in 1..Attempts
      PROVE  GoesOn([c EXCEPT !.pc = s, !.attempt = n, !.file = NoFile], c, s, c.provider)
  BY <1>1 DEF GoesOn, DownloadRecords
<1>5. GoesOn([c EXCEPT !.pc = "index", !.provider = "nomads", !.attempt = 1, !.file = NoFile], c, "index", "nomads")
  BY <1>1 DEF GoesOn, DownloadRecords
<1>6. GoesOn([c EXCEPT !.pc = "failed", !.file = NoFile], c, "failed", c.provider)
  BY <1>1 DEF GoesOn, DownloadRecords
<1>7. GoesOn(FullInstead(c), c, "full", c.provider)
  BY <1>1, <1>4 DEF FullInstead
<1>8. GoesOn(RetrySelective(c), c, "index", c.provider) \/ GoesOn(RetrySelective(c), c, "full", c.provider)
  BY <1>1, <1>3, <1>4 DEF RetrySelective
<1>9. /\ c.provider = "aws" => GoesOn(NextProvider(c), c, "index", "nomads")
      /\ c.provider = "nomads" => GoesOn(NextProvider(c), c, "failed", "nomads")
  BY <1>5, <1>6 DEF NextProvider
<1>10. GoesOn(RetryFull(c), c, "full", c.provider) \/ RetryFull(c) = NextProvider(c)
  BY <1>1, <1>3, <1>4 DEF RetryFull
<1> QED
  BY <1>7, <1>8, <1>9, <1>10

\* A record with one more error counted, and the same of a full disk.
Counted(c, d) ==
    /\ c \in DownloadRecords /\ c.pc = d.pc /\ c.provider = d.provider /\ c.had = d.had
    /\ c.disk \in {d.disk, TRUE} /\ c.hit > 0 /\ \A n \in 0..3 : d.hit >= n => c.hit >= n + 1

LEMMA ChargedIs ==
    ASSUME NEW d \in DownloadRecords
    PROVE  Counted(Charged(d), d) /\ Counted([Charged(d) EXCEPT !.disk = TRUE], d)
<1>1. d.hit \in 0..MaxHits /\ d.disk \in BOOLEAN
  BY DEF DownloadRecords
<1> DEFINE h == IF d.hit < MaxHits THEN d.hit + 1 ELSE d.hit
<1>2. h \in 0..MaxHits /\ h > 0 /\ \A n \in 0..3 : d.hit >= n => h >= n + 1
  BY <1>1, Numbers
<1> HIDE DEF h
<1>3. [d EXCEPT !.hit = h] \in DownloadRecords
  BY <1>2 DEF DownloadRecords
<1>4. Counted([d EXCEPT !.hit = h], d)
  BY <1>2, <1>3 DEF Counted, DownloadRecords
<1>5. Charged(d) = [d EXCEPT !.hit = h]
  BY DEF Charged, h
<1>6. Counted(Charged(d), d)
  BY <1>4, <1>5
<1>7. [Charged(d) EXCEPT !.disk = TRUE] \in DownloadRecords
  BY <1>6 DEF Counted, DownloadRecords
<1>8. Counted([Charged(d) EXCEPT !.disk = TRUE], d)
  BY <1>6, <1>7 DEF Counted, DownloadRecords
<1> QED
  BY <1>6, <1>8

\* What is due at each step of the ladder, counted in single errors.
LEMMA DueIs ==
    ASSUME NEW d \in DownloadRecords
    PROVE  /\ DueBefore(d) \in 0..2 /\ DueHere(d) \in 0..1
           /\ d.pc # "failed" => Due(d) = DueBefore(d) + DueHere(d)
           /\ Cost(d.had, d.provider) <= DueHere(d) + 1 \/ d.pc \notin {"full", "body"}
           /\ d.provider = "aws" => DueBefore(d) = 0
           /\ d.provider = "nomads" => DueBefore(d) = Cost(d.had, "aws")
           /\ Cost(d.had, "aws") \in 0..2 /\ Cost(d.had, "nomads") \in 0..2
<1>1. \A p \in Providers : Cost(d.had, p) \in 0..2
  BY CostType
<1>2. DueBefore(d) \in 0..2 /\ DueHere(d) \in 0..1
  BY <1>1 DEF DueBefore, DueHere, Providers
<1>3. d.pc \in {"full", "body"} => Cost(d.had, d.provider) <= DueHere(d) + 1
  BY CostIs DEF DueHere, DataAt, BothAt
<1>4. Cost(d.had, "aws") \in 0..2 /\ Cost(d.had, "nomads") \in 0..2
  BY <1>1 DEF Providers
<1> QED
  BY <1>2, <1>3, <1>4 DEF Due, DueBefore

\* An error of the selective download: it is tried again, or the full one is.
LEMMA SelectiveErrors ==
    ASSUME NEW a \in Artifacts, NEW d, Good(a, d), d.pc \in {"index", "ranges"}, NEW c, Counted(c, d)
    PROVE  /\ Good(a, RetrySelective(c)) /\ RetrySelective(c).pc \in {"index", "full"}
           /\ Good(a, FullInstead(c)) /\ FullInstead(c).pc = "full"
<1>1. d \in DownloadRecords /\ Paid(d) /\ c \in DownloadRecords /\ c.had = d.had
  BY DEF Good, Counted
<1>2. /\ DueBefore(d) \in 0..2 /\ DueHere(d) = 0 /\ Due(d) = DueBefore(d)
  BY <1>1, DueIs DEF DueHere
<1>3. ~c.disk => c.hit >= DueBefore(d) + 1
  <2>1. ~c.disk => ~d.disk
    BY DEF Counted
  <2> QED
    BY <1>1, <1>2, <2>1 DEF Counted, Paid
<1>4. ASSUME NEW e, NEW s \in {"index", "full"}, GoesOn(e, c, s, c.provider)
      PROVE  Good(a, e)
  <2>1. DueBefore(e) = DueBefore(d)
    BY <1>1, <1>4 DEF GoesOn, DueBefore, Counted
  <2>2. Due(e) \in 0..3 /\ Due(e) <= DueBefore(d) + 1
    BY <1>2, <1>4, <2>1, DueIs DEF GoesOn
  <2>3. c.hit \in Nat
    BY <1>1 DEF DownloadRecords
  <2>4. ~e.disk => e.hit >= Due(e)
    BY <1>2, <1>3, <1>4, <2>2, <2>3 DEF GoesOn
  <2>5. Free(a, e)
    BY <1>4, <2>3 DEF GoesOn, Free, Counted
  <2> QED
    BY <1>1, <1>4, <2>4, <2>5, GoodMove DEF GoesOn
<1>5. Good(a, FullInstead(c)) /\ FullInstead(c).pc = "full"
  BY <1>1, <1>4, LadderFields DEF GoesOn
<1>6. Good(a, RetrySelective(c)) /\ RetrySelective(c).pc \in {"index", "full"}
  BY <1>1, <1>4, LadderFields DEF GoesOn
<1> QED
  BY <1>5, <1>6

\* An error of the full download: it is tried again, or the next provider is,
\* or there is none.
LEMMA FullErrors ==
    ASSUME NEW a \in Artifacts, NEW d, Good(a, d), d.pc \in {"full", "body"}, NEW c, Counted(c, d)
    PROVE  /\ Good(a, NextProvider(c)) /\ NextProvider(c).pc \in {"index", "failed"}
           /\ Good(a, RetryFull(c)) /\ RetryFull(c).pc \in {"full", "index", "failed"}
<1>1. d \in DownloadRecords /\ Paid(d) /\ c \in DownloadRecords /\ c.had = d.had /\ c.hit \in Nat
  BY DEF Good, Counted, DownloadRecords
<1>2. /\ DueBefore(d) \in 0..2 /\ DueHere(d) \in 0..1 /\ Due(d) = DueBefore(d) + DueHere(d)
      /\ Cost(d.had, d.provider) <= DueHere(d) + 1
      /\ Cost(d.had, "aws") \in 0..2 /\ Cost(d.had, "nomads") \in 0..2
  BY <1>1, DueIs
<1>3. ~c.disk => c.hit >= Due(d) + 1
  <2>1. ~c.disk => ~d.disk
    BY DEF Counted
  <2>2. Due(d) \in 0..3
    BY <1>2
  <2> QED
    BY <1>1, <2>1, <2>2 DEF Counted, Paid
<1>4. d.provider \in {"aws", "nomads"} /\ c.provider = d.provider
  BY <1>1 DEF DownloadRecords, Providers, Counted
<1>5. ASSUME NEW e, GoesOn(e, c, "index", "nomads"), d.provider = "aws"
      PROVE  Good(a, e)
  <2>1. Due(e) = Cost(d.had, "aws") + DueHere(e) /\ DueHere(e) = 0
    BY <1>1, <1>5, DueIs DEF GoesOn, DueHere
  <2>2. Cost(d.had, "aws") <= Due(d) + 1
    BY <1>2, <1>5
  <2>3. ~e.disk => e.hit >= Due(e)
    BY <1>1, <1>2, <1>3, <1>5, <2>1, <2>2 DEF GoesOn
  <2>4. Free(a, e)
    BY <1>1, <1>5 DEF GoesOn, Free, Counted
  <2> QED
    BY <1>1, <1>5, <2>3, <2>4, GoodMove DEF GoesOn
<1>6. ASSUME NEW e, GoesOn(e, c, "failed", "nomads"), d.provider = "nomads"
      PROVE  Good(a, e)
  <2>1. Due(e) = Cost(d.had, "aws") + Cost(d.had, "nomads")
    BY <1>1, <1>6 DEF GoesOn, Due
  <2>2. DueBefore(d) = Cost(d.had, "aws") /\ Cost(d.had, "nomads") <= DueHere(d) + 1
    BY <1>1, <1>2, <1>6, DueIs
  <2>3. ~e.disk => e.hit >= Due(e)
    BY <1>1, <1>2, <1>3, <1>6, <2>1, <2>2 DEF GoesOn
  <2>4. Free(a, e)
    BY <1>1, <1>6 DEF GoesOn, Free, Counted
  <2> QED
    BY <1>1, <1>6, <2>3, <2>4, GoodMove DEF GoesOn
<1>7. ASSUME NEW e, GoesOn(e, c, "full", c.provider)
      PROVE  Good(a, e)
  <2>1. Due(e) = DueBefore(d) + DueHere(d)
    BY <1>1, <1>4, <1>7, DueIs DEF GoesOn, DueHere, DueBefore
  <2>2. ~e.disk => e.hit >= Due(e)
    BY <1>1, <1>2, <1>3, <1>7, <2>1 DEF GoesOn
  <2>3. Free(a, e)
    BY <1>1, <1>7 DEF GoesOn, Free, Counted
  <2> QED
    BY <1>1, <1>7, <2>2, <2>3, GoodMove DEF GoesOn
<1>8. Good(a, NextProvider(c)) /\ NextProvider(c).pc \in {"index", "failed"}
  BY <1>1, <1>4, <1>5, <1>6, LadderFields DEF GoesOn
<1>9. Good(a, RetryFull(c)) /\ RetryFull(c).pc \in {"full", "index", "failed"}
  BY <1>1, <1>7, <1>8, LadderFields DEF GoesOn
<1> QED
  BY <1>8, <1>9

\* An index or a file that is not there was not there when the download began,
\* and then no error was due for it.  The first provider has both of a region.
LEMMA NotThere ==
    ASSUME NEW a \in Artifacts, a \in Regions => a \in Complete(upstream["aws"]), NEW d, Good(a, d)
    PROVE  /\ d.pc = "index" /\ IndexKey(a) \notin upstream[d.provider] =>
                Good(a, FullInstead(d)) /\ FullInstead(d).pc = "full"
           /\ d.pc = "full" /\ DataKey(a) \notin upstream[d.provider] =>
                Good(a, NextProvider(d)) /\ NextProvider(d).pc \in {"index", "failed"}
<1>1. d \in DownloadRecords /\ Paid(d) /\ Free(a, d) /\ HadSound(a, d) /\ d.hit \in Nat
  BY DEF Good, DownloadRecords
<1>2. d.provider \in {"aws", "nomads"}
  BY <1>1 DEF DownloadRecords, Providers
<1>3. DueBefore(d) \in 0..2 /\ DueHere(d) \in 0..1 /\ Cost(d.had, "aws") \in 0..2
  BY <1>1, DueIs
<1>4. /\ a \in Regions /\ IndexKey(a) \notin upstream[d.provider] => d.provider = "nomads"
      /\ a \in Regions /\ DataKey(a) \notin upstream[d.provider] => d.provider = "nomads"
  BY <1>2 DEF Complete
<1>5. ASSUME d.pc = "index", IndexKey(a) \notin upstream[d.provider]
      PROVE  Good(a, FullInstead(d)) /\ FullInstead(d).pc = "full"
  <2> DEFINE e == FullInstead(d)
  <2>1. GoesOn(e, d, "full", d.provider)
    BY <1>1, LadderFields
  <2> HIDE DEF e
  <2>2. ~BothAt(d.had, d.provider)
    BY <1>1, <1>2, <1>5 DEF HadSound, BothAt, Providers
  <2>3. Due(e) = DueBefore(d) /\ Due(d) = DueBefore(d)
    BY <1>1, <1>3, <1>5, <2>1, <2>2 DEF GoesOn, Due, DueBefore, DueHere
  <2>4. (~e.disk => e.hit >= Due(e)) /\ Free(a, e)
    BY <1>1, <1>4, <1>5, <2>1, <2>3 DEF GoesOn, Paid, Free
  <2>5. Good(a, e)
    BY <1>1, <2>1, <2>4, GoodMove DEF GoesOn
  <2> QED
    BY <2>1, <2>5 DEF e, GoesOn
<1>6. ASSUME d.pc = "full", DataKey(a) \notin upstream[d.provider]
      PROVE  Good(a, NextProvider(d)) /\ NextProvider(d).pc \in {"index", "failed"}
  <2> DEFINE e == NextProvider(d)
  <2>1. ~DataAt(d.had, d.provider) /\ ~BothAt(d.had, d.provider)
    BY <1>1, <1>2, <1>6 DEF HadSound, BothAt, DataAt, Providers
  <2>2. Cost(d.had, d.provider) = 0 /\ DueHere(d) = 0 /\ Due(d) = DueBefore(d)
    BY <1>1, <1>3, <1>6, <2>1, CostIs DEF Due, DueHere
  <2>3. \/ d.provider = "aws" /\ GoesOn(e, d, "index", "nomads")
        \/ d.provider = "nomads" /\ GoesOn(e, d, "failed", "nomads")
    BY <1>1, <1>2, LadderFields
  <2> HIDE DEF e
  <2>4. Due(e) = DueBefore(d)
    <3>1. CASE d.provider = "aws"
      BY <1>1, <2>2, <2>3, <3>1, DueIs DEF GoesOn, Due, DueBefore, DueHere
    <3>2. CASE d.provider = "nomads"
      BY <1>1, <1>3, <2>2, <2>3, <3>2 DEF GoesOn, Due, DueBefore
    <3> QED
      BY <1>2, <3>1, <3>2
  <2>5. (~e.disk => e.hit >= Due(e)) /\ Free(a, e)
    BY <1>1, <1>3, <1>4, <1>6, <2>2, <2>3, <2>4 DEF GoesOn, Paid, Free
  <2>6. Good(a, e)
    BY <1>1, <2>3, <2>5, GoodMove DEF GoesOn
  <2> QED
    BY <2>3, <2>6 DEF e, GoesOn
<1> QED
  BY <1>5, <1>6

\* The same download a step further in the same attempt: its file grows or is
\* begun, or it is stopped; or what it brought is of no use.
LEMMA SamePlace ==
    ASSUME NEW a \in Artifacts, NEW d, Good(a, d), NEW e \in DownloadRecords, FileSound(e),
           e.provider = d.provider, e.hit = d.hit, e.disk = d.disk, e.had = d.had,
           \/ e.pc \in {"ranges", "stopped"} /\ d.pc \in {"index", "ranges"}
           \/ e.pc \in {"body", "stopped"} /\ d.pc \in {"full", "body"}
           \/ e.pc = "dropped" /\ d.pc = "done"
    PROVE  Good(a, e)
<1>1. d \in DownloadRecords /\ Paid(d) /\ Free(a, d) /\ HadSound(a, d) /\ d.hit \in Nat
  BY DEF Good, DownloadRecords
<1>2. /\ DueBefore(d) \in 0..2 /\ DueHere(d) \in 0..1 /\ Due(d) = DueBefore(d) + DueHere(d)
      /\ DueHere(e) \in 0..1 /\ Due(e) = DueBefore(e) + DueHere(e)
  BY <1>1, DueIs
<1>3. DueBefore(e) = DueBefore(d) /\ DueHere(e) <= DueHere(d)
  BY <1>2 DEF DueBefore, DueHere
<1>4. Paid(e)
  BY <1>1, <1>2, <1>3 DEF Paid
<1>5. Free(a, e)
  BY <1>1 DEF Free
<1> QED
  BY <1>1, <1>4, <1>5 DEF Good, HadSound

\* A download that is stopped is left without a file.
LEMMA StoppedGood ==
    ASSUME NEW a \in Artifacts, NEW d, Good(a, d), d.pc \in {"index", "ranges", "full", "body"}
    PROVE  Good(a, [d EXCEPT !.pc = "stopped", !.file = NoFile]) /\ [d EXCEPT !.pc = "stopped", !.file = NoFile].pc = "stopped"
<1> DEFINE e == [d EXCEPT !.pc = "stopped", !.file = NoFile]
<1>1. d \in DownloadRecords /\ "stopped" \in States
  BY DEF Good, States
<1>2. /\ e \in DownloadRecords /\ e.pc = "stopped" /\ e.file = NoFile /\ e.provider = d.provider
      /\ e.hit = d.hit /\ e.disk = d.disk /\ e.had = d.had
  BY <1>1, NoFileIs DEF DownloadRecords
<1> HIDE DEF e
<1>3. FileSound(e)
  BY <1>2, NoFileIs DEF FileSound
<1>4. Good(a, e)
  BY <1>2, <1>3, SamePlace
<1> QED
  BY <1>2, <1>4 DEF e

\* An item dropped as the seed keeps what its download knew.
LEMMA DroppedGood ==
    ASSUME NEW a \in Artifacts, NEW d, Good(a, d), d.pc = "done"
    PROVE  Good(a, [d EXCEPT !.pc = "dropped"]) /\ [d EXCEPT !.pc = "dropped"].pc = "dropped"
<1> DEFINE e == [d EXCEPT !.pc = "dropped"]
<1>1. d \in DownloadRecords /\ FileSound(d) /\ "dropped" \in States
  BY DEF Good, States
<1>2. /\ e \in DownloadRecords /\ e.pc = "dropped" /\ e.file = d.file /\ e.provider = d.provider
      /\ e.hit = d.hit /\ e.disk = d.disk /\ e.had = d.had
  BY <1>1 DEF DownloadRecords
<1> HIDE DEF e
<1>3. FileSound(e)
  BY <1>1, <1>2 DEF FileSound
<1>4. Good(a, e)
  BY <1>2, <1>3, SamePlace
<1> QED
  BY <1>2, <1>4 DEF e

LEMMA NothingYet == NoListing \in ListingRecords /\ NoDownload \in DownloadRecords
<1>1. 1 \in 1..Attempts /\ 0 \in 0..MaxHits /\ 0 \in 0..MaxPages
  BY Numbers
<1>2. NoListing \in ListingRecords
  BY <1>1 DEF NoListing, ListingRecords
<1>3. NoDownload \in DownloadRecords
  BY <1>1, NoFileIs DEF NoDownload, DownloadRecords, States, Providers
<1> QED
  BY <1>2, <1>3

\* A record that knows of nothing but where it is, and of what is there now.
LEMMA FreshGood ==
    ASSUME NEW a \in Artifacts, NEW e \in DownloadRecords, e.pc \in {"waiting", "index", "done"},
           e.provider = "aws", e.file = NoFile, e.hit = 0, HadSound(a, e)
    PROVE  Good(a, e)
<1>1. Due(e) = 0
  BY DEF Due, DueBefore, DueHere
<1>2. FileSound(e) /\ Paid(e) /\ Free(a, e)
  BY <1>1, NoFileIs DEF FileSound, Paid, Free
<1> QED
  BY <1>2 DEF Good

LEMMA Beginnings ==
    ASSUME NEW a \in Artifacts
    PROVE  /\ Good(a, Start(a)) /\ Start(a).pc = "index"
           /\ Good(a, Arrived) /\ Arrived.pc = "done"
           /\ Good(a, [NoDownload EXCEPT !.pc = "waiting"]) /\ [NoDownload EXCEPT !.pc = "waiting"].pc = "waiting"
<1> DEFINE had == ({p \in Providers : DataKey(a) \in upstream[p]} \X {"data"})
                  \cup ({p \in Providers : IndexKey(a) \in upstream[p]} \X {"index"})
           e == [NoDownload EXCEPT !.pc = "index", !.had = had]
<1>1. /\ had \in SUBSET (Providers \X Parts)
      /\ \A p \in Providers : /\ <<p, "data">> \in had => DataKey(a) \in upstream[p]
                              /\ <<p, "index">> \in had => IndexKey(a) \in upstream[p]
  BY DEF Parts
<1>2. Start(a) = e
  BY DEF Start
<1> HIDE DEF had
<1>3. {"index", "waiting", "done"} \subseteq States
  BY DEF States
<1>4. /\ e \in DownloadRecords /\ e.pc = "index" /\ e.provider = "aws" /\ e.file = NoFile /\ e.hit = 0 /\ e.had = had
  BY <1>1, <1>3, NothingYet DEF NoDownload, DownloadRecords
<1> HIDE DEF e
<1>5. Good(a, Start(a)) /\ Start(a).pc = "index"
  <2>1. HadSound(a, e)
    BY <1>1, <1>4 DEF HadSound
  <2> QED
    BY <1>2, <1>4, <2>1, FreshGood
<1>6. ASSUME NEW s \in {"waiting", "done"}
      PROVE  Good(a, [NoDownload EXCEPT !.pc = s]) /\ [NoDownload EXCEPT !.pc = s].pc = s
  <2> DEFINE f == [NoDownload EXCEPT !.pc = s]
  <2>1. f \in DownloadRecords /\ f.pc = s /\ f.provider = "aws" /\ f.file = NoFile /\ f.hit = 0 /\ f.had = {}
    BY <1>3, NothingYet DEF NoDownload, DownloadRecords
  <2> HIDE DEF f
  <2>2. HadSound(a, f)
    BY <2>1 DEF HadSound
  <2>3. Good(a, f)
    BY <2>1, <2>2, FreshGood
  <2> QED
    BY <2>1, <2>3 DEF f
<1> QED
  BY <1>5, <1>6 DEF Arrived

\* The next range in order.
LEMMA RangeGood ==
    ASSUME NEW a \in Artifacts, NEW d, Good(a, d), d.pc = "ranges"
    PROVE  LET f == Append(d.file, Len(d.file) + 1)
           IN  /\ Len(f) = Ranges => f = Selected
               /\ Len(f) # Ranges => /\ Good(a, [d EXCEPT !.file = f])
                                     /\ [d EXCEPT !.file = f].pc = "ranges"
<1> DEFINE f == Append(d.file, Len(d.file) + 1)
           e == [d EXCEPT !.file = f]
<1>1. d \in DownloadRecords /\ d.file \in Seq(Int) /\ Len(d.file) < Ranges /\ \A i \in 1..Len(d.file) : d.file[i] = i
  BY DEF Good, FileSound, DownloadRecords
<1>2. Len(d.file) \in Nat /\ Len(d.file) + 1 \in Int
  BY <1>1
<1>3. /\ f \in Seq(Int) /\ Len(f) = Len(d.file) + 1 /\ f[Len(d.file) + 1] = Len(d.file) + 1
      /\ \A i \in 1..Len(d.file) : f[i] = d.file[i]
  BY <1>1, <1>2, AppendProperties
<1>4. \A i \in 1..Len(f) : f[i] = i
  BY <1>1, <1>2, <1>3
<1>5. ASSUME Len(f) = Ranges PROVE f = Selected
  <2>1. f = [i \in 1..Len(f) |-> f[i]]
    BY <1>3, LenProperties
  <2> HIDE DEF f
  <2> QED
    BY <1>4, <1>5, <2>1 DEF Selected
<1>6. ASSUME Len(f) # Ranges PROVE Good(a, e) /\ e.pc = "ranges"
  <2>1. /\ e \in DownloadRecords /\ e.pc = "ranges" /\ e.file = f /\ e.provider = d.provider
        /\ e.hit = d.hit /\ e.disk = d.disk /\ e.had = d.had
    <3> HIDE DEF f
    <3> QED
      BY <1>1, <1>3 DEF DownloadRecords
  <2>2. Len(f) < Ranges
    BY <1>1, <1>2, <1>3, <1>6, Numbers
  <2> HIDE DEF e, f
  <2>3. FileSound(e)
    BY <1>4, <2>1, <2>2 DEF FileSound
  <2> QED
    BY <2>1, <2>3, SamePlace
<1> QED
  BY <1>5, <1>6

\* The first range is about to come, or the body of the file is.
LEMMA FileBegins ==
    ASSUME NEW a \in Artifacts, NEW d, Good(a, d)
    PROVE  /\ d.pc = "index" => /\ Good(a, [d EXCEPT !.pc = "ranges", !.file = <<>>])
                                /\ [d EXCEPT !.pc = "ranges", !.file = <<>>].pc = "ranges"
           /\ d.pc = "full" => /\ Good(a, [d EXCEPT !.pc = "body", !.file = <<Torn>>])
                               /\ [d EXCEPT !.pc = "body", !.file = <<Torn>>].pc = "body"
<1>1. d \in DownloadRecords /\ {"ranges", "body"} \subseteq States
  BY DEF Good, States
<1>2. <<>> \in Seq(Int) /\ Len(<<>>) = 0
  OBVIOUS
<1>3. ASSUME NEW s \in States, NEW f \in Seq(Int)
      PROVE  LET e == [d EXCEPT !.pc = s, !.file = f]
             IN  /\ e \in DownloadRecords /\ e.pc = s /\ e.file = f /\ e.provider = d.provider
                 /\ e.hit = d.hit /\ e.disk = d.disk /\ e.had = d.had
  BY <1>1 DEF DownloadRecords
<1>4. ASSUME d.pc = "index" PROVE Good(a, [d EXCEPT !.pc = "ranges", !.file = <<>>])
  <2> DEFINE e == [d EXCEPT !.pc = "ranges", !.file = <<>>]
  <2>1. /\ e \in DownloadRecords /\ e.pc = "ranges" /\ e.file = <<>> /\ e.provider = d.provider
        /\ e.hit = d.hit /\ e.disk = d.disk /\ e.had = d.had
    BY <1>1, <1>2, <1>3
  <2> HIDE DEF e
  <2>2. FileSound(e)
    BY <1>2, <2>1, Numbers DEF FileSound
  <2> QED
    BY <1>4, <2>1, <2>2, SamePlace DEF e
<1>5. ASSUME d.pc = "full" PROVE Good(a, [d EXCEPT !.pc = "body", !.file = <<Torn>>])
  <2> DEFINE e == [d EXCEPT !.pc = "body", !.file = <<Torn>>]
  <2>1. /\ e \in DownloadRecords /\ e.pc = "body" /\ e.file = <<Torn>> /\ e.provider = d.provider
        /\ e.hit = d.hit /\ e.disk = d.disk /\ e.had = d.had
    BY <1>1, <1>3, NoFileIs
  <2> HIDE DEF e
  <2>2. FileSound(e)
    BY <2>1, NoFileIs DEF FileSound
  <2> QED
    BY <1>5, <2>1, <2>2, SamePlace DEF e
<1> QED
  BY <1>1, <1>2, <1>3, <1>4, <1>5, NoFileIs

\* The disk is full: the download fails, whatever it was due.
LEMMA DiskFull ==
    ASSUME NEW a \in Artifacts, NEW d, Good(a, d), NEW c, Counted(c, d)
    PROVE  /\ Good(a, [c EXCEPT !.pc = "failed", !.file = NoFile, !.disk = TRUE])
           /\ [c EXCEPT !.pc = "failed", !.file = NoFile, !.disk = TRUE].pc = "failed"
<1> DEFINE e == [c EXCEPT !.pc = "failed", !.file = NoFile, !.disk = TRUE]
<1>1. c \in DownloadRecords /\ c.hit > 0 /\ c.had = d.had /\ "failed" \in States /\ c.hit \in Nat
  BY DEF Counted, States, DownloadRecords
<1>2. /\ e \in DownloadRecords /\ e.pc = "failed" /\ e.file = NoFile /\ e.had = d.had /\ e.hit = c.hit
  BY <1>1, NoFileIs DEF DownloadRecords
<1>3. e.disk
  BY <1>1 DEF DownloadRecords
<1> HIDE DEF e
<1>4. Free(a, e)
  BY <1>1, <1>2 DEF Free
<1>5. Good(a, e)
  BY <1>2, <1>3, <1>4, GoodMove
<1> QED
  BY <1>2, <1>5 DEF e

LEMMA StagedKinds == Selected # NoFile /\ <<Whole>> # NoFile
<1>1. Selected[1] = 1
  BY Numbers DEF Selected
<1>2. NoFile[1] = -2 /\ <<Whole>>[1] = 0
  BY DEF NoFile, Whole
<1> QED
  BY <1>1, <1>2

\* What a step of one download does.
DownloadEffect(a, e) ==
    /\ Good(a, e) /\ e.pc \in {"index", "ranges", "full", "body", "done", "failed"}
    /\ dl' = [dl EXCEPT ![a] = e]
    /\ \/ staged' = staged /\ e.pc # "done"
       \/ \E content \in {Selected, <<Whole>>} : staged' = [staged EXCEPT ![a] = content]
    /\ litter' \in SUBSET wave

LEMMA DownloadStep ==
    ASSUME IInv, NEW a \in Artifacts, Download(a)
    PROVE  a \in wave /\ Active(a) /\ \E e : DownloadEffect(a, e)
<1> DEFINE d == dl[a]
<1>1. d.pc \in {"index", "ranges", "full", "body"}
  BY DEF Download, GetIndex, GetRange, GetFull, GetBody
<1>2. a \in wave
  BY <1>1 DEF IInv, WaveSound, NoDownload
<1>3. /\ d \in DownloadRecords /\ Good(a, d) /\ (a \in Regions => a \in Complete(upstream["aws"]))
      /\ litter \in SUBSET wave /\ litter \cup {a} \in SUBSET wave
  BY <1>2 DEF IInv, Typed, DownloadsSound, WaveSound, Good
<1>4. Counted(Charged(d), d) /\ Counted([Charged(d) EXCEPT !.disk = TRUE], d)
  BY <1>3, ChargedIs
<1>5. ASSUME NEW r \in {"ok", "lost", "bad"}, GetIndex(a, r)
      PROVE  \E e : DownloadEffect(a, e)
  <2>1. d.pc = "index" /\ UNCHANGED <<staged, litter>>
    BY <1>5 DEF GetIndex
  <2>2. CASE r = "ok" /\ IndexKey(a) \in upstream[d.provider]
    <3> DEFINE e == [d EXCEPT !.pc = "ranges", !.file = <<>>]
    <3>1. dl' = [dl EXCEPT ![a] = e]
      BY <1>5, <2>2 DEF GetIndex, Becomes
    <3>2. Good(a, e) /\ e.pc = "ranges"
      BY <1>3, <2>1, FileBegins
    <3> QED
      BY <1>3, <2>1, <3>1, <3>2 DEF DownloadEffect
  <2>3. CASE r = "ok" /\ IndexKey(a) \notin upstream[d.provider]
    <3>1. dl' = [dl EXCEPT ![a] = FullInstead(d)]
      BY <1>5, <2>3 DEF GetIndex, Becomes
    <3> QED
      BY <1>3, <2>1, <2>3, <3>1, NotThere DEF DownloadEffect
  <2>4. CASE r = "lost"
    <3>1. dl' = [dl EXCEPT ![a] = RetrySelective(Charged(d))]
      BY <1>5, <2>4 DEF GetIndex, Becomes
    <3>2. Good(a, RetrySelective(Charged(d))) /\ RetrySelective(Charged(d)).pc \in {"index", "full"}
      BY <1>3, <1>4, <2>1, SelectiveErrors
    <3> QED
      BY <1>3, <2>1, <3>1, <3>2 DEF DownloadEffect
  <2>5. CASE r = "bad"
    <3>1. dl' = [dl EXCEPT ![a] = FullInstead(Charged(d))]
      BY <1>5, <2>5 DEF GetIndex, Becomes
    <3>2. Good(a, FullInstead(Charged(d))) /\ FullInstead(Charged(d)).pc = "full"
      BY <1>3, <1>4, <2>1, SelectiveErrors
    <3> QED
      BY <1>3, <2>1, <3>1, <3>2 DEF DownloadEffect
  <2> QED
    BY <2>2, <2>3, <2>4, <2>5
<1>6. ASSUME NEW r \in {"ok", "lost", "bad"}, GetFull(a, r)
      PROVE  \E e : DownloadEffect(a, e)
  <2>1. d.pc = "full" /\ UNCHANGED <<staged, litter>>
    BY <1>6 DEF GetFull
  <2>2. CASE r = "ok" /\ DataKey(a) \in upstream[d.provider]
    <3> DEFINE e == [d EXCEPT !.pc = "body", !.file = <<Torn>>]
    <3>1. dl' = [dl EXCEPT ![a] = e]
      BY <1>6, <2>2 DEF GetFull, Becomes
    <3>2. Good(a, e) /\ e.pc = "body"
      BY <1>3, <2>1, FileBegins
    <3> QED
      BY <1>3, <2>1, <3>1, <3>2 DEF DownloadEffect
  <2>3. CASE r = "ok" /\ DataKey(a) \notin upstream[d.provider]
    <3>1. dl' = [dl EXCEPT ![a] = NextProvider(d)]
      BY <1>6, <2>3 DEF GetFull, Becomes
    <3> QED
      BY <1>3, <2>1, <2>3, <3>1, NotThere DEF DownloadEffect
  <2>4. CASE r = "lost"
    <3>1. dl' = [dl EXCEPT ![a] = RetryFull(Charged(d))]
      BY <1>6, <2>4 DEF GetFull, Becomes
    <3>2. Good(a, RetryFull(Charged(d))) /\ RetryFull(Charged(d)).pc \in {"full", "index", "failed"}
      BY <1>3, <1>4, <2>1, FullErrors
    <3> QED
      BY <1>3, <2>1, <3>1, <3>2 DEF DownloadEffect
  <2>5. CASE r = "bad"
    <3>1. dl' = [dl EXCEPT ![a] = NextProvider(Charged(d))]
      BY <1>6, <2>5 DEF GetFull, Becomes
    <3>2. Good(a, NextProvider(Charged(d))) /\ NextProvider(Charged(d)).pc \in {"index", "failed"}
      BY <1>3, <1>4, <2>1, FullErrors
    <3> QED
      BY <1>3, <2>1, <3>1, <3>2 DEF DownloadEffect
  <2> QED
    BY <2>2, <2>3, <2>4, <2>5
<1>7. ASSUME NEW r \in {"ok", "whole", "lost", "bad", "no space"}, GetRange(a, r)
      PROVE  \E e : DownloadEffect(a, e)
  <2>1. d.pc = "ranges" /\ litter' \in SUBSET wave
    BY <1>3, <1>7 DEF GetRange
  <2>2. Good(a, Arrived) /\ Arrived.pc = "done"
    BY Beginnings
  <2>3. CASE r = "ok"
    <3> DEFINE f == Append(d.file, Len(d.file) + 1)
    <3>1. RangeWritten(a)
      BY <1>7, <2>3 DEF GetRange
    <3>2. CASE Len(f) = Ranges
      <4>1. dl' = [dl EXCEPT ![a] = Arrived] /\ staged' = [staged EXCEPT ![a] = f]
        BY <3>1, <3>2 DEF RangeWritten, Becomes, Stage
      <4>2. f = Selected
        BY <1>3, <2>1, <3>2, RangeGood
      <4> QED
        BY <2>1, <2>2, <4>1, <4>2 DEF DownloadEffect
    <3>3. CASE Len(f) # Ranges
      <4>1. dl' = [dl EXCEPT ![a] = [d EXCEPT !.file = f]] /\ staged' = staged
        BY <3>1, <3>3 DEF RangeWritten, Becomes
      <4>2. Good(a, [d EXCEPT !.file = f]) /\ [d EXCEPT !.file = f].pc = "ranges"
        BY <1>3, <2>1, <3>3, RangeGood
      <4> QED
        BY <2>1, <4>1, <4>2 DEF DownloadEffect
    <3> QED
      BY <3>2, <3>3
  <2>4. CASE r = "whole"
    <3>1. dl' = [dl EXCEPT ![a] = Arrived] /\ staged' = [staged EXCEPT ![a] = <<Whole>>]
      BY <1>7, <2>4 DEF GetRange, WholeInstead, Becomes, Stage
    <3> QED
      BY <2>1, <2>2, <3>1 DEF DownloadEffect
  <2>5. CASE r = "lost"
    <3>1. dl' = [dl EXCEPT ![a] = RetrySelective(Charged(d))] /\ staged' = staged
      BY <1>7, <2>5 DEF GetRange, Becomes
    <3>2. Good(a, RetrySelective(Charged(d))) /\ RetrySelective(Charged(d)).pc \in {"index", "full"}
      BY <1>3, <1>4, <2>1, SelectiveErrors
    <3> QED
      BY <2>1, <3>1, <3>2 DEF DownloadEffect
  <2>6. CASE r = "bad"
    <3>1. dl' = [dl EXCEPT ![a] = FullInstead(Charged(d))] /\ staged' = staged
      BY <1>7, <2>6 DEF GetRange, Becomes
    <3>2. Good(a, FullInstead(Charged(d))) /\ FullInstead(Charged(d)).pc = "full"
      BY <1>3, <1>4, <2>1, SelectiveErrors
    <3> QED
      BY <2>1, <3>1, <3>2 DEF DownloadEffect
  <2>7. CASE r = "no space"
    <3> DEFINE c == [Charged(d) EXCEPT !.disk = TRUE]
    <3>1. dl' = [dl EXCEPT ![a] = FullInstead(c)] /\ staged' = staged
      BY <1>7, <2>7 DEF GetRange, Becomes
    <3>2. Good(a, FullInstead(c)) /\ FullInstead(c).pc = "full"
      BY <1>3, <1>4, <2>1, SelectiveErrors
    <3> QED
      BY <2>1, <3>1, <3>2 DEF DownloadEffect
  <2> QED
    BY <2>3, <2>4, <2>5, <2>6, <2>7
<1>8. ASSUME NEW r \in {"ok", "lost", "no space"}, GetBody(a, r)
      PROVE  \E e : DownloadEffect(a, e)
  <2>1. d.pc = "body" /\ litter' \in SUBSET wave
    BY <1>3, <1>8 DEF GetBody
  <2>2. CASE r = "ok"
    <3>1. dl' = [dl EXCEPT ![a] = Arrived] /\ staged' = [staged EXCEPT ![a] = <<Whole>>]
      BY <1>8, <2>2 DEF GetBody, Becomes, Stage
    <3>2. Good(a, Arrived) /\ Arrived.pc = "done"
      BY Beginnings
    <3> QED
      BY <2>1, <3>1, <3>2 DEF DownloadEffect
  <2>3. CASE r = "lost"
    <3>1. dl' = [dl EXCEPT ![a] = RetryFull(Charged(d))] /\ staged' = staged
      BY <1>8, <2>3 DEF GetBody, Becomes
    <3>2. Good(a, RetryFull(Charged(d))) /\ RetryFull(Charged(d)).pc \in {"full", "index", "failed"}
      BY <1>3, <1>4, <2>1, FullErrors
    <3> QED
      BY <2>1, <3>1, <3>2 DEF DownloadEffect
  <2>4. CASE r = "no space"
    <3> DEFINE e == [Charged(d) EXCEPT !.pc = "failed", !.file = NoFile, !.disk = TRUE]
    <3>1. dl' = [dl EXCEPT ![a] = e] /\ staged' = staged
      BY <1>8, <2>4 DEF GetBody, Becomes
    <3>2. Good(a, e) /\ e.pc = "failed"
      BY <1>3, <1>4, <2>1, DiskFull
    <3> QED
      BY <2>1, <3>1, <3>2 DEF DownloadEffect
  <2> QED
    BY <2>2, <2>3, <2>4
<1> QED
  BY <1>1, <1>2, <1>5, <1>6, <1>7, <1>8 DEF Download, Active

----------------------------------------------------------------------------
(* The invariant. *)

\* What is published stays published.
LEMMA UpstreamGrows ==
    ASSUME IInv, upstream' \in [Providers -> SUBSET Keys], \A p \in Providers : upstream[p] \subseteq upstream'[p],
           UNCHANGED <<wave, dl, staged, committed>>
    PROVE  WaveSound' /\ DownloadsSound'
<1>1. Complete(upstream["aws"]) \subseteq Complete(upstream'["aws"])
  BY DEF Complete, Providers
<1>2. WaveSound'
  BY <1>1 DEF IInv, WaveSound
<1>3. ASSUME NEW a \in wave PROVE HadSound(a, dl[a])'
  <2>1. HadSound(a, dl[a])
    BY <1>3 DEF IInv, DownloadsSound
  <2> QED
    BY <2>1 DEF HadSound
<1>4. DownloadsSound'
  BY <1>3 DEF IInv, DownloadsSound
<1> QED
  BY <1>2, <1>4

\* Steps that leave the providers alone leave what was promised of them.
LEMMA SameDownloads ==
    ASSUME IInv, UNCHANGED <<upstream, wave, dl, staged, committed>>
    PROVE  WaveSound' /\ DownloadsSound'
<1>1. upstream' \in [Providers -> SUBSET Keys] /\ \A p \in Providers : upstream[p] \subseteq upstream'[p]
  BY DEF IInv, Typed
<1> QED
  BY <1>1, UpstreamGrows

LEMMA InitEstablishes == Init => IInv
<1> SUFFICES ASSUME Init PROVE IInv
  OBVIOUS
<1>1. Typed
  <2>1. upstream \in [Providers -> SUBSET Keys]
    BY DEF Init, Keys, KeysOf
  <2>2. snapshots \in (SUBSET KeysOf(Regions)) \X (SUBSET KeysOf(Regions))
    BY DEF Init
  <2> QED
    BY <2>1, <2>2, NothingYet DEF Init, Typed
<1>2. ListingSound /\ WaveSound /\ DownloadsSound
  BY DEF Init, ListingSound, NoListing, WaveSound, DownloadsSound, Providers
<1> QED
  BY <1>1, <1>2 DEF IInv

LEMMA PublishKeeps ==
    ASSUME IInv, NEW p \in Providers, NEW k \in Keys, Publish(p, k) PROVE IInv'
<1>1. upstream' \in [Providers -> SUBSET Keys] /\ \A q \in Providers : upstream[q] \subseteq upstream'[q]
  BY DEF IInv, Typed, Publish
<1>2. Typed'
  BY <1>1 DEF IInv, Typed, Publish
<1>3. ListingSound'
  BY <1>1 DEF IInv, ListingSound, Publish, Providers
<1> QED
  BY <1>1, <1>2, <1>3, UpstreamGrows DEF IInv, Publish

LEMMA BeginListingKeeps ==
    ASSUME IInv, BeginListing PROVE IInv'
<1> DEFINE l == [NoListing EXCEPT !.pc = "page", !.before = Retained(upstream["aws"])]
<1>1. upstream["aws"] \in SUBSET Keys
  BY DEF IInv, Typed, Providers
<1>2. /\ l \in ListingRecords /\ l.before = Retained(upstream["aws"]) /\ l.seen = {} /\ l.token = 0
  BY <1>1, NothingYet DEF NoListing, ListingRecords, Retained
<1>3. listing' = l /\ UNCHANGED <<upstream, snapshots, wave, dl, staged, litter, committed, directory>>
  BY DEF BeginListing
<1> HIDE DEF l
<1>4. Typed'
  BY <1>2, <1>3 DEF IInv, Typed
<1>5. \A k \in upstream["aws"] : ~(k <= 0)
  <2>1. \A a \in Artifacts : ~(DataKey(a) <= 0) /\ ~(IndexKey(a) <= 0)
    <3>1. \A a \in Artifacts : a \in Nat \ {0}
      OBVIOUS
    <3> QED
      BY <3>1 DEF DataKey, IndexKey
  <2>2. ASSUME NEW k \in upstream["aws"] PROVE ~(k <= 0)
    <3>1. PICK a \in Artifacts : k = DataKey(a) \/ k = IndexKey(a)
      BY <1>1, KeysApart
    <3> QED
      BY <2>1, <3>1
  <2> QED
    BY <2>2
<1>6. snapshots[2] \subseteq KeysOf(Regions)
  BY DEF IInv, Typed
<1>7. ListingSound'
  BY <1>2, <1>3, <1>5, <1>6 DEF IInv, ListingSound, Retained
<1> QED
  BY <1>3, <1>4, <1>7, SameDownloads DEF IInv

\* A page: the listing fails, goes on or is complete, and if it is complete it
\* has seen what was there when it began, and nothing that is not there.
LEMMA ListPageStep ==
    ASSUME IInv, NEW r \in {"ok", "lost", "bad"}, ListPage(r)
    PROVE  /\ listing.pc = "page" /\ UNCHANGED <<upstream, wave, dl, staged, litter, committed, directory>>
           /\ listing' \in ListingRecords
           /\ \/ listing'.pc = "idle" /\ snapshots' = snapshots
              \/ /\ listing'.pc = "page" /\ snapshots' = snapshots /\ listing'.before = listing.before
                 /\ listing'.seen \subseteq upstream["aws"]
                 /\ \A k \in listing.before : k <= listing'.token => k \in listing'.seen
              \/ /\ listing' = NoListing /\ \E seen \in SUBSET upstream["aws"] :
                                                listing.before \subseteq seen /\ snapshots' = <<snapshots[2], Retained(seen)>>
<1>1. listing.pc = "page" /\ UNCHANGED <<upstream, wave, dl, staged, litter, committed, directory>>
  BY DEF ListPage
<1>2. /\ listing \in ListingRecords /\ listing.token \in Nat /\ listing.attempt \in 1..Attempts /\ listing.pages \in 0..MaxPages
      /\ upstream["aws"] \in SUBSET Keys /\ listing.before \subseteq upstream["aws"] /\ listing.seen \subseteq upstream["aws"]
      /\ \A k \in listing.before : k <= listing.token => k \in listing.seen
  BY <1>1 DEF IInv, Typed, ListingSound, ListingRecords, Providers
<1>3. NoListing \in ListingRecords /\ NoListing.pc = "idle"
  BY NothingYet DEF NoListing
<1>4. CASE r = "bad"
  BY <1>1, <1>3, <1>4 DEF ListPage, PageInvalid
<1>5. CASE r = "lost"
  <2>1. PageFailed
    BY <1>5 DEF ListPage
  <2>2. CASE listing.attempt < Attempts
    <3> DEFINE l == [listing EXCEPT !.attempt = listing.attempt + 1]
    <3>1. listing.attempt + 1 \in 1..Attempts
      BY <1>2, <2>2, Numbers
    <3>2. /\ l \in ListingRecords /\ l.pc = "page" /\ l.before = listing.before /\ l.seen = listing.seen
          /\ l.token = listing.token
      BY <1>1, <1>2, <3>1 DEF ListingRecords
    <3>3. listing' = l /\ snapshots' = snapshots
      BY <2>1, <2>2 DEF PageFailed
    <3> HIDE DEF l
    <3> QED
      BY <1>1, <1>2, <3>2, <3>3
  <2>3. CASE ~(listing.attempt < Attempts)
    BY <1>1, <1>3, <2>1, <2>3 DEF PageFailed
  <2> QED
    BY <2>2, <2>3
<1>6. CASE r = "ok"
  <2> DEFINE K == After(listing.token)
             page == PageOf(K)
             seen == listing.seen \cup page
  <2>1. PageListed
    BY <1>6 DEF ListPage
  <2>2. K \in SUBSET Keys /\ page \subseteq K /\ seen \subseteq upstream["aws"]
    BY <1>2 DEF After, PageOf
  <2>3. \A k \in listing.before : k \in listing.seen \/ k \in K
    <3>1. \A k \in listing.before : k \in Nat /\ k \in upstream["aws"]
      BY <1>2, KeysApart
    <3> QED
      BY <1>2, <3>1 DEF After
  <2>4. CASE listing.pages + 1 > MaxPages
    BY <1>1, <1>3, <2>1, <2>4 DEF PageListed
  <2>5. CASE ~(listing.pages + 1 > MaxPages) /\ page # K
    <3> DEFINE l == [listing EXCEPT !.seen = seen, !.token = Max(page), !.pages = listing.pages + 1, !.attempt = 1]
    <3>1. Max(page) \in page /\ \A k \in K : k <= Max(page) => k \in page
      BY <2>2, <2>5, PageIsPrefix
    <3>2. /\ Max(page) \in Nat /\ seen \in SUBSET Keys /\ listing.pages + 1 \in 0..MaxPages /\ 1 \in 1..Attempts
      <4>1. Max(page) \in Keys
        BY <2>2, <3>1
      <4>2. Max(page) \in Nat
        BY <4>1, KeysApart
      <4>3. seen \in SUBSET Keys
        BY <1>2, <2>2
      <4>4. listing.pages + 1 \in 0..MaxPages /\ 1 \in 1..Attempts
        BY <1>2, <2>5, Numbers
      <4> QED
        BY <4>2, <4>3, <4>4
    <3>3. listing' = l /\ snapshots' = snapshots
      BY <2>1, <2>5 DEF PageListed
    <3> HIDE DEF page, seen, K
    <3>4. /\ l \in ListingRecords /\ l.pc = "page" /\ l.before = listing.before /\ l.seen = seen /\ l.token = Max(page)
      BY <1>1, <1>2, <3>2 DEF ListingRecords
    <3> HIDE DEF l
    <3>5. \A k \in listing.before : k <= Max(page) => k \in seen
      BY <2>3, <3>1 DEF seen
    <3> QED
      BY <1>1, <2>2, <3>3, <3>4, <3>5
  <2>6. CASE ~(listing.pages + 1 > MaxPages) /\ page = K
    <3>1. listing' = NoListing /\ snapshots' = <<snapshots[2], Retained(seen)>>
      BY <2>1, <2>6 DEF PageListed
    <3>2. listing.before \subseteq seen
      BY <2>3, <2>6
    <3> QED
      BY <1>1, <1>3, <2>2, <3>1, <3>2
  <2> QED
    BY <2>4, <2>5, <2>6
<1> QED
  BY <1>4, <1>5, <1>6

LEMMA ListPageKeeps ==
    ASSUME IInv, NEW r \in {"ok", "lost", "bad"}, ListPage(r) PROVE IInv'
<1>1. /\ snapshots \in (SUBSET KeysOf(Regions)) \X (SUBSET KeysOf(Regions)) /\ upstream["aws"] \in SUBSET Keys
      /\ snapshots[2] \subseteq listing.before /\ snapshots[2] \subseteq upstream["aws"]
  BY ListPageStep DEF IInv, Typed, ListingSound, Providers
<1>2. snapshots' \in (SUBSET KeysOf(Regions)) \X (SUBSET KeysOf(Regions)) /\ snapshots'[2] \subseteq upstream["aws"]
  BY <1>1, ListPageStep DEF Retained
<1>3. Typed'
  BY <1>2, ListPageStep DEF IInv, Typed
<1>4. ListingSound'
  BY <1>1, <1>2, ListPageStep DEF IInv, ListingSound, NoListing
<1> QED
  BY <1>3, <1>4, ListPageStep, SameDownloads DEF IInv

\* The regions of the leads that are begun are all there.
LEMMA ItemsThere ==
    ASSUME IInv, NEW leads \in SUBSET Horizon, leads \subseteq Available(snapshots[2])
    PROVE  /\ ItemsOf(leads) \subseteq Artifacts /\ ItemsOf(leads) \subseteq ItemsOf(Horizon)
           /\ ItemsOf(leads) \cap Regions \subseteq Complete(upstream["aws"])
<1>1. snapshots[2] \subseteq upstream["aws"]
  BY DEF IInv, ListingSound
<1>2. ASSUME NEW a \in ItemsOf(leads) \cap Regions PROVE a \in Complete(snapshots[2])
  BY DEF ItemsOf, Available, Missing
<1>3. Complete(snapshots[2]) \subseteq Complete(upstream["aws"])
  BY <1>1 DEF Complete
<1> QED
  BY <1>2, <1>3 DEF ItemsOf

LEMMA BeginWaveKeeps ==
    ASSUME IInv, NEW leads \in SUBSET Horizon, BeginWave(leads) PROVE IInv'
<1> DEFINE begun == ItemsOf(leads)
           d(a) == IF IsFirst(a, begun) THEN Start(a) ELSE [NoDownload EXCEPT !.pc = "waiting"]
<1>1. /\ wave' = begun /\ leads \subseteq Available(snapshots[2])
      /\ dl' = [a \in Artifacts |-> IF a \in begun THEN d(a) ELSE NoDownload]
      /\ staged' = [a \in Artifacts |-> NoFile] /\ litter' = {} /\ committed' = {} /\ directory' = TRUE
      /\ UNCHANGED <<upstream, listing, snapshots>>
  BY DEF BeginWave, IsFirst
<1>2. begun \subseteq Artifacts /\ begun \subseteq ItemsOf(Horizon) /\ begun \cap Regions \subseteq Complete(upstream["aws"])
  BY <1>1, ItemsThere
<1>3. \A a \in Artifacts : Good(a, d(a)) /\ d(a).pc \in {"index", "waiting"}
  BY Beginnings
<1> HIDE DEF d, begun
<1>4. dl' \in [Artifacts -> DownloadRecords]
  BY <1>1, <1>3, NothingYet DEF Good
<1>5. Typed'
  <2>1. staged' \in [Artifacts -> {NoFile, Selected, <<Whole>>}] /\ wave' \in SUBSET Artifacts
    BY <1>1, <1>2
  <2> QED
    BY <1>1, <1>4, <2>1 DEF IInv, Typed
<1>6. ListingSound'
  BY <1>1 DEF IInv, ListingSound
<1>7. \A a \in begun : dl'[a] = d(a)
  BY <1>1, <1>2
<1>8. WaveSound'
  <2>1. \A a \in Artifacts \ begun : dl'[a] = NoDownload
    BY <1>1
  <2>2. \A a \in begun : dl'[a].pc \in {"index", "waiting"}
    BY <1>2, <1>3, <1>7
  <2>3. Complete(upstream["aws"])' = Complete(upstream["aws"])
    BY <1>1 DEF Complete
  <2> QED
    BY <1>1, <1>2, <2>1, <2>2, <2>3 DEF WaveSound
<1>9. DownloadsSound'
  BY <1>1, <1>2, <1>3, <1>7 DEF DownloadsSound, HadSound, Good
<1> QED
  BY <1>5, <1>6, <1>8, <1>9 DEF IInv

\* Other downloads of the wave begin, are dropped or stop; staged files stay.
LEMMA WaveGoesOn ==
    ASSUME IInv, UNCHANGED <<upstream, listing, snapshots, wave, staged, committed, directory>>,
           NEW e, dl' = e, e = [a \in Artifacts |-> e[a]],
           \A a \in Artifacts : e[a] = dl[a] \/ (/\ a \in wave /\ Good(a, e[a]) /\ a \notin committed
                                                /\ e[a].pc \notin {"idle", "done"}),
           litter' \in SUBSET wave
    PROVE  IInv'
<1>1. /\ wave \subseteq Artifacts /\ committed \subseteq wave /\ dl \in [Artifacts -> DownloadRecords]
      /\ \A a \in wave : Good(a, dl[a])
  <2>1. wave \subseteq Artifacts /\ committed \subseteq wave /\ dl \in [Artifacts -> DownloadRecords]
    BY DEF IInv, Typed, WaveSound
  <2> QED
    BY <2>1 DEF IInv, DownloadsSound, Good
<1>2. \A a \in Artifacts : dl'[a] = e[a]
  OBVIOUS
<1>3. \A a \in Artifacts : e[a] \in DownloadRecords
  BY <1>1 DEF Good
<1>4. Typed'
  <2>1. dl' \in [Artifacts -> DownloadRecords]
    BY <1>3
  <2> QED
    BY <2>1 DEF IInv, Typed
<1>5. ListingSound'
  BY DEF IInv, ListingSound
<1>6. WaveSound'
  <2>1. Complete(upstream["aws"])' = Complete(upstream["aws"])
    BY DEF Complete
  <2>2. \A a \in Artifacts \ wave : dl'[a] = NoDownload
    BY <1>2 DEF IInv, WaveSound
  <2>3. \A a \in wave : dl'[a].pc # "idle" /\ (dl'[a].pc = "done" => dl[a].pc = "done")
    BY <1>1, <1>2 DEF IInv, WaveSound
  <2>4. \A a \in committed : a \in wave /\ dl'[a].pc = "done"
    BY <1>1, <1>2 DEF IInv, WaveSound
  <2> QED
    BY <2>1, <2>2, <2>3, <2>4 DEF IInv, WaveSound
<1>7. DownloadsSound'
  <2>1. \A a \in wave : Good(a, dl'[a])
    BY <1>1, <1>2
  <2> QED
    BY <2>1 DEF DownloadsSound, HadSound, Good
<1> QED
  BY <1>4, <1>5, <1>6, <1>7 DEF IInv

LEMMA SeedDecodedKeeps ==
    ASSUME IInv, NEW c \in Artifacts, SeedDecoded(c) PROVE IInv'
<1> DEFINE e == [a \in Artifacts |-> IF a \in Waiting THEN Start(a) ELSE dl[a]]
<1>1. /\ dl' = e /\ e = [a \in Artifacts |-> e[a]] /\ committed = {} /\ litter' \in SUBSET wave
      /\ UNCHANGED <<upstream, listing, snapshots, wave, staged, committed, directory>>
  BY DEF SeedDecoded, IsSeed, IInv, Typed
<1>2. \A a \in Artifacts : e[a] = dl[a] \/ (/\ a \in wave /\ Good(a, e[a]) /\ a \notin committed
                                           /\ e[a].pc \notin {"idle", "done"})
  BY <1>1, Beginnings DEF Waiting
<1> HIDE DEF e
<1> QED
  BY <1>1, <1>2, WaveGoesOn

LEMMA SeedUnreadableKeeps ==
    ASSUME IInv, NEW c \in Artifacts, SeedUnreadable(c) PROVE IInv'
<1> DEFINE e == [a \in Artifacts |-> IF a = c THEN [dl[c] EXCEPT !.pc = "dropped"]
                                    ELSE IF IsFirst(a, Waiting) THEN Start(a) ELSE dl[a]]
<1>1. /\ dl' = e /\ e = [a \in Artifacts |-> e[a]] /\ committed = {} /\ litter' \in SUBSET wave
      /\ UNCHANGED <<upstream, listing, snapshots, wave, staged, committed, directory>>
      /\ c \in wave /\ dl[c].pc = "done"
  BY DEF SeedUnreadable, IsSeed, IInv, Typed
<1>2. Good(c, dl[c])
  BY <1>1 DEF IInv, Typed, DownloadsSound, Good
<1>3. Good(c, [dl[c] EXCEPT !.pc = "dropped"]) /\ [dl[c] EXCEPT !.pc = "dropped"].pc = "dropped"
  BY <1>1, <1>2, DroppedGood
<1>4. \A a \in Artifacts : e[a] = dl[a] \/ (/\ a \in wave /\ Good(a, e[a]) /\ a \notin committed
                                           /\ e[a].pc \notin {"idle", "done"})
  BY <1>1, <1>3, Beginnings DEF IsFirst, Waiting
<1> HIDE DEF e
<1> QED
  BY <1>1, <1>4, WaveGoesOn

\* A step of one download.
LEMMA DownloadKeeps ==
    ASSUME IInv, NEW a \in Artifacts, Download(a) PROVE IInv'
<1>1. a \in wave /\ Active(a)
  BY DownloadStep
<1>2. PICK e : DownloadEffect(a, e)
  BY DownloadStep
<1>3. /\ Good(a, e) /\ e.pc \in {"index", "ranges", "full", "body", "done", "failed"}
      /\ dl' = [dl EXCEPT ![a] = e] /\ litter' \in SUBSET wave
      /\ dl \in [Artifacts -> DownloadRecords] /\ staged \in [Artifacts -> {NoFile, Selected, <<Whole>>}]
  BY <1>2 DEF DownloadEffect, IInv, Typed
<1>4. UNCHANGED <<upstream, listing, snapshots, wave, committed, directory>>
  BY DEF Download
<1>5. dl'[a] = e /\ \A b \in Artifacts \ {a} : dl'[b] = dl[b]
  BY <1>3
<1>6. /\ staged' \in [Artifacts -> {NoFile, Selected, <<Whole>>}]
      /\ \A b \in Artifacts \ {a} : staged'[b] = staged[b]
      /\ e.pc = "done" => staged'[a] # NoFile
  BY <1>2, <1>3, StagedKinds DEF DownloadEffect
<1>7. dl' \in [Artifacts -> DownloadRecords]
  BY <1>3 DEF Good
<1>8. Typed'
  BY <1>3, <1>4, <1>6, <1>7 DEF IInv, Typed
<1>9. ListingSound'
  BY <1>4 DEF IInv, ListingSound
<1>10. WaveSound'
  <2>1. a \notin committed
    BY <1>1 DEF IInv, WaveSound, Active
  <2>2. Complete(upstream["aws"])' = Complete(upstream["aws"])
    BY <1>4 DEF Complete
  <2>3. wave \subseteq Artifacts /\ committed \subseteq Artifacts
    BY DEF IInv, Typed
  <2> QED
    BY <1>1, <1>3, <1>4, <1>5, <1>6, <2>1, <2>2, <2>3 DEF IInv, WaveSound
<1>11. DownloadsSound'
  <2>1. wave \subseteq Artifacts
    BY DEF IInv, Typed
  <2>2. ASSUME NEW b \in wave PROVE FileSound(dl'[b]) /\ Paid(dl'[b]) /\ Free(b, dl'[b]) /\ HadSound(b, dl'[b])
    BY <1>3, <1>5, <2>1 DEF IInv, DownloadsSound, Good
  <2> QED
    BY <1>4, <2>2 DEF DownloadsSound, HadSound
<1> QED
  BY <1>8, <1>9, <1>10, <1>11 DEF IInv

LEMMA StopKeeps ==
    ASSUME IInv, Stop PROVE IInv'
<1> DEFINE d(a) == [dl[a] EXCEPT !.pc = "stopped", !.file = NoFile]
           e == [a \in Artifacts |-> IF Active(a) THEN d(a) ELSE dl[a]]
<1>1. /\ dl' = e /\ e = [a \in Artifacts |-> e[a]] /\ litter' \in SUBSET wave
      /\ UNCHANGED <<upstream, listing, snapshots, wave, staged, committed, directory>>
  BY DEF Stop, IInv, Typed
<1>2. ASSUME NEW a \in Artifacts, Active(a)
      PROVE  a \in wave /\ a \notin committed /\ Good(a, d(a)) /\ d(a).pc = "stopped"
  <2>1. a \in wave /\ a \notin committed
    <3>1. dl[a].pc # "idle" /\ dl[a].pc # "done"
      BY <1>2 DEF Active
    <3>2. a \notin wave => dl[a] = NoDownload
      BY DEF IInv, WaveSound
    <3>3. NoDownload.pc = "idle"
      BY DEF NoDownload
    <3> QED
      BY <3>1, <3>2, <3>3 DEF IInv, WaveSound
  <2>2. Good(a, dl[a])
    BY <2>1 DEF IInv, Typed, DownloadsSound, Good
  <2> QED
    BY <1>2, <2>1, <2>2, StoppedGood DEF Active
<1> HIDE DEF d
<1>3. \A a \in Artifacts : e[a] = dl[a] \/ (/\ a \in wave /\ Good(a, e[a]) /\ a \notin committed
                                           /\ e[a].pc \notin {"idle", "done"})
  BY <1>2
<1> HIDE DEF e
<1> QED
  BY <1>1, <1>3, WaveGoesOn

LEMMA FinalizeKeeps ==
    ASSUME IInv, NEW done \in SUBSET Artifacts, Finalize(done) PROVE IInv'
<1>1. /\ committed' = done /\ \A a \in done : a \in wave /\ dl[a].pc = "done"
      /\ UNCHANGED <<upstream, listing, snapshots, wave, dl, staged, litter, directory>>
  BY DEF Finalize
<1>2. Typed' /\ ListingSound'
  BY <1>1 DEF IInv, Typed, ListingSound
<1>3. Complete(upstream["aws"])' = Complete(upstream["aws"])
  BY <1>1 DEF Complete
<1>4. WaveSound'
  BY <1>1, <1>3 DEF IInv, WaveSound
<1>5. DownloadsSound'
  BY <1>1 DEF IInv, DownloadsSound, HadSound
<1> QED
  BY <1>2, <1>4, <1>5 DEF IInv

LEMMA EndWaveKeeps ==
    ASSUME IInv, EndWave PROVE IInv'
<1>1. /\ wave' = {} /\ dl' = [a \in Artifacts |-> NoDownload] /\ litter' = {} /\ committed' = {}
      /\ staged' \in {staged, CleanUp} /\ directory' \in BOOLEAN
      /\ UNCHANGED <<upstream, listing, snapshots>>
  BY DEF EndWave, TidyUp, Abandon
<1>2. staged' \in [Artifacts -> {NoFile, Selected, <<Whole>>}]
  BY <1>1 DEF IInv, Typed, CleanUp
<1>3. dl' \in [Artifacts -> DownloadRecords]
  BY <1>1, NothingYet
<1>4. Typed' /\ ListingSound'
  BY <1>1, <1>2, <1>3 DEF IInv, Typed, ListingSound
<1>5. WaveSound' /\ DownloadsSound'
  BY <1>1 DEF WaveSound, DownloadsSound
<1> QED
  BY <1>4, <1>5 DEF IInv

LEMMA StepKeeps == IInv /\ [Next]_vars => IInv'
<1> SUFFICES ASSUME IInv, [Next]_vars PROVE IInv'
  OBVIOUS
<1>1. CASE UNCHANGED vars
  <2>1. Typed' /\ ListingSound'
    BY <1>1 DEF vars, IInv, Typed, ListingSound
  <2> QED
    BY <1>1, <2>1, SameDownloads DEF vars, IInv
<1>2. CASE Next
  BY <1>2, PublishKeeps, BeginListingKeeps, ListPageKeeps, BeginWaveKeeps, SeedDecodedKeeps, SeedUnreadableKeeps,
     DownloadKeeps, StopKeeps,
     FinalizeKeeps, EndWaveKeeps DEF Next
<1> QED
  BY <1>1, <1>2

----------------------------------------------------------------------------
(* The theorems. *)

\* The state of listing, wave and downloads is as the code knows it.
THEOREM FetchInvariant == Spec => []IInv
BY InitEstablishes, StepKeeps, PTL DEF Spec

\* Whole files only: a destination holds the selected ranges or a whole body or
\* does not exist, and exists once its download is done.  No change of a region
\* goes unseen.  A file that both providers had when its download began is given
\* up only after an error in every request that could have brought it, and
\* without an error nothing of a region is downloaded but the ranges the index
\* selects; only for the means, which no listing shows, is more tried.
THEOREM FetchingSound == Spec => []FetchingIsSound
<1>1. IInv => FetchingIsSound
  <2> SUFFICES ASSUME IInv PROVE FetchingIsSound
    OBVIOUS
  <2>1. TypeOK
    <3>1. \A a \in Artifacts : dl[a].attempt \in 1..Attempts /\ dl[a].hit \in 0..MaxHits
      BY DEF IInv, Typed, DownloadRecords
    <3>2. \A a \in Artifacts : Len(dl[a].file) <= Ranges
      <4>1. ASSUME NEW a \in wave PROVE Len(dl[a].file) <= Ranges
        <5>1. FileSound(dl[a]) /\ dl[a].file \in Seq(Int)
          BY DEF IInv, DownloadsSound, Typed, DownloadRecords
        <5> DEFINE n == Len(dl[a].file)
        <5>2. n \in Nat
          BY <5>1
        <5>3. n < Ranges \/ n = 1
          BY <5>1 DEF FileSound
        <5> HIDE DEF n
        <5>4. n <= Ranges
          BY <5>2, <5>3, Numbers
        <5> QED
          BY <5>4 DEF n
      <4>2. ASSUME NEW a \in Artifacts \ wave PROVE Len(dl[a].file) <= Ranges
        <5>1. dl[a].file = NoFile
          BY DEF IInv, WaveSound, NoDownload
        <5> QED
          BY <5>1, NoFileIs, Numbers
      <4> QED
        BY <4>1, <4>2
    <3>3. listing.pc \in {"idle", "page"} /\ listing.pages \in 0..MaxPages /\ listing.attempt \in 1..Attempts
      BY DEF IInv, Typed, ListingRecords
    <3> QED
      BY <3>1, <3>2, <3>3 DEF IInv, Typed, WaveSound, TypeOK
  <2>2. StagedIsComplete
    <3>1. ASSUME NEW a \in Artifacts, dl[a].pc = "done" PROVE a \in wave
      <4>1. NoDownload.pc = "idle"
        BY DEF NoDownload
      <4> QED
        BY <3>1, <4>1 DEF IInv, WaveSound
    <3> QED
      BY <3>1 DEF IInv, Typed, WaveSound, StagedIsComplete
  <2>3. ChangesAreSeen
    BY FingerprintTells DEF IInv, Typed, ChangesAreSeen
  <2>4. SurvivesErrors
    <3>1. NoDownload.pc = "idle"
      BY DEF NoDownload
    <3> SUFFICES ASSUME NEW a \in Artifacts, dl[a].pc = "failed", ~dl[a].disk
                 PROVE  dl[a].hit >= Cost(dl[a].had, "aws") + Cost(dl[a].had, "nomads")
      BY DEF SurvivesErrors
    <3>2. Paid(dl[a])
      BY <3>1 DEF IInv, WaveSound, DownloadsSound
    <3> QED
      BY <3>2 DEF Paid, Due
  <2>5. NothingMissedUpstream
    <3>1. NoDownload.pc = "idle"
      BY DEF NoDownload
    <3> QED
      BY <3>1 DEF IInv, WaveSound, DownloadsSound, Free, NothingMissedUpstream, Regions
  <2> QED
    BY <2>1, <2>2, <2>3, <2>4, <2>5 DEF FetchingIsSound
<1> QED
  BY <1>1, FetchInvariant, PTL

\* A snapshot of the bucket contains what was there when its listing began and
\* nothing that is not there, however the pages met what was being published
\* and whichever of them failed; what was once complete stays complete.
THEOREM SnapshotsHonest == Spec => SnapshotIsHonest
<1>1. IInv /\ [Next]_vars =>
        [snapshots' # snapshots =>
           /\ snapshots'[1] = snapshots[2]
           /\ listing.before \subseteq snapshots'[2] /\ snapshots'[2] \subseteq upstream["aws"]
           /\ Complete(snapshots[2]) \subseteq Complete(snapshots'[2])]_vars
  <2> SUFFICES ASSUME IInv, Next, snapshots' # snapshots
               PROVE  /\ snapshots'[1] = snapshots[2]
                      /\ listing.before \subseteq snapshots'[2] /\ snapshots'[2] \subseteq upstream["aws"]
                      /\ Complete(snapshots[2]) \subseteq Complete(snapshots'[2])
    BY DEF vars
  <2>1. PICK r \in {"ok", "lost", "bad"} : ListPage(r)
    BY DEF Next, Publish, BeginListing, BeginWave, SeedDecoded, SeedUnreadable, Download, Stop, Finalize, EndWave
  <2>2. PICK seen \in SUBSET upstream["aws"] :
            listing.before \subseteq seen /\ snapshots' = <<snapshots[2], Retained(seen)>>
    BY <2>1, ListPageStep
  <2>3. snapshots[2] \subseteq listing.before /\ listing.before \subseteq KeysOf(Regions)
    BY <2>1, ListPageStep DEF IInv, Typed, ListingSound, ListingRecords
  <2>4. listing.before \subseteq Retained(seen) /\ Retained(seen) \subseteq upstream["aws"]
    BY <2>2, <2>3 DEF Retained
  <2>5. Complete(snapshots[2]) \subseteq Complete(Retained(seen))
    BY <2>3, <2>4 DEF Complete
  <2> QED
    BY <2>2, <2>4, <2>5
<1> QED
  BY <1>1, FetchInvariant, PTL DEF Spec, SnapshotIsHonest

\* A staged file is removed only when its region was committed, and a wave of
\* which everything was committed leaves nothing on the disk.
THEOREM StagingReclaimed == Spec => StagingIsReclaimed
<1>1. IInv /\ [Next]_vars =>
        [wave # {} =>
           /\ \A a \in Artifacts : staged[a] # NoFile /\ staged'[a] = NoFile => a \in committed
           /\ wave' = {} /\ wave = committed => ~directory' \/ litter # {}]_vars
  <2> SUFFICES ASSUME IInv, Next, wave # {}
               PROVE  /\ \A a \in Artifacts : staged[a] # NoFile /\ staged'[a] = NoFile => a \in committed
                      /\ wave' = {} /\ wave = committed => ~directory' \/ litter # {}
    BY DEF vars
  <2>0. wave \subseteq Artifacts /\ \A a \in committed : dl[a].pc = "done"
    BY DEF IInv, Typed, WaveSound
  <2>1. CASE EndWave
    <3>1. \A a \in Artifacts : staged[a] # NoFile /\ staged'[a] = NoFile => a \in committed
      BY <2>1 DEF EndWave, TidyUp, Abandon, CleanUp
    <3>2. ASSUME wave = committed PROVE ~Abandon /\ ~(\E a \in wave : CleanUp[a] # NoFile)
      BY <2>0, <3>2 DEF Abandon, CleanUp
    <3>3. wave = committed => ~directory' \/ litter # {}
      BY <2>1, <3>2 DEF EndWave, TidyUp
    <3> QED
      BY <3>1, <3>3
  <2>2. ASSUME NEW a \in Artifacts, Download(a)
        PROVE  wave' = wave /\ \A b \in Artifacts : staged[b] # NoFile => staged'[b] # NoFile
    <3>1. PICK e : DownloadEffect(a, e)
      BY <2>2, DownloadStep
    <3>2. staged \in [Artifacts -> {NoFile, Selected, <<Whole>>}]
      BY DEF IInv, Typed
    <3> QED
      BY <2>2, <3>1, <3>2, StagedKinds DEF Download, DownloadEffect
  <2>3. CASE UNCHANGED <<wave, staged>>
    BY <2>3
  <2>4. \/ UNCHANGED <<wave, staged>> \/ EndWave \/ \E a \in Artifacts : Download(a)
    BY DEF Next, Publish, BeginListing, ListPage, BeginWave, SeedDecoded, SeedUnreadable, Stop, Finalize
  <2> QED
    BY <2>1, <2>2, <2>3, <2>4
<1> QED
  BY <1>1, FetchInvariant, PTL DEF Spec, StagingIsReclaimed
=============================================================================
