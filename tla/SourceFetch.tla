----------------------------- MODULE SourceFetch -----------------------------
(***************************************************************************)
(* How forecast files get from NOAA to the staging directory.  One process *)
(* lists what the primary bucket has, page by page, while the provider     *)
(* goes on publishing, and then downloads the artifacts of the leads that  *)
(* the listing showed complete: the byte ranges their index selects, or    *)
(* the whole file, from the bucket or from the second provider.            *)
(*                                                                         *)
(* An ensemble has a mean per lead beside its members.  Listings take no   *)
(* notice of it; a wave downloads it nevertheless, ahead of the members.   *)
(*                                                                         *)
(* The content of a file is a sequence of pieces: range 1..Ranges, Whole   *)
(* for a complete body, Torn for the beginning of one.                     *)
(***************************************************************************)
EXTENDS Integers, Sequences, FiniteSets, FiniteSetsExt

CONSTANTS
    Artifacts,   \* forecast files of a cycle, numbered in key order
    Means,       \* the ensemble means among them
    Lead,        \* the lead of each
    Horizon,     \* leads the platform ingests
    Ranges,      \* byte ranges the index of a file selects
    Attempts,    \* DOWNLOAD_RETRIES + 1
    PageSize,    \* keys of a listing page
    MaxPages,    \* _MAX_LIST_PAGES
    Late,        \* bound: artifacts a provider may not have yet when the model begins
    MaxHits      \* bound: errors counted per download, from where on more make no difference

ASSUME SourceFetchAssumption ==
    /\ Artifacts \subseteq Nat \ {0} /\ IsFiniteSet(Artifacts) /\ Means \subseteq Artifacts /\ Late \subseteq Artifacts
    /\ Lead \in [Artifacts -> Nat] /\ Horizon \subseteq Nat
    /\ {Ranges, Attempts, PageSize, MaxPages, MaxHits} \subseteq Nat \ {0} /\ MaxHits >= 4

Providers == {"aws", "nomads"}
Whole == 0
Torn == -1
Selected == [r \in 1..Ranges |-> r]
NoFile == <<-2>>

\* A file and its index, in the order of their keys.
DataKey(a) == 2 * a
IndexKey(a) == 2 * a + 1
KeysOf(S) == {DataKey(a) : a \in S} \cup {IndexKey(a) : a \in S}
Keys == KeysOf(Artifacts)

\* What a snapshot has regions for: the key grammar knows no means.
Regions == Artifacts \ Means
Retained(keys) == keys \cap KeysOf(Regions)

VARIABLES
    upstream,   \* keys each provider shows
    listing,    \* the listing under way
    snapshots,  \* the last two good snapshots, the older one first
    wave,       \* artifacts of the wave under way, or of none
    dl,         \* a download per artifact
    staged,     \* content of each destination file
    litter,     \* destinations with temporary files beside them
    committed,  \* what finalization committed of the wave
    directory   \* the wave's staging directory exists

vars == <<upstream, listing, snapshots, wave, dl, staged, litter, committed, directory>>

NoListing == [pc |-> "idle", seen |-> {}, token |-> 0, pages |-> 0, attempt |-> 1, before |-> {}]
NoDownload == [pc |-> "idle", provider |-> "aws", attempt |-> 1, file |-> NoFile, hit |-> 0, disk |-> FALSE, had |-> {}]

Init ==
    /\ upstream \in [Providers -> {KeysOf(Artifacts \ Late), Keys}]
    /\ listing = NoListing /\ snapshots = <<{}, {}>>
    /\ wave = {} /\ dl = [a \in Artifacts |-> NoDownload]
    /\ staged = [a \in Artifacts |-> NoFile] /\ litter = {} /\ committed = {} /\ directory = FALSE

\* An object appears whole; an index appears after the file it is made from.
Publish(p, k) ==
    /\ k \in Keys \ upstream[p] /\ (k % 2 = 1 => k - 1 \in upstream[p])
    /\ upstream' = [upstream EXCEPT ![p] = @ \cup {k}]
    /\ UNCHANGED <<listing, snapshots, wave, dl, staged, litter, committed, directory>>

----------------------------------------------------------------------------
(* Discovery. *)

\* An artifact can be used once its file and its index are listed.
Complete(keys) == {a \in Regions : {DataKey(a), IndexKey(a)} \subseteq keys}
Incomplete(keys) == {a \in Regions : {DataKey(a), IndexKey(a)} \cap keys # {}} \ Complete(keys)

\* A lead is ingested when no region of it is missing.
Missing(keys, l) == {a \in Regions \ Complete(keys) : Lead[a] = l}
Available(keys) == {l \in {Lead[a] : a \in Complete(keys)} \cap Horizon : Missing(keys, l) = {}}
Fingerprint(keys) == {<<a, DataKey(a) \in keys, IndexKey(a) \in keys>> : a \in Complete(keys) \cup Incomplete(keys)}
PublicationChanged(before, after) == Fingerprint(before) # Fingerprint(after)

BeginListing ==
    /\ listing.pc = "idle" /\ wave = {}
    /\ listing' = [NoListing EXCEPT !.pc = "page", !.before = Retained(upstream["aws"])]
    /\ UNCHANGED <<upstream, snapshots, wave, dl, staged, litter, committed, directory>>

\* The keys after the token, as many as a page holds.
After(token) == {k \in upstream["aws"] : k > token}
PageOf(keys) == {k \in keys : Cardinality({j \in keys : j < k}) < PageSize}

\* Mutant: after the last attempt the pages so far make the snapshot.
PageFailedShort ==
    IF listing.attempt < Attempts
    THEN listing' = [listing EXCEPT !.attempt = @ + 1] /\ UNCHANGED snapshots
    ELSE listing' = NoListing /\ snapshots' = <<snapshots[2], Retained(listing.seen)>>
\* A transport error or a 5xx: the page is asked for again, and after the last
\* attempt the listing is an error and the last good snapshot remains.
PageFailed ==
    /\ listing' = IF listing.attempt < Attempts THEN [listing EXCEPT !.attempt = @ + 1] ELSE NoListing
    /\ UNCHANGED snapshots

PageListed ==
    LET page == PageOf(After(listing.token))
        seen == listing.seen \cup page
        truncated == page # After(listing.token)
    IN  IF listing.pages + 1 > MaxPages
        THEN listing' = NoListing /\ UNCHANGED snapshots
        ELSE IF truncated
        THEN /\ listing' = [listing EXCEPT !.seen = seen, !.token = Max(page), !.pages = @ + 1, !.attempt = 1]
             /\ UNCHANGED snapshots
        ELSE listing' = NoListing /\ snapshots' = <<snapshots[2], Retained(seen)>>

\* Another status, an error document or a page that cannot be read.
PageInvalid == listing' = NoListing /\ UNCHANGED snapshots

ListPage(response) ==
    /\ listing.pc = "page"
    /\ \/ response = "ok" /\ PageListed
       \/ response = "lost" /\ PageFailed
       \/ response = "bad" /\ PageInvalid
    /\ UNCHANGED <<upstream, wave, dl, staged, litter, committed, directory>>

----------------------------------------------------------------------------
(* One download. *)

Active(a) == dl[a].pc \in {"index", "ranges", "full", "body"}
Charged(d) == [d EXCEPT !.hit = IF @ < MaxHits THEN @ + 1 ELSE @]

\* The temporary file is unlinked on the way to each of these.
RetrySelective(d) ==
    IF d.attempt < Attempts THEN [d EXCEPT !.pc = "index", !.attempt = @ + 1, !.file = NoFile]
    ELSE [d EXCEPT !.pc = "full", !.attempt = 1, !.file = NoFile]
FullInstead(d) == [d EXCEPT !.pc = "full", !.attempt = 1, !.file = NoFile]

\* The destination has its file: what it took no longer matters.
Arrived == [NoDownload EXCEPT !.pc = "done"]

\* What DownloadFailedError and UpstreamUnavailableError lead to.
NextProvider(d) ==
    IF d.provider = "aws" THEN [d EXCEPT !.pc = "index", !.provider = "nomads", !.attempt = 1, !.file = NoFile]
    ELSE [d EXCEPT !.pc = "failed", !.file = NoFile]
RetryFull(d) ==
    IF d.attempt < Attempts THEN [d EXCEPT !.pc = "full", !.attempt = @ + 1, !.file = NoFile] ELSE NextProvider(d)

Becomes(a, d) == dl' = [dl EXCEPT ![a] = d]
Stage(a, content) == staged' = [staged EXCEPT ![a] = content]

\* Index missing: no error of anyone.  Lost: a transport error or 5xx.  Bad:
\* another status, an index that cannot be parsed, or a selection that misses a
\* required record or finds two.
GetIndex(a, response) ==
    /\ dl[a].pc = "index"
    /\ \/ /\ response = "ok"
          /\ Becomes(a, IF IndexKey(a) \in upstream[dl[a].provider]
                        THEN [dl[a] EXCEPT !.pc = "ranges", !.file = <<>>] ELSE FullInstead(dl[a]))
       \/ response = "lost" /\ Becomes(a, RetrySelective(Charged(dl[a])))
       \/ response = "bad" /\ Becomes(a, FullInstead(Charged(dl[a])))
    /\ UNCHANGED <<staged, litter>>

\* The next range is checked and written; the last one completes the file, which
\* then replaces the destination.
RangeWritten(a) ==
    LET file == Append(dl[a].file, Len(dl[a].file) + 1)
    IN  IF Len(file) = Ranges
        THEN Becomes(a, Arrived) /\ Stage(a, file)
        ELSE Becomes(a, [dl[a] EXCEPT !.file = file]) /\ UNCHANGED staged

\* Mutant: the body is appended to the ranges written so far.
WholeAppended(a) ==
    /\ Becomes(a, Arrived)
    /\ Stage(a, Append(dl[a].file, Whole))
\* A 200 instead of a 206: its body is the file, the ranges so far are dropped.
WholeInstead(a) ==
    /\ Becomes(a, Arrived)
    /\ Stage(a, <<Whole>>)

GetRange(a, response) ==
    /\ dl[a].pc = "ranges"
    /\ \/ response = "ok" /\ RangeWritten(a) /\ UNCHANGED litter
       \/ response = "whole" /\ WholeInstead(a) /\ UNCHANGED litter
       \/ response = "lost" /\ Becomes(a, RetrySelective(Charged(dl[a]))) /\ UNCHANGED <<staged, litter>>
       \/ response = "bad" /\ Becomes(a, FullInstead(Charged(dl[a]))) /\ UNCHANGED <<staged, litter>>
       \* The body of a 200 does not fit on the disk: its own temporary file stays.
       \/ /\ response = "no space" /\ litter' = litter \cup {a} /\ UNCHANGED staged
          /\ Becomes(a, FullInstead([Charged(dl[a]) EXCEPT !.disk = TRUE]))

\* A missing file and a refused request are final for the provider.
GetFull(a, response) ==
    /\ dl[a].pc = "full"
    /\ \/ /\ response = "ok"
          /\ Becomes(a, IF DataKey(a) \in upstream[dl[a].provider]
                        THEN [dl[a] EXCEPT !.pc = "body", !.file = <<Torn>>] ELSE NextProvider(dl[a]))
       \/ response = "lost" /\ Becomes(a, RetryFull(Charged(dl[a])))
       \/ response = "bad" /\ Becomes(a, NextProvider(Charged(dl[a])))
    /\ UNCHANGED <<staged, litter>>

\* Mutant: the body is written to the destination itself.
GetBodyInPlace(a, response) ==
    /\ dl[a].pc = "body"
    /\ \/ response = "ok" /\ Becomes(a, Arrived) /\ Stage(a, <<Whole>>)
       \/ response = "lost" /\ Becomes(a, RetryFull(Charged(dl[a]))) /\ Stage(a, dl[a].file)
       \/ response = "no space" /\ Becomes(a, [Charged(dl[a]) EXCEPT !.pc = "failed", !.file = NoFile, !.disk = TRUE]) /\ Stage(a, dl[a].file)
    /\ UNCHANGED litter
\* An error of the disk is neither retried nor a reason to try elsewhere.
GetBody(a, response) ==
    /\ dl[a].pc = "body"
    /\ \/ response = "ok" /\ Becomes(a, Arrived) /\ Stage(a, <<Whole>>)
       \/ response = "lost" /\ Becomes(a, RetryFull(Charged(dl[a]))) /\ UNCHANGED staged
       \/ /\ response = "no space" /\ UNCHANGED staged
          /\ Becomes(a, [Charged(dl[a]) EXCEPT !.pc = "failed", !.file = NoFile, !.disk = TRUE])
    /\ UNCHANGED litter

Download(a) ==
    /\ \/ \E r \in {"ok", "lost", "bad"} : GetIndex(a, r) \/ GetFull(a, r)
       \/ \E r \in {"ok", "whole", "lost", "bad", "no space"} : GetRange(a, r)
       \/ \E r \in {"ok", "lost", "no space"} : GetBody(a, r)
    /\ UNCHANGED <<upstream, listing, snapshots, wave, committed, directory>>

----------------------------------------------------------------------------
(* The wave around the downloads. *)

\* A wave has a staging directory of its own, and an item for each region and
\* for the mean of each of its leads.
ItemsOf(leads) == {a \in Artifacts : Lead[a] \in leads}

\* The order of the items: by lead, the mean first, which is also first by key.
Before(a, b) == Lead[a] < Lead[b] \/ (Lead[a] = Lead[b] /\ a < b)
IsFirst(a, S) == a \in S /\ \A b \in S \ {a} : Before(a, b)

Start(a) == [NoDownload EXCEPT !.pc = "index",
                               !.had = ({p \in Providers : DataKey(a) \in upstream[p]} \X {"data"})
                                       \cup ({p \in Providers : IndexKey(a) \in upstream[p]} \X {"index"})]
Waiting == {a \in wave : dl[a].pc = "waiting"}

\* The first item is downloaded alone: its dataset makes or validates the store.
BeginWave(leads) ==
    /\ listing.pc = "idle" /\ wave = {} /\ leads # {} /\ leads \subseteq Available(snapshots[2])
    /\ wave' = ItemsOf(leads)
    /\ dl' = [a \in Artifacts |-> IF IsFirst(a, ItemsOf(leads)) THEN Start(a)
                                  ELSE IF a \in ItemsOf(leads) THEN [NoDownload EXCEPT !.pc = "waiting"]
                                  ELSE NoDownload]
    /\ staged' = [a \in Artifacts |-> NoFile] /\ litter' = {} /\ committed' = {} /\ directory' = TRUE
    /\ UNCHANGED <<upstream, listing, snapshots>>

\* The candidate for the seed is on the disk, and no other item has got as far.
IsSeed(c) ==
    /\ c \in wave /\ dl[c].pc = "done" /\ committed = {}
    /\ \A a \in wave \ {c} : dl[a].pc \in {"waiting", "dropped"}

\* Decoded: the downloads of all other items start.
SeedDecoded(c) ==
    /\ IsSeed(c) /\ Waiting # {}
    /\ dl' = [a \in Artifacts |-> IF a \in Waiting THEN Start(a) ELSE dl[a]]
    /\ UNCHANGED <<upstream, listing, snapshots, wave, staged, litter, committed, directory>>

\* Its values lack their predecessor: the item is dropped, the next one is tried.
SeedUnreadable(c) ==
    /\ IsSeed(c)
    /\ dl' = [a \in Artifacts |-> IF a = c THEN [dl[c] EXCEPT !.pc = "dropped"]
                                  ELSE IF IsFirst(a, Waiting) THEN Start(a) ELSE dl[a]]
    /\ UNCHANGED <<upstream, listing, snapshots, wave, staged, litter, committed, directory>>

\* Cancellation and the end of the process are caught by no handler of the
\* downloads: open temporary files stay.
Stop ==
    /\ wave # {} /\ \E a \in wave : Active(a)
    /\ dl' = [a \in Artifacts |-> IF Active(a) THEN [dl[a] EXCEPT !.pc = "stopped", !.file = NoFile] ELSE dl[a]]
    /\ litter' = litter \cup {a \in wave : dl[a].file # NoFile}
    /\ UNCHANGED <<upstream, listing, snapshots, wave, staged, committed, directory>>

Ended == wave # {} /\ \A a \in wave : ~Active(a)
Stopped == \E a \in wave : dl[a].pc = "stopped"

\* A wave whose tasks were stopped is not finalized, nor is one without a seed.
Finalized == Ended /\ ~Stopped /\ Waiting = {} /\ \E a \in wave : dl[a].pc = "done"
Finalize(done) ==
    /\ Finalized /\ committed = {} /\ done # {} /\ done \subseteq {a \in wave : dl[a].pc = "done"}
    /\ committed' = done
    /\ UNCHANGED <<upstream, listing, snapshots, wave, dl, staged, litter, directory>>

CleanUp == [a \in Artifacts |-> IF a \in committed THEN NoFile ELSE staged[a]]

\* The directory is removed if nothing is left in it; what is left stays, and the
\* next wave has a directory of its own.
TidyUp ==
    /\ Finalized /\ staged' = CleanUp
    /\ directory' = (litter # {} \/ \E a \in wave : CleanUp[a] # NoFile)

\* The seed failed or was the last one, the store or the finalization raised, or
\* the tasks were stopped: all is left as it is.
Abandon == committed = {} /\ directory' = TRUE /\ UNCHANGED staged

EndWave ==
    /\ Ended /\ (TidyUp \/ Abandon)
    /\ wave' = {} /\ dl' = [a \in Artifacts |-> NoDownload] /\ litter' = {} /\ committed' = {}
    /\ UNCHANGED <<upstream, listing, snapshots>>

Next ==
    \/ \E p \in Providers, k \in Keys : Publish(p, k)
    \/ BeginListing
    \/ \E r \in {"ok", "lost", "bad"} : ListPage(r)
    \/ \E leads \in SUBSET Horizon : BeginWave(leads)
    \/ \E c \in Artifacts : SeedDecoded(c) \/ SeedUnreadable(c)
    \/ \E a \in Artifacts : Download(a)
    \/ Stop
    \/ \E done \in SUBSET Artifacts : Finalize(done)
    \/ EndWave

\* The event loop goes on with every download, and with a listing.
Spec == /\ Init /\ [][Next]_vars
        /\ WF_vars(\E r \in {"ok", "lost", "bad"} : ListPage(r))
        /\ \A a \in Artifacts : WF_vars(Download(a))

----------------------------------------------------------------------------
TypeOK ==
    /\ upstream \in [Providers -> SUBSET Keys]
    /\ listing.pc \in {"idle", "page"} /\ listing.pages \in 0..MaxPages /\ listing.attempt \in 1..Attempts
    /\ wave \subseteq ItemsOf(Horizon) /\ litter \subseteq wave /\ committed \subseteq wave
    /\ \A a \in Artifacts : dl[a].attempt \in 1..Attempts /\ dl[a].hit \in 0..MaxHits /\ Len(dl[a].file) <= Ranges

\* A destination is a complete file or does not exist, at every moment, and it
\* exists once its download is done.
StagedIsComplete ==
    \A a \in Artifacts :
        /\ staged[a] \in {NoFile, Selected, <<Whole>>}
        /\ wave # {} /\ dl[a].pc = "done" => staged[a] # NoFile

\* A snapshot has every region that was there when its listing began, and nothing
\* that is not there.  What was once seen complete is never seen incomplete.
SnapshotIsHonest ==
    [][snapshots' # snapshots =>
         /\ snapshots'[1] = snapshots[2]
         /\ listing.before \subseteq snapshots'[2] /\ snapshots'[2] \subseteq upstream["aws"]
         /\ Complete(snapshots[2]) \subseteq Complete(snapshots'[2])]_vars

\* Any new key of a region is publication activity, the first of its two as well;
\* the means are not looked at and show in no fingerprint.
ChangesAreSeen == PublicationChanged(snapshots[1], snapshots[2]) <=> snapshots[1] # snapshots[2]

\* What it takes to lose a file that a provider had: an error in the selective
\* download, if there was an index, and one in the full download.
Cost(had, p) == Cardinality({k \in {"data", "index"} : <<p, "data">> \in had /\ <<p, k>> \in had})
SurvivesErrors ==
    \A a \in Artifacts :
        dl[a].pc = "failed" /\ ~dl[a].disk => dl[a].hit >= Cost(dl[a].had, "aws") + Cost(dl[a].had, "nomads")

\* A wave starts no download of a region whose file or index is not there yet, so
\* that without an error it needs no whole file, asks no second provider and does
\* not fail.  Only the means, which no listing looked at, may do so.
NothingMissedUpstream ==
    \A a \in Regions : dl[a].pc # "idle" /\ dl[a].hit = 0 => dl[a].pc \notin {"full", "failed"} /\ dl[a].provider = "aws"

\* A staged file is removed only when its region was committed, and a wave of
\* which everything was committed leaves nothing on the disk.
StagingIsReclaimed ==
    [][wave # {} =>
         /\ \A a \in Artifacts : staged[a] # NoFile /\ staged'[a] = NoFile => a \in committed
         /\ wave' = {} /\ wave = committed => ~directory' \/ litter # {}]_vars

\* Every download ends, whatever the providers answer, and so does every listing.
DownloadsEnd == \A a \in Artifacts : Active(a) ~> ~Active(a)
\* A listing ends too: pages and attempts are bounded.
ListingsEnd == listing.pc = "page" ~> listing.pc = "idle"

\* Whole files only, none given up while it could be had, no change unseen.
FetchingIsSound ==
    TypeOK /\ StagedIsComplete /\ ChangesAreSeen /\ SurvivesErrors /\ NothingMissedUpstream

\* Snapshots and the staging directory change only as promised, and all ends.
FetchingKeepsPromises == SnapshotIsHonest /\ StagingIsReclaimed /\ DownloadsEnd /\ ListingsEnd
=============================================================================
