--------------------------- MODULE ListedReleases ---------------------------
(***************************************************************************)
(* What mcp services/arr/releases.ts remembers of the releases a search has *)
(* listed, so that grab_release (arr/writes.ts) can say what it sends and   *)
(* send nothing else. A search is kept for a while and read again from the  *)
(* copy; any write drops the copies; the Arr itself forgets a search after  *)
(* half an hour. A search is one step: it takes two minutes at most, and     *)
(* McpWrites has the reads that overlap a write.                            *)
(***************************************************************************)
EXTENDS Integers, Sequences, SequencesExt

CONSTANTS
  Release, Target,
  MaxListed,       \* MAX_LISTED_RELEASES
  ListedFor,       \* LISTED_RELEASE_MINUTES
  ReuseFor,        \* RELEASE_REUSE_MINUTES
  ArrKeepsFor,     \* the Arr's own release cache
  MaxHits,         \* bound on what one search lists
  MaxTime          \* bound on the clock

ASSUME ListedAssumption ==
  /\ MaxListed \in Nat \ {0}
  /\ ReuseFor \in Nat /\ ArrKeepsFor \in Nat /\ ListedFor \in Nat
  /\ ReuseFor < ArrKeepsFor /\ ArrKeepsFor < ListedFor

VARIABLES
  now,
  search,          \* the kept search of each target, or NoSearch
  listed,          \* listedReleases: what the Map holds, in its order
  arrUntil,        \* when the Arr forgets a release
  past,            \* every release ever listed, by when it was listed last
  grabbed          \* the release the last write grabbed, or none

releaseVars == <<now, search, listed, arrUntil, past, grabbed>>

NoSearch == [at |-> -1, hits |-> <<>>]
Nothing == {}

Entry(r, t) == [release |-> r, time |-> t]

(* Map.delete: a Map has a release once.                                    *)
Place(entries, r) == CHOOSE i \in DOMAIN entries : entries[i].release = r
Has(entries, r) == \E i \in DOMAIN entries : entries[i].release = r
Without(entries, r) == IF Has(entries, r) THEN RemoveAt(entries, Place(entries, r)) ELSE entries

(* One listing remembered: at the end of the order, over the oldest.        *)
BugKeepsPlace(entries, r) ==
  IF Has(entries, r)
  THEN [entries EXCEPT ![Place(entries, r)] = Entry(r, now + ListedFor)]
  ELSE Append(IF Len(entries) >= MaxListed THEN Tail(entries) ELSE entries, Entry(r, now + ListedFor))
Remember(entries, r) ==
  LET others == Without(entries, r)
  IN  Append(IF Len(others) >= MaxListed THEN Tail(others) ELSE others, Entry(r, now + ListedFor))

(* The loops over the Map and over what was listed, as functions of how far  *)
(* they have come.                                                         *)
Kept(entries) ==
  LET kept[n \in 0 .. Len(entries)] ==
        IF n = 0 THEN <<>>
        ELSE IF entries[n].time > now THEN Append(kept[n - 1], entries[n]) ELSE kept[n - 1]
  IN  kept
Unexpired(entries) == Kept(entries)[Len(entries)]

Remembered(hits) ==
  LET remembered[n \in 0 .. Len(hits)] ==
        IF n = 0 THEN Unexpired(listed) ELSE Remember(remembered[n - 1], hits[n])
  IN  remembered
RememberReleases(hits) == Remembered(hits)[Len(hits)]

(* listedRelease.                                                          *)
ListedRelease(r) == \E i \in DOMAIN listed : listed[i].release = r /\ listed[i].time > now

-----------------------------------------------------------------------------
ReleasesInit ==
  /\ now = 0 /\ grabbed = Nothing
  /\ search = [t \in Target |-> NoSearch]
  /\ listed = <<>> /\ past = <<>>
  /\ arrUntil = [r \in Release |-> 0]

(* keptRead's copy, while it is young enough.                               *)
BugAgeless(t) == search[t] # NoSearch
StillKept(t) == search[t] # NoSearch /\ search[t].at + ReuseFor > now

(* Every release ever listed, with what is listed now at the end.           *)
Told(hits) ==
  LET told[n \in 0 .. Len(hits)] ==
        IF n = 0 THEN past ELSE Append(Without(told[n - 1], hits[n]), Entry(hits[n], now))
  IN  told

ListsHits(hits) ==
  /\ listed' = RememberReleases(hits)
  /\ past' = Told(hits)[Len(hits)]
  /\ UNCHANGED <<now, grabbed>>

ReadsKept(t) ==
  /\ StillKept(t)
  /\ ListsHits(search[t].hits)
  /\ UNCHANGED <<search, arrUntil>>

(* The Arr searches, and keeps what it found for grabs.                     *)
SearchesAnew(t, hits) ==
  /\ ~ StillKept(t)
  /\ search' = [search EXCEPT ![t] = [at |-> now, hits |-> hits]]
  /\ arrUntil' = [r \in Release |-> IF r \in Range(hits) THEN now + ArrKeepsFor ELSE arrUntil[r]]
  /\ ListsHits(hits)

(* grab_release: a release nothing listed is never sent; the Arr rejects    *)
(* one it has forgotten. Either way a write was tried, which drops the       *)
(* kept searches.                                                          *)
Grabs(r) ==
  /\ ListedRelease(r)
  /\ grabbed' = IF arrUntil[r] > now THEN {r} ELSE Nothing
  /\ search' = [t \in Target |-> NoSearch]
  /\ UNCHANGED <<now, listed, arrUntil, past>>

Passes ==
  /\ now < MaxTime
  /\ now' = now + 1
  /\ UNCHANGED <<search, listed, arrUntil, past, grabbed>>

Hits == {hits \in UNION {[1 .. n -> Release] : n \in 0 .. MaxHits} :
           \A i, j \in DOMAIN hits : hits[i] = hits[j] => i = j}

ReleasesNext ==
  \/ \E t \in Target : ReadsKept(t) \/ \E hits \in Hits : SearchesAnew(t, hits)
  \/ \E r \in Release : Grabs(r)
  \/ Passes

-----------------------------------------------------------------------------
(* What can be grabbed is exactly what was listed within the hour, but for   *)
(* what the newest MaxListed listings pushed out; a listing counts by when   *)
(* it was read last, so a release somebody just read of is never pushed out  *)
(* by older ones (releases.ts:60-66, 84-91, 114-121).                       *)
NewestRemembered ==
  \A i \in DOMAIN past :
    ListedRelease(past[i].release) <=> past[i].time + ListedFor > now /\ Len(past) - i < MaxListed

(* Whatever a read lists, from a kept search too, the Arr still has, and can *)
(* grab (releases.ts:27-32).                                                *)
ListedCanBeGrabbed ==
  [][\A t \in Target : ReadsKept(t) => \A r \in Range(search[t].hits) : arrUntil[r] > now]_releaseVars
=============================================================================
