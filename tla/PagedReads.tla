----------------------------- MODULE PagedReads -----------------------------
(***************************************************************************)
(* Reads whose answer may be longer than one result: mcp tools/results.ts   *)
(* and the reads built on it, and the web page of the host's                *)
(* web/firecrawl.ts. An answer lists what fits and says where it stopped; a *)
(* caller reads on from there. The tools keep nothing between two calls, so *)
(* whether everything is read, once, rests on the arithmetic of each read.  *)
(* What is read stays as it is meanwhile.                                  *)
(*                                                                         *)
(* An entry is its length in characters. Most reads list one list;          *)
(* download_clients two, an item's media one per source. A page of text is  *)
(* a list of UTF-16 units.                                                 *)
(***************************************************************************)
EXTENDS Integers, Sequences, FiniteSets, SequencesExt, FiniteSetsExt

CONSTANTS
  Reading,        \* the reads, each with what it finds, the limit asked for and its room
  MaxListItems,   \* MAX_LIST_ITEMS, and the other limits on how many are listed
  ArrPage,        \* PAGE_SIZE of services/arr/client.ts
  ScanPages,      \* MAX_SCAN_PAGES
  Around          \* the units shown on each side of a match, 400

ASSUME PagingAssumption == {MaxListItems, ArrPage, ScanPages, Around} \subseteq Nat \ {0}

OneList == {"queue", "blocklist", "scores", "history", "children", "people", "jobs"}
Units == {"plain", "control", "high", "low"}

(* A web page is UTF-16: its surrogates come in pairs.                      *)
WellFormed(t) ==
  \A i \in DOMAIN t :
    /\ t[i] = "high" => i < Len(t) /\ t[i + 1] = "low"
    /\ t[i] = "low" => i > 1 /\ t[i - 1] = "high"

(* What a query selects of it: the passages around the matches, merged where *)
(* they touch, with a mark between them (which is one unit here). A passage  *)
(* may begin or end within a pair.                                         *)
Selected(t, matches) ==
  LET near == {i \in DOMAIN t : \E m \in matches : m[1] - Around <= i /\ i <= m[2] + Around}
      part[n \in 0 .. Len(t)] ==
        IF n = 0 THEN <<>>
        ELSE IF n \notin near THEN part[n - 1]
        ELSE part[n - 1] \o (IF part[n - 1] = <<>> \/ n - 1 \in near THEN <<t[n]>> ELSE <<"plain", t[n]>>)
  IN  part[Len(t)]

(* So halves of pairs may be left, but a first half before none.             *)
HalvesApart(t) == \A i \in 1 .. Len(t) - 1 : t[i] = "high" => t[i + 1] # "high"

ASSUME ReadingAssumption ==
  \A r \in Reading :
    /\ r.limit \in Nat \ {0} /\ r.room \in Nat
    /\ \/ r.read \in OneList /\ r.lists \in Seq(Seq(Nat)) /\ Len(r.lists) = 1
       \/ r.read = "clients" /\ r.lists \in Seq(Seq(Nat)) /\ Len(r.lists) = 2
       \/ r.read = "media" /\ r.lists \in Seq(Seq(Nat))
       \/ r.read = "text" /\ r.lists \in Seq(Seq(Units)) /\ Len(r.lists) = 1 /\ HalvesApart(r.lists[1])

VARIABLES
  reading,   \* the read, the lists it finds, the limit and the room of one result
  at,        \* where the next page starts: a list and what to skip of it
  seen,      \* the entries listed so far, as <<list, position>>
  caller     \* reading, over, or refused

pageVars == <<reading, at, seen, caller>>

List(l) == reading.lists[l]
Size(l) == Len(List(l))
Room == reading.room

Least(a, b) == IF a < b THEN a ELSE b
Most(a, b) == IF a > b THEN a ELSE b
OrOne(condition) == IF condition THEN 1 ELSE 0

(* The length of n entries of a list after from.                           *)
Chars(l, from, n) == MapThenSumSet(LAMBDA i : List(l)[i], from + 1 .. from + n)
Entries(l, from, n) == [i \in 1 .. n |-> <<l, from + i>>]

-----------------------------------------------------------------------------
(* results.ts.                                                             *)

Refused == -1

(* Given the counts that fit, and the length of a result for each count.    *)
LargestFitting(fitting) == IF fitting = {} THEN Refused ELSE Max(fitting)

FittingCount(length) ==
  LET count == LargestFitting({c \in DOMAIN length : length[c] <= Room})
  IN  IF count > 0 \/ (count = 0 /\ DOMAIN length = {0}) THEN count ELSE Refused

(* A page, and where it says the rest starts. Saying so takes room too.     *)
PageOf(count, listed, more, next) ==
  [refused |-> count = Refused, listed |-> listed, more |-> more, next |-> next]

BugSkipsAPage(records, total, offset) ==
  LET page == Least(MaxListItems, Most(records - offset, 0))
      more(c) == offset + c < total
      count == FittingCount([c \in 0 .. page |-> Chars(1, offset, c) + OrOne(more(c))])
  IN  PageOf(count, Entries(1, offset, count), more(count), <<1, offset + page>>)
ListResult(records, total, offset) ==
  LET page == Least(MaxListItems, Most(records - offset, 0))
      more(c) == offset + c < total
      count == FittingCount([c \in 0 .. page |-> Chars(1, offset, c) + OrOne(more(c))])
  IN  PageOf(count, Entries(1, offset, count), more(count), <<1, offset + count>>)

-----------------------------------------------------------------------------
(* The reads.                                                              *)

(* The queue is read as one page, whatever the offset.                      *)
QueueRead == ListResult(Least(Size(1), ArrPage), Size(1), at[2])

(* The blocklist is walked to the end of what is asked for, in whole pages. *)
BlocklistRead ==
  LET limit == Least(at[2] + MaxListItems, ScanPages * ArrPage)
      page == Least(limit, ArrPage)
      pages == (limit + page - 1) \div page
  IN  ListResult(Least(Size(1), pages * page), Size(1), at[2])

ScoresRead ==
  LET n == Least(MaxListItems, Size(1) - at[2])
  IN  PageOf(n, Entries(1, at[2], n), at[2] + n < Size(1), <<1, at[2] + n>>)

(* A history page: the rest of a page that was cut is in the same page.     *)
HistoryRead ==
  LET page == at[1]
      first == (page - 1) * reading.limit
      records == Least(reading.limit, Most(Size(1) - first, 0))
      cut(c) == at[2] + c < records
      more(c) == cut(c) \/ (records = reading.limit /\ page * reading.limit < Size(1))
      count == FittingCount([c \in 0 .. records - at[2] |-> Chars(1, first + at[2], c) + OrOne(more(c))])
  IN  PageOf(count, Entries(1, first + at[2], count), more(count),
             IF cut(count) THEN <<page, at[2] + count>> ELSE <<page + 1, 0>>)

(* Jellyfin sends the children from startIndex on; an item's people are cut *)
(* here.                                                                   *)
ChildrenRead == ListResult(Least(Size(1), at[2] + MaxListItems), Size(1), at[2])
PeopleRead == ListResult(Size(1), Size(1), at[2])

(* SABnzbd sends the jobs from start on, and how many there are in all.     *)
JobsRead ==
  LET slots == Least(reading.limit, Most(Size(1) - at[2], 0))
      more(c) == c < Size(1)
      count == FittingCount([c \in 0 .. slots |-> Chars(1, at[2], c) + OrOne(more(c))])
  IN  PageOf(count, Entries(1, at[2], count), more(count), <<1, at[2] + count>>)

(* Clients and path mappings share a result: the mappings are offered half  *)
(* of its room, the clients take what that leaves, the mappings the rest.    *)
ClientsRead ==
  LET clients == Least(MaxListItems, Size(1) - at[1])
      mappings == Least(MaxListItems, Size(2) - at[2])
      chars(c, m) == Chars(1, at[1], c) + OrOne(at[1] + c < Size(1))
                     + Chars(2, at[2], m) + OrOne(at[2] + m < Size(2))
      offered == LargestFitting({m \in 0 .. mappings : 2 * chars(0, m) <= Room + chars(0, 0)})
      c0 == LargestFitting({c \in 0 .. clients : chars(c, Most(offered, 0)) <= Room})
      m0 == LargestFitting({m \in 0 .. mappings : chars(Most(c0, 0), m) <= Room})
      fits == c0 >= Least(1, clients) /\ m0 >= Least(1, mappings)
  IN  PageOf(IF fits THEN c0 ELSE Refused, Entries(1, at[1], c0) \o Entries(2, at[2], m0),
             at[1] + c0 < Size(1) \/ at[2] + m0 < Size(2), <<at[1] + c0, at[2] + m0>>)

(* The sources from at on, the last with as many streams as still fit; none *)
(* with none of its streams, but for one that has none.                     *)
Skipped(l) == IF l = at[1] THEN at[2] ELSE 0
Left(l) == Size(l) - Skipped(l)
Shown(l, c) == IF Size(l) = 0 THEN <<<<l, 0>>>> ELSE Entries(l, Skipped(l), c)

AddSource(listing, l) ==
  LET length(c) == listing.chars + 1 + Chars(l, Skipped(l), c)
      more(c) == c < Left(l) \/ l < Len(reading.lists)
      count == LargestFitting({c \in 0 .. Left(l) : length(c) + OrOne(more(c)) <= Room})
  IN  IF listing.full THEN listing
      ELSE IF count < Least(1, Left(l)) THEN [listing EXCEPT !.full = TRUE]
      ELSE [listed |-> listing.listed \o Shown(l, count), chars |-> length(count),
            full |-> count < Left(l),
            next |-> IF count < Left(l) THEN <<l, Skipped(l) + count>> ELSE <<l + 1, 0>>]

(* By how many sources it has come to.                                     *)
SourcesListed ==
  LET listing[n \in 0 .. Len(reading.lists) - at[1] + 1] ==
        IF n = 0 THEN [listed |-> <<>>, chars |-> 0, full |-> FALSE, next |-> at]
        ELSE AddSource(listing[n - 1], at[1] + n - 1)
  IN  listing

MediaRead ==
  LET sources == Len(reading.lists)
      listing == SourcesListed[sources - at[1] + 1]
  IN  PageOf(IF listing.listed = <<>> /\ at[1] <= sources THEN Refused ELSE 0, listing.listed,
             listing.next[1] <= sources, listing.next)

(* A page of a text, whole or selected, as long as its JSON fits: half a     *)
(* surrogate pair alone is escaped, and so are control characters. A page    *)
(* that would end in the first half of a pair, or in such a half alone, ends *)
(* before it, or one unit after it if that would leave nothing.             *)
Unit(i, first, last) ==
  CASE List(1)[i] = "plain" -> 1
    [] List(1)[i] = "control" -> 6
    [] List(1)[i] = "high" -> IF i < last /\ List(1)[i + 1] = "low" THEN 1 ELSE 6
    [] List(1)[i] = "low" -> IF i > first /\ List(1)[i - 1] = "high" THEN 1 ELSE 6

Json(from, n) ==
  LET chars[k \in 0 .. n] ==
        IF k = 0 THEN 2 ELSE chars[k - 1] + Unit(from + k, from + 1, from + n)
  IN  chars[n]

Shrunk(from) ==
  LET shrunk[n \in 0 .. Least(reading.limit, Size(1) - from)] ==
        IF Json(from, n) <= Room THEN n ELSE shrunk[(n * 8) \div 10]
  IN  shrunk

TextRead ==
  LET from == at[2]
      end == from + Shrunk(from)[Least(reading.limit, Size(1) - from)]
      splits == end < Size(1) /\ end > from /\ List(1)[end] = "high"
      n == end - from + (IF ~ splits THEN 0 ELSE IF end - from = 1 THEN 1 ELSE -1)
  IN  PageOf(IF Room < 10 THEN Refused ELSE n, Entries(1, from, n), from + n < Size(1), <<1, from + n>>)

Page ==
  CASE reading.read = "queue" -> QueueRead
    [] reading.read = "blocklist" -> BlocklistRead
    [] reading.read = "scores" -> ScoresRead
    [] reading.read = "history" -> HistoryRead
    [] reading.read = "children" -> ChildrenRead
    [] reading.read = "people" -> PeopleRead
    [] reading.read = "jobs" -> JobsRead
    [] reading.read = "clients" -> ClientsRead
    [] reading.read = "media" -> MediaRead
    [] reading.read = "text" -> TextRead

-----------------------------------------------------------------------------
PagesInit ==
  /\ reading \in Reading
  /\ at = IF reading.read = "clients" THEN <<0, 0>> ELSE <<1, 0>>
  /\ seen = <<>>
  /\ caller = "reading"

(* A call of the read, and the next one while its answer names one.         *)
ReadsOn ==
  /\ caller = "reading"
  /\ IF Page.refused
     THEN caller' = "refused" /\ UNCHANGED <<at, seen>>
     ELSE /\ seen' = seen \o Page.listed
          /\ at' = Page.next
          /\ caller' = IF Page.more THEN "reading" ELSE "over"
  /\ UNCHANGED reading

PagesSpec == PagesInit /\ [][ReadsOn]_pageVars

-----------------------------------------------------------------------------
(* What the service has.                                                   *)
Everything ==
  UNION {IF Size(l) = 0 /\ reading.read = "media" THEN {<<l, 0>>} ELSE {l} \X (1 .. Size(l))
           : l \in DOMAIN reading.lists}

(* The queue and the blocklist are read no further than this, and the jobs'  *)
(* answers do not say where they end.                                      *)
WithinReach ==
  CASE reading.read = "queue" -> Len(seen) < ArrPage
    [] reading.read = "blocklist" -> Len(seen) < ScanPages * ArrPage
    [] reading.read = "jobs" -> Len(seen) < Size(1)
    [] OTHER -> TRUE

Splits == reading.read = "text" /\ seen # <<>> /\ Last(seen)[2] < Size(1) /\ List(1)[Last(seen)[2]] = "high"

NothingListed == caller = "reading" /\ ~ Page.refused /\ Page.more /\ Page.listed = <<>>

(* Reading on lists every entry once, in order, and comes to an end: each    *)
(* page lists something, none skips or repeats an entry, and none ends       *)
(* within a pair (results.ts:77-101, history.ts:24-69, media.ts:62-69,       *)
(* firecrawl.ts:244-297).                                                  *)
EverythingOnce ==
  /\ \A i, j \in DOMAIN seen : i < j /\ seen[i][1] = seen[j][1] => seen[i][2] < seen[j][2]
  /\ caller = "over" => ToSet(seen) = Everything
  /\ WithinReach => ~ NothingListed
  /\ ~ Splits

(* "A page that lists nothing looks like one a caller can read past, and     *)
(* reading on would return the same page" (results.ts:84-85): there is none. *)
NothingToReadPast == ~ NothingListed
=============================================================================
