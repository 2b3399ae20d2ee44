---------------------------- MODULE MCPagedReads ----------------------------
(* Every list of up to four entries of three lengths, and longer ones than   *)
(* the queue and the blocklist are read for; two lists of clients and        *)
(* mappings; up to two media sources; every well-formed text of five units,   *)
(* whole and as up to two matches of one character select it.                *)
(* Rooms that fit several entries, and that some entry does not fit.         *)
EXTENDS PagedReads

Seqs(S, n) == UNION {[1 .. k -> S] : k \in 0 .. n}
Some(reads, lists, limits, rooms) == [read : reads, lists : lists, limit : limits, room : rooms]

Texts == {t \in Seqs(Units, 5) : WellFormed(t)}

Matches(t) ==
  {{<<i, IF t[i] = "high" THEN i + 1 ELSE i>> : i \in some} :
     some \in {s \in SUBSET DOMAIN t : Cardinality(s) <= 2 /\ \A i \in s : t[i] # "low"}}

Paged == Texts \cup UNION {{Selected(t, m) : m \in Matches(t)} : t \in Texts}

MCReading ==
  UNION {
    Some(OneList, {<<l>> : l \in Seqs({1, 2, 4}, 4) \cup [1 .. 7 -> {1}]}, {2}, {3, 5}),
    Some({"clients"}, Seqs({1, 2}, 3) \X Seqs({1, 2}, 3), {2}, {6, 8}),
    Some({"media"}, Seqs(Seqs({1, 3}, 2), 2), {2}, {4, 6}),
    Some({"text"}, {<<t>> : t \in Paged}, {1, 3}, {9, 10, 12})}
=============================================================================
