--------------------------- MODULE McpServerProofs ---------------------------
(***************************************************************************)
(* What the modules of the MCP server promise that share no variable:       *)
(* McpWrites for any calls, records, readers and restarts, ListedReleases   *)
(* for any releases, limits and times, PagedReads for any lists, limits and  *)
(* rooms. Their loops are recursive functions: UpTo, a least number in other *)
(* words, stands for the induction over how far a loop has come.            *)
(***************************************************************************)
EXTENDS McpWrites, ListedReleases, PagedReads,
        WellFoundedInduction, NaturalsInduction, TLAPS

InCall == {w \in Write : phase[w] \notin {"idle", "done"}}

(* What a call's phase says of its write. *)
Ledger == \A w \in Write :
  /\ phase[w] \in {"idle", "resolving", "resolved", "sent"} =>
       outcome[w] = "none" /\ landed[w] = 0 /\ w \notin pending
  /\ phase[w] \in {"landed", "verifying"} =>
       outcome[w] = "none" /\ landed[w] = 1 /\ w \notin pending
  /\ phase[w] = "done" => outcome[w] # "none"
  /\ w \in pending => outcome[w] = "unknown" /\ landed[w] = 0
  /\ landed[w] <= 1

(* One locked call per record, and its key is taken. *)
Exclusive ==
  /\ \A w \in Locked \cap InCall : target[w] \in activeWriteKeys
  /\ \A w, u \in Locked \cap InCall : target[w] = target[u] => w = u

(* A list shows every write of record k that was answered. *)
Shows(list, k) ==
  \/ list[k] = version[k]
  \/ Unknown(k)
  \/ \E w \in Write : target[w] = k /\ phase[w] \in {"sent", "landed"}

(* A list that may still be kept is as good as a kept one. *)
ListsFresh == \A r \in Reader :
  /\ marks[r] <= writeMarks
  /\ reader[r] = "listed" /\ marks[r] = writeMarks => \A k \in Record : Shows(items[r], k)

KeptFresh == kept # NotKept => \A k \in Record : Shows(kept, k)

ServerInv ==
  /\ TypeOK /\ Ledger /\ HonestOutcome /\ Exclusive /\ WritesWhatItResolved
  /\ ListsFresh /\ KeptFresh

USE ServerAssumption DEF vars, callVars, readVars, service, Key

-----------------------------------------------------------------------------

LEMMA ServerInvInit == Init => ServerInv
  BY DEF Init, ServerInv, TypeOK, Ledger, HonestOutcome, Exclusive, InCall,
         WritesWhatItResolved, ListsFresh, KeptFresh

(* Dropping the reads leaves no copy and makes every read under way too    *)
(* old to be kept.                                                         *)
LEMMA DropIsFresh ==
  ASSUME ServerInv, DropKeptReads, UNCHANGED readVars
  PROVE  ListsFresh' /\ KeptFresh'
  BY DEF ServerInv, TypeOK, ListsFresh, KeptFresh, DropKeptReads

(* A step that keeps versions and unknown outcomes, and ends no write in   *)
(* flight, keeps what lists show.                                          *)
LEMMA QuietIsFresh ==
  ASSUME ServerInv, UNCHANGED <<kept, writeMarks, readVars>>,
         \A k \in Record : \A list : Shows(list, k) => Shows(list, k)'
  PROVE  ListsFresh' /\ KeptFresh'
  BY DEF ServerInv, TypeOK, ListsFresh, KeptFresh

LEMMA RefusesInv ==
  ASSUME ServerInv, NEW w \in Write, Refuses(w)
  PROVE  ServerInv'
<1>1. TypeOK'
  BY DEF Refuses, Busy, ServerInv, TypeOK
<1>2. Ledger'
  BY DEF Refuses, Busy, ServerInv, TypeOK, Ledger
<1>3. HonestOutcome'
  BY DEF Refuses, Busy, ServerInv, TypeOK, Ledger, HonestOutcome
<1>4. Exclusive'
  BY DEF Refuses, Busy, ServerInv, TypeOK, Ledger, Exclusive, InCall
<1>5. WritesWhatItResolved'
  BY DEF Refuses, Busy, ServerInv, TypeOK, Ledger, Exclusive, InCall,
         WritesWhatItResolved, Unknown
<1>6. ListsFresh' /\ KeptFresh'
  <2>1. \A k \in Record : \A list : Shows(list, k) => Shows(list, k)'
    BY DEF Refuses, Busy, ServerInv, TypeOK, Ledger, Shows, Unknown
  <2> QED
    BY <2>1, QuietIsFresh DEF Refuses
<1> QED
  BY <1>1, <1>2, <1>3, <1>4, <1>5, <1>6 DEF ServerInv

LEMMA BeginsInv ==
  ASSUME ServerInv, NEW w \in Write, Begins(w)
  PROVE  ServerInv'
<1>1. TypeOK'
  BY DEF Begins, Busy, ServerInv, TypeOK
<1>2. Ledger'
  BY DEF Begins, Busy, ServerInv, TypeOK, Ledger
<1>3. HonestOutcome'
  BY DEF Begins, Busy, ServerInv, TypeOK, Ledger, HonestOutcome
<1>4. Exclusive'
  BY DEF Begins, Busy, ServerInv, TypeOK, Ledger, Exclusive, InCall
<1>5. WritesWhatItResolved'
  BY DEF Begins, Busy, ServerInv, TypeOK, Ledger, Exclusive, InCall,
         WritesWhatItResolved, Unknown
<1>6. ListsFresh' /\ KeptFresh'
  <2>1. \A k \in Record : \A list : Shows(list, k) => Shows(list, k)'
    BY DEF Begins, Busy, ServerInv, TypeOK, Ledger, Shows, Unknown
  <2> QED
    BY <2>1, QuietIsFresh DEF Begins
<1> QED
  BY <1>1, <1>2, <1>3, <1>4, <1>5, <1>6 DEF ServerInv

LEMMA ResolveFailsInv ==
  ASSUME ServerInv, NEW w \in Write, ResolveFails(w)
  PROVE  ServerInv'
<1>1. TypeOK'
  BY DEF ResolveFails, Answer, ServerInv, TypeOK
<1>2. Ledger'
  BY DEF ResolveFails, Answer, ServerInv, TypeOK, Ledger
<1>3. HonestOutcome'
  BY DEF ResolveFails, Answer, ServerInv, TypeOK, Ledger, HonestOutcome
<1>4. Exclusive'
  BY DEF ResolveFails, Answer, ServerInv, TypeOK, Ledger, Exclusive, InCall
<1>5. WritesWhatItResolved'
  BY DEF ResolveFails, Answer, ServerInv, TypeOK, Ledger, Exclusive, InCall,
         WritesWhatItResolved, Unknown
<1>6. ListsFresh' /\ KeptFresh'
  <2>1. \A k \in Record : \A list : Shows(list, k) => Shows(list, k)'
    BY DEF ResolveFails, Answer, ServerInv, TypeOK, Ledger, Shows, Unknown
  <2> QED
    BY <2>1, QuietIsFresh DEF ResolveFails
<1> QED
  BY <1>1, <1>2, <1>3, <1>4, <1>5, <1>6 DEF ServerInv

LEMMA ResolvesInv ==
  ASSUME ServerInv, NEW w \in Write, Resolves(w)
  PROVE  ServerInv'
<1>1. TypeOK'
  BY DEF Resolves, ServerInv, TypeOK
<1>2. Ledger'
  BY DEF Resolves, ServerInv, TypeOK, Ledger
<1>3. HonestOutcome'
  BY DEF Resolves, ServerInv, TypeOK, Ledger, HonestOutcome
<1>4. Exclusive'
  BY DEF Resolves, ServerInv, TypeOK, Ledger, Exclusive, InCall
<1>5. WritesWhatItResolved'
  BY DEF Resolves, ServerInv, TypeOK, Ledger, Exclusive, InCall,
         WritesWhatItResolved, Unknown
<1>6. ListsFresh' /\ KeptFresh'
  <2>1. \A k \in Record : \A list : Shows(list, k) => Shows(list, k)'
    BY DEF Resolves, ServerInv, TypeOK, Ledger, Shows, Unknown
  <2> QED
    BY <2>1, QuietIsFresh DEF Resolves
<1> QED
  BY <1>1, <1>2, <1>3, <1>4, <1>5, <1>6 DEF ServerInv

LEMMA SendsInv ==
  ASSUME ServerInv, NEW w \in Write, Sends(w)
  PROVE  ServerInv'
<1>1. TypeOK'
  BY DEF Sends, DropKeptReads, ServerInv, TypeOK
<1>2. Ledger'
  BY DEF Sends, DropKeptReads, ServerInv, TypeOK, Ledger
<1>3. HonestOutcome'
  BY DEF Sends, DropKeptReads, ServerInv, TypeOK, Ledger, HonestOutcome
<1>4. Exclusive'
  BY DEF Sends, DropKeptReads, ServerInv, TypeOK, Ledger, Exclusive, InCall
<1>5. WritesWhatItResolved'
  BY DEF Sends, DropKeptReads, ServerInv, TypeOK, Ledger, Exclusive, InCall,
         WritesWhatItResolved, Unknown
<1>6. ListsFresh' /\ KeptFresh'
  BY DropIsFresh DEF Sends
<1> QED
  BY <1>1, <1>2, <1>3, <1>4, <1>5, <1>6 DEF ServerInv

LEMMA LandsInv ==
  ASSUME ServerInv, NEW w \in Write, Lands(w)
  PROVE  ServerInv'
<1>1. TypeOK'
  BY DEF Lands, Reaches, ServerInv, TypeOK
<1>2. Ledger'
  BY DEF Lands, Reaches, ServerInv, TypeOK, Ledger
<1>3. HonestOutcome'
  BY DEF Lands, Reaches, ServerInv, TypeOK, Ledger, HonestOutcome
<1>4. Exclusive'
  BY DEF Lands, Reaches, ServerInv, TypeOK, Ledger, Exclusive, InCall
<1>5. WritesWhatItResolved'
  BY DEF Lands, Reaches, ServerInv, TypeOK, Ledger, Exclusive, InCall,
         WritesWhatItResolved, Unknown
<1>6. ListsFresh' /\ KeptFresh'
  <2>1. \A k \in Record : \A list : Shows(list, k) => Shows(list, k)'
    BY DEF Lands, Reaches, ServerInv, TypeOK, Ledger, Shows, Unknown
  <2> QED
    BY <2>1, QuietIsFresh DEF Lands
<1> QED
  BY <1>1, <1>2, <1>3, <1>4, <1>5, <1>6 DEF ServerInv

LEMMA WrittenInv ==
  ASSUME ServerInv, NEW w \in Write, Written(w)
  PROVE  ServerInv'
<1>1. TypeOK'
  BY DEF Written, DropKeptReads, ServerInv, TypeOK
<1>2. Ledger'
  BY DEF Written, DropKeptReads, ServerInv, TypeOK, Ledger
<1>3. HonestOutcome'
  BY DEF Written, DropKeptReads, ServerInv, TypeOK, Ledger, HonestOutcome
<1>4. Exclusive'
  BY DEF Written, DropKeptReads, ServerInv, TypeOK, Ledger, Exclusive, InCall
<1>5. WritesWhatItResolved'
  BY DEF Written, DropKeptReads, ServerInv, TypeOK, Ledger, Exclusive,
         InCall, WritesWhatItResolved, Unknown
<1>6. ListsFresh' /\ KeptFresh'
  BY DropIsFresh DEF Written
<1> QED
  BY <1>1, <1>2, <1>3, <1>4, <1>5, <1>6 DEF ServerInv

LEMMA RejectedInv ==
  ASSUME ServerInv, NEW w \in Write, Rejected(w)
  PROVE  ServerInv'
<1>1. TypeOK'
  BY DEF Rejected, DropKeptReads, Answer, ServerInv, TypeOK
<1>2. Ledger'
  BY DEF Rejected, DropKeptReads, Answer, ServerInv, TypeOK, Ledger
<1>3. HonestOutcome'
  BY DEF Rejected, DropKeptReads, Answer, ServerInv, TypeOK, Ledger,
         HonestOutcome
<1>4. Exclusive'
  BY DEF Rejected, DropKeptReads, Answer, ServerInv, TypeOK, Ledger,
         Exclusive, InCall
<1>5. WritesWhatItResolved'
  BY DEF Rejected, DropKeptReads, Answer, ServerInv, TypeOK, Ledger,
         Exclusive, InCall, WritesWhatItResolved, Unknown
<1>6. ListsFresh' /\ KeptFresh'
  BY DropIsFresh DEF Rejected
<1> QED
  BY <1>1, <1>2, <1>3, <1>4, <1>5, <1>6 DEF ServerInv

LEMMA LostInv ==
  ASSUME ServerInv, NEW w \in Write, Lost(w)
  PROVE  ServerInv'
<1>1. TypeOK'
  BY DEF Lost, DropKeptReads, Answer, ServerInv, TypeOK
<1>2. Ledger'
  BY DEF Lost, DropKeptReads, Answer, ServerInv, TypeOK, Ledger
<1>3. HonestOutcome'
  BY DEF Lost, DropKeptReads, Answer, ServerInv, TypeOK, Ledger, HonestOutcome
<1>4. Exclusive'
  BY DEF Lost, DropKeptReads, Answer, ServerInv, TypeOK, Ledger, Exclusive,
         InCall
<1>5. WritesWhatItResolved'
  BY DEF Lost, DropKeptReads, Answer, ServerInv, TypeOK, Ledger, Exclusive,
         InCall, WritesWhatItResolved, Unknown
<1>6. ListsFresh' /\ KeptFresh'
  BY DropIsFresh DEF Lost
<1> QED
  BY <1>1, <1>2, <1>3, <1>4, <1>5, <1>6 DEF ServerInv

LEMMA VerifiesInv ==
  ASSUME ServerInv, NEW w \in Write, Verifies(w)
  PROVE  ServerInv'
<1>1. TypeOK'
  BY DEF Verifies, Answer, ServerInv, TypeOK
<1>2. Ledger'
  BY DEF Verifies, Answer, ServerInv, TypeOK, Ledger
<1>3. HonestOutcome'
  BY DEF Verifies, Answer, ServerInv, TypeOK, Ledger, HonestOutcome
<1>4. Exclusive'
  BY DEF Verifies, Answer, ServerInv, TypeOK, Ledger, Exclusive, InCall
<1>5. WritesWhatItResolved'
  BY DEF Verifies, Answer, ServerInv, TypeOK, Ledger, Exclusive, InCall,
         WritesWhatItResolved, Unknown
<1>6. ListsFresh' /\ KeptFresh'
  <2>1. \A k \in Record : \A list : Shows(list, k) => Shows(list, k)'
    BY DEF Verifies, Answer, ServerInv, TypeOK, Ledger, Shows, Unknown
  <2> QED
    BY <2>1, QuietIsFresh DEF Verifies
<1> QED
  BY <1>1, <1>2, <1>3, <1>4, <1>5, <1>6 DEF ServerInv

LEMMA LandsLateInv ==
  ASSUME ServerInv, NEW w \in Write, LandsLate(w)
  PROVE  ServerInv'
<1>1. TypeOK'
  BY DEF LandsLate, Reaches, ServerInv, TypeOK
<1>2. Ledger'
  BY DEF LandsLate, Reaches, ServerInv, TypeOK, Ledger
<1>3. HonestOutcome'
  BY DEF LandsLate, Reaches, ServerInv, TypeOK, Ledger, HonestOutcome
<1>4. Exclusive'
  BY DEF LandsLate, Reaches, ServerInv, TypeOK, Ledger, Exclusive, InCall
<1>5. WritesWhatItResolved'
  BY DEF LandsLate, Reaches, ServerInv, TypeOK, Ledger, Exclusive, InCall,
         WritesWhatItResolved, Unknown
<1>6. ListsFresh' /\ KeptFresh'
  <2>1. \A k \in Record : \A list : Shows(list, k) => Shows(list, k)'
    BY DEF LandsLate, Reaches, ServerInv, TypeOK, Ledger, Shows, Unknown
  <2> QED
    BY <2>1, QuietIsFresh DEF LandsLate
<1> QED
  BY <1>1, <1>2, <1>3, <1>4, <1>5, <1>6 DEF ServerInv

(* A kept list is one that was read while no write started or settled.     *)
LEMMA ReadInv ==
  ASSUME ServerInv, NEW r \in Reader, ReadStep(r)
  PROVE  ServerInv'
<1> UNCHANGED <<activeWriteKeys, writeMarks, callVars, service>>
  BY DEF ReadStep, ReadsService, Lists, Keeps, ReadFails
<1>1. TypeOK'
  BY DEF ReadStep, ReadsService, Lists, Keeps, ReadFails, ServerInv, TypeOK
<1>2. Ledger' /\ HonestOutcome' /\ Exclusive' /\ WritesWhatItResolved'
  BY DEF ServerInv, Ledger, HonestOutcome, Exclusive, InCall,
         WritesWhatItResolved, Unknown
<1>3. \A k \in Record : Shows(version, k)' /\ \A list : Shows(list, k) = Shows(list, k)'
  BY DEF Shows, Unknown
<1>4. ListsFresh'
  BY <1>3 DEF ReadStep, ReadsService, Lists, Keeps, ReadFails, ServerInv,
         TypeOK,
              ListsFresh
<1>5. KeptFresh'
  BY <1>3 DEF ReadStep, ReadsService, Lists, Keeps, ReadFails, ServerInv,
         TypeOK,
              ListsFresh, KeptFresh
<1> QED
  BY <1>1, <1>2, <1>4, <1>5 DEF ServerInv

LEMMA RestartInv ==
  ASSUME ServerInv, Restarts
  PROVE  ServerInv'
<1>1. TypeOK'
  BY DEF Restarts, ServerInv, TypeOK
<1>2. Ledger' /\ HonestOutcome'
  BY DEF Restarts, ServerInv, TypeOK, Ledger, HonestOutcome
<1>3. Exclusive' /\ WritesWhatItResolved'
  BY DEF Restarts, ServerInv, TypeOK, Exclusive, InCall, WritesWhatItResolved
<1>4. ListsFresh' /\ KeptFresh'
  BY DEF Restarts, ListsFresh, KeptFresh
<1> QED
  BY <1>1, <1>2, <1>3, <1>4 DEF ServerInv

LEMMA ServerInvStep == ServerInv /\ [Next]_vars => ServerInv'
<1> SUFFICES ASSUME ServerInv, [Next]_vars PROVE ServerInv'
  OBVIOUS
<1>1. ASSUME NEW w \in Write, CallStep(w) \/ LandsLate(w)
      PROVE  ServerInv'
  BY <1>1, RefusesInv, BeginsInv, ResolveFailsInv, ResolvesInv, SendsInv, LandsInv,
     WrittenInv, RejectedInv, LostInv, VerifiesInv, LandsLateInv
       DEF CallStep, CallEnds
<1>2. ASSUME NEW r \in Reader, ReadStep(r)
      PROVE  ServerInv'
  BY <1>2, ReadInv
<1>3. CASE Expires
  BY <1>3 DEF Expires, ServerInv, TypeOK, Ledger, HonestOutcome, Exclusive,
         InCall,
              WritesWhatItResolved, Unknown, ListsFresh, KeptFresh, Shows
<1>4. CASE Restarts
  BY <1>4, RestartInv
<1>5. CASE UNCHANGED vars
  BY <1>5 DEF ServerInv, TypeOK, Ledger, HonestOutcome, Exclusive, InCall,
              WritesWhatItResolved, Unknown, ListsFresh, KeptFresh, Shows
<1> QED
  BY <1>1, <1>2, <1>3, <1>4, <1>5 DEF Next

THEOREM ServerInvariant == Spec => []ServerInv
<1> QED
  BY ServerInvInit, ServerInvStep, PTL DEF Spec

-----------------------------------------------------------------------------

(* A caller is told what happened to its write.                            *)
THEOREM OutcomesAreHonest == Spec => []HonestOutcome
<1>1. ServerInv => HonestOutcome
  BY DEF ServerInv
<1> QED
  BY <1>1, ServerInvariant, PTL

(* A locked write goes out against the state it resolved, unless a write   *)
(* of its record nobody got an answer to landed meanwhile.                 *)
THEOREM NoLostUpdate == Spec => []WritesWhatItResolved
<1>1. ServerInv => WritesWhatItResolved
  BY DEF ServerInv
<1> QED
  BY <1>1, ServerInvariant, PTL

(* A kept list never hides a write whose caller has its answer.            *)
THEOREM KeptReadsAreFresh == Spec => []KeptShowsAnswered
<1>1. ServerInv => KeptShowsAnswered
  BY DEF ServerInv, KeptFresh, Shows, KeptShowsAnswered
<1> QED
  BY <1>1, ServerInvariant, PTL

-----------------------------------------------------------------------------
(* Induction over the numbers up to a bound: a set that holds 0 and, with   *)
(* each number, the next holds them all.                                   *)
LEMMA UpTo ==
  ASSUME NEW L \in Nat, NEW T, 0 \in T,
         \A n \in 1 .. L : n - 1 \in T => n \in T
  PROVE  \A n \in 0 .. L : n \in T
<1> DEFINE missed == {n \in 0 .. L : n \notin T}
<1> SUFFICES ASSUME missed # {} PROVE FALSE
  OBVIOUS
<1>1. missed \in SUBSET Nat
  OBVIOUS
<1>2. IsWellFoundedOn(OpToRel(<, Nat), Nat)
  BY NatLessThanWellFounded
<1>3. PICK m \in missed : \A t \in missed : ~ (<<t, m>> \in OpToRel(<, Nat))
  BY <1>1, <1>2, WFMin
<1>4. OpToRel(<, Nat) = {ss \in Nat \X Nat : ss[1] < ss[2]}
  BY DEF OpToRel
<1>5. \A t \in missed : ~ (t < m)
  <2> TAKE t \in missed
  <2>1. t \in Nat /\ m \in Nat /\ ~ (<<t, m>> \in OpToRel(<, Nat))
    BY <1>1, <1>3
  <2> QED
    BY <2>1, <1>4
<1>6. m \in 1 .. L /\ m - 1 \in 0 .. L /\ m - 1 < m
  <2>1. m \in 0 .. L /\ m \notin T
    OBVIOUS
  <2>2. m # 0
    BY <2>1
  <2> QED
    BY <2>1, <2>2
<1>7. m - 1 \in T
  BY <1>5, <1>6
<1> QED
  BY <1>3, <1>6, <1>7

HIDE ServerAssumption

(* A loop that goes on from where it has come has a function of how far.    *)
LEMMA LoopExists ==
  ASSUME NEW S, NEW start \in S, NEW L \in Nat, NEW Goes \in [1 .. L -> [S -> S]]
  PROVE  \E f \in [0 .. L -> S] :
           /\ f[0] = start
           /\ \A n \in 1 .. L : f[n] = Goes[n][f[n - 1]]
<1> DEFINE Until(n, f) == f[0] = start /\ \A m \in 1 .. n : f[m] = Goes[m][f[m - 1]]
           T == {n \in 0 .. L : \E f \in [0 .. n -> S] : Until(n, f)}
<1>1. 0 \in T
  <2> DEFINE f == [m \in 0 .. 0 |-> start]
  <2>1. f \in [0 .. 0 -> S] /\ Until(0, f)
    OBVIOUS
  <2>2. \E g \in [0 .. 0 -> S] : Until(0, g)
    <3> HIDE DEF f, Until
    <3> QED
      BY <2>1
  <2> QED
    BY <2>2
<1>2. ASSUME NEW n \in 1 .. L, n - 1 \in T
      PROVE  n \in T
  <2>1. PICK f \in [0 .. n - 1 -> S] : Until(n - 1, f)
    BY <1>2
  <2> DEFINE g == [m \in 0 .. n |-> IF m = n THEN Goes[n][f[n - 1]] ELSE f[m]]
  <2>2. f[n - 1] \in S /\ Goes[n][f[n - 1]] \in S
    OBVIOUS
  <2>3. g \in [0 .. n -> S]
    BY <2>2
  <2>4. g[0] = start
    BY <2>1
  <2>5. ASSUME NEW m \in 1 .. n
        PROVE  g[m] = Goes[m][g[m - 1]]
    <3>1. CASE m = n
      BY <3>1
    <3>2. CASE m # n
      <4>1. m \in 1 .. n - 1 /\ m - 1 \in 0 .. n - 1 /\ m \in 0 .. n /\ m - 1 \in 0 .. n
        BY <3>2
      <4>2. g[m] = f[m] /\ g[m - 1] = f[m - 1]
        BY <4>1, <3>2
      <4> QED
        BY <2>1, <4>1, <4>2
    <3> QED
      BY <3>1, <3>2
  <2>6. \E h \in [0 .. n -> S] : Until(n, h)
    <3> HIDE DEF g
    <3> QED
      BY <2>3, <2>4, <2>5
  <2> QED
    BY <2>6
<1> HIDE DEF T
<1>3. \A n \in 0 .. L : n \in T
  BY <1>1, <1>2, UpTo
<1>4. L \in T
  BY <1>3
<1> QED
  BY <1>4 DEF T

(* What every step of it preserves holds of all it comes to.               *)
LEMMA LoopValues ==
  ASSUME NEW S, NEW L \in Nat, NEW f, f = [n \in 0 .. L |-> f[n]], f[0] \in S,
         \A n \in 1 .. L : f[n - 1] \in S => f[n] \in S
  PROVE  f \in [0 .. L -> S]
<1> DEFINE T == {n \in 0 .. L : f[n] \in S}
<1>1. 0 \in T /\ \A n \in 1 .. L : n - 1 \in T => n \in T
  OBVIOUS
<1> HIDE DEF T
<1>2. \A n \in 0 .. L : n \in T
  BY <1>1, UpTo
<1>3. \A n \in 0 .. L : f[n] \in S
  BY <1>2 DEF T
<1> QED
  BY <1>3

-----------------------------------------------------------------------------
(* A kept search is not from the future, and the Arr keeps what it listed   *)
(* for as long as it keeps any search, counted from then.                  *)
KeptOK ==
  /\ now \in Nat
  /\ arrUntil \in [Release -> Nat]
  /\ search = [t \in Target |-> search[t]]
  /\ \A t \in Target : search[t] # NoSearch =>
       /\ search[t].at \in 0 .. now
       /\ search[t].hits \in Seq(Release)
       /\ \A r \in Range(search[t].hits) :
            r \in Release /\ search[t].at + ArrKeepsFor <= arrUntil[r]

LEMMA HitsAreLists == \A hits \in Hits : hits \in Seq(Release)
<1> TAKE hits \in Hits
<1>1. PICK n \in 0 .. MaxHits : hits \in [1 .. n -> Release]
  BY DEF Hits
<1>2. n \in Nat
  OBVIOUS
<1> QED
  BY <1>1, <1>2

(* Searching anew can only move the Arr's own memory on.                    *)
LEMMA SearchKeepsKept ==
  ASSUME KeptOK, NEW t \in Target, NEW hits \in Hits, SearchesAnew(t, hits)
  PROVE  KeptOK'
<1>1. /\ now' = now
      /\ search' = [search EXCEPT ![t] = [at |-> now, hits |-> hits]]
      /\ arrUntil' = [r \in Release |-> IF r \in Range(hits) THEN now + ArrKeepsFor ELSE arrUntil[r]]
  BY DEF SearchesAnew, ListsHits
<1>2. \A r \in Range(hits) : r \in Release
  BY DEF Hits, Range
<1>3. now \in Nat /\ arrUntil' \in [Release -> Nat]
  BY <1>1, ListedAssumption DEF KeptOK
<1>4. ASSUME NEW u \in Target, search'[u] # NoSearch
      PROVE  /\ search'[u].at \in 0 .. now
             /\ search'[u].hits \in Seq(Release)
             /\ \A r \in Range(search'[u].hits) :
                  r \in Release /\ search'[u].at + ArrKeepsFor <= arrUntil'[r]
  <2>1. CASE search'[u] = [at |-> now, hits |-> hits]
    <3>1. /\ search'[u].at = now /\ search'[u].hits = hits
          /\ hits \in Seq(Release)
      BY <2>1, HitsAreLists
    <3>2. \A r \in Range(hits) : r \in Release /\ arrUntil'[r] = now + ArrKeepsFor
      BY <1>1, <1>2
    <3>3. now \in Nat /\ now \in 0 .. now /\ now + ArrKeepsFor <= now + ArrKeepsFor
      BY <1>1, <1>3, ListedAssumption
    <3> QED
      BY <3>1, <3>2, <3>3
  <2>2. CASE search'[u] = search[u]
    <3>1. /\ search[u].at \in 0 .. now
          /\ search[u].hits \in Seq(Release)
          /\ \A r \in Range(search[u].hits) :
               r \in Release /\ search[u].at + ArrKeepsFor <= arrUntil[r]
      BY <1>4, <2>2 DEF KeptOK
    <3>2. search[u].at + ArrKeepsFor <= now + ArrKeepsFor
      BY <1>3, <3>1, ListedAssumption
    <3> QED
      BY <1>1, <2>2, <3>1, <3>2
  <2>3. search'[u] = IF u = t THEN [at |-> now, hits |-> hits] ELSE search[u]
    BY <1>1 DEF KeptOK
  <2> QED
    BY <2>1, <2>2, <2>3
<1>5. search' = [u \in Target |-> search'[u]]
  BY <1>1 DEF KeptOK
<1> QED
  BY <1>1, <1>3, <1>4, <1>5 DEF KeptOK

LEMMA KeptStep == KeptOK /\ [ReleasesNext]_releaseVars => KeptOK'
<1> SUFFICES ASSUME KeptOK, [ReleasesNext]_releaseVars PROVE KeptOK'
  OBVIOUS
<1>1. ASSUME NEW t \in Target, ReadsKept(t)
      PROVE  KeptOK'
  BY <1>1 DEF ReadsKept, ListsHits, KeptOK
<1>2. ASSUME NEW t \in Target, NEW hits \in Hits, SearchesAnew(t, hits)
      PROVE  KeptOK'
  BY <1>2, SearchKeepsKept
<1>3. ASSUME NEW r \in Release, Grabs(r)
      PROVE  KeptOK'
  BY <1>3 DEF Grabs, KeptOK
<1>4. CASE Passes
  <2>1. now' = now + 1 /\ UNCHANGED <<search, arrUntil>>
    BY <1>4 DEF Passes
  <2>2. now' \in Nat /\ \A n \in 0 .. now : n \in 0 .. now'
    BY <2>1 DEF KeptOK
  <2> QED
    BY <2>1, <2>2 DEF KeptOK
<1>5. CASE UNCHANGED releaseVars
  BY <1>5 DEF releaseVars, KeptOK
<1> QED
  BY <1>1, <1>2, <1>3, <1>4, <1>5 DEF ReleasesNext

(* For any releases, targets and times, as long as a search is reused for     *)
(* less long than the Arr keeps one: what a read lists, from a kept copy too, *)
(* the Arr still has (releases.ts:25-30).                                  *)
THEOREM ListedAreGrabbable ==
  ReleasesInit /\ [][ReleasesNext]_releaseVars => ListedCanBeGrabbed
<1> DEFINE Sound == \A t \in Target : ReadsKept(t) =>
                      \A r \in Range(search[t].hits) : arrUntil[r] > now
<1>1. ReleasesInit => KeptOK
  BY DEF ReleasesInit, KeptOK
<1>2. KeptOK => Sound
  <2> SUFFICES ASSUME KeptOK, NEW t \in Target, ReadsKept(t), NEW r \in Range(search[t].hits)
               PROVE  arrUntil[r] > now
    OBVIOUS
  <2>1. search[t] # NoSearch /\ search[t].at + ReuseFor > now
    BY DEF ReadsKept, StillKept
  <2>2. search[t].at \in 0 .. now /\ search[t].at + ArrKeepsFor <= arrUntil[r]
        /\ arrUntil[r] \in Nat /\ now \in Nat
    BY <2>1 DEF KeptOK
  <2> QED
    BY <2>1, <2>2, ListedAssumption
<1>3. KeptOK /\ [ReleasesNext]_releaseVars => [Sound]_releaseVars
  BY <1>2
<1> QED
  BY <1>1, <1>3, KeptStep, PTL DEF ListedCanBeGrabbed

-----------------------------------------------------------------------------
EntrySet == [release : Release, time : Nat]

LEMMA KeptSteps ==
  ASSUME NEW entries \in Seq(EntrySet)
  PROVE  /\ Kept(entries) \in [0 .. Len(entries) -> Seq(EntrySet)]
         /\ Kept(entries)[0] = <<>>
         /\ \A n \in 1 .. Len(entries) :
              Kept(entries)[n] = IF entries[n].time > now
                                 THEN Append(Kept(entries)[n - 1], entries[n])
                                 ELSE Kept(entries)[n - 1]
<1> DEFINE S == Seq(EntrySet)
           L == Len(entries)
           Goes == [n \in 1 .. L |-> [x \in S |-> IF entries[n].time > now THEN Append(x, entries[n]) ELSE x]]
           Is(f) == f = [n \in 0 .. L |-> IF n = 0 THEN <<>>
                     ELSE IF entries[n].time > now THEN Append(f[n - 1], entries[n]) ELSE f[n - 1]]
<1>1. L \in Nat /\ <<>> \in S
  OBVIOUS
<1>2. Goes \in [1 .. L -> [S -> S]]
  <2> SUFFICES ASSUME NEW n \in 1 .. L, NEW x \in S
               PROVE  (IF entries[n].time > now THEN Append(x, entries[n]) ELSE x) \in S
    OBVIOUS
  <2>1. entries[n] \in EntrySet
    OBVIOUS
  <2> QED
    BY <2>1
<1>3. PICK f \in [0 .. L -> S] : f[0] = <<>> /\ \A n \in 1 .. L : f[n] = Goes[n][f[n - 1]]
  <2> DEFINE start == <<>>
  <2>1. start \in S
    BY <1>1
  <2> HIDE DEF Goes, S, L, start
  <2>2. \E f \in [0 .. L -> S] : f[0] = start /\ \A n \in 1 .. L : f[n] = Goes[n][f[n - 1]]
    <3>1. L \in Nat
      BY <1>1
    <3>2. Goes \in [1 .. L -> [S -> S]]
      BY <1>2
    <3> QED
      BY <2>1, <3>1, <3>2, LoopExists
  <2> QED
    BY <2>2 DEF start
<1>4. \A n \in 1 .. L : f[n] = IF entries[n].time > now THEN Append(f[n - 1], entries[n]) ELSE f[n - 1]
  <2> TAKE n \in 1 .. L
  <2>1. f[n - 1] \in S
    BY <1>1
  <2> QED
    BY <1>3, <2>1
<1>5. Is(f)
  <2>1. f = [n \in 0 .. L |-> f[n]]
    BY <1>3
  <2>2. \A n \in 0 .. L : n # 0 => n \in 1 .. L
    BY <1>1
  <2>3. \A n \in 0 .. L : f[n] = IF n = 0 THEN <<>>
                     ELSE IF entries[n].time > now THEN Append(f[n - 1], entries[n]) ELSE f[n - 1]
    BY <1>3, <1>4, <2>2
  <2> QED
    BY <2>1, <2>3
<1>6. Kept(entries) = CHOOSE g : Is(g)
  BY DEF Kept
<1>7. Is(Kept(entries))
  BY <1>5, <1>6
<1> DEFINE those == Kept(entries)
<1> HIDE DEF those
<1>8. /\ those = [n \in 0 .. L |-> those[n]]
      /\ those[0] = <<>>
      /\ \A n \in 1 .. L : those[n] = IF entries[n].time > now THEN Append(those[n - 1], entries[n]) ELSE those[n - 1]
  <2>1. Is(those)
    BY <1>7 DEF those
  <2>2. 0 \in 0 .. L /\ \A n \in 1 .. L : n \in 0 .. L /\ n # 0
    BY <1>1
  <2> QED
    BY <2>1, <2>2
<1>9. ASSUME NEW n \in 1 .. L, those[n - 1] \in S
      PROVE  those[n] \in S
  <2>1. entries[n] \in EntrySet
    OBVIOUS
  <2>2. those[n - 1] \in S /\ Append(those[n - 1], entries[n]) \in S
    BY <1>9, <2>1
  <2> QED
    BY <1>8, <2>2
<1>10. those \in [0 .. L -> S]
  <2> HIDE DEF S, L
  <2>1. those = [n \in 0 .. L |-> those[n]]
    BY <1>8
  <2>2. L \in Nat /\ those[0] \in S
    BY <1>1, <1>8
  <2>3. \A n \in 1 .. L : those[n - 1] \in S => those[n] \in S
    BY <1>9
  <2> QED
    BY <2>1, <2>2, <2>3, LoopValues
<1> QED
  BY <1>8, <1>10 DEF those

(* Map.delete, position by position.                                       *)
LEMMA DeletedOne ==
  ASSUME NEW s \in Seq(EntrySet), NEW r, Has(s, r)
  PROVE  \E j \in 1 .. Len(s) :
           /\ s[j].release = r
           /\ Without(s, r) \in Seq(EntrySet)
           /\ Len(Without(s, r)) = Len(s) - 1
           /\ \A i \in 1 .. Len(s) - 1 : Without(s, r)[i] = IF i < j THEN s[i] ELSE s[i + 1]
<1> DEFINE j == Place(s, r)
           before == SubSeq(s, 1, j - 1)
           after == SubSeq(s, j + 1, Len(s))
<1>1. j \in 1 .. Len(s) /\ s[j].release = r
  <2>1. DOMAIN s = 1 .. Len(s)
    OBVIOUS
  <2> QED
    BY <2>1 DEF Has, Place
<1> HIDE DEF j
<1>2. Len(s) \in Nat
  OBVIOUS
<1>3. /\ before \in Seq(EntrySet) /\ Len(before) = j - 1
      /\ \A i \in 1 .. j - 1 : before[i] = s[i]
  BY <1>1, <1>2
<1>4. /\ after \in Seq(EntrySet) /\ Len(after) = Len(s) - j
      /\ \A i \in 1 .. Len(s) - j : after[i] = s[i + j]
  BY <1>1, <1>2
<1>5. Without(s, r) = before \o after
  BY DEF Without, RemoveAt, j
<1> HIDE DEF before, after
<1>6. Without(s, r) \in Seq(EntrySet) /\ Len(Without(s, r)) = Len(s) - 1
  <2>1. before \o after \in Seq(EntrySet) /\ Len(before \o after) = Len(before) + Len(after)
    <3>1. before \in Seq(EntrySet) /\ after \in Seq(EntrySet)
      BY <1>3, <1>4
    <3> QED
      BY <3>1
  <2>2. (j - 1) + (Len(s) - j) = Len(s) - 1
    BY <1>1, <1>2
  <2> QED
    BY <2>1, <2>2, <1>3, <1>4, <1>5
<1>7. ASSUME NEW i \in 1 .. Len(s) - 1
      PROVE  Without(s, r)[i] = IF i < j THEN s[i] ELSE s[i + 1]
  <2>1. CASE i < j
    <3>1. i \in 1 .. j - 1
      BY <2>1, <1>1, <1>2
    <3>2. (before \o after)[i] = before[i]
      BY <3>1, <1>3, <1>4
    <3> QED
      BY <3>1, <3>2, <1>3, <1>5, <2>1
  <2>2. CASE ~ (i < j)
    <3>1. i - (j - 1) \in 1 .. Len(s) - j /\ i - (j - 1) + j = i + 1
      BY <2>2, <1>1, <1>2
    <3>2. (before \o after)[i] = after[i - (j - 1)]
      <4>1. before \in Seq(EntrySet) /\ after \in Seq(EntrySet)
        BY <1>3, <1>4
      <4>2. Len(before) = j - 1 /\ Len(after) = Len(s) - j
        BY <1>3, <1>4
      <4>3. i \in Len(before) + 1 .. Len(before) + Len(after)
        BY <2>2, <1>1, <1>2, <4>2
      <4>4. (before \o after)[i] = after[i - Len(before)]
        BY <4>1, <4>3
      <4> QED
        BY <4>2, <4>4
    <3> QED
      BY <3>1, <3>2, <1>4, <1>5, <2>2
  <2> QED
    BY <2>1, <2>2
<1> QED
  BY <1>1, <1>6, <1>7

(* A listing moved to the end, or added there.                             *)
MovedToEnd(s, r, e, j, t) ==
  LET n == IF j <= Len(s) THEN Len(s) - 1 ELSE Len(s)
  IN  /\ t \in Seq(EntrySet) /\ Len(t) = n + 1
      /\ \A i \in 1 .. n : t[i] = IF i < j THEN s[i] ELSE s[i + 1]
      /\ t[n + 1] = e
      /\ IF j <= Len(s) THEN s[j].release = r ELSE \A i \in 1 .. Len(s) : s[i].release # r

LEMMA DeletedAndAdded ==
  ASSUME NEW s \in Seq(EntrySet), NEW r, NEW e \in EntrySet
  PROVE  \E j \in 1 .. Len(s) + 1 : MovedToEnd(s, r, e, j, Append(Without(s, r), e))
<1>0. Len(s) \in Nat /\ DOMAIN s = 1 .. Len(s)
  OBVIOUS
<1>1. CASE Has(s, r)
  <2>1. PICK j \in 1 .. Len(s) :
          /\ s[j].release = r
          /\ Without(s, r) \in Seq(EntrySet)
          /\ Len(Without(s, r)) = Len(s) - 1
          /\ \A i \in 1 .. Len(s) - 1 : Without(s, r)[i] = IF i < j THEN s[i] ELSE s[i + 1]
    BY <1>1, DeletedOne
  <2> DEFINE w == Without(s, r)
  <2> HIDE DEF w
  <2>2. w \in Seq(EntrySet) /\ Len(w) = Len(s) - 1
        /\ \A i \in 1 .. Len(s) - 1 : w[i] = IF i < j THEN s[i] ELSE s[i + 1]
    BY <2>1 DEF w
  <2>3. /\ Append(w, e) \in Seq(EntrySet) /\ Len(Append(w, e)) = Len(s)
        /\ \A i \in 1 .. Len(s) - 1 : Append(w, e)[i] = w[i]
        /\ Append(w, e)[Len(s)] = e
    <3>1. w \in Seq(EntrySet) /\ Len(w) = Len(s) - 1
      BY <2>2
    <3>2. /\ Append(w, e) \in Seq(EntrySet) /\ Len(Append(w, e)) = Len(w) + 1
          /\ \A i \in 1 .. Len(w) : Append(w, e)[i] = w[i]
          /\ Append(w, e)[Len(w) + 1] = e
      BY <3>1
    <3>3. Len(w) + 1 = Len(s)
      BY <1>0, <3>1
    <3> QED
      BY <3>1, <3>2, <3>3
  <2>4. MovedToEnd(s, r, e, j, Append(w, e)) /\ j \in 1 .. Len(s) + 1
    BY <1>0, <2>1, <2>2, <2>3 DEF MovedToEnd
  <2> QED
    BY <2>4 DEF w
<1>2. CASE ~ Has(s, r)
  <2>1. Without(s, r) = s /\ \A i \in 1 .. Len(s) : s[i].release # r
    BY <1>0, <1>2 DEF Without, Has
  <2>2. /\ Append(s, e) \in Seq(EntrySet) /\ Len(Append(s, e)) = Len(s) + 1
        /\ \A i \in 1 .. Len(s) : Append(s, e)[i] = s[i]
        /\ Append(s, e)[Len(s) + 1] = e
    OBVIOUS
  <2>3. MovedToEnd(s, r, e, Len(s) + 1, Append(s, e)) /\ Len(s) + 1 \in 1 .. Len(s) + 1
    BY <1>0, <2>1, <2>2 DEF MovedToEnd
  <2> QED
    BY <2>1, <2>3
<1> QED
  BY <1>1, <1>2

(* What is remembered is the end of what was ever listed; what it lacks has *)
(* expired or has MaxListed later listings after it.                       *)
MemoryOf(p, l) ==
  LET gone == Len(p) - Len(l)
  IN  /\ p \in Seq(EntrySet) /\ l \in Seq(EntrySet)
      /\ Len(l) <= MaxListed /\ Len(l) <= Len(p)
      /\ \A i, k \in 1 .. Len(p) : i < k => p[i].release # p[k].release /\ p[i].time <= p[k].time
      /\ \A i \in 1 .. Len(p) : p[i].time <= now
      /\ \A i \in 1 .. Len(l) : l[i] = Entry(p[gone + i].release, p[gone + i].time + ListedFor)
      /\ \A i \in 1 .. gone : p[i].time + ListedFor <= now \/ Len(p) - i >= MaxListed

(* Two sequences of one length with the same entries are the same.         *)
LEMMA SameEntries ==
  ASSUME NEW S, NEW s \in Seq(S), NEW t \in Seq(S), Len(s) = Len(t),
         \A i \in 1 .. Len(s) : s[i] = t[i]
  PROVE  s = t
  OBVIOUS

(* The oldest can go before the newest comes as well as after.             *)
LEMMA TailOfAppend ==
  ASSUME NEW S, NEW s \in Seq(S), NEW e \in S, s # <<>>
  PROVE  Tail(Append(s, e)) = Append(Tail(s), e)
<1>1. Tail(s) \in Seq(S) /\ Append(s, e) \in Seq(S) /\ Append(s, e) # <<>>
  OBVIOUS
<1>2. Append(Tail(s), e) \in Seq(S) /\ Tail(Append(s, e)) \in Seq(S)
  BY <1>1
<1>3. Len(Append(Tail(s), e)) = Len(s) /\ Len(Tail(Append(s, e))) = Len(s)
  BY <1>1
<1>4. \A i \in 1 .. Len(s) : Append(Tail(s), e)[i] = Tail(Append(s, e))[i]
  BY <1>1
<1> QED
  BY <1>2, <1>3, <1>4, SameEntries

(* Remember, as what is added to what is left.                             *)
LEMMA RememberedAtEnd ==
  ASSUME NEW l \in Seq(EntrySet), NEW r \in Release, now \in Nat, Len(l) <= MaxListed
  PROVE  \E j \in 1 .. Len(l) + 1, t \in Seq(EntrySet) :
           /\ MovedToEnd(l, r, Entry(r, now + ListedFor), j, t)
           /\ Remember(l, r) = IF Len(t) > MaxListed THEN Tail(t) ELSE t
<1> DEFINE e == Entry(r, now + ListedFor)
           w == Without(l, r)
           t == Append(w, e)
<1>1. e \in EntrySet
  BY ListedAssumption DEF Entry, EntrySet
<1> HIDE DEF e
<1>2. PICK j \in 1 .. Len(l) + 1 : MovedToEnd(l, r, e, j, t)
  BY <1>1, DeletedAndAdded
<1>3. w \in Seq(EntrySet)
  <2>1. CASE Has(l, r)
    BY <2>1, DeletedOne
  <2>2. CASE ~ Has(l, r)
    BY <2>2 DEF Without
  <2> QED
    BY <2>1, <2>2
<1>4. Remember(l, r) = Append(IF Len(w) >= MaxListed THEN Tail(w) ELSE w, e)
  BY DEF Remember, e
<1> HIDE DEF w
<1>5. t \in Seq(EntrySet) /\ Len(t) = Len(w) + 1 /\ Len(w) \in Nat
  BY <1>1, <1>3
<1>6. CASE Len(w) >= MaxListed
  <2>1. w # <<>> /\ Len(w) >= 1
    BY <1>3, <1>6, <1>5, ListedAssumption
  <2>2. Append(Tail(w), e) = Tail(Append(w, e))
    BY <1>1, <1>3, <2>1, TailOfAppend
  <2>3. Remember(l, r) = Tail(t) /\ Len(t) > MaxListed
    BY <1>4, <1>5, <1>6, <2>2, ListedAssumption
  <2> QED
    BY <1>2, <1>5, <2>3 DEF e
<1>7. CASE ~ (Len(w) >= MaxListed)
  <2>1. Remember(l, r) = t /\ ~ (Len(t) > MaxListed)
    BY <1>4, <1>5, <1>7, ListedAssumption
  <2> QED
    BY <1>2, <1>5, <2>1 DEF e
<1> QED
  BY <1>6, <1>7


(* One listing more keeps it so.                                           *)
LEMMA RememberKeeps ==
  ASSUME NEW p, NEW l, NEW r \in Release, now \in Nat, MemoryOf(p, l)
  PROVE  MemoryOf(Append(Without(p, r), Entry(r, now)), Remember(l, r))
<1> DEFINE q == Append(Without(p, r), Entry(r, now))
           m == Remember(l, r)
<1>1. p \in Seq(EntrySet) /\ l \in Seq(EntrySet)
  BY DEF MemoryOf
<1>2. PICK j \in 1 .. Len(p) + 1 : MovedToEnd(p, r, Entry(r, now), j, q)
  BY <1>1, DeletedAndAdded DEF EntrySet, Entry
<1>3. PICK h \in 1 .. Len(l) + 1, t \in Seq(EntrySet) :
         /\ MovedToEnd(l, r, Entry(r, now + ListedFor), h, t)
         /\ m = IF Len(t) > MaxListed THEN Tail(t) ELSE t
  <2>1. Len(l) <= MaxListed
    BY DEF MemoryOf
  <2> QED
    BY <1>1, <2>1, RememberedAtEnd
<1> HIDE DEF q, m
<1> DEFINE P == Len(p)
           N == Len(l)
           Q == Len(q)
           T == Len(t)
           gone == P - N
           g == Q - T
<1>4. P \in Nat /\ N \in Nat /\ N <= MaxListed /\ N <= P
      /\ MaxListed \in Nat /\ MaxListed > 0 /\ ListedFor \in Nat
  <2>1. Len(l) <= MaxListed /\ Len(l) <= Len(p)
    BY DEF MemoryOf
  <2> QED
    BY <1>1, <2>1, ListedAssumption
<1>5. j \in 1 .. P + 1 /\ h \in 1 .. N + 1 /\ j \in Nat /\ h \in Nat
  BY <1>4
<1>6. Q = (IF j <= P THEN P ELSE P + 1) /\ T = (IF h <= N THEN N ELSE N + 1)
  BY <1>2, <1>3, <1>4 DEF MovedToEnd
<1>7. /\ \A i \in 1 .. Q - 1 : q[i] = IF i < j THEN p[i] ELSE p[i + 1]
      /\ q[Q] = Entry(r, now)
  <2>1. MovedToEnd(p, r, Entry(r, now), j, q)
    BY <1>2
  <2>2. P \in Nat /\ Q = (IF j <= P THEN P ELSE P + 1) /\ Q - 1 = (IF j <= P THEN P - 1 ELSE P)
    BY <1>4, <1>6
  <2> QED
    BY <2>1, <2>2 DEF MovedToEnd
<1>8. /\ \A i \in 1 .. T - 1 : t[i] = IF i < h THEN l[i] ELSE l[i + 1]
      /\ t[T] = Entry(r, now + ListedFor)
  <2>1. MovedToEnd(l, r, Entry(r, now + ListedFor), h, t)
    BY <1>3
  <2>2. N \in Nat /\ T = (IF h <= N THEN N ELSE N + 1) /\ T - 1 = (IF h <= N THEN N - 1 ELSE N)
    BY <1>4, <1>6
  <2> QED
    BY <2>1, <2>2 DEF MovedToEnd
<1>9. /\ j <= P => j \in 1 .. P /\ p[j].release = r
      /\ ~ (j <= P) => \A i \in 1 .. P : p[i].release # r
  BY <1>2, <1>5 DEF MovedToEnd
<1>10. /\ h <= N => h \in 1 .. N /\ l[h].release = r
       /\ ~ (h <= N) => \A i \in 1 .. N : l[i].release # r
  BY <1>3, <1>5 DEF MovedToEnd
<1>11. \A i, k \in 1 .. P : i < k => p[i].release # p[k].release /\ p[i].time <= p[k].time
  BY DEF MemoryOf
<1>12. \A i \in 1 .. P : p[i].time <= now
  BY DEF MemoryOf
<1>13. \A i \in 1 .. N : l[i] = Entry(p[gone + i].release, p[gone + i].time + ListedFor)
  BY DEF MemoryOf
<1>24. \A i \in 1 .. N : l[i].release = p[gone + i].release
  <2> TAKE i \in 1 .. N
  <2>1. l[i] = Entry(p[gone + i].release, p[gone + i].time + ListedFor)
    BY <1>13
  <2> QED
    BY <2>1 DEF Entry
<1>14. \A i \in 1 .. gone : p[i].time + ListedFor <= now \/ P - i >= MaxListed
  BY DEF MemoryOf
<1>15. q \in Seq(EntrySet) /\ Q \in Nat /\ T \in Nat
  BY <1>2, <1>4, <1>6 DEF MovedToEnd
<1> HIDE DEF P, N, Q, T
(* Where it was in the one is where it was in the other.                   *)
<1>16. \/ h <= N /\ j = gone + h /\ Q = P /\ T = N
       \/ h = N + 1 /\ j = P + 1 /\ Q = P + 1 /\ T = N + 1
       \/ h = N + 1 /\ j <= gone /\ Q = P /\ T = N + 1
  <2>1. CASE h <= N
    <3>1. gone + h \in 1 .. P
      BY <1>4, <1>10, <2>1
    <3>2. l[h].release = r /\ p[gone + h].release = r
      BY <1>10, <1>24, <2>1
    <3>3. j \in 1 .. P /\ p[j].release = r
      BY <3>1, <3>2, <1>9
    <3>4. ~ (j < gone + h) /\ ~ (gone + h < j)
      BY <3>1, <3>2, <3>3, <1>11
    <3> HIDE DEF gone
    <3>5. j = gone + h
      BY <3>1, <3>3, <3>4
    <3> QED
      BY <3>3, <3>5, <1>4, <1>6, <2>1
  <2>2. CASE ~ (h <= N)
    <3>1. \A i \in 1 .. N : l[i].release # r
      BY <1>10, <2>2
    <3>2. ASSUME j > gone, j <= P
          PROVE  FALSE
      <4>1. j - gone \in 1 .. N /\ gone + (j - gone) = j
        BY <1>4, <1>5, <3>2
      <4>2. l[j - gone].release = p[gone + (j - gone)].release
        BY <4>1, <1>24
      <4> QED
        BY <3>1, <3>2, <4>1, <4>2, <1>9
    <3>3. h = N + 1 /\ (j <= gone \/ j = P + 1)
      BY <1>4, <1>5, <2>2, <3>2
    <3> QED
      BY <3>3, <1>4, <1>6
  <2> QED
    BY <2>1, <2>2
<1>17. ASSUME NEW i \in 1 .. Q, NEW k \in 1 .. Q, i < k
       PROVE  q[i].release # q[k].release /\ q[i].time <= q[k].time
  <2>1. PICK a \in 1 .. P : q[i] = p[a] /\ a # j /\ a = IF i < j THEN i ELSE i + 1
    <3>1. i \in 1 .. Q - 1 /\ (i < j => i \in 1 .. P) /\ (~ (i < j) => i + 1 \in 1 .. P)
      BY <1>4, <1>5, <1>15, <1>16, <1>17
    <3>2. q[i] = IF i < j THEN p[i] ELSE p[i + 1]
      BY <1>7, <3>1
    <3> QED
      BY <3>1, <3>2, <1>5
  <2>2. CASE k < Q
    <3>1. k \in 1 .. Q - 1 /\ (k < j => k \in 1 .. P) /\ (~ (k < j) => k + 1 \in 1 .. P)
      BY <1>4, <1>5, <1>15, <1>16, <2>2
    <3>2. q[k] = IF k < j THEN p[k] ELSE p[k + 1]
      BY <1>7, <3>1
    <3>3. PICK b \in 1 .. P : q[k] = p[b] /\ a < b
      BY <3>1, <3>2, <2>1, <1>5, <1>17
    <3> QED
      BY <2>1, <3>3, <1>11
  <2>3. CASE k = Q
    <3>1. q[k].release = r /\ q[k].time = now
      BY <1>7, <2>3 DEF Entry
    <3>2. p[a].release # r
      <4>1. CASE j <= P
        <5>1. j \in 1 .. P /\ p[j].release = r /\ (a < j \/ j < a)
          BY <1>5, <1>9, <2>1, <4>1
        <5> QED
          BY <5>1, <1>11
      <4>2. CASE ~ (j <= P)
        BY <1>9, <4>2
      <4> QED
        BY <4>1, <4>2
    <3> QED
      BY <2>1, <3>1, <3>2, <1>12
  <2> QED
    BY <1>15, <2>2, <2>3
<1>18. ASSUME NEW i \in 1 .. Q
       PROVE  q[i].time <= now
  <2>1. q[Q].time = now /\ now <= now
    BY <1>7 DEF Entry
  <2>2. Q \in 1 .. Q /\ (i < Q \/ i = Q)
    BY <1>15
  <2>3. CASE i < Q
    BY <1>17, <2>1, <2>2, <2>3
  <2>4. CASE i = Q
    BY <2>1, <2>4
  <2> QED
    BY <2>2, <2>3, <2>4
<1>19. ASSUME NEW i \in 1 .. T
       PROVE  t[i] = Entry(q[g + i].release, q[g + i].time + ListedFor)
  <2>1. CASE i = T
    <3>1. g + i = Q
      BY <1>15, <2>1
    <3> HIDE DEF g
    <3>2. q[g + i].release = r /\ q[g + i].time = now
      BY <1>7, <3>1 DEF Entry
    <3> QED
      BY <1>8, <2>1, <3>2
  <2>2. CASE i < T
    <3>1. i \in 1 .. T - 1 /\ (i < h => i \in 1 .. N) /\ (~ (i < h) => i + 1 \in 1 .. N)
      BY <1>4, <1>5, <1>16, <2>2
    <3>2. PICK a \in 1 .. N : t[i] = l[a] /\ a = IF i < h THEN i ELSE i + 1
      BY <1>8, <3>1
    <3>3. g + i \in 1 .. Q - 1 /\ gone + a = IF g + i < j THEN g + i ELSE g + i + 1
      <4>1. i \in Nat /\ a \in Nat /\ i < T /\ i >= 1
        BY <1>4, <1>15, <2>2, <3>2
      <4>2. CASE h <= N /\ j = gone + h /\ Q = P /\ T = N
        <5>1. g = gone /\ gone \in Nat /\ (g + i < j <=> i < h)
          BY <4>1, <4>2, <1>4, <1>5
        <5>2. g + i \in 1 .. Q - 1
          BY <4>1, <4>2, <1>4
        <5> HIDE DEF g, gone
        <5> QED
          BY <4>1, <5>1, <5>2, <3>2
      <4>3. CASE h = N + 1 /\ j = P + 1 /\ Q = P + 1 /\ T = N + 1
        BY <4>1, <4>3, <1>4, <1>5, <3>2
      <4>4. CASE h = N + 1 /\ j <= gone /\ Q = P /\ T = N + 1
        BY <4>1, <4>4, <1>4, <1>5, <3>2
      <4> QED
        BY <4>2, <4>3, <4>4, <1>16
    <3> HIDE DEF g, gone
    <3>4. q[g + i] = p[gone + a]
      BY <1>7, <3>3
    <3> QED
      BY <1>13, <3>2, <3>4
  <2> QED
    BY <1>15, <2>1, <2>2
<1>20. ASSUME NEW i \in 1 .. g
       PROVE  q[i].time + ListedFor <= now \/ Q - i >= MaxListed
  <2> DEFINE a == IF i < j THEN i ELSE i + 1
  <2>1. i \in 1 .. Q - 1 /\ a \in 1 .. gone /\ Q - i >= P - a
    BY <1>4, <1>5, <1>16
  <2>2. q[i] = p[a]
    BY <1>7, <2>1
  <2>3. a \in Nat /\ i \in Nat
    BY <1>5, <2>1
  <2> HIDE DEF a
  <2>4. p[a].time + ListedFor <= now \/ P - a >= MaxListed
    BY <1>14, <2>1
  <2>5. P - a >= MaxListed => Q - i >= MaxListed
    BY <1>4, <1>15, <2>1, <2>3
  <2> QED
    BY <2>2, <2>4, <2>5
<1>21. g \in Nat
  BY <1>4, <1>16, <1>5
<1>22. CASE T > MaxListed
  <2>1. T = MaxListed + 1 /\ m = Tail(t)
    BY <1>3, <1>4, <1>15, <1>16, <1>22 DEF T
  <2>2. m \in Seq(EntrySet) /\ Len(m) = T - 1
    BY <1>4, <2>1 DEF T
  <2>3. \A i \in 1 .. T - 1 : m[i] = t[i + 1]
    BY <1>4, <2>1 DEF T
  <2>4. Q - Len(m) = g + 1 /\ Len(m) = MaxListed /\ Len(m) <= Q
    BY <1>4, <1>15, <1>21, <2>1, <2>2
  <2>5. ASSUME NEW i \in 1 .. Len(m)
        PROVE  m[i] = Entry(q[Q - Len(m) + i].release, q[Q - Len(m) + i].time + ListedFor)
    <3>1. i \in 1 .. T - 1 /\ i + 1 \in 1 .. T /\ g + (i + 1) = Q - Len(m) + i
      <4>1. i \in 1 .. MaxListed /\ T = MaxListed + 1
        BY <2>1, <2>4
      <4>2. i \in 1 .. T - 1 /\ i + 1 \in 1 .. T
        BY <1>4, <4>1
      <4> QED
        BY <4>2, <1>4, <1>15, <1>21, <2>4
    <3> HIDE DEF g
    <3> QED
      BY <1>19, <2>3, <3>1
  <2>6. ASSUME NEW i \in 1 .. Q - Len(m)
        PROVE  q[i].time + ListedFor <= now \/ Q - i >= MaxListed
    <3>1. i \in 1 .. g \/ Q - i = MaxListed
      BY <1>4, <1>15, <1>21, <2>1, <2>4
    <3> HIDE DEF g
    <3> QED
      BY <1>4, <1>20, <3>1
  <2>7. MemoryOf(q, m)
    BY <1>4, <1>15, <1>17, <1>18, <2>2, <2>4, <2>5, <2>6 DEF MemoryOf, Q
  <2> QED
    BY <2>7 DEF q, m
<1>23. CASE ~ (T > MaxListed)
  <2>1. m = t /\ Len(m) = T
    BY <1>3, <1>23 DEF T
  <2>2. T <= MaxListed /\ T <= Q
    BY <1>4, <1>15, <1>21, <1>23
  <2>3. MemoryOf(q, m)
    BY <1>15, <1>17, <1>18, <1>19, <1>20, <2>1, <2>2 DEF MemoryOf, Q, T
  <2> QED
    BY <2>3 DEF q, m
<1> QED
  BY <1>22, <1>23

(* What has not expired is the end of what was remembered, which is in the  *)
(* order of its times.                                                     *)
LEMMA UnexpiredIsTheEnd ==
  ASSUME NEW l \in Seq(EntrySet), now \in Nat,
         \A i, k \in 1 .. Len(l) : i < k => l[i].time <= l[k].time
  PROVE  \E gone \in 0 .. Len(l) :
           /\ Unexpired(l) \in Seq(EntrySet)
           /\ Len(Unexpired(l)) = Len(l) - gone
           /\ \A i \in 1 .. Len(l) - gone : Unexpired(l)[i] = l[gone + i]
           /\ \A i \in 1 .. gone : l[i].time <= now
<1> DEFINE N == Len(l)
           left == Kept(l)
           EndOf(n, gone) ==
             /\ Len(left[n]) = n - gone
             /\ \A i \in 1 .. n - gone : left[n][i] = l[gone + i] /\ l[gone + i].time > now
             /\ \A i \in 1 .. gone : l[i].time <= now
           T == {n \in 0 .. N : \E gone \in 0 .. n : EndOf(n, gone)}
<1>1. N \in Nat /\ \A i \in 1 .. N : l[i].time \in Nat /\ l[i] \in EntrySet
  <2>1. N \in Nat /\ \A i \in 1 .. N : l[i] \in EntrySet
    OBVIOUS
  <2>2. \A e \in EntrySet : e.time \in Nat
    BY DEF EntrySet
  <2> HIDE DEF N
  <2> QED
    BY <2>1, <2>2
<1>2. /\ left \in [0 .. N -> Seq(EntrySet)]
      /\ left[0] = <<>>
      /\ \A n \in 1 .. N : left[n] = IF l[n].time > now THEN Append(left[n - 1], l[n]) ELSE left[n - 1]
  BY KeptSteps
<1>3. \A i, k \in 1 .. N : i < k => l[i].time <= l[k].time
  OBVIOUS
<1> HIDE DEF left, N
<1>4. 0 \in T
  <2>1. EndOf(0, 0)
    BY <1>2
  <2>2. 0 \in 0 .. 0 /\ 0 \in 0 .. N
    BY <1>1
  <2> HIDE DEF EndOf
  <2> QED
    BY <2>1, <2>2
<1>5. ASSUME NEW n \in 1 .. N, n - 1 \in T
      PROVE  n \in T
  <2>1. PICK gone \in 0 .. n - 1 : EndOf(n - 1, gone)
    BY <1>5
  <2>2. n \in Nat /\ n > 0 /\ gone \in Nat /\ gone <= n - 1 /\ left[n - 1] \in Seq(EntrySet)
        /\ l[n] \in EntrySet /\ n - 1 \in 0 .. N
    BY <1>1, <1>2
  <2>3. CASE l[n].time > now
    <3>1. left[n] = Append(left[n - 1], l[n])
      BY <1>2, <2>3
    <3>2. Len(left[n - 1]) = n - 1 - gone
      BY <2>1
    <3>3. /\ Len(left[n]) = Len(left[n - 1]) + 1
          /\ \A i \in 1 .. Len(left[n - 1]) : left[n][i] = left[n - 1][i]
          /\ left[n][Len(left[n - 1]) + 1] = l[n]
      BY <2>2, <3>1
    <3>4. Len(left[n]) = n - gone
      BY <2>2, <3>2, <3>3
    <3>5. ASSUME NEW i \in 1 .. n - gone
          PROVE  left[n][i] = l[gone + i] /\ l[gone + i].time > now
      <4>1. CASE i = n - gone
        <5>1. gone + i = n /\ i = Len(left[n - 1]) + 1
          BY <2>2, <3>2, <4>1
        <5> QED
          BY <5>1, <3>3, <2>3
      <4>2. CASE i # n - gone
        <5>1. i \in 1 .. n - 1 - gone
          BY <2>2, <4>2
        <5> QED
          BY <5>1, <3>2, <3>3, <2>1
      <4> QED
        BY <4>1, <4>2
    <3>6. gone \in 0 .. n /\ EndOf(n, gone)
      BY <2>1, <2>2, <3>4, <3>5
    <3> HIDE DEF EndOf
    <3> QED
      BY <1>1, <3>6
  <2>4. CASE ~ (l[n].time > now)
    <3>1. left[n] = left[n - 1] /\ l[n].time <= now
      <4>1. left[n] = left[n - 1]
        BY <1>2, <2>4
      <4>2. l[n].time \in Nat
        BY <1>1
      <4> QED
        BY <4>1, <4>2, <2>4
    <3>2. gone = n - 1
      <4>1. ASSUME gone < n - 1
            PROVE  FALSE
        <5>1. 1 \in 1 .. n - 1 - gone /\ gone + 1 \in 1 .. N /\ gone + 1 < n
          BY <2>2, <4>1, <1>1
        <5>2. l[gone + 1].time > now
          BY <2>1, <5>1
        <5>3. l[gone + 1].time <= l[n].time
          BY <1>3, <5>1
        <5> QED
          BY <1>1, <5>1, <5>2, <5>3, <3>1
      <4> QED
        BY <2>2, <4>1
    <3>3. Len(left[n]) = n - n
      BY <2>1, <2>2, <3>1, <3>2
    <3>4. \A i \in 1 .. n : l[i].time <= now
      <4> TAKE i \in 1 .. n
      <4>1. i \in 1 .. gone \/ i = n
        BY <2>2, <3>2
      <4> QED
        BY <2>1, <3>1, <4>1
    <3>5. n \in 0 .. n /\ EndOf(n, n)
      BY <2>2, <3>3, <3>4
    <3> HIDE DEF EndOf
    <3> QED
      BY <1>1, <3>5
  <2> QED
    BY <2>3, <2>4
<1>6. \E gone \in 0 .. N : EndOf(N, gone)
  <2> HIDE DEF T
  <2>1. \A n \in 0 .. N : n \in T
    BY <1>1, <1>4, <1>5, UpTo
  <2>2. N \in T
    BY <1>1, <2>1
  <2> QED
    BY <2>2 DEF T
<1>7. Unexpired(l) = left[N] /\ left[N] \in Seq(EntrySet)
  BY <1>1, <1>2 DEF Unexpired, left, N
<1> QED
  BY <1>6, <1>7 DEF N

LEMMA UnexpiredKeeps ==
  ASSUME NEW p, NEW l, now \in Nat, MemoryOf(p, l)
  PROVE  MemoryOf(p, Unexpired(l))
<1> DEFINE P == Len(p)
           N == Len(l)
           u == Unexpired(l)
           U == Len(u)
           before == P - N
<1>1. p \in Seq(EntrySet) /\ l \in Seq(EntrySet) /\ N <= MaxListed /\ N <= P
  BY DEF MemoryOf
<1>2. P \in Nat /\ N \in Nat /\ MaxListed \in Nat /\ ListedFor \in Nat
  BY <1>1, ListedAssumption
<1>3. /\ \A i, k \in 1 .. P : i < k => p[i].release # p[k].release /\ p[i].time <= p[k].time
      /\ \A i \in 1 .. P : p[i].time <= now
      /\ \A i \in 1 .. N : l[i] = Entry(p[before + i].release, p[before + i].time + ListedFor)
      /\ \A i \in 1 .. before : p[i].time + ListedFor <= now \/ P - i >= MaxListed
  BY DEF MemoryOf
<1>4. \A i \in 1 .. N : l[i].time = p[before + i].time + ListedFor
  <2> TAKE i \in 1 .. N
  <2>1. l[i] = Entry(p[before + i].release, p[before + i].time + ListedFor)
    BY <1>3
  <2> QED
    BY <2>1 DEF Entry
<1>5. \A i \in 1 .. P : p[i].time \in Nat
  <2>1. \A i \in 1 .. P : p[i] \in EntrySet
    BY <1>1
  <2>2. \A e \in EntrySet : e.time \in Nat
    BY DEF EntrySet
  <2> HIDE DEF P
  <2> QED
    BY <2>1, <2>2
<1> HIDE DEF P, N
<1>6. \A i, k \in 1 .. N : i < k => l[i].time <= l[k].time
  <2> SUFFICES ASSUME NEW i \in 1 .. N, NEW k \in 1 .. N, i < k PROVE l[i].time <= l[k].time
    OBVIOUS
  <2>1. before + i \in 1 .. P /\ before + k \in 1 .. P /\ before + i < before + k
    BY <1>1, <1>2
  <2> HIDE DEF before
  <2>2. p[before + i].time <= p[before + k].time
        /\ p[before + i].time \in Nat /\ p[before + k].time \in Nat
    BY <1>3, <1>5, <2>1
  <2> QED
    BY <1>2, <1>4, <2>2
<1>7. PICK gone \in 0 .. N :
        /\ u \in Seq(EntrySet) /\ U = N - gone
        /\ \A i \in 1 .. N - gone : u[i] = l[gone + i]
        /\ \A i \in 1 .. gone : l[i].time <= now
  BY <1>1, <1>6, UnexpiredIsTheEnd DEF N
<1> HIDE DEF u, U
<1>8. U \in Nat /\ U <= MaxListed /\ U <= P /\ P - U = before + gone /\ before \in Nat
  BY <1>1, <1>2, <1>7
<1>9. ASSUME NEW i \in 1 .. U
      PROVE  u[i] = Entry(p[P - U + i].release, p[P - U + i].time + ListedFor)
  <2>1. i \in 1 .. N - gone /\ gone + i \in 1 .. N /\ before + (gone + i) = P - U + i
    BY <1>2, <1>7, <1>8
  <2> HIDE DEF before
  <2> QED
    BY <1>3, <1>7, <2>1
<1>10. ASSUME NEW i \in 1 .. P - U
       PROVE  p[i].time + ListedFor <= now \/ P - i >= MaxListed
  <2>1. CASE i <= before
    <3>1. i \in 1 .. before
      BY <1>8, <2>1
    <3> QED
      BY <1>3, <3>1
  <2>2. CASE ~ (i <= before)
    <3>1. i - before \in 1 .. gone /\ i - before \in 1 .. N /\ before + (i - before) = i
      BY <1>2, <1>7, <1>8, <2>2
    <3> HIDE DEF before
    <3> QED
      BY <1>4, <1>7, <3>1
  <2> QED
    BY <2>1, <2>2
<1> QED
  BY <1>1, <1>3, <1>7, <1>8, <1>9, <1>10 DEF MemoryOf, P, U, u

(* The loops over what was listed are what their definitions say.           *)
LEMMA ListingsTyped ==
  ASSUME NEW l \in Seq(EntrySet), NEW r \in Release, now \in Nat
  PROVE  /\ Remember(l, r) \in Seq(EntrySet)
         /\ Append(Without(l, r), Entry(r, now)) \in Seq(EntrySet)
<1> DEFINE e == Entry(r, now + ListedFor)
           d == Entry(r, now)
           w == Without(l, r)
<1>1. e \in EntrySet /\ d \in EntrySet
  BY ListedAssumption DEF Entry, EntrySet
<1>2. w \in Seq(EntrySet)
  <2>1. CASE Has(l, r)
    BY <2>1, DeletedOne
  <2>2. CASE ~ Has(l, r)
    BY <2>2 DEF Without
  <2> QED
    BY <2>1, <2>2
<1>3. Remember(l, r) = Append(IF Len(w) >= MaxListed THEN Tail(w) ELSE w, e)
  BY DEF Remember
<1> HIDE DEF e, d, w
<1>4. Len(w) >= MaxListed => w # <<>> /\ Tail(w) \in Seq(EntrySet)
  <2>1. MaxListed \in Nat /\ MaxListed > 0 /\ Len(w) \in Nat
    BY <1>2, ListedAssumption
  <2> QED
    BY <1>2, <2>1
<1>5. (IF Len(w) >= MaxListed THEN Tail(w) ELSE w) \in Seq(EntrySet)
  BY <1>2, <1>4
<1>6. Remember(l, r) \in Seq(EntrySet) /\ Append(w, d) \in Seq(EntrySet)
  <2> DEFINE o == IF Len(w) >= MaxListed THEN Tail(w) ELSE w
  <2>1. o \in Seq(EntrySet) /\ Remember(l, r) = Append(o, e)
    BY <1>3, <1>5
  <2> HIDE DEF o
  <2> QED
    BY <1>1, <1>2, <2>1
<1> QED
  BY <1>6 DEF w, d

LEMMA RememberedSteps ==
  ASSUME NEW hits \in Seq(Release), now \in Nat
  PROVE  listed \in Seq(EntrySet) =>
         /\ Remembered(hits) \in [0 .. Len(hits) -> Seq(EntrySet)]
         /\ Remembered(hits)[0] = Unexpired(listed)
         /\ \A n \in 1 .. Len(hits) :
              Remembered(hits)[n] = Remember(Remembered(hits)[n - 1], hits[n])
<1> DEFINE S == Seq(EntrySet)
           L == Len(hits)
           start == Unexpired(listed)
           Goes == [n \in 1 .. L |-> [x \in S |-> Remember(x, hits[n])]]
           Is(f) == f = [n \in 0 .. L |-> IF n = 0 THEN start ELSE Remember(f[n - 1], hits[n])]
<1>0. SUFFICES ASSUME listed \in Seq(EntrySet)
               PROVE  /\ Remembered(hits) \in [0 .. L -> S]
                      /\ Remembered(hits)[0] = Unexpired(listed)
                      /\ \A n \in 1 .. L : Remembered(hits)[n] = Remember(Remembered(hits)[n - 1], hits[n])
  OBVIOUS
<1>1. L \in Nat /\ start \in S /\ \A n \in 1 .. L : hits[n] \in Release
  <2>1. Len(listed) \in 0 .. Len(listed)
    BY <1>0
  <2>2. Unexpired(listed) \in Seq(EntrySet)
    BY <1>0, <2>1, KeptSteps DEF Unexpired
  <2> QED
    BY <2>2
<1>2. \A n \in 1 .. L, x \in S : Remember(x, hits[n]) \in S
  BY <1>1, ListingsTyped
<1>3. Goes \in [1 .. L -> [S -> S]]
  BY <1>2
<1>4. Remembered(hits) = CHOOSE g : Is(g)
  BY DEF Remembered
<1> HIDE DEF S, L, start
<1>5. PICK f \in [0 .. L -> S] : f[0] = start /\ \A n \in 1 .. L : f[n] = Goes[n][f[n - 1]]
  <2> HIDE DEF Goes
  <2>1. L \in Nat
    BY <1>1
  <2>2. start \in S
    BY <1>1
  <2>3. Goes \in [1 .. L -> [S -> S]]
    BY <1>3
  <2> QED
    BY <2>1, <2>2, <2>3, LoopExists
<1>6. \A n \in 1 .. L : f[n] = Remember(f[n - 1], hits[n])
  <2> TAKE n \in 1 .. L
  <2>1. n - 1 \in 0 .. L /\ f[n - 1] \in S
    BY <1>1
  <2> QED
    BY <1>5, <2>1
<1>7. Is(f)
  <2>1. f = [n \in 0 .. L |-> f[n]]
    BY <1>5
  <2>2. \A n \in 0 .. L : n # 0 => n \in 1 .. L
    BY <1>1
  <2>3. \A n \in 0 .. L : f[n] = IF n = 0 THEN start ELSE Remember(f[n - 1], hits[n])
    BY <1>5, <1>6, <2>2
  <2> QED
    BY <2>1, <2>3
<1> DEFINE made == Remembered(hits)
<1>8. Is(made)
  BY <1>4, <1>7
<1> HIDE DEF made
<1>9. /\ made = [n \in 0 .. L |-> made[n]]
      /\ made[0] = start
      /\ \A n \in 1 .. L : made[n] = Remember(made[n - 1], hits[n])
  <2>1. 0 \in 0 .. L /\ \A n \in 1 .. L : n \in 0 .. L /\ n # 0
    BY <1>1
  <2> QED
    BY <1>8, <2>1
<1>10. \A n \in 1 .. L : made[n - 1] \in S => made[n] \in S
  BY <1>2, <1>9
<1>11. made \in [0 .. L -> S]
  BY <1>1, <1>9, <1>10, LoopValues
<1> QED
  BY <1>9, <1>11 DEF made, start, L, S

LEMMA ToldSteps ==
  ASSUME NEW hits \in Seq(Release), now \in Nat
  PROVE  past \in Seq(EntrySet) =>
         /\ Told(hits) \in [0 .. Len(hits) -> Seq(EntrySet)]
         /\ Told(hits)[0] = past
         /\ \A n \in 1 .. Len(hits) :
              Told(hits)[n] = Append(Without(Told(hits)[n - 1], hits[n]), Entry(hits[n], now))
<1> DEFINE S == Seq(EntrySet)
           L == Len(hits)
           start == past
           Goes == [n \in 1 .. L |-> [x \in S |-> Append(Without(x, hits[n]), Entry(hits[n], now))]]
           Is(f) == f = [n \in 0 .. L |-> IF n = 0 THEN start ELSE Append(Without(f[n - 1], hits[n]), Entry(hits[n], now))]
<1>0. SUFFICES ASSUME past \in Seq(EntrySet)
               PROVE  /\ Told(hits) \in [0 .. L -> S]
                      /\ Told(hits)[0] = past
                      /\ \A n \in 1 .. L :
                           Told(hits)[n] = Append(Without(Told(hits)[n - 1], hits[n]), Entry(hits[n], now))
  OBVIOUS
<1>1. L \in Nat /\ start \in S /\ \A n \in 1 .. L : hits[n] \in Release
  BY <1>0
<1>2. \A n \in 1 .. L, x \in S : Append(Without(x, hits[n]), Entry(hits[n], now)) \in S
  BY <1>1, ListingsTyped
<1>3. Goes \in [1 .. L -> [S -> S]]
  BY <1>2
<1>4. Told(hits) = CHOOSE g : Is(g)
  BY DEF Told
<1> HIDE DEF S, L, start
<1>5. PICK f \in [0 .. L -> S] : f[0] = start /\ \A n \in 1 .. L : f[n] = Goes[n][f[n - 1]]
  <2> HIDE DEF Goes
  <2>1. L \in Nat
    BY <1>1
  <2>2. start \in S
    BY <1>1
  <2>3. Goes \in [1 .. L -> [S -> S]]
    BY <1>3
  <2> QED
    BY <2>1, <2>2, <2>3, LoopExists
<1>6. \A n \in 1 .. L : f[n] = Append(Without(f[n - 1], hits[n]), Entry(hits[n], now))
  <2> TAKE n \in 1 .. L
  <2>1. n - 1 \in 0 .. L /\ f[n - 1] \in S
    BY <1>1
  <2> QED
    BY <1>5, <2>1
<1>7. Is(f)
  <2>1. f = [n \in 0 .. L |-> f[n]]
    BY <1>5
  <2>2. \A n \in 0 .. L : n # 0 => n \in 1 .. L
    BY <1>1
  <2>3. \A n \in 0 .. L : f[n] = IF n = 0 THEN start ELSE Append(Without(f[n - 1], hits[n]), Entry(hits[n], now))
    BY <1>5, <1>6, <2>2
  <2> QED
    BY <2>1, <2>3
<1> DEFINE made == Told(hits)
<1>8. Is(made)
  BY <1>4, <1>7
<1> HIDE DEF made
<1>9. /\ made = [n \in 0 .. L |-> made[n]]
      /\ made[0] = start
      /\ \A n \in 1 .. L : made[n] = Append(Without(made[n - 1], hits[n]), Entry(hits[n], now))
  <2>1. 0 \in 0 .. L /\ \A n \in 1 .. L : n \in 0 .. L /\ n # 0
    BY <1>1
  <2> QED
    BY <1>8, <2>1
<1>10. \A n \in 1 .. L : made[n - 1] \in S => made[n] \in S
  BY <1>2, <1>9
<1>11. made \in [0 .. L -> S]
  BY <1>1, <1>9, <1>10, LoopValues
<1> QED
  BY <1>9, <1>11 DEF made, start, L, S

(* A read lists its releases one after the other.                          *)
LEMMA ListsKeeps ==
  ASSUME NEW hits \in Seq(Release), now \in Nat, MemoryOf(past, listed), ListsHits(hits)
  PROVE  MemoryOf(past, listed)'
<1> DEFINE L == Len(hits)
           told == Told(hits)
           made == Remembered(hits)
           T == {n \in 0 .. L : MemoryOf(told[n], made[n])}
<1>1. /\ told[0] = past
      /\ \A n \in 1 .. L : told[n] = Append(Without(told[n - 1], hits[n]), Entry(hits[n], now))
  BY ToldSteps DEF MemoryOf
<1>2. /\ made[0] = Unexpired(listed)
      /\ \A n \in 1 .. L : made[n] = Remember(made[n - 1], hits[n])
  BY RememberedSteps DEF MemoryOf
<1>3. L \in Nat /\ \A n \in 1 .. L : hits[n] \in Release
  OBVIOUS
<1> HIDE DEF L, told, made
<1>4. 0 \in T
  <2>1. MemoryOf(past, Unexpired(listed))
    BY UnexpiredKeeps
  <2> QED
    BY <1>1, <1>2, <1>3, <2>1
<1>5. ASSUME NEW n \in 1 .. L, n - 1 \in T
      PROVE  n \in T
  <2>1. MemoryOf(told[n - 1], made[n - 1])
    BY <1>5
  <2>2. MemoryOf(Append(Without(told[n - 1], hits[n]), Entry(hits[n], now)), Remember(made[n - 1], hits[n]))
    BY <2>1, <1>3, RememberKeeps
  <2>3. MemoryOf(told[n], made[n])
    BY <2>2, <1>1, <1>2
  <2>4. n \in 0 .. L
    BY <1>3
  <2> QED
    BY <2>3, <2>4
<1>6. MemoryOf(told[L], made[L])
  <2> HIDE DEF T
  <2>1. \A n \in 0 .. L : n \in T
    BY <1>3, <1>4, <1>5, UpTo
  <2>2. L \in T
    BY <1>3, <2>1
  <2> QED
    BY <2>2 DEF T
<1>7. past' = told[L] /\ listed' = made[L] /\ now' = now
  BY DEF ListsHits, RememberReleases, told, made, L
<1>8. MemoryOf(past', listed')
  BY <1>6, <1>7
<1> QED
  BY <1>7, <1>8 DEF MemoryOf

(* What is remembered is, at every time, of all that was ever listed.       *)
RememberedInv == now \in Nat /\ MemoryOf(past, listed)

LEMMA RememberedStep ==
  RememberedInv /\ KeptOK /\ [ReleasesNext]_releaseVars => RememberedInv'
<1> SUFFICES ASSUME RememberedInv, KeptOK, [ReleasesNext]_releaseVars PROVE RememberedInv'
  OBVIOUS
<1>0. now \in Nat /\ MemoryOf(past, listed)
  BY DEF RememberedInv
<1>1. ASSUME NEW t \in Target, ReadsKept(t)
      PROVE  RememberedInv'
  <2>1. ListsHits(search[t].hits) /\ search[t].hits \in Seq(Release) /\ now' = now
    BY <1>1 DEF ReadsKept, ListsHits, StillKept, KeptOK
  <2> QED
    BY <1>0, <2>1, ListsKeeps DEF RememberedInv
<1>2. ASSUME NEW t \in Target, NEW hits \in Hits, SearchesAnew(t, hits)
      PROVE  RememberedInv'
  <2>1. ListsHits(hits) /\ now' = now
    BY <1>2 DEF SearchesAnew, ListsHits
  <2>2. hits \in Seq(Release)
    BY HitsAreLists
  <2> QED
    BY <1>0, <2>1, <2>2, ListsKeeps DEF RememberedInv
<1>3. ASSUME NEW r \in Release, Grabs(r)
      PROVE  RememberedInv'
  BY <1>0, <1>3 DEF Grabs, RememberedInv, MemoryOf
<1>4. CASE Passes
  <2>1. now' = now + 1 /\ past' = past /\ listed' = listed
    BY <1>4 DEF Passes
  <2>2. MemoryOf(past, listed)'
    <3>1. \A i \in 1 .. Len(past) : past[i].time \in Nat
      <4>1. past \in Seq(EntrySet) /\ \A e \in EntrySet : e.time \in Nat
        BY <1>0 DEF MemoryOf, EntrySet
      <4> QED
        BY <4>1
    <3>2. \A i \in 1 .. Len(past) : past[i].time <= now => past[i].time <= now + 1
      BY <1>0, <3>1
    <3>3. Len(listed) \in Nat /\ Len(past) \in Nat /\ ListedFor \in Nat /\ now \in Nat
      BY <1>0, ListedAssumption DEF MemoryOf
    <3>4. \A i \in 1 .. Len(past) - Len(listed) : i \in 1 .. Len(past)
      BY <3>3
    <3>5. \A i \in 1 .. Len(past) - Len(listed) :
            past[i].time + ListedFor <= now => past[i].time + ListedFor <= now + 1
      BY <3>1, <3>3, <3>4
    <3> QED
      BY <1>0, <2>1, <3>2, <3>4, <3>5 DEF MemoryOf
  <2> QED
    BY <1>0, <2>1, <2>2 DEF RememberedInv
<1>5. CASE UNCHANGED releaseVars
  BY <1>0, <1>5 DEF releaseVars, RememberedInv, MemoryOf
<1> QED
  BY <1>1, <1>2, <1>3, <1>4, <1>5 DEF ReleasesNext

(* A listing is there or it is not: by its place in the memory.              *)
LEMMA RememberedIsNewest == RememberedInv => NewestRemembered
<1> SUFFICES ASSUME RememberedInv, NEW i \in DOMAIN past
             PROVE  ListedRelease(past[i].release)
                      <=> past[i].time + ListedFor > now /\ Len(past) - i < MaxListed
  BY DEF NewestRemembered
<1> DEFINE P == Len(past)
           N == Len(listed)
           gone == P - N
<1>1. past \in Seq(EntrySet) /\ listed \in Seq(EntrySet) /\ N <= MaxListed /\ N <= P /\ now \in Nat
  BY DEF RememberedInv, MemoryOf
<1>2. P \in Nat /\ N \in Nat /\ MaxListed \in Nat /\ ListedFor \in Nat
  BY <1>1, ListedAssumption
<1>3. i \in 1 .. P /\ DOMAIN listed = 1 .. N
  BY <1>1
<1>4. past[i].time \in Nat
  <2>1. past[i] \in EntrySet
    BY <1>1, <1>3
  <2> QED
    BY <2>1 DEF EntrySet
<1>5. /\ \A j, k \in 1 .. P : j < k => past[j].release # past[k].release
      /\ \A k \in 1 .. N : listed[k] = Entry(past[gone + k].release, past[gone + k].time + ListedFor)
      /\ \A k \in 1 .. gone : past[k].time + ListedFor <= now \/ P - k >= MaxListed
  BY DEF RememberedInv, MemoryOf
<1>6. \A k \in 1 .. N : listed[k].release = past[gone + k].release
                        /\ listed[k].time = past[gone + k].time + ListedFor
  <2> TAKE k \in 1 .. N
  <2>1. listed[k] = Entry(past[gone + k].release, past[gone + k].time + ListedFor)
    BY <1>5
  <2> QED
    BY <2>1 DEF Entry
<1> HIDE DEF P, N
<1>7. \A k \in 1 .. N : listed[k].release = past[i].release => gone + k = i
  <2> SUFFICES ASSUME NEW k \in 1 .. N, listed[k].release = past[i].release PROVE gone + k = i
    OBVIOUS
  <2> DEFINE place == gone + k
  <2>1. place \in 1 .. P /\ past[place].release = past[i].release
    BY <1>1, <1>2, <1>6
  <2> HIDE DEF place, gone
  <2>2. ~ (place < i) /\ ~ (i < place)
    BY <1>3, <1>5, <2>1
  <2>3. place = i
    BY <1>2, <1>3, <2>1, <2>2
  <2> QED
    BY <2>3 DEF place
<1>8. CASE i <= gone
  <2>1. ~ ListedRelease(past[i].release)
    <3>1. \A k \in 1 .. N : gone + k # i
      BY <1>1, <1>2, <1>3, <1>8
    <3> HIDE DEF gone
    <3> QED
      BY <1>3, <1>7, <3>1 DEF ListedRelease
  <2>2. past[i].time + ListedFor <= now \/ P - i >= MaxListed
    BY <1>3, <1>5, <1>8, <1>1, <1>2
  <2>3. ~ (past[i].time + ListedFor > now /\ P - i < MaxListed)
    BY <2>2, <1>1, <1>2, <1>3, <1>4
  <2> QED
    BY <2>1, <2>3 DEF P
<1>9. CASE ~ (i <= gone)
  <2>1. i - gone \in 1 .. N /\ gone + (i - gone) = i /\ P - i < MaxListed
    BY <1>1, <1>2, <1>3, <1>9
  <2> DEFINE k == i - gone
  <2>2. k \in 1 .. N /\ gone + k = i
    BY <2>1
  <2> HIDE DEF k, gone
  <2>3. listed[k].release = past[i].release /\ listed[k].time = past[i].time + ListedFor
    BY <1>6, <2>2
  <2>4. ASSUME NEW m \in 1 .. N, listed[m].release = past[i].release
        PROVE  listed[m].time = past[i].time + ListedFor
    BY <1>6, <1>7, <2>4
  <2>5. ListedRelease(past[i].release) <=> past[i].time + ListedFor > now
    BY <1>3, <2>2, <2>3, <2>4 DEF ListedRelease
  <2> QED
    BY <2>1, <2>5 DEF P
<1> QED
  BY <1>8, <1>9

(* For any releases, searches and times, what can be grabbed is what was     *)
(* listed within the hour, but for what the newest MaxListed listings pushed *)
(* out, and nothing else is forgotten (releases.ts:60-66, 84-91, 114-121).   *)
THEOREM NewestAreRemembered ==
  ReleasesInit /\ [][ReleasesNext]_releaseVars => []NewestRemembered
<1>1. ReleasesInit => KeptOK /\ RememberedInv
  <2> SUFFICES ASSUME ReleasesInit PROVE KeptOK /\ RememberedInv
    OBVIOUS
  <2>1. KeptOK
    BY DEF ReleasesInit, KeptOK
  <2>2. now = 0 /\ past = <<>> /\ listed = <<>> /\ MaxListed \in Nat
    BY ListedAssumption DEF ReleasesInit
  <2>3. MemoryOf(<<>>, <<>>)
    BY <2>2 DEF MemoryOf
  <2> QED
    BY <2>1, <2>2, <2>3 DEF RememberedInv
<1> QED
  BY <1>1, KeptStep, RememberedStep, RememberedIsNewest, PTL

-----------------------------------------------------------------------------
(* The reads whose next page starts right after the last entry of this one.  *)
Sequel == {"queue", "blocklist", "scores", "children", "people", "jobs", "text"}

(* An entry that a read which has come to place c has left behind.          *)
Precedes(e, c) ==
  CASE reading.read = "history" -> e[2] <= (c[1] - 1) * reading.limit + c[2]
    [] reading.read = "clients" -> e[2] <= c[e[1]]
    [] reading.read = "media" -> e[1] < c[1] \/ (e[1] = c[1] /\ 0 < e[2] /\ e[2] <= c[2])
    [] OTHER -> e[2] <= c[2]

Behind(c) == {e \in Everything : Precedes(e, c)}

(* The places a read comes to: none within a pair, none past what there is, *)
(* and within a source or a page of history only if some of it is left.     *)
PlaceOK(c) ==
  /\ c[1] \in Nat /\ c[2] \in Nat
  /\ reading.read = "history" => c[1] > 0 /\ c[2] < reading.limit
  /\ reading.read = "clients" => c[1] <= Size(1) /\ c[2] <= Size(2)
  /\ reading.read = "media" =>
       /\ c[1] \in 1 .. Len(reading.lists) + 1
       /\ c[2] > 0 => c[1] <= Len(reading.lists) /\ c[2] < Size(c[1])
  /\ reading.read \in Sequel => c[2] <= Size(1)
  /\ reading.read = "text" => ~ (0 < c[2] /\ c[2] < Size(1) /\ List(1)[c[2]] = "high")

Ordered(s) == \A i, j \in DOMAIN s : i < j /\ s[i][1] = s[j][1] => s[i][2] < s[j][2]

(* What was seen is what lies behind the place, in order.                   *)
PagesInv ==
  /\ reading \in Reading
  /\ PlaceOK(at)
  /\ seen \in Seq(Nat \X Nat) /\ Ordered(seen)
  /\ ToSet(seen) = Behind(at)
  /\ reading.read \in Sequel => Len(seen) = at[2] /\ (seen # <<>> => Last(seen)[2] = at[2])
  /\ caller = "over" => Behind(at) = Everything

-----------------------------------------------------------------------------
LEMMA ListsRead ==
  ASSUME reading \in Reading
  PROVE  /\ reading.limit \in Nat /\ reading.limit > 0 /\ reading.room \in Nat
         /\ Len(reading.lists) \in Nat /\ DOMAIN reading.lists = 1 .. Len(reading.lists)
         /\ \A l \in DOMAIN reading.lists : Size(l) \in Nat
         /\ reading.read \in OneList \cup {"clients", "media", "text"}
         /\ reading.read \in OneList \cup {"text"} => Len(reading.lists) = 1 /\ Size(1) \in Nat
         /\ reading.read = "clients" => Len(reading.lists) = 2 /\ Size(1) \in Nat /\ Size(2) \in Nat
         /\ reading.read = "text" => reading.lists[1] \in Seq(Units) /\ HalvesApart(reading.lists[1])
<1>1. /\ reading.limit \in Nat \ {0} /\ reading.room \in Nat
      /\ \/ reading.read \in OneList /\ reading.lists \in Seq(Seq(Nat)) /\ Len(reading.lists) = 1
         \/ reading.read = "clients" /\ reading.lists \in Seq(Seq(Nat)) /\ Len(reading.lists) = 2
         \/ reading.read = "media" /\ reading.lists \in Seq(Seq(Nat))
         \/ reading.read = "text" /\ reading.lists \in Seq(Seq(Units)) /\ Len(reading.lists) = 1 /\ HalvesApart(reading.lists[1])
  BY ReadingAssumption
<1>2. /\ Len(reading.lists) \in Nat /\ DOMAIN reading.lists = 1 .. Len(reading.lists)
      /\ \A l \in DOMAIN reading.lists : Size(l) \in Nat
  <2>1. CASE reading.lists \in Seq(Seq(Nat))
    <3>1. \A l \in 1 .. Len(reading.lists) : reading.lists[l] \in Seq(Nat)
      BY <2>1
    <3>2. \A l \in 1 .. Len(reading.lists) : Len(reading.lists[l]) \in Nat
      BY <3>1
    <3> QED
      BY <2>1, <3>2 DEF Size, List
  <2>2. CASE reading.lists \in Seq(Seq(Units))
    <3>1. \A l \in 1 .. Len(reading.lists) : reading.lists[l] \in Seq(Units)
      BY <2>2
    <3>2. \A l \in 1 .. Len(reading.lists) : Len(reading.lists[l]) \in Nat
      BY <3>1
    <3> QED
      BY <2>2, <3>2 DEF Size, List
  <2> QED
    BY <1>1, <2>1, <2>2
<1>3. reading.read = "text" => reading.lists[1] \in Seq(Units)
  BY <1>1 DEF OneList
<1>4. reading.read \in OneList \cup {"text"} => Len(reading.lists) = 1
  BY <1>1 DEF OneList
<1>5. reading.read = "clients" => Len(reading.lists) = 2
  BY <1>1 DEF OneList
<1>6. reading.read = "text" => HalvesApart(reading.lists[1])
  BY <1>1 DEF OneList
<1>7. reading.read \in OneList \cup {"clients", "media", "text"}
  BY <1>1
<1>8. reading.limit \in Nat /\ reading.limit > 0 /\ reading.room \in Nat
  BY <1>1
<1>9. /\ reading.read \in OneList \cup {"text"} => Size(1) \in Nat
      /\ reading.read = "clients" => Size(1) \in Nat /\ Size(2) \in Nat
  <2>1. ASSUME Len(reading.lists) = 1 PROVE Size(1) \in Nat
    BY <1>2, <2>1
  <2>2. ASSUME Len(reading.lists) = 2 PROVE Size(1) \in Nat /\ Size(2) \in Nat
    BY <1>2, <2>2
  <2> QED
    BY <1>4, <1>5, <2>1, <2>2
<1> QED
  BY <1>2, <1>3, <1>4, <1>5, <1>6, <1>7, <1>8, <1>9

(* What the service has, of a list that is not a source's.                 *)
LEMMA EntriesOfLists ==
  ASSUME reading \in Reading, reading.read # "media", NEW e
  PROVE  e \in Everything <=> \E l \in 1 .. Len(reading.lists) : \E i \in 1 .. Size(l) : e = <<l, i>>
<1>1. DOMAIN reading.lists = 1 .. Len(reading.lists)
  BY ListsRead
<1> QED
  BY <1>1 DEF Everything

(* Of a source: its streams, or that it has none.                          *)
LEMMA EntriesOfSources ==
  ASSUME reading \in Reading, reading.read = "media", NEW e
  PROVE  e \in Everything <=>
           \E l \in 1 .. Len(reading.lists) :
             IF Size(l) = 0 THEN e = <<l, 0>> ELSE \E i \in 1 .. Size(l) : e = <<l, i>>
<1>1. DOMAIN reading.lists = 1 .. Len(reading.lists)
  BY ListsRead
<1> QED
  BY <1>1 DEF Everything

(* A stretch of a list.                                                    *)
LEMMA Stretch ==
  ASSUME NEW l \in Nat, NEW from \in Nat, NEW n \in Nat
  PROVE  /\ Entries(l, from, n) \in Seq(Nat \X Nat)
         /\ Len(Entries(l, from, n)) = n
         /\ \A i \in 1 .. n : Entries(l, from, n)[i] = <<l, from + i>>
<1>1. \A i \in 1 .. n : <<l, from + i>> \in Nat \X Nat
  OBVIOUS
<1>2. Entries(l, from, n) \in [1 .. n -> Nat \X Nat]
  BY <1>1 DEF Entries
<1>3. \A i \in 1 .. n : Entries(l, from, n)[i] = <<l, from + i>>
  BY DEF Entries
<1> QED
  BY <1>2, <1>3

LEMMA StretchIsOrdered ==
  ASSUME NEW l \in Nat, NEW from \in Nat, NEW n \in Nat
  PROVE  /\ Ordered(Entries(l, from, n))
         /\ \A e : e \in ToSet(Entries(l, from, n)) <=> \E i \in from + 1 .. from + n : e = <<l, i>>
         /\ n > 0 => Last(Entries(l, from, n))[2] = from + n
<1> DEFINE s == Entries(l, from, n)
<1>1. s \in Seq(Nat \X Nat) /\ Len(s) = n /\ \A i \in 1 .. n : s[i] = <<l, from + i>>
  BY Stretch
<1>2. DOMAIN s = 1 .. n
  BY <1>1
<1> HIDE DEF s
<1>3. \A i \in 1 .. n : s[i][2] = from + i
  BY <1>1
<1>4. Ordered(s)
  BY <1>2, <1>3 DEF Ordered
<1>5. ASSUME NEW e
      PROVE  e \in ToSet(s) <=> \E i \in from + 1 .. from + n : e = <<l, i>>
  <2>1. ASSUME NEW i \in from + 1 .. from + n
        PROVE  <<l, i>> \in ToSet(s)
    <3>1. i - from \in 1 .. n /\ from + (i - from) = i
      OBVIOUS
    <3>2. s[i - from] = <<l, i>>
      BY <1>1, <3>1
    <3> QED
      BY <1>2, <3>1, <3>2 DEF ToSet
  <2>2. ASSUME NEW i \in 1 .. n
        PROVE  from + i \in from + 1 .. from + n /\ s[i] = <<l, from + i>>
    BY <1>1
  <2> QED
    BY <1>2, <2>1, <2>2 DEF ToSet
<1>6. n > 0 => Last(s)[2] = from + n
  <2> HAVE n > 0
  <2>1. n \in 1 .. n /\ Last(s) = s[n]
    BY <1>1 DEF Last
  <2> QED
    BY <1>3, <2>1
<1> QED
  BY <1>4, <1>5, <1>6 DEF s

(* What a page has to be: it goes on from where the last one stopped, and   *)
(* says where it stops itself.                                             *)
GoodPage(page) ==
  /\ page.listed \in Seq(Nat \X Nat)
  /\ Ordered(page.listed)
  /\ \A e \in Behind(at), f \in ToSet(page.listed) : e[1] = f[1] => e[2] < f[2]
  /\ Behind(page.next) = Behind(at) \cup ToSet(page.listed)
  /\ PlaceOK(page.next)
  /\ ~ page.more => Behind(page.next) = Everything
  /\ page.more /\ WithinReach => page.listed # <<>>
  /\ reading.read \in Sequel =>
       /\ page.next[2] = at[2] + Len(page.listed)
       /\ page.listed # <<>> => Last(page.listed)[2] = page.next[2]

LEMMA BehindInList ==
  ASSUME reading \in Reading, reading.read \in OneList \cup {"text"}, NEW c, NEW e,
         NEW p, p = IF reading.read = "history" THEN (c[1] - 1) * reading.limit + c[2] ELSE c[2]
  PROVE  e \in Behind(c) <=> \E i \in 1 .. Size(1) : i <= p /\ e = <<1, i>>
<1>1. Len(reading.lists) = 1
  BY ListsRead
<1>2. reading.read # "media" /\ reading.read # "clients"
  BY DEF OneList
<1>3. e \in Everything <=> \E i \in 1 .. Size(1) : e = <<1, i>>
  BY <1>1, <1>2, EntriesOfLists
<1>4. Precedes(e, c) <=> e[2] <= p
  BY <1>2 DEF Precedes
<1> QED
  BY <1>3, <1>4 DEF Behind

LEMMA PageOfStretch ==
  ASSUME reading \in Reading, reading.read \in OneList \cup {"text"},
         NEW page, NEW p \in Nat, NEW n \in Nat, NEW q,
         page.listed = Entries(1, p, n),
         \A e : e \in Behind(at) <=> \E i \in 1 .. Size(1) : i <= p /\ e = <<1, i>>,
         \A e : e \in Behind(page.next) <=> \E i \in 1 .. Size(1) : i <= q /\ e = <<1, i>>,
         \A i \in 1 .. Size(1) : i <= q <=> i <= p + n,
         n > 0 => p + n <= Size(1),
         PlaceOK(page.next),
         ~ page.more => Size(1) <= p + n,
         page.more /\ WithinReach => n > 0,
         reading.read \in Sequel => p = at[2] /\ page.next[2] = p + n
  PROVE  GoodPage(page)
<1>1. Size(1) \in Nat /\ 1 \in Nat
  BY ListsRead
<1>2. /\ page.listed \in Seq(Nat \X Nat) /\ Len(page.listed) = n
      /\ Ordered(page.listed)
      /\ \A e : e \in ToSet(page.listed) <=> \E i \in p + 1 .. p + n : e = <<1, i>>
      /\ n > 0 => Last(page.listed)[2] = p + n
  <2> DEFINE s == Entries(1, p, n)
  <2>1. s \in Seq(Nat \X Nat) /\ Len(s) = n
    BY <1>1, Stretch
  <2>2. /\ Ordered(s)
        /\ \A e : e \in ToSet(s) <=> \E i \in p + 1 .. p + n : e = <<1, i>>
        /\ n > 0 => Last(s)[2] = p + n
    BY <1>1, StretchIsOrdered
  <2>3. page.listed = s
    OBVIOUS
  <2> HIDE DEF s
  <2> QED
    BY <2>1, <2>2, <2>3
<1>3. ASSUME NEW e \in Behind(at), NEW f \in ToSet(page.listed)
      PROVE  e[2] < f[2]
  <2>1. PICK i \in 1 .. Size(1) : i <= p /\ e = <<1, i>>
    OBVIOUS
  <2>2. PICK k \in p + 1 .. p + n : f = <<1, k>>
    BY <1>2
  <2> QED
    BY <2>1, <2>2
<1>4. ASSUME NEW e
      PROVE  e \in Behind(page.next) <=> e \in Behind(at) \/ e \in ToSet(page.listed)
  <2>1. \A i \in 1 .. Size(1) : i <= q <=> i <= p \/ i \in p + 1 .. p + n
    BY <1>1
  <2>2. \A i \in p + 1 .. p + n : i \in 1 .. Size(1)
    BY <1>1
  <2> QED
    BY <1>2, <2>1, <2>2
<1>5. ASSUME ~ page.more
      PROVE  Behind(page.next) = Everything
  <2>1. reading.read # "media" /\ Len(reading.lists) = 1
    BY ListsRead DEF OneList
  <2>2. \A e : e \in Everything <=> \E i \in 1 .. Size(1) : e = <<1, i>>
    BY <2>1, EntriesOfLists
  <2>3. \A i \in 1 .. Size(1) : i <= q
    BY <1>1, <1>5
  <2> QED
    BY <2>2, <2>3
<1>6. Behind(page.next) = Behind(at) \cup ToSet(page.listed)
  BY <1>4
<1>7. n > 0 => page.listed # <<>>
  BY <1>2
<1>8. page.listed # <<>> => n > 0
  BY <1>2
<1> QED
  BY <1>2, <1>3, <1>5, <1>6, <1>7, <1>8 DEF GoodPage

LEMMA Fits ==
  ASSUME NEW N \in Int, NEW S \in SUBSET (0 .. N)
  PROVE  LargestFitting(S) = Refused \/ LargestFitting(S) \in S
<1> SUFFICES ASSUME S # {} PROVE Max(S) \in S
  BY DEF LargestFitting
<1> DEFINE T == {n \in 0 .. N : (\E x \in S : x <= n) => \E x \in S : x <= n /\ \A y \in S : y <= n => y <= x}
<1>1. N \in Nat
  <2>1. PICK x : x \in S
    OBVIOUS
  <2>2. x \in 0 .. N
    BY <2>1
  <2> QED
    BY <2>2
<1>2. 0 \in T
  <2>1. ASSUME NEW x \in S, x <= 0
        PROVE  x = 0 /\ \A y \in S : y <= 0 => y <= x
    BY <2>1
  <2> QED
    BY <1>1, <2>1
<1>3. ASSUME NEW n \in 1 .. N, n - 1 \in T
      PROVE  n \in T
  <2>1. CASE n \in S
    <3>1. \A y \in S : y <= n => y <= n
      OBVIOUS
    <3> QED
      BY <2>1, <3>1
  <2>2. CASE n \notin S
    <3>1. \A y \in S : y <= n <=> y <= n - 1
      BY <2>2
    <3>2. (\E x \in S : x <= n - 1) => \E x \in S : x <= n - 1 /\ \A y \in S : y <= n - 1 => y <= x
      BY <1>3
    <3>3. (\E x \in S : x <= n) => \E x \in S : x <= n /\ \A y \in S : y <= n => y <= x
      BY <3>1, <3>2
    <3> QED
      BY <3>3
  <2> QED
    BY <2>1, <2>2
<1>4. N \in T
  <2> HIDE DEF T
  <2>1. \A n \in 0 .. N : n \in T
    BY <1>1, <1>2, <1>3, UpTo
  <2> QED
    BY <1>1, <2>1
<1>5. \E x \in S : \A y \in S : x >= y
  <2>1. \A y \in S : y \in Nat /\ y <= N
    OBVIOUS
  <2>2. (\E x \in S : x <= N) => \E x \in S : x <= N /\ \A y \in S : y <= N => y <= x
    BY <1>4
  <2>3. \E x \in S : \A y \in S : y <= x
    BY <2>1, <2>2
  <2> QED
    BY <2>1, <2>3
<1> QED
  BY <1>5 DEF Max

LEMMA CountFits ==
  ASSUME NEW N \in Int, NEW length, DOMAIN length = 0 .. N, FittingCount(length) # Refused
  PROVE  FittingCount(length) \in 0 .. N /\ (FittingCount(length) = 0 => N = 0)
<1> DEFINE S == {c \in DOMAIN length : length[c] <= Room}
           count == LargestFitting(S)
<1>1. FittingCount(length) = IF count > 0 \/ (count = 0 /\ DOMAIN length = {0}) THEN count ELSE Refused
  BY DEF FittingCount
<1>2. S \in SUBSET (0 .. N)
  OBVIOUS
<1> HIDE DEF S
<1>3. count = Refused \/ count \in S
  BY <1>2, Fits
<1> HIDE DEF count
<1>4. Refused = -1
  BY DEF Refused
<1>5. count \in 0 .. N
  BY <1>1, <1>2, <1>3, <1>4
<1>6. ASSUME count = 0
      PROVE  N = 0
  <2>1. 0 .. N = {0}
    BY <1>1, <1>4, <1>6
  <2>2. N \in 0 .. N
    BY <1>5
  <2> QED
    BY <2>1, <2>2
<1>7. FittingCount(length) = count
  BY <1>1, <1>4
<1> QED
  BY <1>5, <1>6, <1>7

-----------------------------------------------------------------------------
LEMMA SequelPage ==
  ASSUME PagesInv, reading.read \in Sequel, NEW page, NEW n \in Nat,
         page.listed = Entries(1, at[2], n), page.next = <<1, at[2] + n>>,
         at[2] + n <= Size(1),
         ~ page.more => Size(1) <= at[2] + n,
         page.more /\ WithinReach => n > 0,
         reading.read = "text" /\ 0 < at[2] + n /\ at[2] + n < Size(1) => List(1)[at[2] + n] # "high"
  PROVE  GoodPage(page)
<1> DEFINE p == at[2]
           q == at[2] + n
<1>1. reading \in Reading /\ reading.read \in OneList \cup {"text"} /\ p \in Nat /\ q \in Nat
      /\ reading.read # "history" /\ reading.read # "clients" /\ reading.read # "media"
  BY DEF Sequel, OneList, PagesInv, PlaceOK
<1>2. \A e : e \in Behind(at) <=> \E i \in 1 .. Size(1) : i <= p /\ e = <<1, i>>
  BY <1>1, BehindInList
<1>3. page.next[1] = 1 /\ page.next[2] = q
  OBVIOUS
<1>4. \A e : e \in Behind(page.next) <=> \E i \in 1 .. Size(1) : i <= q /\ e = <<1, i>>
  BY <1>1, <1>3, BehindInList
<1>5. PlaceOK(page.next)
  BY <1>1, <1>3 DEF PlaceOK
<1>6. \A i \in 1 .. Size(1) : i <= q <=> i <= p + n
  OBVIOUS
<1>7. page.next[2] = p + n
  BY <1>3
<1> HIDE DEF p, q
<1>8. page.listed = Entries(1, p, n) /\ p + n <= Size(1) /\ (~ page.more => Size(1) <= p + n)
      /\ (page.more /\ WithinReach => n > 0) /\ p = at[2]
  BY DEF p
<1> QED
  BY <1>1, <1>2, <1>4, <1>5, <1>6, <1>7, <1>8, PageOfStretch

LEMMA ListedPage ==
  ASSUME NEW records \in Int, NEW total \in Int, NEW offset \in Nat, records <= total,
         ~ ListResult(records, total, offset).refused
  PROVE  \E n \in Nat :
           /\ ListResult(records, total, offset).listed = Entries(1, offset, n)
           /\ ListResult(records, total, offset).next = <<1, offset + n>>
           /\ (ListResult(records, total, offset).more <=> offset + n < total)
           /\ n > 0 => offset + n <= records
           /\ n = 0 => records <= offset
<1> DEFINE page == Least(MaxListItems, Most(records - offset, 0))
           length == [c \in 0 .. page |-> Chars(1, offset, c) + OrOne(offset + c < total)]
           n == FittingCount(length)
<1>1. MaxListItems \in Nat /\ MaxListItems > 0
  BY PagingAssumption
<1>2. page \in Nat /\ (page > 0 => offset + page <= records) /\ (page = 0 => records <= offset)
  BY <1>1 DEF Least, Most
<1>3. ListResult(records, total, offset) = PageOf(n, Entries(1, offset, n), offset + n < total, <<1, offset + n>>)
  BY DEF ListResult
<1> HIDE DEF page
<1>4. DOMAIN length = 0 .. page
  OBVIOUS
<1> HIDE DEF length
<1>5. n # Refused
  <2> HIDE DEF n
  <2>1. ListResult(records, total, offset).refused = (n = Refused)
    BY <1>3 DEF PageOf
  <2> QED
    BY <2>1
<1>6. n \in 0 .. page /\ (n = 0 => page = 0)
  BY <1>2, <1>4, <1>5, CountFits
<1> HIDE DEF n
<1>7. n \in Nat /\ (n > 0 => offset + n <= records) /\ (n = 0 => records <= offset)
  BY <1>2, <1>6
<1>8. /\ ListResult(records, total, offset).listed = Entries(1, offset, n)
      /\ ListResult(records, total, offset).next = <<1, offset + n>>
  BY <1>3 DEF PageOf
<1>9. ListResult(records, total, offset).more <=> offset + n < total
  <2> DEFINE more == offset + n < total
             result == ListResult(records, total, offset)
  <2>1. result = PageOf(n, Entries(1, offset, n), more, <<1, offset + n>>)
    BY <1>3
  <2>2. more \in BOOLEAN
    OBVIOUS
  <2> HIDE DEF more, result
  <2>3. result.more = more
    BY <2>1 DEF PageOf
  <2> QED
    BY <2>2, <2>3 DEF more, result
<1> QED
  BY <1>7, <1>8, <1>9

(* Where reading on stops, of a read whose place is what to skip.           *)
LEMMA SequelPlace ==
  ASSUME PagesInv, reading.read \in Sequel
  PROVE  at[2] \in Nat /\ Size(1) \in Nat /\ at[2] <= Size(1) /\ Len(seen) = at[2]
         /\ reading.limit \in Nat /\ reading.limit > 0
<1>1. reading \in Reading /\ PlaceOK(at) /\ Len(seen) = at[2]
  BY DEF PagesInv
<1>2. Size(1) \in Nat /\ reading.limit \in Nat /\ reading.limit > 0
  <2>1. reading.read \in OneList \cup {"text"}
    BY DEF Sequel, OneList
  <2> QED
    BY <1>1, <2>1, ListsRead
<1> QED
  BY <1>1, <1>2 DEF PlaceOK

LEMMA ListedPageIsGood ==
  ASSUME PagesInv, reading.read \in Sequel \ {"text"}, NEW page, NEW records \in Int,
         records <= Size(1), page = ListResult(records, Size(1), at[2]), ~ page.refused,
         page.more /\ WithinReach /\ at[2] < Size(1) => at[2] < records
  PROVE  GoodPage(page)
<1>1. at[2] \in Nat /\ Size(1) \in Nat /\ at[2] <= Size(1)
  BY SequelPlace
<1>2. PICK n \in Nat :
        /\ page.listed = Entries(1, at[2], n)
        /\ page.next = <<1, at[2] + n>>
        /\ (page.more <=> at[2] + n < Size(1))
        /\ n > 0 => at[2] + n <= records
        /\ n = 0 => records <= at[2]
  <2> DEFINE p == at[2]
             total == Size(1)
  <2>1. p \in Nat /\ total \in Int /\ records <= total /\ ~ ListResult(records, total, p).refused
    BY <1>1
  <2> HIDE DEF p, total
  <2>2. \E n \in Nat :
          /\ ListResult(records, total, p).listed = Entries(1, p, n)
          /\ ListResult(records, total, p).next = <<1, p + n>>
          /\ ListResult(records, total, p).more <=> p + n < total
          /\ n > 0 => p + n <= records
          /\ n = 0 => records <= p
    BY <2>1, ListedPage
  <2>3. page = ListResult(records, total, p)
    BY DEF p, total
  <2>4. \E n \in Nat :
          /\ page.listed = Entries(1, p, n)
          /\ page.next = <<1, p + n>>
          /\ page.more <=> p + n < total
          /\ n > 0 => p + n <= records
          /\ n = 0 => records <= p
    BY <2>2, <2>3
  <2> QED
    BY <2>4 DEF p, total
<1>3. at[2] + n <= Size(1)
  BY <1>1, <1>2
<1>4. ~ page.more => Size(1) <= at[2] + n
  BY <1>1, <1>2
<1>5. page.more /\ WithinReach => n > 0
  BY <1>1, <1>2
<1> QED
  BY <1>2, <1>3, <1>4, <1>5, SequelPage

LEMMA QueueIsGood ==
  ASSUME PagesInv, reading.read = "queue", ~ QueueRead.refused
  PROVE  GoodPage(QueueRead)
<1>1. at[2] \in Nat /\ Size(1) \in Nat /\ Len(seen) = at[2] /\ ArrPage \in Nat
  BY SequelPlace, PagingAssumption DEF Sequel
<1>2. Least(Size(1), ArrPage) \in Int /\ Least(Size(1), ArrPage) <= Size(1)
  BY <1>1 DEF Least
<1>3. WithinReach /\ at[2] < Size(1) => at[2] < Least(Size(1), ArrPage)
  BY <1>1 DEF WithinReach, Least
<1>4. QueueRead = ListResult(Least(Size(1), ArrPage), Size(1), at[2])
  BY DEF QueueRead
<1> QED
  BY <1>2, <1>3, <1>4, ListedPageIsGood DEF Sequel

(* Whole pages are never fewer than what is asked for.                     *)
LEMMA WholePages ==
  ASSUME NEW limit \in Nat, NEW page \in Nat, page > 0
  PROVE  /\ (limit + page - 1) \div page \in Nat
         /\ ((limit + page - 1) \div page) * page \in Nat
         /\ limit <= ((limit + page - 1) \div page) * page
<1> DEFINE a == limit + page - 1
           d == a \div page
<1>1. a \in Nat
  OBVIOUS
<1>2. d \in Nat /\ a < (d + 1) * page /\ d * page \in Nat /\ (d + 1) * page = d * page + page
  BY <1>1
<1> HIDE DEF d
<1> QED
  BY <1>2 DEF d

LEMMA BlocklistIsGood ==
  ASSUME PagesInv, reading.read = "blocklist", ~ BlocklistRead.refused
  PROVE  GoodPage(BlocklistRead)
<1> DEFINE reach == ScanPages * ArrPage
           limit == Least(at[2] + MaxListItems, reach)
           page == Least(limit, ArrPage)
           pages == (limit + page - 1) \div page
           walked == pages * page
<1>1. /\ at[2] \in Nat /\ Size(1) \in Nat /\ Len(seen) = at[2]
      /\ ArrPage \in Nat \ {0} /\ ScanPages \in Nat \ {0} /\ MaxListItems \in Nat \ {0}
  BY SequelPlace, PagingAssumption DEF Sequel
<1>2. reach \in Nat /\ reach > 0
  BY <1>1
<1>3. WithinReach => at[2] < reach
  BY <1>1 DEF WithinReach
<1>4. BlocklistRead = ListResult(Least(Size(1), walked), Size(1), at[2])
  BY DEF BlocklistRead
<1> HIDE DEF reach
<1>5. limit \in Nat /\ limit > 0 /\ (at[2] < reach => at[2] < limit)
  BY <1>1, <1>2 DEF Least
<1> HIDE DEF limit
<1>6. page \in Nat /\ page > 0
  BY <1>1, <1>5 DEF Least
<1> HIDE DEF page
<1>7. walked \in Nat /\ limit <= walked
  BY <1>5, <1>6, WholePages
<1> HIDE DEF walked
<1>8. Least(Size(1), walked) \in Int /\ Least(Size(1), walked) <= Size(1)
  BY <1>1, <1>7 DEF Least
<1>9. WithinReach /\ at[2] < Size(1) => at[2] < Least(Size(1), walked)
  BY <1>1, <1>3, <1>5, <1>7 DEF Least
<1> QED
  BY <1>4, <1>8, <1>9, ListedPageIsGood DEF Sequel

LEMMA ChildrenAreGood ==
  ASSUME PagesInv, reading.read = "children", ~ ChildrenRead.refused
  PROVE  GoodPage(ChildrenRead)
<1> DEFINE records == Least(Size(1), at[2] + MaxListItems)
<1>1. at[2] \in Nat /\ Size(1) \in Nat /\ MaxListItems \in Nat \ {0}
  BY SequelPlace, PagingAssumption DEF Sequel
<1>2. records \in Int /\ records <= Size(1) /\ (at[2] < Size(1) => at[2] < records)
  BY <1>1 DEF Least
<1>3. ChildrenRead = ListResult(records, Size(1), at[2])
  BY DEF ChildrenRead
<1> QED
  BY <1>2, <1>3, ListedPageIsGood DEF Sequel

LEMMA PeopleAreGood ==
  ASSUME PagesInv, reading.read = "people", ~ PeopleRead.refused
  PROVE  GoodPage(PeopleRead)
<1>1. Size(1) \in Int /\ Size(1) <= Size(1)
  BY SequelPlace DEF Sequel
<1>2. PeopleRead = ListResult(Size(1), Size(1), at[2])
  BY DEF PeopleRead
<1> QED
  BY <1>1, <1>2, ListedPageIsGood DEF Sequel

LEMMA ScoresAreGood ==
  ASSUME PagesInv, reading.read = "scores"
  PROVE  GoodPage(ScoresRead)
<1> DEFINE n == Least(MaxListItems, Size(1) - at[2])
<1>1. at[2] \in Nat /\ Size(1) \in Nat /\ at[2] <= Size(1) /\ MaxListItems \in Nat \ {0}
  BY SequelPlace, PagingAssumption DEF Sequel
<1>2. n \in Nat /\ at[2] + n <= Size(1) /\ (at[2] + n < Size(1) => n > 0)
  BY <1>1 DEF Least
<1>3. ScoresRead = PageOf(n, Entries(1, at[2], n), at[2] + n < Size(1), <<1, at[2] + n>>)
  BY DEF ScoresRead
<1> HIDE DEF n
<1>4. /\ ScoresRead.listed = Entries(1, at[2], n) /\ ScoresRead.next = <<1, at[2] + n>>
      /\ (ScoresRead.more <=> at[2] + n < Size(1))
  BY <1>3 DEF PageOf
<1>5. (~ ScoresRead.more => Size(1) <= at[2] + n) /\ (ScoresRead.more => n > 0)
  BY <1>1, <1>2, <1>4
<1> QED
  BY <1>2, <1>4, <1>5, SequelPage DEF Sequel

LEMMA JobsAreGood ==
  ASSUME PagesInv, reading.read = "jobs", ~ JobsRead.refused
  PROVE  GoodPage(JobsRead)
<1> DEFINE slots == Least(reading.limit, Most(Size(1) - at[2], 0))
           length == [c \in 0 .. slots |-> Chars(1, at[2], c) + OrOne(c < Size(1))]
           n == FittingCount(length)
<1>1. /\ at[2] \in Nat /\ Size(1) \in Nat /\ at[2] <= Size(1) /\ Len(seen) = at[2]
      /\ reading.limit \in Nat /\ reading.limit > 0
  BY SequelPlace DEF Sequel
<1>2. slots \in Nat /\ at[2] + slots <= Size(1) /\ (at[2] < Size(1) => slots > 0)
  BY <1>1 DEF Least, Most
<1>3. JobsRead = PageOf(n, Entries(1, at[2], n), n < Size(1), <<1, at[2] + n>>)
  BY DEF JobsRead
<1> HIDE DEF slots
<1>4. DOMAIN length = 0 .. slots
  OBVIOUS
<1> HIDE DEF length
<1>5. n # Refused
  <2> HIDE DEF n
  <2>1. JobsRead.refused = (n = Refused)
    BY <1>3 DEF PageOf
  <2> QED
    BY <2>1
<1>6. n \in 0 .. slots /\ (n = 0 => slots = 0)
  BY <1>2, <1>4, <1>5, CountFits
<1> HIDE DEF n
<1>7. n \in Nat /\ at[2] + n <= Size(1) /\ (at[2] < Size(1) => n > 0)
  BY <1>1, <1>2, <1>6
<1>8. /\ JobsRead.listed = Entries(1, at[2], n) /\ JobsRead.next = <<1, at[2] + n>>
      /\ (JobsRead.more <=> n < Size(1))
  BY <1>3 DEF PageOf
<1>9. ~ JobsRead.more => Size(1) <= at[2] + n
  BY <1>1, <1>7, <1>8
<1>10. WithinReach => n > 0
  BY <1>1, <1>7 DEF WithinReach
<1> QED
  BY <1>7, <1>8, <1>9, <1>10, SequelPage DEF Sequel

LEMMA HistoryIsGood ==
  ASSUME PagesInv, reading.read = "history", ~ HistoryRead.refused
  PROVE  GoodPage(HistoryRead)
<1> DEFINE page == at[1]
           limit == reading.limit
           size == Size(1)
           first == (page - 1) * limit
           records == Least(limit, Most(size - first, 0))
           cut(c) == at[2] + c < records
           more(c) == cut(c) \/ (records = limit /\ page * limit < size)
           length == [c \in 0 .. records - at[2] |-> Chars(1, first + at[2], c) + OrOne(more(c))]
           n == FittingCount(length)
           p == first + at[2]
           next == IF cut(n) THEN <<page, at[2] + n>> ELSE <<page + 1, 0>>
           q == (next[1] - 1) * limit + next[2]
<1>1. /\ reading \in Reading /\ reading.read \in OneList \cup {"text"}
      /\ page \in Nat /\ page > 0 /\ at[2] \in Nat /\ at[2] < limit
  BY DEF PagesInv, PlaceOK, OneList
<1>2. limit \in Nat /\ limit > 0 /\ size \in Nat
  BY <1>1, ListsRead
<1>3. HistoryRead = PageOf(n, Entries(1, p, n), more(n), next)
  BY DEF HistoryRead
<1>4. DOMAIN length = 0 .. records - at[2]
  OBVIOUS
<1>5. first \in Nat /\ page * limit = first + limit
  BY <1>1, <1>2
<1>6. /\ \A e : e \in Behind(at) <=> \E i \in 1 .. Size(1) : i <= p /\ e = <<1, i>>
      /\ \A e : e \in Behind(next) <=> \E i \in 1 .. Size(1) : i <= q /\ e = <<1, i>>
  <2>1. p = IF reading.read = "history" THEN (at[1] - 1) * reading.limit + at[2] ELSE at[2]
    OBVIOUS
  <2>2. q = IF reading.read = "history" THEN (next[1] - 1) * reading.limit + next[2] ELSE next[2]
    OBVIOUS
  <2> HIDE DEF p, q, next
  <2>3. \A e : e \in Behind(at) <=> \E i \in 1 .. Size(1) : i <= p /\ e = <<1, i>>
    BY <1>1, <2>1, BehindInList
  <2>4. \A e : e \in Behind(next) <=> \E i \in 1 .. Size(1) : i <= q /\ e = <<1, i>>
    BY <1>1, <2>2, BehindInList
  <2> QED
    BY <2>3, <2>4
<1>7. next[2] < limit /\ next[1] \in Nat /\ next[1] > 0 /\ next[2] \in Nat => PlaceOK(next)
  BY DEF PlaceOK, Sequel
<1> HIDE DEF first
<1>8. /\ records \in Nat /\ records <= limit
      /\ records > 0 => first + records <= size
      /\ records < limit => size <= first + records
  BY <1>2, <1>5 DEF Least, Most
<1> HIDE DEF records, length
<1>9. n # Refused
  <2> HIDE DEF n
  <2>1. HistoryRead.refused = (n = Refused)
    BY <1>3 DEF PageOf
  <2> QED
    BY <2>1
<1>10. n \in 0 .. records - at[2] /\ (n = 0 => records = at[2])
  <2>1. records - at[2] \in Int
    BY <1>1, <1>8
  <2>2. n \in 0 .. records - at[2] /\ (n = 0 => records - at[2] = 0)
    BY <1>4, <1>9, <2>1, CountFits
  <2> QED
    BY <1>1, <1>8, <2>2
<1> HIDE DEF n
<1>11. n \in Nat /\ at[2] + n <= records /\ p \in Nat
  BY <1>1, <1>5, <1>8, <1>10
<1>12. n > 0 => p + n <= size
  BY <1>1, <1>2, <1>5, <1>8, <1>11
<1>13. /\ cut(n) => next[1] = page /\ next[2] = at[2] + n /\ q = p + n
       /\ ~ cut(n) => next[1] = page + 1 /\ next[2] = 0 /\ q = first + limit
  <2>1. cut(n) => next = <<page, at[2] + n>>
    OBVIOUS
  <2>2. ~ cut(n) => next = <<page + 1, 0>>
    OBVIOUS
  <2>3. cut(n) => next[1] = page /\ next[2] = at[2] + n
    BY <2>1
  <2>4. ~ cut(n) => next[1] = page + 1 /\ next[2] = 0
    BY <2>2
  <2>5. cut(n) => q = p + n
    <3> HAVE cut(n)
    <3>1. q = (page - 1) * limit + (at[2] + n)
      BY <2>3
    <3> QED
      BY <3>1, <1>1, <1>2, <1>11 DEF first
  <2>6. ~ cut(n) => q = first + limit
    <3> HAVE ~ cut(n)
    <3>1. q = ((page + 1) - 1) * limit + 0
      BY <2>4
    <3>2. (page + 1) - 1 = page /\ page * limit \in Nat
      BY <1>1, <1>2
    <3> QED
      BY <3>1, <3>2, <1>5
  <2> QED
    BY <2>3, <2>4, <2>5, <2>6
<1> HIDE DEF next, q
<1>14. PlaceOK(next)
  BY <1>1, <1>2, <1>7, <1>8, <1>11, <1>13
<1>15. \A i \in 1 .. size : i <= q <=> i <= p + n
  <2>1. CASE cut(n)
    BY <2>1, <1>13
  <2>2. CASE ~ cut(n)
    <3>1. p + n = first + records /\ q = first + limit
      BY <2>2, <1>1, <1>5, <1>8, <1>11, <1>13
    <3> QED
      BY <3>1, <1>2, <1>5, <1>8
  <2> QED
    BY <2>1, <2>2
<1>16. more(n) => n > 0
  BY <1>1, <1>8, <1>10, <1>11
<1>17. ~ more(n) => size <= p + n
  <2> HAVE ~ more(n)
  <2>1. p + n = first + records
    BY <1>1, <1>5, <1>8, <1>11
  <2> QED
    BY <2>1, <1>2, <1>5, <1>8
<1>18. reading.read \notin Sequel
  BY DEF Sequel
<1> DEFINE ahead == more(n)
           result == HistoryRead
<1>19. result = PageOf(n, Entries(1, p, n), ahead, next) /\ ahead \in BOOLEAN
  BY <1>3
<1>20. (ahead => n > 0) /\ (~ ahead => size <= p + n)
  BY <1>16, <1>17
<1> HIDE DEF ahead, result, p
<1>21. result.listed = Entries(1, p, n) /\ result.next = next /\ result.more = ahead
  BY <1>19 DEF PageOf
<1>22. GoodPage(result)
  BY <1>1, <1>6, <1>11, <1>12, <1>14, <1>15, <1>18, <1>19, <1>20, <1>21, PageOfStretch
<1> QED
  BY <1>22 DEF result

-----------------------------------------------------------------------------
(* One stretch after another.                                              *)
LEMMA OneAfterAnother ==
  ASSUME NEW s \in Seq(Nat \X Nat), NEW t \in Seq(Nat \X Nat), Ordered(s), Ordered(t),
         \A e \in ToSet(s), f \in ToSet(t) : e[1] = f[1] => e[2] < f[2]
  PROVE  /\ s \o t \in Seq(Nat \X Nat)
         /\ Len(s \o t) = Len(s) + Len(t)
         /\ Ordered(s \o t)
         /\ ToSet(s \o t) = ToSet(s) \cup ToSet(t)
         /\ t # <<>> => Last(s \o t) = Last(t)
         /\ t = <<>> => s \o t = s
<1> DEFINE u == s \o t
           M == Len(s)
           N == Len(t)
<1>1. M \in Nat /\ N \in Nat /\ DOMAIN s = 1 .. M /\ DOMAIN t = 1 .. N
  OBVIOUS
<1>2. u \in Seq(Nat \X Nat) /\ Len(u) = M + N /\ DOMAIN u = 1 .. M + N
  OBVIOUS
<1>3. \A i \in 1 .. M : u[i] = s[i]
  OBVIOUS
<1>4. \A i \in 1 .. N : u[M + i] = t[i]
  OBVIOUS
<1>5. t = <<>> => u = s
  OBVIOUS
<1>6. t # <<>> => N > 0
  OBVIOUS
<1> HIDE DEF u, M, N
<1>7. \A i \in 1 .. M + N : i \notin 1 .. M => i - M \in 1 .. N /\ u[i] = t[i - M]
  <2> TAKE i \in 1 .. M + N
  <2> HAVE i \notin 1 .. M
  <2>1. i - M \in 1 .. N /\ M + (i - M) = i
    BY <1>1
  <2> QED
    BY <1>4, <2>1
<1>8. ASSUME NEW i \in 1 .. M + N, NEW j \in 1 .. M + N, i < j, u[i][1] = u[j][1]
      PROVE  u[i][2] < u[j][2]
  <2>1. CASE j \in 1 .. M
    <3>1. i \in 1 .. M
      BY <1>1, <1>8, <2>1
    <3> QED
      BY <1>1, <1>3, <1>8, <2>1, <3>1 DEF Ordered
  <2>2. CASE j \notin 1 .. M /\ i \in 1 .. M
    <3>1. u[i] \in ToSet(s) /\ u[j] \in ToSet(t)
      BY <1>1, <1>3, <1>7, <2>2 DEF ToSet
    <3> QED
      BY <1>8, <3>1
  <2>3. CASE j \notin 1 .. M /\ i \notin 1 .. M
    <3>1. /\ i - M \in 1 .. N /\ j - M \in 1 .. N
          /\ u[i] = t[i - M] /\ u[j] = t[j - M]
      BY <1>7, <2>3
    <3>2. i - M < j - M
      BY <1>1, <1>8
    <3> QED
      BY <1>1, <1>8, <3>1, <3>2 DEF Ordered
  <2> QED
    BY <2>1, <2>2, <2>3
<1>9. Ordered(u)
  BY <1>2, <1>8 DEF Ordered
<1>10. ToSet(u) = ToSet(s) \cup ToSet(t)
  <2>1. ASSUME NEW i \in 1 .. M + N
        PROVE  u[i] \in ToSet(s) \cup ToSet(t)
    BY <1>1, <1>3, <1>7 DEF ToSet
  <2>2. ASSUME NEW i \in 1 .. M
        PROVE  s[i] \in ToSet(u)
    <3>1. i \in 1 .. M + N
      BY <1>1
    <3> QED
      BY <1>2, <1>3, <3>1 DEF ToSet
  <2>3. ASSUME NEW i \in 1 .. N
        PROVE  t[i] \in ToSet(u)
    <3>1. M + i \in 1 .. M + N
      BY <1>1
    <3> QED
      BY <1>2, <1>4, <3>1 DEF ToSet
  <2>4. ToSet(u) \subseteq ToSet(s) \cup ToSet(t)
    BY <1>2, <2>1 DEF ToSet
  <2>5. ToSet(s) \subseteq ToSet(u) /\ ToSet(t) \subseteq ToSet(u)
    BY <1>1, <2>2, <2>3 DEF ToSet
  <2> QED
    BY <2>4, <2>5
<1>11. t # <<>> => Last(u) = Last(t)
  <2> HAVE t # <<>>
  <2>1. N \in 1 .. N
    BY <1>1, <1>6
  <2>2. u[M + N] = t[N]
    BY <1>4, <2>1
  <2> QED
    BY <1>2, <2>2 DEF Last, N
<1> QED
  BY <1>2, <1>5, <1>9, <1>10, <1>11 DEF u, M, N

-----------------------------------------------------------------------------
LEMMA ShrinkExists ==
  ASSUME NEW N \in Nat, NEW Fitting, 0 \in Fitting
  PROVE  \E f : f = [n \in 0 .. N |-> IF n \in Fitting THEN n ELSE f[(n * 8) \div 10]]
<1> DEFINE Goes(f, m) == f[m] = IF m \in Fitting THEN m ELSE f[(m * 8) \div 10]
           T == {n \in 0 .. N : \E f : \A m \in 0 .. n : Goes(f, m)}
<1>1. 0 \in T
  <2> DEFINE f == [m \in 0 .. 0 |-> 0]
  <2>1. \A m \in 0 .. 0 : Goes(f, m)
    OBVIOUS
  <2> HIDE DEF Goes, f
  <2> QED
    BY <2>1
<1>2. ASSUME NEW n \in 1 .. N, n - 1 \in T
      PROVE  n \in T
  <2>1. PICK f : \A m \in 0 .. n - 1 : Goes(f, m)
    BY <1>2
  <2> DEFINE g == [m \in 0 .. n |-> IF m \in 0 .. n - 1 THEN f[m]
                                    ELSE IF m \in Fitting THEN m ELSE f[(m * 8) \div 10]]
  <2>2. ASSUME NEW m \in 0 .. n
        PROVE  Goes(g, m)
    <3> DEFINE k == (m * 8) \div 10
    <3>1. m > 0 => k \in 0 .. n - 1 /\ k \in 0 .. n
      OBVIOUS
    <3> HIDE DEF k
    <3>2. m > 0 => g[k] = f[k]
      BY <3>1
    <3>3. CASE m \in 0 .. n - 1
      <4>1. g[m] = f[m]
        BY <3>3
      <4>2. f[m] = IF m \in Fitting THEN m ELSE f[k]
        BY <2>1, <3>3 DEF k
      <4>3. m \notin Fitting => m > 0
        OBVIOUS
      <4>4. g[m] = IF m \in Fitting THEN m ELSE g[k]
        BY <3>2, <4>1, <4>2, <4>3
      <4> QED
        BY <4>4 DEF k
    <3>4. CASE m \notin 0 .. n - 1
      <4>1. m > 0
        BY <3>4
      <4>2. g[m] = IF m \in Fitting THEN m ELSE f[k]
        BY <3>4 DEF k
      <4>3. g[m] = IF m \in Fitting THEN m ELSE g[k]
        BY <3>2, <4>1, <4>2
      <4> QED
        BY <4>3 DEF k
    <3> QED
      BY <3>3, <3>4
  <2> HIDE DEF g, Goes
  <2>3. \E h : \A m \in 0 .. n : Goes(h, m)
    BY <2>2
  <2> QED
    BY <2>3
<1>3. N \in T
  <2> HIDE DEF T
  <2>1. \A n \in 0 .. N : n \in T
    BY <1>1, <1>2, UpTo
  <2> QED
    BY <2>1
<1>4. PICK f : \A m \in 0 .. N : Goes(f, m)
  BY <1>3
<1> DEFINE g == [m \in 0 .. N |-> f[m]]
<1>5. ASSUME NEW m \in 0 .. N
      PROVE  g[m] = IF m \in Fitting THEN m ELSE g[(m * 8) \div 10]
  <2>1. m > 0 => (m * 8) \div 10 \in 0 .. N
    OBVIOUS
  <2>2. m \notin Fitting => m > 0
    OBVIOUS
  <2> QED
    BY <1>4, <2>1, <2>2
<1>6. g = [m \in 0 .. N |-> IF m \in Fitting THEN m ELSE g[(m * 8) \div 10]]
  <2>1. g = [m \in 0 .. N |-> g[m]]
    OBVIOUS
  <2> HIDE DEF g
  <2> QED
    BY <1>5, <2>1
<1> HIDE DEF g
<1> QED
  BY <1>6

(* It leaves something of what is not nothing.                             *)
LEMMA ShrinkLeaves ==
  ASSUME NEW N \in Nat, NEW Fitting, 0 \in Fitting, N > 0 => 1 \in Fitting, NEW f,
         f = [n \in 0 .. N |-> IF n \in Fitting THEN n ELSE f[(n * 8) \div 10]]
  PROVE  f[N] \in 0 .. N /\ (N > 0 => f[N] > 0)
<1> DEFINE Some(m) == f[m] \in 0 .. m /\ (m > 0 => f[m] > 0)
           T == {n \in 0 .. N : \A m \in 0 .. n : Some(m)}
<1>0. \A n \in 0 .. N : f[n] = IF n \in Fitting THEN n ELSE f[(n * 8) \div 10]
  OBVIOUS
<1>1. 0 \in T
  <2>1. f[0] = 0
    BY <1>0
  <2> QED
    BY <2>1
<1>2. ASSUME NEW n \in 1 .. N, n - 1 \in T
      PROVE  n \in T
  <2>1. \A m \in 0 .. n - 1 : Some(m)
    BY <1>2
  <2>2. Some(n)
    <3>1. CASE n \in Fitting
      <4>1. f[n] = n
        BY <1>0, <3>1
      <4> QED
        BY <4>1
    <3>2. CASE n \notin Fitting
      <4> DEFINE k == (n * 8) \div 10
      <4>1. n # 1
        BY <3>2
      <4>2. k \in 1 .. n - 1
        BY <4>1
      <4>3. f[n] = f[k]
        BY <1>0, <3>2
      <4> HIDE DEF k
      <4>4. f[k] \in 0 .. k /\ f[k] > 0
        <5>1. k \in 0 .. n - 1 /\ k > 0
          BY <4>2
        <5>2. Some(k)
          BY <2>1, <5>1
        <5> QED
          BY <5>1, <5>2
      <4> QED
        BY <4>2, <4>3, <4>4
    <3> QED
      BY <3>1, <3>2
  <2> HIDE DEF Some
  <2>3. \A m \in 0 .. n : Some(m)
    BY <2>1, <2>2
  <2> QED
    BY <2>3
<1>3. N \in T
  <2> HIDE DEF T
  <2>1. \A n \in 0 .. N : n \in T
    BY <1>1, <1>2, UpTo
  <2> QED
    BY <2>1
<1> QED
  BY <1>3

(* What a text's page always has room for.                                 *)
LEMMA JsonOfLittle ==
  ASSUME NEW from \in Nat
  PROVE  /\ Json(from, 0) = 2
         /\ List(1)[from + 1] \in Units => Json(from, 1) \in 3 .. 8
<1>1. Json(from, 0) = 2
  <2> DEFINE Is(f) == f = [k \in 0 .. 0 |-> IF k = 0 THEN 2 ELSE f[k - 1] + Unit(from + k, from + 1, from + 0)]
             f == [k \in 0 .. 0 |-> 2]
  <2>1. Is(f)
    OBVIOUS
  <2>2. Json(from, 0) = (CHOOSE g : Is(g))[0]
    BY DEF Json
  <2>3. Is(CHOOSE g : Is(g))
    <3> HIDE DEF Is, f
    <3> QED
      BY <2>1
  <2>4. \A g : Is(g) => g[0] = 2
    OBVIOUS
  <2> HIDE DEF Is
  <2> QED
    BY <2>2, <2>3, <2>4
<1>2. ASSUME List(1)[from + 1] \in Units
      PROVE  Json(from, 1) \in 3 .. 8
  <2> DEFINE last == Unit(from + 1, from + 1, from + 1)
             Is(f) == f = [k \in 0 .. 1 |-> IF k = 0 THEN 2 ELSE f[k - 1] + Unit(from + k, from + 1, from + 1)]
             f == [k \in 0 .. 1 |-> IF k = 0 THEN 2 ELSE 2 + last]
  <2>1. Is(f)
    <3>1. f[0] = 2 /\ f[1] = 2 + last
      OBVIOUS
    <3>2. \A k \in 0 .. 1 : f[k] = IF k = 0 THEN 2 ELSE f[k - 1] + Unit(from + k, from + 1, from + 1)
      BY <3>1
    <3>3. f = [k \in 0 .. 1 |-> f[k]]
      OBVIOUS
    <3> HIDE DEF f
    <3> QED
      BY <3>2, <3>3
  <2>2. Json(from, 1) = (CHOOSE g : Is(g))[1]
    BY DEF Json
  <2>3. Is(CHOOSE g : Is(g))
    <3> HIDE DEF Is, f
    <3> QED
      BY <2>1
  <2>4. \A g : Is(g) => g[1] = 2 + last
    <3> TAKE g
    <3> HAVE Is(g)
    <3>1. g[0] = 2
      OBVIOUS
    <3>2. g[1] = g[0] + Unit(from + 1, from + 1, from + 1)
      OBVIOUS
    <3> QED
      BY <3>1, <3>2
  <2>5. last \in {1, 6}
    BY <1>2 DEF Unit, Units
  <2> HIDE DEF Is, last
  <2>6. Json(from, 1) = 2 + last
    BY <2>2, <2>3, <2>4
  <2> QED
    BY <2>5, <2>6
<1> QED
  BY <1>1, <1>2

LEMMA TextIsGood ==
  ASSUME PagesInv, reading.read = "text", ~ TextRead.refused
  PROVE  GoodPage(TextRead)
<1> DEFINE from == at[2]
           size == Size(1)
           text == List(1)
           N == Least(reading.limit, size - from)
           Fitting == {n \in 0 .. N : Json(from, n) <= Room}
           Is(f) == f = [n \in 0 .. N |-> IF Json(from, n) <= Room THEN n ELSE f[(n * 8) \div 10]]
           m == Shrunk(from)[N]
           end == from + m
           splits == end < size /\ end > from /\ text[end] = "high"
           n == end - from + (IF ~ splits THEN 0 ELSE IF end - from = 1 THEN 1 ELSE -1)
           more == from + n < size
<1>1. /\ from \in Nat /\ size \in Nat /\ from <= size
      /\ reading.limit \in Nat /\ reading.limit > 0
  BY SequelPlace DEF Sequel
<1>2. /\ text \in Seq(Units) /\ HalvesApart(text) /\ Room \in Nat
  BY ListsRead DEF PagesInv, List, Room
<1>3. TextRead = PageOf(IF Room < 10 THEN Refused ELSE n, Entries(1, from, n), more, <<1, from + n>>)
  BY DEF TextRead
<1>4. Room >= 10
  <2>1. Room < 10 => TextRead.refused
    BY <1>3 DEF PageOf
  <2> QED
    BY <1>2, <2>1
<1>5. N \in Nat /\ N <= size - from /\ (from < size => N > 0)
  BY <1>1 DEF Least
<1>6. 0 \in Fitting /\ (N > 0 => 1 \in Fitting)
  <2>1. Json(from, 0) = 2
    BY <1>1, JsonOfLittle
  <2>2. N > 0 => text[from + 1] \in Units
    <3> HAVE N > 0
    <3>1. from + 1 \in 1 .. Len(text)
      BY <1>1, <1>5 DEF Size
    <3> QED
      BY <1>2, <3>1
  <2>3. N > 0 => Json(from, 1) \in 3 .. 8
    BY <1>1, <2>2, JsonOfLittle
  <2>4. Json(from, 0) <= Room /\ 0 \in 0 .. N
    BY <1>2, <1>4, <1>5, <2>1
  <2>5. N > 0 => Json(from, 1) <= Room /\ 1 \in 0 .. N
    BY <1>2, <1>4, <1>5, <2>3
  <2> QED
    BY <2>4, <2>5
<1>7. m \in 0 .. N /\ (N > 0 => m > 0)
  <2>1. Shrunk(from) = CHOOSE f : Is(f)
    BY DEF Shrunk
  <2>2. \A k \in 0 .. N : k \in Fitting <=> Json(from, k) <= Room
    OBVIOUS
  <2> HIDE DEF Fitting, N
  <2>3. \A f : Is(f) <=> f = [k \in 0 .. N |-> IF k \in Fitting THEN k ELSE f[(k * 8) \div 10]]
    BY <2>2
  <2>4. \E f : f = [k \in 0 .. N |-> IF k \in Fitting THEN k ELSE f[(k * 8) \div 10]]
    BY <1>5, <1>6, ShrinkExists
  <2>5. \E f : Is(f)
    <3> HIDE DEF Is
    <3> QED
      BY <2>3, <2>4
  <2>6. Is(Shrunk(from))
    <3> HIDE DEF Is
    <3> QED
      BY <2>1, <2>5
  <2> DEFINE s == Shrunk(from)
  <2>7. s = [k \in 0 .. N |-> IF k \in Fitting THEN k ELSE s[(k * 8) \div 10]]
    <3> HIDE DEF Is
    <3> QED
      BY <2>3, <2>6
  <2> HIDE DEF s
  <2>8. s[N] \in 0 .. N /\ (N > 0 => s[N] > 0)
    BY <1>5, <1>6, <2>7, ShrinkLeaves
  <2> QED
    BY <2>8 DEF s
<1> HIDE DEF m, Fitting, N, Is
<1>8. end \in Nat /\ end = from + m /\ end <= size /\ m \in Nat /\ (from < size => m > 0)
  BY <1>1, <1>5, <1>7
<1>9. \A i \in 1 .. size - 1 : text[i] = "high" => text[i + 1] # "high"
  BY <1>2 DEF HalvesApart, Size
<1>10. /\ n \in Nat /\ from + n <= size
       /\ from < size => n > 0
       /\ 0 < from + n /\ from + n < size /\ n > 0 => text[from + n] # "high"
  <2>1. CASE ~ splits
    <3>1. n = m
      BY <2>1, <1>1, <1>8
    <3>2. n > 0 /\ from + n < size => text[from + n] # "high"
      <4> HAVE n > 0 /\ from + n < size
      <4>1. end = from + n /\ end > from /\ end < size
        BY <1>1, <1>8, <3>1
      <4> QED
        BY <2>1, <4>1
    <3> QED
      BY <1>8, <3>1, <3>2
  <2>2. CASE splits /\ m = 1
    <3>1. n = 2 /\ from + n = end + 1
      BY <2>2, <1>1, <1>8
    <3>2. end \in 1 .. size - 1 /\ text[end] = "high"
      BY <2>2, <1>1, <1>8
    <3>3. end < size /\ text[end + 1] # "high"
      BY <1>9, <3>2, <1>1, <1>8
    <3> QED
      BY <1>1, <1>8, <3>1, <3>3
  <2>3. CASE splits /\ m # 1
    <3>1. n = m - 1 /\ from + n = end - 1 /\ m > 1
      BY <2>3, <1>1, <1>8
    <3>2. end - 1 \in 1 .. size - 1 /\ text[end] = "high"
      BY <2>3, <1>1, <1>8, <3>1
    <3>3. text[end - 1] # "high"
      <4>1. (end - 1) + 1 = end
        BY <1>8
      <4> QED
        BY <1>9, <3>2, <4>1
    <3> QED
      BY <1>1, <1>8, <3>1, <3>3
  <2> QED
    BY <2>1, <2>2, <2>3
<1> HIDE DEF n
<1>11. 0 < from + n /\ from + n < size => text[from + n] # "high"
  <2>1. CASE n > 0
    BY <2>1, <1>10
  <2>2. CASE n = 0
    <3>1. from < size => n > 0
      BY <1>10
    <3> QED
      BY <2>2, <3>1, <1>1
  <2> QED
    BY <1>10, <2>1, <2>2
<1> DEFINE result == TextRead
<1>12. result = PageOf(n, Entries(1, from, n), more, <<1, from + n>>) /\ more \in BOOLEAN
  BY <1>2, <1>3, <1>4
<1>13. (~ more => size <= from + n) /\ (more => n > 0)
  BY <1>1, <1>10
<1> HIDE DEF more, result
<1>14. result.listed = Entries(1, from, n) /\ result.next = <<1, from + n>> /\ result.more = more
  BY <1>12 DEF PageOf
<1>15. GoodPage(result)
  BY <1>10, <1>11, <1>12, <1>13, <1>14, SequelPage DEF Sequel
<1> QED
  BY <1>15 DEF result

-----------------------------------------------------------------------------
LEMMA BehindInClients ==
  ASSUME reading \in Reading, reading.read = "clients", NEW c, NEW e
  PROVE  e \in Behind(c) <=> \/ \E i \in 1 .. Size(1) : i <= c[1] /\ e = <<1, i>>
                             \/ \E i \in 1 .. Size(2) : i <= c[2] /\ e = <<2, i>>
<1>1. Len(reading.lists) = 2
  BY ListsRead
<1>2. e \in Everything <=> \E l \in 1 .. Len(reading.lists) : \E i \in 1 .. Size(l) : e = <<l, i>>
  BY EntriesOfLists
<1>3. \A l : l \in 1 .. Len(reading.lists) <=> l = 1 \/ l = 2
  BY <1>1
<1>4. e \in Everything <=> (\E i \in 1 .. Size(1) : e = <<1, i>>) \/ (\E i \in 1 .. Size(2) : e = <<2, i>>)
  BY <1>2, <1>3
<1>5. Precedes(e, c) <=> e[2] <= c[e[1]]
  BY DEF Precedes
<1>6. \A i : e = <<1, i>> => (Precedes(e, c) <=> i <= c[1])
  BY <1>5
<1>7. \A i : e = <<2, i>> => (Precedes(e, c) <=> i <= c[2])
  BY <1>5
<1> QED
  BY <1>4, <1>6, <1>7 DEF Behind

(* How many of each list a page has.                                       *)
LEMMA ClientsPage ==
  ASSUME reading \in Reading, at[1] \in Nat, at[2] \in Nat, Size(1) \in Nat, Size(2) \in Nat,
         at[1] <= Size(1), at[2] <= Size(2), ~ ClientsRead.refused
  PROVE  \E c, m \in Nat :
           /\ ClientsRead.listed = Entries(1, at[1], c) \o Entries(2, at[2], m)
           /\ ClientsRead.next = <<at[1] + c, at[2] + m>>
           /\ ClientsRead.more <=> at[1] + c < Size(1) \/ at[2] + m < Size(2)
           /\ at[1] + c <= Size(1) /\ at[2] + m <= Size(2)
           /\ at[1] < Size(1) => c > 0
           /\ at[2] < Size(2) => m > 0
<1> DEFINE a == at[1]
           b == at[2]
           A == Size(1)
           B == Size(2)
           clients == Least(MaxListItems, A - a)
           mappings == Least(MaxListItems, B - b)
           chars(c, m) == Chars(1, a, c) + OrOne(a + c < A) + Chars(2, b, m) + OrOne(b + m < B)
           offered == LargestFitting({m \in 0 .. mappings : 2 * chars(0, m) <= Room + chars(0, 0)})
           C == {c \in 0 .. clients : chars(c, Most(offered, 0)) <= Room}
           c0 == LargestFitting(C)
           M == {m \in 0 .. mappings : chars(Most(c0, 0), m) <= Room}
           m0 == LargestFitting(M)
           fits == c0 >= Least(1, clients) /\ m0 >= Least(1, mappings)
           more == a + c0 < A \/ b + m0 < B
           entries == Entries(1, a, c0) \o Entries(2, b, m0)
           next == <<a + c0, b + m0>>
<1>1. ClientsRead = PageOf(IF fits THEN c0 ELSE Refused, entries, more, next)
  BY DEF ClientsRead
<1>2. MaxListItems \in Nat \ {0}
  BY PagingAssumption
<1>3. clients \in Nat /\ mappings \in Nat /\ a + clients <= A /\ b + mappings <= B
      /\ (a < A => clients > 0) /\ (b < B => mappings > 0)
  BY <1>2 DEF Least
<1>4. C \in SUBSET (0 .. clients)
  OBVIOUS
<1>5. M \in SUBSET (0 .. mappings)
  OBVIOUS
<1> HIDE DEF clients, mappings, C, M
<1>6. c0 = Refused \/ c0 \in C
  <2>1. clients \in Int
    BY <1>3
  <2> QED
    BY <1>4, <2>1, Fits
<1>7. m0 = Refused \/ m0 \in M
  <2>1. mappings \in Int
    BY <1>3
  <2> QED
    BY <1>5, <2>1, Fits
<1> HIDE DEF c0, m0
<1>8. Refused = -1
  BY DEF Refused
<1>9. fits
  <2> HIDE DEF fits, entries, more, next
  <2>1. ~ fits => ClientsRead.refused
    BY <1>1 DEF PageOf
  <2> QED
    BY <2>1
<1>10. c0 \in 0 .. clients /\ (clients > 0 => c0 > 0)
  <2>1. c0 >= IF clients > 0 THEN 1 ELSE 0
    BY <1>3, <1>9 DEF Least
  <2>2. c0 # Refused
    <3>1. -1 >= (IF clients > 0 THEN 1 ELSE 0) => FALSE
      BY <1>3
    <3> QED
      BY <1>8, <2>1, <3>1
  <2>3. c0 \in 0 .. clients
    BY <1>4, <1>6, <2>2
  <2> QED
    BY <1>3, <2>1, <2>3
<1>11. m0 \in 0 .. mappings /\ (mappings > 0 => m0 > 0)
  <2>1. m0 >= IF mappings > 0 THEN 1 ELSE 0
    BY <1>3, <1>9 DEF Least
  <2>2. m0 # Refused
    <3>1. -1 >= (IF mappings > 0 THEN 1 ELSE 0) => FALSE
      BY <1>3
    <3> QED
      BY <1>8, <2>1, <3>1
  <2>3. m0 \in 0 .. mappings
    BY <1>5, <1>7, <2>2
  <2> QED
    BY <1>3, <2>1, <2>3
<1>12. /\ c0 \in Nat /\ m0 \in Nat /\ a + c0 <= A /\ b + m0 <= B
       /\ a < A => c0 > 0
       /\ b < B => m0 > 0
  BY <1>3, <1>10, <1>11
<1> DEFINE result == ClientsRead
<1>13. result = PageOf(c0, entries, more, next) /\ more \in BOOLEAN
  BY <1>1, <1>9
<1> HIDE DEF result, fits
<1>14. result.listed = entries /\ result.next = next /\ result.more = more
  <2> HIDE DEF entries, next, more
  <2> QED
    BY <1>13 DEF PageOf
<1>15. result.more <=> a + c0 < A \/ b + m0 < B
  BY <1>13, <1>14
<1>16. result.listed = Entries(1, a, c0) \o Entries(2, b, m0) /\ result.next = <<a + c0, b + m0>>
  BY <1>14
<1> HIDE DEF entries, next, more
<1>17. \E c, m \in Nat :
           /\ result.listed = Entries(1, a, c) \o Entries(2, b, m)
           /\ result.next = <<a + c, b + m>>
           /\ result.more <=> a + c < A \/ b + m < B
           /\ a + c <= A /\ b + m <= B
           /\ a < A => c > 0
           /\ b < B => m > 0
  <2> HIDE DEF a, b, A, B
  <2> c0 \in Nat /\ m0 \in Nat
    BY <1>12
  <2> WITNESS c0 \in Nat, m0 \in Nat
  <2> QED
    BY <1>12, <1>15, <1>16
<1> QED
  BY <1>17 DEF result

LEMMA ClientsAreGood ==
  ASSUME PagesInv, reading.read = "clients", ~ ClientsRead.refused
  PROVE  GoodPage(ClientsRead)
<1> DEFINE a == at[1]
           b == at[2]
           A == Size(1)
           B == Size(2)
           result == ClientsRead
           next == result.next
<1>1. reading \in Reading /\ a \in Nat /\ b \in Nat /\ a <= A /\ b <= B
  BY DEF PagesInv, PlaceOK
<1>2. A \in Nat /\ B \in Nat /\ Len(reading.lists) = 2
  BY <1>1, ListsRead
<1>3. PICK c, m \in Nat :
        /\ result.listed = Entries(1, a, c) \o Entries(2, b, m)
        /\ next = <<a + c, b + m>>
        /\ result.more <=> a + c < A \/ b + m < B
        /\ a + c <= A /\ b + m <= B
        /\ a < A => c > 0
        /\ b < B => m > 0
  BY <1>1, <1>2, ClientsPage
<1> DEFINE s == Entries(1, a, c)
           t == Entries(2, b, m)
<1>4. next[1] = a + c /\ next[2] = b + m
  BY <1>3
<1>5. \A e : e \in Behind(at) <=> \/ \E i \in 1 .. A : i <= a /\ e = <<1, i>>
                                 \/ \E i \in 1 .. B : i <= b /\ e = <<2, i>>
  BY <1>1, BehindInClients
<1> HIDE DEF next
<1>6. \A e : e \in Behind(next) <=> \/ \E i \in 1 .. A : i <= a + c /\ e = <<1, i>>
                                   \/ \E i \in 1 .. B : i <= b + m /\ e = <<2, i>>
  BY <1>1, <1>4, BehindInClients
<1>7. PlaceOK(next)
  <2>1. next[1] \in Nat /\ next[2] \in Nat /\ next[1] <= A /\ next[2] <= B
    BY <1>1, <1>3, <1>4
  <2> QED
    BY <2>1 DEF PlaceOK, Sequel
<1>8. \A e : e \in Everything <=> (\E i \in 1 .. A : e = <<1, i>>) \/ (\E i \in 1 .. B : e = <<2, i>>)
  <2>1. \A e : e \in Everything <=> \E l \in 1 .. Len(reading.lists) : \E i \in 1 .. Size(l) : e = <<l, i>>
    BY <1>1, EntriesOfLists
  <2>2. \A l : l \in 1 .. Len(reading.lists) <=> l = 1 \/ l = 2
    BY <1>2
  <2> QED
    BY <2>1, <2>2
<1> HIDE DEF a, b, A, B
<1>9. s \in Seq(Nat \X Nat) /\ Len(s) = c
  BY <1>1, Stretch
<1>10. Ordered(s) /\ \A e : e \in ToSet(s) <=> \E i \in a + 1 .. a + c : e = <<1, i>>
  <2> DEFINE l == 1
  <2>1. l \in Nat /\ a \in Nat /\ c \in Nat
    BY <1>1
  <2> HIDE DEF l
  <2>2. /\ Ordered(Entries(l, a, c))
        /\ \A e : e \in ToSet(Entries(l, a, c)) <=> \E i \in a + 1 .. a + c : e = <<l, i>>
    BY <2>1, StretchIsOrdered
  <2> QED
    BY <2>2 DEF l
<1>11. t \in Seq(Nat \X Nat) /\ Len(t) = m
  BY <1>1, Stretch
<1>12. Ordered(t) /\ \A e : e \in ToSet(t) <=> \E i \in b + 1 .. b + m : e = <<2, i>>
  <2> DEFINE l == 2
  <2>1. l \in Nat /\ b \in Nat /\ m \in Nat
    BY <1>1
  <2> HIDE DEF l
  <2>2. /\ Ordered(Entries(l, b, m))
        /\ \A e : e \in ToSet(Entries(l, b, m)) <=> \E i \in b + 1 .. b + m : e = <<l, i>>
    BY <2>1, StretchIsOrdered
  <2> QED
    BY <2>2 DEF l
<1> HIDE DEF s, t
<1>13. \A e \in ToSet(s), f \in ToSet(t) : e[1] = f[1] => e[2] < f[2]
  <2> TAKE e \in ToSet(s), f \in ToSet(t)
  <2>1. e[1] = 1
    BY <1>10
  <2>2. f[1] = 2
    BY <1>12
  <2> QED
    BY <2>1, <2>2
<1>14. /\ s \o t \in Seq(Nat \X Nat) /\ Len(s \o t) = Len(s) + Len(t) /\ Ordered(s \o t)
       /\ ToSet(s \o t) = ToSet(s) \cup ToSet(t)
  <2>1. s \in Seq(Nat \X Nat) /\ t \in Seq(Nat \X Nat) /\ Ordered(s) /\ Ordered(t)
    BY <1>9, <1>10, <1>11, <1>12
  <2> QED
    BY <1>13, <2>1, OneAfterAnother
<1> DEFINE entries == s \o t
<1>15. result.listed = entries
  BY <1>3 DEF s, t
<1>16. ASSUME NEW e \in Behind(at), NEW f \in ToSet(s) \cup ToSet(t), e[1] = f[1]
       PROVE  e[2] < f[2]
  <2>1. CASE f \in ToSet(s)
    <3>1. PICK k \in a + 1 .. a + c : f = <<1, k>>
      BY <1>10, <2>1
    <3>2. PICK i \in 1 .. A : i <= a /\ e = <<1, i>>
      BY <1>5, <1>16, <3>1
    <3> QED
      BY <1>1, <3>1, <3>2
  <2>2. CASE f \in ToSet(t)
    <3>1. PICK k \in b + 1 .. b + m : f = <<2, k>>
      BY <1>12, <2>2
    <3>2. PICK i \in 1 .. B : i <= b /\ e = <<2, i>>
      BY <1>5, <1>16, <3>1
    <3> QED
      BY <1>1, <3>1, <3>2
  <2> QED
    BY <2>1, <2>2
<1>17. Behind(next) = Behind(at) \cup (ToSet(s) \cup ToSet(t))
  <2>1. \A i \in 1 .. A : i <= a + c <=> i <= a \/ i \in a + 1 .. a + c
    BY <1>1
  <2>2. \A i \in 1 .. B : i <= b + m <=> i <= b \/ i \in b + 1 .. b + m
    BY <1>1
  <2>3. \A i \in a + 1 .. a + c : i \in 1 .. A
    BY <1>1, <1>2, <1>3
  <2>4. \A i \in b + 1 .. b + m : i \in 1 .. B
    BY <1>1, <1>2, <1>3
  <2>5. ASSUME NEW e
        PROVE  e \in Behind(next) <=> e \in Behind(at) \/ e \in ToSet(s) \/ e \in ToSet(t)
    BY <1>5, <1>6, <1>10, <1>12, <2>1, <2>2, <2>3, <2>4
  <2> QED
    BY <2>5
<1>18. ~ result.more => Behind(next) = Everything
  <2> HAVE ~ result.more
  <2>1. ~ (a + c < A) /\ ~ (b + m < B)
    BY <1>3 DEF a, b, A, B
  <2>2. \A i \in 1 .. A : i <= a + c
    BY <1>1, <1>2, <2>1
  <2>3. \A i \in 1 .. B : i <= b + m
    BY <1>1, <1>2, <2>1
  <2>4. \A e : e \in Behind(next) <=> e \in Everything
    BY <1>6, <1>8, <2>2, <2>3
  <2> QED
    BY <2>4
<1>19. result.more => entries # <<>>
  <2> HAVE result.more
  <2>1. a + c < A \/ b + m < B
    BY <1>3 DEF a, b, A, B
  <2>2. c > 0 \/ m > 0
    <3>1. (a < A => c > 0) /\ (b < B => m > 0)
      BY <1>3 DEF a, b, A, B
    <3> QED
      BY <1>1, <1>2, <2>1, <3>1
  <2>3. Len(entries) > 0
    BY <1>9, <1>11, <1>14, <2>2
  <2> QED
    BY <2>3
<1>20. reading.read \notin Sequel
  BY DEF Sequel
<1>21. entries \in Seq(Nat \X Nat) /\ Ordered(entries) /\ ToSet(entries) = ToSet(s) \cup ToSet(t)
  BY <1>14
<1>22. result.next = next
  BY DEF next
<1> HIDE DEF result, entries
<1>23. GoodPage(result)
  BY <1>7, <1>15, <1>16, <1>17, <1>18, <1>19, <1>20, <1>21, <1>22 DEF GoodPage
<1> QED
  BY <1>23 DEF result

-----------------------------------------------------------------------------
LEMMA BehindInSources ==
  ASSUME reading \in Reading, reading.read = "media", NEW c, NEW e, c[1] \in Nat
  PROVE  e \in Behind(c) <=>
           \E l \in 1 .. Len(reading.lists) :
             \/ /\ l < c[1]
                /\ IF Size(l) = 0 THEN e = <<l, 0>> ELSE \E i \in 1 .. Size(l) : e = <<l, i>>
             \/ l = c[1] /\ \E i \in 1 .. Size(l) : i <= c[2] /\ e = <<l, i>>
<1>0. Len(reading.lists) \in Nat /\ \A l \in 1 .. Len(reading.lists) : Size(l) \in Nat
  BY ListsRead
<1>1. e \in Everything <=>
           \E l \in 1 .. Len(reading.lists) :
             IF Size(l) = 0 THEN e = <<l, 0>> ELSE \E i \in 1 .. Size(l) : e = <<l, i>>
  BY EntriesOfSources
<1>2. Precedes(e, c) <=> e[1] < c[1] \/ (e[1] = c[1] /\ 0 < e[2] /\ e[2] <= c[2])
  BY DEF Precedes
<1>3. \A l \in 1 .. Len(reading.lists) :
        e = <<l, 0>> => (Precedes(e, c) <=> l < c[1])
  BY <1>2
<1>4. \A l \in 1 .. Len(reading.lists) : \A i \in 1 .. Size(l) :
        e = <<l, i>> => (Precedes(e, c) <=> l < c[1] \/ (l = c[1] /\ i <= c[2]))
  <2> TAKE l \in 1 .. Len(reading.lists)
  <2> TAKE i \in 1 .. Size(l)
  <2> HAVE e = <<l, i>>
  <2>1. e[1] = l /\ e[2] = i /\ 0 < i
    BY <1>0
  <2> QED
    BY <1>2, <2>1
<1>5. ASSUME e \in Behind(c)
      PROVE  \E l \in 1 .. Len(reading.lists) :
             \/ /\ l < c[1]
                /\ IF Size(l) = 0 THEN e = <<l, 0>> ELSE \E i \in 1 .. Size(l) : e = <<l, i>>
             \/ l = c[1] /\ \E i \in 1 .. Size(l) : i <= c[2] /\ e = <<l, i>>
  <2>1. e \in Everything /\ Precedes(e, c)
    BY <1>5 DEF Behind
  <2>2. PICK l \in 1 .. Len(reading.lists) :
             IF Size(l) = 0 THEN e = <<l, 0>> ELSE \E i \in 1 .. Size(l) : e = <<l, i>>
    BY <1>1, <2>1
  <2>3. CASE Size(l) = 0
    BY <1>3, <2>1, <2>2, <2>3
  <2>4. CASE Size(l) # 0
    <3>1. PICK i \in 1 .. Size(l) : e = <<l, i>>
      BY <2>2, <2>4
    <3>2. l < c[1] \/ (l = c[1] /\ i <= c[2])
      BY <1>4, <2>1, <3>1
    <3> QED
      BY <2>2, <2>4, <3>1, <3>2
  <2> QED
    BY <2>3, <2>4
<1>6. ASSUME NEW l \in 1 .. Len(reading.lists), l < c[1],
             IF Size(l) = 0 THEN e = <<l, 0>> ELSE \E i \in 1 .. Size(l) : e = <<l, i>>
      PROVE  e \in Behind(c)
  <2>1. e \in Everything
    BY <1>1, <1>6
  <2>2. Precedes(e, c)
    BY <1>3, <1>4, <1>6
  <2> QED
    BY <2>1, <2>2 DEF Behind
<1>7. ASSUME NEW l \in 1 .. Len(reading.lists), l = c[1],
             NEW i \in 1 .. Size(l), i <= c[2], e = <<l, i>>
      PROVE  e \in Behind(c)
  <2>1. Size(l) # 0
    BY <1>0
  <2>2. e \in Everything
    BY <1>1, <1>7, <2>1
  <2>3. Precedes(e, c)
    BY <1>4, <1>7
  <2> QED
    BY <2>2, <2>3 DEF Behind
<1> QED
  BY <1>5, <1>6, <1>7

LEMMA StretchEntries ==
  ASSUME NEW l \in Nat, NEW from \in Nat, NEW n \in Nat, NEW some, some = Entries(l, from, n)
  PROVE  Ordered(some) /\ \A e : e \in ToSet(some) <=> \E i \in from + 1 .. from + n : e = <<l, i>>
<1>1. Ordered(Entries(l, from, n))
  BY StretchIsOrdered
<1>2. \A e : e \in ToSet(Entries(l, from, n)) <=> \E i \in from + 1 .. from + n : e = <<l, i>>
  BY StretchIsOrdered
<1> QED
  BY <1>1, <1>2

(* Some streams of the source it has come to, all of them if it goes on to  *)
(* the next.                                                               *)
ReadsFrom(c, shown, d) ==
  /\ shown \in Seq(Nat \X Nat) /\ Ordered(shown) /\ shown # <<>>
  /\ \A e \in Behind(c), f \in ToSet(shown) : e[1] = f[1] => e[2] < f[2]
  /\ Behind(d) = Behind(c) \cup ToSet(shown)
  /\ PlaceOK(d)

LEMMA SourceShown ==
  ASSUME reading \in Reading, reading.read = "media",
         NEW l \in 1 .. Len(reading.lists), NEW c, NEW d, NEW n \in Nat,
         Skipped(l) \in Nat, Skipped(l) > 0 => Skipped(l) < Size(l),
         c[1] = l, c[2] = Skipped(l), Skipped(l) + n <= Size(l),
         Size(l) > 0 => n > 0,
         d = IF Skipped(l) + n < Size(l) THEN <<l, Skipped(l) + n>> ELSE <<l + 1, 0>>
  PROVE  ReadsFrom(c, Shown(l, n), d)
<1> DEFINE s == Skipped(l)
           L == Len(reading.lists)
           shown == Shown(l, n)
           All(e, k) == IF Size(k) = 0 THEN e = <<k, 0>> ELSE \E i \in 1 .. Size(k) : e = <<k, i>>
<1>1. L \in Nat /\ Size(l) \in Nat /\ l \in Nat /\ l > 0 /\ l <= L /\ \A k \in 1 .. L : Size(k) \in Nat
  BY ListsRead
<1>2. /\ Skipped(l) + n < Size(l) => d[1] = l /\ d[2] = s + n
      /\ ~ (Skipped(l) + n < Size(l)) => d[1] = l + 1 /\ d[2] = 0
  OBVIOUS
<1>3. c[1] = l /\ c[2] = s
  OBVIOUS
<1>4. d[1] \in Nat
  BY <1>1, <1>2
<1>5. PlaceOK(d)
  <2>1. d[2] \in Nat /\ d[1] \in 1 .. L + 1 /\ (d[2] > 0 => d[1] <= L /\ d[2] < Size(d[1]))
    BY <1>1, <1>2
  <2> QED
    BY <1>4, <2>1 DEF PlaceOK, Sequel
<1>6. \A e : e \in Behind(c) <=> \E k \in 1 .. L :
             \/ k < l /\ All(e, k)
             \/ k = l /\ \E i \in 1 .. Size(k) : i <= s /\ e = <<k, i>>
  <2> TAKE e
  <2>1. c[1] \in Nat
    BY <1>1, <1>3
  <2>2. e \in Behind(c) <=> \E k \in 1 .. L :
             \/ k < c[1] /\ All(e, k)
             \/ k = c[1] /\ \E i \in 1 .. Size(k) : i <= c[2] /\ e = <<k, i>>
    <3> HIDE DEF L
    <3> QED
      BY <2>1, BehindInSources DEF L
  <2> HIDE DEF s, L, All
  <2> QED
    BY <1>3, <2>2
<1>7. \A e : e \in Behind(d) <=> \E k \in 1 .. L :
             \/ k < d[1] /\ All(e, k)
             \/ k = d[1] /\ \E i \in 1 .. Size(k) : i <= d[2] /\ e = <<k, i>>
  <2> TAKE e
  <2> HIDE DEF L
  <2>1. d[1] \in Nat
    BY <1>4
  <2> QED
    BY <2>1, BehindInSources DEF L
<1>8. CASE Size(l) = 0
  <2>1. shown = <<<<l, 0>>>>
    BY <1>8 DEF Shown
  <2>2. s = 0 /\ n = 0 /\ d[1] = l + 1 /\ d[2] = 0
    BY <1>1, <1>2, <1>8
  <2>3. shown \in Seq(Nat \X Nat) /\ shown # <<>> /\ DOMAIN shown = {1} /\ shown[1] = <<l, 0>>
    <3>1. <<l, 0>> \in Nat \X Nat
      BY <1>1
    <3> QED
      BY <2>1, <3>1
  <2> HIDE DEF shown
  <2>4. Ordered(shown)
    BY <2>3 DEF Ordered
  <2>5. \A f : f \in ToSet(shown) <=> f = <<l, 0>>
    BY <2>3 DEF ToSet
  <2>6. \A e : e \in Behind(c) <=> \E k \in 1 .. L : k < l /\ All(e, k)
    BY <1>6, <1>8
  <2>7. \A e : e \in Behind(d) <=> \E k \in 1 .. L : k < l + 1 /\ All(e, k)
    BY <1>7, <1>1, <2>2
  <2>8. ASSUME NEW e \in Behind(c), NEW f \in ToSet(shown)
        PROVE  e[1] # f[1]
    <3>1. PICK k \in 1 .. L : k < l /\ All(e, k)
      BY <2>6
    <3>2. e[1] = k
      BY <3>1
    <3>3. f[1] = l
      BY <2>5
    <3> QED
      BY <1>1, <3>1, <3>2, <3>3
  <2>9. Behind(d) = Behind(c) \cup ToSet(shown)
    <3>1. \A k \in 1 .. L : k < l + 1 <=> k < l \/ k = l
      BY <1>1
    <3>2. \A e : All(e, l) <=> e = <<l, 0>>
      BY <1>8
    <3> HIDE DEF All
    <3>3. \A e : e \in Behind(d) <=> (\E k \in 1 .. L : k < l /\ All(e, k)) \/ e = <<l, 0>>
      BY <1>1, <2>7, <3>1, <3>2
    <3> QED
      BY <2>5, <2>6, <3>3
  <2> QED
    BY <1>5, <2>3, <2>4, <2>8, <2>9 DEF ReadsFrom, shown
<1>9. CASE Size(l) # 0
  <2>1. shown = Entries(l, s, n) /\ n > 0
    BY <1>1, <1>9 DEF Shown
  <2>2. shown \in Seq(Nat \X Nat) /\ Len(shown) = n
    <3>1. Entries(l, s, n) \in Seq(Nat \X Nat) /\ Len(Entries(l, s, n)) = n
      BY <1>1, Stretch
    <3> QED
      BY <2>1, <3>1
  <2>3. Ordered(shown) /\ \A e : e \in ToSet(shown) <=> \E i \in s + 1 .. s + n : e = <<l, i>>
    <3> HIDE DEF shown, s
    <3>1. s \in Nat /\ l \in Nat
      BY <1>1 DEF s
    <3> QED
      BY <2>1, <3>1, StretchEntries
  <2> HIDE DEF shown
  <2>4. shown # <<>>
    BY <2>1, <2>2
  <2>5. ASSUME NEW e \in Behind(c), NEW f \in ToSet(shown), e[1] = f[1]
        PROVE  e[2] < f[2]
    <3>1. PICK j \in s + 1 .. s + n : f = <<l, j>>
      BY <2>3
    <3>2. PICK k \in 1 .. L : \/ k < l /\ All(e, k)
                              \/ k = l /\ \E i \in 1 .. Size(k) : i <= s /\ e = <<k, i>>
      BY <1>6
    <3>3. e[1] = k
      BY <3>2
    <3>4. k = l
      BY <2>5, <3>1, <3>3
    <3>5. PICK i \in 1 .. Size(k) : i <= s /\ e = <<k, i>>
      BY <1>1, <3>2, <3>4
    <3> QED
      BY <1>1, <3>1, <3>5
  <2>6. Behind(d) = Behind(c) \cup ToSet(shown)
    <3>1. CASE s + n < Size(l)
      <4>1. d[1] = l /\ d[2] = s + n
        BY <1>2, <3>1
      <4>2. \A i \in 1 .. Size(l) : i <= s + n <=> i <= s \/ i \in s + 1 .. s + n
        BY <1>1
      <4>3. \A i \in s + 1 .. s + n : i \in 1 .. Size(l)
        BY <1>1, <3>1
      <4>4. \A e : e \in Behind(d) <=> \/ \E k \in 1 .. L : k < l /\ All(e, k)
                                       \/ \E i \in 1 .. Size(l) : i <= s + n /\ e = <<l, i>>
        <5> HIDE DEF All
        <5> QED
          BY <1>1, <1>7, <4>1
      <4>5. \A e : e \in Behind(c) <=> \/ \E k \in 1 .. L : k < l /\ All(e, k)
                                       \/ \E i \in 1 .. Size(l) : i <= s /\ e = <<l, i>>
        <5> HIDE DEF All
        <5> QED
          BY <1>1, <1>6
      <4> HIDE DEF All
      <4>6. \A e : e \in Behind(d) <=> e \in Behind(c) \/ e \in ToSet(shown)
        BY <2>3, <4>2, <4>3, <4>4, <4>5
      <4> QED
        BY <4>6
    <3>2. CASE ~ (s + n < Size(l))
      <4>1. d[1] = l + 1 /\ d[2] = 0
        BY <1>2, <3>2
      <4>2. \A i \in 1 .. Size(l) : i <= s \/ i \in s + 1 .. s + n
        BY <1>1, <3>2
      <4>3. \A i \in s + 1 .. s + n : i \in 1 .. Size(l)
        BY <1>1, <3>2
      <4>4. \A e : e \in Behind(d) <=> \/ \E k \in 1 .. L : k < l /\ All(e, k)
                                       \/ \E i \in 1 .. Size(l) : e = <<l, i>>
        <5>1. \A k \in 1 .. L : k < l + 1 <=> k < l \/ k = l
          BY <1>1
        <5>2. \A e : All(e, l) <=> \E i \in 1 .. Size(l) : e = <<l, i>>
          BY <1>9
        <5>3. \A e : ~ \E k \in 1 .. L : k = d[1] /\ \E i \in 1 .. Size(k) : i <= d[2] /\ e = <<k, i>>
          BY <1>1, <4>1
        <5> HIDE DEF All
        <5>4. \A e : e \in Behind(d) <=> \E k \in 1 .. L : k < l + 1 /\ All(e, k)
          BY <1>7, <4>1, <5>3
        <5> QED
          BY <1>1, <5>1, <5>2, <5>4
      <4>5. \A e : e \in Behind(c) <=> \/ \E k \in 1 .. L : k < l /\ All(e, k)
                                       \/ \E i \in 1 .. Size(l) : i <= s /\ e = <<l, i>>
        <5> HIDE DEF All
        <5> QED
          BY <1>1, <1>6
      <4> HIDE DEF All
      <4>6. \A e : e \in Behind(d) <=> e \in Behind(c) \/ e \in ToSet(shown)
        BY <2>3, <4>2, <4>3, <4>4, <4>5
      <4> QED
        BY <4>6
    <3> QED
      BY <3>1, <3>2
  <2> QED
    BY <1>5, <2>2, <2>3, <2>4, <2>5, <2>6 DEF ReadsFrom, shown
<1> QED
  BY <1>8, <1>9

(* What a listing of sources has come to after n of them.                   *)
ListingOK(listing, n) ==
  /\ listing.listed \in Seq(Nat \X Nat) /\ Ordered(listing.listed)
  /\ \A e \in Behind(at), f \in ToSet(listing.listed) : e[1] = f[1] => e[2] < f[2]
  /\ Behind(listing.next) = Behind(at) \cup ToSet(listing.listed)
  /\ PlaceOK(listing.next)
  /\ listing.full \in BOOLEAN
  /\ ~ listing.full => listing.next[1] = at[1] + n /\ listing.next[2] = Skipped(at[1] + n)

(* A source more.                                                          *)
LEMMA SourceAdded ==
  ASSUME reading \in Reading, reading.read = "media", PlaceOK(at),
         NEW n \in Nat, at[1] + n \in 1 .. Len(reading.lists),
         NEW listing, ListingOK(listing, n)
  PROVE  ListingOK(AddSource(listing, at[1] + n), n + 1)
<1> DEFINE l == at[1] + n
           length(c) == listing.chars + 1 + Chars(l, Skipped(l), c)
           more(c) == c < Left(l) \/ l < Len(reading.lists)
           F == {c \in 0 .. Left(l) : length(c) + OrOne(more(c)) <= Room}
           count == LargestFitting(F)
           shown == Shown(l, count)
           next == IF count < Left(l) THEN <<l, Skipped(l) + count>> ELSE <<l + 1, 0>>
           new == [listed |-> listing.listed \o shown, chars |-> length(count),
                   full |-> count < Left(l), next |-> next]
           result == AddSource(listing, l)
<1>1. result = IF listing.full THEN listing
               ELSE IF count < Least(1, Left(l)) THEN [listing EXCEPT !.full = TRUE]
               ELSE new
  BY DEF AddSource
<1>2. /\ l \in Nat /\ l \in 1 .. Len(reading.lists) /\ Size(l) \in Nat /\ at[1] \in Nat /\ at[2] \in Nat
      /\ at[2] > 0 => at[2] < Size(at[1])
  <2>1. DOMAIN reading.lists = 1 .. Len(reading.lists)
    BY ListsRead
  <2>2. Size(l) \in Nat
    BY <2>1, ListsRead
  <2> QED
    BY <2>2 DEF PlaceOK
<1>3. Skipped(l) \in Nat /\ (Skipped(l) > 0 => Skipped(l) < Size(l)) /\ Left(l) = Size(l) - Skipped(l)
  BY <1>2 DEF Skipped, Left
<1>4. Skipped(l + 1) = 0
  BY <1>2 DEF Skipped
<1>5. F \in SUBSET (0 .. Left(l))
  OBVIOUS
<1> HIDE DEF F
<1>6. count = Refused \/ count \in F
  <2>1. Left(l) \in Int
    BY <1>2, <1>3
  <2> QED
    BY <1>5, <2>1, Fits
<1> HIDE DEF count, l, result
<1>7. CASE listing.full
  <2>1. result = listing
    BY <1>1, <1>7
  <2> QED
    BY <1>7, <2>1 DEF ListingOK, result, l
<1>8. CASE ~ listing.full /\ count < Least(1, Left(l))
  <2>1. result = [listing EXCEPT !.full = TRUE]
    BY <1>1, <1>8
  <2> DEFINE P == listing.listed
             Q == listing.next
  <2>2. result.listed = P /\ result.next = Q /\ result.full = TRUE
    BY <2>1
  <2> QED
    BY <2>2 DEF ListingOK, result, l
<1>9. CASE ~ listing.full /\ ~ (count < Least(1, Left(l)))
  <2>1. result = new
    BY <1>1, <1>9
  <2>2. Left(l) \in Nat /\ Least(1, Left(l)) = IF Left(l) > 0 THEN 1 ELSE 0
    BY <1>2, <1>3 DEF Least
  <2>3. count # Refused
    <3>1. -1 < IF Left(l) > 0 THEN 1 ELSE 0
      BY <2>2
    <3> QED
      BY <1>9, <2>2, <3>1 DEF Refused
  <2>4. count \in 0 .. Left(l) /\ (Left(l) > 0 => count > 0)
    <3>1. count \in 0 .. Left(l)
      BY <1>5, <1>6, <2>3
    <3> QED
      BY <1>9, <2>2, <3>1
  <2>5. /\ count \in Nat /\ Skipped(l) + count <= Size(l) /\ (Size(l) > 0 => count > 0)
        /\ count < Left(l) <=> Skipped(l) + count < Size(l)
    BY <1>2, <1>3, <2>4
  <2>6. next = IF Skipped(l) + count < Size(l) THEN <<l, Skipped(l) + count>> ELSE <<l + 1, 0>>
    BY <2>5
  <2> DEFINE c == listing.next
             old == listing.listed
  <2>7. c[1] = l /\ c[2] = Skipped(l)
    BY <1>9 DEF ListingOK, l
  <2> HIDE DEF next
  <2>8. /\ shown \in Seq(Nat \X Nat) /\ Ordered(shown) /\ shown # <<>>
        /\ \A e \in Behind(c), f \in ToSet(shown) : e[1] = f[1] => e[2] < f[2]
        /\ Behind(next) = Behind(c) \cup ToSet(shown)
        /\ PlaceOK(next)
    <3> HIDE DEF c
    <3>1. /\ Skipped(l) \in Nat /\ (Skipped(l) > 0 => Skipped(l) < Size(l))
          /\ Skipped(l) + count <= Size(l) /\ (Size(l) > 0 => count > 0) /\ count \in Nat
      BY <1>3, <2>5
    <3>2. ReadsFrom(c, Shown(l, count), next)
      <4> HIDE DEF length, more, new, shown
      <4> QED
        BY <1>2, <2>6, <2>7, <3>1, SourceShown
    <3> QED
      BY <3>2 DEF ReadsFrom
  <2>9. /\ old \in Seq(Nat \X Nat) /\ Ordered(old)
        /\ \A e \in Behind(at), f \in ToSet(old) : e[1] = f[1] => e[2] < f[2]
        /\ Behind(c) = Behind(at) \cup ToSet(old)
    BY DEF ListingOK
  <2>10. new.listed = old \o shown /\ new.next = next /\ new.full = (count < Left(l))
    OBVIOUS
  <2>11. ~ (count < Left(l)) => next = <<l + 1, 0>>
    BY DEF next
  <2>12. (count < Left(l)) \in BOOLEAN
    OBVIOUS
  <2> HIDE DEF shown, c, old, new
  <2>13. /\ old \o shown \in Seq(Nat \X Nat) /\ Ordered(old \o shown)
         /\ ToSet(old \o shown) = ToSet(old) \cup ToSet(shown)
    BY <2>8, <2>9, OneAfterAnother
  <2>14. \A e \in Behind(at), f \in ToSet(old \o shown) : e[1] = f[1] => e[2] < f[2]
    BY <2>8, <2>9, <2>13
  <2>15. Behind(next) = Behind(at) \cup ToSet(old \o shown)
    BY <2>8, <2>9, <2>13
  <2>16. ~ (count < Left(l)) => next[1] = at[1] + (n + 1) /\ next[2] = Skipped(at[1] + (n + 1))
    <3>1. at[1] + (n + 1) = l + 1
      BY <1>2 DEF l
    <3> QED
      BY <1>4, <2>11, <3>1
  <2> DEFINE full == count < Left(l)
             entries == old \o shown
  <2>17. result.listed = entries /\ result.next = next /\ result.full = full /\ full \in BOOLEAN
    BY <2>1, <2>10, <2>12
  <2> HIDE DEF full, entries, next
  <2>18. /\ entries \in Seq(Nat \X Nat) /\ Ordered(entries)
         /\ \A e \in Behind(at), f \in ToSet(entries) : e[1] = f[1] => e[2] < f[2]
         /\ Behind(next) = Behind(at) \cup ToSet(entries)
         /\ ~ full => next[1] = at[1] + (n + 1) /\ next[2] = Skipped(at[1] + (n + 1))
    BY <2>13, <2>14, <2>15, <2>16 DEF full, entries
  <2>19. ListingOK(result, n + 1)
    BY <2>8, <2>17, <2>18 DEF ListingOK
  <2> QED
    BY <2>19 DEF result, l
<1> QED
  BY <1>7, <1>8, <1>9

LEMMA SourcesStep ==
  ASSUME NEW K \in Nat, K = Len(reading.lists) - at[1] + 1
  PROVE  /\ SourcesListed[0] = [listed |-> <<>>, chars |-> 0, full |-> FALSE, next |-> at]
         /\ \A n \in 1 .. K : SourcesListed[n] = AddSource(SourcesListed[n - 1], at[1] + n - 1)
<1> DEFINE start == [listed |-> <<>>, chars |-> 0, full |-> FALSE, next |-> at]
           Is(f) == f = [n \in 0 .. Len(reading.lists) - at[1] + 1 |->
                           IF n = 0 THEN start ELSE AddSource(f[n - 1], at[1] + n - 1)]
           Goes(f, n) == f[n] = IF n = 0 THEN start ELSE AddSource(f[n - 1], at[1] + n - 1)
           T == {n \in 0 .. K : \E f : \A m \in 0 .. n : Goes(f, m)}
<1> HIDE DEF start
<1>1. 0 \in T
  <2> DEFINE f == [m \in 0 .. 0 |-> start]
  <2>1. \A m \in 0 .. 0 : Goes(f, m)
    OBVIOUS
  <2> HIDE DEF Goes, f
  <2> QED
    BY <2>1
<1>2. ASSUME NEW n \in 1 .. K, n - 1 \in T
      PROVE  n \in T
  <2>1. PICK f : \A m \in 0 .. n - 1 : Goes(f, m)
    BY <1>2
  <2> DEFINE g == [m \in 0 .. n |-> IF m = n THEN AddSource(f[n - 1], at[1] + n - 1) ELSE f[m]]
  <2>2. ASSUME NEW m \in 0 .. n
        PROVE  Goes(g, m)
    <3>1. CASE m = n
      <4>1. m # 0 /\ n - 1 \in 0 .. n /\ n - 1 # n
        BY <3>1
      <4>2. g[m] = AddSource(f[n - 1], at[1] + n - 1) /\ g[n - 1] = f[n - 1]
        BY <3>1, <4>1
      <4> HIDE DEF g
      <4> QED
        BY <3>1, <4>1, <4>2
    <3>2. CASE m # n
      <4>1. m \in 0 .. n - 1 /\ g[m] = f[m] /\ Goes(f, m)
        BY <2>1, <3>2
      <4>2. m # 0 => m - 1 \in 0 .. n /\ m - 1 # n
        BY <3>2
      <4>3. m # 0 => g[m - 1] = f[m - 1]
        BY <4>2
      <4> HIDE DEF g
      <4> QED
        BY <4>1, <4>3
    <3> QED
      BY <3>1, <3>2
  <2> HIDE DEF g, Goes
  <2>3. \E h : \A m \in 0 .. n : Goes(h, m)
    BY <2>2
  <2> QED
    BY <2>3
<1>3. K \in T
  <2> HIDE DEF T
  <2>1. \A n \in 0 .. K : n \in T
    BY <1>1, <1>2, UpTo
  <2> QED
    BY <2>1
<1>4. PICK f : \A m \in 0 .. K : Goes(f, m)
  BY <1>3
<1> DEFINE g == [m \in 0 .. K |-> f[m]]
<1>5. \A m \in 0 .. K : g[m] = IF m = 0 THEN start ELSE AddSource(g[m - 1], at[1] + m - 1)
  <2> TAKE m \in 0 .. K
  <2>1. g[m] = f[m] /\ Goes(f, m)
    BY <1>4
  <2>2. m # 0 => m - 1 \in 0 .. K
    OBVIOUS
  <2>3. m # 0 => g[m - 1] = f[m - 1]
    BY <2>2
  <2> HIDE DEF g
  <2> QED
    BY <2>1, <2>3
<1>6. Is(g)
  <2>1. g = [m \in 0 .. K |-> g[m]]
    OBVIOUS
  <2> HIDE DEF g
  <2> QED
    BY <1>5, <2>1
<1>7. SourcesListed = CHOOSE h : Is(h)
  BY DEF SourcesListed, start
<1>8. Is(SourcesListed)
  <2> HIDE DEF Is, g
  <2> QED
    BY <1>6, <1>7
<1> DEFINE s == SourcesListed
<1>9. s = [n \in 0 .. K |-> IF n = 0 THEN start ELSE AddSource(s[n - 1], at[1] + n - 1)]
  BY <1>8
<1> HIDE DEF s
<1>10. s[0] = start /\ \A n \in 1 .. K : s[n] = AddSource(s[n - 1], at[1] + n - 1)
  <2>1. \A n \in 0 .. K : s[n] = IF n = 0 THEN start ELSE AddSource(s[n - 1], at[1] + n - 1)
    BY <1>9
  <2>2. 0 \in 0 .. K /\ \A n \in 1 .. K : n \in 0 .. K /\ n # 0
    OBVIOUS
  <2> QED
    BY <2>1, <2>2
<1> QED
  BY <1>10 DEF s, start

LEMMA MediaIsGood ==
  ASSUME PagesInv, reading.read = "media", ~ MediaRead.refused
  PROVE  GoodPage(MediaRead)
<1> DEFINE sources == Len(reading.lists)
           K == sources - at[1] + 1
           listing == SourcesListed[K]
           more == listing.next[1] <= sources
           least == IF listing.listed = <<>> /\ at[1] <= sources THEN Refused ELSE 0
           result == MediaRead
<1>1. /\ reading \in Reading /\ PlaceOK(at) /\ sources \in Nat
      /\ at[1] \in 1 .. sources + 1 /\ at[2] \in Nat
      /\ at[2] > 0 => at[1] <= sources
  BY ListsRead DEF PagesInv, PlaceOK
<1>2. K \in Nat
  BY <1>1
<1>3. result = PageOf(least, listing.listed, more, listing.next)
  BY DEF MediaRead
<1>4. /\ SourcesListed[0] = [listed |-> <<>>, chars |-> 0, full |-> FALSE, next |-> at]
      /\ \A n \in 1 .. K : SourcesListed[n] = AddSource(SourcesListed[n - 1], at[1] + n - 1)
  BY <1>2, SourcesStep
<1> DEFINE s == SourcesListed
           T == {n \in 0 .. K : ListingOK(s[n], n)}
<1>5. 0 \in T
  <2>1. s[0].listed = <<>> /\ s[0].next = at /\ s[0].full = FALSE
    BY <1>4
  <2>2. at[1] = at[1] + 0 /\ at[2] = Skipped(at[1] + 0)
    BY <1>1 DEF Skipped
  <2>3. <<>> \in Seq(Nat \X Nat) /\ Ordered(<<>>) /\ ToSet(<<>>) = {}
    BY DEF Ordered, ToSet
  <2> HIDE DEF s
  <2>4. ListingOK(s[0], 0)
    BY <1>1, <2>1, <2>2, <2>3 DEF ListingOK
  <2> QED
    BY <1>2, <2>4
<1>6. ASSUME NEW n \in 1 .. K, n - 1 \in T
      PROVE  n \in T
  <2> DEFINE k == n - 1
  <2>1. k \in Nat /\ at[1] + k \in 1 .. sources /\ k + 1 = n /\ at[1] + n - 1 = at[1] + k
    BY <1>1, <1>2
  <2>2. ListingOK(s[k], k) /\ s[n] = AddSource(s[k], at[1] + k)
    BY <1>4, <1>6, <2>1
  <2> HIDE DEF k, s
  <2>3. ListingOK(s[n], k + 1)
    BY <1>1, <2>1, <2>2, SourceAdded
  <2> QED
    BY <2>1, <2>3
<1>7. ListingOK(listing, K)
  <2> HIDE DEF T
  <2>1. \A n \in 0 .. K : n \in T
    BY <1>2, <1>5, <1>6, UpTo
  <2>2. K \in T
    BY <1>2, <2>1
  <2> QED
    BY <2>2 DEF T
<1>8. K = 0 => listing.next = at
  BY <1>4
<1> HIDE DEF listing
<1> DEFINE next == listing.next
           entries == listing.listed
<1>9. /\ entries \in Seq(Nat \X Nat) /\ Ordered(entries)
      /\ \A e \in Behind(at), f \in ToSet(entries) : e[1] = f[1] => e[2] < f[2]
      /\ Behind(next) = Behind(at) \cup ToSet(entries)
      /\ PlaceOK(next)
  BY <1>7 DEF ListingOK
<1>10. next[1] \in 1 .. sources + 1 /\ next[2] \in Nat /\ (next[2] > 0 => next[1] <= sources)
  BY <1>9 DEF PlaceOK
<1>11. ~ more => Behind(next) = Everything
  <2> HAVE ~ more
  <2>1. next[1] = sources + 1 /\ next[1] \in Nat
    BY <1>1, <1>10
  <2>2. \A l \in 1 .. sources : l < next[1]
    BY <1>1, <2>1
  <2>3. \A e : e \in Everything <=>
           \E l \in 1 .. Len(reading.lists) :
             IF Size(l) = 0 THEN e = <<l, 0>> ELSE \E i \in 1 .. Size(l) : e = <<l, i>>
    BY <1>1, EntriesOfSources
  <2> HIDE DEF next
  <2>4. \A e : e \in Behind(next) <=>
           \E l \in 1 .. Len(reading.lists) :
             \/ /\ l < next[1]
                /\ IF Size(l) = 0 THEN e = <<l, 0>> ELSE \E i \in 1 .. Size(l) : e = <<l, i>>
             \/ l = next[1] /\ \E i \in 1 .. Size(l) : i <= next[2] /\ e = <<l, i>>
    BY <1>1, <2>1, BehindInSources
  <2>5. \A e : e \in Everything => e \in Behind(next)
    BY <2>2, <2>3, <2>4
  <2> QED
    BY <2>5 DEF Behind
<1>12. more => entries # <<>>
  <2> HAVE more
  <2> SUFFICES ASSUME entries = <<>> PROVE FALSE
    OBVIOUS
  <2>1. CASE at[1] <= sources
    <3>1. least = Refused
      BY <2>1
    <3> HIDE DEF least, more, listing, result
    <3>2. result.refused
      BY <1>3, <3>1 DEF PageOf
    <3> QED
      BY <3>2 DEF result
  <2>2. CASE ~ (at[1] <= sources)
    <3>1. K = 0 /\ at[1] = sources + 1
      BY <1>1, <2>2
    <3>2. next = at
      BY <1>8, <3>1
    <3> QED
      BY <1>1, <3>1, <3>2
  <2> QED
    BY <2>1, <2>2
<1>13. reading.read \notin Sequel
  BY DEF Sequel
<1>14. more \in BOOLEAN
  OBVIOUS
<1> HIDE DEF result, more, least, next, entries
<1>15. result.listed = entries /\ result.more = more /\ result.next = next
  BY <1>3 DEF PageOf, entries, next
<1>16. GoodPage(result)
  BY <1>9, <1>11, <1>12, <1>13, <1>14, <1>15 DEF GoodPage
<1> QED
  BY <1>16 DEF result

-----------------------------------------------------------------------------
(* A page lists, in order, what lies between its place and the next one.     *)
LEMMA PageIsGood ==
  ASSUME PagesInv, ~ Page.refused
  PROVE  GoodPage(Page)
<1>1. reading.read \in OneList \cup {"clients", "media", "text"}
  BY ListsRead DEF PagesInv
<1>2. CASE reading.read = "queue"
  <2>1. Page = QueueRead
    BY <1>2 DEF Page
  <2> QED
    BY <1>2, <2>1, QueueIsGood
<1>3. CASE reading.read = "blocklist"
  <2>1. Page = BlocklistRead
    BY <1>3 DEF Page
  <2> QED
    BY <1>3, <2>1, BlocklistIsGood
<1>4. CASE reading.read = "scores"
  <2>1. Page = ScoresRead
    BY <1>4 DEF Page
  <2> QED
    BY <1>4, <2>1, ScoresAreGood
<1>5. CASE reading.read = "history"
  <2>1. Page = HistoryRead
    BY <1>5 DEF Page
  <2> QED
    BY <1>5, <2>1, HistoryIsGood
<1>6. CASE reading.read = "children"
  <2>1. Page = ChildrenRead
    BY <1>6 DEF Page
  <2> QED
    BY <1>6, <2>1, ChildrenAreGood
<1>7. CASE reading.read = "people"
  <2>1. Page = PeopleRead
    BY <1>7 DEF Page
  <2> QED
    BY <1>7, <2>1, PeopleAreGood
<1>8. CASE reading.read = "jobs"
  <2>1. Page = JobsRead
    BY <1>8 DEF Page
  <2> QED
    BY <1>8, <2>1, JobsAreGood
<1>9. CASE reading.read = "clients"
  <2>1. Page = ClientsRead
    BY <1>9 DEF Page
  <2> QED
    BY <1>9, <2>1, ClientsAreGood
<1>10. CASE reading.read = "media"
  <2>1. Page = MediaRead
    BY <1>10 DEF Page
  <2> QED
    BY <1>10, <2>1, MediaIsGood
<1>11. CASE reading.read = "text"
  <2>1. Page = TextRead
    BY <1>11 DEF Page
  <2> QED
    BY <1>11, <2>1, TextIsGood
<1> QED
  BY <1>1, <1>2, <1>3, <1>4, <1>5, <1>6, <1>7, <1>8, <1>9, <1>10, <1>11 DEF OneList

(* Nothing lies behind where a read starts.                                 *)
LEMMA PagesStart == PagesInit => PagesInv
<1> SUFFICES ASSUME PagesInit PROVE PagesInv
  OBVIOUS
<1>1. /\ reading \in Reading /\ seen = <<>> /\ caller = "reading"
      /\ at = IF reading.read = "clients" THEN <<0, 0>> ELSE <<1, 0>>
  BY DEF PagesInit
<1>2. reading.read \in OneList \cup {"clients", "media", "text"} /\ Len(reading.lists) \in Nat
  BY <1>1, ListsRead
<1>3. seen \in Seq(Nat \X Nat) /\ Ordered(seen) /\ ToSet(seen) = {} /\ Len(seen) = 0
  BY <1>1 DEF Ordered, ToSet
<1>4. at[2] = 0 /\ (reading.read = "clients" => at[1] = 0) /\ (reading.read # "clients" => at[1] = 1)
  BY <1>1
<1>5. PlaceOK(at)
  <2>1. /\ reading.limit \in Nat /\ reading.limit > 0
        /\ reading.read \in OneList \cup {"text"} => Size(1) \in Nat
        /\ reading.read = "clients" => Size(1) \in Nat /\ Size(2) \in Nat
    BY <1>1, ListsRead
  <2>2. reading.read = "history" => at[1] > 0 /\ at[2] < reading.limit
    BY <1>4, <2>1
  <2>3. reading.read = "clients" => at[1] <= Size(1) /\ at[2] <= Size(2)
    BY <1>4, <2>1
  <2>4. reading.read = "media" => at[1] \in 1 .. Len(reading.lists) + 1 /\ ~ (at[2] > 0)
    BY <1>2, <1>4
  <2>5. reading.read \in Sequel => at[2] <= Size(1)
    BY <1>4, <2>1 DEF Sequel, OneList
  <2>6. ~ (0 < at[2])
    BY <1>4
  <2>7. at[1] \in Nat /\ at[2] \in Nat
    BY <1>4
  <2> QED
    BY <2>2, <2>3, <2>4, <2>5, <2>6, <2>7 DEF PlaceOK
<1>6. \A e : e \notin Behind(at)
  <2> TAKE e
  <2>1. CASE reading.read = "clients"
    <3>1. e \in Behind(at) <=> \/ \E i \in 1 .. Size(1) : i <= at[1] /\ e = <<1, i>>
                               \/ \E i \in 1 .. Size(2) : i <= at[2] /\ e = <<2, i>>
      BY <1>1, <2>1, BehindInClients
    <3> QED
      BY <1>4, <2>1, <3>1
  <2>2. CASE reading.read = "media"
    <3>1. at[1] \in Nat
      BY <1>4, <2>2
    <3>2. e \in Behind(at) <=>
           \E l \in 1 .. Len(reading.lists) :
             \/ /\ l < at[1]
                /\ IF Size(l) = 0 THEN e = <<l, 0>> ELSE \E i \in 1 .. Size(l) : e = <<l, i>>
             \/ l = at[1] /\ \E i \in 1 .. Size(l) : i <= at[2] /\ e = <<l, i>>
      BY <1>1, <2>2, <3>1, BehindInSources
    <3>3. \A l \in 1 .. Len(reading.lists) : ~ (l < at[1])
      BY <1>2, <1>4, <2>2
    <3>4. \A l : \A i \in 1 .. Size(l) : ~ (i <= at[2])
      BY <1>4
    <3> QED
      BY <3>2, <3>3, <3>4
  <2>3. CASE reading.read \in OneList \cup {"text"}
    <3> DEFINE p == IF reading.read = "history" THEN (at[1] - 1) * reading.limit + at[2] ELSE at[2]
    <3>1. p = 0
      <4>1. reading.read = "history" => (at[1] - 1) * reading.limit = 0
        <5>1. 0 * reading.limit = 0
          BY <1>1, ListsRead
        <5> QED
          BY <1>4, <5>1
      <4> QED
        BY <1>4, <4>1
    <3> HIDE DEF p
    <3>2. e \in Behind(at) <=> \E i \in 1 .. Size(1) : i <= p /\ e = <<1, i>>
      BY <1>1, <2>3, BehindInList DEF p
    <3> QED
      BY <3>1, <3>2
  <2> QED
    BY <1>2, <2>1, <2>2, <2>3
<1> QED
  BY <1>1, <1>3, <1>4, <1>5, <1>6 DEF PagesInv

(* A page listed after what was seen: it is seen what lies behind the next.  *)
LEMMA PagesStep == PagesInv /\ [ReadsOn]_pageVars => PagesInv'
<1> SUFFICES ASSUME PagesInv, [ReadsOn]_pageVars PROVE PagesInv'
  OBVIOUS
<1>1. CASE UNCHANGED pageVars
  BY <1>1 DEF PagesInv, pageVars, PlaceOK, Ordered, Behind, Precedes, Everything, Size, List
<1>2. CASE ReadsOn /\ Page.refused
  <2>1. UNCHANGED <<reading, at, seen>> /\ caller' = "refused"
    BY <1>2 DEF ReadsOn
  <2> QED
    BY <2>1 DEF PagesInv, PlaceOK, Ordered, Behind, Precedes, Everything, Size, List
<1>3. CASE ReadsOn /\ ~ Page.refused
  <2>1. UNCHANGED reading /\ seen' = seen \o Page.listed /\ at' = Page.next
        /\ caller' = IF Page.more THEN "reading" ELSE "over"
    BY <1>3 DEF ReadsOn
  <2>2. GoodPage(Page)
    BY <1>3, PageIsGood
  <2> DEFINE entries == Page.listed
             next == Page.next
             more == Page.more
             after == seen \o entries
  <2>3. /\ entries \in Seq(Nat \X Nat) /\ Ordered(entries)
        /\ \A e \in Behind(at), f \in ToSet(entries) : e[1] = f[1] => e[2] < f[2]
        /\ Behind(next) = Behind(at) \cup ToSet(entries)
        /\ PlaceOK(next) /\ (~ more => Behind(next) = Everything)
    BY <2>2 DEF GoodPage
  <2>4. /\ reading \in Reading /\ seen \in Seq(Nat \X Nat) /\ Ordered(seen) /\ ToSet(seen) = Behind(at)
        /\ PlaceOK(at)
    BY DEF PagesInv
  <2>5. reading.read \in Sequel =>
          /\ next[2] = at[2] + Len(entries) /\ (entries # <<>> => Last(entries)[2] = next[2])
          /\ Len(seen) = at[2] /\ (seen # <<>> => Last(seen)[2] = at[2])
    BY <2>2 DEF GoodPage, PagesInv
  <2>6. reading' = reading /\ seen' = after /\ at' = next /\ (caller' = "over" => ~ more)
    BY <2>1
  <2> HIDE DEF entries, next, more
  <2>7. /\ after \in Seq(Nat \X Nat) /\ Len(after) = Len(seen) + Len(entries) /\ Ordered(after)
        /\ ToSet(after) = ToSet(seen) \cup ToSet(entries)
        /\ entries # <<>> => Last(after) = Last(entries)
    BY <2>3, <2>4, OneAfterAnother
  <2>8. entries = <<>> => after = seen /\ Len(entries) = 0
    BY <2>4
  <2>9. after # <<>> /\ entries = <<>> => seen # <<>>
    BY <2>8
  <2> HIDE DEF after
  <2>10. ToSet(after) = Behind(next)
    BY <2>3, <2>4, <2>7
  <2>11. at[2] \in Nat /\ Len(entries) \in Nat
    BY <2>3, <2>4 DEF PlaceOK
  <2>12. reading.read \in Sequel => Len(after) = next[2] /\ (after # <<>> => Last(after)[2] = next[2])
    <3> HAVE reading.read \in Sequel
    <3>1. Len(after) = next[2]
      BY <2>5, <2>7
    <3>2. CASE entries = <<>>
      BY <2>5, <2>8, <2>9, <2>11, <3>2
    <3>3. CASE entries # <<>>
      BY <2>5, <2>7, <3>3
    <3> QED
      BY <3>1, <3>2, <3>3
  <2>13. (Behind(next) = Behind(at)') /\ (PlaceOK(next) <=> PlaceOK(at)') /\ (Ordered(after) <=> Ordered(seen)')
         /\ (Everything = Everything')
    BY <2>6 DEF PlaceOK, Ordered, Behind, Precedes, Everything, Size, List
  <2>14. /\ (reading \in Reading)' /\ (seen \in Seq(Nat \X Nat))' /\ Ordered(seen)' /\ PlaceOK(at)'
         /\ (ToSet(seen) = Behind(at))'
    BY <2>3, <2>4, <2>6, <2>7, <2>10, <2>13
  <2>15. (caller = "over" => Behind(at) = Everything)'
    BY <2>3, <2>6, <2>13
  <2>16. (reading.read \in Sequel => Len(seen) = at[2] /\ (seen # <<>> => Last(seen)[2] = at[2]))'
    BY <2>6, <2>12 DEF Sequel
  <2> QED
    BY <2>14, <2>15, <2>16 DEF PagesInv
<1> QED
  BY <1>1, <1>2, <1>3

(* What the invariant says of what was seen, a good page says of the next.   *)
LEMMA ReadOnce == PagesInv => EverythingOnce
<1> SUFFICES ASSUME PagesInv PROVE EverythingOnce
  OBVIOUS
<1>1. \A i, j \in DOMAIN seen : i < j /\ seen[i][1] = seen[j][1] => seen[i][2] < seen[j][2]
  BY DEF PagesInv, Ordered
<1>2. caller = "over" => ToSet(seen) = Everything
  BY DEF PagesInv
<1>3. WithinReach => ~ NothingListed
  <2> SUFFICES ASSUME WithinReach, NothingListed PROVE FALSE
    OBVIOUS
  <2>1. ~ Page.refused /\ Page.more /\ Page.listed = <<>>
    BY DEF NothingListed
  <2>2. GoodPage(Page)
    BY <2>1, PageIsGood
  <2> QED
    BY <2>1, <2>2 DEF GoodPage
<1>4. ~ Splits
  <2> SUFFICES ASSUME reading.read = "text", seen # <<>>, Last(seen)[2] < Size(1), List(1)[Last(seen)[2]] = "high"
               PROVE  FALSE
    BY DEF Splits
  <2>1. reading.read \in Sequel
    BY DEF Sequel
  <2>2. Last(seen)[2] = at[2] /\ Len(seen) = at[2] /\ seen \in Seq(Nat \X Nat) /\ PlaceOK(at)
    BY <2>1 DEF PagesInv
  <2>3. at[2] > 0
    BY <2>2
  <2>4. ~ (0 < at[2] /\ at[2] < Size(1) /\ List(1)[at[2]] = "high")
    BY <2>2 DEF PlaceOK
  <2> QED
    BY <2>2, <2>3, <2>4
<1> QED
  BY <1>1, <1>2, <1>3, <1>4 DEF EverythingOnce

(* Whoever reads on lists every entry once and in order, for every list,     *)
(* limit and room: whatever each page has room for, none skips or repeats an *)
(* entry, none that says more is left is empty, the last leaves nothing out, *)
(* and none ends within a pair of surrogates (results.ts:77-101,             *)
(* history.ts:24-69, media.ts:62-69, firecrawl.ts:244-297).                  *)
THEOREM EverythingIsReadOnce == PagesSpec => []EverythingOnce
<1>1. PagesInit => PagesInv
  BY PagesStart
<1>2. PagesInv /\ [ReadsOn]_pageVars => PagesInv'
  BY PagesStep
<1>3. PagesInv => EverythingOnce
  BY ReadOnce
<1> QED
  BY <1>1, <1>2, <1>3, PTL DEF PagesSpec
=============================================================================
